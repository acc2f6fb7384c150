--------------------------- MODULE TrackersProofs ---------------------------
(***************************************************************************)
(* What holds of the trackers of a session for every number of trackers    *)
(* and of calls.                                                           *)
(*                                                                         *)
(* The inductive invariant is the conjunction of the types and of:         *)
(*   ResultInv  a call gets one result of a tracker, and only of one that  *)
(*              it asked and whose goroutine has ended;                    *)
(*   OnceInv    a request is answered by one datagram, and what is in the  *)
(*              socket is no longer on the way to the tracker;             *)
(*   FreshInv   a request is not on the way before its goroutine sent it,  *)
(*              and no longer when its answer has been taken.              *)
(***************************************************************************)
EXTENDS Trackers, TLAPS

Phases == {"off", "starting", "connect", "announce", "done"}
Ids == Calls \X {"connect", "announce"}
Datagrams == [id : Ids, says : Results \cup {"connected"}]

RequestTyped ==
  /\ request \in [Calls -> [AllTrackers -> Phases]]
  /\ asked \in [Calls -> SUBSET AllTrackers] /\ collected \in [Calls -> SUBSET AllTrackers]
ResultTyped == results \in [Calls -> Seq(AllTrackers \X Results)]
WireTyped == wire \in [Udp -> SUBSET Ids]
InboxTyped ==
  /\ inbox \in [Udp -> Seq(Datagrams)]
  /\ \A t \in Udp : \A i \in 1 .. Len(inbox[t]) : inbox[t][i].id[2] = "announce" => inbox[t][i].says \in Results
AnswerTyped ==
  /\ active \in [AllTrackers -> BOOLEAN] /\ connected \in [Udp -> BOOLEAN]
  /\ best \in [Calls -> AllTrackers \cup {Unset}]
  /\ answer \in [Calls -> AllTrackers \cup {Unset, NoAnswer}]

Typed == RequestTyped /\ ResultTyped /\ WireTyped /\ InboxTyped /\ AnswerTyped

LEMMA TypedIsType == Typed => TrackersTypeOK
  <1> SUFFICES ASSUME Typed PROVE TrackersTypeOK
    OBVIOUS
  <1>1. \A t \in Udp : \A i \in 1 .. Len(inbox[t]) : inbox[t][i] \in Datagrams
    BY DEF Typed, InboxTyped
  <1>2. /\ request \in [Calls -> [AllTrackers -> Phases]] /\ asked \in [Calls -> SUBSET AllTrackers]
        /\ collected \in [Calls -> SUBSET AllTrackers]
    BY DEF Typed, RequestTyped
  <1>3. results \in [Calls -> Seq(AllTrackers \X Results)] /\ wire \in [Udp -> SUBSET Ids]
    BY DEF Typed, ResultTyped, WireTyped
  <1> QED
    BY <1>1, <1>2, <1>3 DEF Typed, AnswerTyped, TrackersTypeOK, Ids, Phases, Datagrams

LEMMA TailFacts ==
  ASSUME NEW S, NEW s \in Seq(S), s # <<>>
  PROVE  /\ Tail(s) \in Seq(S) /\ Len(s) \in Nat \ {0} /\ Head(s) = s[1] /\ s[1] \in S
         /\ Len(Tail(s)) = Len(s) - 1 /\ \A i \in 1 .. Len(Tail(s)) : i + 1 \in 1 .. Len(s) /\ Tail(s)[i] = s[i + 1]
  OBVIOUS

LEMMA AppendFacts ==
  ASSUME NEW S, NEW s \in Seq(S), NEW e \in S
  PROVE  /\ Append(s, e) \in Seq(S) /\ Len(Append(s, e)) = Len(s) + 1 /\ Len(s) \in Nat
         /\ \A i \in 1 .. Len(s) : Append(s, e)[i] = s[i]
         /\ Append(s, e)[Len(s) + 1] = e
  OBVIOUS

LEMMA RequestStep ==
  ASSUME RequestTyped, ResultTyped, TrackersNext
  PROVE  RequestTyped'
  <1> USE DEF RequestTyped, Phases
  <1>1. ASSUME NEW c \in Calls, AnnounceBegins(c) PROVE RequestTyped'
    BY <1>1 DEF AnnounceBegins, ActiveTrackers
  <1>2. ASSUME NEW c \in Calls, CollectsResult(c) PROVE RequestTyped'
    <2>1. results[c] \in Seq(AllTrackers \X Results) /\ results[c] # <<>>
      BY <1>2 DEF CollectsResult, ResultTyped
    <2>2. Head(results[c])[1] \in AllTrackers
      BY <2>1, TailFacts
    <2> QED
      BY <1>2, <2>2 DEF CollectsResult
  <1>3. ASSUME NEW c \in Calls, NEW t \in AllTrackers,
               \E phase \in Phases : request' = [request EXCEPT ![c][t] = phase],
               UNCHANGED <<asked, collected>>
        PROVE  RequestTyped'
    BY <1>3
  <1>4. ASSUME NEW c \in Calls, NEW t \in Udp, UdpBegins(c, t) \/ UdpReads(c, t) \/ UdpTimesOut(c, t)
        PROVE  RequestTyped'
    <2>1. t \in AllTrackers
      BY DEF AllTrackers
    <2> QED
      BY <1>3, <1>4, <2>1 DEF UdpBegins, UdpReads, UdpTimesOut, Send, Finish
  <1>5. ASSUME NEW c \in Calls, NEW t \in Http, HttpFails(c, t) PROVE RequestTyped'
    BY <1>3, <1>5 DEF HttpFails, Finish, AllTrackers
  <1>6. ASSUME NEW t \in Udp, Expires(t) PROVE RequestTyped'
    BY <1>6 DEF Expires
  <1>7. ASSUME NEW t \in Udp, NEW id \in wire[t], NEW says, Answer(t, id, says) PROVE RequestTyped'
    BY <1>7 DEF Answer
  <1> QED
    BY <1>1, <1>2, <1>4, <1>5, <1>6, <1>7 DEF TrackersNext, TrackersStep

LEMMA ResultStep ==
  ASSUME RequestTyped, ResultTyped, InboxTyped, TrackersNext
  PROVE  ResultTyped'
  <1> USE DEF ResultTyped
  <1>1. ASSUME NEW c \in Calls, AnnounceBegins(c) PROVE ResultTyped'
    BY <1>1 DEF AnnounceBegins
  <1>2. ASSUME NEW c \in Calls, CollectsResult(c) PROVE ResultTyped'
    <2>1. results[c] \in Seq(AllTrackers \X Results) /\ results[c] # <<>>
          /\ results' = [results EXCEPT ![c] = Tail(@)]
      BY <1>2 DEF CollectsResult
    <2>2. Tail(results[c]) \in Seq(AllTrackers \X Results)
      BY <2>1, TailFacts
    <2> QED
      BY <2>1, <2>2
  <1>3. ASSUME NEW c \in Calls, NEW t \in AllTrackers, NEW result \in Results,
               Finish(c, t, result) \/ UNCHANGED results
        PROVE  ResultTyped'
    <2>1. <<t, result>> \in AllTrackers \X Results
      OBVIOUS
    <2>2. Append(results[c], <<t, result>>) \in Seq(AllTrackers \X Results)
      BY <2>1, AppendFacts
    <2> QED
      BY <1>3, <2>2 DEF Finish
  <1>4. ASSUME NEW c \in Calls, NEW t \in Udp, UdpBegins(c, t) \/ UdpReads(c, t) \/ UdpTimesOut(c, t)
        PROVE  ResultTyped'
    <2>1. t \in AllTrackers /\ "error" \in Results
      BY DEF AllTrackers, Results
    <2>2. CASE UdpReads(c, t)
      <3>1. inbox[t] \in Seq(Datagrams) /\ inbox[t] # <<>>
        BY <2>2 DEF UdpReads, InboxTyped
      <3>2. Head(inbox[t]) = inbox[t][1] /\ 1 \in 1 .. Len(inbox[t])
        BY <3>1, TailFacts
      <3>3. \/ \E result \in {"error"} : Finish(c, t, result)
            \/ UNCHANGED results
            \/ /\ Head(inbox[t]).id = <<c, "announce">> /\ Finish(c, t, Head(inbox[t]).says)
        BY <2>2 DEF UdpReads, IsAnswer, Transaction
      <3> QED
        BY <1>3, <2>1, <3>2, <3>3 DEF InboxTyped
    <2>3. CASE UdpBegins(c, t) \/ UdpTimesOut(c, t)
      BY <1>3, <2>1, <2>3 DEF UdpBegins, UdpTimesOut
    <2> QED
      BY <1>4, <2>2, <2>3
  <1>5. ASSUME NEW c \in Calls, NEW t \in Http, HttpFails(c, t) PROVE ResultTyped'
    BY <1>3, <1>5 DEF HttpFails, AllTrackers, Results
  <1>6. ASSUME NEW t \in Udp, Expires(t) PROVE ResultTyped'
    BY <1>6 DEF Expires
  <1>7. ASSUME NEW t \in Udp, NEW id \in wire[t], NEW says, Answer(t, id, says) PROVE ResultTyped'
    BY <1>7 DEF Answer
  <1> QED
    BY <1>1, <1>2, <1>4, <1>5, <1>6, <1>7 DEF TrackersNext, TrackersStep

LEMMA WireStep ==
  ASSUME WireTyped, TrackersNext
  PROVE  WireTyped'
  <1> USE DEF WireTyped
  <1>1. ASSUME NEW c \in Calls, AnnounceBegins(c) \/ CollectsResult(c) PROVE UNCHANGED wire
    BY <1>1 DEF AnnounceBegins, CollectsResult
  <1>2. ASSUME NEW c \in Calls, NEW t \in Http, HttpFails(c, t) PROVE UNCHANGED wire
    BY <1>2 DEF HttpFails
  <1>3. ASSUME NEW t \in Udp, Expires(t) PROVE UNCHANGED wire
    BY <1>3 DEF Expires
  <1>4. ASSUME NEW c \in Calls, NEW t \in Udp, NEW action \in {"connect", "announce"}, Send(c, t, action)
        PROVE  WireTyped'
    BY <1>4 DEF Send, Transaction, Ids
  <1>5. ASSUME NEW c \in Calls, NEW t \in Udp, UdpBegins(c, t) \/ UdpReads(c, t) \/ UdpTimesOut(c, t)
        PROVE  WireTyped'
    <2>1. UNCHANGED wire \/ \E action \in {"connect", "announce"} : Send(c, t, action)
      BY <1>5 DEF UdpBegins, UdpReads, UdpTimesOut
    <2> QED
      BY <1>4, <2>1
  <1>6. ASSUME NEW t \in Udp, NEW id \in wire[t], NEW says, Answer(t, id, says) PROVE WireTyped'
    BY <1>6 DEF Answer
  <1> QED
    BY <1>1, <1>2, <1>3, <1>5, <1>6 DEF TrackersNext, TrackersStep

LEMMA InboxStep ==
  ASSUME WireTyped, InboxTyped, TrackersNext
  PROVE  InboxTyped'
  <1>1. ASSUME NEW c \in Calls, AnnounceBegins(c) \/ CollectsResult(c) PROVE UNCHANGED inbox
    BY <1>1 DEF AnnounceBegins, CollectsResult
  <1>2. ASSUME NEW c \in Calls, NEW t \in Http, HttpFails(c, t) PROVE UNCHANGED inbox
    BY <1>2 DEF HttpFails
  <1>3. ASSUME NEW t \in Udp, Expires(t) PROVE UNCHANGED inbox
    BY <1>3 DEF Expires
  <1>4. ASSUME NEW c \in Calls, NEW t \in Udp, UdpReads(c, t) PROVE InboxTyped'
    <2>1. inbox[t] \in Seq(Datagrams) /\ inbox[t] # <<>> /\ inbox' = [inbox EXCEPT ![t] = Tail(@)]
      BY <1>4 DEF UdpReads, InboxTyped
    <2>2. /\ Tail(inbox[t]) \in Seq(Datagrams)
          /\ \A i \in 1 .. Len(Tail(inbox[t])) :
               i + 1 \in 1 .. Len(inbox[t]) /\ Tail(inbox[t])[i] = inbox[t][i + 1]
      BY <2>1, TailFacts
    <2>3. inbox' \in [Udp -> Seq(Datagrams)]
      BY <2>1, <2>2 DEF InboxTyped
    <2>4. ASSUME NEW s \in Udp, NEW i \in 1 .. Len(inbox'[s]), inbox'[s][i].id[2] = "announce"
          PROVE  inbox'[s][i].says \in Results
      <3>1. CASE s = t
        BY <2>1, <2>2, <2>4, <3>1 DEF InboxTyped
      <3>2. CASE s # t
        BY <2>1, <2>4, <3>2 DEF InboxTyped
      <3> QED
        BY <3>1, <3>2
    <2> QED
      BY <2>3, <2>4 DEF InboxTyped
  <1>5. ASSUME NEW c \in Calls, NEW t \in Udp, UdpBegins(c, t) \/ UdpTimesOut(c, t) PROVE UNCHANGED inbox
    BY <1>5 DEF UdpBegins, UdpTimesOut
  <1>6. ASSUME NEW t \in Udp, NEW id \in wire[t], NEW says, Answer(t, id, says) PROVE InboxTyped'
    <2> DEFINE new == [id |-> id, says |-> says]
    <2>1. id \in Ids /\ says \in Results \cup {"connected"} /\ (id[2] = "announce" => says \in Results)
      BY <1>6 DEF Answer, WireTyped, Results
    <2>2. new \in Datagrams /\ new.id = id /\ new.says = says
      BY <2>1 DEF Datagrams
    <2>3. inbox[t] \in Seq(Datagrams) /\ inbox' = [inbox EXCEPT ![t] = Append(@, new)]
      BY <1>6 DEF Answer, InboxTyped
    <2> HIDE DEF new
    <2>4. /\ Append(inbox[t], new) \in Seq(Datagrams) /\ Len(Append(inbox[t], new)) = Len(inbox[t]) + 1
          /\ Len(inbox[t]) \in Nat /\ \A i \in 1 .. Len(inbox[t]) : Append(inbox[t], new)[i] = inbox[t][i]
          /\ Append(inbox[t], new)[Len(inbox[t]) + 1] = new
      BY <2>2, <2>3, AppendFacts
    <2>5. inbox' \in [Udp -> Seq(Datagrams)]
      BY <2>3, <2>4 DEF InboxTyped
    <2>6. ASSUME NEW s \in Udp, NEW i \in 1 .. Len(inbox'[s]), inbox'[s][i].id[2] = "announce"
          PROVE  inbox'[s][i].says \in Results
      <3>1. CASE s = t
        <4>1. inbox'[s] = Append(inbox[t], new) /\ (i \in 1 .. Len(inbox[t]) \/ i = Len(inbox[t]) + 1)
          BY <2>3, <2>4, <2>6, <3>1 DEF InboxTyped
        <4> QED
          BY <2>1, <2>2, <2>4, <2>6, <4>1 DEF InboxTyped
      <3>2. CASE s # t
        BY <2>3, <2>6, <3>2 DEF InboxTyped
      <3> QED
        BY <3>1, <3>2
    <2> QED
      BY <2>5, <2>6 DEF InboxTyped
  <1>7. UNCHANGED inbox => InboxTyped'
    BY DEF InboxTyped
  <1> QED
    BY <1>1, <1>2, <1>3, <1>4, <1>5, <1>6, <1>7 DEF TrackersNext, TrackersStep

LEMMA AnswerStep ==
  ASSUME RequestTyped, ResultTyped, AnswerTyped, TrackersNext
  PROVE  AnswerTyped'
  <1> USE DEF AnswerTyped
  <1>1. ASSUME NEW c \in Calls, AnnounceBegins(c) PROVE AnswerTyped'
    BY <1>1 DEF AnnounceBegins
  <1>2. ASSUME NEW c \in Calls, CollectsResult(c) PROVE AnswerTyped'
    <2>1. results[c] \in Seq(AllTrackers \X Results) /\ results[c] # <<>>
      BY <1>2 DEF CollectsResult, ResultTyped
    <2>2. Head(results[c])[1] \in AllTrackers
      BY <2>1, TailFacts
    <2>3. /\ \E t \in AllTrackers, b \in BOOLEAN : active' = [active EXCEPT ![t] = b]
          /\ \E b \in AllTrackers \cup {Unset} : best' = [best EXCEPT ![c] = b]
          /\ \E b \in AllTrackers \cup {Unset, NoAnswer} : answer' = [answer EXCEPT ![c] = b]
          /\ UNCHANGED connected
      BY <1>2, <2>2, TrackersAssumption DEF CollectsResult, MarkTrackerStatus
    <2> QED
      BY <2>3
  <1>3. ASSUME NEW c \in Calls, NEW t \in Udp, UdpBegins(c, t) \/ UdpReads(c, t) \/ UdpTimesOut(c, t)
        PROVE  AnswerTyped'
    BY <1>3 DEF UdpBegins, UdpReads, UdpTimesOut
  <1>4. ASSUME NEW c \in Calls, NEW t \in Http, HttpFails(c, t) PROVE AnswerTyped'
    BY <1>4 DEF HttpFails
  <1>5. ASSUME NEW t \in Udp, Expires(t) PROVE AnswerTyped'
    BY <1>5 DEF Expires
  <1>6. ASSUME NEW t \in Udp, NEW id \in wire[t], NEW says, Answer(t, id, says) PROVE AnswerTyped'
    BY <1>6 DEF Answer
  <1> QED
    BY <1>1, <1>2, <1>3, <1>4, <1>5, <1>6 DEF TrackersNext, TrackersStep

LEMMA TypeStep == ASSUME Typed, TrackersNext PROVE Typed'
  BY RequestStep, ResultStep, WireStep, InboxStep, AnswerStep DEF Typed

-----------------------------------------------------------------------------
(* One result per tracker and call                                          *)

Entry(c, i) == results[c][i][1]

ResultInv ==
  /\ \A c \in Calls : \A i \in 1 .. Len(results[c]) :
       Entry(c, i) \in asked[c] \ collected[c] /\ request[c][Entry(c, i)] = "done"
  /\ \A c \in Calls : \A i, j \in 1 .. Len(results[c]) : Entry(c, i) = Entry(c, j) => i = j
  /\ \A c \in Calls : \A t \in collected[c] : request[c][t] = "done"
  /\ \A c \in Calls, t \in AllTrackers : request[c][t] # "off" => t \in asked[c]
  /\ \A c \in Calls, t \in AllTrackers : best[c] = t \/ answer[c] = t => request[c][t] = "done"

LEMMA FinishSafe ==
  ASSUME RequestTyped, ResultTyped, ResultInv, NEW c \in Calls, NEW t \in AllTrackers,
         request[c][t] \notin {"off", "done"}, NEW result \in Results, Finish(c, t, result),
         UNCHANGED <<asked, collected, best, answer>>
  PROVE  ResultInv'
  <1> DEFINE s == results[c]
  <1> DEFINE e == <<t, result>>
  <1>1. /\ s \in Seq(AllTrackers \X Results) /\ e \in AllTrackers \X Results /\ e[1] = t
        /\ results' = [results EXCEPT ![c] = Append(s, e)]
    BY DEF Finish, ResultTyped
  <1>2. /\ Len(Append(s, e)) = Len(s) + 1 /\ Len(s) \in Nat
        /\ \A i \in 1 .. Len(s) : Append(s, e)[i] = s[i]
        /\ Append(s, e)[Len(s) + 1] = e
    BY <1>1, AppendFacts
  <1>3. /\ \A d \in Calls, u \in AllTrackers : request'[d][u] = request[d][u] \/ (d = c /\ u = t)
        /\ request'[c][t] = "done"
    BY DEF Finish, RequestTyped
  <1>4. t \in asked[c] \ collected[c] /\ \A i \in 1 .. Len(s) : s[i][1] # t
    BY DEF ResultInv, Entry
  <1>5. ASSUME NEW d \in Calls, d # c PROVE results'[d] = results[d] /\ request'[d] = request[d]
    BY <1>1, <1>5 DEF ResultTyped, Finish, RequestTyped
  <1>6. results'[c] = Append(s, e)
    BY <1>1 DEF ResultTyped
  <1>7. ASSUME NEW i \in 1 .. Len(results'[c])
        PROVE  \/ i \in 1 .. Len(s) /\ results'[c][i] = s[i]
               \/ i = Len(s) + 1 /\ results'[c][i] = e
    BY <1>2, <1>6
  <1> HIDE DEF e
  <1>8. ASSUME NEW d \in Calls, NEW i \in 1 .. Len(results'[d])
        PROVE  Entry(d, i)' \in asked'[d] \ collected'[d] /\ request'[d][Entry(d, i)'] = "done"
    <2>1. CASE d # c
      BY <1>5, <1>8, <2>1 DEF ResultInv, Entry
    <2>2. CASE d = c
      <3>1. CASE i \in 1 .. Len(s) /\ results'[c][i] = s[i]
        <4>1. Entry(d, i)' = Entry(c, i) /\ Entry(c, i) \in asked[c] \ collected[c]
              /\ Entry(c, i) # t /\ request[c][Entry(c, i)] = "done"
          BY <1>4, <2>2, <3>1 DEF Entry, ResultInv
        <4> QED
          BY <1>3, <2>2, <4>1 DEF RequestTyped
      <3>2. CASE i = Len(s) + 1 /\ results'[c][i] = e
        BY <1>1, <1>3, <1>4, <2>2, <3>2 DEF Entry
      <3> QED
        BY <1>7, <1>8, <2>2, <3>1, <3>2
    <2> QED
      BY <2>1, <2>2
  <1>9. ASSUME NEW d \in Calls, NEW i \in 1 .. Len(results'[d]), NEW j \in 1 .. Len(results'[d]),
               Entry(d, i)' = Entry(d, j)'
        PROVE  i = j
    <2>1. CASE d # c
      <3>1. i \in 1 .. Len(results[d]) /\ j \in 1 .. Len(results[d]) /\ Entry(d, i) = Entry(d, j)
        BY <1>5, <1>9, <2>1 DEF Entry
      <3> QED
        BY <3>1 DEF ResultInv
    <2>2. CASE d = c
      <3>1. (i \in 1 .. Len(s) /\ results'[c][i] = s[i]) \/ (i = Len(s) + 1 /\ results'[c][i] = e)
        BY <1>7, <1>9, <2>2
      <3>2. (j \in 1 .. Len(s) /\ results'[c][j] = s[j]) \/ (j = Len(s) + 1 /\ results'[c][j] = e)
        BY <1>7, <1>9, <2>2
      <3>3. results'[c][i][1] = results'[c][j][1]
        BY <1>9, <2>2 DEF Entry
      <3> QED
        BY <1>1, <1>4, <3>1, <3>2, <3>3 DEF ResultInv, Entry
    <2> QED
      BY <2>1, <2>2
  <1>10. \A d \in Calls : \A u \in collected'[d] : request'[d][u] = "done"
    BY <1>3 DEF ResultInv, RequestTyped
  <1>11. \A d \in Calls, u \in AllTrackers : request'[d][u] # "off" => u \in asked'[d]
    BY <1>3, <1>4 DEF ResultInv
  <1>12. \A d \in Calls, u \in AllTrackers : best'[d] = u \/ answer'[d] = u => request'[d][u] = "done"
    BY <1>3 DEF ResultInv
  <1> QED
    BY <1>8, <1>9, <1>10, <1>11, <1>12 DEF ResultInv

\* What CollectsResult takes out, and what becomes of it.
Takes(c, t, result) ==
  /\ Len(results[c]) \in Nat \ {0} /\ results[c][1] = <<t, result>>
  /\ \A d \in Calls \ {c} : results'[d] = results[d]
  /\ Len(results'[c]) = Len(results[c]) - 1
  /\ \A i \in 1 .. Len(results'[c]) :
       i + 1 \in 1 .. Len(results[c]) /\ results'[c][i] = results[c][i + 1]
  /\ answer[c] = Unset /\ collected' = [collected EXCEPT ![c] = @ \cup {t}]
  /\ active' = [active EXCEPT ![FirstEntry[t]] = result # "error"]
  /\ \A d \in Calls \ {c} : best'[d] = best[d] /\ answer'[d] = answer[d]
  /\ best'[c] = best[c] \/ (best'[c] = t /\ result # "error")
  /\ answer'[c] \in {best'[c], NoAnswer, Unset} \/ (answer'[c] = t /\ result # "error")
  /\ UNCHANGED <<asked, request, connected, wire, inbox>>

LEMMA CollectsTakes ==
  ASSUME RequestTyped, ResultTyped, AnswerTyped, NEW c \in Calls, CollectsResult(c)
  PROVE  \E t \in AllTrackers, result \in Results : Takes(c, t, result)
  <1> DEFINE s == results[c]
  <1> DEFINE t == Head(s)[1]
  <1> DEFINE result == Head(s)[2]
  <1> DEFINE last == Cardinality(collected[c]) + 1 = Cardinality(asked[c])
  <1> DEFINE bestNow == IF result # "error" /\ best[c] = Unset THEN t ELSE best[c]
  <1>1. s \in Seq(AllTrackers \X Results) /\ s # <<>>
    BY DEF CollectsResult, ResultTyped
  <1>2. /\ Len(s) \in Nat \ {0} /\ Head(s) = s[1] /\ s[1] \in AllTrackers \X Results
        /\ Len(Tail(s)) = Len(s) - 1
        /\ \A i \in 1 .. Len(Tail(s)) : i + 1 \in 1 .. Len(s) /\ Tail(s)[i] = s[i + 1]
    BY <1>1, TailFacts
  <1>3. t \in AllTrackers /\ result \in Results /\ s[1] = <<t, result>>
    BY <1>2
  <1>4. /\ results' = [results EXCEPT ![c] = Tail(@)] /\ answer[c] = Unset
        /\ collected' = [collected EXCEPT ![c] = @ \cup {t}]
        /\ active' = [active EXCEPT ![FirstEntry[t]] = result # "error"]
        /\ best' = [best EXCEPT ![c] = bestNow]
        /\ answer' = [answer EXCEPT ![c] =
             CASE result = "peers" -> t
               [] result # "peers" /\ last -> IF bestNow = Unset THEN NoAnswer ELSE bestNow
               [] OTHER -> Unset]
        /\ UNCHANGED <<asked, request, connected, wire, inbox>>
    BY DEF CollectsResult, MarkTrackerStatus
  <1> HIDE DEF s, t, result, last
  <1>5. results'[c] = Tail(s) /\ \A d \in Calls \ {c} : results'[d] = results[d]
    BY <1>4 DEF ResultTyped, s
  <1>6. /\ best'[c] = bestNow /\ \A d \in Calls \ {c} : best'[d] = best[d]
        /\ best'[c] = best[c] \/ (best'[c] = t /\ result # "error")
    BY <1>4 DEF AnswerTyped
  <1>7. \A d \in Calls \ {c} : answer'[d] = answer[d]
    BY <1>4 DEF AnswerTyped
  <1>8. answer'[c] \in {best'[c], NoAnswer, Unset} \/ (answer'[c] = t /\ result # "error")
    <2> HIDE DEF bestNow
    <2>1. answer'[c] = CASE result = "peers" -> t
               [] result # "peers" /\ last -> IF bestNow = Unset THEN NoAnswer ELSE bestNow
               [] OTHER -> Unset
      BY <1>4 DEF AnswerTyped
    <2> QED
      BY <1>6, <2>1
  <1>9. Takes(c, t, result)
    <2>1. \A i \in 1 .. Len(results'[c]) :
            i + 1 \in 1 .. Len(results[c]) /\ results'[c][i] = results[c][i + 1]
      BY <1>2, <1>5 DEF s
    <2> QED
      BY <1>2, <1>3, <1>4, <1>5, <1>6, <1>7, <1>8, <2>1 DEF Takes, s
  <1> QED
    BY <1>3, <1>9

LEMMA TakesSafe ==
  ASSUME RequestTyped, AnswerTyped, ResultInv, NEW c \in Calls, NEW t \in AllTrackers,
         NEW result \in Results, Takes(c, t, result)
  PROVE  ResultInv'
  <1> USE DEF Takes
  <1>1. t = Entry(c, 1) /\ t \in asked[c] /\ request[c][t] = "done" /\ 1 \in 1 .. Len(results[c])
    BY DEF ResultInv, Entry
  <1>2. \A i \in 1 .. Len(results'[c]) : Entry(c, i)' = Entry(c, i + 1) /\ Entry(c, i + 1) # t
    BY <1>1 DEF ResultInv, Entry
  <1>3. ASSUME NEW d \in Calls, NEW i \in 1 .. Len(results'[d])
        PROVE  Entry(d, i)' \in asked'[d] \ collected'[d] /\ request'[d][Entry(d, i)'] = "done"
    <2>1. CASE d = c
      <3>1. i + 1 \in 1 .. Len(results[c]) /\ Entry(d, i)' = Entry(c, i + 1) /\ Entry(c, i + 1) # t
        BY <1>2, <1>3, <2>1
      <3>2. Entry(c, i + 1) \in asked[c] \ collected[c] /\ request[c][Entry(c, i + 1)] = "done"
        BY <3>1 DEF ResultInv
      <3>3. UNCHANGED <<asked, request>> /\ collected'[c] = collected[c] \cup {t}
        BY DEF RequestTyped
      <3> QED
        BY <2>1, <3>1, <3>2, <3>3
    <2>2. CASE d # c
      BY <1>3, <2>2 DEF ResultInv, RequestTyped, Entry
    <2> QED
      BY <2>1, <2>2
  <1>4. ASSUME NEW d \in Calls, NEW i \in 1 .. Len(results'[d]), NEW j \in 1 .. Len(results'[d]),
               Entry(d, i)' = Entry(d, j)'
        PROVE  i = j
    <2>1. CASE d = c
      <3>1. Entry(c, i + 1) = Entry(c, j + 1)
        BY <1>2, <1>4, <2>1
      <3>2. i + 1 \in 1 .. Len(results[c]) /\ j + 1 \in 1 .. Len(results[c]) /\ i \in Nat /\ j \in Nat
        BY <1>4, <2>1
      <3>3. i + 1 = j + 1
        BY <3>1, <3>2 DEF ResultInv
      <3> QED
        BY <3>2, <3>3
    <2>2. CASE d # c
      BY <1>4, <2>2 DEF ResultInv, Entry
    <2> QED
      BY <2>1, <2>2
  <1>5. \A d \in Calls : \A u \in collected'[d] : request'[d][u] = "done"
    BY <1>1 DEF ResultInv, RequestTyped
  <1>6. \A d \in Calls, u \in AllTrackers : best'[d] = u \/ answer'[d] = u => request'[d][u] = "done"
    BY <1>1, TrackersAssumption DEF ResultInv, AnswerTyped
  <1> QED
    BY <1>3, <1>4, <1>5, <1>6 DEF ResultInv

LEMMA ResultInvStep ==
  ASSUME Typed, ResultInv, TrackersNext
  PROVE  ResultInv'
  <1> USE DEF Typed
  <1>1. ASSUME NEW c \in Calls, AnnounceBegins(c) PROVE ResultInv'
    <2>1. asked[c] = {} /\ answer[c] = Unset /\ UNCHANGED <<results, collected, best>>
      BY <1>1 DEF AnnounceBegins
    <2>2. \A t \in AllTrackers : request[c][t] = "off" /\ best[c] # t /\ t \notin collected[c]
      BY <2>1 DEF ResultInv
    <2>3. Len(results[c]) = 0
      BY <2>1 DEF ResultInv, ResultTyped
    <2>4. /\ asked' = [asked EXCEPT ![c] = ActiveTrackers] /\ answer'[c] \in {NoAnswer, Unset}
          /\ \A d \in Calls \ {c} : answer'[d] = answer[d] /\ request'[d] = request[d]
          /\ \A t \in AllTrackers : request'[c][t] # "off" => t \in ActiveTrackers
      BY <1>1 DEF AnnounceBegins, RequestTyped, AnswerTyped
    <2>5. \A d \in Calls, t \in AllTrackers : request'[d][t] # "off" => t \in asked'[d]
      BY <2>4 DEF ResultInv, RequestTyped
    <2>6. \A d \in Calls, t \in AllTrackers : best'[d] = t \/ answer'[d] = t => request'[d][t] = "done"
      BY <2>1, <2>2, <2>4, TrackersAssumption DEF ResultInv
    <2>7. \A d \in Calls : \A t \in collected'[d] : request'[d][t] = "done"
      BY <2>1, <2>2, <2>4 DEF ResultInv, RequestTyped
    <2>8. ASSUME NEW d \in Calls, NEW i \in 1 .. Len(results'[d])
          PROVE  /\ Entry(d, i)' = Entry(d, i) /\ d # c
                 /\ Entry(d, i)' \in asked'[d] \ collected'[d] /\ request'[d][Entry(d, i)'] = "done"
      BY <2>1, <2>3, <2>4, <2>8 DEF ResultInv, Entry, RequestTyped
    <2>9. \A d \in Calls : \A i, j \in 1 .. Len(results'[d]) : Entry(d, i)' = Entry(d, j)' => i = j
      BY <2>1, <2>8 DEF ResultInv
    <2> QED
      BY <2>5, <2>6, <2>7, <2>8, <2>9 DEF ResultInv
  <1>2. ASSUME NEW c \in Calls, CollectsResult(c) PROVE ResultInv'
    BY <1>2, CollectsTakes, TakesSafe
  <1>3. ASSUME NEW c \in Calls, NEW t \in AllTrackers, NEW action \in {"connect", "announce"},
               request[c][t] \notin {"off", "done"}, request' = [request EXCEPT ![c][t] = action],
               UNCHANGED <<asked, results, collected, best, answer>>
        PROVE  ResultInv'
    <2>1. /\ \A d \in Calls, u \in AllTrackers : request'[d][u] = request[d][u] \/ (d = c /\ u = t)
          /\ request'[c][t] # "off"
      BY <1>3 DEF RequestTyped
    <2> QED
      BY <1>3, <2>1 DEF ResultInv, Entry, RequestTyped
  <1>4. ASSUME NEW c \in Calls, NEW t \in Udp, UdpBegins(c, t) \/ UdpReads(c, t) \/ UdpTimesOut(c, t)
        PROVE  ResultInv'
    <2>1. t \in AllTrackers /\ request[c][t] \notin {"off", "done"}
          /\ UNCHANGED <<asked, collected, best, answer>>
      BY <1>4 DEF AllTrackers, UdpBegins, UdpReads, UdpTimesOut
    <2>2. \/ \E result \in Results : Finish(c, t, result)
          \/ UNCHANGED results /\ \E action \in {"connect", "announce"} :
               request' = [request EXCEPT ![c][t] = action]
      <3>1. CASE UdpReads(c, t)
        <4>1. inbox[t] \in Seq(Datagrams) /\ inbox[t] # <<>>
          BY <3>1 DEF UdpReads, InboxTyped
        <4>2. Head(inbox[t]) = inbox[t][1] /\ 1 \in 1 .. Len(inbox[t])
          BY <4>1, TailFacts
        <4>3. Head(inbox[t]).id = <<c, "announce">> => Head(inbox[t]).says \in Results
          BY <4>2 DEF InboxTyped
        <4> QED
          BY <3>1, <4>3 DEF UdpReads, Send, IsAnswer, Transaction, Results
      <3>2. CASE UdpBegins(c, t) \/ UdpTimesOut(c, t)
        BY <3>2 DEF UdpBegins, UdpTimesOut, Send, Results
      <3> QED
        BY <1>4, <3>1, <3>2
    <2> QED
      BY <1>3, <2>1, <2>2, FinishSafe
  <1>5. ASSUME NEW c \in Calls, NEW t \in Http, HttpFails(c, t) PROVE ResultInv'
    BY <1>5, FinishSafe DEF HttpFails, AllTrackers, Results
  <1>6. ASSUME NEW t \in Udp, Expires(t) PROVE ResultInv'
    BY <1>6 DEF Expires, ResultInv, Entry
  <1>7. ASSUME NEW t \in Udp, NEW id \in wire[t], NEW says, Answer(t, id, says) PROVE ResultInv'
    BY <1>7 DEF Answer, ResultInv, Entry
  <1> QED
    BY <1>1, <1>2, <1>4, <1>5, <1>6, <1>7 DEF TrackersNext, TrackersStep

-----------------------------------------------------------------------------
(* Requests and datagrams                                                   *)

InInbox(t, id) == \E i \in 1 .. Len(inbox[t]) : inbox[t][i].id = id
Sent(t, id) == id \in wire[t] \/ InInbox(t, id)

\* A request is answered once.
OnceInv ==
  /\ \A t \in Udp : \A i \in 1 .. Len(inbox[t]) : inbox[t][i].id \notin wire[t]
  /\ \A t \in Udp : \A i, j \in 1 .. Len(inbox[t]) : inbox[t][i].id = inbox[t][j].id => i = j

\* The call c has, or has had, an answer of the tracker t.
Heard(c, t) ==
  \/ \E i \in 1 .. Len(results[c]) : results[c][i][1] = t /\ results[c][i][2] # "error"
  \/ best[c] = t \/ answer[c] = t

FreshInv ==
  \A c \in Calls, t \in Udp :
    /\ request[c][t] \in {"off", "starting"} => ~Sent(t, <<c, "connect">>)
    /\ request[c][t] \in {"off", "starting", "connect"} => ~Sent(t, <<c, "announce">>)
    /\ Heard(c, t) => ~Sent(t, <<c, "announce">>)

LEMMA HeardIsDone ==
  ASSUME ResultInv, NEW c \in Calls, NEW t \in Udp, Heard(c, t)
  PROVE  request[c][t] = "done"
  BY DEF ResultInv, Heard, Entry, AllTrackers

\* A read takes the first datagram out.
LEMMA ReadTakes ==
  ASSUME InboxTyped, OnceInv, NEW t \in Udp, inbox[t] # <<>>, inbox' = [inbox EXCEPT ![t] = Tail(@)]
  PROVE  /\ Len(inbox[t]) \in Nat \ {0} /\ Head(inbox[t]) = inbox[t][1] /\ InInbox(t, Head(inbox[t]).id)
         /\ \A i \in 1 .. Len(inbox'[t]) : inbox'[t][i].id # inbox[t][1].id
         /\ \A i \in 1 .. Len(inbox'[t]) : i + 1 \in 1 .. Len(inbox[t]) /\ inbox'[t][i] = inbox[t][i + 1]
         /\ \A u \in Udp : \A id : InInbox(u, id)' => InInbox(u, id)
  <1>1. inbox[t] \in Seq(Datagrams)
    BY DEF InboxTyped
  <1>2. /\ Len(inbox[t]) \in Nat \ {0} /\ Head(inbox[t]) = inbox[t][1]
        /\ Len(Tail(inbox[t])) = Len(inbox[t]) - 1
        /\ \A i \in 1 .. Len(Tail(inbox[t])) :
             i + 1 \in 1 .. Len(inbox[t]) /\ Tail(inbox[t])[i] = inbox[t][i + 1]
    BY <1>1, TailFacts
  <1>3. inbox'[t] = Tail(inbox[t]) /\ \A u \in Udp \ {t} : inbox'[u] = inbox[u]
    BY DEF InboxTyped
  <1>4. ASSUME NEW i \in 1 .. Len(inbox'[t]) PROVE inbox'[t][i].id # inbox[t][1].id
    <2>1. i + 1 \in 1 .. Len(inbox[t]) /\ inbox'[t][i] = inbox[t][i + 1]
      BY <1>2, <1>3
    <2>2. 1 \in 1 .. Len(inbox[t]) /\ i + 1 # 1
      BY <1>2, <1>3, <1>4
    <2> QED
      BY <2>1, <2>2 DEF OnceInv
  <1>5. ASSUME NEW u \in Udp, NEW id, InInbox(u, id)' PROVE InInbox(u, id)
    <2>1. PICK i \in 1 .. Len(inbox'[u]) : inbox'[u][i].id = id
      BY <1>5 DEF InInbox
    <2> QED
      BY <1>2, <1>3, <2>1 DEF InInbox
  <1>6. InInbox(t, Head(inbox[t]).id)
    <2>1. 1 \in 1 .. Len(inbox[t]) /\ inbox[t][1].id = Head(inbox[t]).id
      BY <1>2
    <2> QED
      BY <2>1 DEF InInbox
  <1>7. \A i \in 1 .. Len(inbox'[t]) : i + 1 \in 1 .. Len(inbox[t]) /\ inbox'[t][i] = inbox[t][i + 1]
    BY <1>2, <1>3
  <1> QED
    BY <1>2, <1>4, <1>5, <1>6, <1>7

LEMMA OnceStep ==
  ASSUME Typed, OnceInv, FreshInv, TrackersNext
  PROVE  OnceInv'
  <1> USE DEF Typed
  <1>1. ASSUME UNCHANGED <<wire, inbox>> PROVE OnceInv'
    BY <1>1 DEF OnceInv
  <1>2. ASSUME NEW c \in Calls, NEW t \in Udp, UdpBegins(c, t) PROVE OnceInv'
    <2>1. PICK action \in {"connect", "announce"} : Send(c, t, action)
      BY <1>2 DEF UdpBegins
    <2>2. ~InInbox(t, <<c, action>>)
      BY <1>2, <2>1 DEF UdpBegins, FreshInv, Sent
    <2>3. inbox' = inbox /\ wire' = [wire EXCEPT ![t] = @ \cup {<<c, action>>}]
      BY <1>2, <2>1 DEF UdpBegins, Send, Transaction
    <2> QED
      BY <2>2, <2>3 DEF OnceInv, InInbox, WireTyped
  <1>3. ASSUME NEW c \in Calls, NEW t \in Udp, UdpReads(c, t) PROVE OnceInv'
    <2>1. inbox[t] # <<>> /\ inbox' = [inbox EXCEPT ![t] = Tail(@)]
      BY <1>3 DEF UdpReads
    <2>2. /\ \A i \in 1 .. Len(inbox'[t]) :
               i + 1 \in 1 .. Len(inbox[t]) /\ inbox'[t][i] = inbox[t][i + 1]
          /\ \A u \in Udp \ {t} : inbox'[u] = inbox[u]
      BY <2>1, ReadTakes DEF InboxTyped
    <2>3. \A u \in Udp : \A i, j \in 1 .. Len(inbox'[u]) : inbox'[u][i].id = inbox'[u][j].id => i = j
      <3>1. ASSUME NEW i \in 1 .. Len(inbox'[t]), NEW j \in 1 .. Len(inbox'[t]),
                   inbox'[t][i].id = inbox'[t][j].id
            PROVE  i = j
        <4>1. /\ i + 1 \in 1 .. Len(inbox[t]) /\ j + 1 \in 1 .. Len(inbox[t])
              /\ inbox[t][i + 1].id = inbox[t][j + 1].id
          BY <2>2, <3>1
        <4>2. i + 1 = j + 1
          BY <4>1 DEF OnceInv
        <4> QED
          BY <4>2
      <3>2. ASSUME NEW u \in Udp \ {t}
            PROVE  \A i, j \in 1 .. Len(inbox'[u]) : inbox'[u][i].id = inbox'[u][j].id => i = j
        BY <2>2 DEF OnceInv
      <3> QED
        BY <3>1, <3>2
    <2>4. \A u \in Udp : \A i \in 1 .. Len(inbox'[u]) : inbox'[u][i].id \notin wire'[u]
      <3>1. CASE wire' = wire
        BY <2>2, <3>1 DEF OnceInv
      <3>2. CASE request[c][t] = "connect" /\ Send(c, t, "announce")
        <4>1. ~InInbox(t, <<c, "announce">>)
          BY <3>2 DEF FreshInv, Sent
        <4>2. /\ wire'[t] = wire[t] \cup {<<c, "announce">>}
              /\ \A u \in Udp \ {t} : wire'[u] = wire[u]
          BY <3>2 DEF Send, Transaction, WireTyped
        <4> QED
          BY <2>2, <4>1, <4>2 DEF OnceInv, InInbox
      <3> QED
        BY <1>3, <3>1, <3>2 DEF UdpReads
    <2> QED
      BY <2>3, <2>4 DEF OnceInv
  <1>4. ASSUME NEW t \in Udp, NEW id \in wire[t], NEW says, Answer(t, id, says) PROVE OnceInv'
    <2> DEFINE new == [id |-> id, says |-> says]
    <2>1. id \in Ids /\ says \in Results \cup {"connected"}
      BY <1>4 DEF Answer, WireTyped, Results
    <2>2. new \in Datagrams /\ new.id = id
      BY <2>1 DEF Datagrams
    <2>3. inbox[t] \in Seq(Datagrams) /\ inbox' = [inbox EXCEPT ![t] = Append(@, new)]
          /\ wire' = [wire EXCEPT ![t] = @ \ {id}]
      BY <1>4 DEF Answer, InboxTyped
    <2> HIDE DEF new
    <2>4. /\ Len(Append(inbox[t], new)) = Len(inbox[t]) + 1 /\ Len(inbox[t]) \in Nat
          /\ \A i \in 1 .. Len(inbox[t]) : Append(inbox[t], new)[i] = inbox[t][i]
          /\ Append(inbox[t], new)[Len(inbox[t]) + 1] = new
      BY <2>2, <2>3, AppendFacts
    <2>5. /\ inbox'[t] = Append(inbox[t], new) /\ \A u \in Udp \ {t} : inbox'[u] = inbox[u]
          /\ wire'[t] = wire[t] \ {id} /\ \A u \in Udp \ {t} : wire'[u] = wire[u]
      BY <2>3 DEF InboxTyped, WireTyped
    <2>6. ASSUME NEW i \in 1 .. Len(inbox'[t])
          PROVE  \/ i \in 1 .. Len(inbox[t]) /\ inbox'[t][i] = inbox[t][i] /\ inbox[t][i].id # id
                 \/ i = Len(inbox[t]) + 1 /\ inbox'[t][i] = new
      BY <2>4, <2>5 DEF OnceInv
    <2>7. \A i \in 1 .. Len(inbox'[t]) : inbox'[t][i].id \notin wire'[t]
      BY <2>2, <2>5, <2>6 DEF OnceInv
    <2>8. \A i, j \in 1 .. Len(inbox'[t]) : inbox'[t][i].id = inbox'[t][j].id => i = j
      BY <2>2, <2>6 DEF OnceInv
    <2> QED
      BY <2>5, <2>7, <2>8 DEF OnceInv
  <1>5. ASSUME NEW c \in Calls, AnnounceBegins(c) \/ CollectsResult(c) PROVE OnceInv'
    BY <1>1, <1>5 DEF AnnounceBegins, CollectsResult
  <1>6. ASSUME NEW c \in Calls, NEW t \in Udp, UdpTimesOut(c, t) PROVE OnceInv'
    BY <1>1, <1>6 DEF UdpTimesOut
  <1>7. ASSUME NEW c \in Calls, NEW t \in Http, HttpFails(c, t) PROVE OnceInv'
    BY <1>1, <1>7 DEF HttpFails
  <1>8. ASSUME NEW t \in Udp, Expires(t) PROVE OnceInv'
    BY <1>1, <1>8 DEF Expires
  <1> QED
    BY <1>2, <1>3, <1>4, <1>5, <1>6, <1>7, <1>8 DEF TrackersNext, TrackersStep

\* A result that is appended is heard of if it is an answer.
LEMMA FinishHears ==
  ASSUME ResultTyped, NEW c \in Calls, NEW t \in AllTrackers, NEW result \in Results,
         Finish(c, t, result), UNCHANGED <<best, answer>>
  PROVE  \A d \in Calls, u \in Udp :
           Heard(d, u)' => Heard(d, u) \/ (d = c /\ u = t /\ result # "error")
  <1> DEFINE e == <<t, result>>
  <1>1. results[c] \in Seq(AllTrackers \X Results) /\ e \in AllTrackers \X Results
        /\ results' = [results EXCEPT ![c] = Append(@, e)] /\ e[1] = t /\ e[2] = result
    BY DEF Finish, ResultTyped
  <1>2. /\ Len(Append(results[c], e)) = Len(results[c]) + 1 /\ Len(results[c]) \in Nat
        /\ \A i \in 1 .. Len(results[c]) : Append(results[c], e)[i] = results[c][i]
        /\ Append(results[c], e)[Len(results[c]) + 1] = e
    BY <1>1, AppendFacts
  <1> HIDE DEF e
  <1>3. results'[c] = Append(results[c], e) /\ \A d \in Calls \ {c} : results'[d] = results[d]
    BY <1>1 DEF ResultTyped
  <1>4. \A i \in 1 .. Len(results'[c]) :
          (i \in 1 .. Len(results[c]) /\ results'[c][i] = results[c][i]) \/ results'[c][i] = e
    BY <1>2, <1>3
  <1> QED
    BY <1>1, <1>3, <1>4 DEF Heard

LEMMA AppendHears ==
  ASSUME InboxTyped, NEW t \in Udp, NEW new \in Datagrams, inbox' = [inbox EXCEPT ![t] = Append(@, new)]
  PROVE  \A u \in Udp : \A id : InInbox(u, id)' => InInbox(u, id) \/ (u = t /\ id = new.id)
  <1>1. inbox[t] \in Seq(Datagrams) /\ inbox'[t] = Append(inbox[t], new)
        /\ \A u \in Udp \ {t} : inbox'[u] = inbox[u]
    BY DEF InboxTyped
  <1>2. /\ Len(inbox'[t]) = Len(inbox[t]) + 1 /\ Len(inbox[t]) \in Nat
        /\ \A i \in 1 .. Len(inbox[t]) : inbox'[t][i] = inbox[t][i]
        /\ inbox'[t][Len(inbox[t]) + 1] = new
    BY <1>1, AppendFacts
  <1>3. ASSUME NEW id, InInbox(t, id)' PROVE InInbox(t, id) \/ id = new.id
    <2>1. PICK i \in 1 .. Len(inbox'[t]) : inbox'[t][i].id = id
      BY <1>3 DEF InInbox
    <2>2. (i \in 1 .. Len(inbox[t]) /\ inbox'[t][i] = inbox[t][i]) \/ inbox'[t][i] = new
      BY <1>2
    <2> QED
      BY <2>1, <2>2 DEF InInbox
  <1> QED
    BY <1>1, <1>3 DEF InInbox

\* What was sent for a request that goes on stays what was sent.
LEMMA FreshKept ==
  ASSUME FreshInv, ResultInv,
         \A c \in Calls, u \in Udp :
           /\ request'[c][u] \in {"off", "starting"} => request[c][u] \in {"off", "starting"}
           /\ request'[c][u] \in {"off", "starting", "connect"} =>
                request[c][u] \in {"off", "starting", "connect"}
           /\ Heard(c, u)' => Heard(c, u),
         \A c \in Calls, u \in Udp, action \in {"connect", "announce"} :
           Sent(u, <<c, action>>)' => Sent(u, <<c, action>>)
  PROVE  FreshInv'
  <1> SUFFICES ASSUME NEW c \in Calls, NEW u \in Udp
               PROVE  /\ request'[c][u] \in {"off", "starting"} => ~Sent(u, <<c, "connect">>)'
                      /\ request'[c][u] \in {"off", "starting", "connect"} => ~Sent(u, <<c, "announce">>)'
                      /\ Heard(c, u)' => ~Sent(u, <<c, "announce">>)'
    BY DEF FreshInv
  <1>1. Sent(u, <<c, "connect">>)' => Sent(u, <<c, "connect">>)
    OBVIOUS
  <1>2. Sent(u, <<c, "announce">>)' => Sent(u, <<c, "announce">>)
    OBVIOUS
  <1> QED
    BY <1>1, <1>2 DEF FreshInv

\* Only what concerns the call c and the tracker t changes.
LEMMA FreshBut ==
  ASSUME FreshInv, NEW c \in Calls, NEW t \in Udp,
         \A d \in Calls, u \in Udp : d # c \/ u # t =>
           /\ request'[d][u] = request[d][u] /\ (Heard(d, u)' => Heard(d, u))
           /\ \A action \in {"connect", "announce"} :
                Sent(u, <<d, action>>)' => Sent(u, <<d, action>>),
         request'[c][t] \notin {"off", "starting"},
         request'[c][t] = "connect" => ~Sent(t, <<c, "announce">>)',
         Heard(c, t)' => ~Sent(t, <<c, "announce">>)'
  PROVE  FreshInv'
  <1>1. ASSUME NEW d \in Calls, NEW u \in Udp, d # c \/ u # t
        PROVE  /\ request'[d][u] \in {"off", "starting"} => ~Sent(u, <<d, "connect">>)'
               /\ request'[d][u] \in {"off", "starting", "connect"} => ~Sent(u, <<d, "announce">>)'
               /\ Heard(d, u)' => ~Sent(u, <<d, "announce">>)'
    <2>1. Sent(u, <<d, "connect">>)' => Sent(u, <<d, "connect">>)
      BY <1>1
    <2>2. Sent(u, <<d, "announce">>)' => Sent(u, <<d, "announce">>)
      BY <1>1
    <2> QED
      BY <1>1, <2>1, <2>2 DEF FreshInv
  <1> QED
    BY <1>1 DEF FreshInv

LEMMA FreshStep ==
  ASSUME Typed, ResultInv, OnceInv, FreshInv, TrackersNext
  PROVE  FreshInv'
  <1> USE DEF Typed
  <1>1. UNCHANGED <<wire, inbox>> =>
          \A u \in Udp : \A id : Sent(u, id)' <=> Sent(u, id)
    BY DEF Sent, InInbox
  <1>2. UNCHANGED <<results, best, answer>> =>
          \A d \in Calls, u \in Udp : Heard(d, u)' <=> Heard(d, u)
    BY DEF Heard
  <1>3. ASSUME NEW c \in Calls, AnnounceBegins(c) PROVE FreshInv'
    <2>1. UNCHANGED <<results, best, wire, inbox>> /\ asked[c] = {} /\ answer'[c] \in {NoAnswer, Unset}
          /\ \A d \in Calls \ {c} : answer'[d] = answer[d] /\ request'[d] = request[d]
      BY <1>3 DEF AnnounceBegins, RequestTyped, AnswerTyped
    <2>2. \A u \in Udp : request[c][u] = "off"
      BY <2>1 DEF ResultInv, AllTrackers
    <2>3. \A d \in Calls, u \in Udp : Heard(d, u)' => Heard(d, u)
      BY <2>1, TrackersAssumption DEF Heard, AllTrackers
    <2>4. ASSUME NEW d \in Calls, NEW u \in Udp
          PROVE  request[d][u] = "off" \/ request'[d][u] = request[d][u]
      BY <2>1, <2>2
    <2> QED
      BY <1>1, <2>1, <2>3, <2>4, FreshKept
  <1>4. ASSUME NEW c \in Calls, CollectsResult(c) PROVE FreshInv'
    <2>1. PICK t \in AllTrackers, result \in Results : Takes(c, t, result)
      BY <1>4, CollectsTakes
    <2>2. /\ UNCHANGED <<request, wire, inbox>>
          /\ \A d \in Calls \ {c} : results'[d] = results[d] /\ best'[d] = best[d] /\ answer'[d] = answer[d]
          /\ \A i \in 1 .. Len(results'[c]) : i + 1 \in 1 .. Len(results[c]) /\ results'[c][i] = results[c][i + 1]
          /\ 1 \in 1 .. Len(results[c]) /\ results[c][1][1] = t /\ results[c][1][2] = result
          /\ best'[c] = best[c] \/ (best'[c] = t /\ result # "error")
          /\ answer'[c] \in {best'[c], NoAnswer, Unset} \/ (answer'[c] = t /\ result # "error")
      BY <2>1 DEF Takes
    <2>3. ASSUME NEW u \in Udp, Heard(c, u)' PROVE Heard(c, u)
      <3>1. CASE \E i \in 1 .. Len(results'[c]) : results'[c][i][1] = u /\ results'[c][i][2] # "error"
        BY <2>2, <3>1 DEF Heard
      <3>2. CASE best'[c] = u \/ answer'[c] = u
        <4>1. u \notin {NoAnswer, Unset}
          BY TrackersAssumption DEF AllTrackers
        <4>2. best[c] = u \/ (u = t /\ result # "error")
          BY <2>2, <3>2, <4>1
        <4> QED
          BY <2>2, <4>2 DEF Heard
      <3> QED
        BY <2>3, <3>1, <3>2 DEF Heard
    <2>4. \A d \in Calls \ {c}, u \in Udp : Heard(d, u)' => Heard(d, u)
      BY <2>2 DEF Heard
    <2> QED
      BY <1>1, <2>2, <2>3, <2>4, FreshKept
  <1>5. ASSUME NEW c \in Calls, NEW t \in Udp, UdpBegins(c, t) PROVE FreshInv'
    <2>1. PICK action \in {"connect", "announce"} : Send(c, t, action)
      BY <1>5 DEF UdpBegins
    <2>2. /\ request' = [request EXCEPT ![c][t] = action] /\ request[c][t] = "starting"
          /\ wire' = [wire EXCEPT ![t] = @ \cup {<<c, action>>}]
          /\ UNCHANGED <<results, best, answer, inbox>>
      BY <1>5, <2>1 DEF UdpBegins, Send, Transaction
    <2>3. ~Heard(c, t) /\ ~Heard(c, t)'
      BY <1>2, <2>2, HeardIsDone
    <2>4. \A u \in Udp : \A id : Sent(u, id)' => Sent(u, id) \/ (u = t /\ id = <<c, action>>)
      BY <2>2 DEF Sent, InInbox, WireTyped
    <2>5. \A d \in Calls, u \in Udp : d # c \/ u # t => request'[d][u] = request[d][u]
      BY <2>2 DEF RequestTyped
    <2>6. request'[c][t] = action
      BY <2>2 DEF RequestTyped, AllTrackers
    <2>7. ~Sent(t, <<c, "announce">>)
      BY <2>2 DEF FreshInv
    <2>8. action = "connect" => ~Sent(t, <<c, "announce">>)'
      BY <2>4, <2>7
    <2>9. \A d \in Calls, u \in Udp : d # c \/ u # t =>
            \A a \in {"connect", "announce"} : Sent(u, <<d, a>>)' => Sent(u, <<d, a>>)
      BY <2>4
    <2> QED
      BY <1>2, <2>2, <2>3, <2>5, <2>6, <2>8, <2>9, FreshBut
  <1>6. ASSUME NEW c \in Calls, NEW t \in Udp, NEW result \in Results, Finish(c, t, result),
               UNCHANGED <<best, answer>>,
               \A u \in Udp : \A id : Sent(u, id)' => Sent(u, id),
               result # "error" \/ Heard(c, t) => ~Sent(t, <<c, "announce">>)'
        PROVE  FreshInv'
    <2>1. t \in AllTrackers
      BY DEF AllTrackers
    <2>2. \A d \in Calls, u \in Udp :
            Heard(d, u)' => Heard(d, u) \/ (d = c /\ u = t /\ result # "error")
      BY <1>6, <2>1, FinishHears
    <2>3. request'[c][t] = "done"
          /\ \A d \in Calls, u \in Udp : d # c \/ u # t => request'[d][u] = request[d][u]
      BY <1>6, <2>1 DEF Finish, RequestTyped
    <2> QED
      BY <1>6, <2>2, <2>3, FreshBut
  <1>7. ASSUME NEW c \in Calls, NEW t \in Udp, UdpTimesOut(c, t) PROVE FreshInv'
    <2>1. Finish(c, t, "error") /\ UNCHANGED <<best, answer, wire, inbox>>
          /\ request[c][t] \in {"connect", "announce"} /\ "error" \in Results
      BY <1>7 DEF UdpTimesOut, Results
    <2>2. ~Heard(c, t)
      BY <2>1, HeardIsDone
    <2> QED
      BY <1>1, <1>6, <2>1, <2>2
  <1>8. ASSUME NEW c \in Calls, NEW t \in Udp, UdpReads(c, t) PROVE FreshInv'
    <2> DEFINE id == inbox[t][1].id
    <2>1. /\ request[c][t] \in {"connect", "announce"} /\ inbox[t] # <<>>
          /\ inbox' = [inbox EXCEPT ![t] = Tail(@)] /\ UNCHANGED <<best, answer>>
      BY <1>8 DEF UdpReads
    <2>2. /\ Len(inbox[t]) \in Nat \ {0} /\ Head(inbox[t]) = inbox[t][1]
          /\ \A i \in 1 .. Len(inbox'[t]) : inbox'[t][i].id # inbox[t][1].id
          /\ \A u \in Udp : \A x : InInbox(u, x)' => InInbox(u, x)
      BY <2>1, ReadTakes
    <2>3. 1 \in 1 .. Len(inbox[t])
      BY <2>2
    <2>4. ~Heard(c, t)
      BY <2>1, HeardIsDone
    <2>5. CASE Finish(c, t, "error") /\ UNCHANGED wire
      <3>1. \A u \in Udp : \A x : Sent(u, x)' => Sent(u, x)
        BY <2>2, <2>5 DEF Sent
      <3> QED
        BY <1>6, <2>1, <2>4, <2>5, <3>1 DEF Results
    <2>6. CASE id = <<c, "announce">> /\ Finish(c, t, inbox[t][1].says) /\ UNCHANGED wire
      <3>1. \A u \in Udp : \A x : Sent(u, x)' => Sent(u, x)
        BY <2>2, <2>6 DEF Sent
      <3>2. ~Sent(t, <<c, "announce">>)'
        BY <2>2, <2>3, <2>6 DEF Sent, InInbox, OnceInv
      <3>3. inbox[t][1].says \in Results
        BY <2>3, <2>6 DEF InboxTyped
      <3> QED
        BY <1>6, <2>1, <2>6, <3>1, <3>2, <3>3
    <2>7. CASE request[c][t] = "connect" /\ Send(c, t, "announce") /\ UNCHANGED results
      <3>1. /\ request' = [request EXCEPT ![c][t] = "announce"]
            /\ wire' = [wire EXCEPT ![t] = @ \cup {<<c, "announce">>}]
        BY <2>7 DEF Send, Transaction
      <3>2. \A u \in Udp : \A x : Sent(u, x)' => Sent(u, x) \/ (u = t /\ x = <<c, "announce">>)
        BY <2>2, <3>1 DEF Sent, WireTyped
      <3>3. request'[c][t] = "announce"
            /\ \A d \in Calls, u \in Udp : d # c \/ u # t => request'[d][u] = request[d][u]
        BY <3>1 DEF RequestTyped, AllTrackers
      <3>4. \A d \in Calls, u \in Udp : d # c \/ u # t =>
              \A a \in {"connect", "announce"} : Sent(u, <<d, a>>)' => Sent(u, <<d, a>>)
        BY <3>2
      <3>5. ~Heard(c, t)' /\ \A d \in Calls, u \in Udp : Heard(d, u)' => Heard(d, u)
        BY <1>2, <2>1, <2>4, <2>7
      <3>6. \A d \in Calls, u \in Udp : d # c \/ u # t =>
              /\ request'[d][u] = request[d][u] /\ (Heard(d, u)' => Heard(d, u))
              /\ \A a \in {"connect", "announce"} : Sent(u, <<d, a>>)' => Sent(u, <<d, a>>)
        BY <3>3, <3>4, <3>5
      <3>7. /\ request'[c][t] \notin {"off", "starting"}
            /\ request'[c][t] = "connect" => ~Sent(t, <<c, "announce">>)'
            /\ Heard(c, t)' => ~Sent(t, <<c, "announce">>)'
        BY <3>3, <3>5
      <3> QED
        BY <3>6, <3>7, FreshBut
    <2> QED
      BY <1>8, <2>2, <2>5, <2>6, <2>7 DEF UdpReads, IsAnswer, Transaction
  <1>9. ASSUME NEW c \in Calls, NEW t \in Http, HttpFails(c, t) PROVE FreshInv'
    <2>1. Finish(c, t, "error") /\ UNCHANGED <<best, answer, wire, inbox>>
          /\ t \in AllTrackers /\ t \notin Udp /\ "error" \in Results
      BY <1>9, TrackersAssumption DEF HttpFails, AllTrackers, Results
    <2>2. \A d \in Calls, u \in Udp : Heard(d, u)' => Heard(d, u)
      BY <2>1, FinishHears
    <2>3. \A d \in Calls, u \in Udp : request'[d][u] = request[d][u]
      BY <2>1 DEF Finish, RequestTyped
    <2> QED
      BY <1>1, <2>1, <2>2, <2>3, FreshKept
  <1>10. ASSUME NEW t \in Udp, Expires(t) PROVE FreshInv'
    <2>1. UNCHANGED <<request, results, best, answer, wire, inbox>>
      BY <1>10 DEF Expires
    <2> QED
      BY <1>1, <1>2, <2>1, FreshKept
  <1>11. ASSUME NEW t \in Udp, NEW id \in wire[t], NEW says, Answer(t, id, says) PROVE FreshInv'
    <2> DEFINE new == [id |-> id, says |-> says]
    <2>1. id \in Ids /\ says \in Results \cup {"connected"}
      BY <1>11 DEF Answer, WireTyped, Results
    <2>2. new \in Datagrams /\ new.id = id
      BY <2>1 DEF Datagrams
    <2>3. inbox' = [inbox EXCEPT ![t] = Append(@, new)] /\ wire' = [wire EXCEPT ![t] = @ \ {id}]
          /\ UNCHANGED <<request, results, best, answer>>
      BY <1>11 DEF Answer
    <2> HIDE DEF new
    <2>4. \A u \in Udp : \A x : InInbox(u, x)' => InInbox(u, x) \/ (u = t /\ x = id)
      BY <2>2, <2>3, AppendHears
    <2>5. \A u \in Udp : \A x : Sent(u, x)' => Sent(u, x)
      BY <2>3, <2>4 DEF Sent, WireTyped
    <2> QED
      BY <1>2, <2>3, <2>5, FreshKept
  <1> QED
    BY <1>3, <1>4, <1>5, <1>7, <1>8, <1>9, <1>10, <1>11 DEF TrackersNext, TrackersStep

-----------------------------------------------------------------------------
(* The theorems                                                             *)

TrackersInv == Typed /\ ResultInv /\ OnceInv /\ FreshInv

LEMMA InitTrackers == TrackersInit => TrackersInv
  <1> SUFFICES ASSUME TrackersInit PROVE TrackersInv
    OBVIOUS
  <1>1. Typed
    BY DEF TrackersInit, Typed, RequestTyped, ResultTyped, WireTyped, InboxTyped, AnswerTyped, Phases
  <1>2. ResultInv
    BY TrackersAssumption DEF TrackersInit, ResultInv, Entry
  <1>3. OnceInv
    BY DEF TrackersInit, OnceInv
  <1>4. FreshInv
    BY TrackersAssumption DEF TrackersInit, FreshInv, Sent, InInbox, Heard
  <1> QED
    BY <1>1, <1>2, <1>3, <1>4 DEF TrackersInv

LEMMA StutterTrackers == TrackersInv /\ UNCHANGED trackersVars => TrackersInv'
  <1> SUFFICES ASSUME TrackersInv, UNCHANGED trackersVars PROVE TrackersInv'
    OBVIOUS
  <1> USE DEF TrackersInv, trackersVars
  <1>1. Typed'
    BY DEF Typed, RequestTyped, ResultTyped, WireTyped, InboxTyped, AnswerTyped
  <1>2. ResultInv'
    BY DEF ResultInv, Entry
  <1>3. OnceInv'
    BY DEF OnceInv
  <1>4. FreshInv'
    <2>1. \A c \in Calls, u \in Udp : Heard(c, u)' <=> Heard(c, u)
      BY DEF Heard
    <2>2. \A u \in Udp : \A id : Sent(u, id)' <=> Sent(u, id)
      BY DEF Sent, InInbox
    <2> QED
      BY <2>1, <2>2, FreshKept
  <1> QED
    BY <1>1, <1>2, <1>3, <1>4

LEMMA TrackersInductive == TrackersSpec => []TrackersInv
  <1>1. TrackersInv /\ [TrackersNext]_trackersVars => TrackersInv'
    BY TypeStep, ResultInvStep, OnceStep, FreshStep, StutterTrackers DEF TrackersInv
  <1> QED
    BY <1>1, InitTrackers, PTL DEF TrackersSpec

(* The variables keep the types of the fields, channels and sockets that    *)
(* they stand for (manager.go:16, udp.go:23).                               *)
THEOREM TrackersTyped == TrackersSpec => []TrackersTypeOK
  BY TrackersInductive, TypedIsType, PTL DEF TrackersInv

(* The peers of a UDP tracker that Announce returns came in the answer to   *)
(* the request of this very call, which is then neither on the way nor in   *)
(* the socket (udp.go:199), whatever the number of trackers and of calls    *)
(* that share the socket, and however late the answers of others come.      *)
THEOREM AnswersAreOurs == TrackersSpec => []AnswerIsOurs
  <1>1. TrackersInv => AnswerIsOurs
    BY DEF TrackersInv, FreshInv, AnswerIsOurs, Heard, Sent, InInbox, Transaction
  <1> QED
    BY <1>1, TrackersInductive, PTL

(* A tracker that is listed once and was switched off after an error is     *)
(* never asked again (manager.go:95), when no call can still bring an       *)
(* answer of it.                                                            *)
THEOREM OffStaysOff == TrackersSpec => OffForGood
  <1> DEFINE Off(t) ==
        Alone(t) /\ ~active[t] /\ \A c \in Calls : t \in asked[c] => AnnounceReturned(c) \/ t \in collected[c]
  <1> DEFINE Stays(t) ==
        ~active'[t] /\ \A c \in Calls : request[c][t] = "off" => request'[c][t] = "off"
  <1>1. ASSUME TrackersInv, TrackersNext, NEW t \in AllTrackers, Off(t) PROVE Stays(t)
    <2> USE DEF TrackersInv, Typed
    <2>1. ASSUME NEW c \in Calls, AnnounceBegins(c) PROVE Stays(t)
      <3>1. active' = active /\ ~active[t] /\ request'[c][t] = "off"
        BY <1>1, <2>1 DEF AnnounceBegins, ActiveTrackers, RequestTyped
      <3>2. \A d \in Calls \ {c} : request'[d] = request[d]
        BY <2>1 DEF AnnounceBegins, RequestTyped
      <3> QED
        BY <3>1, <3>2
    <2>2. ASSUME NEW c \in Calls, CollectsResult(c) PROVE Stays(t)
      <3>1. PICK u \in AllTrackers, result \in Results : Takes(c, u, result)
        BY <1>1, <2>2, CollectsTakes
      <3>2. u = Entry(c, 1) /\ 1 \in 1 .. Len(results[c]) /\ answer[c] = Unset
            /\ UNCHANGED request /\ active' = [active EXCEPT ![FirstEntry[u]] = result # "error"]
        BY <3>1 DEF Takes, Entry
      <3>3. u \in asked[c] \ collected[c]
        BY <1>1, <3>2 DEF ResultInv
      <3>4. u # t
        BY <1>1, <3>2, <3>3 DEF AnnounceReturned
      <3>5. FirstEntry[u] # t
        BY <1>1, <3>4, TrackersAssumption DEF Alone
      <3> QED
        BY <1>1, <3>2, <3>5 DEF AnswerTyped
    <2>3. ASSUME NEW c \in Calls, NEW u \in AllTrackers, request[c][u] # "off",
                 \E phase \in Phases : request' = [request EXCEPT ![c][u] = phase], UNCHANGED active
          PROVE  Stays(t)
      BY <1>1, <2>3 DEF RequestTyped
    <2>4. ASSUME NEW c \in Calls, NEW u \in Udp, UdpBegins(c, u) \/ UdpReads(c, u) \/ UdpTimesOut(c, u)
          PROVE  Stays(t)
      <3>1. u \in AllTrackers /\ request[c][u] # "off" /\ UNCHANGED active
            /\ \E phase \in Phases : request' = [request EXCEPT ![c][u] = phase]
        BY <2>4 DEF AllTrackers, UdpBegins, UdpReads, UdpTimesOut, Send, Finish, Phases
      <3> QED
        BY <2>3, <3>1
    <2>5. ASSUME NEW c \in Calls, NEW u \in Http, HttpFails(c, u) PROVE Stays(t)
      BY <2>3, <2>5 DEF HttpFails, Finish, AllTrackers, Phases
    <2>6. ASSUME NEW u \in Udp, Expires(u) PROVE Stays(t)
      BY <1>1, <2>6 DEF Expires
    <2>7. ASSUME NEW u \in Udp, NEW id \in wire[u], NEW says, Answer(u, id, says) PROVE Stays(t)
      BY <1>1, <2>7 DEF Answer
    <2> QED
      BY <1>1, <2>1, <2>2, <2>4, <2>5, <2>6, <2>7 DEF TrackersNext, TrackersStep
  <1>2. ASSUME UNCHANGED trackersVars, NEW t \in AllTrackers, Off(t) PROVE Stays(t)
    BY <1>2 DEF trackersVars
  <1>3. TrackersInv /\ [TrackersNext]_trackersVars =>
          [\A t \in AllTrackers : Off(t) => Stays(t)]_trackersVars
    BY <1>1, <1>2
  <1>4. TrackersInv /\ [TrackersNext]_trackersVars =>
          [\A t \in AllTrackers :
             Alone(t) /\ ~active[t]
             /\ (\A c \in Calls : t \in asked[c] => AnnounceReturned(c) \/ t \in collected[c])
               => ~active'[t]
                  /\ \A c \in Calls : request[c][t] = "off" => request'[c][t] = "off"]_trackersVars
    BY <1>3
  <1> QED
    BY <1>4, TrackersInductive, PTL DEF TrackersSpec, OffForGood

(* The second and the later entries of a URL stay on whatever they answer,  *)
(* because markTrackerStatus stops at the first (manager.go:271): a tracker *)
(* that is in the announce-list too is asked by every announce, and the     *)
(* status that OffForGood is about is that of its first entry only.         *)
THEOREM DuplicatesStayOn ==
    TrackersSpec => [](\A t \in AllTrackers : FirstEntry[t] # t => active[t])
  <1> DEFINE DuplicatesOn == \A t \in AllTrackers : FirstEntry[t] # t => active[t]
  <1>1. TrackersInit => DuplicatesOn
    BY DEF TrackersInit
  <1>2. ASSUME TrackersInv, TrackersNext, DuplicatesOn PROVE DuplicatesOn'
    <2>1. ASSUME NEW c \in Calls, CollectsResult(c) PROVE DuplicatesOn'
      <3>1. PICK u \in AllTrackers, result \in Results : Takes(c, u, result)
        BY <1>2, <2>1, CollectsTakes DEF TrackersInv, Typed
      <3>2. active' = [active EXCEPT ![FirstEntry[u]] = result # "error"]
        BY <3>1 DEF Takes
      <3>3. FirstEntry[FirstEntry[u]] = FirstEntry[u]
        BY TrackersAssumption
      <3> QED
        BY <1>2, <3>2, <3>3 DEF TrackersInv, Typed, AnswerTyped
    <2>2. ASSUME NEW c \in Calls, AnnounceBegins(c) PROVE UNCHANGED active
      BY <2>2 DEF AnnounceBegins
    <2>3. ASSUME NEW c \in Calls, NEW t, UdpBegins(c, t) \/ UdpReads(c, t) \/ UdpTimesOut(c, t)
          PROVE  UNCHANGED active
      BY <2>3 DEF UdpBegins, UdpReads, UdpTimesOut
    <2>4. ASSUME NEW c \in Calls, NEW t, HttpFails(c, t) PROVE UNCHANGED active
      BY <2>4 DEF HttpFails
    <2>5. ASSUME NEW t, Expires(t) PROVE UNCHANGED active
      BY <2>5 DEF Expires
    <2>6. ASSUME NEW t, NEW id, NEW says, Answer(t, id, says) PROVE UNCHANGED active
      BY <2>6 DEF Answer
    <2> QED
      BY <1>2, <2>1, <2>2, <2>3, <2>4, <2>5, <2>6 DEF TrackersNext, TrackersStep
  <1>3. DuplicatesOn /\ UNCHANGED trackersVars => DuplicatesOn'
    BY DEF trackersVars
  <1> QED
    BY <1>1, <1>2, <1>3, TrackersInductive, PTL DEF TrackersSpec

=============================================================================
