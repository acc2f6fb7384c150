------------------------------ MODULE Trackers ------------------------------
(***************************************************************************)
(* The trackers of one session: the manager, which announces to all of     *)
(* them in parallel, and the clients of UDP and HTTP trackers, which it    *)
(* keeps between announces.  The announce loop of the session and its Stop *)
(* call it, at times both at once.                                         *)
(*                                                                         *)
(* A tracker is an entry of the list with a client of its own.  The list   *)
(* keeps duplicates: NewSession puts the announce URL before those of the  *)
(* announce-list (session.go:135-138), where it is often repeated, and     *)
(* NewManager makes an entry of each.                                      *)
(*                                                                         *)
(* Abstractions: a datagram is its transaction ID and what it says; the    *)
(* random transaction IDs are all different; the tracker's answer is sent  *)
(* from anywhere to never, so that a request or an answer may be lost or   *)
(* come after the deadline of the read.  An HTTP request always ends with  *)
(* an error, as the client's timeout is 15 nanoseconds (http.go:33).       *)
(***************************************************************************)
EXTENDS Sequences, Naturals, FiniteSets

CONSTANTS
  Udp, Http,      \* the entries of the manager's list, of each kind
  FirstEntry,     \* the first entry of the list with the same URL
  Calls,          \* the calls of Announce, each made once
  NoAnswer        \* the error that a call returns

AllTrackers == Udp \cup Http
Results == {"peers", "no peers", "error"}

VARIABLES
  active,      \* trackerEntry.active
  asked,       \* the active trackers of a call; {} before it starts
  request,     \* the goroutine of each call and tracker
  results,     \* the channel of a call: <<tracker, result>>
  collected,   \* the trackers whose results a call has received
  best,        \* bestResponse: the tracker it comes from
  answer,      \* what a call has returned: a tracker, or NoAnswer
  connected,   \* UDPTracker: connExpiry is in the future
  wire,        \* requests a tracker has not answered
  inbox        \* datagrams in the receive buffer of a UDPTracker's socket

trackersVars ==
  <<active, asked, request, results, collected, best, answer, connected, wire, inbox>>

Unset == "none"

ASSUME TrackersAssumption ==
  /\ Udp \cap Http = {} /\ {Unset, NoAnswer} \cap AllTrackers = {}
  /\ FirstEntry \in [AllTrackers -> AllTrackers]
  /\ \A t \in AllTrackers :
       FirstEntry[FirstEntry[t]] = FirstEntry[t] /\ (FirstEntry[t] \in Udp <=> t \in Udp)

TrackersInit ==
  /\ active = [t \in AllTrackers |-> TRUE] /\ asked = [c \in Calls |-> {}]
  /\ request = [c \in Calls |-> [t \in AllTrackers |-> "off"]]
  /\ results = [c \in Calls |-> <<>>] /\ collected = [c \in Calls |-> {}]
  /\ best = [c \in Calls |-> Unset] /\ answer = [c \in Calls |-> Unset]
  /\ connected = [t \in Udp |-> FALSE]
  /\ wire = [t \in Udp |-> {}] /\ inbox = [t \in Udp |-> <<>>]

-----------------------------------------------------------------------------
(* Manager.Announce *)

\* Mutated: every tracker is asked.
AnyTrackers == AllTrackers

ActiveTrackers == {t \in AllTrackers : active[t]}

AnnounceBegins(c) ==
  /\ asked[c] = {} /\ answer[c] = Unset
  /\ asked' = [asked EXCEPT ![c] = ActiveTrackers]
  /\ request' = [request EXCEPT ![c] = [t \in AllTrackers |->
                   IF t \in ActiveTrackers THEN "starting" ELSE "off"]]
  /\ answer' = [answer EXCEPT ![c] = IF ActiveTrackers = {} THEN NoAnswer ELSE Unset]
  /\ UNCHANGED <<active, results, collected, best, connected, wire, inbox>>

(* markTrackerStatus goes by the URL: whichever entry was asked, it is the  *)
(* first one with its URL that is switched on or off.                       *)
MarkTrackerStatus(t, ok) == active' = [active EXCEPT ![FirstEntry[t]] = ok]

(* A result is received and its tracker marked.  The first with peers is    *)
(* returned, and nobody receives what comes later.                          *)
CollectsResult(c) ==
  /\ answer[c] = Unset /\ results[c] # <<>>
  /\ LET t == Head(results[c])[1]
         result == Head(results[c])[2]
         last == Cardinality(collected[c]) + 1 = Cardinality(asked[c])
         bestNow == IF result # "error" /\ best[c] = Unset THEN t ELSE best[c]
     IN /\ results' = [results EXCEPT ![c] = Tail(@)]
        /\ collected' = [collected EXCEPT ![c] = @ \cup {t}]
        /\ MarkTrackerStatus(t, result # "error")
        /\ best' = [best EXCEPT ![c] = bestNow]
        /\ answer' = [answer EXCEPT ![c] =
             CASE result = "peers" -> t
               [] result # "peers" /\ last -> IF bestNow = Unset THEN NoAnswer ELSE bestNow
               [] OTHER -> Unset]
  /\ UNCHANGED <<asked, request, connected, wire, inbox>>

-----------------------------------------------------------------------------
(* UDPTracker and HTTPTracker *)

\* The goroutine puts the result into the channel, which has room for all.
Finish(c, t, result) ==
  /\ request' = [request EXCEPT ![c][t] = "done"]
  /\ results' = [results EXCEPT ![c] = Append(@, <<t, result>>)]

Transaction(c, action) == <<c, action>>

Send(c, t, action) ==
  /\ wire' = [wire EXCEPT ![t] = @ \cup {Transaction(c, action)}]
  /\ request' = [request EXCEPT ![c][t] = action]

\* A connection ID is asked for, unless there is one that is not too old.
UdpBegins(c, t) ==
  /\ request[c][t] = "starting"
  /\ Send(c, t, IF connected[t] THEN "announce" ELSE "connect")
  /\ UNCHANGED <<active, asked, results, collected, best, answer, connected, inbox>>

\* Mutated: the transaction ID of an answer is not looked at.
IsAnyAnswer(datagram, c, action) == datagram.says # "error"

(* The transaction ID is the one of the request, the action is the one that *)
(* was asked for and not an error.                                          *)
IsAnswer(datagram, c, action) ==
  datagram.id = Transaction(c, action) /\ datagram.says # "error"

(* The socket is shared: a read takes whatever datagram comes first, be it  *)
(* for another call or late for an earlier one, and that ends the announce. *)
UdpReads(c, t) ==
  /\ request[c][t] \in {"connect", "announce"} /\ inbox[t] # <<>>
  /\ inbox' = [inbox EXCEPT ![t] = Tail(@)]
  /\ LET datagram == Head(inbox[t])
         ok == IsAnswer(datagram, c, request[c][t])
     IN \/ /\ ok /\ request[c][t] = "connect"
           /\ connected' = [connected EXCEPT ![t] = TRUE]
           /\ Send(c, t, "announce") /\ UNCHANGED results
        \/ /\ ok /\ request[c][t] = "announce" /\ Finish(c, t, datagram.says)
           /\ UNCHANGED <<connected, wire>>
        \/ ~ok /\ Finish(c, t, "error") /\ UNCHANGED <<connected, wire>>
  /\ UNCHANGED <<active, asked, collected, best, answer>>

\* Mutated: a read without a deadline ends only when the call has returned.
UdpWaits(c, t) ==
  /\ request[c][t] \in {"connect", "announce"} /\ inbox[t] = <<>> /\ answer[c] # Unset
  /\ Finish(c, t, "error")
  /\ UNCHANGED <<active, asked, collected, best, answer, connected, wire, inbox>>

\* The deadline of the read, fifteen seconds.
UdpTimesOut(c, t) ==
  /\ request[c][t] \in {"connect", "announce"} /\ inbox[t] = <<>>
  /\ Finish(c, t, "error")
  /\ UNCHANGED <<active, asked, collected, best, answer, connected, wire, inbox>>

HttpFails(c, t) ==
  /\ request[c][t] = "starting" /\ Finish(c, t, "error")
  /\ UNCHANGED <<active, asked, collected, best, answer, connected, wire, inbox>>

\* A minute after the connection ID was received.
Expires(t) ==
  /\ connected[t] /\ connected' = [connected EXCEPT ![t] = FALSE]
  /\ UNCHANGED <<active, asked, request, results, collected, best, answer, wire, inbox>>

(* The tracker answers a request, with a list of peers, an empty one or an  *)
(* error, now or when its client has given up.                              *)
Answer(t, id, says) ==
  /\ id \in wire[t] /\ wire' = [wire EXCEPT ![t] = @ \ {id}]
  /\ says \in IF id[2] = "connect" THEN {"connected", "error"} ELSE Results
  /\ inbox' = [inbox EXCEPT ![t] = Append(@, [id |-> id, says |-> says])]
  /\ UNCHANGED <<active, asked, request, results, collected, best, answer, connected>>

-----------------------------------------------------------------------------
TrackersStep(c) ==
  \/ CollectsResult(c)
  \/ \E t \in Udp : UdpBegins(c, t) \/ UdpReads(c, t) \/ UdpTimesOut(c, t)
  \/ \E t \in Http : HttpFails(c, t)

TrackersNext ==
  \/ \E c \in Calls : AnnounceBegins(c) \/ TrackersStep(c)
  \/ \E t \in Udp : Expires(t)
  \/ \E t \in Udp : \E id \in wire[t], says \in Results \cup {"connected"} : Answer(t, id, says)

TrackersSpec == TrackersInit /\ [][TrackersNext]_trackersVars

\* The goroutines of an announce run; of the trackers nothing is assumed.
TrackersFairness == \A c \in Calls : WF_trackersVars(TrackersStep(c))

-----------------------------------------------------------------------------
(* Properties *)

\* The type invariant.
TrackersTypeOK ==
  /\ active \in [AllTrackers -> BOOLEAN] /\ asked \in [Calls -> SUBSET AllTrackers]
  /\ request \in [Calls -> [AllTrackers -> {"off", "starting", "connect", "announce", "done"}]]
  /\ results \in [Calls -> Seq(AllTrackers \X Results)]
  /\ collected \in [Calls -> SUBSET AllTrackers]
  /\ best \in [Calls -> AllTrackers \cup {Unset}]
  /\ answer \in [Calls -> AllTrackers \cup {Unset, NoAnswer}]
  /\ connected \in [Udp -> BOOLEAN]
  /\ wire \in [Udp -> SUBSET (Calls \X {"connect", "announce"})]
  /\ \A t \in Udp : \A i \in 1 .. Len(inbox[t]) :
       inbox[t][i] \in [id : Calls \X {"connect", "announce"}, says : Results \cup {"connected"}]

AnnounceReturned(c) == answer[c] # Unset

(* The peers that a call returns were sent by the tracker in answer to this *)
(* very call, which is therefore no longer on the wire or in the socket; a  *)
(* late answer to an earlier or a concurrent call is never taken for it.    *)
AnswerIsOurs ==
  \A c \in Calls : answer[c] \in Udp =>
    LET t == answer[c]
        id == Transaction(c, "announce")
    IN id \notin wire[t] /\ \A i \in 1 .. Len(inbox[t]) : inbox[t][i].id # id

\* No other entry has the same URL.
Alone(t) == \A u \in AllTrackers : FirstEntry[u] = FirstEntry[t] => u = t

(* A tracker that is listed once is never asked again once it is switched   *)
(* off and no call is under way that may still have an answer of it:        *)
(* nothing retries it.  Of a tracker that is listed twice this is not true: *)
(* its second entry is never switched off (DuplicatesStayOn), is asked by   *)
(* every announce, and switches the first on again when it is answered.     *)
OffForGood ==
  [][\A t \in AllTrackers :
       Alone(t) /\ ~active[t]
       /\ (\A c \in Calls : t \in asked[c] => AnnounceReturned(c) \/ t \in collected[c])
         => ~active'[t]
            /\ \A c \in Calls : request[c][t] = "off" => request'[c][t] = "off"]_trackersVars

(* Every call returns, though no tracker answers, and so the loop goes on   *)
(* and Stop does not wait for it.                                           *)
AnnounceReturns == \A c \in Calls : asked[c] # {} ~> AnnounceReturned(c)
=============================================================================
