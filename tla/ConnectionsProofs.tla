------------------------- MODULE ConnectionsProofs -------------------------
(***************************************************************************)
(* The safety of Connections, for any number of addresses, dials and       *)
(* accepted connections and any limits.                                    *)
(*                                                                         *)
(* NothingAfterStop is not inductive: that no goroutine dials any more      *)
(* after Stop needs PathInv, that no other call of Stop is on its way, and  *)
(* QuietInv, that a loop never begins again.  The two properties of the     *)
(* table need TableInv, that an entry has the address of its connection.    *)
(***************************************************************************)
EXTENDS Connections, TLAPS

Loops == {"tracker", "dht"}

\* A caller that has found the session running.
InStop(k) == pc[k] \in {"announcing", "launching", "closing", "waiting"}

PathInv ==
  /\ \A k \in Stoppers : InStop(k) => session = "stopping"
  /\ \A j, k \in Stoppers : InStop(j) /\ InStop(k) => j = k

QuietInv ==
  /\ session = "new" =>
       /\ ~coordinator /\ \A l \in Loops : loop[l] = "off"
       /\ \A d \in Dials : dial[d] = "unused"
       /\ \A a \in Addrs : table[a] = None
  /\ session = "stopped" =>
       (\A l \in Loops : loop[l] = "off") /\ \A d \in Dials : DialGone(d)

TableInv ==
  /\ \A d \in Dials : dial[d] # "unused" => addr[d] \in Addrs
  /\ \A a \in Addrs : table[a] # None =>
       addr[table[a]] = a /\ dial[table[a]] \in {"serving", "gone"}
  /\ ListedIsServed /\ ServedIsListed

ConnInv == TypeOK /\ PathInv /\ QuietInv /\ TableInv /\ UploadIsServed

LEMMA Initially == Init => ConnInv
  <1> SUFFICES ASSUME Init PROVE ConnInv
    OBVIOUS
  <1>1. TypeOK
    BY DEF Init, TypeOK, Stoppers, Announcers
  <1>2. PathInv /\ QuietInv /\ TableInv /\ UploadIsServed
    BY DEF Init, PathInv, InStop, QuietInv, Loops, DialGone, TableInv, ListedIsServed,
       ServedIsListed, UploadIsServed
  <1> QED
    BY <1>1, <1>2 DEF ConnInv

-----------------------------------------------------------------------------
(* Types.  The loops and the calls of Stop share the actions of an announce. *)

USE DEF engineVars, sessionVars, dialVars, uploadVars

LEMMA MoveTypes ==
  ASSUME TypeOK, NEW k \in Announcers, NEW step \in {"launching", After(k)}, Move(k, step)
  PROVE  /\ loop' \in [Loops -> {"off", "asleep", "announcing", "launching", "ticking"}]
         /\ loop'["tracker"] # "asleep"
         /\ pc' \in [Stoppers -> {"idle", "called", "announcing", "launching", "closing",
                                  "waiting", "returned"}]
  BY DEF TypeOK, Move, After, Announcers, Stoppers, Loops

LEMMA TypeStep ==
  ASSUME TypeOK, [Next]_vars
  PROVE  TypeOK'
  <1> USE ConnectionsAssumption DEF TypeOK
  <1>1. CASE UNCHANGED vars
    BY <1>1 DEF vars
  <1>2. ASSUME NEW complete \in BOOLEAN, Start(complete) PROVE TypeOK'
    BY <1>2 DEF Start
  <1>3. CASE TrackerTick \/ DhtWakes \/ DhtTick
    BY <1>3 DEF TrackerTick, DhtWakes, DhtTick
  <1>4. ASSUME NEW l \in Loops, LoopEnds(l) PROVE TypeOK'
    BY <1>4 DEF LoopEnds, Loops
  <1>5. ASSUME NEW k \in Announcers, Answers(k) PROVE TypeOK'
    BY <1>5, MoveTypes DEF Answers, Answered, Loops
  <1>6. ASSUME NEW k \in Announcers, Launch(k) PROVE TypeOK'
    BY <1>6 DEF Launch, Launches
  <1>7. ASSUME NEW k \in Announcers, LaunchesEnd(k) PROVE TypeOK'
    BY <1>7, MoveTypes DEF LaunchesEnd, Loops
  <1>8. ASSUME NEW d \in Dials, Checks(d) \/ Dialed(d) PROVE TypeOK'
    BY <1>8 DEF Checks, Dialed
  <1>9. ASSUME NEW d \in Dials, Registers(d) PROVE TypeOK'
    <2>1. /\ table' \in [Addrs -> Dials \cup {None}]
          /\ dial' \in [Dials -> {"unused", "checking", "dialing", "registering", "serving", "gone"}]
      BY <1>9 DEF Registers
    <2>2. now' \in [Dials -> Dials \cup {None}]
      BY <1>9 DEF Registers
    <2> QED
      BY <1>9, <2>1, <2>2 DEF Registers
  <1>10. ASSUME NEW d \in Dials, WriteEnds(d) \/ Seeds(d) PROVE TypeOK'
    <2>1. CASE WriteEnds(d)
      BY <2>1 DEF WriteEnds
    <2>2. CASE Seeds(d)
      BY <2>2 DEF Seeds
    <2> QED
      BY <1>10, <2>1, <2>2
  <1>11. ASSUME NEW d \in Dials, PeerLeaves(d) PROVE TypeOK'
    BY <1>11 DEF PeerLeaves, TableWithout
  <1>12. ASSUME NEW d \in Dials, NEW c \in Dials, WriteBegins(d, c) PROVE TypeOK'
    BY <1>12 DEF WriteBegins
  <1>13. ASSUME NEW u \in Incoming, Accept(u) \/ UploadWrites(u) \/ UploadEnds(u) PROVE TypeOK'
    <2>1. CASE Accept(u)
      BY <2>1 DEF Accept
    <2>2. CASE UploadWrites(u)
      BY <2>2 DEF UploadWrites
    <2>3. CASE UploadEnds(u)
      BY <2>3 DEF UploadEnds
    <2> QED
      BY <1>13, <2>1, <2>2, <2>3
  <1>14. ASSUME NEW u \in Incoming, HandlerStep(u) PROVE TypeOK'
    <2>1. CASE Finds(u)
      BY <2>1 DEF Finds, HandlerEnds
    <2>2. CASE Hands(u)
      <3>1. uploads' \subseteq Incoming /\ upload' \in [Incoming -> {"off", "reading", "writing", "gone"}]
        BY <2>2 DEF Hands, HandlerEnds
      <3>2. /\ handler' \in [Incoming -> {"none", "accepted", "found", "handed", "gone"}]
            /\ open' \in [Incoming -> BOOLEAN] /\ crashed' \in BOOLEAN
        BY <2>2 DEF Hands, HandlerEnds
      <3> QED
        BY <2>2, <3>1, <3>2 DEF Hands
    <2>3. CASE HandlerReturns(u)
      BY <2>3 DEF HandlerReturns, HandlerEnds
    <2> QED
      BY <1>14, <2>1, <2>2, <2>3 DEF HandlerStep
  <1>15. ASSUME NEW u \in Incoming, NEW said \in {"interested", "not interested", "request"},
                UploadReads(u, said)
         PROVE  TypeOK'
    BY <1>15 DEF UploadReads
  <1>16. CASE EngineStops \/ ApiStops \/ Remove \/ EngineEnds
    <2>1. CASE EngineStops
      BY <2>1 DEF EngineStops, Stoppers
    <2>2. CASE ApiStops
      BY <2>2 DEF ApiStops, Stoppers
    <2>3. CASE Remove
      BY <2>3 DEF Remove, Stoppers
    <2>4. CASE EngineEnds
      BY <2>4 DEF EngineEnds, Stoppers
    <2> QED
      BY <1>16, <2>1, <2>2, <2>3, <2>4
  <1>17. ASSUME NEW k \in Stoppers, StopBegins(k) \/ ClosesUploads(k) \/ StopEnds(k)
         PROVE  TypeOK'
    <2>1. CASE StopBegins(k)
      BY <2>1 DEF StopBegins
    <2>2. CASE ClosesUploads(k)
      BY <2>2 DEF ClosesUploads
    <2>3. CASE StopEnds(k)
      BY <2>3 DEF StopEnds
    <2> QED
      BY <1>17, <2>1, <2>2, <2>3
  <1> QED
    BY <1>1, <1>2, <1>3, <1>4, <1>5, <1>6, <1>7, <1>8, <1>9, <1>10, <1>11, <1>12, <1>13, <1>14,
       <1>15, <1>16, <1>17 DEF Next, LoopStep, DialStep, StopStep, Loops, Announcers

-----------------------------------------------------------------------------
(* Which steps change what                                                 *)

\* A step of the announce of k.
Announces(k) == Answers(k) \/ Launch(k) \/ LaunchesEnd(k)

LEMMA TableSteps ==
  ASSUME Next
  PROVE  \/ UNCHANGED <<table, dial, addr, coordinator>>
         \/ \E complete \in BOOLEAN : Start(complete)
         \/ \E k \in Announcers : Launch(k)
         \/ \E d \in Dials : Checks(d) \/ Dialed(d) \/ Registers(d) \/ PeerLeaves(d)
  BY SMTT(100) DEF Next, Announcers, Start, TrackerTick, DhtWakes, DhtTick, LoopStep, LoopEnds, Answers, Answered, Launch, Launches,
       LaunchesEnd, DialStep, Checks, Dialed, Registers, WriteEnds, WriteBegins, Seeds, PeerLeaves, Accept,
       HandlerStep, Finds, Hands, HandlerReturns, HandlerEnds, UploadWrites, UploadEnds, UploadReads,
       EngineStops, ApiStops, Remove, EngineEnds, StopStep, StopBegins, ClosesUploads, StopEnds

LEMMA StopSteps ==
  ASSUME Next
  PROVE  \/ UNCHANGED <<pc, session>>
         \/ \E complete \in BOOLEAN : Start(complete)
         \/ \E k \in Announcers : Answers(k) \/ LaunchesEnd(k)
         \/ EngineStops \/ ApiStops
         \/ \E k \in Stoppers : StopBegins(k) \/ ClosesUploads(k) \/ StopEnds(k)
  BY SMTT(100) DEF Next, Announcers, Start, TrackerTick, DhtWakes, DhtTick, LoopStep, LoopEnds, Answers, Answered, Launch, Launches,
       LaunchesEnd, DialStep, Checks, Dialed, Registers, WriteEnds, WriteBegins, Seeds, PeerLeaves, Accept,
       HandlerStep, Finds, Hands, HandlerReturns, HandlerEnds, UploadWrites, UploadEnds, UploadReads,
       EngineStops, ApiStops, Remove, EngineEnds, StopStep, StopBegins, ClosesUploads, StopEnds

LEMMA QuietSteps ==
  ASSUME Next
  PROVE  \/ UNCHANGED <<session, coordinator, loop, dial, table>>
         \/ \E complete \in BOOLEAN : Start(complete)
         \/ TrackerTick \/ DhtWakes \/ DhtTick \/ \E l \in Loops : LoopEnds(l)
         \/ \E k \in Announcers : Announces(k)
         \/ \E d \in Dials : Checks(d) \/ Dialed(d) \/ Registers(d) \/ PeerLeaves(d)
         \/ \E k \in Stoppers : StopBegins(k) \/ StopEnds(k)
  BY SMTT(100) DEF Next, Announcers, Loops, Announces, Start, TrackerTick, DhtWakes, DhtTick, LoopStep, LoopEnds, Answers, Answered, Launch, Launches,
       LaunchesEnd, DialStep, Checks, Dialed, Registers, WriteEnds, WriteBegins, Seeds, PeerLeaves, Accept,
       HandlerStep, Finds, Hands, HandlerReturns, HandlerEnds, UploadWrites, UploadEnds, UploadReads,
       EngineStops, ApiStops, Remove, EngineEnds, StopStep, StopBegins, ClosesUploads, StopEnds

LEMMA UploadSteps ==
  ASSUME Next
  PROVE  \/ UNCHANGED <<uploads, upload>>
         \/ \E u \in Incoming : Hands(u) \/ UploadWrites(u) \/ UploadEnds(u)
         \/ \E u \in Incoming, said \in {"interested", "not interested", "request"} :
              UploadReads(u, said)
         \/ \E k \in Stoppers : ClosesUploads(k)
  BY SMTT(100) DEF Next, Announcers, Start, TrackerTick, DhtWakes, DhtTick, LoopStep, LoopEnds, Answers, Answered, Launch, Launches,
       LaunchesEnd, DialStep, Checks, Dialed, Registers, WriteEnds, WriteBegins, Seeds, PeerLeaves, Accept,
       HandlerStep, Finds, Hands, HandlerReturns, HandlerEnds, UploadWrites, UploadEnds, UploadReads,
       EngineStops, ApiStops, Remove, EngineEnds, StopStep, StopBegins, ClosesUploads, StopEnds

-----------------------------------------------------------------------------
(* The table of download peers                                             *)

LEMMA TableStep ==
  ASSUME TypeOK, QuietInv, TableInv, Next
  PROVE  TableInv'
  <1> USE ConnectionsAssumption DEF TypeOK, TableInv, ListedIsServed, ServedIsListed
  <1>1. CASE UNCHANGED <<table, dial, addr, coordinator>>
    BY <1>1
  <1>2. ASSUME NEW complete \in BOOLEAN, Start(complete) PROVE TableInv'
    BY <1>2 DEF Start, QuietInv
  <1>3. ASSUME NEW k \in Announcers, Launch(k) PROVE TableInv'
    BY <1>3 DEF Launch, Launches
  <1>4. ASSUME NEW d \in Dials, Checks(d) \/ Dialed(d) PROVE TableInv'
    BY <1>4 DEF Checks, Dialed
  <1>5. ASSUME NEW d \in Dials, Registers(d) PROVE TableInv'
    BY <1>5 DEF Registers
  <1>6. ASSUME NEW d \in Dials, PeerLeaves(d) PROVE TableInv'
    BY <1>6 DEF PeerLeaves, Between, TableWithout
  <1> QED
    BY <1>1, <1>2, <1>3, <1>4, <1>5, <1>6, TableSteps

-----------------------------------------------------------------------------
(* Stop                                                                    *)

LEMMA PathStep ==
  ASSUME TypeOK, PathInv, Next
  PROVE  PathInv'
  <1> USE DEF TypeOK, PathInv, InStop
  <1>1. CASE UNCHANGED <<pc, session>>
    BY <1>1
  <1>2. ASSUME NEW complete \in BOOLEAN, Start(complete) PROVE PathInv'
    BY <1>2 DEF Start
  <1>3. ASSUME NEW k \in Announcers, Answers(k) \/ LaunchesEnd(k) PROVE PathInv'
    BY <1>3 DEF Answers, Answered, LaunchesEnd, In, Move, After
  <1>4. CASE EngineStops \/ ApiStops
    BY <1>4 DEF EngineStops, ApiStops, Stoppers
  <1>5. ASSUME NEW k \in Stoppers, StopBegins(k) \/ ClosesUploads(k) \/ StopEnds(k) PROVE PathInv'
    BY <1>5 DEF StopBegins, ClosesUploads, StopEnds
  <1> QED
    BY <1>1, <1>2, <1>3, <1>4, <1>5, StopSteps

LEMMA QuietStep ==
  ASSUME TypeOK, PathInv, QuietInv, TableInv, Next
  PROVE  QuietInv'
  <1> USE DEF TypeOK, QuietInv, Loops, DialGone
  <1>1. CASE UNCHANGED <<session, coordinator, loop, dial, table>>
    BY <1>1
  <1>2. ASSUME NEW complete \in BOOLEAN, Start(complete) PROVE QuietInv'
    BY <1>2 DEF Start
  <1>3. CASE TrackerTick \/ DhtWakes \/ DhtTick \/ \E l \in Loops : LoopEnds(l)
    BY <1>3 DEF TrackerTick, DhtWakes, DhtTick, LoopEnds
  <1>4. ASSUME NEW k \in Announcers, Announces(k) PROVE QuietInv'
    <2>1. session \in {"started", "stopping"}
      BY <1>4 DEF Announces, Answers, Answered, Launch, Launches, LaunchesEnd, In, Announcers,
         PathInv, InStop
    <2>2. UNCHANGED session
      BY <1>4 DEF Announces, Answers, Answered, Launch, Launches, LaunchesEnd
    <2> QED
      BY <2>1, <2>2
  <1>5. ASSUME NEW d \in Dials, Checks(d) \/ Dialed(d) \/ Registers(d) \/ PeerLeaves(d)
        PROVE  QuietInv'
    BY <1>5 DEF Checks, Dialed, Registers, PeerLeaves, Between
  <1>6. ASSUME NEW k \in Stoppers, StopBegins(k) \/ StopEnds(k) PROVE QuietInv'
    BY <1>6 DEF StopBegins, StopEnds, AllDone
  <1> QED
    BY <1>1, <1>2, <1>3, <1>4, <1>5, <1>6, QuietSteps

-----------------------------------------------------------------------------
(* Uploads                                                                 *)

LEMMA UploadStep ==
  ASSUME TypeOK, UploadIsServed, Next
  PROVE  UploadIsServed'
  <1> USE DEF TypeOK, UploadIsServed
  <1>1. CASE UNCHANGED <<uploads, upload>>
    BY <1>1
  <1>2. ASSUME NEW u \in Incoming, Hands(u) PROVE UploadIsServed'
    BY <1>2 DEF Hands, HandlerEnds
  <1>3. ASSUME NEW u \in Incoming, UploadWrites(u) \/ UploadEnds(u) PROVE UploadIsServed'
    BY <1>3 DEF UploadWrites, UploadEnds
  <1>4. ASSUME NEW u \in Incoming, NEW said \in {"interested", "not interested", "request"},
               UploadReads(u, said)
        PROVE  UploadIsServed'
    BY <1>4 DEF UploadReads
  <1>5. ASSUME NEW k \in Stoppers, ClosesUploads(k) PROVE UploadIsServed'
    BY <1>5 DEF ClosesUploads
  <1> QED
    BY <1>1, <1>2, <1>3, <1>4, <1>5, UploadSteps

-----------------------------------------------------------------------------
LEMMA Invariant == Spec => []ConnInv
  <1>1. ConnInv /\ [Next]_vars => ConnInv'
    <2> SUFFICES ASSUME ConnInv, [Next]_vars PROVE ConnInv'
      OBVIOUS
    <2>1. CASE UNCHANGED vars
      BY <2>1 DEF vars, ConnInv, TypeOK, PathInv, InStop, QuietInv, DialGone, TableInv,
         ListedIsServed, ServedIsListed, UploadIsServed
    <2>2. CASE Next
      BY <2>2, TypeStep, PathStep, QuietStep, TableStep, UploadStep DEF ConnInv
    <2> QED
      BY <2>1, <2>2
  <1> QED
    BY <1>1, Initially, PTL DEF Spec

(* The variables of Connections keep their types.                          *)
THEOREM ConnectionsTyped == Spec => []TypeOK
  <1>1. ConnInv => TypeOK
    BY DEF ConnInv
  <1> QED
    BY <1>1, Invariant, PTL

(* While there is a coordinator, every entry of downloadPeers has a live    *)
(* worker, however many dials race for an address.                         *)
THEOREM EntriesAreServed == Spec => []ListedIsServed
  <1>1. ConnInv => ListedIsServed
    BY DEF ConnInv, TableInv
  <1> QED
    BY <1>1, Invariant, PTL

(* Only a second connection of the same address can take a live worker out  *)
(* of downloadPeers.                                                       *)
THEOREM WorkersAreListed == Spec => []ServedIsListed
  <1>1. ConnInv => ServedIsListed
    BY DEF ConnInv, TableInv
  <1> QED
    BY <1>1, Invariant, PTL

(* After Session.Stop no loop, dial or download worker is left, whoever has *)
(* called it and whatever its own announce has dialled.                     *)
THEOREM StopLeavesNothing == Spec => []NothingAfterStop
  <1>1. ConnInv => NothingAfterStop
    <2> SUFFICES ASSUME ConnInv, session = "stopped" PROVE NothingAfterStop
      BY DEF NothingAfterStop
    <2>1. \A d \in Dials : DialGone(d)
      BY DEF ConnInv, QuietInv
    <2>2. coordinator => \A a \in Addrs : table[a] = None
      BY <2>1 DEF ConnInv, TypeOK, TableInv, ListedIsServed, DialGone
    <2> QED
      BY <2>1, <2>2 DEF ConnInv, QuietInv, NothingAfterStop, Listed, Loops
  <1> QED
    BY <1>1, Invariant, PTL

(* Every entry of uploadPeers has a worker that will delete it.             *)
THEOREM UploadsAreServed == Spec => []UploadIsServed
  <1>1. ConnInv => UploadIsServed
    BY DEF ConnInv
  <1> QED
    BY <1>1, Invariant, PTL
=============================================================================
