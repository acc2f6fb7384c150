----------------------------- MODULE LeaseProofs -----------------------------
(***************************************************************************)
(* Outside endgame, and while no timer fires, no block is refused and the  *)
(* disk does not fail, Download implements PieceLease, for every set of    *)
(* peers, pieces and blocks and every number of corrupt blocks, Cancels    *)
(* and disconnections.  LeaseInv is inductive; its parts say who is in     *)
(* which handler with what (PathInv), that a piece has one worker and a    *)
(* failed one none (ClaimInv), that this worker's object is the one in     *)
(* Manager.pieces (HeldInv), that a peer still owes only blocks of its     *)
(* current piece that nobody has (WireInv), and that nothing goes wrong    *)
(* before the first corrupt block (BadInv).                                *)
(***************************************************************************)
EXTENDS DownloadProofs

USE DEF sessionVars

\* The events that take a piece from a peer behind its worker's back.
QuietBudget ==
  /\ Budget["timeout"] = 0 /\ Budget["stall"] = 0
  /\ Budget["malformed"] = 0 /\ Budget["diskfault"] = 0

\* Where a worker with a current piece still collects its blocks.
Collecting == {"loop", "leave", "write", "check", "fill", "complete"}

PathInv ==
  \A p \in Peers :
    /\ pc[p] \notin {"startfail", "abandon", "timeout", "drop"}
    /\ pc[p] \in {"off", "request", "start", "finish"} => cur[p] = None
    /\ pc[p] \in {"write", "check", "fill", "complete", "verify", "notify", "reject"}
         => cur[p] = job[p].piece

ClaimInv ==
  /\ \A i \in Pieces : \A p, q \in Peers : Engaged(p, i) /\ Engaged(q, i) => p = q
  /\ \A i \in Pieces, p \in Peers : Engaged(p, i) => pstate[i] = "Downloading"
  /\ \A k \in 1..Len(failedCh) :
       /\ pstate[failedCh[k]] = "Downloading" /\ failedCh[k] \notin bits
       /\ \A p \in Peers : ~Engaged(p, failedCh[k])
  /\ \A k, l \in 1..Len(failedCh) : failedCh[k] = failedCh[l] => k = l
  /\ \A k \in 1..Len(completedCh), p \in Peers : ~Engaged(p, completedCh[k])

HeldInv ==
  /\ \A p \in Peers : cur[p] # None /\ pc[p] \in Collecting =>
       cur[p] \notin bits /\ mgr[cur[p]] = qpd[p]
  /\ \A p \in Peers : pc[p] \in {"start", "reject"} => job[p].piece \notin bits
  /\ \A i, j \in Pieces : mgr[i] = mgr[j] /\ mgr[i] # None => i = j

WireInv ==
  /\ \A p \in Peers, i \in Pieces, b \in Blocks : wire[p][<<i, b>>] > 0 =>
       /\ wire[p][<<i, b>>] = 1 /\ cur[p] = i /\ pc[p] \in Collecting
       /\ pd[qpd[p]][b] = "requested"
  /\ \A p \in Peers : pc[p] = "write" => wire[p][<<job[p].piece, job[p].block>>] = 0
  /\ \A p \in Peers : pc[p] \in {"write", "check"} => job[p].pd = qpd[p]
  /\ \A p \in Peers : pc[p] = "complete" => IsComplete(qpd[p])

\* Every block that has arrived is good.
Clean == left["corrupt"] = Budget["corrupt"]

BadInv ==
  Clean =>
    /\ \A d \in PdIds, b \in Blocks : pd[d][b] # "bad"
    /\ \A p \in Peers :
         /\ strikes[p] = 0 /\ pc[p] # "reject"
         /\ pc[p] = "write" => job[p].good
         /\ pc[p] = "verify" => disk[job[p].piece] = "good"

LeaseParts == PathInv /\ ClaimInv /\ HeldInv /\ WireInv /\ BadInv
LeaseInv == KeptInv /\ LeaseParts

(* With no budget for them, four kinds of events never happen.             *)
LEMMA QuietEvents ==
  ASSUME KeptInv, QuietBudget
  PROVE  /\ ~Spend("timeout") /\ ~Spend("stall") /\ ~Spend("malformed")
         /\ ~Spend("diskfault") /\ NoDiskFault /\ NoTimeouts
  <1>1. /\ left \in [EventKinds -> Nat]
        /\ \A k \in {"timeout", "stall", "malformed", "diskfault"} :
             k \in EventKinds /\ left[k] <= Budget[k]
    BY DEF KeptInv, SafeInv, BaseInv, TypeOK, BudgetInv, EventKinds
  <1>2. \A k \in {"timeout", "stall", "malformed", "diskfault"} :
          left[k] = 0 /\ Budget[k] = 0
    BY <1>1 DEF QuietBudget
  <1> QED
    BY <1>2 DEF Spend, NoDiskFault, NoTimeouts, QuietBudget

(* What a worker of a piece has: the only one, in progress for the         *)
(* coordinator, and neither failed nor complete.                           *)
LEMMA EngagedAlone ==
  ASSUME ClaimInv, NEW p \in Peers, NEW i \in Pieces, Engaged(p, i)
  PROVE  /\ \A q \in Peers : q # p => cur[q] # i
                                      /\ ~(pc[q] = "start" /\ job[q].piece = i)
         /\ pstate[i] = "Downloading"
         /\ \A k \in 1..Len(failedCh) : failedCh[k] # i
         /\ \A k \in 1..Len(completedCh) : completedCh[k] # i
  <1>1. \A q \in Peers : Engaged(q, i) => q = p
    BY DEF ClaimInv
  <1>2. \A k \in 1..Len(failedCh) : ~Engaged(p, failedCh[k])
    BY DEF ClaimInv
  <1>3. \A k \in 1..Len(completedCh) : ~Engaged(p, completedCh[k])
    BY DEF ClaimInv
  <1>4. pstate[i] = "Downloading"
    BY DEF ClaimInv
  <1> QED
    BY <1>1, <1>2, <1>3, <1>4 DEF Engaged

(* Claims survive a step that gives no piece to a worker and changes       *)
(* nothing of the coordinator's.                                           *)
LEMMA ClaimsKept ==
  ASSUME ClaimInv, UNCHANGED <<pstate, failedCh, completedCh>>,
         \A k \in 1..Len(failedCh) : failedCh[k] \notin bits',
         \A q \in Peers, i \in Pieces : Engaged(q, i)' => Engaged(q, i),
         failedCh \in Seq(Pieces), completedCh \in Seq(Pieces)
  PROVE  ClaimInv'
  <1>1. /\ \A k \in 1..Len(failedCh) : failedCh[k] \in Pieces
        /\ \A k \in 1..Len(completedCh) : completedCh[k] \in Pieces
    OBVIOUS
  <1>2. /\ \A i \in Pieces : \A p, q \in Peers :
             Engaged(p, i)' /\ Engaged(q, i)' => p = q
        /\ \A i \in Pieces, p \in Peers : Engaged(p, i)' => pstate'[i] = "Downloading"
    BY DEF ClaimInv
  <1>3. \A k \in 1..Len(failedCh') :
          /\ pstate'[failedCh'[k]] = "Downloading" /\ failedCh'[k] \notin bits'
          /\ \A p \in Peers : ~Engaged(p, failedCh[k])'
    BY <1>1 DEF ClaimInv, Engaged
  <1>4. \A k, l \in 1..Len(failedCh') : failedCh'[k] = failedCh'[l] => k = l
    BY DEF ClaimInv
  <1>5. \A k \in 1..Len(completedCh'), p \in Peers : ~Engaged(p, completedCh[k])'
    BY <1>1 DEF ClaimInv, Engaged
  <1> QED
    BY <1>2, <1>3, <1>4, <1>5 DEF ClaimInv

(* A worker that gives its missing piece back appends it to the failures.  *)
LEMMA ClaimGivenBack ==
  ASSUME ClaimInv, NEW p \in Peers, NEW i \in Pieces, Engaged(p, i), i \notin bits,
         Send(failedCh, i), UNCHANGED <<pstate, completedCh, bits>>,
         \A q \in Peers, j \in Pieces : Engaged(q, j)' => Engaged(q, j),
         ~Engaged(p, i)',
         failedCh \in Seq(Pieces), completedCh \in Seq(Pieces)
  PROVE  ClaimInv'
  <1>1. /\ \A k \in 1..Len(failedCh) : failedCh[k] \in Pieces
        /\ \A k \in 1..Len(completedCh) : completedCh[k] \in Pieces
    OBVIOUS
  <1>a. failedCh' = Append(failedCh, i)
    BY DEF Send
  <1>b. Len(failedCh) \in Nat /\ Len(failedCh') = Len(failedCh) + 1
    BY <1>a
  <1>c. \A k \in 1..Len(failedCh') :
          \/ k \in 1..Len(failedCh) /\ failedCh'[k] = failedCh[k]
          \/ k = Len(failedCh) + 1 /\ failedCh'[k] = i
    BY <1>a
  <1>d. \A q \in Peers : ~Engaged(q, i)'
    BY DEF ClaimInv
  <1>e. pstate[i] = "Downloading" /\ \A k \in 1..Len(failedCh) : failedCh[k] # i
    BY EngagedAlone
  <1>2. /\ \A j \in Pieces : \A q, r \in Peers :
             Engaged(q, j)' /\ Engaged(r, j)' => q = r
        /\ \A j \in Pieces, q \in Peers : Engaged(q, j)' => pstate'[j] = "Downloading"
    BY DEF ClaimInv
  <1>3. ASSUME NEW k \in 1..Len(failedCh')
        PROVE  /\ pstate'[failedCh'[k]] = "Downloading" /\ failedCh'[k] \notin bits'
               /\ \A q \in Peers : ~Engaged(q, failedCh[k])'
    <2>1. CASE k \in 1..Len(failedCh) /\ failedCh'[k] = failedCh[k]
      BY <1>1, <2>1 DEF ClaimInv, Engaged
    <2>2. CASE failedCh'[k] = i
      BY <1>d, <1>e, <2>2 DEF Engaged
    <2> QED
      BY <1>c, <2>1, <2>2
  <1>4. ASSUME NEW k \in 1..Len(failedCh'), NEW l \in 1..Len(failedCh'),
               failedCh'[k] = failedCh'[l]
        PROVE  k = l
    <2>1. CASE k \in 1..Len(failedCh) /\ l \in 1..Len(failedCh)
      <3>1. failedCh[k] = failedCh[l]
        BY <1>4, <1>c, <1>b, <2>1
      <3> QED
        BY <2>1, <3>1 DEF ClaimInv
    <2> QED
      BY <1>4, <1>b, <1>c, <1>e, <2>1
  <1>5. \A k \in 1..Len(completedCh'), q \in Peers : ~Engaged(q, completedCh[k])'
    BY <1>1 DEF ClaimInv, Engaged
  <1> QED
    BY <1>2, <1>3, <1>4, <1>5 DEF ClaimInv

-----------------------------------------------------------------------------
\* A step that moves workers between handlers at most.
Light ==
  /\ UNCHANGED <<bits, disk, mgr, pd, pstate, failedCh, completedCh, job, cur, qpd, wire>>
  /\ left'["corrupt"] = left["corrupt"]
  /\ \A q \in Peers : strikes'[q] \in {strikes[q], 0}
  /\ \A q \in Peers :
       \/ pc'[q] = pc[q]
       \/ pc[q] \in {"off", "loop", "finish", "request"} /\ pc'[q] \in {"loop", "leave"}
       \/ pc[q] \in {"loop", "finish"} /\ pc'[q] = "request" /\ cur[q] = None

(* The steps that do more, outside endgame.                                *)
LEMMA LightOrNot ==
  ASSUME LeaseInv, QuietBudget, [Next]_vars
  PROVE  \/ Light
         \/ \E p \in Peers :
              \/ Write(p) \/ Check(p) \/ Fill(p) \/ Complete(p) \/ Verify(p)
              \/ Notify(p) \/ Reject(p) \/ Leave(p) \/ Start(p)
              \/ HandlePieceRequest(p)
              \/ \E i \in Pieces, b \in Blocks, good \in BOOLEAN : Receive(p, i, b, good)
         \/ HandlePieceComplete \/ HandlePieceFailed
  <1> USE DEF LeaseInv, LeaseParts, KeptInv, SafeInv, BaseInv, TypeOK, Light,
          storageVars, managerVars, coordVars, queueVars, peerVars, envVars, Goto
  <1>0. /\ ~Spend("timeout") /\ ~Spend("stall") /\ ~Spend("malformed")
    BY QuietEvents
  <1>1. ASSUME NEW p \in Peers, Worker(p)
        PROVE  \/ Write(p) \/ Check(p) \/ Fill(p) \/ Complete(p) \/ Verify(p)
               \/ Notify(p) \/ Reject(p) \/ Leave(p) \/ Start(p) \/ Light
    <2>1. ~Abandon(p) /\ ~TimeoutFail(p) /\ ~Drop(p) /\ ~StartFail(p)
      BY DEF Abandon, TimeoutFail, Drop, StartFail, PathInv
    <2>2. CASE Finish(p)
      BY <2>2 DEF Finish, PathInv
    <2> QED
      BY <1>1, <2>1, <2>2 DEF Worker
  <1>2. ASSUME NEW p \in Peers, Environment(p)
        PROVE  \/ Light
               \/ \E i \in Pieces, b \in Blocks, good \in BOOLEAN : Receive(p, i, b, good)
    <2>1. ~Timeout(p) /\ ~\E i \in Pieces, b \in Blocks : Malformed(p, i, b)
      BY <1>0 DEF Timeout, Malformed
    <2>2. CASE Connect(p) \/ IdleRetry(p) \/ Unchoke(p)
      BY <2>2 DEF Connect, IdleRetry, Unchoke, IsIdle
    <2>3. CASE Choke(p) \/ Disconnect(p) \/ \E b \in Blocks : Cancel(p, b)
      BY <2>3 DEF Choke, Disconnect, Cancel, Spend, EventKinds
    <2>4. CASE Bitfield(p) \/ \E i \in Pieces : Have(p, i)
      BY <2>4 DEF Bitfield, Have, Announce, Continue, IsIdle
    <2> QED
      BY <1>2, <2>1, <2>2, <2>3, <2>4 DEF Environment
  <1>3. CASE Coordinator
    BY <1>0, <1>3 DEF Coordinator, CheckForStalledPieces
  <1>4. CASE MonitorLook \/ MonitorCheck \/ Pause \/ Resume
    BY <1>4 DEF MonitorLook, MonitorCheck, Pause, Resume, SessionUnchanged,
       Spend, EventKinds
  <1>5. CASE UNCHANGED vars
    BY <1>5 DEF vars
  <1> QED
    BY <1>1, <1>2, <1>3, <1>4, <1>5 DEF Next

(* A light step keeps every part.                                          *)
LEMMA LightKeepsLease == ASSUME LeaseInv, Light PROVE LeaseParts'
  <1> USE DEF LeaseInv, LeaseParts, KeptInv, SafeInv, BaseInv, TypeOK
  <1>0. UNCHANGED <<bits, disk, mgr, pd, pstate, failedCh, completedCh, job, cur, qpd, wire>>
    BY DEF Light
  <1>a. \A q \in Peers : pc'[q] = pc[q] \/ pc'[q] \in {"loop", "leave", "request"}
    BY DEF Light
  <1>b. \A q \in Peers : cur[q] # None /\ pc'[q] \in Collecting => pc[q] \in Collecting
    BY DEF Light, Collecting, PathInv
  <1>c. \A q \in Peers : cur[q] # None /\ pc[q] \in Collecting => pc'[q] \in Collecting
    BY DEF Light, Collecting, PathInv
  <1>1. PathInv'
    BY <1>0 DEF Light, PathInv
  <1>2. ClaimInv'
    <2>1. \A q \in Peers, i \in Pieces : Engaged(q, i)' => Engaged(q, i)
      BY <1>0, <1>a DEF Engaged
    <2>2. \A k \in 1..Len(failedCh) : failedCh[k] \notin bits'
      BY <1>0 DEF ClaimInv
    <2> QED
      BY <1>0, <2>1, <2>2, ClaimsKept
  <1>3. HeldInv'
    BY <1>0, <1>a, <1>b DEF HeldInv
  <1>4. WireInv'
    <2>1. \A p \in Peers, i \in Pieces, b \in Blocks : wire'[p][<<i, b>>] > 0 =>
             /\ wire'[p][<<i, b>>] = 1 /\ cur'[p] = i /\ pc'[p] \in Collecting
             /\ pd'[qpd'[p]][b] = "requested"
      BY <1>0, <1>c, DownloadAssumption DEF WireInv
    <2>2. ASSUME NEW p \in Peers, pc'[p] = "complete" PROVE IsComplete(qpd[p])'
      <3>1. pc[p] = "complete"
        BY <1>a, <2>2
      <3>2. IsComplete(qpd[p])
        BY <3>1 DEF WireInv
      <3> QED
        BY <1>0, <3>2 DEF IsComplete
    <2>3. \A p \in Peers : pc'[p] \in {"write", "check"} => pc[p] = pc'[p]
      BY <1>a
    <2>4. \A p \in Peers : pc'[p] = "write" => wire'[p][<<job'[p].piece, job'[p].block>>] = 0
      BY <1>0, <2>3 DEF WireInv
    <2>5. \A p \in Peers : pc'[p] \in {"write", "check"} => job'[p].pd = qpd'[p]
      BY <1>0, <2>3 DEF WireInv
    <2> QED
      BY <2>1, <2>2, <2>4, <2>5 DEF WireInv
  <1>5. BadInv'
    <2>1. ASSUME Clean' PROVE Clean
      BY <2>1 DEF Clean, Light
    <2>2. \A q \in Peers : pc'[q] \in {"reject", "write", "verify"} => pc[q] = pc'[q]
      BY <1>a
    <2>3. ASSUME Clean', NEW q \in Peers
          PROVE  /\ strikes'[q] = 0 /\ pc'[q] # "reject"
                 /\ pc'[q] = "verify" => disk'[job'[q].piece] = "good"
      BY <1>0, <2>1, <2>2, <2>3 DEF BadInv, Light
    <2>4. ASSUME Clean', NEW q \in Peers, pc'[q] = "write" PROVE job'[q].good
      BY <1>0, <2>1, <2>2, <2>4 DEF BadInv
    <2>5. ASSUME Clean' PROVE \A d \in PdIds, b \in Blocks : pd'[d][b] # "bad"
      BY <1>0, <2>1, <2>5 DEF BadInv
    <2> QED
      BY <2>3, <2>4, <2>5 DEF BadInv
  <1> QED
    BY <1>1, <1>2, <1>3, <1>4, <1>5

(* A peer answers only what it still owes: a block of its current piece,   *)
(* which is in progress and has not got that block.                        *)
LEMMA ReceiveKeepsLease ==
  ASSUME LeaseInv, QuietBudget, NEW p \in Peers, NEW i \in Pieces, NEW b \in Blocks,
         NEW good \in BOOLEAN, Receive(p, i, b, good)
  PROVE  LeaseParts'
  <1> USE DEF LeaseInv, LeaseParts, KeptInv, SafeInv, BaseInv, TypeOK
  <1> DEFINE j == [piece |-> i, block |-> b, pd |-> mgr[i], good |-> good]
  <1>0. /\ pc[p] = "loop" /\ cur[p] = i /\ mgr[i] = qpd[p] /\ qpd[p] \in PdIds
        /\ wire[p][<<i, b>>] = 1 /\ i # None
    BY DownloadAssumption DEF Receive, WireInv, HeldInv, Collecting, WorkerInv
  <1>1. /\ job' = [job EXCEPT ![p] = j] /\ pc' = [pc EXCEPT ![p] = "write"]
        /\ wire' = [wire EXCEPT ![p][<<i, b>>] = 0]
        /\ UNCHANGED <<bits, disk, mgr, pd, pstate, failedCh, completedCh, cur, qpd, strikes>>
    <2>1. /\ job' = [job EXCEPT ![p] = j] /\ pc' = [pc EXCEPT ![p] = "write"]
          /\ UNCHANGED <<bits, disk, mgr, pd, pstate, failedCh, completedCh, cur, qpd, strikes>>
      BY <1>0, DownloadAssumption DEF Receive, Goto, storageVars, managerVars, coordVars,
         queueVars, peerVars
    <2>2. wire' = [wire EXCEPT ![p][<<i, b>>] = wire[p][<<i, b>>] - 1]
      BY DEF Receive
    <2>3. wire[p][<<i, b>>] - 1 = 0
      BY <1>0
    <2> HIDE DEF j
    <2> QED
      BY <2>1, <2>2, <2>3
  <1>2. /\ j \in Jobs /\ j.piece = i /\ j.block = b /\ j.pd = qpd[p] /\ j.good = good
    BY <1>0 DEF Jobs
  <1> HIDE DEF j
  <1>3. /\ pc'[p] = "write" /\ job'[p] = j
        /\ \A q \in Peers : q # p => pc'[q] = pc[q] /\ job'[q] = job[q]
    BY <1>1
  <1>4. \A q \in Peers, r \in Pieces \X Blocks :
          wire'[q][r] = IF q = p /\ r = <<i, b>> THEN 0 ELSE wire[q][r]
    BY <1>1
  <1>5. PathInv'
    BY <1>0, <1>1, <1>2, <1>3 DEF PathInv
  <1>6. ClaimInv'
    <2>1. \A q \in Peers, k \in Pieces : Engaged(q, k)' => Engaged(q, k)
      BY <1>1, <1>3 DEF Engaged
    <2>2. \A k \in 1..Len(failedCh) : failedCh[k] \notin bits'
      BY <1>1 DEF ClaimInv
    <2> QED
      BY <1>1, <2>1, <2>2, ClaimsKept
  <1>7. HeldInv'
    BY <1>0, <1>1, <1>3 DEF HeldInv, Collecting
  <1>8. WireInv'
    <2>1. \A q \in Peers, k \in Pieces, c \in Blocks : wire'[q][<<k, c>>] > 0 =>
             /\ wire'[q][<<k, c>>] = 1 /\ cur'[q] = k /\ pc'[q] \in Collecting
             /\ pd'[qpd'[q]][c] = "requested"
      BY <1>0, <1>1, <1>3, <1>4 DEF WireInv, Collecting
    <2>2. \A q \in Peers : pc'[q] = "complete" => IsComplete(qpd[q])'
      BY <1>1, <1>3 DEF WireInv, IsComplete
    <2>3. \A q \in Peers : pc'[q] = "write" => wire'[q][<<job'[q].piece, job'[q].block>>] = 0
      <3>1. ASSUME NEW q \in Peers, pc'[q] = "write", q # p
            PROVE  wire'[q][<<job'[q].piece, job'[q].block>>] = 0
        <4>1. wire'[q] = wire[q]
          BY <1>1, <3>1
        <4>2. wire[q][<<job[q].piece, job[q].block>>] = 0
          BY <1>3, <3>1 DEF WireInv
        <4> QED
          BY <1>3, <3>1, <4>1, <4>2
      <3>2. wire'[p][<<job'[p].piece, job'[p].block>>] = 0
        BY <1>2, <1>3, <1>4
      <3> QED
        BY <3>1, <3>2
    <2>4. \A q \in Peers : pc'[q] \in {"write", "check"} => job'[q].pd = qpd'[q]
      BY <1>1, <1>2, <1>3 DEF WireInv
    <2> QED
      BY <2>1, <2>2, <2>3, <2>4 DEF WireInv
  <1>9. BadInv'
    <2>1. ASSUME Clean' PROVE Clean /\ good
      <3>1. left["corrupt"] \in Nat /\ left["corrupt"] <= Budget["corrupt"]
        BY DEF BudgetInv, EventKinds
      <3>2. Budget["corrupt"] \in Nat
        BY DownloadAssumption DEF EventKinds
      <3>3. CASE good
        BY <2>1, <3>3 DEF Receive, Clean
      <3>4. CASE ~good
        <4>1. Spend("corrupt")
          BY <3>4 DEF Receive
        <4>2. left["corrupt"] > 0 /\ left'["corrupt"] = left["corrupt"] - 1
          BY <4>1 DEF Spend, EventKinds
        <4> HIDE DEF LeaseInv
        <4> QED
          BY <2>1, <3>1, <3>2, <4>2 DEF Clean
      <3> QED
        BY <3>3, <3>4
    <2>2. ASSUME Clean', NEW q \in Peers
          PROVE  /\ strikes'[q] = 0 /\ pc'[q] # "reject"
                 /\ pc'[q] = "verify" => disk'[job'[q].piece] = "good"
      BY <1>1, <1>3, <2>1, <2>2 DEF BadInv
    <2>3. ASSUME Clean', NEW q \in Peers, pc'[q] = "write" PROVE job'[q].good
      BY <1>2, <1>3, <2>1, <2>3 DEF BadInv
    <2>4. ASSUME Clean' PROVE \A d \in PdIds, c \in Blocks : pd'[d][c] # "bad"
      BY <1>1, <2>1, <2>4 DEF BadInv
    <2> QED
      BY <2>2, <2>3, <2>4 DEF BadInv
  <1> QED
    BY <1>5, <1>6, <1>7, <1>8, <1>9

(* Two workers collect into two objects.                                   *)
LEMMA ObjectsApart ==
  ASSUME LeaseInv, NEW p \in Peers, NEW q \in Peers, p # q,
         cur[p] # None, cur[q] # None,
         pc[p] \in Collecting, pc[q] \in Collecting
  PROVE  qpd[p] # qpd[q] /\ cur[p] # cur[q]
  <1> USE DEF LeaseInv, LeaseParts, KeptInv, SafeInv, BaseInv, TypeOK
  <1>1. cur[p] \in Pieces /\ cur[q] \in Pieces
    OBVIOUS
  <1>2. cur[p] # cur[q]
    BY <1>1 DEF ClaimInv, Engaged
  <1>3. mgr[cur[p]] = qpd[p] /\ mgr[cur[q]] = qpd[q] /\ qpd[p] # None
    BY DownloadAssumption DEF HeldInv, WorkerInv
  <1> QED
    BY <1>1, <1>2, <1>3 DEF HeldInv

(* The block goes into the worker's own object, where the peer owed it, so *)
(* no other worker's requests are touched.                                 *)
LEMMA WriteKeepsLease ==
  ASSUME LeaseInv, NEW p \in Peers, Write(p) PROVE LeaseParts'
  <1> USE DEF LeaseInv, LeaseParts, KeptInv, SafeInv, BaseInv, TypeOK
  <1> DEFINE d == job[p].pd
             c == job[p].block
  <1>0. /\ pc[p] = "write" /\ d = qpd[p] /\ d \in PdIds /\ c \in Blocks
        /\ cur[p] = job[p].piece /\ cur[p] \in Pieces /\ cur[p] # None
        /\ wire[p][<<cur[p], c>>] = 0
    BY DownloadAssumption DEF Write, WireInv, WorkerInv, PathInv
  <1>1. /\ pc' = [pc EXCEPT ![p] = "check"]
        /\ UNCHANGED <<bits, disk, mgr, job, pstate, failedCh, completedCh, cur, qpd,
                       strikes, wire, left>>
    BY DEF Write, Goto, storageVars, coordVars, peerVars, envVars
  <1>2. /\ pc'[p] = "check"
        /\ \A q \in Peers : q # p => pc'[q] = pc[q]
    BY <1>1
  <1>3. /\ \A e \in PdIds, b \in Blocks : e # d \/ b # c => pd'[e][b] = pd[e][b]
        /\ pd[d][c] \in {"good", "bad"} => pd'[d][c] = pd[d][c]
        /\ pd'[d][c] \in {"good", "bad"}
        /\ job[p].good /\ pd[d][c] # "bad" => pd'[d][c] # "bad"
    <2>1. CASE pd[d][c] \in {"good", "bad"}
      <3>1. pd' = pd
        BY <2>1 DEF Write
      <3> QED
        BY <2>1, <3>1
    <2>2. CASE pd[d][c] \notin {"good", "bad"}
      <3>1. pd' = [pd EXCEPT ![d][c] = IF job[p].good THEN "good" ELSE "bad"]
        BY <2>2 DEF Write
      <3> QED
        BY <1>0, <2>2, <3>1
    <2> QED
      BY <2>1, <2>2
  <1> HIDE DEF c, d
  <1>4. PathInv'
    BY <1>0, <1>1, <1>2 DEF PathInv
  <1>5. ClaimInv'
    <2>1. \A q \in Peers, k \in Pieces : Engaged(q, k)' => Engaged(q, k)
      BY <1>1, <1>2 DEF Engaged
    <2>2. \A k \in 1..Len(failedCh) : failedCh[k] \notin bits'
      BY <1>1 DEF ClaimInv
    <2> QED
      BY <1>1, <2>1, <2>2, ClaimsKept
  <1>6. HeldInv'
    BY <1>0, <1>1, <1>2 DEF HeldInv, Collecting
  <1>7. WireInv'
    <2>1. ASSUME NEW q \in Peers, NEW k \in Pieces, NEW b \in Blocks, wire'[q][<<k, b>>] > 0
          PROVE  /\ wire'[q][<<k, b>>] = 1 /\ cur'[q] = k /\ pc'[q] \in Collecting
                 /\ pd'[qpd'[q]][b] = "requested"
      <3>1. /\ wire[q][<<k, b>>] = 1 /\ cur[q] = k /\ pc[q] \in Collecting
            /\ pd[qpd[q]][b] = "requested"
        BY <1>1, <2>1 DEF WireInv
      <3>2. qpd[q] \in PdIds /\ k # None
        BY <3>1, DownloadAssumption DEF WorkerInv
      <3>3. qpd[q] # d \/ b # c
        <4>1. ASSUME q = p, b = c PROVE FALSE
          <5>1. <<k, b>> = <<cur[p], c>> /\ wire[q] = wire[p]
            BY <3>1, <4>1
          <5>2. wire[q][<<k, b>>] = 0
            BY <1>0, <5>1
          <5> QED
            BY <3>1, <5>2
        <4>2. CASE q # p
          BY <1>0, <3>1, <3>2, <4>2, ObjectsApart DEF Collecting
        <4> QED
          BY <4>1, <4>2
      <3>4. pc'[q] \in Collecting
        BY <1>2, <3>1 DEF Collecting
      <3> QED
        BY <1>1, <1>3, <3>1, <3>2, <3>3, <3>4
    <2>2. ASSUME NEW q \in Peers, pc'[q] = "complete"
          PROVE  \A b \in Blocks : pd'[qpd'[q]][b] \in {"good", "bad"}
      <3>1. pc[q] = "complete" /\ \A b \in Blocks : pd[qpd[q]][b] \in {"good", "bad"}
        BY <1>2, <2>2 DEF WireInv, IsComplete
      <3>a. cur[q] = job[q].piece /\ job[q].piece \in Pieces
        BY <3>1 DEF PathInv, WorkerInv
      <3>2. qpd[q] \in PdIds
        BY <3>a, DownloadAssumption DEF WorkerInv
      <3> QED
        BY <1>1, <1>3, <3>1, <3>2
    <2>3. \A q \in Peers : pc'[q] = "write" => wire'[q][<<job'[q].piece, job'[q].block>>] = 0
      BY <1>1, <1>2 DEF WireInv
    <2>4. \A q \in Peers : pc'[q] \in {"write", "check"} => job'[q].pd = qpd'[q]
      BY <1>0, <1>1, <1>2 DEF WireInv, d
    <2> QED
      BY <2>1, <2>2, <2>3, <2>4 DEF WireInv, IsComplete
  <1>8. BadInv'
    <2>1. ASSUME Clean' PROVE Clean
      BY <1>1, <2>1 DEF Clean
    <2>2. ASSUME Clean', NEW q \in Peers
          PROVE  /\ strikes'[q] = 0 /\ pc'[q] # "reject"
                 /\ pc'[q] = "verify" => disk'[job'[q].piece] = "good"
      BY <1>1, <1>2, <2>1, <2>2 DEF BadInv
    <2>3. ASSUME Clean', NEW q \in Peers, pc'[q] = "write" PROVE job'[q].good
      BY <1>1, <1>2, <2>1, <2>3 DEF BadInv
    <2>4. ASSUME Clean', NEW e \in PdIds, NEW b \in Blocks PROVE pd'[e][b] # "bad"
      <3>1. job[p].good /\ pd[e][b] # "bad"
        BY <1>0, <2>1, <2>4 DEF BadInv
      <3> QED
        BY <1>3, <3>1
    <2> QED
      BY <2>2, <2>3, <2>4 DEF BadInv
  <1> QED
    BY <1>4, <1>5, <1>6, <1>7, <1>8

(* The worker goes on with the object it has written to.                   *)
LEMMA CheckKeepsLease ==
  ASSUME LeaseInv, NEW p \in Peers, Check(p) PROVE LeaseParts'
  <1> USE DEF LeaseInv, LeaseParts, KeptInv, SafeInv, BaseInv, TypeOK
  <1>0. /\ pc[p] = "check" /\ cur[p] = job[p].piece /\ cur[p] \in Pieces
        /\ cur[p] # None /\ job[p].pd = qpd[p]
    BY DownloadAssumption DEF Check, WireInv, WorkerInv, PathInv
  <1>a. PieceJob(job[p].piece).piece = job[p].piece
    BY DEF PieceJob
  <1>1. /\ pc' = [pc EXCEPT ![p] = IF IsComplete(qpd[p]) THEN "complete" ELSE "fill"]
        /\ job' = [job EXCEPT ![p] = PieceJob(job[p].piece)]
        /\ UNCHANGED <<bits, disk, mgr, pd, pstate, failedCh, completedCh, cur, qpd,
                       strikes, wire, left>>
    BY <1>0 DEF Check, IsIdle, Goto, storageVars, managerVars, coordVars, queueVars,
       peerVars, envVars
  <1>2. /\ pc'[p] \in {"complete", "fill"} /\ (pc'[p] = "complete" => IsComplete(qpd[p]))
        /\ job'[p].piece = job[p].piece
        /\ \A q \in Peers : q # p => pc'[q] = pc[q] /\ job'[q] = job[q]
    BY <1>1, <1>a
  <1>4. PathInv'
    BY <1>0, <1>1, <1>2 DEF PathInv
  <1>5. ClaimInv'
    <2>1. \A q \in Peers, k \in Pieces : Engaged(q, k)' => Engaged(q, k)
      BY <1>1, <1>2 DEF Engaged
    <2>2. \A k \in 1..Len(failedCh) : failedCh[k] \notin bits'
      BY <1>1 DEF ClaimInv
    <2> QED
      BY <1>1, <2>1, <2>2, ClaimsKept
  <1>6. HeldInv'
    BY <1>0, <1>1, <1>2 DEF HeldInv, Collecting
  <1>7. WireInv'
    <2>1. \A q \in Peers, k \in Pieces, b \in Blocks : wire'[q][<<k, b>>] > 0 =>
             /\ wire'[q][<<k, b>>] = 1 /\ cur'[q] = k /\ pc'[q] \in Collecting
             /\ pd'[qpd'[q]][b] = "requested"
      BY <1>0, <1>1, <1>2 DEF WireInv, Collecting
    <2>2. \A q \in Peers : pc'[q] = "complete" => IsComplete(qpd[q])'
      BY <1>1, <1>2 DEF WireInv, IsComplete
    <2>3. \A q \in Peers : pc'[q] = "write" => wire'[q][<<job'[q].piece, job'[q].block>>] = 0
      BY <1>1, <1>2 DEF WireInv
    <2>4. \A q \in Peers : pc'[q] \in {"write", "check"} => job'[q].pd = qpd'[q]
      BY <1>1, <1>2 DEF WireInv
    <2> QED
      BY <2>1, <2>2, <2>3, <2>4 DEF WireInv
  <1>8. BadInv'
    <2>1. ASSUME Clean' PROVE Clean
      BY <1>1, <2>1 DEF Clean
    <2>2. ASSUME Clean', NEW q \in Peers
          PROVE  /\ strikes'[q] = 0 /\ pc'[q] # "reject"
                 /\ pc'[q] = "verify" => disk'[job'[q].piece] = "good"
      BY <1>1, <1>2, <2>1, <2>2 DEF BadInv
    <2>3. ASSUME Clean', NEW q \in Peers, pc'[q] = "write" PROVE job'[q].good
      BY <1>2, <2>1, <2>3 DEF BadInv
    <2>4. ASSUME Clean' PROVE \A d \in PdIds, c \in Blocks : pd'[d][c] # "bad"
      BY <1>1, <2>1, <2>4 DEF BadInv
    <2> QED
      BY <2>2, <2>3, <2>4 DEF BadInv
  <1> QED
    BY <1>4, <1>5, <1>6, <1>7, <1>8

(* A request goes out for a free block of the worker's own piece, which    *)
(* the peer did not owe.                                                   *)
LEMMA FillKeepsLease ==
  ASSUME LeaseInv, NEW p \in Peers, Fill(p) PROVE LeaseParts'
  <1> USE DEF LeaseInv, LeaseParts, KeptInv, SafeInv, BaseInv, TypeOK
  <1>0. /\ pc[p] = "fill" /\ cur[p] = job[p].piece /\ cur[p] \in Pieces
        /\ cur[p] # None /\ qpd[p] \in PdIds
    BY DownloadAssumption DEF Fill, WorkerInv, PathInv
  <1>1. UNCHANGED <<bits, disk, mgr, pstate, failedCh, completedCh, cur, qpd, strikes, left>>
    BY DEF Fill, storageVars, coordVars, peerVars
  <1>2. \/ UNCHANGED <<pc, job>>
        \/ pc' = [pc EXCEPT ![p] = "loop"] /\ job' = [job EXCEPT ![p] = NoJob]
    BY DEF Fill, Goto
  <1>3. /\ pc'[p] \in {"fill", "loop"} /\ (pc'[p] = "fill" => job'[p] = job[p])
        /\ \A q \in Peers : q # p => pc'[q] = pc[q] /\ job'[q] = job[q]
    BY <1>0, <1>2
  <1>4. PathInv'
    BY <1>0, <1>1, <1>3 DEF PathInv
  <1>5. ClaimInv'
    <2>1. \A q \in Peers, k \in Pieces : Engaged(q, k)' => Engaged(q, k)
      BY <1>1, <1>3 DEF Engaged
    <2>2. \A k \in 1..Len(failedCh) : failedCh[k] \notin bits'
      BY <1>1 DEF ClaimInv
    <2> QED
      BY <1>1, <2>1, <2>2, ClaimsKept
  <1>6. HeldInv'
    BY <1>0, <1>1, <1>3 DEF HeldInv, Collecting
  <1>7. \/ pd' = pd /\ wire' = wire
        \/ \E b \in Blocks :
             /\ pd[qpd[p]][b] = "free"
             /\ pd' = [pd EXCEPT ![qpd[p]][b] = "requested"]
             /\ wire' = [wire EXCEPT ![p][<<cur[p], b>>] = 1]
    <2>1. ASSUME ~(pd' = pd /\ wire' = wire)
          PROVE  \E b \in Blocks :
                   /\ pd[qpd[p]][b] = "free"
                   /\ pd' = [pd EXCEPT ![qpd[p]][b] = "requested"]
                   /\ wire' = [wire EXCEPT ![p][<<cur[p], b>>] = 1]
      <3>1. PICK b \in Blocks :
              /\ pd[qpd[p]][b] = "free"
              /\ pd' = [pd EXCEPT ![qpd[p]][b] = "requested"]
              /\ wire' = [wire EXCEPT ![p][<<job[p].piece, b>>] =
                            IF @ < MaxCopies THEN @ + 1 ELSE @]
        BY <2>1 DEF Fill
      <3>2. <<cur[p], b>> \in Pieces \X Blocks
        BY <1>0
      <3>3. wire[p][<<cur[p], b>>] \in Nat
        BY <3>2
      <3>a. wire[p][<<cur[p], b>>] > 0 => pd[qpd[p]][b] = "requested"
        BY <1>0 DEF WireInv
      <3>4. wire[p][<<cur[p], b>>] = 0
        BY <3>1, <3>3, <3>a
      <3>5. 0 < MaxCopies
        BY DownloadAssumption
      <3> QED
        <4>1. wire' = [wire EXCEPT ![p][<<cur[p], b>>] =
                         IF wire[p][<<cur[p], b>>] < MaxCopies
                         THEN wire[p][<<cur[p], b>>] + 1 ELSE wire[p][<<cur[p], b>>]]
          BY <1>0, <3>1
        <4>2. wire' = [wire EXCEPT ![p][<<cur[p], b>>] = 1]
          BY <3>4, <3>5, <4>1
        <4> QED
          BY <3>1, <4>2
    <2> QED
      BY <2>1
  <1>b. \A q \in Peers : q # p => wire'[q] = wire[q]
    BY <1>7
  <1>8. WireInv'
    <2>3. \A q \in Peers : pc'[q] = "write" =>
            /\ q # p /\ pc[q] = "write" /\ job'[q] = job[q] /\ wire'[q] = wire[q]
            /\ wire[q][<<job[q].piece, job[q].block>>] = 0
      BY <1>3, <1>b DEF WireInv
    <2>4. ASSUME NEW q \in Peers, pc'[q] \in {"write", "check"} PROVE job'[q].pd = qpd'[q]
      <3>1. q # p /\ pc[q] \in {"write", "check"} /\ job'[q] = job[q]
        BY <1>3, <2>4
      <3>2. job[q].pd = qpd[q]
        BY <3>1 DEF WireInv
      <3> QED
        BY <1>1, <3>1, <3>2
    <2>5. CASE pd' = pd /\ wire' = wire
      <3>0. WireInv
        OBVIOUS
      <3> HIDE DEF LeaseInv
      <3>1. \A q \in Peers, k \in Pieces, b \in Blocks : wire'[q][<<k, b>>] > 0 =>
             /\ wire'[q][<<k, b>>] = 1 /\ cur'[q] = k /\ pc'[q] \in Collecting
             /\ pd'[qpd'[q]][b] = "requested"
        BY <1>0, <1>1, <1>3, <2>5, <3>0 DEF WireInv, Collecting
      <3>2. \A q \in Peers : pc'[q] = "complete" => IsComplete(qpd[q])'
        BY <1>1, <1>3, <2>5, <3>0 DEF WireInv, IsComplete
      <3> QED
        BY <2>3, <2>4, <3>1, <3>2 DEF WireInv
    <2>6. ASSUME NEW c \in Blocks,
                 pd[qpd[p]][c] = "free",
                 pd' = [pd EXCEPT ![qpd[p]][c] = "requested"],
                 wire' = [wire EXCEPT ![p][<<cur[p], c>>] = 1]
          PROVE  WireInv'
      <3>0. pd \in [PdIds -> [Blocks -> BlockState]]
        OBVIOUS
      <3>1. /\ \A e \in PdIds, b \in Blocks :
                 pd'[e][b] = IF e = qpd[p] /\ b = c THEN "requested" ELSE pd[e][b]
            /\ \A q \in Peers : q # p => wire'[q] = wire[q]
            /\ \A r \in Pieces \X Blocks :
                 wire'[p][r] = IF r = <<cur[p], c>> THEN 1 ELSE wire[p][r]
        BY <1>0, <2>6
      <3>2. ASSUME NEW q \in Peers, NEW k \in Pieces, NEW b \in Blocks, wire'[q][<<k, b>>] > 0
            PROVE  /\ wire'[q][<<k, b>>] = 1 /\ cur'[q] = k /\ pc'[q] \in Collecting
                   /\ pd'[qpd'[q]][b] = "requested"
        <4>1. CASE wire[q][<<k, b>>] > 0
          <5>1. /\ wire[q][<<k, b>>] = 1 /\ cur[q] = k /\ pc[q] \in Collecting
                /\ pd[qpd[q]][b] = "requested"
            BY <4>1 DEF WireInv
          <5>2. qpd[q] \in PdIds
            BY <5>1, DownloadAssumption DEF WorkerInv
          <5>3. pc'[q] \in Collecting
            BY <1>3, <5>1 DEF Collecting
          <5> QED
            BY <1>1, <3>1, <5>1, <5>2, <5>3
        <4>2. CASE q = p /\ k = cur[p] /\ b = c
          BY <1>0, <1>1, <1>3, <3>1, <4>2 DEF Collecting
        <4> QED
          BY <3>1, <3>2, <4>1, <4>2
      <3>3. ASSUME NEW q \in Peers, pc'[q] = "complete"
            PROVE  \A b \in Blocks : pd'[qpd'[q]][b] \in {"good", "bad"}
        <4>1. pc[q] = "complete" /\ \A b \in Blocks : pd[qpd[q]][b] \in {"good", "bad"}
          BY <1>3, <3>3 DEF WireInv, IsComplete
        <4>b. cur[q] = job[q].piece /\ job[q].piece \in Pieces
          BY <4>1 DEF PathInv, WorkerInv
        <4>a. qpd[q] \in PdIds
          BY <4>b, DownloadAssumption DEF WorkerInv
        <4>2. qpd[q] \in PdIds /\ qpd[q] # qpd[p]
          BY <2>6, <4>1, <4>a
        <4> QED
          BY <1>1, <3>1, <4>1, <4>2
      <3> HIDE DEF LeaseInv
      <3>4. \A q \in Peers : pc'[q] = "write" => wire'[q][<<job'[q].piece, job'[q].block>>] = 0
        BY <2>3
      <3>5. \A q \in Peers : pc'[q] = "complete" => IsComplete(qpd[q])'
        BY <3>3 DEF IsComplete
      <3> QED
        BY <2>4, <3>2, <3>4, <3>5 DEF WireInv
    <2> QED
      BY <1>7, <2>5, <2>6
  <1>9. BadInv'
    <2>1. ASSUME Clean' PROVE Clean
      BY <1>1, <2>1 DEF Clean
    <2>2. ASSUME Clean', NEW q \in Peers
          PROVE  /\ strikes'[q] = 0 /\ pc'[q] # "reject"
                 /\ pc'[q] = "verify" => disk'[job'[q].piece] = "good"
      BY <1>1, <1>3, <2>1, <2>2 DEF BadInv
    <2>3. ASSUME Clean', NEW q \in Peers, pc'[q] = "write" PROVE job'[q].good
      BY <1>3, <2>1, <2>3 DEF BadInv
    <2>4. ASSUME Clean', NEW e \in PdIds, NEW b \in Blocks PROVE pd'[e][b] # "bad"
      <3>1. pd[e][b] # "bad"
        BY <2>1, <2>4 DEF BadInv
      <3>2. \/ pd' = pd
            \/ \E c \in Blocks : pd' = [pd EXCEPT ![qpd[p]][c] = "requested"]
        BY <1>7
      <3>3. pd \in [PdIds -> [Blocks -> BlockState]]
        OBVIOUS
      <3> HIDE DEF LeaseInv
      <3>4. ASSUME NEW c \in Blocks, pd' = [pd EXCEPT ![qpd[p]][c] = "requested"]
            PROVE  pd'[e][b] # "bad"
        BY <1>0, <2>4, <3>1, <3>3, <3>4
      <3> QED
        BY <3>1, <3>2, <3>4
    <2> QED
      BY <2>2, <2>3, <2>4 DEF BadInv
  <1> QED
    BY <1>4, <1>5, <1>6, <1>8, <1>9

(* The piece that is written is the worker's own, in progress and missing; *)
(* its peer owes nothing any more.                                         *)
LEMMA CompleteKeepsLease ==
  ASSUME LeaseInv, QuietBudget, NEW p \in Peers, Complete(p) PROVE LeaseParts'
  <1> USE DEF LeaseInv, LeaseParts, KeptInv, SafeInv, BaseInv, TypeOK
  <1> DEFINE i == job[p].piece
  <1>a. /\ pc[p] = "complete" /\ cur[p] = i /\ i \in Pieces /\ i # None
        /\ IsComplete(qpd[p])
    BY DownloadAssumption DEF Complete, WireInv, WorkerInv, PathInv
  <1>0. /\ i \notin bits /\ mgr[i] = qpd[p] /\ qpd[p] \in PdIds /\ mgr[i] # None
    BY <1>a, DownloadAssumption DEF HeldInv, Collecting, WorkerInv
  <1>b. ~Spend("diskfault")
    BY QuietEvents
  <1>1. /\ pc' = [pc EXCEPT ![p] = "verify"]
        /\ bits' = bits \cup {i}
        /\ disk' = [disk EXCEPT ![i] = Content(qpd[p])]
        /\ UNCHANGED <<mgr, pd, job, pstate, failedCh, completedCh, cur, qpd, strikes, wire, left>>
    BY <1>0, <1>b DEF Complete, Goto, coordVars, queueVars, peerVars
  <1> HIDE DEF i
  <1>2. /\ pc'[p] = "verify"
        /\ \A q \in Peers : q # p => pc'[q] = pc[q]
    BY <1>1
  <1>3. \A q \in Peers : q # p =>
          cur[q] # i /\ (pc[q] \in {"start", "reject", "verify"} => job[q].piece # i)
    <2>1. Engaged(p, i)
      BY <1>a DEF Engaged
    <2>2. \A q \in Peers : q # p => cur[q] # i /\ ~(pc[q] = "start" /\ job[q].piece = i)
      BY <1>a, <2>1, EngagedAlone
    <2> QED
      BY <2>2 DEF PathInv
  <1>4. PathInv'
    BY <1>a, <1>1, <1>2 DEF PathInv, i
  <1>5. ClaimInv'
    <2>1. \A q \in Peers, k \in Pieces : Engaged(q, k)' => Engaged(q, k)
      BY <1>1, <1>2 DEF Engaged
    <2>2. \A k \in 1..Len(failedCh) : failedCh[k] \notin bits'
      <3>1. Engaged(p, i)
        BY <1>a DEF Engaged
      <3>2. \A k \in 1..Len(failedCh) : failedCh[k] # i
        BY <1>a, <3>1, EngagedAlone
      <3> QED
        BY <1>1, <3>2 DEF ClaimInv
    <2> QED
      BY <1>1, <2>1, <2>2, ClaimsKept
  <1>6. HeldInv'
    <2>1. \A q \in Peers : cur'[q] # None /\ pc'[q] \in Collecting =>
            cur'[q] \notin bits' /\ mgr'[cur'[q]] = qpd'[q]
      BY <1>1, <1>2, <1>3 DEF HeldInv, Collecting
    <2>2. \A q \in Peers : pc'[q] \in {"start", "reject"} => job'[q].piece \notin bits'
      BY <1>1, <1>2, <1>3 DEF HeldInv
    <2> QED
      BY <1>1, <2>1, <2>2 DEF HeldInv
  <1>7. WireInv'
    <2>1. ASSUME NEW q \in Peers, NEW k \in Pieces, NEW b \in Blocks, wire'[q][<<k, b>>] > 0
          PROVE  /\ wire'[q][<<k, b>>] = 1 /\ cur'[q] = k /\ pc'[q] \in Collecting
                 /\ pd'[qpd'[q]][b] = "requested"
      <3>1. /\ wire[q][<<k, b>>] = 1 /\ cur[q] = k /\ pc[q] \in Collecting
            /\ pd[qpd[q]][b] = "requested"
        BY <1>1, <2>1 DEF WireInv
      <3>2. q # p
        BY <1>a, <3>1 DEF IsComplete
      <3> QED
        BY <1>1, <1>2, <3>1, <3>2
    <2>2. \A q \in Peers : pc'[q] = "complete" => IsComplete(qpd[q])'
      BY <1>1, <1>2 DEF WireInv, IsComplete
    <2>3. \A q \in Peers : pc'[q] = "write" => wire'[q][<<job'[q].piece, job'[q].block>>] = 0
      BY <1>1, <1>2 DEF WireInv
    <2>4. \A q \in Peers : pc'[q] \in {"write", "check"} => job'[q].pd = qpd'[q]
      BY <1>1, <1>2 DEF WireInv
    <2> HIDE DEF LeaseInv
    <2> QED
      BY <2>1, <2>2, <2>3, <2>4 DEF WireInv
  <1>8. BadInv'
    <2>1. ASSUME Clean' PROVE Clean
      BY <1>1, <2>1 DEF Clean
    <2>2. ASSUME Clean' PROVE disk'[i] = "good"
      <3>1. \A b \in Blocks : pd[qpd[p]][b] # "bad"
        BY <1>0, <2>1, <2>2 DEF BadInv
      <3>2. \A b \in Blocks : pd[qpd[p]][b] = "good"
        BY <1>a, <3>1 DEF IsComplete
      <3> QED
        BY <1>a, <1>1, <3>2 DEF Content
    <2>3. ASSUME Clean', NEW q \in Peers
          PROVE  /\ strikes'[q] = 0 /\ pc'[q] # "reject"
                 /\ pc'[q] = "verify" => disk'[job'[q].piece] = "good"
      <3>1. \A k \in Pieces : k # i => disk'[k] = disk[k]
        BY <1>1
      <3>2. pc[q] = "verify" => job[q].piece \in Pieces
        BY DEF WorkerInv
      <3> QED
        BY <1>1, <1>2, <1>3, <2>1, <2>2, <2>3, <3>1, <3>2 DEF BadInv, i
    <2>4. ASSUME Clean', NEW q \in Peers, pc'[q] = "write" PROVE job'[q].good
      BY <1>1, <1>2, <2>1, <2>4 DEF BadInv
    <2>5. ASSUME Clean' PROVE \A d \in PdIds, c \in Blocks : pd'[d][c] # "bad"
      BY <1>1, <2>1, <2>5 DEF BadInv
    <2> QED
      BY <2>3, <2>4, <2>5 DEF BadInv
  <1> QED
    BY <1>4, <1>5, <1>6, <1>7, <1>8

(* The verification takes the piece out of Manager.pieces, where no other  *)
(* worker collects into it; a mismatch also makes it missing again.        *)
LEMMA VerifyKeepsLease ==
  ASSUME LeaseInv, QuietBudget, NEW p \in Peers, Verify(p) PROVE LeaseParts'
  <1> USE DEF LeaseInv, LeaseParts, KeptInv, SafeInv, BaseInv, TypeOK
  <1> DEFINE i == job[p].piece
  <1>0. /\ pc[p] = "verify" /\ cur[p] = i /\ i \in Pieces /\ i # None
        /\ mgr[i] \in PdIds
    BY DownloadAssumption DEF Verify, WorkerInv, PathInv, LockInv
  <1>b. ~Spend("diskfault")
    BY QuietEvents
  <1>1. /\ mgr' = [mgr EXCEPT ![i] = None]
        /\ UNCHANGED <<disk, job, pstate, failedCh, completedCh, cur, qpd, strikes, wire, left>>
    BY <1>b DEF Verify, InProgressOnMismatch, coordVars, queueVars, peerVars
  <1>2. \/ /\ disk[i] = "good" /\ bits' = bits /\ pd' = pd
           /\ pc' = [pc EXCEPT ![p] = "notify"]
        \/ /\ disk[i] # "good" /\ bits' = bits \ {i}
           /\ pd' = [pd EXCEPT ![mgr[i]] = NewBlocks]
           /\ pc' = [pc EXCEPT ![p] = "reject"]
    BY <1>b DEF Verify, HashMatches, BitsOnMismatch, AfterVerify, Goto
  <1> HIDE DEF i
  <1>3. /\ pc'[p] = "notify" \/ (pc'[p] = "reject" /\ i \notin bits' /\ disk[i] # "good")
        /\ \A q \in Peers : q # p => pc'[q] = pc[q]
        /\ bits' \subseteq bits
        /\ \A k \in Pieces : k # i => mgr'[k] = mgr[k]
        /\ mgr'[i] = None
        /\ \A d \in PdIds : d # mgr[i] => pd'[d] = pd[d]
    BY <1>0, <1>1, <1>2
  <1>4. \A q \in Peers : q # p => cur[q] # i
    <2>1. Engaged(p, i)
      BY <1>0 DEF Engaged
    <2> QED
      BY <1>0, <2>1, EngagedAlone
  <1>5. \A q \in Peers : cur[q] # None /\ pc[q] \in Collecting =>
          q # p /\ cur[q] \in Pieces /\ mgr[cur[q]] = qpd[q] /\ qpd[q] \in PdIds
          /\ qpd[q] # mgr[i]
    <2>1. ASSUME NEW q \in Peers, cur[q] # None, pc[q] \in Collecting
          PROVE  q # p /\ cur[q] \in Pieces /\ mgr[cur[q]] = qpd[q] /\ qpd[q] \in PdIds
      BY <1>0, <2>1 DEF Collecting, HeldInv, WorkerInv
    <2>2. ASSUME NEW q \in Peers, cur[q] # None, pc[q] \in Collecting
          PROVE  qpd[q] # mgr[i]
      BY <1>0, <1>4, <2>1, <2>2, DownloadAssumption DEF HeldInv
    <2> QED
      BY <2>1, <2>2
  <1>6. PathInv'
    BY <1>0, <1>1, <1>3 DEF PathInv, i
  <1>7. ClaimInv'
    <2>1. \A q \in Peers, k \in Pieces : Engaged(q, k)' => Engaged(q, k)
      BY <1>1, <1>3 DEF Engaged
    <2>2. \A k \in 1..Len(failedCh) : failedCh[k] \notin bits'
      BY <1>3 DEF ClaimInv
    <2> QED
      BY <1>1, <2>1, <2>2, ClaimsKept
  <1>8. HeldInv'
    <2>1. \A q \in Peers : cur'[q] # None /\ pc'[q] \in Collecting =>
            cur'[q] \notin bits' /\ mgr'[cur'[q]] = qpd'[q]
      BY <1>1, <1>3, <1>4, <1>5 DEF HeldInv, Collecting
    <2>2. \A q \in Peers : pc'[q] \in {"start", "reject"} => job'[q].piece \notin bits'
      BY <1>1, <1>3 DEF HeldInv, i
    <2>3. ASSUME NEW k \in Pieces, NEW l \in Pieces, mgr'[k] = mgr'[l], mgr'[k] # None
          PROVE  k = l
      <3>1. mgr'[k] = mgr[k] /\ mgr'[l] = mgr[l]
        BY <1>3, <2>3
      <3> QED
        BY <2>3, <3>1 DEF HeldInv
    <2> HIDE DEF LeaseInv
    <2> QED
      BY <2>1, <2>2, <2>3 DEF HeldInv
  <1>9. WireInv'
    <2>1. ASSUME NEW q \in Peers, NEW k \in Pieces, NEW b \in Blocks, wire'[q][<<k, b>>] > 0
          PROVE  /\ wire'[q][<<k, b>>] = 1 /\ cur'[q] = k /\ pc'[q] \in Collecting
                 /\ pd'[qpd'[q]][b] = "requested"
      <3>1. /\ wire[q][<<k, b>>] = 1 /\ cur[q] = k /\ pc[q] \in Collecting
            /\ pd[qpd[q]][b] = "requested"
        BY <1>1, <2>1 DEF WireInv
      <3>2. cur[q] # None
        BY <3>1, DownloadAssumption
      <3>3. q # p /\ qpd[q] \in PdIds /\ qpd[q] # mgr[i]
        BY <1>5, <3>1, <3>2
      <3> QED
        BY <1>1, <1>3, <3>1, <3>3
    <2>2. ASSUME NEW q \in Peers, pc'[q] = "complete"
          PROVE  \A b \in Blocks : pd'[qpd'[q]][b] \in {"good", "bad"}
      <3>1. pc[q] = "complete" /\ \A b \in Blocks : pd[qpd[q]][b] \in {"good", "bad"}
        BY <1>3, <2>2 DEF WireInv, IsComplete
      <3>2. cur[q] = job[q].piece /\ job[q].piece \in Pieces
        BY <3>1 DEF PathInv, WorkerInv
      <3>3. cur[q] # None /\ pc[q] \in Collecting
        BY <3>1, <3>2, DownloadAssumption DEF Collecting
      <3>4. qpd[q] \in PdIds /\ qpd[q] # mgr[i]
        BY <1>5, <3>3
      <3> QED
        BY <1>1, <1>3, <3>1, <3>4
    <2>3. \A q \in Peers : pc'[q] = "write" => wire'[q][<<job'[q].piece, job'[q].block>>] = 0
      BY <1>1, <1>3 DEF WireInv
    <2>4. \A q \in Peers : pc'[q] \in {"write", "check"} => job'[q].pd = qpd'[q]
      BY <1>1, <1>3 DEF WireInv
    <2> HIDE DEF LeaseInv
    <2> QED
      BY <2>1, <2>2, <2>3, <2>4 DEF WireInv, IsComplete
  <1>10. BadInv'
    <2>1. ASSUME Clean' PROVE Clean
      BY <1>1, <2>1 DEF Clean
    <2>2. ASSUME Clean' PROVE disk[i] = "good"
      BY <1>0, <2>1, <2>2 DEF BadInv, i
    <2>3. ASSUME Clean', NEW q \in Peers
          PROVE  /\ strikes'[q] = 0 /\ pc'[q] # "reject"
                 /\ pc'[q] = "verify" => disk'[job'[q].piece] = "good"
      BY <1>1, <1>3, <2>1, <2>2, <2>3 DEF BadInv
    <2>4. ASSUME Clean', NEW q \in Peers, pc'[q] = "write" PROVE job'[q].good
      BY <1>1, <1>3, <2>1, <2>4 DEF BadInv
    <2>5. ASSUME Clean' PROVE \A d \in PdIds, c \in Blocks : pd'[d][c] # "bad"
      BY <1>2, <2>1, <2>2, <2>5 DEF BadInv
    <2> QED
      BY <2>3, <2>4, <2>5 DEF BadInv
  <1> QED
    BY <1>6, <1>7, <1>8, <1>9, <1>10

(* A reported piece has left its worker's hands, and no other worker has   *)
(* it.                                                                     *)
LEMMA NotifyKeepsLease ==
  ASSUME LeaseInv, NEW p \in Peers, Notify(p) PROVE LeaseParts'
  <1> USE DEF LeaseInv, LeaseParts, KeptInv, SafeInv, BaseInv, TypeOK
  <1>i. PICK i \in Pieces : i = job[p].piece
    BY DEF Notify, WorkerInv
  <1>0. /\ pc[p] = "notify" /\ cur[p] = i /\ i \in Pieces /\ Engaged(p, i)
    BY <1>i DEF Notify, PathInv, Engaged
  <1>1. /\ pc' = [pc EXCEPT ![p] = "finish"] /\ job' = [job EXCEPT ![p] = NoJob]
        /\ cur' = [cur EXCEPT ![p] = None] /\ qpd' = [qpd EXCEPT ![p] = None]
        /\ completedCh' = Append(completedCh, i)
        /\ UNCHANGED <<bits, disk, mgr, pd, pstate, failedCh, strikes, wire, left>>
    BY <1>i DEF Notify, Goto, ClearQueue, Send, storageVars, managerVars, peerVars, envVars
  <1>2. /\ pc'[p] = "finish" /\ cur'[p] = None
        /\ \A q \in Peers : q # p =>
             pc'[q] = pc[q] /\ job'[q] = job[q] /\ cur'[q] = cur[q] /\ qpd'[q] = qpd[q]
    BY <1>1
  <1>3. \A q \in Peers, k \in Pieces : Engaged(q, k)' => Engaged(q, k) /\ q # p
    BY <1>2, DownloadAssumption DEF Engaged
  <1>4. PathInv'
    BY <1>2 DEF PathInv
  <1>5. ClaimInv'
    <2>1. /\ \A k \in 1..Len(failedCh) : failedCh[k] \in Pieces
          /\ \A k \in 1..Len(completedCh) : completedCh[k] \in Pieces
      OBVIOUS
    <2>2. /\ \A k \in Pieces : \A q, r \in Peers : Engaged(q, k)' /\ Engaged(r, k)' => q = r
          /\ \A k \in Pieces, q \in Peers : Engaged(q, k)' => pstate'[k] = "Downloading"
      BY <1>1, <1>3 DEF ClaimInv
    <2>3. \A k \in 1..Len(failedCh') :
            /\ pstate'[failedCh'[k]] = "Downloading" /\ failedCh'[k] \notin bits'
            /\ \A q \in Peers : ~Engaged(q, failedCh[k])'
      BY <1>1, <1>3, <2>1 DEF ClaimInv, Engaged
    <2>4. \A k, l \in 1..Len(failedCh') : failedCh'[k] = failedCh'[l] => k = l
      BY <1>1 DEF ClaimInv
    <2>5. ASSUME NEW k \in 1..Len(completedCh'), NEW q \in Peers
          PROVE  ~Engaged(q, completedCh[k])'
      <3>1. \/ k \in 1..Len(completedCh) /\ completedCh'[k] = completedCh[k]
            \/ completedCh'[k] = i
        <4>1. completedCh \in Seq(Pieces) /\ completedCh' = Append(completedCh, i)
          BY <1>1
        <4> HIDE DEF LeaseInv
        <4> QED
          BY <4>1
      <3>2. CASE k \in 1..Len(completedCh) /\ completedCh'[k] = completedCh[k]
        <4>1. PICK j \in Pieces : j = completedCh[k]
          BY <2>1, <3>2
        <4>2. ~Engaged(q, j)
          BY <3>2, <4>1 DEF ClaimInv
        <4>3. ~(Engaged(q, j)')
          BY <1>3, <4>2
        <4> QED
          BY <3>2, <4>1, <4>3 DEF Engaged
      <3>3. CASE completedCh'[k] = i
        <4>1. ~(Engaged(q, i)')
          BY <1>0, <1>3 DEF ClaimInv
        <4> QED
          BY <3>3, <4>1 DEF Engaged
      <3> QED
        BY <3>1, <3>2, <3>3
    <2> HIDE DEF LeaseInv
    <2> QED
      BY <2>2, <2>3, <2>4, <2>5 DEF ClaimInv
  <1>6. HeldInv'
    BY <1>1, <1>2, DownloadAssumption DEF HeldInv, Collecting
  <1>7. WireInv'
    <2>1. ASSUME NEW q \in Peers, NEW k \in Pieces, NEW b \in Blocks, wire'[q][<<k, b>>] > 0
          PROVE  /\ wire'[q][<<k, b>>] = 1 /\ cur'[q] = k /\ pc'[q] \in Collecting
                 /\ pd'[qpd'[q]][b] = "requested"
      <3>1. /\ wire[q][<<k, b>>] = 1 /\ cur[q] = k /\ pc[q] \in Collecting
            /\ pd[qpd[q]][b] = "requested"
        BY <1>1, <2>1 DEF WireInv
      <3>2. q # p
        BY <1>0, <3>1 DEF Collecting
      <3> QED
        BY <1>1, <1>2, <3>1, <3>2
    <2>2. \A q \in Peers : pc'[q] = "complete" => IsComplete(qpd[q])'
      BY <1>1, <1>2 DEF WireInv, IsComplete
    <2>3. \A q \in Peers : pc'[q] = "write" => wire'[q][<<job'[q].piece, job'[q].block>>] = 0
      BY <1>1, <1>2 DEF WireInv
    <2>4. \A q \in Peers : pc'[q] \in {"write", "check"} => job'[q].pd = qpd'[q]
      BY <1>1, <1>2 DEF WireInv
    <2> HIDE DEF LeaseInv
    <2> QED
      BY <2>1, <2>2, <2>3, <2>4 DEF WireInv
  <1>8. BadInv'
    <2>1. ASSUME Clean' PROVE Clean
      BY <1>1, <2>1 DEF Clean
    <2>2. ASSUME Clean', NEW q \in Peers
          PROVE  /\ strikes'[q] = 0 /\ pc'[q] # "reject"
                 /\ pc'[q] = "verify" => disk'[job'[q].piece] = "good"
      BY <1>1, <1>2, <2>1, <2>2 DEF BadInv
    <2>3. ASSUME Clean', NEW q \in Peers, pc'[q] = "write" PROVE job'[q].good
      BY <1>2, <2>1, <2>3 DEF BadInv
    <2>4. ASSUME Clean' PROVE \A d \in PdIds, c \in Blocks : pd'[d][c] # "bad"
      BY <1>1, <2>1, <2>4 DEF BadInv
    <2> QED
      BY <2>2, <2>3, <2>4 DEF BadInv
  <1> QED
    BY <1>4, <1>5, <1>6, <1>7, <1>8

(* After a mismatch the piece is missing and goes back once; a strike      *)
(* means that a corrupt block has arrived.                                 *)
LEMMA RejectKeepsLease ==
  ASSUME LeaseInv, NEW p \in Peers, Reject(p) PROVE LeaseParts'
  <1> USE DEF LeaseInv, LeaseParts, KeptInv, SafeInv, BaseInv, TypeOK
  <1>i. PICK i \in Pieces : i = job[p].piece
    BY DEF Reject, WorkerInv
  <1>0. /\ pc[p] = "reject" /\ cur[p] = i /\ i \in Pieces /\ Engaged(p, i) /\ i \notin bits
    BY <1>i DEF Reject, PathInv, HeldInv, Engaged
  <1>1. /\ \E l \in {"leave", "request", "loop"} : pc' = [pc EXCEPT ![p] = l]
        /\ job' = [job EXCEPT ![p] = NoJob]
        /\ cur' = [cur EXCEPT ![p] = None] /\ qpd' = [qpd EXCEPT ![p] = None]
        /\ Send(failedCh, i)
        /\ UNCHANGED <<bits, disk, mgr, pd, pstate, completedCh, wire, left>>
    BY <1>i DEF Reject, Goto, Continue, ClearQueue, storageVars, managerVars, envVars
  <1>2. /\ pc'[p] \in {"leave", "request", "loop"} /\ cur'[p] = None
        /\ \A q \in Peers : q # p =>
             pc'[q] = pc[q] /\ job'[q] = job[q] /\ cur'[q] = cur[q] /\ qpd'[q] = qpd[q]
    BY <1>1
  <1>3. \A q \in Peers, k \in Pieces : Engaged(q, k)' => Engaged(q, k) /\ q # p
    BY <1>2, DownloadAssumption DEF Engaged
  <1>4. PathInv'
    BY <1>2 DEF PathInv
  <1>5. ClaimInv'
    <2>1. ~(Engaged(p, i)')
      BY <1>0, <1>3
    <2> QED
      BY <1>0, <1>1, <1>3, <2>1, ClaimGivenBack
  <1>6. HeldInv'
    BY <1>1, <1>2, DownloadAssumption DEF HeldInv, Collecting
  <1>7. WireInv'
    <2>1. ASSUME NEW q \in Peers, NEW k \in Pieces, NEW b \in Blocks, wire'[q][<<k, b>>] > 0
          PROVE  /\ wire'[q][<<k, b>>] = 1 /\ cur'[q] = k /\ pc'[q] \in Collecting
                 /\ pd'[qpd'[q]][b] = "requested"
      <3>1. /\ wire[q][<<k, b>>] = 1 /\ cur[q] = k /\ pc[q] \in Collecting
            /\ pd[qpd[q]][b] = "requested"
        BY <1>1, <2>1 DEF WireInv
      <3>2. q # p
        BY <1>0, <3>1 DEF Collecting
      <3> QED
        BY <1>1, <1>2, <3>1, <3>2
    <2>2. \A q \in Peers : pc'[q] = "complete" => IsComplete(qpd[q])'
      BY <1>1, <1>2 DEF WireInv, IsComplete
    <2>3. \A q \in Peers : pc'[q] = "write" => wire'[q][<<job'[q].piece, job'[q].block>>] = 0
      BY <1>1, <1>2 DEF WireInv
    <2>4. \A q \in Peers : pc'[q] \in {"write", "check"} => job'[q].pd = qpd'[q]
      BY <1>1, <1>2 DEF WireInv
    <2> HIDE DEF LeaseInv
    <2> QED
      BY <2>1, <2>2, <2>3, <2>4 DEF WireInv
  <1>8. ~(Clean')
    BY <1>0, <1>1 DEF BadInv, Clean
  <1> QED
    BY <1>4, <1>5, <1>6, <1>7, <1>8 DEF BadInv

(* The deferred function gives back a missing piece, and what the peer     *)
(* owed goes with the connection.                                          *)
LEMMA LeaveKeepsLease ==
  ASSUME LeaseInv, NEW p \in Peers, Leave(p) PROVE LeaseParts'
  <1> USE DEF LeaseInv, LeaseParts, KeptInv, SafeInv, BaseInv, TypeOK
  <1>0. pc[p] = "leave"
    BY DEF Leave
  <1>1. /\ pc' = [pc EXCEPT ![p] = "off"]
        /\ cur' = [cur EXCEPT ![p] = None] /\ qpd' = [qpd EXCEPT ![p] = None]
        /\ wire' = [wire EXCEPT ![p] = NoRequests]
        /\ cur[p] # None => Send(failedCh, cur[p])
        /\ cur[p] = None => failedCh' = failedCh
        /\ UNCHANGED <<bits, disk, mgr, pd, job, pstate, completedCh, strikes, left>>
    BY DEF Leave, HoldsPiece, Goto, ClearQueue, storageVars, managerVars, peerVars
  <1>2. /\ pc'[p] = "off" /\ cur'[p] = None /\ wire'[p] = NoRequests
        /\ \A q \in Peers : q # p =>
             pc'[q] = pc[q] /\ cur'[q] = cur[q] /\ qpd'[q] = qpd[q] /\ wire'[q] = wire[q]
    BY <1>1
  <1>3. \A q \in Peers, k \in Pieces : Engaged(q, k)' => Engaged(q, k) /\ q # p
    BY <1>1, <1>2, DownloadAssumption DEF Engaged
  <1>4. PathInv'
    BY <1>1, <1>2 DEF PathInv
  <1>5. ClaimInv'
    <2>1. CASE cur[p] = None
      <3>1. \A k \in 1..Len(failedCh) : failedCh[k] \notin bits'
        BY <1>1 DEF ClaimInv
      <3> QED
        BY <1>1, <1>3, <2>1, <3>1, ClaimsKept
    <2>2. CASE cur[p] # None
      <3>1. cur[p] \in Pieces /\ cur[p] \notin bits /\ Engaged(p, cur[p])
        BY <1>0, <2>2 DEF HeldInv, Collecting, Engaged
      <3>i. PICK i \in Pieces : i = cur[p]
        BY <3>1
      <3>2. i \in Pieces /\ i \notin bits /\ Engaged(p, i) /\ Send(failedCh, i)
        BY <1>1, <2>2, <3>1, <3>i
      <3>3. ~(Engaged(p, i)')
        BY <1>3, <3>2
      <3> QED
        BY <1>1, <1>3, <3>2, <3>3, ClaimGivenBack
    <2> QED
      BY <2>1, <2>2
  <1>6. HeldInv'
    BY <1>1, <1>2, DownloadAssumption DEF HeldInv, Collecting
  <1>7. WireInv'
    <2>1. ASSUME NEW q \in Peers, NEW k \in Pieces, NEW b \in Blocks, wire'[q][<<k, b>>] > 0
          PROVE  /\ wire'[q][<<k, b>>] = 1 /\ cur'[q] = k /\ pc'[q] \in Collecting
                 /\ pd'[qpd'[q]][b] = "requested"
      <3>1. q # p
        BY <1>2, <2>1 DEF NoRequests
      <3>2. /\ wire[q][<<k, b>>] = 1 /\ cur[q] = k /\ pc[q] \in Collecting
            /\ pd[qpd[q]][b] = "requested"
        BY <1>2, <2>1, <3>1 DEF WireInv
      <3> QED
        BY <1>1, <1>2, <3>1, <3>2
    <2>2. \A q \in Peers : pc'[q] = "complete" => IsComplete(qpd[q])'
      BY <1>1, <1>2 DEF WireInv, IsComplete
    <2>3. \A q \in Peers : pc'[q] = "write" => wire'[q][<<job'[q].piece, job'[q].block>>] = 0
      BY <1>1, <1>2 DEF WireInv
    <2>4. \A q \in Peers : pc'[q] \in {"write", "check"} => job'[q].pd = qpd'[q]
      BY <1>1, <1>2 DEF WireInv
    <2> HIDE DEF LeaseInv
    <2> QED
      BY <2>1, <2>2, <2>3, <2>4 DEF WireInv
  <1>8. BadInv'
    <2>1. ASSUME Clean' PROVE Clean
      BY <1>1, <2>1 DEF Clean
    <2>2. ASSUME Clean', NEW q \in Peers
          PROVE  /\ strikes'[q] = 0 /\ pc'[q] # "reject"
                 /\ pc'[q] = "verify" => disk'[job'[q].piece] = "good"
      BY <1>1, <1>2, <2>1, <2>2 DEF BadInv
    <2>3. ASSUME Clean', NEW q \in Peers, pc'[q] = "write" PROVE job'[q].good
      BY <1>1, <1>2, <2>1, <2>3 DEF BadInv
    <2>4. ASSUME Clean' PROVE \A d \in PdIds, c \in Blocks : pd'[d][c] # "bad"
      BY <1>1, <2>1, <2>4 DEF BadInv
    <2> QED
      BY <2>2, <2>3, <2>4 DEF BadInv
  <1> QED
    BY <1>4, <1>5, <1>6, <1>7, <1>8

(* The worker starts with a new object or takes over the one its piece is  *)
(* in progress with; either way no other worker has it.                    *)
LEMMA StartKeepsLease ==
  ASSUME LeaseInv, NEW p \in Peers, Start(p) PROVE LeaseParts'
  <1> USE DEF LeaseInv, LeaseParts, KeptInv, SafeInv, BaseInv, TypeOK
  <1>i. PICK i \in Pieces : i = job[p].piece
    BY DEF Start, WorkerInv
  <1>0. /\ pc[p] = "start" /\ cur[p] = None /\ Engaged(p, i) /\ i \notin bits /\ i # None
    BY <1>i, DownloadAssumption DEF Start, PathInv, HeldInv, Engaged
  <1>d. PICK d \in PdIds :
          /\ \/ d = mgr[i] /\ UNCHANGED <<mgr, pd>>
             \/ /\ Unreferenced(d) /\ mgr[i] = None
                /\ mgr' = [mgr EXCEPT ![i] = d]
                /\ pd' = [pd EXCEPT ![d] = NewBlocks]
          /\ qpd' = [qpd EXCEPT ![p] = d]
    BY <1>i, <1>0 DEF Start, HasPiece
  <1>1. /\ pc' = [pc EXCEPT ![p] = "fill"] /\ cur' = [cur EXCEPT ![p] = i]
        /\ UNCHANGED <<bits, disk, job, pstate, failedCh, completedCh, strikes, wire, left>>
    BY <1>i, <1>0 DEF Start, HasPiece, Goto, storageVars, coordVars, peerVars, envVars
  <1>2. /\ pc'[p] = "fill" /\ cur'[p] = i /\ qpd'[p] = d /\ mgr'[i] = d /\ job'[p].piece = i
        /\ \A q \in Peers : q # p => pc'[q] = pc[q] /\ cur'[q] = cur[q] /\ qpd'[q] = qpd[q]
        /\ \A k \in Pieces : k # i => mgr'[k] = mgr[k] /\ mgr[k] # d
        /\ \A e \in PdIds : e # d => pd'[e] = pd[e]
    <2>1. \A k \in Pieces : k # i => mgr[k] # d
      BY <1>d, DownloadAssumption DEF HeldInv, Unreferenced
    <2> QED
      BY <1>i, <1>d, <1>1, <2>1
  <1>3. \A q \in Peers : q # p => cur[q] # i
    BY <1>0, EngagedAlone
  <1>a. ASSUME NEW q \in Peers, q # p, cur[q] # None, pc[q] \in Collecting
        PROVE  qpd[q] \in PdIds /\ qpd[q] # d /\ mgr'[cur[q]] = qpd[q]
    <2>1. cur[q] \in Pieces /\ cur[q] # i /\ mgr[cur[q]] = qpd[q] /\ qpd[q] \in PdIds
      BY <1>3, <1>a DEF HeldInv, WorkerInv
    <2> HIDE DEF LeaseInv
    <2> QED
      BY <1>2, <2>1
  <1>4. PathInv'
    BY <1>0, <1>1, <1>2 DEF PathInv
  <1>5. ClaimInv'
    <2>1. \A q \in Peers, k \in Pieces : Engaged(q, k)' => Engaged(q, k)
      BY <1>i, <1>0, <1>1, <1>2 DEF Engaged
    <2>2. \A k \in 1..Len(failedCh) : failedCh[k] \notin bits'
      BY <1>1 DEF ClaimInv
    <2> QED
      BY <1>1, <2>1, <2>2, ClaimsKept
  <1>6. HeldInv'
    <2>1. ASSUME NEW q \in Peers, cur'[q] # None, pc'[q] \in Collecting
          PROVE  cur'[q] \notin bits' /\ mgr'[cur'[q]] = qpd'[q]
      <3>1. CASE q = p
        BY <1>0, <1>1, <1>2, <3>1
      <3>2. CASE q # p
        BY <1>a, <1>1, <1>2, <2>1, <3>2 DEF HeldInv
      <3> QED
        BY <3>1, <3>2
    <2>2. \A q \in Peers : pc'[q] \in {"start", "reject"} => job'[q].piece \notin bits'
      BY <1>1, <1>2 DEF HeldInv
    <2>3. ASSUME NEW k \in Pieces, NEW l \in Pieces, mgr'[k] = mgr'[l], mgr'[k] # None
          PROVE  k = l
      <3>1. mgr[k] = mgr[l] /\ mgr[k] # None => k = l
        BY DEF HeldInv
      <3> HIDE DEF LeaseInv
      <3> QED
        BY <1>2, <2>3, <3>1
    <2> HIDE DEF LeaseInv
    <2> QED
      BY <2>1, <2>2, <2>3 DEF HeldInv
  <1>7. WireInv'
    <2>1. ASSUME NEW q \in Peers, NEW k \in Pieces, NEW b \in Blocks, wire'[q][<<k, b>>] > 0
          PROVE  /\ wire'[q][<<k, b>>] = 1 /\ cur'[q] = k /\ pc'[q] \in Collecting
                 /\ pd'[qpd'[q]][b] = "requested"
      <3>1. /\ wire[q][<<k, b>>] = 1 /\ cur[q] = k /\ pc[q] \in Collecting
            /\ pd[qpd[q]][b] = "requested"
        BY <1>1, <2>1 DEF WireInv
      <3>2. q # p /\ cur[q] # None
        BY <1>0, <3>1, DownloadAssumption DEF Collecting
      <3>3. qpd[q] \in PdIds /\ qpd[q] # d
        BY <1>a, <3>1, <3>2
      <3> HIDE DEF LeaseInv
      <3> QED
        BY <1>1, <1>2, <3>1, <3>2, <3>3
    <2>2. ASSUME NEW q \in Peers, pc'[q] = "complete"
          PROVE  \A b \in Blocks : pd'[qpd'[q]][b] \in {"good", "bad"}
      <3>1. /\ q # p /\ pc[q] = "complete"
            /\ \A b \in Blocks : pd[qpd[q]][b] \in {"good", "bad"}
        BY <1>2, <2>2 DEF WireInv, IsComplete
      <3>2. cur[q] = job[q].piece /\ job[q].piece \in Pieces
        BY <3>1 DEF PathInv, WorkerInv
      <3>3. cur[q] # None /\ pc[q] \in Collecting
        BY <3>1, <3>2, DownloadAssumption DEF Collecting
      <3>4. qpd[q] \in PdIds /\ qpd[q] # d
        BY <1>a, <3>1, <3>3
      <3> HIDE DEF LeaseInv
      <3> QED
        BY <1>2, <3>1, <3>4
    <2>3. \A q \in Peers : pc'[q] = "write" => wire'[q][<<job'[q].piece, job'[q].block>>] = 0
      BY <1>1, <1>2 DEF WireInv
    <2>4. \A q \in Peers : pc'[q] \in {"write", "check"} => job'[q].pd = qpd'[q]
      BY <1>1, <1>2 DEF WireInv
    <2> HIDE DEF LeaseInv
    <2> QED
      BY <2>1, <2>2, <2>3, <2>4 DEF WireInv, IsComplete
  <1>8. BadInv'
    <2>1. ASSUME Clean' PROVE Clean
      BY <1>1, <2>1 DEF Clean
    <2>2. ASSUME Clean', NEW q \in Peers
          PROVE  /\ strikes'[q] = 0 /\ pc'[q] # "reject"
                 /\ pc'[q] = "verify" => disk'[job'[q].piece] = "good"
      BY <1>1, <1>2, <2>1, <2>2 DEF BadInv
    <2>3. ASSUME Clean', NEW q \in Peers, pc'[q] = "write" PROVE job'[q].good
      BY <1>1, <1>2, <2>1, <2>3 DEF BadInv
    <2>4. ASSUME Clean', NEW e \in PdIds, NEW c \in Blocks PROVE pd'[e][c] # "bad"
      <3>1. pd[e][c] # "bad"
        BY <2>1, <2>4 DEF BadInv
      <3>2. pd \in [PdIds -> [Blocks -> BlockState]]
        OBVIOUS
      <3> HIDE DEF LeaseInv
      <3> QED
        BY <1>d, <3>1, <3>2 DEF NewBlocks
    <2> QED
      BY <2>2, <2>3, <2>4 DEF BadInv
  <1> QED
    BY <1>4, <1>5, <1>6, <1>7, <1>8

(* Outside endgame the coordinator gives out a missing piece that nobody   *)
(* is downloading and no failure is on its way for.                        *)
LEMMA HandlePieceRequestKeepsLease ==
  ASSUME LeaseInv, QuietBudget, NEW p \in Peers, HandlePieceRequest(p), ~endgame', ~Light
  PROVE  /\ LeaseParts'
         /\ \E i \in Pieces :
              /\ i \notin bits /\ \A q \in Peers : ~Engaged(q, i)
              /\ pc' = [pc EXCEPT ![p] = "start"]
              /\ job' = [job EXCEPT ![p] = PieceJob(i)]
  <1> USE DEF LeaseInv, LeaseParts, KeptInv, SafeInv, BaseInv, TypeOK
  <1>0. pc[p] = "request" /\ cur[p] = None
    BY DEF HandlePieceRequest, PathInv
  <1>1. UNCHANGED <<bits, disk, mgr, pd, failedCh, completedCh, cur, qpd, strikes, wire, left>>
    BY DEF HandlePieceRequest, storageVars, managerVars, queueVars, peerVars, envVars
  <1>i. PICK i \in Pieces :
          /\ i \notin bits /\ pstate[i] # "Downloading"
          /\ pstate' = [pstate EXCEPT ![i] = "Downloading"]
          /\ job' = [job EXCEPT ![p] = PieceJob(i)]
          /\ pc' = [pc EXCEPT ![p] = "start"]
    <2>1. CASE \E i \in Candidates(p, endgame') :
                 /\ pstate' = [pstate EXCEPT ![i] = "Downloading"]
                 /\ job' = [job EXCEPT ![p] = PieceJob(i)]
                 /\ Goto(p, "start")
      <3>1. PICK i \in remoteBits[p] \ bits :
                 /\ endgame' \/ pstate[i] # "Downloading"
                 /\ pstate' = [pstate EXCEPT ![i] = "Downloading"]
                 /\ job' = [job EXCEPT ![p] = PieceJob(i)]
                 /\ Goto(p, "start")
        BY <2>1 DEF Candidates
      <3>2. i \in Pieces /\ i \notin bits /\ pstate[i] # "Downloading"
        BY <3>1
      <3> QED
        BY <3>1, <3>2 DEF Goto
    <2>2. CASE UNCHANGED <<pstate, job>> /\ Goto(p, "loop")
      BY <1>0, <1>1, <2>2 DEF Light, Goto
    <2> QED
      BY <2>1, <2>2 DEF HandlePieceRequest
  <1>2. /\ pc'[p] = "start" /\ job'[p].piece = i
        /\ \A q \in Peers : q # p => pc'[q] = pc[q] /\ job'[q] = job[q]
        /\ pstate'[i] = "Downloading"
        /\ \A k \in Pieces : k # i => pstate'[k] = pstate[k]
    BY <1>i DEF PieceJob
  <1>a. \A q \in Peers : ~Engaged(q, i)
    BY <1>i DEF ClaimInv
  <1>b. \A q \in Peers, k \in Pieces :
          Engaged(q, k)' => Engaged(q, k) \/ (q = p /\ k = i)
    BY <1>1, <1>2, DownloadAssumption DEF Engaged
  <1>c. /\ \A k \in 1..Len(failedCh) : failedCh[k] \in Pieces /\ failedCh[k] # i
        /\ \A k \in 1..Len(completedCh) : completedCh[k] \in Pieces /\ completedCh[k] # i
    <2>1. /\ \A k \in 1..Len(failedCh) : failedCh[k] \in Pieces
          /\ \A k \in 1..Len(completedCh) : completedCh[k] \in Pieces
      OBVIOUS
    <2>2. \A k \in 1..Len(failedCh) : failedCh[k] # i
      BY <1>i DEF ClaimInv
    <2>3. \A k \in 1..Len(completedCh) : completedCh[k] # i
      BY <1>i, QuietEvents DEF DoneKept, Done
    <2> QED
      BY <2>1, <2>2, <2>3
  <1>4. PathInv'
    BY <1>0, <1>1, <1>2 DEF PathInv
  <1>5. ClaimInv'
    <2>1. ASSUME NEW k \in Pieces, NEW q \in Peers, NEW r \in Peers,
                 Engaged(q, k)', Engaged(r, k)'
          PROVE  q = r
      <3>1. CASE k = i
        BY <1>a, <1>b, <2>1, <3>1
      <3>2. CASE k # i
        <4>1. Engaged(q, k) /\ Engaged(r, k)
          BY <1>b, <2>1, <3>2
        <4> QED
          BY <4>1 DEF ClaimInv
      <3> QED
        BY <3>1, <3>2
    <2>2. ASSUME NEW k \in Pieces, NEW q \in Peers, Engaged(q, k)'
          PROVE  pstate'[k] = "Downloading"
      BY <1>b, <1>2, <2>2 DEF ClaimInv
    <2>3. ASSUME NEW k \in 1..Len(failedCh')
          PROVE  /\ pstate'[failedCh'[k]] = "Downloading" /\ failedCh'[k] \notin bits'
                 /\ \A q \in Peers : ~Engaged(q, failedCh[k])'
      <3>1. PICK j \in Pieces : j = failedCh[k] /\ j # i /\ failedCh'[k] = j
        BY <1>1, <1>c
      <3>2. /\ pstate[j] = "Downloading" /\ j \notin bits
            /\ \A q \in Peers : ~Engaged(q, j)
        BY <1>1, <3>1 DEF ClaimInv
      <3>3. \A q \in Peers : ~(Engaged(q, j)')
        BY <1>b, <3>1, <3>2
      <3> QED
        BY <1>1, <1>2, <3>1, <3>2, <3>3 DEF Engaged
    <2>4. \A k, l \in 1..Len(failedCh') : failedCh'[k] = failedCh'[l] => k = l
      BY <1>1 DEF ClaimInv
    <2>5. ASSUME NEW k \in 1..Len(completedCh'), NEW q \in Peers
          PROVE  ~Engaged(q, completedCh[k])'
      <3>1. PICK j \in Pieces : j = completedCh[k] /\ j # i /\ completedCh'[k] = j
        BY <1>1, <1>c
      <3>2. ~Engaged(q, j)
        BY <1>1, <3>1 DEF ClaimInv
      <3>3. ~(Engaged(q, j)')
        BY <1>b, <3>1, <3>2
      <3> QED
        BY <3>1, <3>3 DEF Engaged
    <2> HIDE DEF LeaseInv
    <2> QED
      BY <2>1, <2>2, <2>3, <2>4, <2>5 DEF ClaimInv
  <1>6. HeldInv'
    BY <1>i, <1>1, <1>2 DEF HeldInv, Collecting
  <1>7. WireInv'
    <2>1. ASSUME NEW q \in Peers, NEW k \in Pieces, NEW b \in Blocks, wire'[q][<<k, b>>] > 0
          PROVE  /\ wire'[q][<<k, b>>] = 1 /\ cur'[q] = k /\ pc'[q] \in Collecting
                 /\ pd'[qpd'[q]][b] = "requested"
      <3>1. /\ wire[q][<<k, b>>] = 1 /\ cur[q] = k /\ pc[q] \in Collecting
            /\ pd[qpd[q]][b] = "requested"
        BY <1>1, <2>1 DEF WireInv
      <3>2. q # p
        BY <1>0, <3>1 DEF Collecting
      <3> QED
        BY <1>1, <1>2, <3>1, <3>2
    <2>2. ASSUME NEW q \in Peers, pc'[q] = "complete"
          PROVE  \A b \in Blocks : pd'[qpd'[q]][b] \in {"good", "bad"}
      <3>1. q # p /\ pc[q] = "complete"
        BY <1>2, <2>2
      <3>2. \A b \in Blocks : pd[qpd[q]][b] \in {"good", "bad"}
        BY <3>1 DEF WireInv, IsComplete
      <3> QED
        BY <1>1, <3>2
    <2>3. \A q \in Peers : pc'[q] = "write" => wire'[q][<<job'[q].piece, job'[q].block>>] = 0
      BY <1>1, <1>2 DEF WireInv
    <2>4. ASSUME NEW q \in Peers, pc'[q] \in {"write", "check"} PROVE job'[q].pd = qpd'[q]
      <3>1. q # p /\ pc[q] \in {"write", "check"} /\ job'[q] = job[q]
        BY <1>2, <2>4
      <3>2. job[q].pd = qpd[q]
        BY <3>1 DEF WireInv
      <3> QED
        BY <1>1, <3>1, <3>2
    <2> HIDE DEF LeaseInv
    <2> QED
      BY <2>1, <2>2, <2>3, <2>4 DEF WireInv, IsComplete
  <1>8. BadInv'
    <2>1. ASSUME Clean' PROVE Clean
      BY <1>1, <2>1 DEF Clean
    <2>a. BadInv
      OBVIOUS
    <2> HIDE DEF LeaseInv
    <2>2. ASSUME Clean', NEW q \in Peers
          PROVE  /\ strikes'[q] = 0 /\ pc'[q] # "reject"
                 /\ pc'[q] = "verify" => disk'[job'[q].piece] = "good"
      BY <1>1, <1>2, <2>1, <2>2, <2>a DEF BadInv
    <2>3. ASSUME Clean', NEW q \in Peers, pc'[q] = "write" PROVE job'[q].good
      BY <1>2, <2>1, <2>3, <2>a DEF BadInv
    <2>4. ASSUME Clean' PROVE \A d \in PdIds, c \in Blocks : pd'[d][c] # "bad"
      BY <1>1, <2>1, <2>4, <2>a DEF BadInv
    <2> QED
      BY <2>2, <2>3, <2>4 DEF BadInv
  <1> QED
    BY <1>4, <1>5, <1>6, <1>7, <1>8, <1>i, <1>a

(* A complete piece has no worker and no failure on its way.               *)
LEMMA HandlePieceCompleteKeepsLease ==
  ASSUME LeaseInv, QuietBudget, HandlePieceComplete PROVE LeaseParts'
  <1> USE DEF LeaseInv, LeaseParts, KeptInv, SafeInv, BaseInv, TypeOK
  <1>0. completedCh # <<>> /\ completedCh \in Seq(Pieces) /\ failedCh \in Seq(Pieces)
    BY DEF HandlePieceComplete
  <1>i. PICK i \in Pieces :
          /\ i = completedCh[1] /\ 1 \in 1..Len(completedCh)
          /\ pstate' = [pstate EXCEPT ![i] = "Complete"]
    <2>1. Head(completedCh) = completedCh[1] /\ 1 \in 1..Len(completedCh)
          /\ completedCh[1] \in Pieces
      BY <1>0
    <2>2. pstate' = [pstate EXCEPT ![Head(completedCh)] = "Complete"]
      BY DEF HandlePieceComplete
    <2> QED
      BY <2>1, <2>2
  <1>1. UNCHANGED <<bits, disk, mgr, pd, pc, job, failedCh, cur, qpd, strikes, wire, left>>
    BY DEF HandlePieceComplete, storageVars, managerVars, queueVars, peerVars, envVars
  <1>2. /\ completedCh' = Tail(completedCh)
        /\ \A k \in 1..Len(completedCh') :
             k + 1 \in 1..Len(completedCh) /\ completedCh'[k] = completedCh[k + 1]
    <2>1. completedCh' = Tail(completedCh)
      BY DEF HandlePieceComplete
    <2> HIDE DEF LeaseInv
    <2> QED
      BY <1>0, <2>1
  <1>3. /\ \A q \in Peers : ~Engaged(q, i)
        /\ \A k \in 1..Len(failedCh) : failedCh[k] # i
    <2>1. \A q \in Peers : ~Engaged(q, i)
      BY <1>i DEF ClaimInv
    <2>2. i \in bits
      BY <1>i, QuietEvents DEF DoneKept, Done
    <2> QED
      BY <2>1, <2>2 DEF ClaimInv
  <1>4. \A q \in Peers, k \in Pieces : Engaged(q, k)' <=> Engaged(q, k)
    BY <1>1 DEF Engaged
  <1>5. ClaimInv'
    <2>0. ClaimInv /\ pstate \in [Pieces -> PieceState]
      OBVIOUS
    <2> HIDE DEF LeaseInv
    <2>1. \A k \in Pieces : k # i => pstate'[k] = pstate[k]
      BY <1>i, <2>0
    <2>2. \A k \in Pieces : \A q, r \in Peers : Engaged(q, k)' /\ Engaged(r, k)' => q = r
      BY <1>4, <2>0 DEF ClaimInv
    <2>3. ASSUME NEW k \in Pieces, NEW q \in Peers, Engaged(q, k)'
          PROVE  pstate'[k] = "Downloading"
      BY <1>3, <1>4, <2>0, <2>1, <2>3 DEF ClaimInv
    <2>4. ASSUME NEW k \in 1..Len(failedCh')
          PROVE  /\ pstate'[failedCh'[k]] = "Downloading" /\ failedCh'[k] \notin bits'
                 /\ \A q \in Peers : ~Engaged(q, failedCh[k])'
      <3>1. PICK j \in Pieces : j = failedCh[k] /\ j # i /\ failedCh'[k] = j
        BY <1>0, <1>1, <1>3
      <3>2. /\ pstate[j] = "Downloading" /\ j \notin bits
            /\ \A q \in Peers : ~Engaged(q, j)
        BY <1>1, <2>0, <3>1 DEF ClaimInv
      <3>3. \A q \in Peers : ~(Engaged(q, j)')
        BY <1>4, <3>2
      <3> QED
        BY <1>1, <2>1, <3>1, <3>2, <3>3 DEF Engaged
    <2>5. \A k, l \in 1..Len(failedCh') : failedCh'[k] = failedCh'[l] => k = l
      BY <1>1, <2>0 DEF ClaimInv
    <2>6. ASSUME NEW k \in 1..Len(completedCh'), NEW q \in Peers
          PROVE  ~Engaged(q, completedCh[k])'
      <3>1. PICK j \in Pieces : j = completedCh[k + 1] /\ completedCh'[k] = j
        BY <1>0, <1>2
      <3>2. ~Engaged(q, j)
        BY <1>2, <2>0, <3>1 DEF ClaimInv
      <3>3. ~(Engaged(q, j)')
        BY <1>4, <3>2
      <3> QED
        BY <3>1, <3>3 DEF Engaged
    <2> QED
      BY <2>2, <2>3, <2>4, <2>5, <2>6 DEF ClaimInv
  <1>6. PathInv' /\ HeldInv'
    BY <1>1 DEF PathInv, HeldInv
  <1>7. WireInv'
    BY <1>1 DEF WireInv, IsComplete
  <1>8. BadInv'
    BY <1>1 DEF BadInv, Clean
  <1> QED
    BY <1>5, <1>6, <1>7, <1>8

(* A failure is read once, and makes its piece needed while nobody has it. *)
LEMMA HandlePieceFailedKeepsLease ==
  ASSUME LeaseInv, HandlePieceFailed PROVE LeaseParts'
  <1> USE DEF LeaseInv, LeaseParts, KeptInv, SafeInv, BaseInv, TypeOK
  <1>0. failedCh # <<>> /\ failedCh \in Seq(Pieces) /\ completedCh \in Seq(Pieces)
    BY DEF HandlePieceFailed
  <1>i. PICK i \in Pieces :
          /\ i = failedCh[1] /\ 1 \in 1..Len(failedCh)
          /\ pstate' = [pstate EXCEPT ![i] = "Needed"]
    <2>1. Head(failedCh) = failedCh[1] /\ 1 \in 1..Len(failedCh) /\ failedCh[1] \in Pieces
      BY <1>0
    <2>2. pstate' = [pstate EXCEPT ![Head(failedCh)] = "Needed"]
      BY DEF HandlePieceFailed, NeededAgain
    <2> QED
      BY <2>1, <2>2
  <1>1. UNCHANGED <<bits, disk, mgr, pd, pc, job, completedCh, cur, qpd, strikes, wire, left>>
    BY DEF HandlePieceFailed, storageVars, managerVars, queueVars, peerVars, envVars
  <1>2. \A k \in 1..Len(failedCh') :
           k \in Nat /\ k + 1 \in 1..Len(failedCh) /\ failedCh'[k] = failedCh[k + 1]
    <2>1. failedCh' = Tail(failedCh)
      BY DEF HandlePieceFailed
    <2> HIDE DEF LeaseInv
    <2> QED
      BY <1>0, <2>1
  <1>4. \A q \in Peers, k \in Pieces : Engaged(q, k)' <=> Engaged(q, k)
    BY <1>1 DEF Engaged
  <1>5. ClaimInv'
    <2>0. ClaimInv /\ pstate \in [Pieces -> PieceState]
      OBVIOUS
    <2> HIDE DEF LeaseInv
    <2>1. \A k \in Pieces : k # i => pstate'[k] = pstate[k]
      BY <1>i, <2>0
    <2>a. \A q \in Peers : ~Engaged(q, i)
      BY <1>i, <2>0 DEF ClaimInv
    <2>b. \A k, l \in 1..Len(failedCh) : failedCh[k] = failedCh[l] => k = l
      BY <2>0 DEF ClaimInv
    <2>2. \A k \in Pieces : \A q, r \in Peers : Engaged(q, k)' /\ Engaged(r, k)' => q = r
      BY <1>4, <2>0 DEF ClaimInv
    <2>3. ASSUME NEW k \in Pieces, NEW q \in Peers, Engaged(q, k)'
          PROVE  pstate'[k] = "Downloading"
      BY <1>4, <2>0, <2>1, <2>3, <2>a DEF ClaimInv
    <2>4. ASSUME NEW k \in 1..Len(failedCh')
          PROVE  /\ pstate'[failedCh'[k]] = "Downloading" /\ failedCh'[k] \notin bits'
                 /\ \A q \in Peers : ~Engaged(q, failedCh[k])'
      <3>1. PICK j \in Pieces : j = failedCh[k + 1] /\ failedCh'[k] = j
        BY <1>0, <1>2
      <3>2. /\ pstate[j] = "Downloading" /\ j \notin bits
            /\ \A q \in Peers : ~Engaged(q, j)
        BY <1>2, <2>0, <3>1 DEF ClaimInv
      <3>3. \A q \in Peers : ~(Engaged(q, j)')
        BY <1>4, <3>2
      <3>4. k \in Nat /\ 1 <= k
        BY <1>2
      <3>5. j # i
        BY <1>i, <1>2, <2>b, <3>1, <3>4
      <3> QED
        BY <1>1, <2>1, <3>1, <3>2, <3>3, <3>5 DEF Engaged
    <2>5. ASSUME NEW k \in 1..Len(failedCh'), NEW l \in 1..Len(failedCh'),
                 failedCh'[k] = failedCh'[l]
          PROVE  k = l
      <3>1. k + 1 = l + 1
        BY <1>2, <2>5, <2>b
      <3> QED
        BY <1>2, <3>1
    <2>6. ASSUME NEW k \in 1..Len(completedCh'), NEW q \in Peers
          PROVE  ~Engaged(q, completedCh[k])'
      <3>1. PICK j \in Pieces : j = completedCh[k] /\ completedCh'[k] = j
        BY <1>0, <1>1
      <3>2. ~Engaged(q, j)
        BY <1>1, <2>0, <3>1 DEF ClaimInv
      <3>3. ~(Engaged(q, j)')
        BY <1>4, <3>2
      <3> QED
        BY <3>1, <3>3 DEF Engaged
    <2> QED
      BY <2>2, <2>3, <2>4, <2>5, <2>6 DEF ClaimInv
  <1>6. PathInv' /\ HeldInv'
    BY <1>1 DEF PathInv, HeldInv
  <1>7. WireInv'
    BY <1>1 DEF WireInv, IsComplete
  <1>8. BadInv'
    BY <1>1 DEF BadInv, Clean
  <1> QED
    BY <1>5, <1>6, <1>7, <1>8

(* Every step outside endgame keeps LeaseInv.                              *)
LEMMA LeaseInvStep ==
  ASSUME LeaseInv, QuietBudget, [Next]_vars, ~endgame' PROVE LeaseInv'
  <1>1. KeptInv'
    BY KeptInvStep, QuietEvents DEF LeaseInv
  <1>2. LeaseParts'
    BY LightOrNot, LightKeepsLease, ReceiveKeepsLease, WriteKeepsLease, CheckKeepsLease,
       FillKeepsLease, CompleteKeepsLease, VerifyKeepsLease, NotifyKeepsLease,
       RejectKeepsLease, LeaveKeepsLease, StartKeepsLease, HandlePieceRequestKeepsLease,
       HandlePieceCompleteKeepsLease, HandlePieceFailedKeepsLease
  <1> QED
    BY <1>1, <1>2 DEF LeaseInv

(* Nobody has a piece when Session.Start has returned.                     *)
LEMMA LeaseInvInit == ASSUME QuietBudget PROVE Init => LeaseInv
  <1> SUFFICES ASSUME Init PROVE LeaseInv
    OBVIOUS
  <1>1. KeptInv
    <2>1. SafeInv
      BY SafeInvInit
    <2>2. NotLate
      BY DEF Init, NotLate
    <2>3. DoneKept
      BY DownloadAssumption DEF Init, DoneKept, Done
    <2> QED
      BY <2>1, <2>2, <2>3 DEF KeptInv
  <1>2. PathInv
    BY DEF Init, PathInv
  <1>3. ClaimInv
    BY DownloadAssumption DEF Init, ClaimInv, Engaged
  <1>4. HeldInv
    BY DEF Init, HeldInv
  <1>5. WireInv
    BY DEF Init, WireInv, NoRequests
  <1>6. BadInv
    BY DEF Init, BadInv, NewBlocks
  <1> QED
    BY <1>1, <1>2, <1>3, <1>4, <1>5, <1>6 DEF LeaseInv, LeaseParts

(* LeaseInv holds until endgame begins.                                    *)
LEMMA LeaseInvHolds ==
  ASSUME QuietBudget
  PROVE  Spec /\ []~endgame => []LeaseInv
  <1>1. Init => LeaseInv
    BY LeaseInvInit
  <1>2. LeaseInv /\ [Next]_vars /\ ~endgame' => LeaseInv'
    BY LeaseInvStep
  <1> QED
    BY <1>1, <1>2, PTL DEF Spec

(* No peer is charged with a hash failure before a corrupt block arrives,  *)
(* outside endgame and without timers, refused blocks and disk faults.     *)
THEOREM StrikesNeedBadData ==
  ASSUME QuietBudget
  PROVE  Spec /\ []~endgame => []StrikeNeedsBadData
  <1>1. ASSUME LeaseInv PROVE StrikeNeedsBadData
    <2> USE DEF LeaseInv, LeaseParts, KeptInv, SafeInv, BaseInv, TypeOK
    <2>1. ASSUME NEW p \in Peers, strikes[p] > 0
          PROVE  left["corrupt"] < Budget["corrupt"]
      <3>1. ~Clean
        BY <1>1, <2>1 DEF BadInv
      <3>2. left["corrupt"] \in Nat /\ left["corrupt"] <= Budget["corrupt"]
        BY <1>1 DEF BudgetInv, EventKinds
      <3>3. Budget["corrupt"] \in Nat
        BY DownloadAssumption DEF EventKinds
      <3> QED
        BY <3>1, <3>2, <3>3 DEF Clean
    <2> QED
      BY <2>1 DEF StrikeNeedsBadData
  <1> QED
    BY <1>1, LeaseInvHolds, PTL

-----------------------------------------------------------------------------
\* Piece i is verified and its bit is set.
Stored(i) == i \in bits /\ disk[i] = "good" /\ ~Verifying(i)

(* Who has a piece changes only with the bit or with the peers engaged.    *)
LEMMA HoldersSame ==
  ASSUME NEW i \in Pieces, Stored(i)' <=> Stored(i),
         ~Stored(i) => \A q \in Peers : Engaged(q, i)' <=> Engaged(q, i)
  PROVE  Holders(i)' = Holders(i)
  <1>1. CASE Stored(i)
    BY <1>1 DEF Holders, Stored
  <1>2. CASE ~Stored(i)
    BY <1>2 DEF Holders, Stored
  <1> QED
    BY <1>1, <1>2

(* A missing piece with one engaged peer is that peer's.                   *)
LEMMA HoldersOne ==
  ASSUME ClaimInv, NEW i \in Pieces, ~Stored(i), NEW p \in Peers, Engaged(p, i)
  PROVE  Holders(i) = {p}
  <1>1. Holders(i) = {q \in Peers : Engaged(q, i)}
    BY DEF Holders, Stored
  <1>2. \A q \in Peers : Engaged(q, i) => q = p
    BY DEF ClaimInv
  <1> QED
    BY <1>1, <1>2

\* The step neither touches a piece nor starts or ends its verification.
Still ==
  /\ UNCHANGED <<bits, disk, cur>>
  /\ \A q \in Peers :
       pc[q] \in {"verify", "start"} \/ pc'[q] \in {"verify", "start"} =>
         pc'[q] = pc[q] /\ job'[q] = job[q]

(* Such a step leaves every piece with whoever has it.                     *)
LEMMA StillHolders ==
  ASSUME Still, NEW i \in Pieces PROVE Holders(i)' = Holders(i)
  <1>1. \A q \in Peers : Engaged(q, i)' <=> Engaged(q, i)
    BY DEF Still, Engaged
  <1>2. Verifying(i)' <=> Verifying(i)
    BY DEF Still, Verifying
  <1>3. Stored(i)' <=> Stored(i)
    BY <1>2 DEF Still, Stored
  <1> QED
    BY <1>1, <1>3, HoldersSame

(* Six steps of a worker do more.                                          *)
LEMMA StillOrNot ==
  ASSUME LeaseInv, QuietBudget, [Next]_vars
  PROVE  \/ Still
         \/ \E p \in Peers :
              \/ Complete(p) \/ Verify(p) \/ Notify(p) \/ Reject(p) \/ Leave(p)
              \/ Start(p) \/ (HandlePieceRequest(p) /\ ~Light)
  <1> USE DEF LeaseInv, LeaseParts, KeptInv, SafeInv, BaseInv, TypeOK
  <1>1. CASE Light
    BY <1>1 DEF Light, Still
  <1>2. ASSUME NEW p \in Peers, Write(p) \/ Check(p) \/ Fill(p) PROVE Still
    BY <1>2 DEF Write, Check, Fill, Goto, Continue, Still, storageVars, queueVars
  <1>3. ASSUME NEW p \in Peers, NEW i \in Pieces, NEW b \in Blocks, NEW good \in BOOLEAN,
               Receive(p, i, b, good)
        PROVE  Still
    BY <1>3 DEF Receive, Goto, Continue, Still, storageVars, queueVars
  <1>4. CASE HandlePieceComplete \/ HandlePieceFailed
    BY <1>4 DEF HandlePieceComplete, HandlePieceFailed, Still, storageVars, queueVars
  <1> QED
    BY <1>1, <1>2, <1>3, <1>4, LightOrNot

\* The lease of piece i goes from one holder to another, the others stay.
Moves(i, before, after) ==
  /\ Holders(i) = before /\ Holders(i)' = after
  /\ \A k \in Pieces : k # i => Holders(k)' = Holders(k)

(* The three ways a lease changes are the actions of PieceLease.           *)
LEMMA MovesAreLeaseSteps ==
  ASSUME NEW p \in Peers, NEW i \in Pieces,
         \/ Moves(i, {}, {p})
         \/ Moves(i, {p}, {"bitfield"})
         \/ Moves(i, {p}, {})
  PROVE  Lease!Next
  <1>1. ASSUME NEW before, NEW after, Moves(i, before, after)
        PROVE  /\ [k \in Pieces |-> Holders(k)][i] = before
               /\ [k \in Pieces |-> Holders(k)]'
                    = [[k \in Pieces |-> Holders(k)] EXCEPT ![i] = after]
    BY <1>1 DEF Moves
  <1>2. Lease!Assign(p, i) \/ Lease!Store(p, i) \/ Lease!GiveBack(p, i)
    BY <1>1 DEF Lease!Assign, Lease!Store, Lease!GiveBack
  <1> QED
    BY <1>2 DEF Lease!Next

(* WritePiece makes the piece neither stored nor anybody else's.           *)
LEMMA CompleteIsStutter ==
  ASSUME LeaseInv, QuietBudget, NEW p \in Peers, Complete(p), NEW k \in Pieces
  PROVE  Holders(k)' = Holders(k)
  <1> USE DEF LeaseInv, LeaseParts, KeptInv, SafeInv, BaseInv, TypeOK
  <1>i. PICK i \in Pieces : i = job[p].piece
    BY DEF Complete, WorkerInv
  <1>0. /\ pc[p] = "complete" /\ i \notin bits /\ mgr[i] # None
    BY <1>i, DownloadAssumption DEF Complete, PathInv, HeldInv, Collecting, WorkerInv
  <1>1. /\ pc' = [pc EXCEPT ![p] = "verify"] /\ bits' = bits \cup {i}
        /\ disk' = [disk EXCEPT ![i] = Content(mgr[i])]
        /\ UNCHANGED <<job, cur>>
    BY <1>i, <1>0, QuietEvents DEF Complete, Goto, queueVars
  <1>2. \A q \in Peers : Engaged(q, k)' <=> Engaged(q, k)
    BY <1>0, <1>1 DEF Engaged
  <1>3. Stored(k)' <=> Stored(k)
    <2>1. CASE k = i
      BY <1>i, <1>0, <1>1, <2>1 DEF Stored, Verifying
    <2>2. CASE k # i
      <3>1. Verifying(k)' <=> Verifying(k)
        BY <1>i, <1>0, <1>1, <2>2 DEF Verifying
      <3> QED
        BY <1>1, <2>2, <3>1 DEF Stored
    <2> QED
      BY <2>1, <2>2
  <1> QED
    BY <1>2, <1>3, HoldersSame

(* A good hash stores the piece of the one peer that has it.               *)
LEMMA VerifyStores ==
  ASSUME LeaseInv, QuietBudget, NEW p \in Peers, Verify(p)
  PROVE  \/ \A k \in Pieces : Holders(k)' = Holders(k)
         \/ \E i \in Pieces : Moves(i, {p}, {"bitfield"})
  <1> USE DEF LeaseInv, LeaseParts, KeptInv, SafeInv, BaseInv, TypeOK
  <1>i. PICK i \in Pieces : i = job[p].piece
    BY DEF Verify, WorkerInv
  <1>0. /\ pc[p] = "verify" /\ i \in bits /\ Engaged(p, i)
        /\ \A q \in Peers : pc[q] = "verify" => q = p
    BY <1>i, DownloadAssumption DEF Verify, PathInv, LockInv, Engaged
  <1>1. /\ UNCHANGED <<disk, job, cur>>
        /\ \/ disk[i] = "good" /\ bits' = bits /\ pc' = [pc EXCEPT ![p] = "notify"]
           \/ bits' = bits \ {i} /\ pc' = [pc EXCEPT ![p] = "reject"]
    BY <1>i, QuietEvents DEF Verify, HashMatches, BitsOnMismatch, AfterVerify, Goto, queueVars
  <1>2. \A q \in Peers, k \in Pieces : Engaged(q, k)' <=> Engaged(q, k)
    BY <1>0, <1>1 DEF Engaged
  <1>3. ~Stored(i)
    BY <1>i, <1>0 DEF Stored, Verifying
  <1>4. ASSUME NEW k \in Pieces, k # i PROVE Holders(k)' = Holders(k)
    <2>1. ~Verifying(k) /\ ~(Verifying(k)')
      BY <1>i, <1>0, <1>1, <1>4 DEF Verifying
    <2>2. Stored(k)' <=> Stored(k)
      BY <1>1, <1>4, <2>1 DEF Stored
    <2> QED
      BY <1>2, <2>2, HoldersSame
  <1>5. CASE bits' = bits \ {i}
    <2>1. ~(Stored(i)')
      BY <1>5 DEF Stored
    <2>2. Holders(i)' = Holders(i)
      BY <1>2, <1>3, <2>1, HoldersSame
    <2> QED
      BY <1>4, <2>2
  <1>6. CASE disk[i] = "good" /\ bits' = bits /\ pc' = [pc EXCEPT ![p] = "notify"]
    <2>1. Holders(i) = {p}
      BY <1>0, <1>3, HoldersOne
    <2>2. Holders(i)' = {"bitfield"}
      BY <1>0, <1>1, <1>6 DEF Holders, Verifying
    <2> QED
      BY <1>4, <2>1, <2>2 DEF Moves
  <1> QED
    BY <1>1, <1>5, <1>6

(* The piece a worker reports complete is stored already.                  *)
LEMMA NotifyIsStutter ==
  ASSUME LeaseInv, QuietBudget, NEW p \in Peers, Notify(p), NEW k \in Pieces
  PROVE  Holders(k)' = Holders(k)
  <1> USE DEF LeaseInv, LeaseParts, KeptInv, SafeInv, BaseInv, TypeOK
  <1>i. PICK i \in Pieces : i = job[p].piece
    BY DEF Notify, WorkerInv
  <1>0. /\ pc[p] = "notify" /\ cur[p] = i /\ Engaged(p, i)
    BY <1>i DEF Notify, PathInv, Engaged
  <1>1. /\ pc' = [pc EXCEPT ![p] = "finish"] /\ job' = [job EXCEPT ![p] = NoJob]
        /\ cur' = [cur EXCEPT ![p] = None] /\ UNCHANGED <<bits, disk>>
    BY DEF Notify, Goto, ClearQueue, storageVars
  <1>2. Stored(k)' <=> Stored(k)
    <2>1. Verifying(k)' <=> Verifying(k)
      BY <1>0, <1>1 DEF Verifying
    <2> QED
      BY <1>1, <2>1 DEF Stored
  <1>3. Stored(i)
    <2>1. i \in bits
      BY <1>i, <1>0, QuietEvents DEF DoneKept, Done
    <2>2. ~Verifying(i)
      <3>1. ASSUME NEW q \in Peers, pc[q] = "verify", job[q].piece = i PROVE FALSE
        <4>1. Engaged(q, i)
          BY <3>1 DEF PathInv, Engaged
        <4>2. q = p
          BY <1>0, <4>1 DEF ClaimInv
        <4> QED
          BY <1>0, <3>1, <4>2
      <3> QED
        BY <3>1 DEF Verifying
    <2> QED
      BY <2>1, <2>2, QuietEvents DEF HeldIsVerified, Stored
  <1>4. k # i => \A q \in Peers : Engaged(q, k)' <=> Engaged(q, k)
    BY <1>0, <1>1, DownloadAssumption DEF Engaged
  <1> QED
    BY <1>2, <1>3, <1>4, HoldersSame

(* Counting a failure, and leaving, give the current piece back.           *)
LEMMA GivingBack ==
  ASSUME LeaseInv, NEW p \in Peers, Reject(p) \/ Leave(p)
  PROVE  \/ \A k \in Pieces : Holders(k)' = Holders(k)
         \/ \E i \in Pieces : Moves(i, {p}, {})
  <1> USE DEF LeaseInv, LeaseParts, KeptInv, SafeInv, BaseInv, TypeOK
  <1>1. /\ pc[p] \in {"reject", "leave"} /\ pc'[p] \in {"leave", "request", "loop", "off"}
        /\ cur' = [cur EXCEPT ![p] = None] /\ UNCHANGED <<bits, disk>>
        /\ \A q \in Peers : q # p => pc'[q] = pc[q] /\ job'[q] = job[q]
    BY DEF Reject, Leave, Goto, Continue, ClearQueue, storageVars
  <1>2. ASSUME NEW k \in Pieces PROVE Stored(k)' <=> Stored(k)
    <2>1. Verifying(k)' <=> Verifying(k)
      BY <1>1 DEF Verifying
    <2> QED
      BY <1>1, <2>1 DEF Stored
  <1>3. ASSUME NEW k \in Pieces, k # cur[p] PROVE Holders(k)' = Holders(k)
    <2>1. \A q \in Peers : Engaged(q, k)' <=> Engaged(q, k)
      BY <1>1, <1>3, DownloadAssumption DEF Engaged
    <2> QED
      BY <1>2, <2>1, HoldersSame
  <1>4. CASE cur[p] = None
    BY <1>3, <1>4, DownloadAssumption
  <1>5. CASE cur[p] # None
    <2>i. PICK i \in Pieces : i = cur[p]
      BY <1>5
    <2>1. i \notin bits
      <3>1. CASE pc[p] = "reject"
        BY <2>i, <3>1 DEF HeldInv, PathInv
      <3>2. CASE pc[p] = "leave"
        BY <1>5, <2>i, <3>2 DEF HeldInv, Collecting
      <3> QED
        BY <1>1, <3>1, <3>2
    <2>2. Engaged(p, i) /\ ~Stored(i)
      BY <2>i, <2>1 DEF Engaged, Stored
    <2>3. Holders(i) = {p}
      BY <2>2, HoldersOne
    <2>4. \A q \in Peers : ~(Engaged(q, i)')
      <3>1. \A q \in Peers : Engaged(q, i) => q = p
        BY <2>2 DEF ClaimInv
      <3>2. \A q \in Peers : Engaged(q, i)' => Engaged(q, i) /\ q # p
        BY <1>1, <2>i, DownloadAssumption DEF Engaged
      <3> QED
        BY <3>1, <3>2
    <2>5. Holders(i)' = {}
      BY <1>1, <2>1, <2>4 DEF Holders
    <2> QED
      BY <1>3, <2>i, <2>3, <2>5 DEF Moves
  <1> QED
    BY <1>4, <1>5

(* The worker starts with the piece it has been given.                     *)
LEMMA StartIsStutter ==
  ASSUME LeaseInv, NEW p \in Peers, Start(p), NEW k \in Pieces
  PROVE  Holders(k)' = Holders(k)
  <1> USE DEF LeaseInv, LeaseParts, KeptInv, SafeInv, BaseInv, TypeOK
  <1>i. PICK i \in Pieces : i = job[p].piece
    BY DEF Start, WorkerInv
  <1>0. pc[p] = "start" /\ cur[p] = None /\ i \notin bits
    BY <1>i DEF Start, PathInv, HeldInv
  <1>1. /\ pc' = [pc EXCEPT ![p] = "fill"] /\ cur' = [cur EXCEPT ![p] = i]
        /\ UNCHANGED <<bits, disk, job>>
    BY <1>i, <1>0 DEF Start, HasPiece, Goto, storageVars
  <1>2. \A q \in Peers : Engaged(q, k)' <=> Engaged(q, k)
    BY <1>i, <1>0, <1>1, DownloadAssumption DEF Engaged
  <1>3. Verifying(k)' <=> Verifying(k)
    BY <1>0, <1>1 DEF Verifying
  <1>4. Stored(k)' <=> Stored(k)
    BY <1>1, <1>3 DEF Stored
  <1> QED
    BY <1>2, <1>4, HoldersSame

(* The coordinator leases a piece nobody has.                              *)
LEMMA RequestLeases ==
  ASSUME LeaseInv, QuietBudget, NEW p \in Peers, HandlePieceRequest(p), ~endgame', ~Light
  PROVE  \E i \in Pieces : Moves(i, {}, {p})
  <1> USE DEF LeaseInv, LeaseParts, KeptInv, SafeInv, BaseInv, TypeOK
  <1>i. PICK i \in Pieces :
          /\ i \notin bits /\ \A q \in Peers : ~Engaged(q, i)
          /\ pc' = [pc EXCEPT ![p] = "start"] /\ job' = [job EXCEPT ![p] = PieceJob(i)]
    BY HandlePieceRequestKeepsLease
  <1>1. pc[p] = "request" /\ UNCHANGED <<bits, disk, cur>>
    BY DEF HandlePieceRequest, storageVars, queueVars
  <1>a. cur[p] = None /\ PieceJob(i).piece = i
    BY <1>1 DEF PathInv, PieceJob
  <1>2. Holders(i) = {}
    BY <1>i DEF Holders
  <1>3. \A q \in Peers : Engaged(q, i)' <=> q = p
    BY <1>i, <1>1, <1>a DEF Engaged
  <1>4. Holders(i)' = {p}
    BY <1>i, <1>1, <1>3 DEF Holders
  <1>5. ASSUME NEW k \in Pieces, k # i PROVE Holders(k)' = Holders(k)
    <2>1. \A q \in Peers : Engaged(q, k)' <=> Engaged(q, k)
      BY <1>i, <1>1, <1>a, <1>5 DEF Engaged
    <2>2. Verifying(k)' <=> Verifying(k)
      BY <1>i, <1>1 DEF Verifying
    <2>3. Stored(k)' <=> Stored(k)
      BY <1>1, <2>2 DEF Stored
    <2> QED
      BY <2>1, <2>3, HoldersSame
  <1> QED
    BY <1>2, <1>4, <1>5 DEF Moves

(* The refinement: outside endgame, and without timers, refused blocks and *)
(* disk faults, the coordinator, the workers and the manager together are  *)
(* a lease.  A piece is given to one peer at a time, whatever disconnects, *)
(* corrupts or is answered late; only that peer stores it, and what is     *)
(* stored stays.                                                           *)
THEOREM LeaseImplemented ==
  ASSUME QuietBudget
  PROVE  Spec /\ []~endgame => ImplementsLease
  <1>1. ASSUME Init PROVE Lease!Init
    <2>1. ASSUME NEW i \in Pieces PROVE Holders(i) \in {{}, {"bitfield"}}
      BY <1>1, DownloadAssumption DEF Init, Holders, Verifying, Engaged
    <2> QED
      BY <2>1 DEF Lease!Init
  <1>2. ASSUME LeaseInv, [Next]_vars, ~endgame'
        PROVE  Lease!Next \/ UNCHANGED [i \in Pieces |-> Holders(i)]
    <2>1. CASE \A k \in Pieces : Holders(k)' = Holders(k)
      BY <2>1
    <2>2. ASSUME NEW p \in Peers, Verify(p) \/ Reject(p) \/ Leave(p)
          PROVE  Lease!Next \/ \A k \in Pieces : Holders(k)' = Holders(k)
      BY <1>2, <2>2, VerifyStores, GivingBack, MovesAreLeaseSteps
    <2>3. ASSUME NEW p \in Peers, HandlePieceRequest(p), ~Light PROVE Lease!Next
      BY <1>2, <2>3, RequestLeases, MovesAreLeaseSteps
    <2> QED
      BY <1>2, <2>1, <2>2, <2>3, StillOrNot, StillHolders, CompleteIsStutter,
         NotifyIsStutter, StartIsStutter
  <1> QED
    BY <1>1, <1>2, LeaseInvHolds, PTL DEF Spec, ImplementsLease, Lease!Spec
=============================================================================
