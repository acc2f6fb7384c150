--------------------------- MODULE DownloadProofs ---------------------------
(***************************************************************************)
(* The safety of Download, for every set of peers, pieces and blocks, every *)
(* pipeline, channel capacity and ban limit, and every budget of events.   *)
(*                                                                         *)
(* BaseInv is under every proof about Download: the types, what a worker   *)
(* carries while it is inside a handler (WorkerInv), and who holds         *)
(* Manager.mu (LockInv).  SafeInv is inductive as well: the two properties *)
(* of the bitfield need each other, LockInv for the verification window,   *)
(* and BudgetInv to remember that the disk has not failed.                 *)
(***************************************************************************)
EXTENDS Download, TLAPS

USE DEF sessionVars

(* What the local variables of serveDownloadPeer hold at each of its steps. *)
WorkerInv ==
  \A p \in Peers :
    /\ pc[p] = "write" => job[p].block \in Blocks
    /\ pc[p] \in {"write", "check"} => job[p].pd \in PdIds
    /\ pc[p] \in {"write", "check", "fill", "complete", "verify", "notify",
                  "reject", "start", "startfail"} => job[p].piece \in Pieces
    /\ pc[p] \in {"abandon", "timeout", "drop", "fill"} => cur[p] \in Pieces
    /\ cur[p] # None => qpd[p] \in PdIds
    /\ cur[p] = None => \A b \in Blocks : qout[p][b] = 0

(* The worker inside the verification half of Manager.CompletePiece, and   *)
(* only that one, holds Manager.mu; its piece has its bit set and is still *)
(* in Manager.pieces.                                                      *)
LockInv ==
  \A p \in Peers :
    /\ pc[p] = "verify" <=> mgrLock = p
    /\ pc[p] = "verify" => /\ job[p].piece \in bits
                           /\ mgr[job[p].piece] \in PdIds

BaseInv == TypeOK /\ WorkerInv /\ LockInv

(* A function with one value replaced keeps its type.                      *)
LEMMA ExceptType ==
  ASSUME NEW S, NEW T, NEW f \in [S -> T], NEW x \in S, NEW y \in T
  PROVE  [f EXCEPT ![x] = y] \in [S -> T]
  OBVIOUS

(* The same one level down.                                                *)
LEMMA ExceptType2 ==
  ASSUME NEW S, NEW T, NEW U, NEW f \in [S -> [T -> U]],
         NEW x \in S, NEW y \in T, NEW z \in U
  PROVE  /\ [f EXCEPT ![x][y] = z] \in [S -> [T -> U]]
         /\ [f EXCEPT ![x][y] = z][x][y] = z
         /\ \A w \in S : w # x => [f EXCEPT ![x][y] = z][w] = f[w]
  OBVIOUS

(* BaseInv holds when Session.Start has returned.                          *)
LEMMA BaseInvInit == Init => BaseInv
  <1> SUFFICES ASSUME Init PROVE BaseInv
    OBVIOUS
  <1> USE DownloadAssumption DEF Init
  <1>0. NoJob \in Jobs
    BY DEF NoJob, Jobs, PieceJob
  <1>a. /\ NewBlocks \in [Blocks -> BlockState]
        /\ EmptyQueue \in [Blocks -> Nat]
        /\ NoRequests \in [Pieces \X Blocks -> Nat]
    BY DEF NewBlocks, BlockState, EmptyQueue, NoRequests
  <1>1. TypeOK
    <2>1. /\ bits \subseteq Pieces
          /\ disk \in [Pieces -> {"good", "bad"}]
          /\ mgr \in [Pieces -> PdIds \cup {None}]
      OBVIOUS
    <2>2. pd \in [PdIds -> [Blocks -> BlockState]]
      BY <1>a
    <2>3. /\ pstate \in [Pieces -> PieceState] /\ pc \in [Peers -> PC]
          /\ completedCh \in Seq(Pieces) /\ failedCh \in Seq(Pieces)
      BY DEF PieceState, PC
    <2>4. job \in [Peers -> Jobs]
      BY <1>0
    <2>5. qout \in [Peers -> [Blocks -> Nat]]
      BY <1>a
    <2>6. wire \in [Peers -> [Pieces \X Blocks -> Nat]]
      BY <1>a
    <2>7. /\ cur \in [Peers -> Pieces \cup {None}]
          /\ qpd \in [Peers -> PdIds \cup {None}]
          /\ strikes \in [Peers -> Nat]
          /\ unchoked \in [Peers -> BOOLEAN]
          /\ remoteBits \in [Peers -> SUBSET Pieces]
      OBVIOUS
    <2>8. /\ left \in [EventKinds -> Nat]
          /\ endgame \in BOOLEAN
          /\ mgrLock \in Peers \cup {None}
          /\ state \in {"Downloading", "Seeding", "Paused"}
      OBVIOUS
    <2> QED
      BY <2>1, <2>2, <2>3, <2>4, <2>5, <2>6, <2>7, <2>8 DEF TypeOK
  <1>2. WorkerInv
    BY DEF WorkerInv, EmptyQueue
  <1>3. LockInv
    BY DEF LockInv
  <1> QED
    BY <1>1, <1>2, <1>3 DEF BaseInv

(* The job of an idle worker, and the blocks of a new object.              *)
LEMMA NoJobType == NoJob \in Jobs /\ NewBlocks \in [Blocks -> BlockState]
  BY DEF NoJob, PieceJob, Jobs, NewBlocks, BlockState

(* buildBlocks makes a well-formed object.                                 *)
LEMMA NewBlocksType == NewBlocks \in [Blocks -> BlockState]
  BY NoJobType

(* A bounded environment event leaves the budgets well formed.             *)
LEMMA SpendType ==
  ASSUME left \in [EventKinds -> Nat], NEW kind \in EventKinds, Spend(kind)
  PROVE  left' \in [EventKinds -> Nat]
  BY ExceptType DEF Spend

(* What a receive takes from a channel of pieces, and what it leaves.      *)
LEMMA HeadTail ==
  ASSUME NEW s \in Seq(Pieces), s # <<>>
  PROVE  Head(s) \in Pieces /\ Tail(s) \in Seq(Pieces)
  OBVIOUS

(* A send on pieceFailed leaves a channel of pieces.                       *)
LEMMA SendFailedType ==
  ASSUME failedCh \in Seq(Pieces), NEW i \in Pieces, Send(failedCh, i)
  PROVE  failedCh' \in Seq(Pieces)
  BY DEF Send

(* A send on pieceCompleted leaves a channel of pieces.                    *)
LEMMA SendCompletedType ==
  ASSUME completedCh \in Seq(Pieces), NEW i \in Pieces, Send(completedCh, i)
  PROVE  completedCh' \in Seq(Pieces)
  BY DEF Send

(* Dropping the current piece leaves well-formed peer states.              *)
LEMMA ClearQueueType ==
  ASSUME TypeOK, NEW p \in Peers, ClearQueue(p)
  PROVE  /\ cur' \in [Peers -> Pieces \cup {None}]
         /\ qpd' \in [Peers -> PdIds \cup {None}]
         /\ qout' \in [Peers -> [Blocks -> Nat]]
  BY DEF TypeOK, ClearQueue, EmptyQueue

(* A new connection resets only what the remote peer said.                 *)
LEMMA ConnectKeepsBase ==
  ASSUME BaseInv, NEW p \in Peers, Connect(p) PROVE BaseInv'
  <1> USE DownloadAssumption DEF BaseInv, Connect, storageVars, managerVars,
          coordVars, queueVars, envVars, Goto
  <1>1. TypeOK'
    BY DEF TypeOK, PC
  <1>2. WorkerInv'
    BY DEF TypeOK, WorkerInv
  <1>3. LockInv'
    BY DEF TypeOK, LockInv
  <1> QED
    BY <1>1, <1>2, <1>3

(* An Unchoke moves the worker to a piece request at most.                 *)
LEMMA UnchokeKeepsBase ==
  ASSUME BaseInv, NEW p \in Peers, Unchoke(p) PROVE BaseInv'
  <1> USE DownloadAssumption DEF BaseInv, Unchoke, storageVars, managerVars,
          coordVars, queueVars, envVars, Goto, IsIdle
  <1>1. TypeOK'
    BY DEF TypeOK, PC
  <1>2. WorkerInv'
    BY DEF TypeOK, WorkerInv
  <1>3. LockInv'
    BY DEF TypeOK, LockInv
  <1> QED
    BY <1>1, <1>2, <1>3

(* A Choke changes one flag of the worker.                                 *)
LEMMA ChokeKeepsBase ==
  ASSUME BaseInv, NEW p \in Peers, Choke(p) PROVE BaseInv'
  <1> USE DownloadAssumption DEF BaseInv, Choke, storageVars, managerVars,
          coordVars, queueVars
  <1>1. TypeOK'
    <2>1. left' \in [EventKinds -> Nat]
      BY SpendType DEF TypeOK, EventKinds
    <2> QED
      BY <2>1 DEF TypeOK, WorkerInv, PC
  <1>2. WorkerInv'
    BY DEF TypeOK, WorkerInv
  <1>3. LockInv'
    BY DEF TypeOK, LockInv
  <1> QED
    BY <1>1, <1>2, <1>3

(* A Bitfield message replaces what the peer has.                          *)
LEMMA BitfieldKeepsBase ==
  ASSUME BaseInv, NEW p \in Peers, Bitfield(p) PROVE BaseInv'
  <1> USE DownloadAssumption DEF BaseInv, Bitfield, storageVars, managerVars,
          coordVars, queueVars, envVars, Goto, Continue, IsIdle, Announce
  <1>1. TypeOK'
    BY DEF TypeOK, PC
  <1>2. WorkerInv'
    BY DEF TypeOK, WorkerInv
  <1>3. LockInv'
    BY DEF TypeOK, LockInv
  <1> QED
    BY <1>1, <1>2, <1>3

(* A Have message adds to what the peer has.                               *)
LEMMA HaveKeepsBase ==
  ASSUME BaseInv, NEW p \in Peers, NEW i \in Pieces, Have(p, i)
  PROVE  BaseInv'
  <1> USE DownloadAssumption DEF Have, Announce, BaseInv, storageVars,
          managerVars, coordVars, queueVars, envVars, Goto, Continue, IsIdle
  <1>1. TypeOK'
    BY DEF TypeOK, PC
  <1>2. WorkerInv'
    BY DEF TypeOK, WorkerInv
  <1>3. LockInv'
    BY DEF TypeOK, LockInv
  <1> QED
    BY <1>1, <1>2, <1>3

(* The ticker moves an idle worker to a piece request.                     *)
LEMMA IdleRetryKeepsBase ==
  ASSUME BaseInv, NEW p \in Peers, IdleRetry(p) PROVE BaseInv'
  <1> USE DownloadAssumption DEF BaseInv, IdleRetry, storageVars,
          managerVars, coordVars, queueVars, peerVars, envVars, Goto, IsIdle
  <1>1. TypeOK'
    BY DEF TypeOK, PC
  <1>2. WorkerInv'
    BY DEF TypeOK, WorkerInv
  <1>3. LockInv'
    BY DEF TypeOK, LockInv
  <1> QED
    BY <1>1, <1>2, <1>3

(* A timed-out request belongs to a current piece, which the next          *)
(* steps of the worker fail and drop.                                      *)
LEMMA TimeoutKeepsBase ==
  ASSUME BaseInv, NEW p \in Peers, Timeout(p) PROVE BaseInv'
  <1> USE DownloadAssumption DEF BaseInv, Timeout, storageVars, managerVars,
          coordVars, queueVars, peerVars, Goto
  <1>1. TypeOK'
    <2>1. left' \in [EventKinds -> Nat]
      BY SpendType DEF TypeOK, EventKinds
    <2> QED
      BY <2>1 DEF TypeOK, WorkerInv, PC
  <1>2. WorkerInv'
    BY DEF TypeOK, WorkerInv
  <1>3. LockInv'
    BY DEF TypeOK, LockInv
  <1> QED
    BY <1>1, <1>2, <1>3

(* A Cancel takes a request off the queue of a peer with a piece.          *)
LEMMA CancelKeepsBase ==
  ASSUME BaseInv, NEW p \in Peers, NEW b \in Blocks, Cancel(p, b)
  PROVE  BaseInv'
  <1> USE DownloadAssumption DEF BaseInv, Cancel, storageVars, managerVars,
          coordVars, peerVars, IsIdle
  <1>1. TypeOK'
    <2>1. left' \in [EventKinds -> Nat]
      BY SpendType DEF TypeOK, EventKinds
    <2>2. qout' \in [Peers -> [Blocks -> Nat]]
      <3>1. qout \in [Peers -> [Blocks -> Nat]] /\ qout[p][b] - 1 \in Nat
        BY DEF TypeOK
      <3> QED
        BY <3>1, ExceptType2
    <2> QED
      BY <2>1, <2>2 DEF TypeOK
  <1>2. WorkerInv'
    BY DEF TypeOK, WorkerInv
  <1>3. LockInv'
    BY DEF TypeOK, LockInv
  <1> QED
    BY <1>1, <1>2, <1>3

(* A read error moves the worker to its deferred function.                 *)
LEMMA DisconnectKeepsBase ==
  ASSUME BaseInv, NEW p \in Peers, Disconnect(p) PROVE BaseInv'
  <1> USE DownloadAssumption DEF BaseInv, Disconnect, storageVars,
          managerVars, coordVars, queueVars, peerVars, Goto
  <1>1. TypeOK'
    <2>1. left' \in [EventKinds -> Nat]
      BY SpendType DEF TypeOK, EventKinds
    <2> QED
      BY <2>1 DEF TypeOK, WorkerInv, PC
  <1>2. WorkerInv'
    BY DEF TypeOK, WorkerInv
  <1>3. LockInv'
    BY DEF TypeOK, LockInv
  <1> QED
    BY <1>1, <1>2, <1>3

(* An answer takes one of the requests the peer may still answer.         *)
LEMMA AnswerType ==
  ASSUME wire \in [Peers -> [Pieces \X Blocks -> Nat]],
         NEW p \in Peers, NEW i \in Pieces, NEW b \in Blocks,
         wire[p][<<i, b>>] > 0, wire' = [wire EXCEPT ![p][<<i, b>>] = @ - 1]
  PROVE  wire' \in [Peers -> [Pieces \X Blocks -> Nat]]
  <1>1. PICK r \in Pieces \X Blocks : r = <<i, b>>
    OBVIOUS
  <1>2. wire[p][r] - 1 \in Nat
    <2>1. wire[p][r] \in Nat
      OBVIOUS
    <2> QED
      BY <1>1, <2>1
  <1>3. wire' = [wire EXCEPT ![p][r] = wire[p][r] - 1]
    BY <1>1
  <1>4. [wire EXCEPT ![p][r] = wire[p][r] - 1]
          \in [Peers -> [Pieces \X Blocks -> Nat]]
    BY <1>2, ExceptType2
  <1> QED
    BY <1>3, <1>4

(* The object handleReceivedBlock carries on with is the one it            *)
(* looked up, and a worker that abandons a piece has one.                  *)
LEMMA ReceiveKeepsBase ==
  ASSUME BaseInv, NEW p \in Peers, NEW i \in Pieces, NEW b \in Blocks, NEW
         good \in BOOLEAN, Receive(p, i, b, good)
  PROVE  BaseInv'
  <1> USE DownloadAssumption DEF BaseInv, storageVars, managerVars,
          coordVars, queueVars, peerVars, Goto, Continue, IsIdle
  <1>1. left' \in [EventKinds -> Nat]
    BY SpendType DEF TypeOK, Receive, EventKinds
  <1>2. wire' \in [Peers -> [Pieces \X Blocks -> Nat]]
    BY AnswerType DEF TypeOK, Receive
  <1>3. CASE mgr[i] # None
    <2> DEFINE j == [piece |-> i, block |-> b, pd |-> mgr[i], good |-> good]
    <2>1. job' = [job EXCEPT ![p] = j] /\ pc' = [pc EXCEPT ![p] = "write"]
      BY <1>3 DEF Receive
    <2>2. j \in Jobs /\ j.piece = i /\ j.block = b /\ j.pd \in PdIds
      BY <1>3 DEF TypeOK, Jobs
    <2> HIDE DEF j
    <2>3. TypeOK'
      BY <1>1, <1>2, <2>1, <2>2 DEF TypeOK, Receive, PC
    <2>4. WorkerInv'
      BY <2>1, <2>2 DEF WorkerInv, TypeOK, Receive
    <2>5. LockInv'
      BY <2>1 DEF LockInv, TypeOK, Receive
    <2> QED
      BY <2>3, <2>4, <2>5
  <1>4. CASE mgr[i] = None
    <2>1. PICK l \in {"loop", "request", "abandon"} :
            /\ pc' = [pc EXCEPT ![p] = l] /\ job' = job
            /\ l = "abandon" => cur[p] # None
      BY <1>4 DEF Receive
    <2>2. TypeOK'
      BY <1>1, <1>2, <2>1 DEF TypeOK, Receive, PC
    <2>3. WorkerInv'
      BY <2>1 DEF WorkerInv, TypeOK, Receive
    <2>4. LockInv'
      BY <2>1 DEF LockInv, TypeOK, Receive
    <2> QED
      BY <2>2, <2>3, <2>4
  <1> QED
    BY <1>3, <1>4

(* A refused block leaves the shared structures alone.                     *)
LEMMA MalformedKeepsBase ==
  ASSUME BaseInv, NEW p \in Peers, NEW i \in Pieces, NEW b \in Blocks,
         Malformed(p, i, b)
  PROVE  BaseInv'
  <1> USE DownloadAssumption DEF BaseInv, storageVars, managerVars,
          coordVars, queueVars, peerVars, Goto, Continue, IsIdle
  <1>1. left' \in [EventKinds -> Nat]
    BY SpendType DEF TypeOK, Malformed, EventKinds
  <1>2. wire' \in [Peers -> [Pieces \X Blocks -> Nat]]
    BY AnswerType DEF TypeOK, Malformed
  <1>3. PICK l \in {"loop", "request", "abandon"} :
          /\ pc' = [pc EXCEPT ![p] = l]
          /\ l = "abandon" => cur[p] # None
    BY DEF Malformed
  <1>4. TypeOK'
    BY <1>1, <1>2, <1>3 DEF TypeOK, Malformed, PC
  <1>5. WorkerInv'
    BY <1>3 DEF WorkerInv, TypeOK, Malformed
  <1>6. LockInv'
    BY <1>3 DEF LockInv, TypeOK, Malformed
  <1> QED
    BY <1>4, <1>5, <1>6

(* Writing a block and crossing it off the queue.                          *)
LEMMA WriteKeepsBase ==
  ASSUME BaseInv, NEW p \in Peers, Write(p) PROVE BaseInv'
  <1> USE DownloadAssumption DEF Write, BaseInv, storageVars, coordVars,
          peerVars, envVars, Goto
  <1>1. TypeOK'
    <2>1. job[p].pd \in PdIds /\ job[p].block \in Blocks
      BY DEF WorkerInv
    <2>2. pd' \in [PdIds -> [Blocks -> BlockState]]
      <3>1. CASE pd[job[p].pd][job[p].block] \in {"good", "bad"}
        BY <3>1 DEF TypeOK
      <3>2. CASE pd[job[p].pd][job[p].block] \notin {"good", "bad"}
        <4> DEFINE z == IF job[p].good THEN "good" ELSE "bad"
        <4>1. pd' = [pd EXCEPT ![job[p].pd][job[p].block] = z]
          BY <3>2
        <4>2. z \in BlockState
          BY DEF BlockState
        <4> HIDE DEF z
        <4> QED
          BY <2>1, <4>1, <4>2, ExceptType2 DEF TypeOK
      <3> QED
        BY <3>1, <3>2
    <2>3. qout' \in [Peers -> [Blocks -> Nat]]
      BY <2>1, ExceptType2 DEF TypeOK
    <2>4. pc' \in [Peers -> PC]
      BY DEF TypeOK, PC
    <2> QED
      BY <2>2, <2>3, <2>4 DEF TypeOK
  <1>2. WorkerInv'
    BY DEF TypeOK, WorkerInv
  <1>3. LockInv'
    BY DEF TypeOK, LockInv
  <1> QED
    BY <1>1, <1>2, <1>3

(* A worker that refills its pipeline has a queue; one that completes      *)
(* keeps the piece.                                                        *)
LEMMA CheckKeepsBase ==
  ASSUME BaseInv, NEW p \in Peers, Check(p) PROVE BaseInv'
  <1> USE DownloadAssumption DEF BaseInv, storageVars, managerVars,
          queueVars, coordVars, peerVars, envVars, Goto
  <1> DEFINE here == PieceJob(job[p].piece)
  <1>0. job[p].piece \in Pieces /\ here \in Jobs /\ here.piece = job[p].piece
    BY DEF WorkerInv, Check, Jobs, PieceJob
  <1>1. PICK l \in {"loop", "request", "complete", "fill"}, j \in {NoJob, here} :
          /\ pc' = [pc EXCEPT ![p] = l] /\ job' = [job EXCEPT ![p] = j]
          /\ l \in {"complete", "fill"} => j = here
          /\ l = "fill" => cur[p] # None
    BY DEF Check, Continue, IsIdle
  <1>a. l \in PC /\ j \in Jobs
    BY <1>0, NoJobType DEF PC
  <1>2. TypeOK'
    BY <1>1, <1>a DEF TypeOK, Check
  <1>3. WorkerInv'
    BY <1>0, <1>1, <1>a DEF WorkerInv, Check, TypeOK
  <1>4. LockInv'
    BY <1>1 DEF LockInv, Check, TypeOK
  <1> QED
    BY <1>2, <1>3, <1>4

(* A request goes out for a block of the worker's own queue.               *)
LEMMA FillKeepsBase ==
  ASSUME BaseInv, NEW p \in Peers, Fill(p) PROVE BaseInv'
  <1> USE DownloadAssumption DEF BaseInv, storageVars, coordVars, peerVars,
          envVars, Goto
  <1>0. /\ pc[p] = "fill"
        /\ job[p].piece \in Pieces /\ cur[p] \in Pieces /\ qpd[p] \in PdIds
    BY DEF WorkerInv, Fill
  <1>1. CASE pc' = pc /\ job' = job
    <2>1. PICK b \in Blocks :
            /\ pd' = [pd EXCEPT ![qpd[p]][b] = "requested"]
            /\ qout' = [qout EXCEPT ![p][b] = @ + 1]
            /\ wire' = [wire EXCEPT ![p][<<job[p].piece, b>>] =
                              IF @ < MaxCopies THEN @ + 1 ELSE @]
      BY <1>1, <1>0 DEF Fill, TypeOK
    <2>2. pd' \in [PdIds -> [Blocks -> BlockState]]
      BY <1>0, <2>1, ExceptType2 DEF TypeOK, BlockState
    <2>3. /\ qout' \in [Peers -> [Blocks -> Nat]]
          /\ \A q \in Peers : q # p => qout'[q] = qout[q]
      BY <2>1, ExceptType2 DEF TypeOK
    <2>4. wire' \in [Peers -> [Pieces \X Blocks -> Nat]]
      <3> DEFINE r == <<job[p].piece, b>>
                 n == IF wire[p][r] < MaxCopies THEN wire[p][r] + 1
                                                ELSE wire[p][r]
      <3>1. r \in Pieces \X Blocks
        BY <1>0
      <3>2. wire[p][r] \in Nat
        BY <3>1 DEF TypeOK
      <3>3. n \in Nat
        BY <3>2
      <3>4. wire' = [wire EXCEPT ![p][r] = n]
        BY <2>1
      <3> HIDE DEF r, n
      <3>5. wire \in [Peers -> [Pieces \X Blocks -> Nat]]
        BY DEF TypeOK
      <3> QED
        BY <3>1, <3>3, <3>4, <3>5, ExceptType2
    <2>5. TypeOK'
      BY <1>1, <2>2, <2>3, <2>4 DEF TypeOK, Fill
    <2>6. WorkerInv'
      BY <1>0, <1>1, <2>3 DEF WorkerInv, Fill
    <2>7. LockInv'
      BY <1>1 DEF LockInv, Fill
    <2> QED
      BY <2>5, <2>6, <2>7
  <1>2. CASE /\ pc' = [pc EXCEPT ![p] = "loop"]
             /\ job' = [job EXCEPT ![p] = NoJob]
             /\ UNCHANGED <<pd, qout, wire>>
    <2>1. TypeOK'
      BY <1>2, NoJobType DEF TypeOK, Fill, PC
    <2>2. WorkerInv'
      BY <1>2 DEF WorkerInv, Fill, TypeOK
    <2>3. LockInv'
      BY <1>2 DEF LockInv, Fill, TypeOK
    <2> QED
      BY <2>1, <2>2, <2>3
  <1> QED
    BY <1>1, <1>2 DEF Fill

(* Setting the bit and entering the verification take the lock.            *)
LEMMA CompleteKeepsBase ==
  ASSUME BaseInv, NEW p \in Peers, Complete(p) PROVE BaseInv'
  <1> USE DownloadAssumption DEF BaseInv, storageVars, managerVars,
          queueVars, coordVars, peerVars, envVars, Goto
  <1>0. job[p].piece \in Pieces
    BY DEF WorkerInv, Complete
  <1>1. TypeOK'
    <2>1. left' \in [EventKinds -> Nat]
      BY SpendType DEF TypeOK, Complete, EventKinds
    <2>2. disk' \in [Pieces -> {"good", "bad"}]
      <3>1. \A c \in {disk[job[p].piece], "bad", Content(mgr[job[p].piece])} :
              [disk EXCEPT ![job[p].piece] = c] \in [Pieces -> {"good", "bad"}]
        BY <1>0 DEF TypeOK, Content
      <3> QED
        BY <3>1 DEF Complete, TypeOK
    <2>3. bits' \subseteq Pieces /\ mgrLock' \in Peers \cup {None}
      BY <1>0 DEF TypeOK, Complete
    <2>4. pc' \in [Peers -> PC]
      <3>1. \E c \in {"reject", "verify"} : pc' = [pc EXCEPT ![p] = c]
        BY DEF Complete
      <3> QED
        BY <3>1 DEF TypeOK, PC
    <2> QED
      BY <2>1, <2>2, <2>3, <2>4 DEF TypeOK, Complete
  <1>2. /\ pc'[p] \in {"reject", "verify"}
        /\ \A q \in Peers : q # p => pc'[q] = pc[q]
        /\ UNCHANGED <<job, cur, qpd, qout, mgr>>
        /\ bits \subseteq bits'
        /\ pc'[p] = "verify" => /\ mgrLock' = p /\ mgr[job[p].piece] # None
                                /\ job[p].piece \in bits'
        /\ pc'[p] = "reject" => mgrLock' = None
        /\ mgrLock = None
    BY DEF Complete, TypeOK
  <1>3. WorkerInv'
    BY <1>0, <1>2 DEF WorkerInv
  <1>4. LockInv'
    BY <1>0, <1>2 DEF LockInv, TypeOK
  <1> QED
    BY <1>1, <1>3, <1>4

(* The only worker in the verification leaves it and unlocks.              *)
LEMMA VerifyKeepsBase ==
  ASSUME BaseInv, NEW p \in Peers, Verify(p) PROVE BaseInv'
  <1> USE DownloadAssumption DEF BaseInv, storageVars, managerVars,
          queueVars, coordVars, peerVars, envVars, Goto, BitsOnMismatch,
          InProgressOnMismatch, LockOnReturn, AfterVerify
  <1>0. job[p].piece \in Pieces /\ mgr[job[p].piece] \in PdIds /\ mgrLock = p
    BY DEF WorkerInv, LockInv, Verify
  <1>1. TypeOK'
    <2>1. left' \in [EventKinds -> Nat]
      BY SpendType DEF TypeOK, Verify, EventKinds
    <2>2. bits' \subseteq Pieces /\ pc' \in [Peers -> PC]
      BY DEF TypeOK, Verify, PC
    <2>3. pd' \in [PdIds -> [Blocks -> BlockState]]
      BY <1>0, NewBlocksType DEF TypeOK, Verify
    <2>4. mgr' \in [Pieces -> PdIds \cup {None}]
      BY <1>0 DEF TypeOK, Verify
    <2> QED
      BY <2>1, <2>2, <2>3, <2>4 DEF TypeOK, Verify
  <1>2. /\ pc'[p] \in {"reject", "notify"}
        /\ \A q \in Peers : q # p => pc'[q] = pc[q]
        /\ UNCHANGED <<job, cur, qpd, qout>>
        /\ mgrLock' = None
    BY DEF Verify, TypeOK
  <1>3. WorkerInv'
    BY <1>0, <1>2 DEF WorkerInv
  <1>4. LockInv'
    <2>1. \A q \in Peers : pc[q] = "verify" => q = p
      BY <1>0 DEF LockInv
    <2>2. \A q \in Peers : pc'[q] # "verify"
      BY <1>2, <2>1
    <2>3. \A q \in Peers : mgrLock' # q
      BY <1>2
    <2> QED
      BY <2>2, <2>3 DEF LockInv
  <1> QED
    BY <1>1, <1>3, <1>4

(* Reporting a piece complete clears the peer's queue.                     *)
LEMMA NotifyKeepsBase ==
  ASSUME BaseInv, NEW p \in Peers, Notify(p) PROVE BaseInv'
  <1> USE DownloadAssumption DEF BaseInv, Notify, storageVars, managerVars,
          peerVars, envVars, Goto
  <1>1. TypeOK'
    <2>1. completedCh' \in Seq(Pieces)
      BY SendCompletedType DEF TypeOK, WorkerInv
    <2>2. /\ cur' \in [Peers -> Pieces \cup {None}]
          /\ qpd' \in [Peers -> PdIds \cup {None}]
          /\ qout' \in [Peers -> [Blocks -> Nat]]
      BY ClearQueueType DEF TypeOK
    <2>3. job' \in [Peers -> Jobs]
      BY NoJobType DEF TypeOK
    <2> QED
      BY <2>1, <2>2, <2>3 DEF TypeOK, WorkerInv, PC
  <1>2. WorkerInv'
    BY DEF TypeOK, WorkerInv, ClearQueue, EmptyQueue, NoJob, PieceJob
  <1>3. LockInv'
    BY DEF TypeOK, LockInv
  <1> QED
    BY <1>1, <1>2, <1>3

(* The end of completePiece changes the session's state only.              *)
LEMMA FinishKeepsBase ==
  ASSUME BaseInv, NEW p \in Peers, Finish(p) PROVE BaseInv'
  <1> USE DownloadAssumption DEF BaseInv, Finish, storageVars, managerVars,
          coordVars, queueVars, peerVars, envVars, Goto
  <1>1. TypeOK'
    BY DEF TypeOK, PC
  <1>2. WorkerInv'
    BY DEF TypeOK, WorkerInv
  <1>3. LockInv'
    BY DEF TypeOK, LockInv
  <1> QED
    BY <1>1, <1>2, <1>3

(* Reporting a failure clears the peer's queue.                            *)
LEMMA RejectKeepsBase ==
  ASSUME BaseInv, NEW p \in Peers, Reject(p) PROVE BaseInv'
  <1> USE DownloadAssumption DEF BaseInv, Reject, storageVars, managerVars,
          envVars, Goto, Continue
  <1>1. TypeOK'
    <2>1. failedCh' \in Seq(Pieces)
      BY SendFailedType DEF TypeOK, WorkerInv
    <2>2. /\ cur' \in [Peers -> Pieces \cup {None}]
          /\ qpd' \in [Peers -> PdIds \cup {None}]
          /\ qout' \in [Peers -> [Blocks -> Nat]]
      BY ClearQueueType DEF TypeOK
    <2>3. job' \in [Peers -> Jobs]
      BY NoJobType DEF TypeOK
    <2>4. strikes' \in [Peers -> Nat] /\ pc' \in [Peers -> PC]
      BY DEF TypeOK, PC
    <2> QED
      BY <2>1, <2>2, <2>3, <2>4 DEF TypeOK, WorkerInv, PC
  <1>2. WorkerInv'
    BY DEF TypeOK, WorkerInv, ClearQueue, EmptyQueue, NoJob, PieceJob
  <1>3. LockInv'
    BY DEF TypeOK, LockInv
  <1> QED
    BY <1>1, <1>2, <1>3

(* Failing the current piece clears the peer's queue.                      *)
LEMMA AbandonKeepsBase ==
  ASSUME BaseInv, NEW p \in Peers, Abandon(p) PROVE BaseInv'
  <1> USE DownloadAssumption DEF BaseInv, Abandon, storageVars, managerVars,
          peerVars, envVars, Goto, Continue
  <1>1. TypeOK'
    <2>1. failedCh' \in Seq(Pieces)
      BY SendFailedType DEF TypeOK, WorkerInv
    <2>2. /\ cur' \in [Peers -> Pieces \cup {None}]
          /\ qpd' \in [Peers -> PdIds \cup {None}]
          /\ qout' \in [Peers -> [Blocks -> Nat]]
      BY ClearQueueType DEF TypeOK
    <2> QED
      BY <2>1, <2>2 DEF TypeOK, WorkerInv, PC
  <1>2. WorkerInv'
    BY DEF TypeOK, WorkerInv, ClearQueue, EmptyQueue
  <1>3. LockInv'
    BY DEF TypeOK, LockInv
  <1> QED
    BY <1>1, <1>2, <1>3

(* Telling the coordinator of a timeout keeps the current piece.           *)
LEMMA TimeoutFailKeepsBase ==
  ASSUME BaseInv, NEW p \in Peers, TimeoutFail(p) PROVE BaseInv'
  <1> USE DownloadAssumption DEF BaseInv, TimeoutFail, storageVars,
          managerVars, queueVars, peerVars, envVars, Goto
  <1>1. TypeOK'
    <2>1. failedCh' \in Seq(Pieces)
      BY SendFailedType DEF TypeOK, WorkerInv
    <2> QED
      BY <2>1 DEF TypeOK, WorkerInv, PC
  <1>2. WorkerInv'
    BY DEF TypeOK, WorkerInv
  <1>3. LockInv'
    BY DEF TypeOK, LockInv
  <1> QED
    BY <1>1, <1>2, <1>3

(* Manager.FailPiece runs while nobody verifies, so the piece it           *)
(* clears is not the one LockInv speaks of.                                *)
LEMMA DropKeepsBase ==
  ASSUME BaseInv, NEW p \in Peers, Drop(p) PROVE BaseInv'
  <1> USE DownloadAssumption DEF BaseInv, Drop, coordVars, peerVars, envVars,
          Goto, Continue
  <1>1. TypeOK'
    <2>1. /\ cur' \in [Peers -> Pieces \cup {None}]
          /\ qpd' \in [Peers -> PdIds \cup {None}]
          /\ qout' \in [Peers -> [Blocks -> Nat]]
      BY ClearQueueType DEF TypeOK
    <2> QED
      BY <2>1 DEF TypeOK, WorkerInv, PC
  <1>2. WorkerInv'
    BY DEF TypeOK, WorkerInv, ClearQueue, EmptyQueue
  <1>3. LockInv'
    BY DEF TypeOK, LockInv
  <1> QED
    BY <1>1, <1>2, <1>3

(* The deferred function clears the peer's queue.                          *)
LEMMA LeaveKeepsBase ==
  ASSUME BaseInv, NEW p \in Peers, Leave(p) PROVE BaseInv'
  <1> USE DownloadAssumption DEF BaseInv, Leave, storageVars, managerVars,
          peerVars, Goto, HoldsPiece
  <1>1. TypeOK'
    <2>1. failedCh' \in Seq(Pieces)
      BY SendFailedType DEF TypeOK, WorkerInv
    <2>2. /\ cur' \in [Peers -> Pieces \cup {None}]
          /\ qpd' \in [Peers -> PdIds \cup {None}]
          /\ qout' \in [Peers -> [Blocks -> Nat]]
      BY ClearQueueType DEF TypeOK
    <2>3. wire' \in [Peers -> [Pieces \X Blocks -> Nat]]
      BY DEF TypeOK, NoRequests
    <2> QED
      BY <2>1, <2>2, <2>3 DEF TypeOK, WorkerInv, PC
  <1>2. WorkerInv'
    BY DEF TypeOK, WorkerInv, ClearQueue, EmptyQueue
  <1>3. LockInv'
    BY DEF TypeOK, LockInv
  <1> QED
    BY <1>1, <1>2, <1>3

(* StartPiece gives the peer a piece and a queue on its object.            *)
LEMMA StartKeepsBase ==
  ASSUME BaseInv, NEW p \in Peers, Start(p) PROVE BaseInv'
  <1> USE DownloadAssumption DEF BaseInv, storageVars, queueVars, coordVars,
          peerVars, envVars, Goto
  <1>0. job[p].piece \in Pieces
    BY DEF WorkerInv, Start
  <1>1. CASE HasPiece(job[p].piece)
    <2>1. UNCHANGED <<mgr, pd, queueVars>> /\ Goto(p, "startfail")
      BY <1>1 DEF Start
    <2>2. TypeOK'
      BY <2>1 DEF TypeOK, Start, PC
    <2>3. WorkerInv'
      BY <1>0, <2>1 DEF WorkerInv, TypeOK, Start
    <2>4. LockInv'
      BY <2>1 DEF LockInv, TypeOK, Start
    <2> QED
      BY <2>2, <2>3, <2>4
  <1>2. CASE ~HasPiece(job[p].piece)
    <2>1. PICK d \in PdIds :
            /\ \/ mgr[job[p].piece] # None /\ UNCHANGED <<mgr, pd>>
               \/ /\ mgr[job[p].piece] = None
                  /\ mgr' = [mgr EXCEPT ![job[p].piece] = d]
                  /\ pd' = [pd EXCEPT ![d] = NewBlocks]
            /\ qpd' = [qpd EXCEPT ![p] = d]
      BY <1>2 DEF Start
    <2>2. /\ cur' = [cur EXCEPT ![p] = job[p].piece]
          /\ qout' = [qout EXCEPT ![p] = EmptyQueue]
          /\ pc' = [pc EXCEPT ![p] = "fill"]
      BY <1>2 DEF Start
    <2>3. pd' \in [PdIds -> [Blocks -> BlockState]]
      <3>1. pd \in [PdIds -> [Blocks -> BlockState]]
        BY DEF TypeOK
      <3>2. \/ pd' = pd
            \/ pd' = [pd EXCEPT ![d] = NewBlocks]
        BY <2>1
      <3> QED
        BY <3>1, <3>2, NewBlocksType
    <2>9. mgr' \in [Pieces -> PdIds \cup {None}]
      <3>1. mgr \in [Pieces -> PdIds \cup {None}]
        BY DEF TypeOK
      <3>2. \/ mgr' = mgr
            \/ mgr' = [mgr EXCEPT ![job[p].piece] = d]
        BY <2>1
      <3> QED
        BY <1>0, <3>1, <3>2
    <2>4. qout' \in [Peers -> [Blocks -> Nat]]
      BY <2>2 DEF TypeOK, EmptyQueue
    <2>5. /\ cur' \in [Peers -> Pieces \cup {None}]
          /\ qpd' \in [Peers -> PdIds \cup {None}]
          /\ pc' \in [Peers -> PC]
      BY <1>0, <2>1, <2>2 DEF TypeOK, PC
    <2>6. TypeOK'
      BY <2>3, <2>9, <2>4, <2>5 DEF TypeOK, Start
    <2>7. WorkerInv'
      BY <1>0, <2>1, <2>2 DEF WorkerInv, TypeOK, Start
    <2>8. LockInv'
      BY <2>1, <2>2 DEF LockInv, TypeOK, Start
    <2> QED
      BY <2>6, <2>7, <2>8
  <1> QED
    BY <1>1, <1>2

(* A refused start is reported and forgotten.                              *)
LEMMA StartFailKeepsBase ==
  ASSUME BaseInv, NEW p \in Peers, StartFail(p) PROVE BaseInv'
  <1> USE DownloadAssumption DEF BaseInv, StartFail, storageVars,
          managerVars, queueVars, peerVars, envVars, Goto
  <1>1. TypeOK'
    <2>1. failedCh' \in Seq(Pieces)
      BY SendFailedType DEF TypeOK, WorkerInv
    <2>2. job' \in [Peers -> Jobs]
      BY NoJobType DEF TypeOK
    <2> QED
      BY <2>1, <2>2 DEF TypeOK, WorkerInv, PC
  <1>2. WorkerInv'
    BY DEF TypeOK, WorkerInv, NoJob, PieceJob
  <1>3. LockInv'
    BY DEF TypeOK, LockInv
  <1> QED
    BY <1>1, <1>2, <1>3

(* An assignment is a piece the peer has.                                  *)
LEMMA HandlePieceRequestKeepsBase ==
  ASSUME BaseInv, NEW p \in Peers, HandlePieceRequest(p) PROVE BaseInv'
  <1> USE DownloadAssumption DEF BaseInv, storageVars, managerVars,
          queueVars, coordVars, peerVars, envVars, Goto
  <1>0. endgame' \in BOOLEAN
    BY DEF HandlePieceRequest
  <1>1. CASE Goto(p, "loop") /\ UNCHANGED <<pstate, job>>
    <2>1. TypeOK'
      BY <1>0, <1>1 DEF TypeOK, HandlePieceRequest, PC
    <2>2. WorkerInv'
      BY <1>1 DEF WorkerInv, TypeOK, HandlePieceRequest
    <2>3. LockInv'
      BY <1>1 DEF LockInv, TypeOK, HandlePieceRequest
    <2> QED
      BY <2>1, <2>2, <2>3
  <1>2. CASE \E i \in Candidates(p, endgame') :
               /\ pstate' = [pstate EXCEPT ![i] = "Downloading"]
               /\ job' = [job EXCEPT ![p] = PieceJob(i)]
               /\ Goto(p, "start")
    <2>1. PICK i \in Pieces :
               /\ pstate' = [pstate EXCEPT ![i] = "Downloading"]
               /\ job' = [job EXCEPT ![p] = PieceJob(i)]
               /\ pc' = [pc EXCEPT ![p] = "start"]
      BY <1>2 DEF Candidates, TypeOK
    <2>2. PieceJob(i) \in Jobs /\ PieceJob(i).piece = i
      BY DEF PieceJob, Jobs
    <2>3. TypeOK'
      BY <1>0, <2>1, <2>2 DEF TypeOK, HandlePieceRequest, PC, PieceState
    <2>4. WorkerInv'
      BY <2>1, <2>2 DEF WorkerInv, TypeOK, HandlePieceRequest
    <2>5. LockInv'
      BY <2>1 DEF LockInv, TypeOK, HandlePieceRequest
    <2> QED
      BY <2>3, <2>4, <2>5
  <1> QED
    BY <1>1, <1>2 DEF HandlePieceRequest

(* The coordinator takes a completed piece from its channel.               *)
LEMMA HandlePieceCompleteKeepsBase ==
  ASSUME BaseInv, HandlePieceComplete PROVE BaseInv'
  <1> USE DownloadAssumption DEF BaseInv, storageVars, managerVars,
          queueVars, peerVars, envVars, HandlePieceComplete
  <1>1. endgame' \in BOOLEAN
    OBVIOUS
  <1>2. completedCh' \in Seq(Pieces) /\ pstate' \in [Pieces -> PieceState]
    BY HeadTail DEF TypeOK, PieceState
  <1>3. TypeOK'
    BY <1>1, <1>2 DEF TypeOK
  <1>4. WorkerInv' /\ LockInv'
    BY DEF WorkerInv, LockInv
  <1> QED
    BY <1>3, <1>4

(* The coordinator takes a failed piece from its channel.                  *)
LEMMA HandlePieceFailedKeepsBase ==
  ASSUME BaseInv, HandlePieceFailed PROVE BaseInv'
  <1> USE DownloadAssumption DEF BaseInv, storageVars, managerVars,
          queueVars, peerVars, envVars, HandlePieceFailed
  <1>1. failedCh' \in Seq(Pieces) /\ pstate' \in [Pieces -> PieceState]
    BY HeadTail DEF TypeOK, PieceState, NeededAgain
  <1>2. TypeOK'
    BY <1>1 DEF TypeOK
  <1>3. WorkerInv' /\ LockInv'
    BY DEF WorkerInv, LockInv
  <1> QED
    BY <1>2, <1>3

(* The stall check changes piece states only.                              *)
LEMMA CheckForStalledPiecesKeepsBase ==
  ASSUME BaseInv, NEW stalled \in SUBSET Pieces,
         CheckForStalledPieces(stalled)
  PROVE  BaseInv'
  <1> USE DownloadAssumption DEF BaseInv, storageVars, managerVars,
          queueVars, peerVars, CheckForStalledPieces
  <1>1. left' \in [EventKinds -> Nat]
    BY SpendType DEF TypeOK, EventKinds
  <1>2. pstate' \in [Pieces -> PieceState]
    BY DEF TypeOK, PieceState
  <1>3. TypeOK'
    BY <1>1, <1>2 DEF TypeOK
  <1>4. WorkerInv' /\ LockInv'
    BY DEF WorkerInv, LockInv
  <1> QED
    BY <1>3, <1>4

(* progressMonitor keeps what it has seen to itself.                       *)
LEMMA MonitorLookKeepsBase ==
  ASSUME BaseInv, MonitorLook PROVE BaseInv'
  <1> USE DownloadAssumption DEF BaseInv, MonitorLook, storageVars,
          managerVars, coordVars, queueVars, peerVars, SessionUnchanged
  <1>1. TypeOK'
    BY DEF TypeOK, PC
  <1>2. WorkerInv'
    BY DEF TypeOK, WorkerInv
  <1>3. LockInv'
    BY DEF TypeOK, LockInv
  <1> QED
    BY <1>1, <1>2, <1>3

(* progressMonitor changes the session's state only.                       *)
LEMMA MonitorCheckKeepsBase ==
  ASSUME BaseInv, MonitorCheck PROVE BaseInv'
  <1> USE DownloadAssumption DEF BaseInv, MonitorCheck, storageVars,
          managerVars, coordVars, queueVars, peerVars, SessionUnchanged
  <1>1. TypeOK'
    BY DEF TypeOK, PC
  <1>2. WorkerInv'
    BY DEF TypeOK, WorkerInv
  <1>3. LockInv'
    BY DEF TypeOK, LockInv
  <1> QED
    BY <1>1, <1>2, <1>3

(* Pause changes the session's state only.                                 *)
LEMMA PauseKeepsBase ==
  ASSUME BaseInv, Pause PROVE BaseInv'
  <1> USE DownloadAssumption DEF BaseInv, Pause, storageVars, managerVars,
          coordVars, queueVars, peerVars, SessionUnchanged
  <1>1. TypeOK'
    <2>1. left' \in [EventKinds -> Nat]
      BY SpendType DEF TypeOK, EventKinds
    <2> QED
      BY <2>1 DEF TypeOK, WorkerInv, PC
  <1>2. WorkerInv'
    BY DEF TypeOK, WorkerInv
  <1>3. LockInv'
    BY DEF TypeOK, LockInv
  <1> QED
    BY <1>1, <1>2, <1>3

(* Resume changes the session's state only.                                *)
LEMMA ResumeKeepsBase ==
  ASSUME BaseInv, Resume PROVE BaseInv'
  <1> USE DownloadAssumption DEF BaseInv, Resume, storageVars, managerVars,
          coordVars, queueVars, peerVars, SessionUnchanged
  <1>1. TypeOK'
    BY DEF TypeOK, PC
  <1>2. WorkerInv'
    BY DEF TypeOK, WorkerInv
  <1>3. LockInv'
    BY DEF TypeOK, LockInv
  <1> QED
    BY <1>1, <1>2, <1>3

(* Every step keeps BaseInv.                                               *)
LEMMA BaseInvStep ==
  ASSUME BaseInv, [Next]_vars PROVE BaseInv'
  <1>1. ASSUME NEW p \in Peers, Worker(p) PROVE BaseInv'
    BY <1>1, WriteKeepsBase, CheckKeepsBase, FillKeepsBase,
       CompleteKeepsBase, VerifyKeepsBase, NotifyKeepsBase, FinishKeepsBase,
       RejectKeepsBase, AbandonKeepsBase, TimeoutFailKeepsBase,
       DropKeepsBase, LeaveKeepsBase, StartKeepsBase, StartFailKeepsBase DEF
       Worker
  <1>2. ASSUME NEW p \in Peers, Environment(p) PROVE BaseInv'
    BY <1>2, ConnectKeepsBase, UnchokeKeepsBase, ChokeKeepsBase,
       BitfieldKeepsBase, IdleRetryKeepsBase, TimeoutKeepsBase,
       DisconnectKeepsBase, CancelKeepsBase, HaveKeepsBase, ReceiveKeepsBase,
       MalformedKeepsBase DEF Environment
  <1>3. CASE Coordinator
    BY <1>3, HandlePieceRequestKeepsBase, HandlePieceCompleteKeepsBase,
       HandlePieceFailedKeepsBase, CheckForStalledPiecesKeepsBase DEF
       Coordinator
  <1>4. CASE MonitorLook \/ MonitorCheck \/ Pause \/ Resume
    BY <1>4, MonitorLookKeepsBase, MonitorCheckKeepsBase, PauseKeepsBase, ResumeKeepsBase
  <1>5. CASE UNCHANGED vars
    BY <1>5 DEF vars, BaseInv, TypeOK, WorkerInv, LockInv, storageVars,
       managerVars, coordVars, queueVars, peerVars, envVars
  <1> QED
    BY <1>1, <1>2, <1>3, <1>4, <1>5 DEF Next

(* Every variable keeps its type, whatever peers, timers and the disk do.  *)
THEOREM TypeCorrect == Spec => []TypeOK
  <1>1. Init => BaseInv
    BY BaseInvInit
  <1>2. BaseInv /\ [Next]_vars => BaseInv'
    BY BaseInvStep
  <1>3. BaseInv => TypeOK
    BY DEF BaseInv
  <1> QED
    BY <1>1, <1>2, <1>3, PTL DEF Spec

-----------------------------------------------------------------------------
(* The bitfield *)

BudgetInv == \A k \in EventKinds : left[k] <= Budget[k]

SafeInv == BaseInv /\ BudgetInv /\ HeldIsVerified /\ InProgressNotHeld

\* A step that leaves the bitfield, the files, Manager.pieces and the
\* verification alone.
Quiet ==
  /\ UNCHANGED <<bits, disk, mgr>>
  /\ \A q \in Peers :
       pc[q] = "verify" => pc'[q] = "verify" /\ job'[q] = job[q]

(* Budgets only shrink, so a disk fault is never forgotten.                *)
LEMMA LeftShrinks ==
  ASSUME BaseInv, BudgetInv, [Next]_vars
  PROVE  BudgetInv' /\ (NoDiskFault' => NoDiskFault)
  <1> DEFINE Same == left' = left
             Less == \E kind \in EventKinds : Spend(kind)
  <1>1. Same \/ Less
    <2>1. ASSUME NEW p \in Peers, Worker(p) PROVE Same \/ Less
      BY <2>1 DEF Worker, Write, Check, Fill, Complete, Verify, Notify,
         Finish, Reject, Abandon, TimeoutFail, Drop, Leave, Start, StartFail,
         envVars, EventKinds
    <2>2. ASSUME NEW p \in Peers, Environment(p) PROVE Same \/ Less
      BY <2>2 DEF Environment, Connect, Unchoke, Choke, Bitfield, Have,
         Announce, IdleRetry, Timeout, Cancel, Disconnect, Receive, Malformed,
         envVars, EventKinds
    <2>3. CASE Coordinator
      BY <2>3 DEF Coordinator, HandlePieceRequest, HandlePieceComplete,
         HandlePieceFailed, CheckForStalledPieces, envVars, EventKinds
    <2>4. CASE MonitorLook \/ MonitorCheck \/ Pause \/ Resume
      BY <2>4 DEF MonitorLook, MonitorCheck, Pause, Resume, EventKinds
    <2>5. CASE UNCHANGED vars
      BY <2>5 DEF vars, envVars
    <2> QED
      BY <2>1, <2>2, <2>3, <2>4, <2>5 DEF Next
  <1>2. /\ left \in [EventKinds -> Nat] /\ Budget \in [EventKinds -> Nat]
        /\ "diskfault" \in EventKinds
    BY DownloadAssumption DEF BaseInv, TypeOK, EventKinds
  <1>3. CASE Same
    BY <1>3 DEF BudgetInv, NoDiskFault
  <1>4. CASE Less
    <2>1. PICK kind \in EventKinds :
            left[kind] > 0 /\ left' = [left EXCEPT ![kind] = left[kind] - 1]
      BY <1>4 DEF Spend
    <2>2. \A k \in EventKinds :
            /\ left'[k] \in Nat /\ left[k] \in Nat /\ Budget[k] \in Nat
            /\ left'[k] <= left[k]
      BY <1>2, <2>1
    <2>3. \A k \in EventKinds : left[k] <= Budget[k]
      BY DEF BudgetInv
    <2> QED
      BY <1>2, <2>2, <2>3 DEF BudgetInv, NoDiskFault
  <1> QED
    BY <1>1, <1>3, <1>4

(* Only four steps of a worker touch the bitfield, the files or            *)
(* Manager.pieces, or enter or leave the verification.                     *)
LEMMA QuietSteps ==
  ASSUME BaseInv, [Next]_vars
  PROVE  \/ Quiet
         \/ \E p \in Peers : Complete(p) \/ Verify(p) \/ Drop(p) \/ Start(p)
  <1> USE DEF Quiet, storageVars, managerVars, Goto
  <1> USE DEF BaseInv, TypeOK
  <1>1. ASSUME NEW p \in Peers, Worker(p)
        PROVE  Quiet \/ Complete(p) \/ Verify(p) \/ Drop(p) \/ Start(p)
    BY <1>1 DEF Worker, Write, Check, Fill, Notify, Finish, Reject, Abandon,
       TimeoutFail, Leave, StartFail
  <1>2. ASSUME NEW p \in Peers, Environment(p) PROVE Quiet
    <2>1. CASE \/ Connect(p) \/ Unchoke(p) \/ Choke(p) \/ IdleRetry(p)
               \/ Timeout(p) \/ Disconnect(p)
      BY <2>1 DEF Connect, Unchoke, Choke, IdleRetry, Timeout, Disconnect
    <2>2. CASE \/ Bitfield(p) \/ \E i \in Pieces : Have(p, i)
               \/ \E b \in Blocks : Cancel(p, b)
      BY <2>2 DEF Bitfield, Have, Announce, Cancel
    <2>3. ASSUME NEW i \in Pieces, NEW b \in Blocks, NEW good \in BOOLEAN,
                 Receive(p, i, b, good) \/ Malformed(p, i, b)
          PROVE  Quiet
      BY <2>3 DEF Receive, Malformed
    <2> QED
      BY <1>2, <2>1, <2>2, <2>3 DEF Environment
  <1>3. CASE Coordinator
    BY <1>3 DEF Coordinator, HandlePieceRequest, HandlePieceComplete,
       HandlePieceFailed, CheckForStalledPieces
  <1>4. CASE MonitorLook \/ MonitorCheck \/ Pause \/ Resume
    BY <1>4 DEF MonitorLook, MonitorCheck, Pause, Resume, SessionUnchanged
  <1>5. CASE UNCHANGED vars
    BY <1>5 DEF vars
  <1> QED
    BY <1>1, <1>2, <1>3, <1>4, <1>5 DEF Next

(* Every step keeps SafeInv.  Complete sets a bit only with nobody         *)
(* verifying and enters the verification; Verify clears the bit or         *)
(* forgets the object; Start leaves held pieces alone.                     *)
LEMMA SafeInvStep == ASSUME SafeInv, [Next]_vars PROVE SafeInv'
  <1>1. BaseInv' /\ BudgetInv' /\ (NoDiskFault' => NoDiskFault)
    BY BaseInvStep, LeftShrinks DEF SafeInv
  <1>2. CASE ~NoDiskFault'
    BY <1>1, <1>2 DEF SafeInv, HeldIsVerified, InProgressNotHeld
  <1>3. CASE NoDiskFault'
    <2>1. NoDiskFault
      BY <1>1, <1>3
    <2>2. /\ \A i \in bits : disk[i] = "good" \/ Verifying(i)
          /\ \A i \in bits : mgr[i] # None => Verifying(i)
      BY <2>1 DEF SafeInv, HeldIsVerified, InProgressNotHeld
    <2>3. bits \subseteq Pieces
      BY DEF SafeInv, BaseInv, TypeOK
    <2> SUFFICES /\ \A i \in bits' : disk'[i] = "good" \/ Verifying(i)'
                 /\ \A i \in bits' : mgr'[i] # None => Verifying(i)'
      BY <1>1 DEF SafeInv, HeldIsVerified, InProgressNotHeld
    <2>4. CASE Quiet
      BY <2>2, <2>4 DEF Quiet, Verifying
    <2>5. ASSUME NEW p \in Peers, Complete(p)
          PROVE  /\ \A i \in bits' : disk'[i] = "good" \/ Verifying(i)'
                 /\ \A i \in bits' : mgr'[i] # None => Verifying(i)'
      <3>1. \A i \in Pieces : ~Verifying(i)
        BY <2>5, DownloadAssumption DEF Complete, Verifying, SafeInv,
           BaseInv, LockInv
      <3>2. ~Spend("diskfault")
        BY <1>3, <2>1 DEF Spend, NoDiskFault, SafeInv, BaseInv, TypeOK,
           EventKinds
      <3> DEFINE j == job[p].piece
      <3>3. j \in Pieces
        BY <2>5 DEF Complete, SafeInv, BaseInv, WorkerInv
      <3>4. CASE mgr[j] = None
        BY <2>2, <2>3, <2>5, <3>1, <3>2, <3>4 DEF Complete, storageVars
      <3>5. CASE mgr[j] # None
        <4>1. /\ bits' = bits \cup {j} /\ mgr' = mgr /\ job' = job
              /\ pc' = [pc EXCEPT ![p] = "verify"]
              /\ \A i \in Pieces : i # j => disk'[i] = disk[i]
          BY <2>5, <3>2, <3>5 DEF Complete, Goto, SafeInv, BaseInv, TypeOK
        <4>2. Verifying(j)'
          BY <4>1 DEF Verifying, SafeInv, BaseInv, TypeOK
        <4> QED
          BY <2>2, <2>3, <3>1, <4>1, <4>2
      <3> QED
        BY <3>4, <3>5
    <2>6. ASSUME NEW p \in Peers, Verify(p)
          PROVE  /\ \A i \in bits' : disk'[i] = "good" \/ Verifying(i)'
                 /\ \A i \in bits' : mgr'[i] # None => Verifying(i)'
      <3> DEFINE j == job[p].piece
      <3>1. \A i \in Pieces : Verifying(i) => i = j
        BY <2>6, DownloadAssumption DEF Verify, Verifying, SafeInv, BaseInv,
           LockInv
      <3>2. ~Spend("diskfault")
        BY <1>3, <2>1 DEF Spend, NoDiskFault, SafeInv, BaseInv, TypeOK,
           EventKinds
      <3>3. j \in Pieces /\ disk' = disk
        BY <2>6 DEF Verify, SafeInv, BaseInv, WorkerInv
      <3>4. /\ mgr' = [mgr EXCEPT ![j] = None]
            /\ (disk[j] = "good" /\ bits' = bits) \/ bits' = bits \ {j}
        BY <2>6, <3>2 DEF Verify, HashMatches, BitsOnMismatch,
           InProgressOnMismatch
      <3>5. mgr \in [Pieces -> PdIds \cup {None}]
        BY DEF SafeInv, BaseInv, TypeOK
      <3> QED
        BY <2>2, <2>3, <3>1, <3>3, <3>4, <3>5
    <2>7. ASSUME NEW p \in Peers, Drop(p)
          PROVE  /\ \A i \in bits' : disk'[i] = "good" \/ Verifying(i)'
                 /\ \A i \in bits' : mgr'[i] # None => Verifying(i)'
      <3>1. \A i \in Pieces : ~Verifying(i)
        BY <2>7, DownloadAssumption DEF Drop, Verifying, SafeInv, BaseInv,
           LockInv
      <3>2. /\ bits' \subseteq bits /\ disk' = disk
            /\ \A i \in Pieces : mgr'[i] # None => mgr[i] # None
        BY <2>7 DEF Drop, SafeInv, BaseInv, TypeOK
      <3> QED
        BY <2>2, <2>3, <3>1, <3>2
    <2>8. ASSUME NEW p \in Peers, Start(p)
          PROVE  /\ \A i \in bits' : disk'[i] = "good" \/ Verifying(i)'
                 /\ \A i \in bits' : mgr'[i] # None => Verifying(i)'
      <3>1. \A i \in Pieces : ~Verifying(i)
        BY <2>8, DownloadAssumption DEF Start, Verifying, SafeInv, BaseInv,
           LockInv
      <3>2. /\ bits' = bits /\ disk' = disk
            /\ \A i \in bits : mgr'[i] = mgr[i]
        BY <2>8 DEF Start, HasPiece, storageVars, SafeInv, BaseInv, TypeOK
      <3> QED
        BY <2>2, <2>3, <3>1, <3>2
    <2> QED
      BY <2>4, <2>5, <2>6, <2>7, <2>8, QuietSteps DEF SafeInv
  <1> QED
    BY <1>2, <1>3

(* SafeInv holds when Session.Start has returned.                          *)
LEMMA SafeInvInit == Init => SafeInv
  <1> SUFFICES ASSUME Init PROVE SafeInv
    OBVIOUS
  <1>1. BaseInv
    BY BaseInvInit
  <1>2. BudgetInv
    BY DownloadAssumption DEF Init, BudgetInv
  <1>3. HeldIsVerified /\ InProgressNotHeld
    BY DownloadAssumption DEF Init, HeldIsVerified, InProgressNotHeld
  <1> QED
    BY <1>1, <1>2, <1>3 DEF SafeInv

(* SafeInv is an invariant.                                                *)
LEMMA SafeInvHolds == Spec => []SafeInv
  BY SafeInvInit, SafeInvStep, PTL DEF Spec

(* A set bit stands for verified data, outside the verification of         *)
(* Manager.CompletePiece and as long as the disk does not fail, for any    *)
(* number of peers, pieces and blocks and any timeouts and late answers.   *)
THEOREM VerifiedBeforeHeld == Spec => []HeldIsVerified
  <1>1. SafeInv => HeldIsVerified
    BY DEF SafeInv
  <1> QED
    BY <1>1, SafeInvHolds, PTL

(* No piece is held and in progress at the same time, outside the          *)
(* verification and as long as the disk does not fail.                     *)
THEOREM HeldOrInProgress == Spec => []InProgressNotHeld
  <1>1. SafeInv => InProgressNotHeld
    BY DEF SafeInv
  <1> QED
    BY <1>1, SafeInvHolds, PTL

(* The bytes under a set bit never change while the disk does not fail:    *)
(* WritePiece never runs on a held piece.                                  *)
THEOREM NeverOverwritten == Spec => HeldNotOverwritten
  <1>1. ASSUME SafeInv, [Next]_vars
        PROVE  NoDiskFault => \A i \in bits : disk'[i] = disk[i]
    <2> SUFFICES ASSUME NoDiskFault, NEW i \in bits PROVE disk'[i] = disk[i]
      OBVIOUS
    <2>1. ASSUME NEW p \in Peers, Complete(p) PROVE disk'[i] = disk[i]
      <3>1. i \in Pieces /\ ~Verifying(i)
        BY <1>1, <2>1, DownloadAssumption DEF Complete, Verifying, SafeInv,
           BaseInv, LockInv, TypeOK
      <3>2. mgr[i] = None
        BY <1>1, <3>1 DEF SafeInv, InProgressNotHeld
      <3> QED
        BY <1>1, <2>1, <3>1, <3>2 DEF Complete, storageVars, SafeInv,
           BaseInv, TypeOK
    <2> QED
      BY <1>1, <2>1, QuietSteps DEF Quiet, Verify, Drop, Start, storageVars,
         SafeInv
  <1> QED
    BY <1>1, SafeInvHolds, PTL DEF Spec, HeldNotOverwritten

-----------------------------------------------------------------------------
\* Piece i is complete for the coordinator, or will be when it reads its
\* channel, or is about to be reported.
Done(i) ==
  \/ pstate[i] = "Complete"
  \/ \E k \in 1..Len(completedCh) : completedCh[k] = i
  \/ \E p \in Peers : pc[p] = "notify" /\ job[p].piece = i

\* No worker is in the timeout branch.
NotLate == \A p \in Peers : pc[p] \notin {"timeout", "drop"}

\* The requests of a peer never time out.
NoTimeouts == Budget["timeout"] = 0

(* Without timeouts no worker reaches the timeout branch.                  *)
LEMMA NotLateStep ==
  ASSUME SafeInv, NoTimeouts, NotLate, [Next]_vars PROVE NotLate'
  <1>0. /\ left["timeout"] \in Nat
        /\ left["timeout"] <= Budget["timeout"]
    BY DEF SafeInv, BaseInv, TypeOK, BudgetInv, EventKinds
  <1>1. ~Spend("timeout")
    BY <1>0 DEF Spend, NoTimeouts
  <1> USE DEF NotLate, SafeInv, BaseInv, TypeOK, Goto, Continue
  <1>2. ASSUME NEW p \in Peers, Worker(p) PROVE NotLate'
    <2>1. CASE \/ Write(p) \/ Check(p) \/ Fill(p) \/ Complete(p)
               \/ Verify(p) \/ Notify(p) \/ Finish(p)
      BY <2>1 DEF Write, Check, Fill, Complete, Verify, Notify, Finish,
         AfterVerify
    <2>2. CASE \/ Reject(p) \/ Abandon(p) \/ TimeoutFail(p) \/ Drop(p)
               \/ Leave(p) \/ Start(p) \/ StartFail(p)
      BY <2>2 DEF Reject, Abandon, TimeoutFail, Drop, Leave, Start, StartFail
    <2> QED
      BY <1>2, <2>1, <2>2 DEF Worker
  <1>3. ASSUME NEW p \in Peers, Environment(p) PROVE NotLate'
    <2>1. ~Timeout(p)
      BY <1>1 DEF Timeout
    <2>2. CASE \/ Connect(p) \/ Unchoke(p) \/ Choke(p)
               \/ IdleRetry(p) \/ Disconnect(p)
      BY <2>2 DEF Connect, Unchoke, Choke, IdleRetry, Disconnect
    <2>5. CASE \E b \in Blocks : Cancel(p, b)
      BY <2>5 DEF Cancel, coordVars
    <2>3. CASE Bitfield(p) \/ \E i \in Pieces : Have(p, i)
      BY <2>3 DEF Bitfield, Have, Announce
    <2>4. ASSUME NEW i \in Pieces, NEW b \in Blocks, NEW good \in BOOLEAN,
                 Receive(p, i, b, good)
          PROVE  NotLate'
      BY <2>4 DEF Receive
    <2>6. ASSUME NEW i \in Pieces, NEW b \in Blocks, Malformed(p, i, b)
          PROVE  NotLate'
      BY <2>6 DEF Malformed
    <2> QED
      BY <1>3, <2>1, <2>2, <2>3, <2>4, <2>5, <2>6 DEF Environment
  <1>4. CASE Coordinator
    BY <1>4 DEF Coordinator, HandlePieceRequest, HandlePieceComplete,
       HandlePieceFailed, CheckForStalledPieces
  <1>5. CASE MonitorLook \/ MonitorCheck \/ Pause \/ Resume
    BY <1>5 DEF MonitorLook, MonitorCheck, Pause, Resume, SessionUnchanged
  <1>6. CASE UNCHANGED vars
    BY <1>6 DEF vars
  <1> QED
    BY <1>2, <1>3, <1>4, <1>5, <1>6 DEF Next

DoneKept == \A i \in Pieces : Done(i) => i \in bits /\ mgr[i] = None

(* A piece becomes done, that is reported complete or about to be, only    *)
(* by a successful Manager.CompletePiece.                                  *)
LEMMA DoneGrows ==
  ASSUME SafeInv, NEW i \in Pieces, [Next]_vars, ~Done(i), Done(i)'
  PROVE  \E p \in Peers : Verify(p) /\ job[p].piece = i /\ pc'[p] = "notify"
  <1> USE DEF SafeInv, BaseInv, TypeOK, Goto, Continue, Done
  <1>1. ASSUME NEW p \in Peers, Worker(p), ~Verify(p) PROVE FALSE
    <2>1. CASE Notify(p)
      BY <2>1 DEF Notify, Send, WorkerInv
    <2>2. CASE Write(p) \/ Check(p) \/ Fill(p) \/ Complete(p) \/ Finish(p)
      BY <2>2 DEF Write, Check, Fill, Complete, Finish, coordVars
    <2>3. CASE \/ Reject(p) \/ Abandon(p) \/ TimeoutFail(p) \/ Drop(p)
               \/ Leave(p) \/ Start(p) \/ StartFail(p)
      BY <2>3 DEF Reject, Abandon, TimeoutFail, Drop, Leave, Start, StartFail,
         coordVars
    <2> QED
      BY <1>1, <2>1, <2>2, <2>3 DEF Worker
  <1>2. ASSUME NEW p \in Peers, Verify(p)
        PROVE  job[p].piece = i /\ pc'[p] = "notify"
    BY <1>2 DEF Verify, AfterVerify, coordVars
  <1>3. ASSUME NEW p \in Peers, Environment(p) PROVE FALSE
    <2>2. CASE \/ Connect(p) \/ Unchoke(p) \/ Choke(p)
               \/ IdleRetry(p) \/ Disconnect(p) \/ Timeout(p)
      BY <2>2 DEF Connect, Unchoke, Choke, IdleRetry, Disconnect, Timeout,
         coordVars
    <2>5. CASE \E b \in Blocks : Cancel(p, b)
      BY <2>5 DEF Cancel, coordVars
    <2>3. CASE Bitfield(p) \/ \E j \in Pieces : Have(p, j)
      BY <2>3 DEF Bitfield, Have, Announce, coordVars
    <2>4. ASSUME NEW j \in Pieces, NEW b \in Blocks, NEW good \in BOOLEAN,
                 Receive(p, j, b, good)
          PROVE  FALSE
      BY <2>4 DEF Receive, coordVars
    <2>6. ASSUME NEW j \in Pieces, NEW b \in Blocks, Malformed(p, j, b)
          PROVE  FALSE
      BY <2>6 DEF Malformed, coordVars
    <2> QED
      BY <1>3, <2>2, <2>3, <2>4, <2>5, <2>6 DEF Environment
  <1>4. CASE Coordinator
    <2>1. CASE HandlePieceComplete
      <3>1. /\ completedCh # <<>> /\ completedCh \in Seq(Pieces)
            /\ completedCh' = Tail(completedCh)
            /\ pstate' = [pstate EXCEPT ![Head(completedCh)] = "Complete"]
        BY <2>1 DEF HandlePieceComplete
      <3>2. Head(completedCh) = completedCh[1] /\ 1 \in 1..Len(completedCh)
        BY <3>1
      <3>3. \A k \in 1..Len(completedCh') :
              k + 1 \in 1..Len(completedCh) /\ completedCh'[k] = completedCh[k + 1]
        BY <3>1
      <3>4. pstate'[i] # "Complete"
        BY <3>1, <3>2
      <3>5. \A k \in 1..Len(completedCh') : completedCh'[k] # i
        BY <3>3
      <3>6. pc' = pc /\ job' = job
        BY <2>1 DEF HandlePieceComplete
      <3> QED
        BY <3>4, <3>5, <3>6
    <2>2. CASE HandlePieceFailed
      BY <2>2 DEF HandlePieceFailed, NeededAgain
    <2>3. ASSUME NEW p \in Peers, HandlePieceRequest(p) PROVE FALSE
      <3>1. /\ pc[p] = "request" /\ completedCh' = completedCh
            /\ \A q \in Peers : pc'[q] = "notify" => pc[q] = "notify" /\ q # p
            /\ \A q \in Peers : q # p => job'[q] = job[q]
        BY <2>3 DEF HandlePieceRequest
      <3>2. pstate'[i] = "Complete" => pstate[i] = "Complete"
        BY <2>3 DEF HandlePieceRequest
      <3> QED
        BY <3>1, <3>2
    <2>4. CASE \E stalled \in SUBSET Pieces : CheckForStalledPieces(stalled)
      BY <2>4 DEF CheckForStalledPieces
    <2> QED
      BY <1>4, <2>1, <2>2, <2>3, <2>4 DEF Coordinator
  <1>5. CASE MonitorLook \/ MonitorCheck \/ Pause \/ Resume
    BY <1>5 DEF MonitorLook, MonitorCheck, Pause, Resume,
       SessionUnchanged, coordVars
  <1>6. CASE UNCHANGED vars
    BY <1>6 DEF vars, coordVars
  <1> QED
    BY <1>1, <1>2, <1>3, <1>4, <1>5, <1>6 DEF Next

KeptInv == SafeInv /\ NotLate /\ (NoDiskFault => DoneKept)

(* Every step keeps KeptInv when there are no timeouts.                    *)
LEMMA KeptInvStep ==
  ASSUME KeptInv, NoTimeouts, [Next]_vars PROVE KeptInv'
  <1>1. SafeInv' /\ NotLate' /\ (NoDiskFault' => NoDiskFault)
    BY SafeInvStep, NotLateStep, LeftShrinks DEF KeptInv, SafeInv
  <1>2. ASSUME NoDiskFault', NEW i \in Pieces, Done(i)'
        PROVE  i \in bits' /\ mgr'[i] = None
    <2> USE DEF KeptInv, SafeInv, BaseInv
    <2>1. NoDiskFault /\ DoneKept
      BY <1>1, <1>2
    <2>2. ~Spend("diskfault")
      BY <1>2, <2>1 DEF Spend, NoDiskFault, TypeOK, EventKinds
    <2>3. CASE Done(i)
      <3>1. i \in bits /\ mgr[i] = None
        BY <2>1, <2>3 DEF DoneKept
      <3>2. CASE Quiet
        BY <3>1, <3>2 DEF Quiet
      <3>3. ASSUME NEW p \in Peers, Complete(p)
            PROVE  i \in bits' /\ mgr'[i] = None
        BY <3>1, <3>3 DEF Complete, storageVars
      <3>4. ASSUME NEW p \in Peers, Verify(p)
            PROVE  i \in bits' /\ mgr'[i] = None
        <4>1. job[p].piece # i
          BY <3>1, <3>4, DownloadAssumption DEF Verify, LockInv
        <4>2. /\ bits \ {job[p].piece} \subseteq bits'
              /\ mgr' = mgr \/ mgr' = [mgr EXCEPT ![job[p].piece] = None]
          BY <3>4 DEF Verify, BitsOnMismatch, InProgressOnMismatch
        <4> QED
          BY <3>1, <4>1, <4>2 DEF TypeOK
      <3>5. ASSUME NEW p \in Peers, Drop(p) PROVE FALSE
        BY <3>5 DEF Drop, NotLate
      <3>6. ASSUME NEW p \in Peers, Start(p)
            PROVE  i \in bits' /\ mgr'[i] = None
        BY <3>1, <3>6 DEF Start, HasPiece, storageVars, TypeOK
      <3> QED
        BY <3>2, <3>3, <3>4, <3>5, <3>6, QuietSteps
    <2>4. CASE ~Done(i)
      <3>1. PICK p \in Peers :
              Verify(p) /\ job[p].piece = i /\ pc'[p] = "notify"
        BY <1>2, <2>4, DoneGrows
      <3>2. HashMatches(i)
        BY <2>2, <3>1 DEF Verify, AfterVerify, Goto, TypeOK
      <3>3. i \in bits
        BY <3>1 DEF Verify, LockInv
      <3>4. bits' = bits /\ mgr' = [mgr EXCEPT ![i] = None]
        BY <2>2, <3>1, <3>2 DEF Verify
      <3> QED
        BY <3>3, <3>4 DEF TypeOK
    <2> QED
      BY <2>3, <2>4
  <1> QED
    BY <1>1, <1>2 DEF KeptInv, DoneKept

(* KeptInv is an invariant when there are no timeouts.                     *)
LEMMA KeptInvHolds ==
  ASSUME NoTimeouts
  PROVE  Spec => []KeptInv
  <1>1. Init => KeptInv
    <2> SUFFICES ASSUME Init PROVE KeptInv
      OBVIOUS
    <2>1. SafeInv
      BY SafeInvInit
    <2>2. NotLate
      BY DEF Init, NotLate
    <2>3. DoneKept
      BY DownloadAssumption DEF Init, DoneKept, Done
    <2> QED
      BY <2>1, <2>2, <2>3 DEF KeptInv
  <1>2. KeptInv /\ [Next]_vars => KeptInv'
    BY KeptInvStep
  <1> QED
    BY <1>1, <1>2, PTL DEF Spec

(* Without timeouts and disk faults, a piece the coordinator counts as     *)
(* complete is in the bitfield, also in endgame, after stall resets and    *)
(* with disconnections.                                                    *)
THEOREM CompletePiecesHeld ==
  ASSUME NoTimeouts
  PROVE  Spec => [](NoDiskFault => CompleteIsHeld)
  <1>1. KeptInv => (NoDiskFault => CompleteIsHeld)
    BY DEF KeptInv, DoneKept, Done, CompleteIsHeld
  <1> QED
    BY <1>1, KeptInvHolds, PTL

(* Without timeouts no verified piece is ever cleared: Manager.FailPiece,  *)
(* called by the timeout branch alone, is the only way to lose one.        *)
THEOREM VerifiedPiecesKept ==
  ASSUME NoTimeouts
  PROVE  Spec => VerifiedKept
  <1>1. ASSUME KeptInv, NoTimeouts, [Next]_vars,
               NEW i \in bits, disk[i] = "good", ~Verifying(i)
        PROVE  i \in bits'
    <2> USE DEF KeptInv, SafeInv, BaseInv
    <2>1. ASSUME NEW p \in Peers, Verify(p) PROVE i \in bits'
      BY <1>1, <2>1 DEF Verify, BitsOnMismatch, Verifying
    <2>2. ASSUME NEW p \in Peers, Drop(p) PROVE FALSE
      BY <1>1, <2>2 DEF Drop, NotLate
    <2> QED
      BY <1>1, <2>1, <2>2, QuietSteps DEF Quiet, Complete, Start, storageVars
  <1>2. ASSUME KeptInv, NoTimeouts, [Next]_vars
        PROVE  \A i \in bits : disk[i] = "good" /\ ~Verifying(i) => i \in bits'
    BY <1>1, <1>2
  <1> QED
    BY <1>2, KeptInvHolds, PTL DEF Spec, VerifiedKept

=============================================================================
