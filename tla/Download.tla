------------------------------ MODULE Download ------------------------------
(***************************************************************************)
(* The download path of one torrent session: one goroutine per connected   *)
(* peer (Session.serveDownloadPeer), the DownloadCoordinator goroutine,    *)
(* and the two structures they share, the piece.Manager and the            *)
(* FileStorage with its bitfield.                                          *)
(*                                                                         *)
(* A step of a worker is one access to shared state: a channel send, a     *)
(* critical section of Manager.mu or of PieceDownload.mu, or a read of the *)
(* bitfield.  pc[p] names the next access of the worker of peer p.         *)
(*                                                                         *)
(* Abstractions: a block is good or bad data; times are not modelled, so a *)
(* timer may fire whenever what it watches is there; the block a queue     *)
(* asks for next is any block not yet asked for; which of the candidate    *)
(* pieces RarestFirstSelector prefers is left open.                        *)
(***************************************************************************)
EXTENDS Naturals, Sequences, FiniteSets, FiniteSetsExt

CONSTANTS
  Peers,        \* addresses of the remote peers
  Pieces,       \* piece indices
  Blocks,       \* the blocks of a piece
  PdIds,        \* identities of PieceDownload objects
  None,         \* Go's nil
  Remote,       \* Remote[p]: the pieces peer p has
  Resumed,      \* the pieces the bitfield holds when the coordinator starts
  MaxPipeline,  \* requests a RequestQueue keeps in flight (20 in the code)
  ChanCap,      \* capacity of the coordinator's channels (10 in the code)
  EndgamePercent, \* endgameThreshold in percent (70 in the code)
  BanAt,        \* hash failures that ban a peer (3 in the code)
  MaxCopies,    \* bound: copies of one block request a peer may still answer
  Budget        \* bound: how often each kind of environment event happens

EventKinds ==
  {"corrupt", "malformed", "timeout", "stall", "disconnect", "choke",
   "cancel", "pause", "diskfault"}

ASSUME DownloadAssumption ==
  /\ None \notin Peers \cup Pieces \cup Blocks \cup PdIds
  /\ IsFiniteSet(Pieces) /\ IsFiniteSet(Blocks)
  /\ Remote \in [Peers -> SUBSET Pieces]
  /\ Resumed \subseteq Pieces /\ Resumed # Pieces
  /\ MaxPipeline \in Nat \ {0} /\ ChanCap \in Nat \ {0}
  /\ EndgamePercent \in 0..100
  /\ BanAt \in Nat \ {0} /\ MaxCopies \in Nat \ {0}
  /\ Budget \in [EventKinds -> Nat]

VARIABLES
  bits,         \* FileStorage.bitfield
  disk,         \* what the files hold at each piece
  mgr,          \* Manager.pieces
  pd,           \* the PieceDownload objects: state of each block
  mgrLock,      \* the worker inside Manager.CompletePiece, holding Manager.mu
  pstate,       \* DownloadCoordinator.pieceStates
  endgame,      \* DownloadCoordinator.endgameActive
  completedCh,  \* DownloadCoordinator.pieceCompleted
  failedCh,     \* DownloadCoordinator.pieceFailed
  state,        \* Session.state, from the end of Session.Start on
  monitor,      \* progressMonitor has seen state Downloading in this tick
  pc,           \* next access of each worker, "off" when there is no worker
  job,          \* the message or the assignment a worker is handling
  cur,          \* PeerState.CurrentPiece
  qpd,          \* RequestQueue.pieceDownload
  qout,         \* RequestQueue.requests, counted per block
  unchoked,     \* serveDownloadPeer's local variable unchoked
  remoteBits,   \* PeerState.Bitfield
  strikes,      \* PeerState.HashFailures
  wire,         \* requests sent to a peer that it may still answer
  left          \* what is left of Budget

storageVars == <<bits, disk>>
managerVars == <<mgr, pd, mgrLock>>
coordVars   == <<pstate, endgame, completedCh, failedCh>>
queueVars   == <<cur, qpd, qout>>
peerVars    == <<unchoked, remoteBits, strikes>>
envVars     == <<wire, left>>
sessionVars == <<state, monitor>>
vars == <<storageVars, managerVars, coordVars, sessionVars, pc, job, queueVars,
          peerVars, envVars>>

-----------------------------------------------------------------------------
BlockState == {"free", "requested", "good", "bad"}
PieceState == {"Needed", "Downloading", "Complete"}
PC == {"off", "loop", "request", "start", "startfail", "fill", "write", "check",
       "complete", "verify", "notify", "finish", "reject", "abandon",
       "timeout", "drop", "leave"}

\* A worker that handles piece i, and one that handles nothing.
PieceJob(i) == [piece |-> i, block |-> None, pd |-> None, good |-> TRUE]
NoJob == PieceJob(None)
Jobs == [piece : Pieces \cup {None}, block : Blocks \cup {None},
         pd : PdIds \cup {None}, good : BOOLEAN]

NewBlocks  == [b \in Blocks |-> "free"]          \* buildBlocks
EmptyQueue == [b \in Blocks |-> 0]
NoRequests == [r \in Pieces \X Blocks |-> 0]

\* The number of requests in a queue (len(rq.requests)).
Pending(q) == MapThenSumSet(LAMBDA b : q[b], Blocks)

\* Mutated: true as soon as one block is there.
IsCompleteEarly(d) == \E b \in Blocks : pd[d][b] \in {"good", "bad"}

\* Every block of the object is in its buffer (PieceDownload.IsComplete).
IsComplete(d) == \A b \in Blocks : pd[d][b] \in {"good", "bad"}

\* What WritePiece puts on disk: a block that never arrived is still zero.
Content(d) == IF \A b \in Blocks : pd[d][b] = "good" THEN "good" ELSE "bad"

\* VerifyPiece: the hash of what the files hold is the expected one.
HashMatches(i) == disk[i] = "good"

\* Mutated: the bit set by WritePiece survives a hash mismatch.
BitsKeptOnMismatch(i) == bits
\* ClearPiece after a hash mismatch.
BitsOnMismatch(i) == bits \ {i}

\* delete(m.pieces, pieceIndex) after a hash mismatch.
InProgressOnMismatch(i) == [mgr EXCEPT ![i] = None]

\* Mutated: the mismatch branch returns without unlocking.
LockHeldOnMismatch(valid) == IF valid THEN None ELSE mgrLock
\* Every return of CompletePiece unlocks Manager.mu.
LockOnReturn(valid) == None

\* Mutated: the caller ignores the error of CompletePiece.
ErrorIgnored(valid) == "notify"
\* completePiece: notify on success, count a failure on an error.
AfterVerify(valid) == IF valid THEN "notify" ELSE "reject"

\* Mutated: StartPiece does not look at the bitfield.
NeverHeld(i) == FALSE
\* Storage.HasPiece, asked by StartPiece.
HasPiece(i) == i \in bits

\* Mutated: the deferred function of serveDownloadPeer lacks its nil check.
AlwaysHolding(p) == TRUE
\* peerState.CurrentPiece != nil
HoldsPiece(p) == cur[p] # None

\* A PieceDownload nobody refers to any more may be allocated again.
Unreferenced(d) ==
  /\ \A i \in Pieces : mgr[i] # d
  /\ \A p \in Peers : qpd[p] # d /\ job[p].pd # d

IsIdle(p) == cur[p] = None

\* Where the worker goes when a handler ends with the piece queue idle or not:
\* startDownloading returns at once when busy or paused.
Continue(p, idle) ==
  IF unchoked[p] /\ idle /\ state # "Paused" THEN "request" ELSE "loop"

Goto(p, label) == pc' = [pc EXCEPT ![p] = label]

\* CurrentPiece = nil and RequestQueue = nil
ClearQueue(p) ==
  /\ cur'  = [cur  EXCEPT ![p] = None]
  /\ qpd'  = [qpd  EXCEPT ![p] = None]
  /\ qout' = [qout EXCEPT ![p] = EmptyQueue]

\* A send on a buffered channel, which blocks while the channel is full.
Send(ch, i) == Len(ch) < ChanCap /\ ch' = Append(ch, i)

\* One more event of this kind, within the bound.
Spend(kind) == left[kind] > 0 /\ left' = [left EXCEPT ![kind] = @ - 1]

\* checkEndgameMode: the share of pieces marked complete is at the threshold.
EndgameDue(ps) ==
  100 * Cardinality({i \in Pieces : ps[i] = "Complete"})
    >= EndgamePercent * Cardinality(Pieces)

-----------------------------------------------------------------------------
Init ==
  /\ bits = Resumed
  /\ disk = [i \in Pieces |-> IF i \in Resumed THEN "good" ELSE "bad"]
  /\ mgr = [i \in Pieces |-> None]
  /\ pd = [d \in PdIds |-> NewBlocks]
  /\ mgrLock = None
  /\ pstate = [i \in Pieces |-> IF i \in Resumed THEN "Complete" ELSE "Needed"]
  /\ endgame = FALSE
  /\ completedCh = <<>> /\ failedCh = <<>>
  /\ state = "Downloading" /\ monitor = FALSE
  /\ pc = [p \in Peers |-> "off"]
  /\ job = [p \in Peers |-> NoJob]
  /\ cur = [p \in Peers |-> None]
  /\ qpd = [p \in Peers |-> None]
  /\ qout = [p \in Peers |-> EmptyQueue]
  /\ unchoked = [p \in Peers |-> FALSE]
  /\ remoteBits = [p \in Peers |-> {}]
  /\ strikes = [p \in Peers |-> 0]
  /\ wire = [p \in Peers |-> NoRequests]
  /\ left = Budget

-----------------------------------------------------------------------------
(* Messages and timers a worker meets at the head of its loop.             *)

Connect(p) ==
  /\ pc[p] = "off"
  /\ Goto(p, "loop")
  /\ unchoked' = [unchoked EXCEPT ![p] = FALSE]
  /\ remoteBits' = [remoteBits EXCEPT ![p] = {}]
  /\ strikes' = [strikes EXCEPT ![p] = 0]
  /\ UNCHANGED <<storageVars, managerVars, coordVars, sessionVars, job,
                 queueVars, envVars>>

Unchoke(p) ==
  /\ pc[p] = "loop"
  /\ unchoked' = [unchoked EXCEPT ![p] = TRUE]
  /\ Goto(p, IF IsIdle(p) /\ state # "Paused" THEN "request" ELSE "loop")
  /\ UNCHANGED <<storageVars, managerVars, coordVars, sessionVars, job,
                 queueVars, remoteBits, strikes, envVars>>

\* peer.ReadMessage also returns a keep-alive as a message with ID 0, a Choke.
Choke(p) ==
  /\ Spend("choke")
  /\ pc[p] = "loop" /\ unchoked[p]
  /\ unchoked' = [unchoked EXCEPT ![p] = FALSE]
  /\ UNCHANGED <<storageVars, managerVars, coordVars, sessionVars, pc, job,
                 queueVars, remoteBits, strikes, wire>>

\* A Bitfield message replaces the peer's bitfield, a Have message adds to it.
Announce(p, has) ==
  /\ pc[p] = "loop"
  /\ remoteBits' = [remoteBits EXCEPT ![p] = has]
  /\ Goto(p, Continue(p, IsIdle(p)))
  /\ UNCHANGED <<storageVars, managerVars, coordVars, sessionVars, job,
                 queueVars, unchoked, strikes, envVars>>
Bitfield(p) == remoteBits[p] = {} /\ Announce(p, Remote[p])
Have(p, i) == i \in Remote[p] \ remoteBits[p] /\ Announce(p, remoteBits[p] \cup {i})

\* The one second ticker retries an idle peer, in state Downloading only.
IdleRetry(p) ==
  /\ pc[p] = "loop"
  /\ unchoked[p] /\ IsIdle(p) /\ state = "Downloading"
  /\ Goto(p, "request")
  /\ UNCHANGED <<storageVars, managerVars, coordVars, sessionVars, job,
                 queueVars, peerVars, envVars>>

\* Some request in the queue is older than 15 seconds.
Timeout(p) ==
  /\ Spend("timeout")
  /\ pc[p] = "loop"
  /\ \E b \in Blocks : qout[p][b] > 0
  /\ Goto(p, "timeout")
  /\ UNCHANGED <<storageVars, managerVars, coordVars, sessionVars, job,
                 queueVars, peerVars, wire>>

\* A Cancel message for a block of the current piece removes this side's own
\* request from the queue, not what the peer asked for.
Cancel(p, b) ==
  /\ Spend("cancel")
  /\ pc[p] = "loop" /\ ~IsIdle(p) /\ qout[p][b] > 0
  /\ qout' = [qout EXCEPT ![p][b] = @ - 1]
  /\ UNCHANGED <<storageVars, managerVars, coordVars, sessionVars, pc, job,
                 cur, qpd, peerVars, wire>>

\* A read error, a peer that is too slow or chokes too long, or the session
\* context: the worker returns and its deferred function runs.
Disconnect(p) ==
  /\ Spend("disconnect")
  /\ pc[p] = "loop"
  /\ Goto(p, "leave")
  /\ UNCHANGED <<storageVars, managerVars, coordVars, sessionVars, job,
                 queueVars, peerVars, wire>>

\* A Piece message: handleReceivedBlock looks the piece up under Manager.mu.
Receive(p, i, b, good) ==
  /\ pc[p] = "loop" /\ mgrLock = None
  /\ wire[p][<<i, b>>] > 0
  /\ IF good THEN UNCHANGED left ELSE Spend("corrupt")
  /\ wire' = [wire EXCEPT ![p][<<i, b>>] = @ - 1]
  /\ IF mgr[i] # None
     THEN /\ job' = [job EXCEPT ![p] =
                       [piece |-> i, block |-> b, pd |-> mgr[i], good |-> good]]
          /\ Goto(p, "write")
     ELSE /\ Goto(p, IF IsIdle(p) THEN Continue(p, TRUE) ELSE "abandon")
          /\ UNCHANGED job
  /\ UNCHANGED <<storageVars, managerVars, coordVars, sessionVars, queueVars,
                 peerVars>>

\* A Piece message WriteBlock refuses, for its offset or its length.
Malformed(p, i, b) ==
  /\ Spend("malformed")
  /\ pc[p] = "loop" /\ mgrLock = None
  /\ wire[p][<<i, b>>] > 0
  /\ wire' = [wire EXCEPT ![p][<<i, b>>] = @ - 1]
  /\ Goto(p, IF IsIdle(p) THEN Continue(p, TRUE) ELSE "abandon")
  /\ UNCHANGED <<storageVars, managerVars, coordVars, sessionVars, job,
                 queueVars, peerVars>>

-----------------------------------------------------------------------------
(* handleReceivedBlock, after the lookup.                                  *)

\* WriteBlock on the object that was looked up, then CompleteBlock on this
\* peer's own queue, which goes by the offset alone.
Write(p) ==
  /\ pc[p] = "write"
  /\ LET d == job[p].pd
         b == job[p].block
     IN /\ IF pd[d][b] \in {"good", "bad"}
           THEN UNCHANGED pd
           ELSE pd' = [pd EXCEPT ![d][b] = IF job[p].good THEN "good" ELSE "bad"]
        /\ qout' = [qout EXCEPT ![p][b] = IF @ > 0 THEN @ - 1 ELSE 0]
  /\ Goto(p, "check")
  /\ UNCHANGED <<storageVars, mgr, mgrLock, coordVars, sessionVars, job, cur,
                 qpd, peerVars, envVars>>

\* IsComplete on the object that was looked up; otherwise refill the pipeline.
Check(p) ==
  /\ pc[p] = "check"
  /\ \/ /\ IsComplete(job[p].pd)
        /\ Goto(p, "complete")
        /\ job' = [job EXCEPT ![p] = PieceJob(job[p].piece)]
     \/ /\ ~IsComplete(job[p].pd)
        /\ IF IsIdle(p)
           THEN /\ Goto(p, Continue(p, TRUE))
                /\ job' = [job EXCEPT ![p] = NoJob]
           ELSE /\ Goto(p, "fill")
                /\ job' = [job EXCEPT ![p] = PieceJob(job[p].piece)]
  /\ UNCHANGED <<storageVars, managerVars, coordVars, sessionVars, queueVars,
                 peerVars, envVars>>

\* One iteration of FillPipeline: NextBlock on the queue's own object, and a
\* request for the piece the handler is working on.
Fill(p) ==
  /\ pc[p] = "fill"
  /\ LET d    == qpd[p]
         free == {b \in Blocks : pd[d][b] = "free"}
     IN \/ /\ Pending(qout[p]) < MaxPipeline
           /\ \E b \in free :
                /\ pd' = [pd EXCEPT ![d][b] = "requested"]
                /\ qout' = [qout EXCEPT ![p][b] = @ + 1]
                /\ wire' = [wire EXCEPT ![p][<<job[p].piece, b>>] =
                              IF @ < MaxCopies THEN @ + 1 ELSE @]
           /\ UNCHANGED <<pc, job>>
        \/ /\ free = {} \/ Pending(qout[p]) >= MaxPipeline
           /\ Goto(p, "loop")
           /\ job' = [job EXCEPT ![p] = NoJob]
           /\ UNCHANGED <<pd, qout, wire>>
  /\ UNCHANGED <<storageVars, mgr, mgrLock, coordVars, sessionVars, cur, qpd,
                 peerVars, left>>

\* Manager.CompletePiece, first half: WritePiece sets the bit, then the lock
\* is kept for the verification.
Complete(p) ==
  /\ pc[p] = "complete" /\ mgrLock = None
  /\ LET i == job[p].piece
     IN \/ /\ mgr[i] = None
           /\ Goto(p, "reject")
           /\ UNCHANGED <<storageVars, mgrLock, left>>
        \/ /\ mgr[i] # None
           /\ disk' = [disk EXCEPT ![i] = Content(mgr[i])]
           /\ bits' = bits \cup {i}
           /\ mgrLock' = p
           /\ Goto(p, "verify")
           /\ UNCHANGED left
        \/ /\ mgr[i] # None /\ Spend("diskfault")
           /\ \E c \in {disk[i], "bad"} : disk' = [disk EXCEPT ![i] = c]
           /\ Goto(p, "reject")
           /\ UNCHANGED <<bits, mgrLock>>
  /\ UNCHANGED <<mgr, pd, coordVars, sessionVars, job, queueVars, peerVars,
                 wire>>

\* Manager.CompletePiece, second half: VerifyPiece reads the piece back.  A
\* read error leaves the bit and the in-progress entry as they are.
Verify(p) ==
  /\ pc[p] = "verify"
  /\ LET i == job[p].piece
     IN \/ /\ HashMatches(i)
           /\ mgr' = [mgr EXCEPT ![i] = None]
           /\ Goto(p, AfterVerify(TRUE))
           /\ UNCHANGED <<bits, pd, left>>
        \/ /\ ~HashMatches(i)
           /\ bits' = BitsOnMismatch(i)
           /\ pd' = [pd EXCEPT ![mgr[i]] = NewBlocks]
           /\ mgr' = InProgressOnMismatch(i)
           /\ Goto(p, AfterVerify(FALSE))
           /\ UNCHANGED left
        \/ /\ Spend("diskfault")
           /\ Goto(p, "reject")
           /\ UNCHANGED <<bits, pd, mgr>>
  /\ mgrLock' = LockOnReturn(HashMatches(job[p].piece))
  /\ UNCHANGED <<disk, coordVars, sessionVars, job, queueVars, peerVars, wire>>

\* completePiece on success: NotifyPieceComplete, then the peer is idle again.
Notify(p) ==
  /\ pc[p] = "notify"
  /\ Send(completedCh, job[p].piece)
  /\ ClearQueue(p)
  /\ job' = [job EXCEPT ![p] = NoJob]
  /\ Goto(p, "finish")
  /\ UNCHANGED <<storageVars, managerVars, pstate, endgame, failedCh,
                 sessionVars, peerVars, envVars>>

\* The end of completePiece: seed when the bitfield is full.
Finish(p) ==
  /\ pc[p] = "finish"
  /\ state' = IF bits = Pieces THEN "Seeding" ELSE state
  /\ Goto(p, IF unchoked[p] /\ state' # "Paused" THEN "request" ELSE "loop")
  /\ UNCHANGED <<storageVars, managerVars, coordVars, monitor, job, queueVars,
                 peerVars, envVars>>

\* completePiece on any error of CompletePiece counts a hash failure.
Reject(p) ==
  /\ pc[p] = "reject"
  /\ Send(failedCh, job[p].piece)
  /\ strikes' = [strikes EXCEPT ![p] = @ + 1]
  /\ ClearQueue(p)
  /\ job' = [job EXCEPT ![p] = NoJob]
  /\ Goto(p, IF strikes[p] + 1 >= BanAt THEN "leave" ELSE Continue(p, TRUE))
  /\ UNCHANGED <<storageVars, managerVars, pstate, endgame, completedCh,
                 sessionVars, unchoked, remoteBits, envVars>>

\* The error branch of the Piece message: fail the peer's current piece.
Abandon(p) ==
  /\ pc[p] = "abandon"
  /\ Send(failedCh, cur[p])
  /\ ClearQueue(p)
  /\ Goto(p, Continue(p, TRUE))
  /\ UNCHANGED <<storageVars, managerVars, pstate, endgame, completedCh,
                 sessionVars, job, peerVars, envVars>>

-----------------------------------------------------------------------------
(* The timeout branch of the ticker, and the deferred function.            *)

TimeoutFail(p) ==
  /\ pc[p] = "timeout"
  /\ Send(failedCh, cur[p])
  /\ Goto(p, "drop")
  /\ UNCHANGED <<storageVars, managerVars, pstate, endgame, completedCh,
                 sessionVars, job, queueVars, peerVars, envVars>>

\* Manager.FailPiece clears the bit and forgets the object.
Drop(p) ==
  /\ pc[p] = "drop" /\ mgrLock = None
  /\ bits' = bits \ {cur[p]}
  /\ mgr' = [mgr EXCEPT ![cur[p]] = None]
  /\ ClearQueue(p)
  /\ Goto(p, Continue(p, TRUE))
  /\ UNCHANGED <<disk, pd, mgrLock, coordVars, sessionVars, job, peerVars,
                 envVars>>

\* The coordinator is told about the current piece; the Manager is not.
Leave(p) ==
  /\ pc[p] = "leave"
  /\ IF HoldsPiece(p) THEN Send(failedCh, cur[p]) ELSE UNCHANGED failedCh
  /\ ClearQueue(p)
  /\ wire' = [wire EXCEPT ![p] = NoRequests]
  /\ Goto(p, "off")
  /\ UNCHANGED <<storageVars, managerVars, pstate, endgame, completedCh,
                 sessionVars, job, peerVars, left>>

-----------------------------------------------------------------------------
(* startDownloading: the coordinator answers, then the worker starts.      *)

\* Mutated: pieces in progress are not excluded outside endgame.
AnyMissing(p, eg) == remoteBits[p] \ bits

\* SelectPiece: the peer has it, the bitfield does not, and outside endgame
\* no other peer is downloading it.
Candidates(p, eg) ==
  {i \in remoteBits[p] \ bits : eg \/ pstate[i] # "Downloading"}

HandlePieceRequest(p) ==
  /\ pc[p] = "request"
  /\ endgame' = (endgame \/ EndgameDue(pstate))
  /\ \/ /\ Candidates(p, endgame') = {}
        /\ Goto(p, "loop")
        /\ UNCHANGED <<pstate, job>>
     \/ \E i \in Candidates(p, endgame') :
          /\ pstate' = [pstate EXCEPT ![i] = "Downloading"]
          /\ job' = [job EXCEPT ![p] = PieceJob(i)]
          /\ Goto(p, "start")
  /\ UNCHANGED <<storageVars, managerVars, completedCh, failedCh, sessionVars,
                 queueVars, peerVars, envVars>>

\* Manager.StartPiece refuses a piece whose bit is set, and hands out the
\* object already in progress with its blocks as they are.
Start(p) ==
  /\ pc[p] = "start" /\ mgrLock = None
  /\ LET i == job[p].piece
     IN \/ /\ HasPiece(i)
           /\ Goto(p, "startfail")
           /\ UNCHANGED <<mgr, pd, queueVars>>
        \/ /\ ~HasPiece(i)
           /\ \E d \in PdIds :
                /\ IF mgr[i] # None
                   THEN d = mgr[i] /\ UNCHANGED <<mgr, pd>>
                   ELSE /\ Unreferenced(d)
                        /\ mgr' = [mgr EXCEPT ![i] = d]
                        /\ pd' = [pd EXCEPT ![d] = NewBlocks]
                /\ qpd' = [qpd EXCEPT ![p] = d]
           /\ cur' = [cur EXCEPT ![p] = i]
           /\ qout' = [qout EXCEPT ![p] = EmptyQueue]
           /\ Goto(p, "fill")
  /\ UNCHANGED <<storageVars, mgrLock, coordVars, sessionVars, job, peerVars,
                 envVars>>

StartFail(p) ==
  /\ pc[p] = "startfail"
  /\ Send(failedCh, job[p].piece)
  /\ job' = [job EXCEPT ![p] = NoJob]
  /\ Goto(p, "loop")
  /\ UNCHANGED <<storageVars, managerVars, pstate, endgame, completedCh,
                 sessionVars, queueVars, peerVars, envVars>>

-----------------------------------------------------------------------------
(* The coordinator's other cases.                                          *)

HandlePieceComplete ==
  /\ completedCh # <<>>
  /\ completedCh' = Tail(completedCh)
  /\ pstate' = [pstate EXCEPT ![Head(completedCh)] = "Complete"]
  /\ endgame' = (endgame \/ EndgameDue(pstate'))
  /\ UNCHANGED <<storageVars, managerVars, failedCh, sessionVars, pc, job,
                 queueVars, peerVars, envVars>>

\* Mutated: the failed piece stays assigned.
StillAssigned(i) == pstate
\* handlePieceFailed: the piece is needed again, whatever it was before.
NeededAgain(i) == [pstate EXCEPT ![i] = "Needed"]

HandlePieceFailed ==
  /\ failedCh # <<>>
  /\ failedCh' = Tail(failedCh)
  /\ pstate' = NeededAgain(Head(failedCh))
  /\ UNCHANGED <<storageVars, managerVars, endgame, completedCh, sessionVars,
                 pc, job, queueVars, peerVars, envVars>>

\* checkForStalledPieces: pieces assigned more than 120 seconds ago.
CheckForStalledPieces(stalled) ==
  /\ Spend("stall")
  /\ stalled # {}
  /\ \A i \in stalled : pstate[i] = "Downloading"
  /\ pstate' = [i \in Pieces |-> IF i \in stalled THEN "Needed" ELSE pstate[i]]
  /\ UNCHANGED <<storageVars, managerVars, endgame, completedCh, failedCh,
                 sessionVars, pc, job, queueVars, peerVars, wire>>

-----------------------------------------------------------------------------
(* The session's own state.                                                *)

SessionUnchanged == UNCHANGED <<storageVars, managerVars, coordVars, pc, job,
                                queueVars, peerVars, wire>>

\* Each second progressMonitor reads the state, and then the bitfield: what it
\* has seen of the state may be old when it sets it.
MonitorLook ==
  /\ state = "Downloading" /\ ~monitor
  /\ monitor' = TRUE
  /\ UNCHANGED <<state, left>> /\ SessionUnchanged

MonitorCheck ==
  /\ monitor
  /\ monitor' = FALSE
  /\ state' = IF bits = Pieces THEN "Seeding" ELSE state
  /\ UNCHANGED left /\ SessionUnchanged

Pause ==
  /\ Spend("pause")
  /\ state' = "Paused"
  /\ UNCHANGED monitor /\ SessionUnchanged

Resume ==
  /\ state = "Paused"
  /\ state' = IF bits = Pieces THEN "Seeding" ELSE "Downloading"
  /\ UNCHANGED <<monitor, left>> /\ SessionUnchanged

-----------------------------------------------------------------------------
Worker(p) ==
  \/ Write(p) \/ Check(p) \/ Fill(p) \/ Complete(p) \/ Verify(p) \/ Notify(p)
  \/ Finish(p) \/ Reject(p) \/ Abandon(p) \/ TimeoutFail(p) \/ Drop(p)
  \/ Leave(p) \/ Start(p) \/ StartFail(p)

Coordinator ==
  \/ \E p \in Peers : HandlePieceRequest(p)
  \/ HandlePieceComplete
  \/ HandlePieceFailed
  \/ \E stalled \in SUBSET Pieces : CheckForStalledPieces(stalled)

Environment(p) ==
  \/ Connect(p) \/ Unchoke(p) \/ Choke(p) \/ Bitfield(p)
  \/ IdleRetry(p) \/ Timeout(p) \/ Disconnect(p)
  \/ \E b \in Blocks : Cancel(p, b)
  \/ \E i \in Pieces : Have(p, i)
  \/ \E i \in Pieces, b \in Blocks : Malformed(p, i, b)
  \/ \E i \in Pieces, b \in Blocks, good \in BOOLEAN : Receive(p, i, b, good)

Next ==
  \/ \E p \in Peers : Worker(p) \/ Environment(p)
  \/ Coordinator
  \/ MonitorLook \/ MonitorCheck \/ Pause \/ Resume

Spec == Init /\ [][Next]_vars

-----------------------------------------------------------------------------
(***************************************************************************)
(* Fairness.  The Go scheduler runs every goroutine that can run, mutexes  *)
(* and channels hand themselves to every waiter (workers, SF because a     *)
(* lock or a channel slot may be free only from time to time), and select  *)
(* picks every ready case (coordinator).  The remote side is a good peer:  *)
(* it connects, says what it has, unchokes us once while it chokes us (it  *)
(* may say so again, which is not assumed), answers every request it has   *)
(* received and sends often enough for the ticker to be looked at (the     *)
(* loop reads it between two messages); nothing is assumed of the events   *)
(* in Budget.                                                              *)
(***************************************************************************)
InternalFairness ==
  /\ \A p \in Peers : SF_vars(Worker(p)) /\ WF_vars(HandlePieceRequest(p))
  /\ WF_vars(HandlePieceComplete) /\ WF_vars(HandlePieceFailed)
  /\ WF_vars(MonitorLook) /\ WF_vars(MonitorCheck)

FirstUnchoke(p) == ~unchoked[p] /\ Unchoke(p)

RemoteFairness ==
  \A p \in Peers :
    /\ WF_vars(Connect(p)) /\ SF_vars(Bitfield(p)) /\ SF_vars(FirstUnchoke(p))
    /\ SF_vars(IdleRetry(p))
    /\ \A i \in Pieces, b \in Blocks : SF_vars(Receive(p, i, b, TRUE))

ProgressSpec == Spec /\ InternalFairness
FairSpec     == Spec /\ InternalFairness /\ RemoteFairness

-----------------------------------------------------------------------------
(* The values the variables take.                                          *)
TypeOK ==
  /\ bits \subseteq Pieces
  /\ disk \in [Pieces -> {"good", "bad"}]
  /\ mgr \in [Pieces -> PdIds \cup {None}]
  /\ pd \in [PdIds -> [Blocks -> BlockState]]
  /\ mgrLock \in Peers \cup {None}
  /\ pstate \in [Pieces -> PieceState]
  /\ endgame \in BOOLEAN
  /\ completedCh \in Seq(Pieces) /\ failedCh \in Seq(Pieces)
  /\ state \in {"Downloading", "Seeding", "Paused"} /\ monitor \in BOOLEAN
  /\ pc \in [Peers -> PC]
  /\ job \in [Peers -> Jobs]
  /\ cur \in [Peers -> Pieces \cup {None}]
  /\ qpd \in [Peers -> PdIds \cup {None}]
  /\ qout \in [Peers -> [Blocks -> Nat]]
  /\ unchoked \in [Peers -> BOOLEAN]
  /\ remoteBits \in [Peers -> SUBSET Pieces]
  /\ strikes \in [Peers -> Nat]
  /\ wire \in [Peers -> [Pieces \X Blocks -> Nat]]
  /\ left \in [EventKinds -> Nat]

\* The window of Manager.CompletePiece in which piece i is written but not
\* verified: a worker is inside it and holds Manager.mu.
Verifying(i) == \E p \in Peers : pc[p] = "verify" /\ job[p].piece = i

NoDiskFault == left["diskfault"] = Budget["diskfault"]

(* WritePiece sets the bit before the hash is checked.  Whatever timers,   *)
(* disconnections and late answers do, a bit outlives that check only over *)
(* data that passed it, as long as the disk does not fail.                 *)
HeldIsVerified ==
  NoDiskFault => \A i \in bits : disk[i] = "good" \/ Verifying(i)

(* The bitfield and Manager.pieces change under different locks and are    *)
(* cleared by different peers, yet no piece is both held and in progress   *)
(* outside the verification window.                                        *)
InProgressNotHeld ==
  NoDiskFault => \A i \in bits : mgr[i] # None => Verifying(i)

(* The bytes under a set bit, which other peers may be reading, never      *)
(* change: a late or duplicate block cannot make a worker write the piece  *)
(* again.                                                                  *)
HeldNotOverwritten ==
  [][NoDiskFault => \A i \in bits : disk'[i] = disk[i]]_vars

\* Peer p has been given piece i and has not given it back.
Engaged(p, i) == cur[p] = i \/ (pc[p] = "start" /\ job[p].piece = i)

(* A piece the coordinator marks complete is in the bitfield: NotifyPiece- *)
(* Complete, late failures and reassignments never make the coordinator    *)
(* count towards endgame a piece that is not there (while no request times *)
(* out and the disk does not fail).                                        *)
CompleteIsHeld ==
  \A i \in Pieces : pstate[i] = "Complete" => i \in bits

(* A peer is charged with a hash failure only after bad data arrived from  *)
(* somebody: while no timer fires and no block is refused, no worker       *)
(* completes a piece that is missing a block.  In endgame, or after a      *)
(* timeout, it is not so: a peer may be charged with a piece that another  *)
(* has completed.                                                          *)
StrikeNeedsBadData ==
  (\E p \in Peers : strikes[p] > 0) => left["corrupt"] < Budget["corrupt"]

\* Who has piece i: the bitfield once it is verified, else the engaged peers.
Holders(i) ==
  IF i \in bits /\ disk[i] = "good" /\ ~Verifying(i) THEN {"bitfield"}
  ELSE {p \in Peers : Engaged(p, i)}

Lease == INSTANCE PieceLease WITH lease <- [i \in Pieces |-> Holders(i)]

(* Outside endgame, while no timer fires and no block is refused, the      *)
(* coordinator, the workers and the manager together lease each piece to   *)
(* one peer at a time, only the lessee stores it, and what is stored       *)
(* stays.  A peer whose block was refused still owes the others, and after *)
(* the second time its answer may complete what is now another's piece.    *)
ImplementsLease == Lease!Spec

Whole == bits = Pieces /\ \A i \in Pieces : disk[i] = "good"

\* The state is set to Seeding in the window before a piece fails its check.
EarlySeeding == state = "Seeding" /\ ~Whole

(* With peers that answer and unchoke once, the download ends in state      *)
(* Seeding with every piece verified, although some blocks arrive corrupt   *)
(* and the piece they belong to fails and is given to a peer again - or it  *)
(* has been Seeding too early (SeedingIsComplete, below), after which an    *)
(* idle peer asks for work only if it is unchoked once more, and the piece  *)
(* may be missing for ever.                                                 *)
Completes == <>[](state = "Seeding" /\ Whole) \/ <>EarlySeeding

(* No worker waits for ever inside a handler: neither on Manager.mu, nor   *)
(* on a full channel of the coordinator, nor for an assignment.            *)
HandlersEnd ==
  \A p \in Peers : (pc[p] \notin {"off", "loop"}) ~> (pc[p] \in {"off", "loop"})

-----------------------------------------------------------------------------
(* What the repository says and the code does not do.                      *)

(* A verified piece is never thrown away: FailPiece clears the bit only of *)
(* a piece "prematurely marked complete".                                  *)
VerifiedKept ==
  [][\A i \in bits : disk[i] = "good" /\ ~Verifying(i) => i \in bits']_vars

(* The session seeds only when every piece is held and verified.           *)
SeedingIsComplete ==
  state = "Seeding" => \A i \in Pieces : i \in bits /\ disk[i] = "good"
=============================================================================
