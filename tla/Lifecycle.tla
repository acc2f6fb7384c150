----------------------------- MODULE Lifecycle -----------------------------
(***************************************************************************)
(* The life of one torrent session over crashes and restarts: Start, Stop, *)
(* Pause, Resume and VerifyData as the API calls them, progressMonitor,    *)
(* the completion of pieces by download workers, FileStorage down to the   *)
(* bytes of its files, and the resume file.                                *)
(*                                                                         *)
(* Only disk and resume outlive the process.  A step accesses shared state *)
(* once; Session.mu is the variable mu, held over several steps.           *)
(*                                                                         *)
(* Abstractions: a byte of a file is never written, right or wrong; the    *)
(* coordinator gives any missing piece to any worker, so that two may have *)
(* the same one, as in endgame, and a worker that has lost its peer goes   *)
(* on as that of another peer (Download has the detail); the trackers and  *)
(* the connections are in Connections.                                     *)
(***************************************************************************)
EXTENDS Naturals, Sequences, FiniteSets

CONSTANTS
  Callers,      \* goroutines that call the session's methods
  Calls,        \* bound: the methods each of them calls
  Workers,      \* download workers
  FileLens,     \* lengths of the files of the torrent, in order
  PieceLen,     \* Info.PieceLength
  None,         \* Go's nil
  MaxEvents     \* bound: how often anything of this happens: wrong data, a request
                \* that times out, a VerifyData, a save that fails, a full event
                \* channel, a crash, a lost file

\* Where file f + 1 begins in the torrent, and where the last one ends.
Offset[f \in 0..Len(FileLens)] == IF f = 0 THEN 0 ELSE Offset[f - 1] + FileLens[f]

TotalLength == Offset[Len(FileLens)]
NumPieces == (TotalLength + PieceLen - 1) \div PieceLen
Pieces == 0..(NumPieces - 1)

ASSUME LifecycleAssumption ==
  /\ FileLens \in Seq(Nat) /\ TotalLength \in Nat \ {0}
  /\ PieceLen \in Nat \ {0}
  /\ IsFiniteSet(Workers) /\ None \notin Callers \cup Workers \cup Pieces
  /\ MaxEvents \in Nat

VARIABLES
  \* durable
  disk,         \* the content of each byte of each file
  resume,       \* the resume file
  \* the session object
  up,           \* the process runs and has a session object
  bits,         \* FileStorage.bitfield
  storage,      \* FileStorage.files: "new", "open" or "closed"
  state,        \* Session.state
  running,      \* Session.running
  cancelled,    \* Session.ctx is done
  eventOpen,    \* Session.eventCh is not closed
  mu,           \* holder of Session.mu
  monitor,      \* progressMonitor: "off", "ticking", or "saw" state Downloading
  pc,           \* next access of each caller
  snap,         \* the ResumeData a caller builds
  checks,       \* the piece VerifyData has come to
  wpc,          \* next access of each worker
  wpiece,       \* the piece of each worker
  \* history and bounds
  loaded,       \* the resume data this session has loaded
  missed,       \* pieces completed since the last snapshot for the resume file
  reentered,    \* Start was called while a Stop was under way
  told,         \* what became of EventComplete: "no", "sent", or only "dropped"
  events        \* how much of MaxEvents is spent

durableVars == <<disk, resume>>
sessionVars == <<state, running, cancelled, eventOpen, mu, monitor>>
callerVars == <<pc, snap, checks>>
workerVars == <<wpc, wpiece>>
historyVars == <<loaded, missed, reentered, told, events>>
vars == <<durableVars, up, bits, storage, sessionVars, callerVars, workerVars, historyVars>>

Spend == events < MaxEvents /\ events' = events + 1

-----------------------------------------------------------------------------
(* FileStorage *)

FileStart(f) == Offset[f - 1]

\* getPieceLength: the last piece may be shorter.
PieceLength(p) ==
  LET begin == p * PieceLen
      end == IF begin + PieceLen > TotalLength THEN TotalLength ELSE begin + PieceLen
  IN end - begin

\* Mutated: every range of a file starts at its first byte.
FromFileStart(cur, begin) == 0
\* The offset of a range in a file that begins at another offset.
InFile(cur, begin) == IF cur < begin THEN 0 ELSE cur - begin

(* calculateFileMapping: the sequence of <<file, offset in it, bytes>> that *)
(* a byte range is spread over; cur and left are currentOffset, remaining. *)
MapFile(acc, f) ==
  LET begin == FileStart(f)
      end == begin + FileLens[f]
      inFile == InFile(acc.cur, begin)
      room == end - (begin + inFile)
      bytes == IF room > acc.left THEN acc.left ELSE room
  IN IF acc.cur >= end \/ acc.left = 0
       THEN acc
       ELSE [cur |-> acc.cur + bytes, left |-> acc.left - bytes,
             maps |-> Append(acc.maps, <<f, inFile, bytes>>)]

FileMapping(offset, length) ==
  LET mapped[f \in 0..Len(FileLens)] ==
        IF f = 0 THEN [cur |-> offset, left |-> length, maps |-> <<>>]
        ELSE MapFile(mapped[f - 1], f)
  IN mapped[Len(FileLens)].maps

PieceMapping == [p \in Pieces |-> FileMapping(p * PieceLen, PieceLength(p))]
Extent(m) == {<<m[1], m[2] + k>> : k \in 0..(m[3] - 1)}

\* The bytes of the first n files a piece is spread over, and all its bytes.
PartOfPiece(p, n) == UNION {Extent(PieceMapping[p][i]) : i \in 1..n}
PieceBytes == [p \in Pieces |-> PartOfPiece(p, Len(PieceMapping[p]))]

Bytes == UNION {{f} \X (0..(FileLens[f] - 1)) : f \in DOMAIN FileLens}
Written(bytes, what) == [b \in Bytes |-> IF b \in bytes THEN what ELSE disk[b]]

\* VerifyPiece: what is read from the files has the hash of the torrent.
Verifies(p) == \A b \in PieceBytes[p] : disk[b] = "right"
IsComplete == bits = Pieces

-----------------------------------------------------------------------------
(* The resume file *)

NoFile == [kind |-> "none", listed |-> {}, bytes |-> {}]
Unreadable == [NoFile EXCEPT !.kind = "unreadable"]

\* Mutated: the number of bytes is rounded down, which loses the last pieces.
BytesRoundedDown == bits \ {NumPieces - 1}
\* Bitfield.GetBytes, and its counterpart SetBytes.
GetBytes == bits

\* Mutated: what was saved is trusted.
AppliedUnverified(data) == data.bytes
(* ApplyResumeData: the saved bytes become the bitfield, and the listed     *)
(* pieces that do not verify are cleared.                                  *)
Applied(data) == data.bytes \ {p \in data.listed : ~Verifies(p)}

Forget(alive) ==
  /\ up' = alive
  /\ bits' = {} /\ storage' = "new" /\ state' = "Stopped"
  /\ running' = FALSE /\ cancelled' = FALSE /\ eventOpen' = TRUE /\ mu' = None
  /\ monitor' = "off"
  /\ wpc' = [w \in Workers |-> "off"] /\ wpiece' = [w \in Workers |-> None]
  /\ pc' = [c \in Callers |-> "idle"] /\ snap' = [c \in Callers |-> NoFile]
  /\ checks' = [c \in Callers |-> None]
  /\ loaded' = NoFile /\ missed' = {} /\ reentered' = FALSE /\ told' = "no"

Init ==
  /\ disk = [b \in Bytes |-> "never"] /\ resume = NoFile
  /\ up = TRUE
  /\ bits = {} /\ storage = "new" /\ state = "Stopped"
  /\ running = FALSE /\ cancelled = FALSE /\ eventOpen = TRUE /\ mu = None
  /\ monitor = "off"
  /\ wpc = [w \in Workers |-> "off"] /\ wpiece = [w \in Workers |-> None]
  /\ pc = [c \in Callers |-> "idle"] /\ snap = [c \in Callers |-> NoFile]
  /\ checks = [c \in Callers |-> None]
  /\ loaded = NoFile /\ missed = {} /\ reentered = FALSE /\ told = "no"
  /\ events = 0

-----------------------------------------------------------------------------
(* Start.  The caller keeps Session.mu from its first to its last step.    *)

At(c, l) == pc[c] = l
Goto(c, l) == pc' = [pc EXCEPT ![c] = l]
May(c, method) == up /\ At(c, "idle") /\ method \in Calls[c]

\* What Stop waits for.
GoroutinesGone == monitor = "off" /\ \A w \in Workers : wpc[w] = "off"

\* sendEvent drops the event when the channel is full.
CompleteTold ==
  \/ told' = "sent" /\ UNCHANGED events
  \/ told' = (IF told = "sent" THEN "sent" ELSE "dropped") /\ Spend

(* FileStorage.Init, which keeps what the files hold; Load and             *)
(* ApplyResumeData, whose error is only logged; EventStarted; the monitor. *)
(* Nothing keeps a Start out while a Stop waits; the context is then done  *)
(* and stays so, and the workers of before go on meanwhile.                *)
StartLoads(c) ==
  /\ May(c, "Start") /\ mu = None /\ ~running /\ eventOpen
  /\ mu' = c /\ Goto(c, "starting")
  /\ storage' = "open" /\ loaded' = resume
  /\ bits' = IF resume.kind = "data" THEN Applied(resume) ELSE bits
  /\ state' = "Checking" /\ running' = TRUE /\ reentered' = (reentered \/ cancelled)
  /\ monitor' = IF monitor = "off" THEN "ticking" ELSE monitor
  /\ UNCHANGED <<durableVars, up, cancelled, eventOpen, snap, checks, workerVars,
                 missed, told, events>>

(* The coordinator, and with it the workers, only for what is incomplete.  *)
(* Where the context is done, a new worker returns before it does anything. *)
StartEnds(c) ==
  /\ At(c, "starting")
  /\ \/ /\ IsComplete /\ eventOpen /\ state' = "Seeding" /\ CompleteTold
        /\ UNCHANGED wpc
     \/ /\ ~IsComplete /\ state' = "Downloading"
        /\ wpc' = IF cancelled THEN wpc ELSE [w \in Workers |-> "idle"]
        /\ UNCHANGED <<told, events>>
  /\ mu' = None /\ Goto(c, "idle")
  /\ UNCHANGED <<durableVars, up, bits, storage, running, cancelled, eventOpen, monitor,
                 snap, checks, wpiece, loaded, missed, reentered>>

(* Started again, the session sends EventStarted on the channel Stop has   *)
(* closed, or adds to a WaitGroup on which Stop is just being woken.       *)
StartPanics(c) ==
  /\ May(c, "Start") /\ mu = None /\ ~running
  /\ ~eventOpen \/ (GoroutinesGone /\ \E d \in Callers : At(d, "waiting"))
  /\ Forget(FALSE)
  /\ UNCHANGED <<durableVars, events>>

-----------------------------------------------------------------------------
(* Pause and Resume *)

PauseLists(c) ==
  /\ May(c, "Pause") /\ mu = None /\ running
  /\ mu' = c /\ Goto(c, "listed")
  /\ snap' = [snap EXCEPT ![c] = [NoFile EXCEPT !.listed = bits]]
  /\ missed' = {}
  /\ UNCHANGED <<durableVars, up, bits, storage, state, running, cancelled, eventOpen,
                 monitor, checks, workerVars, loaded, reentered, told, events>>

(* CreateResumeData takes the list of the pieces and their bytes from two  *)
(* reads of a bitfield that workers go on changing.  Then Save writes over *)
(* the only copy: os.WriteFile first truncates it, and may fail after that. *)
SaveBegins(c) ==
  /\ At(c, "listed") /\ Goto(c, "writing")
  /\ snap' = [snap EXCEPT ![c].kind = "data", ![c].bytes = GetBytes]
  /\ resume' = Unreadable
  /\ UNCHANGED <<disk, up, bits, storage, sessionVars, checks, workerVars, historyVars>>

\* An error of Save is logged and nothing else.
SaveEnds(c) ==
  \/ resume' = snap[c] /\ UNCHANGED events
  \/ Spend /\ UNCHANGED resume

SaveDone(c) == SaveEnds(c) /\ snap' = [snap EXCEPT ![c] = NoFile]

PauseSaves(c) ==
  /\ At(c, "writing") /\ mu = c /\ eventOpen /\ SaveDone(c)
  /\ state' = "Paused" /\ mu' = None /\ Goto(c, "idle")
  /\ UNCHANGED <<disk, up, bits, storage, running, cancelled, eventOpen, monitor,
                 checks, workerVars, loaded, missed, reentered, told>>

\* Resume looks at the bitfield, then sets the state.
ResumeReads(c) ==
  /\ May(c, "Resume") /\ mu = None /\ running /\ state = "Paused"
  /\ mu' = c
  /\ Goto(c, IF IsComplete THEN "resume as Seeding" ELSE "resume as Downloading")
  /\ UNCHANGED <<durableVars, up, bits, storage, state, running, cancelled, eventOpen,
                 monitor, snap, checks, workerVars, historyVars>>

ResumeEnds(c) ==
  /\ \/ At(c, "resume as Seeding") /\ state' = "Seeding"
     \/ At(c, "resume as Downloading") /\ state' = "Downloading"
  /\ eventOpen /\ mu' = None /\ Goto(c, "idle")
  /\ UNCHANGED <<durableVars, up, bits, storage, running, cancelled, eventOpen, monitor,
                 snap, checks, workerVars, historyVars>>

-----------------------------------------------------------------------------
(* Stop, which gives up Session.mu once running is false *)

StopCancels(c) ==
  /\ May(c, "Stop") /\ mu = None /\ running
  /\ running' = FALSE /\ cancelled' = TRUE /\ Goto(c, "stopping")
  /\ UNCHANGED <<durableVars, up, bits, storage, state, eventOpen, mu, monitor,
                 snap, checks, workerVars, historyVars>>

StopLists(c) ==
  /\ At(c, "stopping") /\ Goto(c, "listed")
  /\ snap' = [snap EXCEPT ![c] = [NoFile EXCEPT !.listed = bits]]
  /\ missed' = {}
  /\ UNCHANGED <<durableVars, up, bits, storage, sessionVars, checks, workerVars, loaded, reentered, told, events>>

\* Storage is closed under workers that may be about to write.
StopSaves(c) ==
  /\ At(c, "writing") /\ mu # c /\ SaveDone(c)
  /\ storage' = "closed" /\ Goto(c, "waiting")
  /\ UNCHANGED <<disk, up, bits, sessionVars, checks, workerVars, loaded, missed, reentered, told>>

\* Mutated: the event channel is closed before the wait.
StopEndsAtOnce(c) ==
  /\ At(c, "waiting") /\ eventOpen
  /\ eventOpen' = FALSE /\ state' = "Stopped" /\ Goto(c, "idle")
  /\ UNCHANGED <<durableVars, up, bits, storage, running, cancelled, mu, monitor,
                 snap, checks, workerVars, historyVars>>

StopEnds(c) ==
  /\ At(c, "waiting") /\ GoroutinesGone /\ eventOpen
  /\ eventOpen' = FALSE /\ state' = "Stopped" /\ Goto(c, "idle")
  /\ UNCHANGED <<durableVars, up, bits, storage, running, cancelled, mu, monitor,
                 snap, checks, workerVars, historyVars>>

(* In a session that was started during a Stop: the end of a Start, Pause  *)
(* or Resume sends on the channel that the Stop has closed meanwhile, and  *)
(* the end of another Stop closes it once more.                            *)
Panics(c) ==
  /\ ~eventOpen
  /\ \/ /\ \/ At(c, "starting") /\ IsComplete
           \/ pc[c] \in {"resume as Seeding", "resume as Downloading"}
           \/ At(c, "waiting") /\ GoroutinesGone
        /\ UNCHANGED <<resume, events>>
     \/ At(c, "writing") /\ mu = c /\ SaveEnds(c)
  /\ Forget(FALSE)
  /\ UNCHANGED disk

\* A method that touches the files of a session that was never started.
VerifyPanics(c) ==
  /\ May(c, "VerifyData") /\ storage = "new"
  /\ Spend /\ Forget(FALSE)
  /\ UNCHANGED durableVars

-----------------------------------------------------------------------------
(* VerifyData, which takes no lock and counts an unreadable piece only     *)

VerifyStarts(c) ==
  /\ May(c, "VerifyData") /\ storage # "new" /\ Spend
  /\ Goto(c, "verifying") /\ checks' = [checks EXCEPT ![c] = 0]
  /\ UNCHANGED <<durableVars, up, bits, storage, sessionVars, snap, workerVars, loaded,
                 missed, reentered, told>>

\* Mutated: the loop goes one piece too far.
ToPieceTooFar(c) ==
  IF checks[c] + 1 \in 0..NumPieces
    THEN Goto(c, "verifying") /\ checks' = [checks EXCEPT ![c] = @ + 1]
    ELSE Goto(c, "idle") /\ checks' = [checks EXCEPT ![c] = None]

\* To the next piece, or back to the caller after the last.
ToNextPiece(c) ==
  IF checks[c] + 1 \in Pieces
    THEN Goto(c, "verifying") /\ checks' = [checks EXCEPT ![c] = @ + 1]
    ELSE Goto(c, "idle") /\ checks' = [checks EXCEPT ![c] = None]

VerifyReads(c) ==
  /\ At(c, "verifying")
  /\ IF storage = "open" /\ ~Verifies(checks[c])
       THEN Goto(c, "clearing") /\ UNCHANGED checks
       ELSE ToNextPiece(c)
  /\ UNCHANGED <<durableVars, up, bits, storage, sessionVars, snap, workerVars, historyVars>>

VerifyClears(c) ==
  /\ At(c, "clearing") /\ bits' = bits \ {checks[c]} /\ ToNextPiece(c)
  /\ UNCHANGED <<durableVars, up, storage, sessionVars, snap, workerVars, historyVars>>

-----------------------------------------------------------------------------
(* Download workers and progressMonitor *)

(* A worker gets a piece and all its blocks, unless the session is paused. *)
(* The selector offers what is not held, also after the context is done:   *)
(* the select of the loop may prefer the ticker.                           *)
Fetches(w, p) ==
  /\ wpc[w] = "idle" /\ state # "Paused" /\ p \notin bits
  /\ wpc' = [wpc EXCEPT ![w] = "fetched"] /\ wpiece' = [wpiece EXCEPT ![w] = p]
  /\ UNCHANGED <<durableVars, up, bits, storage, sessionVars, callerVars, historyVars>>

ToIdle(w) ==
  wpc' = [wpc EXCEPT ![w] = "idle"] /\ wpiece' = [wpiece EXCEPT ![w] = None]

\* The peer leaves, a block is refused, or CompletePiece fails before it writes:
\* the piece is not in progress any more, or the files are closed.
Loses(w) ==
  /\ wpc[w] = "fetched" /\ ToIdle(w)
  /\ UNCHANGED <<durableVars, up, bits, storage, sessionVars, callerVars, historyVars>>

\* A request times out: the coordinator is told first.
GivesUp(w) ==
  /\ wpc[w] = "fetched" /\ wpc' = [wpc EXCEPT ![w] = "dropping"] /\ Spend
  /\ UNCHANGED <<durableVars, up, bits, storage, sessionVars, callerVars, wpiece, loaded,
                 missed, reentered, told>>

\* Nobody is inside Manager.CompletePiece.
ManagerFree == \A v \in Workers : wpc[v] # "written"

(* Then Manager.FailPiece clears the bit, by when another worker may have  *)
(* completed the piece.  Start makes another Manager, with its own mutex.  *)
Drops(w) ==
  /\ wpc[w] = "dropping" /\ (ManagerFree \/ reentered)
  /\ bits' = bits \ {wpiece[w]} /\ ToIdle(w)
  /\ UNCHANGED <<durableVars, up, storage, sessionVars, callerVars, historyVars>>

(* Manager.CompletePiece, first half: write, and set the bit.  Manager.mu  *)
(* is held until the piece is verified.  A piece in progress is not held   *)
(* (Download has it as InProgressNotHeld), but for that of an old Manager. *)
Writes(w) ==
  /\ wpc[w] = "fetched" /\ ManagerFree /\ storage = "open"
  /\ (wpiece[w] \notin bits \/ reentered)
  /\ \/ disk' = Written(PieceBytes[wpiece[w]], "right") /\ UNCHANGED events
     \/ disk' = Written(PieceBytes[wpiece[w]], "wrong") /\ Spend
  /\ bits' = bits \cup {wpiece[w]} /\ missed' = missed \cup {wpiece[w]}
  /\ wpc' = [wpc EXCEPT ![w] = "written"]
  /\ UNCHANGED <<resume, up, storage, sessionVars, callerVars, wpiece, loaded, reentered,
                 told>>

\* Second half: an unreadable piece keeps its bit, a wrong one loses it.
Checks(w) ==
  /\ wpc[w] = "written"
  /\ IF storage = "open" /\ Verifies(wpiece[w])
       THEN wpc' = [wpc EXCEPT ![w] = "verified"] /\ UNCHANGED <<bits, wpiece>>
       ELSE bits' = (IF storage = "open" THEN bits \ {wpiece[w]} ELSE bits) /\ ToIdle(w)
  /\ UNCHANGED <<durableVars, up, storage, sessionVars, callerVars, historyVars>>

\* completePiece, after the piece is stored: EventPieceComplete and the state.
Completes(w) ==
  /\ wpc[w] = "verified" /\ ToIdle(w)
  /\ IF IsComplete THEN state' = "Seeding" /\ CompleteTold ELSE UNCHANGED <<state, told, events>>
  /\ UNCHANGED <<durableVars, up, bits, storage, running, cancelled, eventOpen, mu, monitor,
                 callerVars, loaded, missed, reentered>>

\* Mutated: a worker that waits for the end of a pause does not see the context.
LeavesUnlessPaused(w) ==
  /\ cancelled /\ state # "Paused" /\ wpc[w] = "idle" /\ wpc' = [wpc EXCEPT ![w] = "off"]
  /\ UNCHANGED <<durableVars, up, bits, storage, sessionVars, callerVars, wpiece, historyVars>>

\* The loop looks at the context before it reads a message.
Leaves(w) ==
  /\ cancelled /\ wpc[w] = "idle" /\ wpc' = [wpc EXCEPT ![w] = "off"]
  /\ UNCHANGED <<durableVars, up, bits, storage, sessionVars, callerVars, wpiece, historyVars>>

(* A tick of progressMonitor reads the state, later the bitfield, and sets *)
(* the state whatever it is by then.                                       *)
MonitorTick ==
  /\ monitor = "ticking" /\ state = "Downloading" /\ monitor' = "saw"
  /\ UNCHANGED <<durableVars, up, bits, storage, state, running, cancelled, eventOpen, mu,
                 callerVars, workerVars, historyVars>>

\* Mutated: the monitor leaves the state to the workers.
MonitorOnlyReports ==
  /\ monitor = "saw" /\ monitor' = "ticking"
  /\ UNCHANGED <<durableVars, up, bits, storage, state, running, cancelled, eventOpen, mu,
                 callerVars, workerVars, historyVars>>

MonitorChecks ==
  /\ monitor = "saw" /\ monitor' = "ticking"
  /\ IF IsComplete THEN state' = "Seeding" /\ CompleteTold ELSE UNCHANGED <<state, told, events>>
  /\ UNCHANGED <<durableVars, up, bits, storage, running, cancelled, eventOpen, mu,
                 callerVars, workerVars, loaded, missed, reentered>>

MonitorEnds ==
  /\ monitor = "ticking" /\ cancelled /\ monitor' = "off"
  /\ UNCHANGED <<durableVars, up, bits, storage, state, running, cancelled, eventOpen, mu,
                 callerVars, workerVars, historyVars>>

-----------------------------------------------------------------------------
(* What happens to the process and its files *)

Crash ==
  /\ up /\ Spend /\ Forget(FALSE)
  /\ UNCHANGED durableVars

\* A crash in WritePiece, after n of the files the piece is spread over.
CrashWriting(w, n) ==
  /\ wpc[w] = "fetched" /\ storage = "open" /\ n < Len(PieceMapping[wpiece[w]])
  /\ ManagerFree /\ (wpiece[w] \notin bits \/ reentered)
  /\ disk' = Written(PartOfPiece(wpiece[w], n), "right")
  /\ Spend /\ Forget(FALSE)
  /\ UNCHANGED resume

\* Somebody deletes a file before the session is started; Init makes a new one.
FileLost(f) ==
  /\ storage = "new" /\ Spend
  /\ disk' = Written(Bytes \cap ({f} \X Nat), "never")
  /\ UNCHANGED <<resume, up, bits, storage, sessionVars, callerVars, workerVars, loaded,
                 missed, reentered, told>>

Restart ==
  /\ ~up /\ up' = TRUE
  /\ UNCHANGED <<durableVars, bits, storage, sessionVars, callerVars, workerVars, historyVars>>

\* The torrent is removed and added again, or the program ends and runs again.
NewSession ==
  /\ up /\ ~eventOpen /\ \A c \in Callers : At(c, "idle")
  /\ Forget(TRUE)
  /\ UNCHANGED <<durableVars, events>>

-----------------------------------------------------------------------------
Call(c) ==
  \/ StartLoads(c) \/ PauseLists(c) \/ ResumeReads(c) \/ StopCancels(c) \/ VerifyStarts(c)
  \/ StartPanics(c) \/ VerifyPanics(c)

CallerStep(c) ==
  \/ StartEnds(c) \/ SaveBegins(c) \/ PauseSaves(c) \/ ResumeEnds(c)
  \/ StopLists(c) \/ StopSaves(c) \/ StopEnds(c) \/ Panics(c)
  \/ VerifyReads(c) \/ VerifyClears(c)

WorkerStep(w) == Writes(w) \/ Checks(w) \/ Completes(w) \/ Loses(w) \/ Drops(w)
MonitorStep == MonitorTick \/ MonitorChecks

Environment ==
  \/ Crash \/ Restart \/ NewSession
  \/ \E w \in Workers, n \in 0..Len(FileLens) : CrashWriting(w, n)
  \/ \E f \in DOMAIN FileLens : FileLost(f)

Next ==
  \/ \E c \in Callers : Call(c) \/ CallerStep(c)
  \/ \E w \in Workers : WorkerStep(w) \/ Leaves(w) \/ GivesUp(w) \/ \E p \in Pieces : Fetches(w, p)
  \/ MonitorStep \/ MonitorEnds
  \/ Environment

Spec == Init /\ [][Next]_vars

(* The Go scheduler runs every goroutine that can run: reads of the        *)
(* workers have deadlines, ticks come every second, and a select whose     *)
(* context is done does not lose to the ticker for ever.                   *)
Fairness ==
  /\ \A c \in Callers : WF_vars(CallerStep(c))
  /\ \A w \in Workers : WF_vars(WorkerStep(w)) /\ SF_vars(Leaves(w))
  /\ WF_vars(MonitorStep) /\ SF_vars(MonitorEnds)

FairSpec == Spec /\ Fairness

-----------------------------------------------------------------------------
(* Properties *)

ResumeFiles == [kind : {"none", "unreadable", "data"}, listed : SUBSET Pieces, bytes : SUBSET Pieces]

\* The type invariant.
TypeOK ==
  /\ disk \in [Bytes -> {"never", "right", "wrong"}] /\ resume \in ResumeFiles
  /\ up \in BOOLEAN /\ bits \subseteq Pieces /\ storage \in {"new", "open", "closed"}
  /\ state \in {"Stopped", "Checking", "Downloading", "Seeding", "Paused"}
  /\ running \in BOOLEAN /\ cancelled \in BOOLEAN /\ eventOpen \in BOOLEAN
  /\ mu \in Callers \cup {None}
  /\ monitor \in {"off", "ticking", "saw"}
  /\ pc \in [Callers -> {"idle", "starting", "listed", "writing",
                         "resume as Seeding", "resume as Downloading", "stopping",
                         "waiting", "verifying", "clearing"}]
  /\ snap \in [Callers -> [kind : {"none", "data"}, listed : SUBSET Pieces,
                           bytes : SUBSET Pieces]]
  /\ checks \in [Callers -> Pieces \cup {None}]
  /\ wpc \in [Workers -> {"off", "idle", "fetched", "dropping", "written", "verified"}]
  /\ wpiece \in [Workers -> Pieces \cup {None}]
  /\ loaded \in ResumeFiles /\ missed \subseteq Pieces
  /\ reentered \in BOOLEAN /\ told \in {"no", "dropped", "sent"}
  /\ events \in 0..MaxEvents

\* What a Start during a Stop leaves of the session is not described further:
\* two generations of workers and Managers share its files.
OneGeneration == ~reentered

(* After any sequence of crashes, saves and lost files, a piece the session *)
(* says it holds is right in the files, but for the piece that is written   *)
(* and not yet checked, and for one kind of restored piece: a piece that    *)
(* the saved bytes have and the saved list has not, because a worker set    *)
(* its bit between the two reads of CreateResumeData, is never verified.    *)
HeldIsRight ==
  storage = "open" /\ OneGeneration =>
    \A p \in bits :
      \/ Verifies(p)
      \/ \E w \in Workers : wpiece[w] = p /\ wpc[w] = "written"
      \/ p \in loaded.bytes \ loaded.listed

(* What a crash now would lose, of the pieces held and right, is at most    *)
(* what was completed since the resume data were last collected, unless a   *)
(* save is under way or a save that failed has left no readable file.       *)
OnlyMissedIsLost ==
  (\A c \in Callers : pc[c] \notin {"listed", "writing"}) /\ resume.kind # "unreadable"
      /\ OneGeneration
    => \A p \in bits : Verifies(p) => p \in resume.bytes \cup missed

(* Once Stop has closed the event channel no goroutine is left that sends   *)
(* on it: no monitor, no worker, and no Pause or Resume that had begun      *)
(* before - unless Start was called during the Stop, whose own end, or that *)
(* of a Pause after it, may then meet the closed channel (Panics).          *)
QuietWhenClosed == ~eventOpen => GoroutinesGone /\ (mu = None \/ reentered)

(* The bytes of a piece that is held and right are never spoilt again in    *)
(* the session, whatever neighbour that shares a file is written and by     *)
(* whom; and its bit is taken away by two steps only: by VerifyData, with   *)
(* what it had read before the piece was written, and by a worker whose     *)
(* request for it timed out while another worker completed it.              *)
HeldStays ==
  [][\A p \in Pieces :
       (p \in bits /\ Verifies(p) /\ storage # "new" /\ storage' # "new" /\ ~reentered')
         => /\ Verifies(p)'
            /\ \/ p \in bits'
               \/ \E c \in Callers : At(c, "clearing") /\ checks[c] = p
               \/ \E w \in Workers : wpc[w] = "dropping" /\ wpiece[w] = p]_vars

(* Stop returns: the save fails or not, the workers and the monitor see the *)
(* context, and the wait for them ends (unless the process dies first).     *)
StopReturns ==
  (\E c \in Callers : At(c, "stopping")) ~> (up => ~eventOpen)

(* A download that is complete is told to be: EventComplete is sent, or     *)
(* dropped because nobody empties the channel, and the state is Seeding     *)
(* although a Resume that read the bitfield before the last piece may have  *)
(* set it back to Downloading.                                              *)
SeedingSettles ==
  (running /\ bits = Pieces /\ \A p \in Pieces : Verifies(p))
    ~> ((told # "no" /\ state \in {"Seeding", "Paused"}) \/ cancelled \/ bits # Pieces)
=============================================================================
