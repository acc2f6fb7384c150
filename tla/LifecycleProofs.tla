-------------------------- MODULE LifecycleProofs --------------------------
(***************************************************************************)
(* The safety of Lifecycle, for any torrent, any number of workers and of   *)
(* callers and whatever they call, over any number of crashes and restarts. *)
(*                                                                         *)
(* LockInv and GoneInv are about who is in the middle of what: one that     *)
(* holds Session.mu keeps Stop out, and unless the session was started      *)
(* again during a Stop, at most one caller saves.  GoneInv is also why only *)
(* such a Start finds workers of before.  SaveInv follows the resume data   *)
(* from the bitfield into the file.                                         *)
(*                                                                         *)
(* What VerifyPiece reads depends on the layout of the files.  Covers is    *)
(* the invariant of the loop that maps a byte range to the files, proved by *)
(* induction over them: each byte belongs to just one piece.                *)
(***************************************************************************)
EXTENDS Lifecycle, Induction

USE DEF durableVars, sessionVars, callerVars, workerVars, historyVars

-----------------------------------------------------------------------------
(* Types.  Each part of TypeOK is proved on its own.                        *)

ByteStates == {"never", "right", "wrong"}
ResumeData == [kind : {"none", "data"}, listed : SUBSET Pieces, bytes : SUBSET Pieces]
CallerLabels == {"idle", "starting", "listed", "writing", "resume as Seeding",
                 "resume as Downloading", "stopping", "waiting", "verifying", "clearing"}
WorkerLabels == {"off", "idle", "fetched", "dropping", "written", "verified"}

FilesTyped == disk \in [Bytes -> ByteStates] /\ resume \in ResumeFiles /\ loaded \in ResumeFiles
FlagsTyped ==
  /\ up \in BOOLEAN /\ running \in BOOLEAN /\ cancelled \in BOOLEAN /\ eventOpen \in BOOLEAN
  /\ reentered \in BOOLEAN /\ told \in {"no", "dropped", "sent"}
StatesTyped ==
  /\ state \in {"Stopped", "Checking", "Downloading", "Seeding", "Paused"}
  /\ monitor \in {"off", "ticking", "saw"}
LockTyped == mu \in Callers \cup {None} /\ storage \in {"new", "open", "closed"}
CallersTyped ==
  /\ pc \in [Callers -> CallerLabels] /\ checks \in [Callers -> Pieces \cup {None}]
  /\ \A c \in Callers : pc[c] \in {"verifying", "clearing"} => checks[c] \in Pieces
SnapTyped ==
  /\ snap \in [Callers -> ResumeData]
  /\ \A c \in Callers : pc[c] = "writing" => snap[c].kind = "data"
WorkersTyped ==
  /\ wpc \in [Workers -> WorkerLabels] /\ wpiece \in [Workers -> Pieces \cup {None}]
  /\ \A w \in Workers : wpc[w] \in {"fetched", "dropping", "written", "verified"} => wpiece[w] \in Pieces
PiecesTyped == bits \subseteq Pieces /\ missed \subseteq Pieces
EventsTyped == events \in 0..MaxEvents

Typed == /\ FilesTyped /\ FlagsTyped /\ StatesTyped /\ LockTyped /\ CallersTyped /\ SnapTyped
         /\ WorkersTyped /\ PiecesTyped /\ EventsTyped

LEMMA TypedIsType == Typed => TypeOK
  BY DEF Typed, TypeOK, FilesTyped, FlagsTyped, StatesTyped, LockTyped,
     CallersTyped, SnapTyped, WorkersTyped,
     PiecesTyped, EventsTyped, ByteStates, ResumeData, CallerLabels, WorkerLabels

LEMMA PiecesFacts == Pieces \subseteq Nat /\ 0 \in Pieces /\ None \notin Pieces
  <1>1. NumPieces \in Nat \ {0}
    BY LifecycleAssumption DEF NumPieces
  <1> QED
    BY <1>1, LifecycleAssumption DEF Pieces

LEMMA NoFileFacts ==
  /\ NoFile \in ResumeData /\ NoFile \in ResumeFiles /\ Unreadable \in ResumeFiles
  /\ NoFile.kind = "none" /\ NoFile.listed = {} /\ NoFile.bytes = {}
  /\ Unreadable.kind = "unreadable" /\ ResumeData \subseteq ResumeFiles
  BY DEF NoFile, Unreadable, ResumeData, ResumeFiles

LEMMA FilesStep ==
  ASSUME FilesTyped, SnapTyped, Next
  PROVE  FilesTyped'
  <1> USE NoFileFacts DEF FilesTyped
  <1>1. ASSUME NEW c \in Callers, Call(c) PROVE FilesTyped'
    BY <1>1 DEF Call, StartLoads, PauseLists, ResumeReads, StopCancels, VerifyStarts, StartPanics,
       VerifyPanics, Forget
  <1>2. ASSUME NEW c \in Callers, CallerStep(c) PROVE FilesTyped'
    <2>1. /\ disk' = disk /\ loaded' \in {loaded, NoFile}
          /\ resume' = resume \/ resume' = Unreadable \/ resume' = snap[c]
      BY <1>2 DEF CallerStep, StartEnds, SaveBegins, PauseSaves, SaveDone, SaveEnds, ResumeEnds,
         StopLists, StopSaves, StopEnds, Panics, Forget, VerifyReads, VerifyClears
    <2> QED
      BY <2>1 DEF SnapTyped
  <1>3. ASSUME NEW w \in Workers, Writes(w) PROVE FilesTyped'
    BY <1>3 DEF Writes, Written, ByteStates
  <1>4. ASSUME NEW w \in Workers,
               Checks(w) \/ Completes(w) \/ Loses(w) \/ Drops(w) \/ GivesUp(w) \/ Leaves(w)
        PROVE  FilesTyped'
    BY <1>4 DEF Checks, Completes, Loses, Drops, GivesUp, Leaves
  <1>5. ASSUME NEW w \in Workers, NEW p \in Pieces, Fetches(w, p) PROVE FilesTyped'
    BY <1>5 DEF Fetches
  <1>6. CASE MonitorStep \/ MonitorEnds \/ Crash \/ Restart \/ NewSession
    BY <1>6 DEF MonitorStep, MonitorTick, MonitorChecks, CompleteTold, MonitorEnds, Crash, Restart,
       NewSession, Forget
  <1>7. ASSUME NEW w \in Workers, NEW n \in 0..Len(FileLens), CrashWriting(w, n) PROVE FilesTyped'
    BY <1>7 DEF CrashWriting, Forget, Written, ByteStates
  <1>8. ASSUME NEW f \in DOMAIN FileLens, FileLost(f) PROVE FilesTyped'
    BY <1>8 DEF FileLost, Written, ByteStates
  <1> QED
    BY <1>1, <1>2, <1>3, <1>4, <1>5, <1>6, <1>7, <1>8 DEF Next, WorkerStep, Environment

LEMMA FlagsStep ==
  ASSUME FlagsTyped, Next
  PROVE  FlagsTyped'
  <1> USE DEF FlagsTyped
  <1>1. ASSUME NEW c \in Callers, Call(c) PROVE FlagsTyped'
    BY <1>1 DEF Call, StartLoads, PauseLists, ResumeReads, StopCancels, VerifyStarts, StartPanics,
       VerifyPanics, Forget
  <1>2. ASSUME NEW c \in Callers, CallerStep(c) PROVE FlagsTyped'
    BY <1>2 DEF CallerStep, StartEnds, CompleteTold, SaveBegins, PauseSaves, ResumeEnds, StopLists,
       StopSaves, StopEnds, Panics, Forget, VerifyReads, VerifyClears
  <1>3. ASSUME NEW w \in Workers, WorkerStep(w) \/ Leaves(w) \/ GivesUp(w) PROVE FlagsTyped'
    BY <1>3 DEF WorkerStep, Writes, Checks, Completes, CompleteTold, Loses, Drops, ToIdle,
       GivesUp, Leaves
  <1>4. ASSUME NEW w \in Workers, NEW p \in Pieces, Fetches(w, p) PROVE FlagsTyped'
    BY <1>4 DEF Fetches
  <1>5. CASE MonitorStep \/ MonitorEnds
    BY <1>5 DEF MonitorStep, MonitorTick, MonitorChecks, CompleteTold, MonitorEnds
  <1>6. CASE Environment
    BY <1>6 DEF Environment, Crash, Restart, NewSession, CrashWriting, FileLost, Forget
  <1> QED
    BY <1>1, <1>2, <1>3, <1>4, <1>5, <1>6 DEF Next

LEMMA StatesStep ==
  ASSUME StatesTyped, Next
  PROVE  StatesTyped'
  <1> USE DEF StatesTyped
  <1>1. ASSUME NEW c \in Callers, Call(c) PROVE StatesTyped'
    BY <1>1 DEF Call, StartLoads, PauseLists, ResumeReads, StopCancels, VerifyStarts, StartPanics,
       VerifyPanics, Forget
  <1>2. ASSUME NEW c \in Callers, CallerStep(c) PROVE StatesTyped'
    BY <1>2 DEF CallerStep, StartEnds, CompleteTold, SaveBegins, PauseSaves, ResumeEnds, StopLists,
       StopSaves, StopEnds, Panics, Forget, VerifyReads, VerifyClears
  <1>3. ASSUME NEW w \in Workers, WorkerStep(w) \/ Leaves(w) \/ GivesUp(w) PROVE StatesTyped'
    BY <1>3 DEF WorkerStep, Writes, Checks, Completes, CompleteTold, Loses, Drops, ToIdle,
       GivesUp, Leaves
  <1>4. ASSUME NEW w \in Workers, NEW p \in Pieces, Fetches(w, p) PROVE StatesTyped'
    BY <1>4 DEF Fetches
  <1>5. CASE MonitorStep \/ MonitorEnds
    BY <1>5 DEF MonitorStep, MonitorTick, MonitorChecks, CompleteTold, MonitorEnds
  <1>6. CASE Environment
    BY <1>6 DEF Environment, Crash, Restart, NewSession, CrashWriting, FileLost, Forget
  <1> QED
    BY <1>1, <1>2, <1>3, <1>4, <1>5, <1>6 DEF Next

LEMMA LockStep ==
  ASSUME LockTyped, Next
  PROVE  LockTyped'
  <1> USE DEF LockTyped
  <1>1. ASSUME NEW c \in Callers, Call(c) PROVE LockTyped'
    BY <1>1 DEF Call, StartLoads, PauseLists, ResumeReads, StopCancels, VerifyStarts, StartPanics,
       VerifyPanics, Forget
  <1>2. ASSUME NEW c \in Callers, CallerStep(c) PROVE LockTyped'
    BY <1>2 DEF CallerStep, StartEnds, CompleteTold, SaveBegins, PauseSaves, ResumeEnds, StopLists,
       StopSaves, StopEnds, Panics, Forget, VerifyReads, VerifyClears
  <1>3. ASSUME NEW w \in Workers, WorkerStep(w) \/ Leaves(w) \/ GivesUp(w) PROVE LockTyped'
    BY <1>3 DEF WorkerStep, Writes, Checks, Completes, CompleteTold, Loses, Drops, ToIdle,
       GivesUp, Leaves
  <1>4. ASSUME NEW w \in Workers, NEW p \in Pieces, Fetches(w, p) PROVE LockTyped'
    BY <1>4 DEF Fetches
  <1>5. CASE MonitorStep \/ MonitorEnds
    BY <1>5 DEF MonitorStep, MonitorTick, MonitorChecks, CompleteTold, MonitorEnds
  <1>6. CASE Environment
    BY <1>6 DEF Environment, Crash, Restart, NewSession, CrashWriting, FileLost, Forget
  <1> QED
    BY <1>1, <1>2, <1>3, <1>4, <1>5, <1>6 DEF Next

LEMMA EventsStep ==
  ASSUME EventsTyped, Next
  PROVE  EventsTyped'
  <1> SUFFICES UNCHANGED events \/ Spend
    BY LifecycleAssumption DEF EventsTyped, Spend
  <1>1. ASSUME NEW c \in Callers, Call(c) PROVE UNCHANGED events \/ Spend
    BY <1>1 DEF Call, StartLoads, PauseLists, ResumeReads, StopCancels, VerifyStarts, StartPanics,
       VerifyPanics
  <1>2. ASSUME NEW c \in Callers, CallerStep(c) PROVE UNCHANGED events \/ Spend
    BY <1>2 DEF CallerStep, StartEnds, CompleteTold, SaveBegins, PauseSaves, SaveDone, SaveEnds,
       ResumeEnds, StopLists, StopSaves, StopEnds, Panics, VerifyReads, VerifyClears
  <1>3. ASSUME NEW w \in Workers, WorkerStep(w) \/ Leaves(w) \/ GivesUp(w) PROVE UNCHANGED events \/ Spend
    BY <1>3 DEF WorkerStep, Writes, Checks, Completes, CompleteTold, Loses, Drops, ToIdle,
       GivesUp, Leaves
  <1>4. ASSUME NEW w \in Workers, NEW p \in Pieces, Fetches(w, p) PROVE UNCHANGED events \/ Spend
    BY <1>4 DEF Fetches
  <1>5. CASE MonitorStep \/ MonitorEnds
    BY <1>5 DEF MonitorStep, MonitorTick, MonitorChecks, CompleteTold, MonitorEnds
  <1>6. CASE Environment
    BY <1>6 DEF Environment, Crash, Restart, NewSession, CrashWriting, FileLost
  <1> QED
    BY <1>1, <1>2, <1>3, <1>4, <1>5, <1>6 DEF Next

LEMMA GoesTo ==
  ASSUME CallersTyped, NEW c \in Callers, UNCHANGED checks,
         NEW l \in CallerLabels \ {"verifying", "clearing"}, Goto(c, l)
  PROVE  CallersTyped'
  BY DEF CallersTyped, Goto

LEMMA GoesOn ==
  ASSUME CallersTyped, NEW c \in Callers, checks[c] \in Pieces, ToNextPiece(c)
  PROVE  CallersTyped'
  BY PiecesFacts DEF CallersTyped, CallerLabels, ToNextPiece, Goto

\* What a process that dies or a new session leaves of them.
LEMMA ForgottenTyped ==
  ASSUME NEW alive, Forget(alive)
  PROVE  CallersTyped' /\ WorkersTyped'
  <1>1. CallersTyped'
    BY DEF Forget, CallersTyped, CallerLabels
  <1>2. WorkersTyped'
    BY DEF Forget, WorkersTyped, WorkerLabels
  <1> QED
    BY <1>1, <1>2

LEMMA CallersStep ==
  ASSUME CallersTyped, Next
  PROVE  CallersTyped'
  <1>1. ASSUME NEW c \in Callers, Call(c) PROVE CallersTyped'
    <2>1. CASE StartLoads(c) \/ PauseLists(c) \/ ResumeReads(c) \/ StopCancels(c)
      <3>1. /\ UNCHANGED checks
            /\ \E l \in CallerLabels \ {"verifying", "clearing"} : Goto(c, l)
        BY <2>1 DEF StartLoads, PauseLists, ResumeReads, StopCancels, CallerLabels, Goto
      <3> QED
        BY <3>1, GoesTo
    <2>2. CASE VerifyStarts(c)
      BY <2>2, PiecesFacts DEF VerifyStarts, Goto, CallersTyped, CallerLabels
    <2>3. CASE StartPanics(c) \/ VerifyPanics(c)
      BY <2>3, ForgottenTyped DEF StartPanics, VerifyPanics
    <2> QED
      BY <1>1, <2>1, <2>2, <2>3 DEF Call
  <1>2. ASSUME NEW c \in Callers, CallerStep(c) PROVE CallersTyped'
    <2>1. CASE StartEnds(c) \/ SaveBegins(c) \/ PauseSaves(c) \/ ResumeEnds(c)
               \/ StopLists(c) \/ StopSaves(c) \/ StopEnds(c)
      <3>1. /\ UNCHANGED checks
            /\ \E l \in CallerLabels \ {"verifying", "clearing"} : Goto(c, l)
        BY <2>1 DEF StartEnds, SaveBegins, PauseSaves, ResumeEnds, StopLists, StopSaves, StopEnds,
           CallerLabels
      <3> QED
        BY <3>1, GoesTo
    <2>2. CASE VerifyReads(c)
      <3>1. checks[c] \in Pieces
        BY <2>2 DEF VerifyReads, At, CallersTyped
      <3>2. CASE Goto(c, "clearing") /\ UNCHANGED checks
        BY <3>1, <3>2 DEF CallersTyped, CallerLabels, Goto
      <3> QED
        BY <2>2, <3>1, <3>2, GoesOn DEF VerifyReads
    <2>3. CASE VerifyClears(c)
      BY <2>3, GoesOn DEF VerifyClears, At, CallersTyped
    <2>4. CASE Panics(c)
      BY <2>4, ForgottenTyped DEF Panics
    <2> QED
      BY <1>2, <2>1, <2>2, <2>3, <2>4 DEF CallerStep
  <1>3. ASSUME NEW w \in Workers, WorkerStep(w) \/ Leaves(w) \/ GivesUp(w) PROVE CallersTyped'
    BY <1>3 DEF WorkerStep, Writes, Checks, Completes, CompleteTold, Loses, Drops, ToIdle,
       GivesUp, Leaves, CallersTyped
  <1>4. ASSUME NEW w \in Workers, NEW p \in Pieces, Fetches(w, p) PROVE CallersTyped'
    BY <1>4 DEF Fetches, CallersTyped
  <1>5. CASE MonitorStep \/ MonitorEnds
    BY <1>5 DEF MonitorStep, MonitorTick, MonitorChecks, CompleteTold, MonitorEnds, CallersTyped
  <1>6. CASE Environment
    <2>1. CASE Restart \/ \E f \in DOMAIN FileLens : FileLost(f)
      BY <2>1 DEF Restart, FileLost, CallersTyped
    <2> QED
      BY <1>6, <2>1, ForgottenTyped DEF Environment, Crash, NewSession, CrashWriting
  <1> QED
    BY <1>1, <1>2, <1>3, <1>4, <1>5, <1>6 DEF Next

LEMMA SnapStep ==
  ASSUME CallersTyped, SnapTyped, PiecesTyped, Next
  PROVE  SnapTyped'
  <1> USE NoFileFacts DEF SnapTyped
  <1>1. ASSUME NEW c \in Callers, Call(c) PROVE SnapTyped'
    <2>1. CASE PauseLists(c)
      BY <2>1 DEF PauseLists, Goto, CallersTyped, PiecesTyped, NoFile, ResumeData
    <2>2. CASE StartPanics(c) \/ VerifyPanics(c)
      BY <2>2 DEF StartPanics, VerifyPanics, Forget
    <2>3. CASE StartLoads(c) \/ ResumeReads(c) \/ StopCancels(c) \/ VerifyStarts(c)
      <3>1. UNCHANGED snap /\ \E l \in CallerLabels \ {"writing"} : Goto(c, l)
        BY <2>3 DEF StartLoads, ResumeReads, StopCancels, VerifyStarts, CallerLabels, Goto
      <3> QED
        BY <3>1 DEF Goto, CallersTyped
    <2> QED
      BY <1>1, <2>1, <2>2, <2>3 DEF Call
  <1>2. ASSUME NEW c \in Callers, CallerStep(c) PROVE SnapTyped'
    <2>1. CASE SaveBegins(c)
      BY <2>1 DEF SaveBegins, Goto, CallersTyped, PiecesTyped, GetBytes, ResumeData
    <2>2. CASE StopLists(c)
      BY <2>2 DEF StopLists, Goto, CallersTyped, PiecesTyped, NoFile, ResumeData
    <2>3. CASE PauseSaves(c) \/ StopSaves(c)
      <3>1. snap' = [snap EXCEPT ![c] = NoFile] /\ \E l \in CallerLabels \ {"writing"} : Goto(c, l)
        BY <2>3 DEF PauseSaves, StopSaves, SaveDone, CallerLabels
      <3> QED
        BY <3>1 DEF Goto, CallersTyped
    <2>4. CASE StartEnds(c) \/ ResumeEnds(c) \/ StopEnds(c) \/ VerifyReads(c) \/ VerifyClears(c)
      <3>1. UNCHANGED snap /\ \E l \in CallerLabels \ {"writing"} : Goto(c, l)
        BY <2>4 DEF StartEnds, ResumeEnds, StopEnds, VerifyReads, VerifyClears, ToNextPiece,
           CallerLabels
      <3> QED
        BY <3>1 DEF Goto, CallersTyped
    <2>5. CASE Panics(c)
      BY <2>5 DEF Panics, Forget
    <2> QED
      BY <1>2, <2>1, <2>2, <2>3, <2>4, <2>5 DEF CallerStep
  <1>3. ASSUME NEW w \in Workers, WorkerStep(w) \/ Leaves(w) \/ GivesUp(w) PROVE SnapTyped'
    BY <1>3 DEF WorkerStep, Writes, Checks, Completes, CompleteTold, Loses, Drops, ToIdle,
       GivesUp, Leaves
  <1>4. ASSUME NEW w \in Workers, NEW p \in Pieces, Fetches(w, p) PROVE SnapTyped'
    BY <1>4 DEF Fetches
  <1>5. CASE MonitorStep \/ MonitorEnds
    BY <1>5 DEF MonitorStep, MonitorTick, MonitorChecks, CompleteTold, MonitorEnds
  <1>6. CASE Environment
    BY <1>6 DEF Environment, Crash, Restart, NewSession, CrashWriting, FileLost, Forget
  <1> QED
    BY <1>1, <1>2, <1>3, <1>4, <1>5, <1>6 DEF Next

LEMMA WorkersStep ==
  ASSUME WorkersTyped, Next
  PROVE  WorkersTyped'
  <1> USE PiecesFacts DEF WorkersTyped, WorkerLabels
  <1>1. ASSUME NEW c \in Callers, Call(c) PROVE WorkersTyped'
    BY <1>1, ForgottenTyped DEF Call, StartLoads, PauseLists, ResumeReads, StopCancels, VerifyStarts,
       StartPanics, VerifyPanics
  <1>2. ASSUME NEW c \in Callers, CallerStep(c) PROVE WorkersTyped'
    BY <1>2 DEF CallerStep, StartEnds, CompleteTold, SaveBegins, PauseSaves, ResumeEnds, StopLists,
       StopSaves, StopEnds, Panics, Forget, VerifyReads, VerifyClears
  <1>3. ASSUME NEW w \in Workers, ToIdle(w) PROVE WorkersTyped'
    BY <1>3 DEF ToIdle
  <1>4. ASSUME NEW w \in Workers, Writes(w) PROVE WorkersTyped'
    BY <1>3, <1>4 DEF Writes
  <1>5. ASSUME NEW w \in Workers, Checks(w) \/ Completes(w) \/ Loses(w) \/ Drops(w) PROVE WorkersTyped'
    BY <1>3, <1>5 DEF Checks, Completes, Loses, Drops
  <1>6. ASSUME NEW w \in Workers, Leaves(w) \/ GivesUp(w) PROVE WorkersTyped'
    BY <1>6 DEF Leaves, GivesUp
  <1>7. ASSUME NEW w \in Workers, NEW p \in Pieces, Fetches(w, p) PROVE WorkersTyped'
    BY <1>7 DEF Fetches
  <1>8. CASE MonitorStep \/ MonitorEnds
    BY <1>8 DEF MonitorStep, MonitorTick, MonitorChecks, CompleteTold, MonitorEnds
  <1>9. CASE Environment
    <2>1. CASE Restart \/ \E f \in DOMAIN FileLens : FileLost(f)
      BY <2>1 DEF Restart, FileLost
    <2> QED
      BY <1>9, <2>1, ForgottenTyped DEF Environment, Crash, NewSession, CrashWriting
  <1> QED
    BY <1>1, <1>2, <1>4, <1>5, <1>6, <1>7, <1>8, <1>9 DEF Next, WorkerStep

LEMMA PiecesStep ==
  ASSUME FilesTyped, WorkersTyped, PiecesTyped, Next
  PROVE  PiecesTyped'
  <1> USE DEF PiecesTyped
  <1>1. ASSUME NEW c \in Callers, Call(c) PROVE PiecesTyped'
    <2>1. CASE StartLoads(c)
      BY <2>1 DEF StartLoads, Applied, FilesTyped, ResumeFiles
    <2> QED
      BY <1>1, <2>1 DEF Call, PauseLists, ResumeReads, StopCancels, VerifyStarts, StartPanics,
         VerifyPanics, Forget
  <1>2. ASSUME NEW c \in Callers, CallerStep(c) PROVE PiecesTyped'
    BY <1>2 DEF CallerStep, StartEnds, CompleteTold, SaveBegins, PauseSaves, ResumeEnds, StopLists,
       StopSaves, StopEnds, Panics, Forget, VerifyReads, VerifyClears
  <1>3. ASSUME NEW w \in Workers, WorkerStep(w) \/ Leaves(w) \/ GivesUp(w) PROVE PiecesTyped'
    BY <1>3 DEF WorkerStep, Writes, Checks, Completes, CompleteTold, Loses, Drops, ToIdle,
       GivesUp, Leaves, WorkersTyped
  <1>4. ASSUME NEW w \in Workers, NEW p \in Pieces, Fetches(w, p) PROVE PiecesTyped'
    BY <1>4 DEF Fetches
  <1>5. CASE MonitorStep \/ MonitorEnds
    BY <1>5 DEF MonitorStep, MonitorTick, MonitorChecks, CompleteTold, MonitorEnds
  <1>6. CASE Environment
    BY <1>6 DEF Environment, Crash, Restart, NewSession, CrashWriting, FileLost, Forget
  <1> QED
    BY <1>1, <1>2, <1>3, <1>4, <1>5, <1>6 DEF Next

LEMMA TypeInit == Init => Typed
  <1> SUFFICES ASSUME Init PROVE Typed
    OBVIOUS
  <1>1. FilesTyped /\ SnapTyped
    BY NoFileFacts DEF Init, FilesTyped, SnapTyped, ByteStates
  <1>2. FlagsTyped /\ StatesTyped /\ LockTyped /\ PiecesTyped
    BY DEF Init, FlagsTyped, StatesTyped, LockTyped, PiecesTyped
  <1>3. CallersTyped /\ WorkersTyped /\ EventsTyped
    BY LifecycleAssumption DEF Init, CallersTyped, WorkersTyped, EventsTyped, CallerLabels, WorkerLabels
  <1> QED
    BY <1>1, <1>2, <1>3 DEF Typed

LEMMA TypeStep == ASSUME Typed, Next PROVE Typed'
  BY FilesStep, FlagsStep, StatesStep, LockStep, CallersStep, SnapStep, WorkersStep, PiecesStep,
     EventsStep DEF Typed

-----------------------------------------------------------------------------
(* Who is in the middle of what                                             *)

Locked == {"starting", "resume as Seeding", "resume as Downloading"}
Saving(c) == pc[c] \in {"listed", "writing"}

\* A caller that has found the session running and stops it.
InStop(c) == pc[c] \in {"stopping", "waiting"} \/ (Saving(c) /\ mu # c)

LockInv ==
  /\ reentered => cancelled
  /\ cancelled => ~running \/ reentered
  /\ mu # None => running
  /\ \A c \in Callers : pc[c] \in Locked => mu = c
  /\ \A c \in Callers : InStop(c) => cancelled
  /\ ~reentered => \A c, d \in Callers : InStop(c) /\ InStop(d) => c = d

GoneInv ==
  /\ ~running /\ ~cancelled => storage = "new" /\ GoroutinesGone
  /\ \A c \in Callers : pc[c] = "starting" /\ ~cancelled => \A w \in Workers : wpc[w] = "off"
  /\ ~eventOpen => cancelled /\ GoroutinesGone

\* The lock is nobody's when the session is being stopped, and one caller saves.
LEMMA OneSaves ==
  ASSUME CallersTyped, LockTyped, LockInv, ~reentered, NEW c \in Callers, NEW d \in Callers,
         Saving(c), Saving(d)
  PROVE  c = d
  BY LifecycleAssumption DEF LockInv, InStop, LockTyped

LEMMA NoneIsNoCaller == \A c \in Callers : c # None
  BY LifecycleAssumption

\* The guard of Start and of the other methods that take the lock.
LEMMA FreeToCall ==
  ASSUME CallersTyped, LockInv, mu = None, ~cancelled
  PROVE  \A c \in Callers : pc[c] \in {"idle", "verifying", "clearing"}
  BY NoneIsNoCaller DEF CallersTyped, LockInv, InStop, Saving, Locked, CallerLabels

LEMMA LockCall ==
  ASSUME CallersTyped, LockTyped, LockInv, NEW c \in Callers, Call(c)
  PROVE  LockInv'
  <1> USE NoneIsNoCaller DEF LockInv, InStop, Saving, Locked, CallersTyped, LockTyped, May, At, Goto
  <1>1. CASE StartLoads(c)
    BY <1>1 DEF StartLoads
  <1>2. CASE PauseLists(c)
    BY <1>2 DEF PauseLists
  <1>3. CASE ResumeReads(c)
    BY <1>3 DEF ResumeReads
  <1>4. CASE StopCancels(c)
    BY <1>4 DEF StopCancels
  <1>5. CASE VerifyStarts(c)
    BY <1>5 DEF VerifyStarts
  <1>6. CASE StartPanics(c) \/ VerifyPanics(c)
    BY <1>6 DEF StartPanics, VerifyPanics, Forget
  <1> QED
    BY <1>1, <1>2, <1>3, <1>4, <1>5, <1>6 DEF Call

LEMMA LockCaller ==
  ASSUME CallersTyped, LockTyped, LockInv, NEW c \in Callers, CallerStep(c)
  PROVE  LockInv'
  <1> USE NoneIsNoCaller DEF LockInv, InStop, Saving, Locked, CallersTyped, LockTyped, At, Goto
  <1>1. CASE StartEnds(c)
    BY <1>1 DEF StartEnds
  <1>2. CASE SaveBegins(c)
    BY <1>2 DEF SaveBegins
  <1>3. CASE PauseSaves(c)
    BY <1>3 DEF PauseSaves
  <1>4. CASE ResumeEnds(c)
    BY <1>4 DEF ResumeEnds
  <1>5. CASE StopLists(c)
    BY <1>5 DEF StopLists
  <1>6. CASE StopSaves(c)
    BY <1>6 DEF StopSaves
  <1>7. CASE StopEnds(c)
    BY <1>7 DEF StopEnds
  <1>8. CASE VerifyReads(c) \/ VerifyClears(c)
    <2>1. UNCHANGED <<mu, running, cancelled, reentered>> /\ pc[c] \in {"verifying", "clearing"}
          /\ \E l \in {"idle", "verifying", "clearing"} : Goto(c, l)
      BY <1>8 DEF VerifyReads, VerifyClears, ToNextPiece
    <2> QED
      BY <2>1
  <1>9. CASE Panics(c)
    BY <1>9 DEF Panics, Forget
  <1> QED
    BY <1>1, <1>2, <1>3, <1>4, <1>5, <1>6, <1>7, <1>8, <1>9 DEF CallerStep

LEMMA LockInvStep ==
  ASSUME CallersTyped, LockTyped, LockInv, Next
  PROVE  LockInv'
  <1>1. ASSUME NEW w \in Workers, WorkerStep(w) \/ Leaves(w) \/ GivesUp(w)
        PROVE  UNCHANGED <<mu, running, cancelled, reentered, pc>>
    BY <1>1 DEF WorkerStep, Writes, Checks, Completes, CompleteTold, Loses, Drops, ToIdle,
       GivesUp, Leaves
  <1>2. ASSUME NEW w \in Workers, NEW p \in Pieces, Fetches(w, p)
        PROVE  UNCHANGED <<mu, running, cancelled, reentered, pc>>
    BY <1>2 DEF Fetches
  <1>3. CASE MonitorStep \/ MonitorEnds
    <2>1. UNCHANGED <<mu, running, cancelled, reentered, pc>>
      BY <1>3 DEF MonitorStep, MonitorTick, MonitorChecks, CompleteTold, MonitorEnds
    <2> QED
      BY <2>1 DEF LockInv, InStop, Saving
  <1>4. CASE Environment
    <2>1. CASE Restart \/ \E f \in DOMAIN FileLens : FileLost(f)
      <3>1. UNCHANGED <<mu, running, cancelled, reentered, pc>>
        BY <2>1 DEF Restart, FileLost
      <3> QED
        BY <3>1 DEF LockInv, InStop, Saving
    <2>2. ASSUME NEW alive, Forget(alive) PROVE LockInv'
      BY <2>2 DEF Forget, LockInv, InStop, Saving, Locked
    <2> QED
      BY <1>4, <2>1, <2>2 DEF Environment, Crash, NewSession, CrashWriting
  <1>5. UNCHANGED <<mu, running, cancelled, reentered, pc>> => LockInv'
    BY DEF LockInv, InStop, Saving
  <1> QED
    BY <1>1, <1>2, <1>3, <1>4, <1>5, LockCall, LockCaller DEF Next

LEMMA GoneStep ==
  ASSUME CallersTyped, LockTyped, WorkersTyped, LockInv, GoneInv, Next
  PROVE  GoneInv'
  <1> USE DEF GoneInv, GoroutinesGone
  <1>1. ASSUME NEW c \in Callers, Call(c) PROVE GoneInv'
    <2>1. CASE StartLoads(c)
      BY <2>1 DEF StartLoads, May, At, Goto, CallersTyped
    <2>2. CASE PauseLists(c) \/ ResumeReads(c) \/ StopCancels(c) \/ VerifyStarts(c)
      <3>1. /\ UNCHANGED <<eventOpen, storage, wpc, monitor>>
            /\ (running' = running /\ cancelled' = cancelled) \/ cancelled'
        BY <2>2 DEF PauseLists, ResumeReads, StopCancels, VerifyStarts
      <3>2. \A d \in Callers : pc'[d] = "starting" => pc[d] = "starting"
        BY <2>2 DEF PauseLists, ResumeReads, StopCancels, VerifyStarts, Goto, CallersTyped
      <3> QED
        BY <3>1, <3>2
    <2>3. CASE StartPanics(c) \/ VerifyPanics(c)
      BY <2>3 DEF StartPanics, VerifyPanics, Forget
    <2> QED
      BY <1>1, <2>1, <2>2, <2>3 DEF Call
  <1>2. ASSUME NEW c \in Callers, CallerStep(c) PROVE GoneInv'
    <2>1. CASE StartEnds(c)
      <3>1. /\ pc[c] = "starting" /\ mu = c /\ c # None
            /\ UNCHANGED <<running, eventOpen, cancelled, storage, monitor>>
        BY <2>1, NoneIsNoCaller DEF StartEnds, At, LockInv, Locked
      <3>2. running
        BY <3>1 DEF LockInv
      <3>3. \A d \in Callers : pc'[d] # "starting"
        BY <2>1, <3>1 DEF StartEnds, Goto, CallersTyped, LockInv, Locked
      <3>4. cancelled => wpc' = wpc
        BY <2>1 DEF StartEnds
      <3> QED
        BY <3>1, <3>2, <3>3, <3>4
    <2>2. CASE StopEnds(c)
      <3>1. InStop(c)
        BY <2>2 DEF StopEnds, At, InStop
      <3>2. cancelled
        BY <3>1 DEF LockInv
      <3> QED
        BY <2>2, <3>2 DEF StopEnds, Goto, CallersTyped
    <2>3. CASE StopSaves(c)
      <3>1. cancelled
        BY <2>3 DEF StopSaves, At, LockInv, InStop, Saving
      <3> QED
        BY <2>3, <3>1 DEF StopSaves, Goto, CallersTyped
    <2>4. CASE SaveBegins(c) \/ PauseSaves(c) \/ ResumeEnds(c) \/ StopLists(c) \/ VerifyReads(c)
               \/ VerifyClears(c)
      <3>1. UNCHANGED <<eventOpen, storage, wpc, monitor, running, cancelled>>
        BY <2>4 DEF SaveBegins, PauseSaves, ResumeEnds, StopLists, VerifyReads, VerifyClears
      <3>2. \E l \in CallerLabels \ {"starting"} : Goto(c, l)
        BY <2>4 DEF SaveBegins, PauseSaves, ResumeEnds, StopLists, VerifyReads, VerifyClears,
           ToNextPiece, CallerLabels
      <3> QED
        BY <3>1, <3>2 DEF Goto, CallersTyped
    <2>5. CASE Panics(c)
      BY <2>5 DEF Panics, Forget
    <2> QED
      BY <1>2, <2>1, <2>2, <2>3, <2>4, <2>5 DEF CallerStep
  <1>3. ASSUME NEW w \in Workers, wpc[w] # "off",
               \A v \in Workers \ {w} : wpc'[v] = wpc[v],
               UNCHANGED <<eventOpen, storage, monitor, running, cancelled, pc>>
        PROVE  GoneInv'
    BY <1>3
  <1>4. ASSUME NEW w \in Workers, WorkerStep(w) \/ Leaves(w) \/ GivesUp(w) PROVE GoneInv'
    <2>1. /\ UNCHANGED <<eventOpen, storage, monitor, running, cancelled, pc>> /\ wpc[w] # "off"
          /\ \A v \in Workers \ {w} : wpc'[v] = wpc[v]
      BY <1>4 DEF WorkerStep, Writes, Checks, Completes, Loses, Drops, GivesUp, Leaves, ToIdle,
         WorkersTyped
    <2> QED
      BY <2>1, <1>3
  <1>5. ASSUME NEW w \in Workers, NEW p \in Pieces, Fetches(w, p) PROVE GoneInv'
    <2>1. /\ UNCHANGED <<eventOpen, storage, monitor, running, cancelled, pc>> /\ wpc[w] # "off"
          /\ \A v \in Workers \ {w} : wpc'[v] = wpc[v]
      BY <1>5 DEF Fetches, WorkersTyped
    <2> QED
      BY <2>1, <1>3
  <1>6. CASE MonitorStep \/ MonitorEnds
    BY <1>6 DEF MonitorStep, MonitorTick, MonitorChecks, CompleteTold, MonitorEnds
  <1>7. CASE Environment
    <2>1. CASE Restart \/ \E f \in DOMAIN FileLens : FileLost(f)
      BY <2>1 DEF Restart, FileLost
    <2>2. ASSUME NEW alive, Forget(alive) PROVE GoneInv'
      BY <2>2 DEF Forget
    <2> QED
      BY <1>7, <2>1, <2>2 DEF Environment, Crash, NewSession, CrashWriting
  <1> QED
    BY <1>1, <1>2, <1>4, <1>5, <1>6, <1>7 DEF Next

-----------------------------------------------------------------------------
(* From the bitfield into the resume file                                   *)

SaveInv ==
  /\ storage = "new" => bits = {}
  /\ OneGeneration =>
       /\ \A c \in Callers : pc[c] = "listed" => bits \subseteq snap[c].listed \cup missed
       /\ \A c \in Callers : pc[c] = "writing" =>
            bits \subseteq snap[c].bytes \cup missed /\ resume.kind = "unreadable"
       /\ (\A c \in Callers : ~Saving(c)) /\ resume.kind # "unreadable" =>
            bits \subseteq resume.bytes \cup missed

\* Every step that adds nothing to the bitfield and leaves the rest as it is.
LEMMA SaveFrame ==
  ASSUME SaveInv, bits' \subseteq bits, UNCHANGED <<storage, snap, missed, resume, reentered>>,
         \A c \in Callers : pc'[c] # pc[c] =>
           pc[c] \notin {"listed", "writing"} /\ pc'[c] \notin {"listed", "writing"}
  PROVE  SaveInv'
  BY DEF SaveInv, Saving, OneGeneration

LEMMA SaveForgotten ==
  ASSUME NEW alive, Forget(alive)
  PROVE  SaveInv'
  BY DEF Forget, SaveInv, Saving, OneGeneration

LEMMA SaveCall ==
  ASSUME CallersTyped, LockTyped, SnapTyped, FilesTyped, LockInv, GoneInv, SaveInv,
         NEW c \in Callers, Call(c)
  PROVE  SaveInv'
  <1>1. CASE StartLoads(c)
    <2> SUFFICES ASSUME ~reentered' PROVE SaveInv'
      BY <1>1 DEF StartLoads, SaveInv, OneGeneration
    <2>1. ~cancelled /\ mu = None
      BY <1>1 DEF StartLoads
    <2>2. \A d \in Callers : ~Saving(d) /\ ~Saving(d)'
      BY <1>1, <2>1, FreeToCall DEF StartLoads, Goto, Saving, CallersTyped
    <2>3. bits = {}
      BY <1>1, <2>1 DEF StartLoads, GoneInv, SaveInv
    <2> QED
      BY <1>1, <2>2, <2>3 DEF StartLoads, SaveInv, Applied, Saving
  <1>2. CASE PauseLists(c)
    <2> SUFFICES ASSUME ~reentered PROVE SaveInv'
      BY <1>2 DEF PauseLists, SaveInv, OneGeneration
    <2>1. \A d \in Callers : ~Saving(d)
      BY <1>2, FreeToCall DEF PauseLists, LockInv, Saving
    <2>2. pc'[c] = "listed" /\ \A d \in Callers \ {c} : pc'[d] = pc[d]
      BY <1>2 DEF PauseLists, Goto, CallersTyped
    <2>3. snap'[c].listed = bits
      BY <1>2, NoFileFacts DEF PauseLists, SnapTyped, NoFile
    <2> QED
      BY <1>2, <2>1, <2>2, <2>3 DEF PauseLists, SaveInv, Saving
  <1>3. CASE ResumeReads(c) \/ StopCancels(c) \/ VerifyStarts(c)
    <2>1. UNCHANGED <<bits, storage, snap, missed, resume, reentered>>
      BY <1>3 DEF ResumeReads, StopCancels, VerifyStarts
    <2>2. pc[c] = "idle" /\ \E l \in CallerLabels \ {"listed", "writing"} : Goto(c, l)
      BY <1>3 DEF ResumeReads, StopCancels, VerifyStarts, May, At, CallerLabels, Goto
    <2>3. \A d \in Callers : pc'[d] # pc[d] =>
           pc[d] \notin {"listed", "writing"} /\ pc'[d] \notin {"listed", "writing"}
      BY <2>2 DEF Goto, CallersTyped, Saving
    <2> QED
      BY <2>1, <2>3, SaveFrame
  <1>4. CASE StartPanics(c) \/ VerifyPanics(c)
    BY <1>4, SaveForgotten DEF StartPanics, VerifyPanics
  <1> QED
    BY <1>1, <1>2, <1>3, <1>4 DEF Call

LEMMA SaveCaller ==
  ASSUME CallersTyped, LockTyped, SnapTyped, FilesTyped, LockInv, SaveInv,
         NEW c \in Callers, CallerStep(c)
  PROVE  SaveInv'
  <1>1. CASE SaveBegins(c)
    <2> SUFFICES ASSUME ~reentered PROVE SaveInv'
      BY <1>1 DEF SaveBegins, SaveInv, OneGeneration
    <2>1. pc[c] = "listed" /\ pc'[c] = "writing" /\ \A d \in Callers \ {c} : pc'[d] = pc[d]
      BY <1>1 DEF SaveBegins, At, Goto, CallersTyped
    <2>2. \A d \in Callers \ {c} : ~Saving(d)
      BY <2>1, OneSaves DEF Saving
    <2>3. snap'[c].bytes = bits
      BY <1>1 DEF SaveBegins, SnapTyped, ResumeData, GetBytes
    <2>4. resume'.kind = "unreadable"
      BY <1>1, NoFileFacts DEF SaveBegins
    <2> QED
      BY <1>1, <2>1, <2>2, <2>3, <2>4 DEF SaveBegins, SaveInv, Saving
  <1>2. CASE PauseSaves(c) \/ StopSaves(c)
    <2> SUFFICES ASSUME ~reentered PROVE SaveInv'
      BY <1>2 DEF PauseSaves, StopSaves, SaveInv, OneGeneration
    <2>1. pc[c] = "writing" /\ \A d \in Callers : pc'[d] = pc[d] \/ d = c
      BY <1>2 DEF PauseSaves, StopSaves, At, Goto, CallersTyped
    <2>2. pc'[c] \in {"idle", "waiting"}
      BY <1>2 DEF PauseSaves, StopSaves, Goto, CallersTyped
    <2>3. \A d \in Callers : ~Saving(d)'
      BY <2>1, <2>2, OneSaves DEF Saving
    <2>4. resume' = snap[c] \/ resume' = resume
      BY <1>2 DEF PauseSaves, StopSaves, SaveDone, SaveEnds
    <2>5. UNCHANGED <<bits, missed>> /\ storage' \in {storage, "closed"}
      BY <1>2 DEF PauseSaves, StopSaves
    <2> QED
      BY <2>1, <2>3, <2>4, <2>5 DEF SaveInv, Saving, OneGeneration
  <1>3. CASE StopLists(c)
    <2> SUFFICES ASSUME ~reentered PROVE SaveInv'
      BY <1>3 DEF StopLists, SaveInv, OneGeneration
    <2>1. pc[c] = "stopping" /\ pc'[c] = "listed" /\ \A d \in Callers \ {c} : pc'[d] = pc[d]
      BY <1>3 DEF StopLists, At, Goto, CallersTyped
    <2>2. \A d \in Callers \ {c} : ~Saving(d)
      BY <2>1, NoneIsNoCaller DEF LockInv, InStop
    <2>3. snap'[c].listed = bits
      BY <1>3, NoFileFacts DEF StopLists, SnapTyped, NoFile
    <2> QED
      BY <1>3, <2>1, <2>2, <2>3 DEF StopLists, SaveInv, Saving
  <1>4. CASE StartEnds(c) \/ ResumeEnds(c) \/ StopEnds(c) \/ VerifyReads(c) \/ VerifyClears(c)
    <2>1. bits' \subseteq bits /\ UNCHANGED <<storage, snap, missed, resume, reentered>>
      BY <1>4 DEF StartEnds, ResumeEnds, StopEnds, VerifyReads, VerifyClears
    <2>2. ~Saving(c) /\ \E l \in CallerLabels \ {"listed", "writing"} : Goto(c, l)
      BY <1>4 DEF StartEnds, ResumeEnds, StopEnds, VerifyReads, VerifyClears, ToNextPiece, At,
         CallerLabels, Saving
    <2>3. \A d \in Callers : pc'[d] # pc[d] =>
           pc[d] \notin {"listed", "writing"} /\ pc'[d] \notin {"listed", "writing"}
      BY <2>2 DEF Goto, CallersTyped, Saving
    <2> QED
      BY <2>1, <2>3, SaveFrame
  <1>5. CASE Panics(c)
    BY <1>5, SaveForgotten DEF Panics
  <1> QED
    BY <1>1, <1>2, <1>3, <1>4, <1>5 DEF CallerStep

LEMMA SaveStep ==
  ASSUME CallersTyped, LockTyped, SnapTyped, FilesTyped, LockInv, GoneInv, SaveInv, Next
  PROVE  SaveInv'
  <1>1. ASSUME NEW w \in Workers, Writes(w) PROVE SaveInv'
    BY <1>1 DEF Writes, SaveInv, Saving, OneGeneration
  <1>2. ASSUME NEW w \in Workers,
               Checks(w) \/ Completes(w) \/ Loses(w) \/ Drops(w) \/ GivesUp(w) \/ Leaves(w)
        PROVE  SaveInv'
    <2>1. bits' \subseteq bits /\ UNCHANGED <<storage, snap, missed, resume, reentered, pc>>
      BY <1>2 DEF Checks, Completes, Loses, Drops, GivesUp, Leaves
    <2> QED
      BY <2>1, SaveFrame
  <1>3. ASSUME NEW w \in Workers, NEW p \in Pieces, Fetches(w, p) PROVE SaveInv'
    BY <1>3, SaveFrame DEF Fetches
  <1>4. CASE MonitorStep \/ MonitorEnds
    <2>1. UNCHANGED <<bits, storage, snap, missed, resume, reentered, pc>>
      BY <1>4 DEF MonitorStep, MonitorTick, MonitorChecks, CompleteTold, MonitorEnds
    <2> QED
      BY <2>1, SaveFrame
  <1>5. CASE Environment
    <2>1. CASE Restart \/ \E f \in DOMAIN FileLens : FileLost(f)
      BY <2>1, SaveFrame DEF Restart, FileLost
    <2> QED
      BY <1>5, <2>1, SaveForgotten DEF Environment, Crash, NewSession, CrashWriting
  <1> QED
    BY <1>1, <1>2, <1>3, <1>4, <1>5, SaveCall, SaveCaller DEF Next, WorkerStep

-----------------------------------------------------------------------------
(* The files and the pieces.  What the recursive functions compute is       *)
(* proved by induction over the files (module Induction).                   *)

Files == 1..Len(FileLens)

LEMMA FileLensType == Len(FileLens) \in Nat /\ FileLens \in [Files -> Nat]
  BY LifecycleAssumption DEF Files

LEMMA OffsetSums ==
  /\ Offset \in [0..Len(FileLens) -> Nat]
  /\ Offset[0] = 0
  /\ \A f \in Files : Offset[f] = Offset[f - 1] + FileLens[f]
  <1> DEFINE N == Len(FileLens)
             nxt == [f \in 1..N |-> [sum \in Nat |-> sum + FileLens[f]]]
             Sums(g) == g = [f \in 0..N |-> IF f = 0 THEN 0 ELSE g[f - 1] + FileLens[f]]
  <1>1. N \in Nat /\ nxt \in [1..N -> [Nat -> Nat]]
    BY FileLensType DEF Files
  <1>2. PICK g \in [0..N -> Nat] : g[0] = 0 /\ \A i \in 1..N : g[i] = nxt[i][g[i-1]]
    <2> DEFINE S == Nat
               z == 0
    <2>1. N \in Nat /\ nxt \in [1..N -> [S -> S]] /\ z \in S
      BY <1>1
    <2> HIDE DEF nxt, N, S, z
    <2>2. \E g \in [0..N -> S] : g[0] = z /\ \A i \in 1..N : g[i] = nxt[i][g[i-1]]
      BY <2>1, Recursion
    <2> QED
      BY <2>2 DEF S, z
  <1>3. ASSUME NEW i \in 1..N PROVE g[i] = g[i-1] + FileLens[i]
    <2>1. i - 1 \in 0..N /\ g[i-1] \in Nat
      <3> HIDE DEF N
      <3> QED
        BY <1>1
    <2>2. g[i] = nxt[i][g[i-1]]
      BY <1>2
    <2> QED
      BY <2>1, <2>2
  <1>4. Sums(g)
    <2> DEFINE h == [f \in 0..N |-> IF f = 0 THEN 0 ELSE g[f - 1] + FileLens[f]]
    <2>1. \A f \in 0..N : g[f] = h[f]
      BY <1>1, <1>2, <1>3
    <2> QED
      BY <2>1
  <1>5. Offset = CHOOSE o : Sums(o)
    BY DEF Offset
  <1>6. Sums(Offset)
    <2> HIDE DEF Sums
    <2> QED
      BY <1>4, <1>5
  <1>7. \A f \in 0..N : Offset[f] = IF f = 0 THEN 0 ELSE Offset[f - 1] + FileLens[f]
    BY <1>6, Zenon
  <1>8. Offset[0] = 0 /\ \A f \in Files : Offset[f] = Offset[f - 1] + FileLens[f]
    BY <1>7, <1>1 DEF Files
  <1>9. Offset = [f \in 0..N |-> Offset[f]]
    BY <1>6
  <1> DEFINE T == {f \in 0..N : Offset[f] \in Nat}
  <1>10. 0..N \subseteq T
    <2>1. 0 \in T
      BY <1>8, <1>1
    <2>2. ASSUME NEW f \in 0..N, f \in T, f < N PROVE f + 1 \in T
      <3>1. f + 1 \in Files /\ f + 1 \in 0..N /\ FileLens[f + 1] \in Nat
        BY <2>2, <1>1, FileLensType DEF Files
      <3> QED
        BY <3>1, <2>2, <1>8
    <2> HIDE DEF T
    <2> QED
      BY <2>1, <2>2, <1>1, UpTo
  <1> QED
    BY <1>8, <1>9, <1>10

(* Where a byte of a file is in the torrent.                                *)
Position(g, x) == FileStart(g) + x

LEMMA OffsetsGrow ==
  ASSUME NEW f \in 0..Len(FileLens), NEW g \in 0..Len(FileLens), f <= g
  PROVE  Offset[f] <= Offset[g]
  <1> DEFINE N == Len(FileLens)
             T == {n \in 0..N : n < f \/ Offset[f] <= Offset[n]}
  <1>1. N \in Nat /\ f \in Nat /\ g \in Nat
    BY FileLensType
  <1>2. 0 \in T
    <2>1. 0 < f \/ f = 0
      BY <1>1
    <2> QED
      BY <2>1, <1>1, OffsetSums
  <1>3. ASSUME NEW n \in 0..N, n \in T, n < N PROVE n + 1 \in T
    <2>1. n + 1 \in Files /\ n + 1 \in 0..N /\ n \in Nat
      BY <1>1, <1>3 DEF Files
    <2>2. Offset[n + 1] = Offset[n] + FileLens[n + 1] /\ FileLens[n + 1] \in Nat
      BY <2>1, OffsetSums, FileLensType
    <2>3. Offset[n] \in Nat /\ Offset[f] \in Nat /\ Offset[n + 1] \in Nat
      BY <2>1, OffsetSums
    <2>4. CASE n + 1 < f
      BY <2>1, <2>4
    <2>5. CASE n + 1 = f
      BY <2>1, <2>3, <2>5
    <2>6. CASE n >= f
      <3>1. Offset[f] <= Offset[n]
        BY <1>3, <2>6, <2>1, <1>1
      <3> QED
        BY <2>1, <2>2, <2>3, <3>1
    <2> HIDE DEF T
    <2> QED
      BY <2>1, <2>4, <2>5, <2>6, <1>1
  <1>4. 0..N \subseteq T
    <2> HIDE DEF T, N
    <2> QED
      BY <1>1, <1>2, <1>3, UpTo
  <1> QED
    BY <1>1, <1>4

Ranges == Nat \X Nat \X Nat
Accs == [cur : Nat, left : Nat, maps : Seq(Ranges)]
Covered(maps) == UNION {Extent(maps[i]) : i \in 1..Len(maps)}

LEMMA MapFileCases ==
  ASSUME NEW acc \in Accs, NEW f \in Files
  PROVE  /\ MapFile(acc, f) \in Accs
         /\ \/ /\ acc.cur >= Offset[f] \/ acc.left = 0
               /\ MapFile(acc, f) = acc
            \/ \E inFile, bytes \in Nat :
                 /\ acc.cur < Offset[f] /\ acc.left > 0
                 /\ MapFile(acc, f) = [cur |-> acc.cur + bytes, left |-> acc.left - bytes,
                                       maps |-> Append(acc.maps, <<f, inFile, bytes>>)]
                 /\ acc.cur >= Offset[f - 1] => inFile = acc.cur - Offset[f - 1]
                 /\ acc.cur >= Offset[f - 1] => (bytes = acc.left \/ acc.cur + bytes = Offset[f])
                 /\ acc.cur >= Offset[f - 1] => acc.cur + bytes <= Offset[f]
                 /\ bytes <= acc.left
  <1>1. /\ f \in 0..Len(FileLens) /\ f - 1 \in 0..Len(FileLens) /\ FileLens[f] \in Nat
        /\ f \in Nat
    BY FileLensType DEF Files
  <1>2. Offset[f] \in Nat /\ Offset[f - 1] \in Nat /\ Offset[f] = Offset[f - 1] + FileLens[f]
    BY <1>1, OffsetSums
  <1>3. acc.cur \in Nat /\ acc.left \in Nat /\ acc.maps \in Seq(Ranges)
    BY DEF Accs
  <1> DEFINE inFile == InFile(acc.cur, Offset[f - 1])
             room == Offset[f] - (Offset[f - 1] + inFile)
             bytes == IF room > acc.left THEN acc.left ELSE room
             next == [cur |-> acc.cur + bytes, left |-> acc.left - bytes,
                      maps |-> Append(acc.maps, <<f, inFile, bytes>>)]
  <1>4. MapFile(acc, f) = IF acc.cur >= Offset[f] \/ acc.left = 0 THEN acc ELSE next
    BY <1>2 DEF MapFile, FileStart
  <1>5. CASE acc.cur >= Offset[f] \/ acc.left = 0
    BY <1>4, <1>5
  <1>6. CASE ~(acc.cur >= Offset[f] \/ acc.left = 0)
    <2>1. acc.cur < Offset[f] /\ acc.left > 0
      BY <1>2, <1>3, <1>6
    <2>2. inFile \in Nat /\ (acc.cur >= Offset[f - 1] => inFile = acc.cur - Offset[f - 1])
      BY <1>2, <1>3 DEF InFile
    <2>3. acc.cur < Offset[f - 1] => inFile = 0
      BY <1>2, <1>3 DEF InFile
    <2> HIDE DEF inFile
    <2>4. room \in Nat
      <3>1. CASE acc.cur < Offset[f - 1]
        <4>1. room = FileLens[f]
          BY <1>1, <1>2, <2>3, <3>1
        <4> QED
          BY <1>1, <4>1
      <3>2. CASE acc.cur >= Offset[f - 1]
        <4>1. room = Offset[f] - acc.cur
          BY <1>2, <1>3, <2>2, <3>2
        <4> QED
          BY <1>2, <1>3, <2>1, <4>1
      <3> QED
        BY <1>2, <1>3, <3>1, <3>2
    <2>5. /\ bytes \in Nat /\ bytes <= acc.left
          /\ acc.cur >= Offset[f - 1] => (bytes = acc.left \/ acc.cur + bytes = Offset[f])
          /\ acc.cur >= Offset[f - 1] => acc.cur + bytes <= Offset[f]
      <3>1. acc.cur >= Offset[f - 1] => room = Offset[f] - acc.cur
        BY <1>2, <1>3, <2>2
      <3> HIDE DEF room
      <3> QED
        BY <1>2, <1>3, <2>1, <2>4, <3>1
    <2> HIDE DEF bytes
    <2>6. <<f, inFile, bytes>> \in Ranges
      BY <1>1, <2>2, <2>5 DEF Ranges
    <2>7. Append(acc.maps, <<f, inFile, bytes>>) \in Seq(Ranges)
      BY <1>3, <2>6
    <2>8. next \in Accs
      BY <1>3, <2>5, <2>7 DEF Accs
    <2>9. MapFile(acc, f) = next
      BY <1>4, <1>6
    <2> QED
      BY <2>1, <2>2, <2>5, <2>8, <2>9
  <1> QED
    BY <1>5, <1>6

LEMMA CoveredAppend ==
  ASSUME NEW maps \in Seq(Ranges), NEW r \in Ranges
  PROVE  Covered(Append(maps, r)) = Covered(maps) \cup Extent(r)
  <1> DEFINE longer == Append(maps, r)
             E(i) == Extent(longer[i])
             I == 1..Len(maps)
             n == Len(maps) + 1
  <1>1. /\ Len(maps) \in Nat /\ Len(longer) = n
        /\ \A i \in I : longer[i] = maps[i]
        /\ longer[n] = r
    OBVIOUS
  <1>2. 1..Len(longer) = I \cup {n}
    BY <1>1
  <1>3. Covered(maps) = UNION {E(i) : i \in I}
    BY <1>1 DEF Covered
  <1>4. Covered(longer) = UNION {E(i) : i \in 1..Len(longer)}
    BY DEF Covered
  <1>5. E(n) = Extent(r)
    BY <1>1
  <1> HIDE DEF I, n, E
  <1> QED
    BY <1>2, <1>3, <1>4, <1>5

LEMMA ExtentIs ==
  ASSUME NEW f \in Files, NEW in \in Nat, NEW bytes \in Nat
  PROVE  /\ Extent(<<f, in, bytes>>) \subseteq Files \X Nat
         /\ \A g \in Files, x \in Nat :
              <<g, x>> \in Extent(<<f, in, bytes>>) <=> g = f /\ in <= x /\ x < in + bytes
  <1>1. Extent(<<f, in, bytes>>) = {<<f, in + k>> : k \in 0..(bytes - 1)}
    BY DEF Extent
  <1>2. Extent(<<f, in, bytes>>) \subseteq Files \X Nat
    BY <1>1
  <1>3. ASSUME NEW g \in Files, NEW x \in Nat, <<g, x>> \in Extent(<<f, in, bytes>>)
        PROVE  g = f /\ in <= x /\ x < in + bytes
    BY <1>1, <1>3
  <1>4. ASSUME NEW x \in Nat, in <= x, x < in + bytes PROVE <<f, x>> \in Extent(<<f, in, bytes>>)
    <2>1. x - in \in 0..(bytes - 1) /\ x = in + (x - in)
      BY <1>4
    <2> QED
      BY <1>1, <2>1
  <1> QED
    BY <1>2, <1>3, <1>4

(* After f files the mapping has the bytes of the range that they hold.     *)
Covers(acc, f, offset, length) ==
  /\ acc \in Accs /\ acc.cur + acc.left = offset + length /\ offset <= acc.cur
  /\ acc.left = 0 \/ acc.cur >= Offset[f]
  /\ acc.cur = offset \/ acc.cur <= Offset[f]
  /\ Covered(acc.maps) \subseteq Files \X Nat
  /\ \A g \in Files, x \in Nat :
       <<g, x>> \in Covered(acc.maps)
         <=> /\ g <= f /\ x < FileLens[g]
             /\ offset <= Position(g, x) /\ Position(g, x) < acc.cur

LEMMA PositionIs ==
  ASSUME NEW f \in Files, NEW x \in Nat
  PROVE  /\ Position(f, x) = Offset[f - 1] + x /\ Position(f, x) \in Nat
         /\ x < FileLens[f] <=> Position(f, x) < Offset[f]
         /\ Offset[f - 1] <= Position(f, x) /\ Offset[f - 1] <= Offset[f]
         /\ Offset[f - 1] \in Nat /\ Offset[f] \in Nat
         /\ f \in Nat /\ f - 1 \in 0..Len(FileLens) /\ f \in 0..Len(FileLens)
  <1>1. /\ f \in 0..Len(FileLens) /\ f - 1 \in 0..Len(FileLens) /\ FileLens[f] \in Nat /\ f \in Nat
    BY FileLensType DEF Files
  <1>2. Offset[f] \in Nat /\ Offset[f - 1] \in Nat /\ Offset[f] = Offset[f - 1] + FileLens[f]
    BY <1>1, OffsetSums
  <1> QED
    BY <1>1, <1>2 DEF Position, FileStart

LEMMA CoversStep ==
  ASSUME NEW offset \in Nat, NEW length \in Nat, NEW f \in Files, NEW acc,
         Covers(acc, f - 1, offset, length)
  PROVE  Covers(MapFile(acc, f), f, offset, length)
  <1> DEFINE next == MapFile(acc, f)
  <1>1. acc \in Accs /\ acc.cur \in Nat /\ acc.left \in Nat
    BY DEF Covers, Accs
  <1>2. /\ Offset[f - 1] \in Nat /\ Offset[f] \in Nat /\ Offset[f - 1] <= Offset[f]
        /\ f \in Nat
    BY PositionIs, 0 \in Nat
  <1>3. \A g \in Files : g \in Nat /\ (g <= f <=> g <= f - 1 \/ g = f)
    BY <1>2 DEF Files
  <1>5. CASE next = acc /\ (acc.cur >= Offset[f] \/ acc.left = 0)
    <2>1. acc.cur = offset \/ acc.cur <= Offset[f - 1]
      BY DEF Covers
    <2>2. ASSUME NEW x \in Nat, offset <= Position(f, x), Position(f, x) < acc.cur PROVE FALSE
      <3>1. Position(f, x) \in Nat /\ Offset[f - 1] <= Position(f, x)
        BY PositionIs
      <3> QED
        BY <1>1, <1>2, <2>1, <2>2, <3>1
    <2>3. acc.left = 0 \/ acc.cur >= Offset[f]
      BY <1>5
    <2>4. acc.cur = offset \/ acc.cur <= Offset[f]
      BY <1>1, <1>2, <2>1
    <2>5. ASSUME NEW g \in Files, NEW x \in Nat
          PROVE  <<g, x>> \in Covered(acc.maps)
                   <=> /\ g <= f /\ x < FileLens[g]
                       /\ offset <= Position(g, x) /\ Position(g, x) < acc.cur
      BY <2>2, <1>3 DEF Covers
    <2> QED
      BY <1>5, <2>3, <2>4, <2>5 DEF Covers
  <1>6. ASSUME NEW in \in Nat, NEW bytes \in Nat,
               acc.cur < Offset[f], acc.left > 0,
               next = [cur |-> acc.cur + bytes, left |-> acc.left - bytes,
                       maps |-> Append(acc.maps, <<f, in, bytes>>)],
               acc.cur >= Offset[f - 1] => in = acc.cur - Offset[f - 1],
               acc.cur >= Offset[f - 1] => (bytes = acc.left \/ acc.cur + bytes = Offset[f]),
               acc.cur >= Offset[f - 1] => acc.cur + bytes <= Offset[f],
               bytes <= acc.left
        PROVE  Covers(next, f, offset, length)
    <2>1. acc.cur >= Offset[f - 1]
      BY <1>6, <1>1 DEF Covers
    <2>2. acc.cur = offset \/ acc.cur = Offset[f - 1]
      BY <2>1, <1>1, <1>2 DEF Covers
    <2>3. offset <= acc.cur /\ acc.cur + acc.left = offset + length
      BY DEF Covers
    <2>4. next.cur = acc.cur + bytes /\ next.left = acc.left - bytes
      BY <1>6
    <2>5. Covered(next.maps) = Covered(acc.maps) \cup Extent(<<f, in, bytes>>)
      <3>1. <<f, in, bytes>> \in Ranges /\ acc.maps \in Seq(Ranges)
        BY <1>1, <1>2 DEF Ranges, Accs
      <3> QED
        BY <1>6, <3>1, CoveredAppend
    <2>6. next \in Accs
      BY <1>1, MapFileCases
    <2> HIDE DEF next
    <2>7. next.cur + next.left = offset + length /\ offset <= next.cur
      BY <1>1, <2>3, <2>4
    <2>8. next.left = 0 \/ next.cur >= Offset[f]
      BY <1>1, <1>2, <1>6, <2>1, <2>4
    <2>9. next.cur = offset \/ next.cur <= Offset[f]
      BY <1>6, <2>1, <2>4
    <2>10. Covered(next.maps) \subseteq Files \X Nat
      BY <2>5, ExtentIs DEF Covers
    <2>11. ASSUME NEW g \in Files, NEW x \in Nat
           PROVE  <<g, x>> \in Covered(next.maps)
                   <=> /\ g <= f /\ x < FileLens[g]
                       /\ offset <= Position(g, x) /\ Position(g, x) < next.cur
      <3>1. <<g, x>> \in Covered(next.maps) <=> (<<g, x>> \in Covered(acc.maps)
                                              \/ (g = f /\ in <= x /\ x < in + bytes))
        <4>1. <<g, x>> \in Extent(<<f, in, bytes>>) <=> g = f /\ in <= x /\ x < in + bytes
          BY ExtentIs
        <4> QED
          BY <2>5, <4>1
      <3>2. <<g, x>> \in Covered(acc.maps)
              <=> /\ g <= f - 1 /\ x < FileLens[g]
                  /\ offset <= Position(g, x) /\ Position(g, x) < acc.cur
        BY DEF Covers
      <3>5. /\ Position(g, x) = Offset[g - 1] + x /\ Position(g, x) \in Nat
            /\ x < FileLens[g] <=> Position(g, x) < Offset[g]
            /\ Offset[g - 1] <= Position(g, x)
        BY PositionIs
      <3>3. CASE g = f
        <4>1. <<g, x>> \notin Covered(acc.maps)
          BY <3>2, <3>3, <1>2
        <4>2. in <= x /\ x < in + bytes <=> acc.cur <= Position(f, x) /\ Position(f, x) < acc.cur + bytes
          <5>1. in = acc.cur - Offset[f - 1]
            BY <1>6, <2>1
          <5> HIDE DEF Covers
          <5> QED
            BY <1>1, <1>2, <5>1, <2>1, <3>5, <3>3
        <4>3. acc.cur <= Position(f, x) <=> offset <= Position(f, x)
          BY <2>2, <2>3, <1>1, <1>2, <3>5, <3>3
        <4>4. Position(f, x) < acc.cur + bytes => x < FileLens[f]
          <5>1. acc.cur + bytes <= Offset[f]
            BY <1>6, <2>1
          <5> QED
            BY <1>1, <1>2, <5>1, <2>1, <3>5, <3>3
        <4> QED
          BY <3>1, <3>3, <4>1, <4>2, <4>3, <4>4, <2>4, <1>2
      <3>4. CASE g # f
        <4>1. g <= f <=> g <= f - 1
          BY <1>3, <3>4
        <4>2. g <= f - 1 /\ x < FileLens[g] => Position(g, x) < acc.cur
          <5> SUFFICES ASSUME g <= f - 1, x < FileLens[g] PROVE Position(g, x) < acc.cur
            OBVIOUS
          <5>1. g \in 0..Len(FileLens) /\ f - 1 \in 0..Len(FileLens) /\ Offset[g] \in Nat
            BY PositionIs
          <5>2. Offset[g] <= Offset[f - 1]
            BY OffsetsGrow, <5>1
          <5> QED
            <6>1. Position(g, x) < Offset[g] /\ Position(g, x) \in Nat
              BY <3>5
            <6>2. acc.cur \in Nat
              BY <1>1
            <6> QED
              BY <5>1, <5>2, <6>1, <6>2, <2>1, <1>2
        <4>3. Position(g, x) < acc.cur => Position(g, x) < next.cur
          BY <2>4, <1>1, <3>5
        <4> HIDE DEF Position
        <4>4. x < FileLens[g] /\ g <= f - 1 /\ Position(g, x) < next.cur => Position(g, x) < acc.cur
          BY <4>2
        <4>5. ~(g = f /\ in <= x /\ x < in + bytes)
          BY <3>4
        <4> QED
          BY <3>1, <3>2, <4>1, <4>3, <4>4, <4>5
      <3> QED
        BY <3>3, <3>4
    <2> QED
      BY <2>6, <2>7, <2>8, <2>9, <2>10, <2>11 DEF Covers
  <1> QED
    BY <1>1, <1>5, <1>6, MapFileCases

(* The mapping of a byte range has the bytes that lie in it, and no other.  *)
LEMMA MappingExact ==
  ASSUME NEW offset \in Nat, NEW length \in Nat, offset + length <= TotalLength
  PROVE  /\ Covered(FileMapping(offset, length)) \subseteq Files \X Nat
         /\ \A g \in Files, x \in Nat :
              <<g, x>> \in Covered(FileMapping(offset, length))
                <=> /\ x < FileLens[g]
                    /\ offset <= Position(g, x) /\ Position(g, x) < offset + length
  <1> DEFINE N == Len(FileLens)
             first == [cur |-> offset, left |-> length, maps |-> <<>>]
             nxt == [f \in 1..N |-> [acc \in Accs |-> MapFile(acc, f)]]
             Maps(m) == m = [f \in 0..N |-> IF f = 0 THEN first ELSE MapFile(m[f - 1], f)]
             mapped == CHOOSE m : Maps(m)
  <1>1. N \in Nat /\ Files = 1..N
    BY FileLensType DEF Files
  <1>2. first \in Accs
    BY DEF Accs
  <1>3. nxt \in [1..N -> [Accs -> Accs]]
    BY MapFileCases, <1>1
  <1>4. PICK g \in [0..N -> Accs] : g[0] = first /\ \A i \in 1..N : g[i] = nxt[i][g[i-1]]
    <2> HIDE DEF nxt, N, first
    <2> QED
      BY <1>1, <1>2, <1>3, Recursion
  <1>5. ASSUME NEW i \in 1..N PROVE g[i] = MapFile(g[i - 1], i)
    <2>1. i - 1 \in 0..N /\ g[i-1] \in Accs
      <3> HIDE DEF N
      <3> QED
        BY <1>1
    <2>2. g[i] = nxt[i][g[i-1]]
      BY <1>4
    <2> QED
      BY <2>1, <2>2
  <1>6. Maps(g)
    <2> DEFINE h == [f \in 0..N |-> IF f = 0 THEN first ELSE MapFile(g[f - 1], f)]
    <2>1. \A f \in 0..N : g[f] = h[f]
      <3> HIDE DEF first
      <3> QED
        BY <1>1, <1>4, <1>5
    <2> HIDE DEF first
    <2> QED
      BY <2>1
  <1>7. Maps(mapped)
    <2> HIDE DEF Maps
    <2> QED
      BY <1>6
  <1>8. FileMapping(offset, length) = mapped[N].maps
    BY Zenon DEF FileMapping
  <1> HIDE DEF mapped
  <1>9. \A f \in 0..N : mapped[f] = IF f = 0 THEN first ELSE MapFile(mapped[f - 1], f)
    <2> HIDE DEF first
    <2> QED
      BY <1>7, Zenon
  <1> DEFINE T == {f \in 0..N : Covers(mapped[f], f, offset, length)}
  <1>10. 0 \in T
    <2>1. mapped[0] = first
      BY <1>1, <1>9
    <2>2. Covered(first.maps) = {}
      BY DEF Covered
    <2>3. \A g2 \in Files : ~(g2 <= 0)
      BY <1>1
    <2>4. Covers(first, 0, offset, length)
      BY <1>2, <2>2, <2>3, OffsetSums DEF Covers
    <2> QED
      BY <1>1, <2>1, <2>4
  <1>11. ASSUME NEW f \in 0..N, f \in T, f < N PROVE f + 1 \in T
    <2>1. f + 1 \in Files /\ f + 1 \in 0..N /\ (f + 1) - 1 = f /\ f + 1 # 0
      BY <1>1, <1>11
    <2>2. mapped[f + 1] = MapFile(mapped[f], f + 1)
      <3> HIDE DEF first
      <3> QED
        BY <2>1, <1>9
    <2>3. Covers(mapped[f], (f + 1) - 1, offset, length)
      BY <1>11, <2>1
    <2>4. Covers(mapped[f + 1], f + 1, offset, length)
      BY <2>1, <2>2, <2>3, CoversStep
    <2> QED
      BY <2>1, <2>4
  <1>12. N \in T
    <2> HIDE DEF T, N
    <2>1. 0..N \subseteq T
      BY <1>1, <1>10, <1>11, UpTo
    <2> QED
      BY <1>1, <2>1
  <1> DEFINE last == mapped[N]
  <1>13. Covers(last, N, offset, length)
    BY <1>12
  <1> HIDE DEF last, T
  <1>14. last.cur \in Nat /\ last.left \in Nat /\ last.cur + last.left = offset + length
    BY <1>13 DEF Covers, Accs
  <1>15. last.cur = offset + length
    <2>1. last.left = 0 \/ last.cur >= TotalLength
      BY <1>13 DEF Covers, TotalLength
    <2>2. TotalLength \in Nat
      BY LifecycleAssumption
    <2> QED
      BY <1>14, <2>1, <2>2
  <1>16. \A g2 \in Files : g2 <= N
    BY <1>1
  <1>17. FileMapping(offset, length) = last.maps
    BY <1>8 DEF last
  <1> QED
    BY <1>13, <1>15, <1>16, <1>17 DEF Covers

LEMMA TimesGrows ==
  ASSUME NEW p \in Nat, NEW q \in Nat, p < q, NEW n \in Nat
  PROVE  p * n + n <= q * n
  <1>1. PICK d \in Nat : q = p + 1 + d
    <2> WITNESS q - (p + 1) \in Nat
    <2> QED
      OBVIOUS
  <1>2. d * n \in Nat
    OBVIOUS
  <1>3. q * n = p * n + n + d * n
    BY <1>1
  <1>4. p * n \in Nat /\ q * n \in Nat
    OBVIOUS
  <1> QED
    BY <1>2, <1>3, <1>4

LEMMA PieceRange ==
  ASSUME NEW p \in Pieces
  PROVE  /\ p * PieceLen \in Nat /\ PieceLength(p) \in Nat
         /\ p * PieceLen + PieceLength(p) <= TotalLength
         /\ p * PieceLen + PieceLength(p) <= p * PieceLen + PieceLen
         /\ \A x \in Nat : p * PieceLen <= x /\ x < p * PieceLen + PieceLen /\ x < TotalLength
                             => x < p * PieceLen + PieceLength(p)
  <1> DEFINE L == PieceLen
             T == TotalLength
  <1>1. L \in Nat /\ L > 0 /\ T \in Nat /\ T > 0
    BY LifecycleAssumption
  <1>2. p \in Nat /\ p + 1 <= NumPieces /\ NumPieces = (T + L - 1) \div L
    BY PiecesFacts, <1>1 DEF Pieces, NumPieces
  <1>3. PieceLength(p) = (IF p * L + L > T THEN T ELSE p * L + L) - p * L
    BY DEF PieceLength
  <1> HIDE DEF L, T
  <1>4. NumPieces \in Nat /\ NumPieces * L <= T + L - 1
    BY <1>1, <1>2
  <1>5. p * L + L <= NumPieces * L
    <2>1. p < NumPieces
      BY <1>2, <1>4
    <2> QED
      BY <1>1, <1>2, <1>4, <2>1, TimesGrows
  <1>6. p * L \in Nat
    BY <1>1, <1>2
  <1>7. NumPieces * L \in Nat
    BY <1>1, <1>4
  <1>8. p * L < T
    BY <1>1, <1>4, <1>5, <1>6, <1>7
  <1>9. /\ PieceLength(p) \in Nat
        /\ p * L + PieceLength(p) <= T
        /\ p * L + PieceLength(p) <= p * L + L
        /\ \A x \in Nat : p * L <= x /\ x < p * L + L /\ x < T => x < p * L + PieceLength(p)
    BY <1>1, <1>3, <1>6, <1>8
  <1> QED
    BY <1>6, <1>9 DEF L, T

LEMMA PieceOf ==
  ASSUME NEW x \in Nat, x < TotalLength
  PROVE  \E p \in Pieces : p * PieceLen <= x /\ x < p * PieceLen + PieceLen
  <1> DEFINE L == PieceLen
             T == TotalLength
             p == x \div L
  <1>1. L \in Nat /\ L > 0 /\ T \in Nat /\ T > 0
    BY LifecycleAssumption
  <1>2. NumPieces = (T + L - 1) \div L /\ x < T
    BY DEF NumPieces
  <1> HIDE DEF L, T
  <1>3. p \in Nat /\ p * L <= x /\ x < p * L + L
    BY <1>1
  <1>4. NumPieces \in Nat /\ T + L - 1 < NumPieces * L + L
    BY <1>1, <1>2
  <1> HIDE DEF p
  <1>5. p < NumPieces
    <2> SUFFICES ASSUME NumPieces <= p PROVE FALSE
      BY <1>3, <1>4
    <2>1. NumPieces * L <= p * L
      <3>1. CASE NumPieces = p
        BY <3>1, <1>1, <1>3
      <3>2. CASE NumPieces < p
        <4>1. NumPieces * L + L <= p * L
          BY <3>2, <1>1, <1>3, <1>4, TimesGrows
        <4>2. NumPieces * L \in Nat /\ p * L \in Nat
          BY <1>1, <1>3, <1>4
        <4> QED
          BY <4>1, <4>2, <1>1
      <3> QED
        BY <3>1, <3>2, <1>3, <1>4
    <2>2. NumPieces * L \in Nat /\ p * L \in Nat
      BY <1>1, <1>3, <1>4
    <2> QED
      BY <1>1, <1>2, <1>3, <1>4, <2>1, <2>2
  <1>6. p \in Pieces
    BY <1>3, <1>4, <1>5 DEF Pieces
  <1> QED
    BY <1>3, <1>6 DEF L

LEMMA PieceIsCovered ==
  ASSUME NEW p \in Pieces
  PROVE  PieceBytes[p] = Covered(FileMapping(p * PieceLen, PieceLength(p)))
  BY DEF PieceBytes, PartOfPiece, PieceMapping, Covered

LEMMA BytesAre ==
  \A g, x : <<g, x>> \in Bytes <=> g \in Files /\ x \in Nat /\ x < FileLens[g]
  <1>1. DOMAIN FileLens = Files /\ \A g \in Files : FileLens[g] \in Nat
    BY FileLensType
  <1> QED
    BY <1>1 DEF Bytes

(* The bytes of a piece are those of its range in the torrent.              *)
LEMMA PieceExtent ==
  ASSUME NEW p \in Pieces
  PROVE  /\ PieceBytes[p] \subseteq Files \X Nat
         /\ \A g \in Files, x \in Nat :
              <<g, x>> \in PieceBytes[p]
                <=> /\ x < FileLens[g]
                    /\ p * PieceLen <= Position(g, x)
                    /\ Position(g, x) < p * PieceLen + PieceLength(p)
  <1> DEFINE offset == p * PieceLen
             length == PieceLength(p)
  <1>1. offset \in Nat /\ length \in Nat /\ offset + length <= TotalLength
    BY PieceRange
  <1>2. PieceBytes[p] = Covered(FileMapping(offset, length))
    BY PieceIsCovered
  <1> HIDE DEF offset, length
  <1>3. /\ PieceBytes[p] \subseteq Files \X Nat
        /\ \A g \in Files, x \in Nat :
              <<g, x>> \in PieceBytes[p]
                <=> /\ x < FileLens[g]
                    /\ offset <= Position(g, x) /\ Position(g, x) < offset + length
    BY <1>1, <1>2, MappingExact
  <1> QED
    BY <1>3 DEF offset, length

LEMMA OneBefore ==
  ASSUME NEW p \in Pieces, NEW q \in Pieces, p < q, NEW g \in Files, NEW x \in Nat,
         <<g, x>> \in PieceBytes[p], <<g, x>> \in PieceBytes[q]
  PROVE  FALSE
  <1> DEFINE P == p * PieceLen
             Q == q * PieceLen
             y == Position(g, x)
  <1>1. p \in Nat /\ q \in Nat /\ PieceLen \in Nat
    BY PiecesFacts, LifecycleAssumption
  <1>2. P \in Nat /\ Q \in Nat /\ P + PieceLen <= Q
    BY <1>1, TimesGrows
  <1>3. y \in Nat
    BY PositionIs
  <1>4. y < P + PieceLength(p) /\ Q <= y /\ P + PieceLength(p) <= P + PieceLen
        /\ PieceLength(p) \in Nat
    BY PieceExtent, PieceRange
  <1> HIDE DEF P, Q, y
  <1> QED
    BY <1>1, <1>2, <1>3, <1>4

(* No byte of a file belongs to two pieces, and every byte to one.          *)
THEOREM PiecesPartitionFiles ==
  /\ \A p \in Pieces : PieceBytes[p] \subseteq Bytes
  /\ \A p, q \in Pieces : p # q => PieceBytes[p] \cap PieceBytes[q] = {}
  /\ \A b \in Bytes : \E p \in Pieces : b \in PieceBytes[p]
  <1>1. ASSUME NEW p \in Pieces, NEW b \in PieceBytes[p]
        PROVE  b \in Bytes /\ b[1] \in Files /\ b[2] \in Nat /\ b = <<b[1], b[2]>>
    <2>1. b[1] \in Files /\ b[2] \in Nat /\ b = <<b[1], b[2]>>
      BY PieceExtent
    <2>2. <<b[1], b[2]>> \in PieceBytes[p]
      BY <2>1
    <2>3. b[2] < FileLens[b[1]]
      BY <2>1, <2>2, PieceExtent
    <2> QED
      BY <2>1, <2>3, BytesAre
  <1>2. ASSUME NEW p \in Pieces, NEW q \in Pieces, p # q, NEW b \in PieceBytes[p] \cap PieceBytes[q]
        PROVE  FALSE
    <2>1. p \in Nat /\ q \in Nat
      BY PiecesFacts
    <2>2. p < q \/ q < p
      BY <1>2, <2>1
    <2>3. b[1] \in Files /\ b[2] \in Nat /\ b = <<b[1], b[2]>>
      BY <1>1
    <2>4. <<b[1], b[2]>> \in PieceBytes[p] /\ <<b[1], b[2]>> \in PieceBytes[q]
      BY <2>3
    <2> QED
      BY <2>2, <2>3, <2>4, OneBefore
  <1>3. ASSUME NEW b \in Bytes PROVE \E p \in Pieces : b \in PieceBytes[p]
    <2> DEFINE g == b[1]
               x == b[2]
               y == Position(g, x)
    <2>1. b = <<g, x>>
      BY DEF Bytes
    <2> HIDE DEF g, x
    <2>2. g \in Files /\ x \in Nat /\ x < FileLens[g]
      BY <2>1, BytesAre
    <2>3. y \in Nat /\ y < TotalLength
      <3>1. y \in Nat /\ y < Offset[g] /\ g \in 0..Len(FileLens) /\ Offset[g] \in Nat
        BY <2>2, PositionIs
      <3>2. Len(FileLens) \in 0..Len(FileLens) /\ g <= Len(FileLens)
        BY <3>1, FileLensType
      <3>3. Offset[g] <= TotalLength /\ TotalLength \in Nat
        BY <3>1, <3>2, OffsetsGrow, LifecycleAssumption DEF TotalLength
      <3> HIDE DEF y
      <3> QED
        BY <3>1, <3>3
    <2> HIDE DEF y
    <2>4. PICK p \in Pieces : p * PieceLen <= y /\ y < p * PieceLen + PieceLen
      BY <2>3, PieceOf
    <2>5. y < p * PieceLen + PieceLength(p)
      BY <2>3, <2>4, PieceRange
    <2>6. <<g, x>> \in PieceBytes[p]
      BY <2>2, <2>4, <2>5, PieceExtent DEF y
    <2> QED
      BY <2>1, <2>6
  <1> QED
    BY <1>1, <1>2, <1>3

-----------------------------------------------------------------------------
(* What the files hold                                                      *)

\* No write for another piece, and no write of right data, spoils a piece.
LEMMA StaysVerified ==
  ASSUME NEW p \in Pieces, Verifies(p),
         \/ disk' = disk
         \/ \E bytes : disk' = Written(bytes, "right")
         \/ \E q \in Pieces \ {p} : \E what : disk' = Written(PieceBytes[q], what)
  PROVE  Verifies(p)'
  BY PiecesPartitionFiles DEF Verifies, Written

\* Every step within a session that does not write a piece.
LEMMA HeldFrame ==
  ASSUME HeldIsRight, UNCHANGED <<disk, loaded, reentered>>, bits' \subseteq bits,
         storage' = "open" => storage = "open",
         \A w \in Workers : wpc[w] = "written" => wpc'[w] = "written" /\ wpiece'[w] = wpiece[w]
  PROVE  HeldIsRight'
  BY DEF HeldIsRight, Verifies, OneGeneration

LEMMA HeldForgotten ==
  ASSUME NEW alive, Forget(alive)
  PROVE  HeldIsRight'
  BY DEF Forget, HeldIsRight

LEMMA HeldStep ==
  ASSUME Typed, LockInv, GoneInv, SaveInv, HeldIsRight, Next
  PROVE  HeldIsRight'
  <1>1. ASSUME NEW c \in Callers, Call(c) PROVE HeldIsRight'
    <2>1. CASE StartLoads(c)
      <3> SUFFICES ASSUME ~reentered' PROVE HeldIsRight'
        BY DEF HeldIsRight, OneGeneration
      <3>1. bits = {}
        BY <2>1 DEF StartLoads, GoneInv, SaveInv
      <3>2. UNCHANGED disk /\ loaded' = resume /\ (bits' = {} \/ bits' = Applied(resume))
        BY <2>1, <3>1 DEF StartLoads
      <3> QED
        BY <3>2 DEF Applied, HeldIsRight, Verifies
    <2>2. CASE StartPanics(c) \/ VerifyPanics(c)
      BY <2>2, HeldForgotten DEF StartPanics, VerifyPanics
    <2>3. CASE PauseLists(c) \/ ResumeReads(c) \/ StopCancels(c) \/ VerifyStarts(c)
      <3>1. UNCHANGED <<workerVars, disk, loaded, reentered, bits, storage>>
        BY <2>3 DEF PauseLists, ResumeReads, StopCancels, VerifyStarts
      <3> QED
        BY <3>1, HeldFrame
    <2> QED
      BY <1>1, <2>1, <2>2, <2>3 DEF Call
  <1>2. ASSUME NEW c \in Callers, CallerStep(c) PROVE HeldIsRight'
    <2>1. CASE StartEnds(c)
      <3>1. (\A w \in Workers : wpc[w] = "off") \/ wpc' = wpc
        BY <2>1 DEF StartEnds, At, GoneInv
      <3>2. UNCHANGED <<disk, loaded, reentered, bits, storage, wpiece>>
        BY <2>1 DEF StartEnds
      <3> QED
        BY <3>1, <3>2, HeldFrame
    <2>2. CASE SaveBegins(c) \/ PauseSaves(c) \/ ResumeEnds(c) \/ StopLists(c) \/ StopSaves(c)
               \/ StopEnds(c) \/ VerifyReads(c) \/ VerifyClears(c)
      <3>1. /\ UNCHANGED <<workerVars, disk, loaded, reentered>> /\ bits' \subseteq bits
            /\ storage' \in {storage, "closed"}
        BY <2>2 DEF SaveBegins, PauseSaves, ResumeEnds, StopLists, StopSaves, StopEnds, VerifyReads,
           VerifyClears
      <3> QED
        BY <3>1, HeldFrame
    <2>3. CASE Panics(c)
      BY <2>3, HeldForgotten DEF Panics
    <2> QED
      BY <1>2, <2>1, <2>2, <2>3 DEF CallerStep
  <1>3. ASSUME NEW w \in Workers, Writes(w) PROVE HeldIsRight'
    <2> SUFFICES ASSUME OneGeneration PROVE HeldIsRight'
      BY <1>3 DEF Writes, HeldIsRight, OneGeneration
    <2>1. /\ bits' = bits \cup {wpiece[w]} /\ wpc' = [wpc EXCEPT ![w] = "written"]
          /\ UNCHANGED <<wpiece, loaded>> /\ storage = "open"
          /\ \A v \in Workers : wpc[v] # "written"
          /\ \E what : disk' = Written(PieceBytes[wpiece[w]], what)
      BY <1>3 DEF Writes, ManagerFree
    <2>2. wpiece[w] \in Pieces /\ wpiece'[w] = wpiece[w] /\ wpc'[w] = "written"
      BY <1>3, <2>1 DEF Writes, Typed, WorkersTyped
    <2>3. ASSUME NEW p \in bits, p # wpiece[w], Verifies(p) PROVE Verifies(p)'
      BY <2>1, <2>2, <2>3, StaysVerified DEF Typed, PiecesTyped
    <2>4. ASSUME NEW p \in bits, p # wpiece[w] PROVE Verifies(p) \/ p \in loaded.bytes \ loaded.listed
      BY <2>1 DEF HeldIsRight
    <2>5. ASSUME NEW p \in bits'
          PROVE  \/ Verifies(p)'
                 \/ \E v \in Workers : wpiece'[v] = p /\ wpc'[v] = "written"
                 \/ p \in loaded'.bytes \ loaded'.listed
      BY <2>1, <2>2, <2>3, <2>4
    <2> QED
      BY <2>5 DEF HeldIsRight
  <1>4. ASSUME NEW w \in Workers, Checks(w) PROVE HeldIsRight'
    <2>1. wpc[w] = "written" /\ UNCHANGED <<disk, storage, loaded, reentered>>
          /\ \A v \in Workers \ {w} : wpc'[v] = wpc[v] /\ wpiece'[v] = wpiece[v]
      BY <1>4 DEF Checks, ToIdle, Typed, WorkersTyped
    <2>2. CASE storage = "open"
      <3>1. bits' \subseteq bits /\ (wpiece[w] \in bits' => Verifies(wpiece[w]))
        BY <1>4, <2>2 DEF Checks
      <3> QED
        BY <2>1, <2>2, <3>1 DEF HeldIsRight, Verifies, OneGeneration
    <2>3. CASE storage # "open"
      BY <2>1, <2>3 DEF HeldIsRight
    <2> QED
      BY <2>2, <2>3
  <1>5. ASSUME NEW w \in Workers, Completes(w) \/ Loses(w) \/ Drops(w) \/ GivesUp(w) \/ Leaves(w)
        PROVE  HeldIsRight'
    <2>1. /\ UNCHANGED <<storage, disk, loaded, reentered>> /\ bits' \subseteq bits
          /\ wpc[w] # "written"
          /\ \A v \in Workers \ {w} : wpc'[v] = wpc[v] /\ wpiece'[v] = wpiece[v]
      BY <1>5 DEF Completes, Loses, Drops, GivesUp, Leaves, ToIdle, Typed, WorkersTyped
    <2> QED
      BY <2>1, HeldFrame
  <1>6. ASSUME NEW w \in Workers, NEW p \in Pieces, Fetches(w, p) PROVE HeldIsRight'
    <2>1. /\ UNCHANGED <<bits, storage, disk, loaded, reentered>> /\ wpc[w] # "written"
          /\ \A v \in Workers \ {w} : wpc'[v] = wpc[v] /\ wpiece'[v] = wpiece[v]
      BY <1>6 DEF Fetches, Typed, WorkersTyped
    <2> QED
      BY <2>1, HeldFrame
  <1>7. CASE MonitorStep \/ MonitorEnds
    <2>1. UNCHANGED <<workerVars, disk, loaded, reentered, bits, storage>>
      BY <1>7 DEF MonitorStep, MonitorTick, MonitorChecks, CompleteTold, MonitorEnds
    <2> QED
      BY <2>1, HeldFrame
  <1>8. CASE Environment
    <2>1. CASE Restart
      BY <2>1, HeldFrame DEF Restart
    <2>2. CASE \E f \in DOMAIN FileLens : FileLost(f)
      BY <2>2 DEF FileLost, HeldIsRight
    <2> QED
      BY <1>8, <2>1, <2>2, HeldForgotten DEF Environment, Crash, NewSession, CrashWriting
  <1> QED
    BY <1>1, <1>2, <1>3, <1>4, <1>5, <1>6, <1>7, <1>8 DEF Next, WorkerStep

\* What HeldStays says of one step.
LEMMA StaysStep ==
  ASSUME Typed, GoneInv, Next,
         NEW p \in Pieces, p \in bits, Verifies(p), storage # "new", storage' # "new", ~reentered'
  PROVE  /\ Verifies(p)'
         /\ \/ p \in bits'
            \/ \E c \in Callers : At(c, "clearing") /\ checks[c] = p
            \/ \E w \in Workers : wpc[w] = "dropping" /\ wpiece[w] = p
  <1> DEFINE Stays == /\ Verifies(p)'
                      /\ \/ p \in bits'
                         \/ \E c \in Callers : At(c, "clearing") /\ checks[c] = p
                         \/ \E w \in Workers : wpc[w] = "dropping" /\ wpiece[w] = p
  <1> SUFFICES Stays
    OBVIOUS
  <1>1. ASSUME UNCHANGED <<disk, bits>> PROVE Stays
    BY <1>1, StaysVerified
  <1>2. ASSUME NEW alive, Forget(alive) PROVE Stays
    BY <1>2 DEF Forget
  <1> HIDE DEF Stays
  <1>3. ASSUME NEW c \in Callers, Call(c) PROVE Stays
    <2>1. CASE StartLoads(c)
      BY <2>1 DEF StartLoads, GoneInv
    <2>2. CASE StartPanics(c) \/ VerifyPanics(c)
      BY <1>2, <2>2 DEF StartPanics, VerifyPanics
    <2>3. CASE PauseLists(c) \/ ResumeReads(c) \/ StopCancels(c) \/ VerifyStarts(c)
      BY <1>1, <2>3 DEF PauseLists, ResumeReads, StopCancels, VerifyStarts
    <2> QED
      BY <1>3, <2>1, <2>2, <2>3 DEF Call
  <1>4. ASSUME NEW c \in Callers, CallerStep(c) PROVE Stays
    <2>1. CASE VerifyClears(c)
      <3>1. disk' = disk /\ bits' = bits \ {checks[c]} /\ At(c, "clearing")
        BY <2>1 DEF VerifyClears
      <3> QED
        BY <3>1, StaysVerified DEF Stays
    <2>2. CASE StartEnds(c) \/ SaveBegins(c) \/ PauseSaves(c) \/ ResumeEnds(c) \/ StopLists(c)
               \/ StopSaves(c) \/ StopEnds(c) \/ VerifyReads(c)
      <3>1. UNCHANGED <<disk, bits>>
        BY <2>2 DEF StartEnds, SaveBegins, PauseSaves, ResumeEnds, StopLists, StopSaves, StopEnds,
           VerifyReads
      <3> QED
        BY <1>1, <3>1
    <2>3. CASE Panics(c)
      BY <1>2, <2>3 DEF Panics
    <2> QED
      BY <1>4, <2>1, <2>2, <2>3 DEF CallerStep
  <1>5. ASSUME NEW w \in Workers, Writes(w) PROVE Stays
    <2>1. /\ bits' = bits \cup {wpiece[w]} /\ wpiece[w] \in Pieces
          /\ \E what : disk' = Written(PieceBytes[wpiece[w]], what)
      BY <1>5 DEF Writes, Typed, WorkersTyped
    <2>2. p # wpiece[w]
      BY <1>5 DEF Writes
    <2>3. Verifies(p)'
      BY <2>1, <2>2, StaysVerified
    <2> QED
      BY <2>1, <2>3 DEF Stays
  <1>6. ASSUME NEW w \in Workers, Checks(w) \/ Drops(w) PROVE Stays
    <2>1. UNCHANGED disk /\ (p \in bits' \/ (wpc[w] = "dropping" /\ wpiece[w] = p))
      BY <1>6 DEF Checks, Drops
    <2> QED
      BY <2>1, StaysVerified DEF Stays
  <1>7. ASSUME NEW w \in Workers,
               Completes(w) \/ Loses(w) \/ GivesUp(w) \/ Leaves(w) \/ \E q \in Pieces : Fetches(w, q)
        PROVE  Stays
    BY <1>1, <1>7 DEF Completes, Loses, GivesUp, Leaves, Fetches
  <1>8. CASE MonitorStep \/ MonitorEnds
    BY <1>1, <1>8 DEF MonitorStep, MonitorTick, MonitorChecks, CompleteTold, MonitorEnds
  <1>9. CASE Environment
    <2>1. CASE Restart
      BY <1>1, <2>1 DEF Restart
    <2>2. CASE \E f \in DOMAIN FileLens : FileLost(f)
      BY <2>2 DEF FileLost
    <2> QED
      BY <1>2, <1>9, <2>1, <2>2 DEF Environment, Crash, NewSession, CrashWriting
  <1> QED
    BY <1>3, <1>4, <1>5, <1>6, <1>7, <1>8, <1>9 DEF Next, WorkerStep

-----------------------------------------------------------------------------
(* The theorems                                                             *)

LifeInv == Typed /\ LockInv /\ GoneInv /\ SaveInv

LEMMA LifeInit == Init => LifeInv
  <1> SUFFICES ASSUME Init PROVE LifeInv
    OBVIOUS
  <1>1. LockInv /\ GoneInv
    BY DEF Init, LockInv, GoneInv, InStop, Saving, Locked, GoroutinesGone
  <1>2. SaveInv
    BY DEF Init, SaveInv, Saving, OneGeneration
  <1> QED
    BY <1>1, <1>2, TypeInit DEF LifeInv

LEMMA LifeStep == LifeInv /\ [Next]_vars => LifeInv'
  <1> SUFFICES ASSUME LifeInv, [Next]_vars PROVE LifeInv'
    OBVIOUS
  <1>1. CASE Next
    BY <1>1, TypeStep, LockInvStep, GoneStep, SaveStep DEF LifeInv, Typed
  <1>2. CASE UNCHANGED vars
    <2>1. Typed'
      BY <1>2 DEF LifeInv, vars, Typed, FilesTyped, FlagsTyped, StatesTyped, LockTyped, CallersTyped,
         SnapTyped, WorkersTyped, PiecesTyped, EventsTyped
    <2>2. LockInv' /\ GoneInv'
      BY <1>2 DEF LifeInv, vars, LockInv, GoneInv, InStop, Saving, GoroutinesGone
    <2>3. SaveInv'
      BY <1>2 DEF LifeInv, vars, SaveInv, Saving, OneGeneration
    <2> QED
      BY <2>1, <2>2, <2>3 DEF LifeInv
  <1> QED
    BY <1>1, <1>2

LEMMA LifeAlways == Spec => []LifeInv
  BY LifeInit, LifeStep, PTL DEF Spec

(* Type correctness, for any torrent and whatever is called how often.      *)
THEOREM LifecycleTyped == Spec => []TypeOK
  <1>1. LifeInv => TypeOK
    BY TypedIsType DEF LifeInv
  <1> QED
    BY <1>1, LifeAlways, PTL

(* When Stop has closed the event channel, no worker and no monitor is left *)
(* that could send on it, and no other method is under way that will - but  *)
(* for one of a Start that was called while Stop was waiting.               *)
THEOREM ClosedIsQuiet == Spec => []QuietWhenClosed
  <1>1. LifeInv => QuietWhenClosed
    BY DEF LifeInv, GoneInv, LockInv, QuietWhenClosed
  <1> QED
    BY <1>1, LifeAlways, PTL

(* What is held and neither in the resume file nor completed since the last *)
(* save is nothing, while no save is under way and the file can be read:    *)
(* a piece that a worker completes between the two reads of a save is in    *)
(* the next one.  It is said of sessions that are not started during a Stop, *)
(* where two Stops may save over each other.                                *)
THEOREM SavesLoseNothing == Spec => []OnlyMissedIsLost
  <1>1. LifeInv => OnlyMissedIsLost
    BY DEF LifeInv, SaveInv, Saving, OneGeneration, OnlyMissedIsLost
  <1> QED
    BY <1>1, LifeAlways, PTL

(* What the session says it holds is right in the files, after any crashes, *)
(* saves and lost files, but for what is being verified and for what was    *)
(* restored unverified - unless it was started during a Stop.               *)
THEOREM HeldPiecesAreRight == Spec => []HeldIsRight
  <1>1. Init => HeldIsRight
    BY DEF Init, HeldIsRight
  <1>2. LifeInv /\ HeldIsRight /\ [Next]_vars => HeldIsRight'
    <2>1. LifeInv /\ HeldIsRight /\ Next => HeldIsRight'
      BY HeldStep DEF LifeInv
    <2>2. HeldIsRight /\ UNCHANGED vars => HeldIsRight'
      BY HeldFrame DEF vars
    <2> QED
      BY <2>1, <2>2
  <1> QED
    BY <1>1, <1>2, LifeAlways, PTL DEF Spec

(* A session that has all pieces has the torrent: every byte of every file  *)
(* is right, unless a worker has yet to verify a piece, the resume data had *)
(* a piece that was not listed, or it was started during a Stop.            *)
WholeTorrent ==
  storage = "open" /\ OneGeneration /\ IsComplete /\ (\A w \in Workers : wpc[w] # "written")
    /\ loaded.bytes \subseteq loaded.listed
  => \A b \in Bytes : disk[b] = "right"

THEOREM CompleteIsWhole == Spec => []WholeTorrent
  <1>1. HeldIsRight => WholeTorrent
    <2> SUFFICES ASSUME HeldIsRight, storage = "open", OneGeneration, IsComplete,
                        \A w \in Workers : wpc[w] # "written",
                        loaded.bytes \subseteq loaded.listed,
                        NEW b \in Bytes
                 PROVE  disk[b] = "right"
      BY DEF WholeTorrent
    <2>1. PICK p \in Pieces : b \in PieceBytes[p]
      BY PiecesPartitionFiles
    <2>2. Verifies(p)
      BY DEF HeldIsRight, IsComplete
    <2> QED
      BY <2>1, <2>2 DEF Verifies
  <1> QED
    BY <1>1, HeldPiecesAreRight, PTL

(* The bytes of a piece that is held and right stay right while the session *)
(* lasts, whatever any worker writes elsewhere or writes late.  The bit     *)
(* itself is not as safe: VerifyData may take it, and so does a worker      *)
(* whose request for the piece timed out before another completed it.  The  *)
(* session is one that was not started again during a Stop.                 *)
THEOREM HeldPiecesStay == Spec => HeldStays
  <1> DEFINE Stays == \A p \in Pieces :
       (p \in bits /\ Verifies(p) /\ storage # "new" /\ storage' # "new" /\ ~reentered')
         => /\ Verifies(p)'
            /\ \/ p \in bits'
               \/ \E c \in Callers : At(c, "clearing") /\ checks[c] = p
               \/ \E w \in Workers : wpc[w] = "dropping" /\ wpiece[w] = p
  <1>1. LifeInv /\ [Next]_vars => [Stays]_vars
    BY StaysStep DEF LifeInv
  <1> QED
    BY <1>1, LifeAlways, PTL DEF Spec, HeldStays
=============================================================================
