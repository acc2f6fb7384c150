--------------------------- MODULE ServiceProofs ---------------------------
(***************************************************************************)
(* What holds of the download command, of the fetch of a magnet link's     *)
(* metadata and of the tables of the client API, for every length of the   *)
(* channels, every number of keys, of sources, of peers and of chunks, and *)
(* any number of goroutines, whatever they call; and what the five         *)
(* components of MCServices have together.                                 *)
(*                                                                         *)
(* The command: StopInv says where a thread that stops the torrent can be, *)
(* SaveInv that the session was stopped by somebody who has saved it or is *)
(* about to.                                                               *)
(*                                                                         *)
(* The fetch: LaunchInv says what the launcher has done, ExchangeInv what  *)
(* an exchange has come to, ReportInv where its result is, and OutcomeInv  *)
(* why the call has returned.                                              *)
(*                                                                         *)
(* The tables: TablesInv says what holds in the middle of a call, where at *)
(* most one has changed one table and not yet the other and knows the      *)
(* session that is concerned; DoomedInv names the call that will stop a    *)
(* session that was found running.                                         *)
(***************************************************************************)
EXTENDS MCServices, TrackersProofs, DhtProofs, FiniteSetTheorems

-----------------------------------------------------------------------------
(* The command: types *)

Events == {"tick", "complete", "paused", "resumed"}
StopSteps == {"flag", "forwarder", "session", "saving", "ending"}
Steps == StopSteps \cup {"loop", "exited", "waiting", "done"}

TorrentTyped ==
  /\ phase \in {"downloading", "seeding", "paused"}
  /\ complete \in BOOLEAN /\ sessionOn \in BOOLEAN /\ alive \in BOOLEAN /\ saved \in BOOLEAN
ChannelTyped ==
  /\ sessionEvents \in Seq(Events) /\ Len(sessionEvents) <= EventCap
  /\ apiEvents \in Seq(Events) /\ Len(apiEvents) <= EventCap
  /\ forwarder \in Events \cup {"receiving", "ended"} /\ torrentDone \in BOOLEAN
StepTyped ==
  /\ step \in [Threads -> Steps] /\ caller \in [Threads -> {"none", "key", "signal", "client", "engine"}]
  /\ step["main"] \notin {"waiting", "done"} /\ step["signal"] \notin {"loop", "exited"}
KeyTyped ==
  /\ cancelled \in BOOLEAN /\ paused \in BOOLEAN /\ isCompleted \in BOOLEAN /\ seedAfter \in BOOLEAN
  /\ keyboard \in {"checking", "reading", "p", "q", "ended"}
  /\ keys \in Seq({"p", "q"}) /\ Len(keys) <= KeyCap /\ pressed \in 0 .. MaxKeys

CommandTyped == TorrentTyped /\ ChannelTyped /\ StepTyped /\ KeyTyped

\* A thread stops the torrent in a call of its own; the engine's call begins at the session.
StopInv ==
  /\ step["main"] \in StopSteps => caller["main"] \in {"key", "client", "engine"}
  /\ step["main"] \in {"flag", "forwarder"} => caller["main"] # "engine"
  /\ step["signal"] \in StopSteps => caller["signal"] = "signal"

\* Who has found the session running saves it before it goes on.
SaveInv ==
  /\ \A k \in Threads : step[k] \in {"saving", "ending"} => ~sessionOn
  /\ \A k \in Threads : step[k] = "ending" => saved
  /\ ~sessionOn => saved \/ \E k \in Threads : step[k] = "saving"
  /\ Exited => ~sessionOn

CommandInv == CommandTyped /\ StopInv /\ SaveInv

LEMMA AppendFits ==
  ASSUME NEW S, NEW s \in Seq(S), NEW e \in S
  PROVE  /\ Append(s, e) \in Seq(S) /\ Len(Append(s, e)) = Len(s) + 1 /\ Len(s) \in Nat
         /\ Len(s) + 1 \in 1 .. Len(Append(s, e)) /\ Append(s, e)[Len(s) + 1] = e
  OBVIOUS

LEMMA TailFits ==
  ASSUME NEW S, NEW s \in Seq(S), s # <<>>
  PROVE  Tail(s) \in Seq(S) /\ Len(s) \in Nat \ {0} /\ Len(Tail(s)) = Len(s) - 1 /\ Head(s) \in S
  OBVIOUS

LEMMA SendFits ==
  ASSUME NEW s \in Seq(Events), Len(s) <= EventCap, NEW e \in Events
  PROVE  SendOrDrop(s, e) \in Seq(Events) /\ Len(SendOrDrop(s, e)) <= EventCap
  <1>1. Append(s, e) \in Seq(Events) /\ Len(Append(s, e)) = Len(s) + 1 /\ Len(s) \in Nat
    BY AppendFits
  <1> QED
    BY <1>1, CommandAssumption DEF SendOrDrop

(* Where a call of Stop returns to.                                        *)
LEMMA StopReturns ==
  ASSUME StepTyped, StopInv, NEW k \in Threads, step[k] \in StopSteps, ReturnsFromStop(k)
  PROVE  \E where \in Steps, who \in {"client", "engine", "signal"} :
           /\ step' = [step EXCEPT ![k] = where] /\ caller' = [caller EXCEPT ![k] = who]
           /\ k = "signal" => where = "done" /\ who = "signal"
           /\ k = "main" => \/ where = "flag" /\ who = "client"
                            \/ where = "session" /\ who = "engine"
                            \/ where = "exited" /\ caller[k] = "engine" /\ who = "engine"
  <1>1. CASE k = "signal"
    <2>1. caller[k] = "signal"
      BY <1>1 DEF StopInv
    <2>2. step' = [step EXCEPT ![k] = "done"] /\ caller' = caller
      BY <2>1 DEF ReturnsFromStop, Reaches
    <2>3. caller' = [caller EXCEPT ![k] = "signal"]
      BY <2>1, <2>2 DEF StepTyped
    <2> QED
      BY <1>1, <2>2, <2>3 DEF Steps
  <1>2. CASE k = "main" /\ caller[k] = "key"
    <2>1. step' = [step EXCEPT ![k] = "flag"] /\ caller' = [caller EXCEPT ![k] = "client"]
      BY <1>2 DEF ReturnsFromStop, EntersStop
    <2> QED
      BY <1>2, <2>1 DEF Steps, StopSteps
  <1>3. CASE k = "main" /\ caller[k] = "client"
    <2>1. step' = [step EXCEPT ![k] = "session"] /\ caller' = [caller EXCEPT ![k] = "engine"]
      BY <1>3 DEF ReturnsFromStop
    <2> QED
      BY <1>3, <2>1 DEF Steps, StopSteps
  <1>4. CASE k = "main" /\ caller[k] = "engine"
    <2>1. step' = [step EXCEPT ![k] = "exited"] /\ caller' = caller
      BY <1>4 DEF ReturnsFromStop, Reaches
    <2>2. caller' = [caller EXCEPT ![k] = "engine"]
      BY <1>4, <2>1 DEF StepTyped
    <2> QED
      BY <1>4, <2>1, <2>2 DEF Steps
  <1> QED
    BY <1>1, <1>2, <1>3, <1>4 DEF Threads, StopInv

(* The steps of a thread that stops the torrent.                           *)
LEMMA StopStepKeeps ==
  ASSUME CommandInv, ~Exited, NEW k \in Threads, StopStep(k) PROVE CommandInv'
  <1> USE DEF CommandInv, CommandTyped, TorrentTyped, StepTyped
  <1> DEFINE Moves(where, who) ==
        step' = [step EXCEPT ![k] = where] /\ caller' = [caller EXCEPT ![k] = who]
  <1>1. ASSUME NEW where \in StopSteps, Reaches(k, where), step[k] \in StopSteps,
               caller[k] = "engine" => where \notin {"flag", "forwarder"}
        PROVE  StepTyped' /\ StopInv'
    BY <1>1 DEF Reaches, StopInv, Threads, Steps, StopSteps
  <1>2. ASSUME ReturnsFromStop(k), step[k] \in StopSteps
        PROVE  /\ StepTyped' /\ StopInv' /\ step'[k] \notin {"saving", "ending"}
               /\ \A j \in Threads \ {k} : step'[j] = step[j]
               /\ Exited' => step[k] \notin {"flag", "forwarder"}
    <2>1. PICK where \in Steps, who \in {"client", "engine", "signal"} :
            /\ step' = [step EXCEPT ![k] = where] /\ caller' = [caller EXCEPT ![k] = who]
            /\ k = "signal" => where = "done" /\ who = "signal"
            /\ k = "main" => \/ where = "flag" /\ who = "client"
                             \/ where = "session" /\ who = "engine"
                             \/ where = "exited" /\ caller[k] = "engine" /\ who = "engine"
      BY <1>2, StopReturns
    <2>2. StepTyped'
      BY <2>1 DEF Threads, Steps
    <2>3. /\ step'[k] = where /\ caller'[k] = who
          /\ \A j \in Threads \ {k} : step'[j] = step[j] /\ caller'[j] = caller[j]
      BY <2>1
    <2>4. StopInv'
      BY <2>1, <2>3 DEF StopInv, Threads, StopSteps
    <2>5. step'[k] \notin {"saving", "ending"}
      BY <2>1, <2>3 DEF Threads
    <2>6. Exited' => step[k] \notin {"flag", "forwarder"}
      <3>1. CASE k = "main"
        BY <2>1, <2>3, <3>1 DEF Exited, StopInv
      <3>2. CASE k = "signal"
        <4>1. step'["main"] = step["main"]
          BY <2>3, <3>2 DEF Threads
        <4> QED
          BY <4>1, <3>2, <1>2 DEF Exited
      <3> QED
        BY <3>1, <3>2 DEF Threads
    <2> QED
      BY <2>2, <2>3, <2>4, <2>5, <2>6
  <1>3. ASSUME TorrentStop(k) PROVE CommandInv'
    <2>1. step[k] = "flag" /\ torrentDone' = TRUE /\ UNCHANGED <<torrentVars, mainVars, keyVars, cancelled>>
          /\ UNCHANGED <<sessionEvents, apiEvents, forwarder>>
      BY <1>3 DEF TorrentStop
    <2>2. /\ StepTyped' /\ StopInv' /\ step'[k] \notin {"saving", "ending"}
          /\ \A j \in Threads \ {k} : step'[j] = step[j]
          /\ ~Exited'
      <3>1. CASE torrentDone
        BY <1>2, <1>3, <2>1, <3>1 DEF TorrentStop, StopSteps
      <3>2. CASE ~torrentDone
        <4>1. Reaches(k, "forwarder") /\ caller[k] # "engine"
          BY <1>3, <2>1, <3>2 DEF TorrentStop, StopInv, Threads, StopSteps
        <4>2. StepTyped' /\ StopInv'
          BY <1>1, <2>1, <4>1 DEF StopSteps
        <4> QED
          BY <4>1, <4>2, <2>1 DEF Reaches, Exited
      <3> QED
        BY <3>1, <3>2
    <2>3. SaveInv'
      <3>1. sessionOn' = sessionOn /\ saved' = saved /\ step[k] = "flag"
        BY <2>1 DEF torrentVars
      <3>2. \A j \in Threads : step'[j] \in {"saving", "ending"} => step'[j] = step[j]
        BY <2>2
      <3>3. \A j \in Threads : step[j] = "saving" => step'[j] = "saving"
        BY <2>2, <3>1
      <3>5. (\E j \in Threads : step[j] = "saving") => \E j \in Threads : step'[j] = "saving"
        BY <3>3
      <3>6. \A j \in Threads : /\ step'[j] \in {"saving", "ending"} => ~sessionOn'
                               /\ step'[j] = "ending" => saved'
        BY <3>1, <3>2 DEF SaveInv
      <3>7. ~sessionOn' => saved' \/ \E j \in Threads : step'[j] = "saving"
        BY <3>1, <3>5 DEF SaveInv
      <3> QED
        BY <2>2, <3>6, <3>7 DEF SaveInv
    <2>4. TorrentTyped'
      BY <2>1 DEF torrentVars
    <2>5. ChannelTyped' /\ KeyTyped'
      BY <2>1 DEF ChannelTyped, KeyTyped, mainVars, keyVars
    <2> QED
      BY <2>2, <2>3, <2>4, <2>5
  <1>4. ASSUME ForwarderEnded(k) PROVE CommandInv'
    <2>1. step[k] = "forwarder" /\ Reaches(k, "session") /\ caller[k] # "engine"
          /\ UNCHANGED <<torrentVars, channelVars, mainVars, keyVars, cancelled>>
      BY <1>4 DEF ForwarderEnded, StopInv, Threads, StopSteps
    <2>2. StepTyped' /\ StopInv'
      BY <1>1, <2>1 DEF StopSteps
    <2>3. SaveInv'
      BY <2>1 DEF SaveInv, torrentVars, Reaches, Exited, Threads
    <2>4. TorrentTyped'
      BY <2>1 DEF torrentVars
    <2>5. ChannelTyped' /\ KeyTyped'
      BY <2>1 DEF ChannelTyped, KeyTyped, channelVars, mainVars, keyVars
    <2> QED
      BY <2>2, <2>3, <2>4, <2>5
  <1>5. ASSUME SessionStop(k) PROVE CommandInv'
    <2>1. step[k] = "session" /\ sessionOn' = FALSE
          /\ UNCHANGED <<phase, complete, alive, saved, channelVars, mainVars, keyVars, cancelled>>
      BY <1>5 DEF SessionStop
    <2>2. CASE sessionOn
      <3>1. Reaches(k, "saving")
        BY <1>5, <2>2 DEF SessionStop
      <3>2. StepTyped' /\ StopInv'
        BY <1>1, <2>1, <3>1 DEF StopSteps
      <3>3. step'[k] = "saving"
        BY <3>1 DEF Reaches
      <3>4. SaveInv'
        BY <2>1, <2>2, <3>1, <3>3 DEF SaveInv, Reaches, Exited, Threads
      <3>5. TorrentTyped'
        BY <2>1
      <3>6. ChannelTyped' /\ KeyTyped'
        BY <2>1 DEF ChannelTyped, KeyTyped, channelVars, mainVars, keyVars
      <3> QED
        BY <3>2, <3>4, <3>5, <3>6
    <2>3. CASE ~sessionOn
      <3>1. /\ StepTyped' /\ StopInv' /\ step'[k] \notin {"saving", "ending"}
            /\ \A j \in Threads \ {k} : step'[j] = step[j]
        BY <1>2, <1>5, <2>1, <2>3 DEF SessionStop, StopSteps
      <3>2. SaveInv'
        BY <2>1, <2>3, <3>1 DEF SaveInv
      <3>5. TorrentTyped'
        BY <2>1
      <3>6. ChannelTyped' /\ KeyTyped'
        BY <2>1 DEF ChannelTyped, KeyTyped, channelVars, mainVars, keyVars
      <3> QED
        BY <3>1, <3>2, <3>5, <3>6
    <2> QED
      BY <2>2, <2>3
  <1>6. ASSUME SessionSaves(k) PROVE CommandInv'
    <2>1. step[k] = "saving" /\ saved' = TRUE /\ Reaches(k, "ending")
          /\ UNCHANGED <<phase, complete, sessionOn, alive, channelVars, mainVars, keyVars, cancelled>>
      BY <1>6 DEF SessionSaves
    <2>2. StepTyped' /\ StopInv'
      BY <1>1, <2>1 DEF StopSteps
    <2>3. SaveInv'
      BY <2>1 DEF SaveInv, Reaches, Exited, Threads
    <2>4. TorrentTyped'
      BY <2>1
    <2>5. ChannelTyped' /\ KeyTyped'
      BY <2>1 DEF ChannelTyped, KeyTyped, channelVars, mainVars, keyVars
    <2> QED
      BY <2>2, <2>3, <2>4, <2>5
  <1>7. ASSUME SessionEnds(k) PROVE CommandInv'
    <2>1. step[k] = "ending" /\ alive' = FALSE /\ saved /\ ~sessionOn
          /\ UNCHANGED <<phase, complete, sessionOn, saved, channelVars, mainVars, keyVars, cancelled>>
      BY <1>7 DEF SessionEnds, SaveInv
    <2>2. /\ StepTyped' /\ StopInv' /\ step'[k] \notin {"saving", "ending"}
          /\ \A j \in Threads \ {k} : step'[j] = step[j]
      BY <1>2, <1>7, <2>1 DEF SessionEnds, StopSteps
    <2>3. SaveInv'
      BY <2>1, <2>2 DEF SaveInv
    <2>4. TorrentTyped'
      BY <2>1
    <2>5. ChannelTyped' /\ KeyTyped'
      BY <2>1 DEF ChannelTyped, KeyTyped, channelVars, mainVars, keyVars
    <2> QED
      BY <2>2, <2>3, <2>4, <2>5
  <1> QED
    BY <1>3, <1>4, <1>5, <1>6, <1>7 DEF StopStep

(* The steps of the session, the forwarder and the keyboard leave both      *)
(* threads where they are.                                                  *)
LEMMA OthersKeep ==
  ASSUME CommandInv,
         \/ Ticks \/ SessionCompletes
         \/ ForwarderReceives \/ ForwarderEnds \/ PassesOn
         \/ KeyboardChecks \/ KeySent \/ \E key \in {"p", "q"} : KeyPressed(key)
  PROVE  CommandInv'
  <1> USE DEF CommandInv, CommandTyped
  <1>1. UNCHANGED <<sessionOn, saved, step, caller>>
    BY DEF Ticks, SessionCompletes, ForwarderReceives, ForwarderEnds, PassesOn, KeyboardChecks, KeySent,
           KeyPressed, torrentVars, stepVars
  <1>2. StepTyped' /\ StopInv' /\ SaveInv'
    BY <1>1 DEF StepTyped, StopInv, SaveInv, Exited
  <1>3. TorrentTyped'
    BY DEF TorrentTyped, Ticks, SessionCompletes, ForwarderReceives, ForwarderEnds, PassesOn, KeyboardChecks,
           KeySent, KeyPressed, torrentVars
  <1>4. ChannelTyped'
    <2> USE DEF ChannelTyped
    <2>1. CASE Ticks \/ SessionCompletes
      <3>1. PICK e \in Events : sessionEvents' = SendOrDrop(sessionEvents, e)
        BY <2>1 DEF Ticks, SessionCompletes, Emits, Events
      <3>2. UNCHANGED <<apiEvents, forwarder, torrentDone>>
        BY <2>1 DEF Ticks, SessionCompletes
      <3> QED
        BY <3>1, <3>2, SendFits
    <2>2. CASE ForwarderReceives
      <3>1. /\ sessionEvents # <<>> /\ forwarder' = Head(sessionEvents) /\ sessionEvents' = Tail(sessionEvents)
            /\ UNCHANGED <<apiEvents, torrentDone>>
        BY <2>2 DEF ForwarderReceives
      <3>2. /\ Tail(sessionEvents) \in Seq(Events) /\ Head(sessionEvents) \in Events
            /\ Len(sessionEvents) \in Nat \ {0} /\ Len(Tail(sessionEvents)) = Len(sessionEvents) - 1
        BY <3>1, TailFits
      <3>3. Len(Tail(sessionEvents)) <= EventCap
        BY <3>2, CommandAssumption
      <3> QED
        BY <3>1, <3>2, <3>3
    <2>3. CASE ForwarderEnds
      BY <2>3 DEF ForwarderEnds
    <2>4. CASE PassesOn
      <3>1. forwarder \in Events /\ apiEvents' = SendOrDrop(apiEvents, forwarder) /\ forwarder' = "receiving"
            /\ UNCHANGED <<sessionEvents, torrentDone>>
        BY <2>4 DEF PassesOn
      <3> QED
        BY <3>1, SendFits
    <2>5. CASE KeyboardChecks \/ KeySent \/ \E key \in {"p", "q"} : KeyPressed(key)
      BY <2>5 DEF KeyboardChecks, KeySent, KeyPressed, channelVars
    <2> QED
      BY <2>1, <2>2, <2>3, <2>4, <2>5
  <1>5. KeyTyped'
    <2> USE DEF KeyTyped
    <2>1. CASE Ticks \/ SessionCompletes \/ ForwarderReceives \/ ForwarderEnds \/ PassesOn
      BY <2>1 DEF Ticks, SessionCompletes, ForwarderReceives, ForwarderEnds, PassesOn, stepVars, mainVars, keyVars
    <2>2. CASE KeyboardChecks
      BY <2>2 DEF KeyboardChecks, stepVars, mainVars
    <2>3. CASE KeySent
      <3>1. /\ keyboard \in {"p", "q"} /\ Len(keys) < KeyCap /\ keys' = Append(keys, keyboard)
            /\ keyboard' = "checking" /\ UNCHANGED <<cancelled, paused, isCompleted, seedAfter, pressed>>
        BY <2>3 DEF KeySent, stepVars, mainVars
      <3>2. Append(keys, keyboard) \in Seq({"p", "q"}) /\ Len(Append(keys, keyboard)) = Len(keys) + 1
            /\ Len(keys) \in Nat
        BY <3>1, AppendFits
      <3>3. Len(keys') <= KeyCap
        BY <3>1, <3>2, CommandAssumption
      <3> QED
        BY <3>1, <3>2, <3>3
    <2>4. ASSUME NEW key \in {"p", "q"}, KeyPressed(key) PROVE KeyTyped'
      BY <2>4, CommandAssumption DEF KeyPressed, stepVars, mainVars
    <2> QED
      BY <2>1, <2>2, <2>3, <2>4
  <1> QED
    BY <1>2, <1>3, <1>4, <1>5

(* A signal, and the main loop, which may begin to stop the torrent.       *)
LEMMA LoopKeeps ==
  ASSUME CommandInv,
         \/ SignalComes \/ SeesCancelled \/ Quits \/ TogglesPause
         \/ \E ratioReached \in BOOLEAN : TakesEvent(ratioReached)
  PROVE  CommandInv'
  <1> USE DEF CommandInv, CommandTyped
  <1>1. ASSUME NEW k \in Threads, NEW who \in {"key", "signal", "client"}, EntersStop(k, who),
               step[k] \in {"loop", "waiting"}, k = "signal" <=> who = "signal",
               UNCHANGED <<sessionOn, saved>>
        PROVE  StepTyped' /\ StopInv' /\ SaveInv'
    <2>1. /\ step'[k] = "flag" /\ caller'[k] = who
          /\ \A j \in Threads \ {k} : step'[j] = step[j] /\ caller'[j] = caller[j]
      BY <1>1 DEF EntersStop, StepTyped
    <2>2. StepTyped'
      BY <1>1, <2>1 DEF EntersStop, StepTyped, Threads, Steps, StopSteps
    <2>3. StopInv'
      BY <1>1, <2>1 DEF StopInv, Threads, StopSteps
    <2>4. SaveInv'
      BY <1>1, <2>1 DEF SaveInv, Exited, Threads
    <2> QED
      BY <2>2, <2>3, <2>4
  <1>2. ASSUME keys # <<>>, keys' = Tail(keys)
        PROVE  keys' \in Seq({"p", "q"}) /\ Len(keys') <= KeyCap
    <2>1. keys \in Seq({"p", "q"}) /\ Len(keys) <= KeyCap
      BY DEF KeyTyped
    <2>2. Tail(keys) \in Seq({"p", "q"}) /\ Len(keys) \in Nat \ {0} /\ Len(Tail(keys)) = Len(keys) - 1
      BY <1>2, <2>1, TailFits
    <2> QED
      BY <1>2, <2>1, <2>2, CommandAssumption
  <1>3. CASE SignalComes
    <2>1. /\ EntersStop("signal", "signal") /\ step["signal"] = "waiting" /\ cancelled' = TRUE
          /\ UNCHANGED <<torrentVars, channelVars, mainVars, keyVars>>
      BY <1>3 DEF SignalComes
    <2>2. StepTyped' /\ StopInv' /\ SaveInv'
      BY <1>1, <2>1 DEF Threads, torrentVars
    <2> QED
      BY <2>1, <2>2 DEF TorrentTyped, ChannelTyped, KeyTyped, torrentVars, channelVars, mainVars, keyVars
  <1>4. CASE SeesCancelled
    <2>1. /\ EntersStop("main", "client") /\ step["main"] = "loop"
          /\ UNCHANGED <<torrentVars, channelVars, cancelled, mainVars, keyVars>>
      BY <1>4 DEF SeesCancelled, InLoop
    <2>2. StepTyped' /\ StopInv' /\ SaveInv'
      BY <1>1, <2>1 DEF Threads, torrentVars
    <2> QED
      BY <2>1, <2>2 DEF TorrentTyped, ChannelTyped, KeyTyped, torrentVars, channelVars, mainVars, keyVars
  <1>5. CASE Quits
    <2>1. /\ EntersStop("main", "key") /\ step["main"] = "loop" /\ cancelled' = TRUE
          /\ keys # <<>> /\ keys' = Tail(keys)
          /\ UNCHANGED <<torrentVars, channelVars, mainVars, keyboard, pressed>>
      BY <1>5 DEF Quits, InLoop
    <2>2. StepTyped' /\ StopInv' /\ SaveInv'
      BY <1>1, <2>1 DEF Threads, torrentVars
    <2>3. KeyTyped'
      BY <1>2, <2>1 DEF KeyTyped, mainVars
    <2> QED
      BY <2>1, <2>2, <2>3 DEF TorrentTyped, ChannelTyped, torrentVars, channelVars
  <1>6. CASE TogglesPause
    <2>1. /\ keys # <<>> /\ keys' = Tail(keys)
          /\ UNCHANGED <<complete, sessionOn, alive, saved, apiEvents, forwarder, torrentDone, step, caller,
                         cancelled, isCompleted, seedAfter, keyboard, pressed>>
      BY <1>6 DEF TogglesPause, stepVars
    <2>2. paused' \in BOOLEAN /\ phase' \in {"downloading", "seeding", "paused"}
      <3>1. paused \in BOOLEAN /\ complete \in BOOLEAN /\ phase \in {"downloading", "seeding", "paused"}
        BY DEF KeyTyped, TorrentTyped
      <3>2. CASE UNCHANGED <<paused, phase>>
        BY <3>1, <3>2
      <3>3. CASE /\ paused' = ~paused
                 /\ phase' = CASE ~paused -> "paused" [] paused /\ complete -> "seeding" [] OTHER -> "downloading"
        BY <3>1, <3>3
      <3> QED
        BY <1>6, <3>2, <3>3 DEF TogglesPause
    <2>3. sessionEvents' \in Seq(Events) /\ Len(sessionEvents') <= EventCap
      <3>1. CASE UNCHANGED sessionEvents
        BY <3>1 DEF ChannelTyped
      <3>2. CASE ~UNCHANGED sessionEvents
        <4>1. PICK e \in Events : sessionEvents' = SendOrDrop(sessionEvents, e)
          BY <1>6, <3>2 DEF TogglesPause, Emits, Events
        <4> QED
          BY <4>1, SendFits DEF ChannelTyped
      <3> QED
        BY <3>1, <3>2
    <2>4. StepTyped' /\ StopInv' /\ SaveInv'
      BY <2>1 DEF StepTyped, StopInv, SaveInv, Exited
    <2>5. KeyTyped'
      BY <1>2, <2>1, <2>2 DEF KeyTyped
    <2> QED
      BY <2>1, <2>2, <2>3, <2>4, <2>5 DEF TorrentTyped, ChannelTyped
  <1>7. ASSUME NEW ratioReached \in BOOLEAN, TakesEvent(ratioReached) PROVE CommandInv'
    <2>1. /\ step["main"] = "loop" /\ apiEvents # <<>> /\ apiEvents' = Tail(apiEvents)
          /\ EntersStop("main", "client") \/ UNCHANGED <<step, caller>>
          /\ UNCHANGED <<torrentVars, sessionEvents, forwarder, torrentDone, cancelled, seedAfter, keyVars>>
      BY <1>7 DEF TakesEvent, InLoop
    <2>2. isCompleted' \in BOOLEAN /\ paused' \in BOOLEAN
      <3>1. isCompleted' = (isCompleted \/ Head(apiEvents) = "complete")
        BY <1>7 DEF TakesEvent
      <3>2. paused' = CASE Head(apiEvents) = "paused" -> TRUE [] Head(apiEvents) = "resumed" -> FALSE
                        [] OTHER -> paused
        BY <1>7 DEF TakesEvent
      <3>3. paused' \in BOOLEAN
        BY <3>2 DEF KeyTyped
      <3> QED
        BY <3>1, <3>3
    <2>3. apiEvents' \in Seq(Events) /\ Len(apiEvents') <= EventCap
      <3>1. Tail(apiEvents) \in Seq(Events) /\ Len(apiEvents) \in Nat \ {0} /\ Len(Tail(apiEvents)) = Len(apiEvents) - 1
        BY <2>1, TailFits DEF ChannelTyped
      <3> QED
        BY <2>1, <3>1, CommandAssumption DEF ChannelTyped
    <2>4. StepTyped' /\ StopInv' /\ SaveInv'
      <3>1. CASE EntersStop("main", "client")
        BY <1>1, <2>1, <3>1 DEF Threads, torrentVars
      <3>2. CASE UNCHANGED <<step, caller>>
        BY <2>1, <3>2 DEF StepTyped, StopInv, SaveInv, Exited, torrentVars
      <3> QED
        BY <2>1, <3>1, <3>2
    <2> QED
      BY <2>1, <2>2, <2>3, <2>4 DEF TorrentTyped, ChannelTyped, KeyTyped, torrentVars, keyVars
  <1> QED
    BY <1>3, <1>4, <1>5, <1>6, <1>7

LEMMA CommandInductive == CommandSpec => []CommandInv
  <1>1. CommandInit => CommandInv
    <2> SUFFICES ASSUME CommandInit PROVE CommandInv
      OBVIOUS
    <2> USE DEF CommandInit
    <2>1. <<"tick">> \in Seq(Events) /\ Len(<<"tick">>) = 1 /\ <<>> \in Seq(Events) /\ Len(<<>>) = 0
      BY DEF Events
    <2>2. <<>> \in Seq({"p", "q"})
      OBVIOUS
    <2>3. /\ EventCap >= 1 /\ KeyCap >= 0 /\ 0 \in 0 .. MaxKeys
      BY CommandAssumption
    <2>4. ChannelTyped
      <3>1. sessionEvents = <<"tick">> /\ apiEvents = <<>> /\ forwarder = "receiving" /\ torrentDone = FALSE
        OBVIOUS
      <3>2. Len(<<"tick">>) <= EventCap /\ Len(<<>>) <= EventCap
        BY <2>1, <2>3, CommandAssumption
      <3> QED
        BY <2>1, <3>1, <3>2 DEF ChannelTyped
    <2>5. KeyTyped
      BY <2>1, <2>2, <2>3 DEF KeyTyped
    <2>6. StepTyped
      BY DEF StepTyped, Steps, Threads
    <2>7. StopInv /\ SaveInv
      BY DEF StopInv, SaveInv, StopSteps, Exited, Threads
    <2> QED
      BY <2>4, <2>5, <2>6, <2>7 DEF CommandInv, CommandTyped, TorrentTyped
  <1>2. CommandInv /\ [CommandNext]_commandVars => CommandInv'
    <2> SUFFICES ASSUME CommandInv, [CommandNext]_commandVars PROVE CommandInv'
      OBVIOUS
    <2>1. CASE UNCHANGED commandVars
      <3>1. CommandTyped'
        BY <2>1 DEF CommandInv, CommandTyped, TorrentTyped, ChannelTyped, StepTyped, KeyTyped, commandVars,
           torrentVars, channelVars, stepVars, mainVars, keyVars
      <3>2. StopInv' /\ SaveInv'
        BY <2>1 DEF CommandInv, StopInv, SaveInv, Exited, commandVars, torrentVars, stepVars
      <3> QED
        BY <3>1, <3>2 DEF CommandInv
    <2>2. CASE CommandNext
      BY <2>2, StopStepKeeps, OthersKeep, LoopKeeps DEF CommandNext
    <2> QED
      BY <2>1, <2>2
  <1> QED
    BY <1>1, <1>2, PTL DEF CommandSpec

(* The state of the download command has its types, whatever the length of *)
(* its channels and however many keys are pressed (download.go:69).         *)
THEOREM CommandTypeCorrect == CommandSpec => []CommandTypeOK
  <1>1. CommandInv => CommandTypeOK
    BY DEF CommandInv, CommandTyped, TorrentTyped, ChannelTyped, StepTyped, KeyTyped, CommandTypeOK, Events,
       Steps, StopSteps, Threads
  <1> QED
    BY <1>1, CommandInductive, PTL

(* When the command ends the resume data has been saved, or the goroutine  *)
(* of the signal is still at it (download.go:167), whatever the length of  *)
(* the channels and in whatever order keys, signals and events come.       *)
THEOREM QuitSaves == CommandSpec => []SavedOnQuit
  <1>1. CommandInv => SavedOnQuit
    BY DEF CommandInv, SaveInv, SavedOnQuit, Exited, Threads
  <1> QED
    BY <1>1, CommandInductive, PTL

-----------------------------------------------------------------------------
(* The metadata: types *)

WorkerStates ==
  {"dialing", "handshake", "extension", "off", "fetching", "fetched", "failed", "done"}

CollectorTyped ==
  /\ magnet \in {"idle", "asking", "collecting", "torrent", "no peers", "cancelled", "all failed",
                 "wrong hash"}
  /\ source \in 0 .. Len(Sources) /\ peerCount \in Nat /\ expired \in BOOLEAN
LauncherTyped ==
  /\ launcher \in {"off", "launching", "waiting", "done"} /\ launched \in 0 .. MaxAttempts
  /\ worker \in [Attempts -> WorkerStates]
ExchangeTyped ==
  /\ total \in [Attempts -> Totals \cup {Unknown}]
  /\ pieces \in [Attempts -> [1 .. LastChunk -> Chunk]] /\ honest \in [Attempts -> BOOLEAN]
ResultsTyped == resultChan \in Seq(Attempts \X BOOLEAN) /\ Len(resultChan) <= MaxConcurrent

MetadataTyped == CollectorTyped /\ LauncherTyped /\ ExchangeTyped /\ ResultsTyped

\* The launcher starts the workers in order, and stops for a reason.
LaunchInv ==
  /\ launcher = "off" <=> magnet \in {"idle", "asking", "no peers"}
  /\ launched <= peerCount
  /\ \A i \in Attempts : worker[i] = "off" <=> i > launched
  /\ launcher \in {"waiting", "done"} => PeerCtxDone \/ launched = Fewer(peerCount, MaxAttempts)
  /\ launcher = "done" => \A i \in Attempts : worker[i] \in {"off", "done"}

\* What the exchange of worker i has come to.
Full(i) == total[i] \in Totals /\ Cardinality(Got(pieces[i])) = total[i]
HonestOf(i) ==
  honest[i] => /\ total[i] \in {Unknown, Chunks}
               /\ \A n \in 1 .. LastChunk : /\ pieces[i][n] # "wrong"
                                            /\ n > Chunks => pieces[i][n] = "missing"
ExchangeInv ==
  \A i \in Attempts : /\ HonestOf(i)
                      /\ worker[i] = "fetched" => Full(i)
                      /\ worker[i] = "failed" => pieces[i] = NoChunks

\* A result is kept until it is read, and stays what it was.
Reported(i) == \E k \in 1 .. Len(resultChan) : resultChan[k] = <<i, TRUE>>
ReportInv ==
  /\ \A i \in Attempts : Reported(i) => worker[i] = "done" /\ Full(i)
  /\ \A i \in Attempts : worker[i] = "done" => pieces[i] = NoChunks \/ PeerCtxDone \/ Reported(i)

\* What was returned had its reason.
OutcomeInv ==
  /\ magnet = "all failed" =>
       /\ launcher = "done"
       /\ \/ expired
          \/ /\ launched = Fewer(peerCount, MaxAttempts)
             /\ \A i \in 1 .. launched : pieces[i] = NoChunks
  /\ magnet = "wrong hash" => \E i \in Attempts : worker[i] = "done" /\ ~honest[i]

MetadataInv == MetadataTyped /\ LaunchInv /\ ExchangeInv /\ ReportInv /\ OutcomeInv

LEMMA PairParts == ASSUME NEW x, NEW a, NEW b, x = <<a, b>> PROVE x[1] = a /\ x[2] = b
  OBVIOUS

LEMMA SizesType == MaxAttempts \in Nat /\ MaxConcurrent \in Nat /\ Attempts = 1 .. MaxAttempts
  BY MetadataAssumption DEF Attempts

LEMMA LastChunkType ==
  /\ Totals \subseteq Nat \ {Unknown} /\ Chunks \in Totals
  /\ LastChunk \in Totals /\ LastChunk \in Nat /\ \A k \in Totals : k <= LastChunk
  <1>1. PICK n \in Totals : \A k \in Totals : k <= n
    BY MetadataAssumption
  <1>2. LastChunk \in Totals /\ \A k \in Totals : k <= LastChunk
    BY <1>1 DEF LastChunk
  <1>3. Totals \subseteq Nat \ {Unknown}
    BY MetadataAssumption
  <1> QED
    BY <1>2, <1>3 DEF Totals

(* If an honest peer has sent all chunks, the hash is right.               *)
LEMMA HonestIsRight ==
  ASSUME ExchangeTyped, NEW i \in Attempts, Full(i), HonestOf(i), honest[i] PROVE HashIsRight(i)
  <1> DEFINE G == Got(pieces[i])
  <1>1. /\ Chunks \in Nat \ {0} /\ LastChunk \in Nat /\ Chunks <= LastChunk
        /\ pieces[i] \in [1 .. LastChunk -> Chunk]
    BY LastChunkType DEF Unknown, ExchangeTyped
  <1>2. total[i] = Chunks
    BY LastChunkType DEF Full, HonestOf
  <1>3. G \in SUBSET (1 .. Chunks) /\ \A n \in G : pieces[i][n] = "right"
    BY <1>1 DEF HonestOf, Got, Chunk
  <1>4. IsFiniteSet(1 .. Chunks) /\ Cardinality(1 .. Chunks) = Chunks
    BY <1>1, FS_Interval
  <1>5. Cardinality(G) = Cardinality(1 .. Chunks)
    BY <1>2, <1>4 DEF Full
  <1>6. G = 1 .. Chunks
    <2> HIDE DEF G
    <2> QED
      BY <1>3, <1>4, <1>5, FS_Subset
  <1>7. \A n \in 1 .. Chunks : pieces[i][n] = "right"
    BY <1>3, <1>6
  <1> QED
    BY <1>2, <1>7 DEF HashIsRight, Assembled

(* A step of the exchange of worker i leaves everything else alone.        *)
LEMMA ExchangeShape ==
  ASSUME MetadataInv, NEW i \in Attempts, PeerStep(i) \/ DeadlinePasses(i)
  PROVE  /\ worker[i] \in {"dialing", "handshake", "extension", "fetching"}
         /\ \E w \in {"handshake", "extension", "fetching", "fetched", "failed"} : worker' = [worker EXCEPT ![i] = w]
         /\ \A j \in Attempts \ {i} : total'[j] = total[j] /\ pieces'[j] = pieces[j] /\ honest'[j] = honest[j]
         /\ UNCHANGED <<collectorVars, launcherVars, resultChan, expired>>
         /\ ExchangeTyped'
         /\ HonestOf(i)' /\ (worker'[i] = "fetched" => Full(i)') /\ (worker'[i] = "failed" => pieces'[i] = NoChunks)
  <1> USE DEF MetadataInv, MetadataTyped, LauncherTyped
  <1>0. DOMAIN NextPhase = {"dialing", "handshake", "extension"}
    BY DEF NextPhase
  <1>1. HonestOf(i) /\ ExchangeTyped /\ LastChunk \in Nat
    BY LastChunkType DEF ExchangeInv
  <1>2. CASE Advances(i)
    <2>1. /\ worker[i] \in {"dialing", "handshake", "extension"}
          /\ worker' = [worker EXCEPT ![i] = NextPhase[worker[i]]]
          /\ UNCHANGED <<collectorVars, launcherVars, exchangeVars, resultChan, expired>>
      BY <1>0, <1>2 DEF Advances
    <2>2. NextPhase[worker[i]] \in {"handshake", "extension", "fetching"}
      BY <2>1 DEF NextPhase
    <2>3. worker'[i] \notin {"fetched", "failed"}
      BY <2>1, <2>2
    <2>4. UNCHANGED <<total, pieces, honest>>
      BY <2>1 DEF exchangeVars
    <2>5. ExchangeTyped' /\ HonestOf(i)'
      BY <1>1, <2>4 DEF ExchangeTyped, HonestOf
    <2> QED
      BY <2>1, <2>2, <2>3, <2>4, <2>5
  <1>3. CASE /\ worker[i] \in {"dialing", "handshake", "extension", "fetching"} /\ Gives(i)
             /\ UNCHANGED <<collectorVars, launcherVars, resultChan, expired>>
    <2>1. /\ worker' = [worker EXCEPT ![i] = "failed"] /\ total' = [total EXCEPT ![i] = Unknown]
          /\ pieces' = [pieces EXCEPT ![i] = NoChunks] /\ honest' = [honest EXCEPT ![i] = TRUE]
      BY <1>3 DEF Gives
    <2>2. NoChunks \in [1 .. LastChunk -> Chunk] /\ \A n \in 1 .. LastChunk : NoChunks[n] = "missing"
      BY DEF NoChunks, Chunk
    <2>3. ExchangeTyped'
      BY <2>1, <2>2 DEF ExchangeTyped
    <2>4. total'[i] = Unknown /\ pieces'[i] = NoChunks /\ worker'[i] = "failed"
      BY <2>1 DEF ExchangeTyped
    <2>5. HonestOf(i)'
      BY <2>2, <2>4 DEF HonestOf
    <2> QED
      BY <1>3, <2>1, <2>3, <2>4, <2>5
  <1>4. ASSUME NEW n \in 1 .. LastChunk, NEW claimed \in Totals, NEW chunk \in {"right", "wrong"},
               ReceivesData(i, n, claimed, chunk)
        PROVE  /\ worker[i] = "fetching"
               /\ \E w \in {"fetching", "fetched"} : worker' = [worker EXCEPT ![i] = w]
               /\ \A j \in Attempts \ {i} : total'[j] = total[j] /\ pieces'[j] = pieces[j] /\ honest'[j] = honest[j]
               /\ UNCHANGED <<collectorVars, launcherVars, resultChan, expired>>
               /\ ExchangeTyped'
               /\ HonestOf(i)' /\ (worker'[i] = "fetched" => Full(i)') /\ worker'[i] # "failed"
    <2> DEFINE known == IF total[i] = Unknown THEN claimed ELSE total[i]
    <2> DEFINE chunks == Keeps(pieces[i], known, n, chunk)
    <2>1. /\ worker[i] = "fetching" /\ total' = [total EXCEPT ![i] = known] /\ pieces' = [pieces EXCEPT ![i] = chunks]
          /\ worker' = [worker EXCEPT ![i] = IF Cardinality(Got(chunks)) = known THEN "fetched" ELSE "fetching"]
          /\ honest' = [honest EXCEPT ![i] = honest[i] /\ claimed = Chunks /\ chunk = "right" /\ n <= Chunks]
          /\ UNCHANGED <<collectorVars, launcherVars, resultChan, expired>>
      BY <1>4 DEF ReceivesData
    <2>2. known \in Totals
      BY DEF ExchangeTyped
    <2>3. pieces[i] \in [1 .. LastChunk -> Chunk]
      BY DEF ExchangeTyped
    <2>4. /\ chunks \in [1 .. LastChunk -> Chunk]
          /\ \A m \in 1 .. LastChunk : chunks[m] = pieces[i][m] \/ (m = n /\ chunks[m] = chunk)
      BY <2>3 DEF Keeps, Chunk
    <2> HIDE DEF known, chunks
    <2>5. total'[i] = known /\ pieces'[i] = chunks
      BY <2>1 DEF ExchangeTyped
    <2>6. /\ worker'[i] \in {"fetching", "fetched"}
          /\ worker'[i] = "fetched" => Cardinality(Got(chunks)) = known
      BY <2>1
    <2>7. ExchangeTyped'
      BY <2>1, <2>2, <2>4 DEF ExchangeTyped
    <2>8. HonestOf(i)'
      <3> SUFFICES ASSUME honest'[i]
                   PROVE  /\ known \in {Unknown, Chunks}
                          /\ \A m \in 1 .. LastChunk : chunks[m] # "wrong" /\ (m > Chunks => chunks[m] = "missing")
        BY <2>5 DEF HonestOf
      <3>1. honest[i] /\ claimed = Chunks /\ chunk = "right" /\ n <= Chunks
        BY <2>1 DEF ExchangeTyped
      <3>2. known \in {Unknown, Chunks}
        BY <1>1, <3>1 DEF known, HonestOf
      <3>3. Chunks \in Nat /\ n \in Nat
        BY LastChunkType
      <3>4. ASSUME NEW m \in 1 .. LastChunk
            PROVE  chunks[m] # "wrong" /\ (m > Chunks => chunks[m] = "missing")
        <4>1. pieces[i][m] # "wrong" /\ (m > Chunks => pieces[i][m] = "missing")
          BY <1>1, <3>1 DEF HonestOf
        <4> QED
          BY <2>4, <3>1, <3>3, <4>1
      <3> QED
        BY <3>2, <3>4
    <2> QED
      <3>1. worker'[i] = "fetched" => Full(i)'
        BY <2>2, <2>5, <2>6 DEF Full
      <3>2. \A j \in Attempts \ {i} : total'[j] = total[j] /\ pieces'[j] = pieces[j] /\ honest'[j] = honest[j]
        BY <2>1
      <3>3. worker'[i] # "failed"
        BY <2>6
      <3>4. \E w \in {"fetching", "fetched"} : worker' = [worker EXCEPT ![i] = w]
        BY <2>1
      <3> QED
        BY <2>1, <2>7, <2>8, <3>1, <3>2, <3>3, <3>4
  <1>5. CASE PeerFails(i) \/ DeadlinePasses(i)
    <2>1. /\ worker[i] \in {"dialing", "handshake", "extension", "fetching"} /\ Gives(i)
          /\ UNCHANGED <<collectorVars, launcherVars, resultChan, expired>>
      BY <1>0, <1>5 DEF PeerFails, DeadlinePasses
    <2> QED
      BY <1>3, <2>1
  <1>6. CASE PeerStep(i)
    BY <1>2, <1>4, <1>5, <1>6 DEF PeerStep
  <1> QED
    BY <1>5, <1>6

(* So the exchanges keep the invariant.                                    *)
LEMMA ExchangeKeeps ==
  ASSUME MetadataInv, NEW i \in Attempts, PeerStep(i) \/ DeadlinePasses(i) PROVE MetadataInv'
  <1> USE DEF MetadataInv, MetadataTyped
  <1>1. PICK w \in {"handshake", "extension", "fetching", "fetched", "failed"} : worker' = [worker EXCEPT ![i] = w]
    BY ExchangeShape
  <1>2. /\ worker[i] \in {"dialing", "handshake", "extension", "fetching"}
        /\ \A j \in Attempts \ {i} : total'[j] = total[j] /\ pieces'[j] = pieces[j] /\ honest'[j] = honest[j]
        /\ UNCHANGED <<magnet, source, peerCount, launcher, launched, resultChan, expired>>
        /\ ExchangeTyped'
    BY ExchangeShape DEF collectorVars, launcherVars
  <1>3. HonestOf(i)' /\ (worker'[i] = "fetched" => Full(i)') /\ (worker'[i] = "failed" => pieces'[i] = NoChunks)
    BY ExchangeShape
  <1>4. worker'[i] = w /\ \A j \in Attempts \ {i} : worker'[j] = worker[j]
    BY <1>1 DEF LauncherTyped
  <1>5. MetadataTyped'
    BY <1>1, <1>2 DEF CollectorTyped, LauncherTyped, ResultsTyped, WorkerStates
  <1>6. launcher # "done"
    BY <1>2 DEF LaunchInv
  <1>7. LaunchInv'
    BY <1>2, <1>4, <1>6 DEF LaunchInv, PeerCtxDone, FetchReturned
  <1>8. \A j \in Attempts \ {i} : (Full(j)' <=> Full(j)) /\ (HonestOf(j)' <=> HonestOf(j))
    BY <1>2 DEF Full, HonestOf
  <1>9. ExchangeInv'
    BY <1>2, <1>3, <1>4, <1>8 DEF ExchangeInv
  <1>10. \A j \in Attempts : (Reported(j)' <=> Reported(j)) /\ (Reported(j) => j # i)
    BY <1>2 DEF Reported, ReportInv
  <1>11. ReportInv'
    BY <1>2, <1>4, <1>8, <1>10 DEF ReportInv, PeerCtxDone, FetchReturned
  <1>12. OutcomeInv'
    BY <1>2, <1>4, <1>6 DEF OutcomeInv
  <1> QED
    BY <1>5, <1>7, <1>9, <1>11, <1>12

(* A result is sent, or dropped when nobody waits for it any more.         *)
LEMMA SendKeeps ==
  ASSUME MetadataInv, NEW i \in Attempts, SendsResult(i) PROVE MetadataInv'
  <1> USE DEF MetadataInv, MetadataTyped
  <1>1. /\ worker[i] \in {"fetched", "failed"} /\ worker' = [worker EXCEPT ![i] = "done"]
        /\ UNCHANGED <<magnet, source, peerCount, launcher, launched, total, pieces, honest, expired>>
    BY DEF SendsResult, collectorVars, launcherVars, exchangeVars
  <1>2. worker'[i] = "done" /\ \A j \in Attempts \ {i} : worker'[j] = worker[j]
    BY <1>1 DEF LauncherTyped
  <1>3. resultChan \in Seq(Attempts \X BOOLEAN) /\ Len(resultChan) \in Nat
    BY DEF ResultsTyped
  <1> DEFINE has == IF worker[i] = "fetched" THEN TRUE ELSE FALSE
  <1>4. \/ /\ Len(resultChan) < MaxConcurrent /\ resultChan' = Append(resultChan, <<i, has>>)
        \/ PeerCtxDone /\ resultChan' = resultChan
    <2>1. (worker[i] = "fetched") = has
      OBVIOUS
    <2> QED
      BY <2>1 DEF SendsResult
  <1>0. has \in BOOLEAN /\ (has = TRUE <=> worker[i] = "fetched")
    OBVIOUS
  <1> HIDE DEF has
  <1>5. ResultsTyped' /\ \A j \in Attempts : Reported(j) => Reported(j)'
    <2>1. CASE /\ Len(resultChan) < MaxConcurrent
               /\ resultChan' = Append(resultChan, <<i, has>>)
      <3>1. /\ resultChan' \in Seq(Attempts \X BOOLEAN) /\ Len(resultChan') = Len(resultChan) + 1
            /\ \A k \in 1 .. Len(resultChan) : k \in 1 .. Len(resultChan') /\ resultChan'[k] = resultChan[k]
        BY <1>0, <1>3, <2>1, AppendFits
      <3>2. Len(resultChan') <= MaxConcurrent
        BY <1>3, <2>1, <3>1, SizesType
      <3> QED
        BY <3>1, <3>2 DEF ResultsTyped, Reported
    <2> QED
      BY <1>4, <2>1 DEF ResultsTyped, Reported
  <1>6. \A j \in Attempts : Reported(j)' => Reported(j) \/ (j = i /\ worker[i] = "fetched")
    <2>1. CASE resultChan' = Append(resultChan, <<i, has>>)
      <3>1. ASSUME NEW k \in 1 .. Len(resultChan')
            PROVE  \/ k \in 1 .. Len(resultChan) /\ resultChan'[k] = resultChan[k]
                   \/ resultChan'[k] = <<i, has>>
        BY <1>3, <2>1, <3>1
      <3>2. ASSUME NEW j \in Attempts, NEW k \in 1 .. Len(resultChan'), resultChan'[k] = <<j, TRUE>>
            PROVE  Reported(j) \/ (j = i /\ worker[i] = "fetched")
        <4>1. CASE k \in 1 .. Len(resultChan) /\ resultChan'[k] = resultChan[k]
          BY <3>2, <4>1 DEF Reported
        <4>2. CASE resultChan'[k] = <<i, has>>
          <5>1. j = i /\ has = TRUE
            <6>1. /\ resultChan'[k][1] = i /\ resultChan'[k][2] = has
                  /\ resultChan'[k][1] = j /\ resultChan'[k][2] = TRUE
              BY <3>2, <4>2, PairParts
            <6> QED
              BY <6>1
          <5> QED
            BY <1>0, <5>1
        <4> QED
          BY <3>1, <4>1, <4>2
      <3> QED
        BY <3>2 DEF Reported
    <2> QED
      BY <1>4, <2>1 DEF Reported
  <1>7. worker[i] = "fetched" => Reported(i)' \/ PeerCtxDone
    <2>1. CASE worker[i] = "fetched" /\ resultChan' = Append(resultChan, <<i, has>>)
      <3>1. has = TRUE /\ <<i, has>> \in Attempts \X BOOLEAN
        BY <1>0, <2>1
      <3>2. Len(resultChan) + 1 \in 1 .. Len(resultChan') /\ resultChan'[Len(resultChan) + 1] = <<i, has>>
        <4>1. resultChan' = Append(resultChan, <<i, has>>)
          BY <2>1
        <4> DEFINE e == <<i, has>>
        <4>2. e \in Attempts \X BOOLEAN
          BY <3>1
        <4> HIDE DEF e
        <4>3. /\ Len(resultChan) + 1 \in 1 .. Len(Append(resultChan, e))
              /\ Append(resultChan, e)[Len(resultChan) + 1] = e
          BY <1>3, <4>2, AppendFits
        <4> QED
          BY <4>1, <4>3 DEF e
      <3> QED
        BY <3>1, <3>2 DEF Reported
    <2> QED
      BY <1>4, <2>1
  <1>8. MetadataTyped'
    BY <1>1, <1>5 DEF CollectorTyped, LauncherTyped, ExchangeTyped, WorkerStates
  <1>9. launcher # "done" /\ (PeerCtxDone' <=> PeerCtxDone)
    BY <1>1 DEF LaunchInv, PeerCtxDone, FetchReturned
  <1>10. LaunchInv'
    BY <1>1, <1>2, <1>9 DEF LaunchInv
  <1>11. \A j \in Attempts : (Full(j)' <=> Full(j)) /\ (HonestOf(j)' <=> HonestOf(j))
    BY <1>1 DEF Full, HonestOf
  <1>12. ExchangeInv'
    BY <1>1, <1>2, <1>11 DEF ExchangeInv
  <1>13. \A j \in Attempts : Reported(j)' => worker'[j] = "done" /\ Full(j)'
    BY <1>1, <1>2, <1>6, <1>11 DEF ReportInv, ExchangeInv
  <1>14. \A j \in Attempts : worker'[j] = "done" => pieces'[j] = NoChunks \/ PeerCtxDone' \/ Reported(j)'
    BY <1>1, <1>2, <1>5, <1>7, <1>9 DEF ReportInv, ExchangeInv
  <1>15. OutcomeInv'
    BY <1>1, <1>2, <1>9 DEF OutcomeInv
  <1> QED
    BY <1>8, <1>10, <1>12, <1>13, <1>14, <1>15 DEF ReportInv

(* The collector reads a result.  Metadata that is wrong came from a peer  *)
(* that was not honest.                                                    *)
LEMMA CollectKeeps ==
  ASSUME MetadataInv, NEW i \in Attempts, Collects(i) PROVE MetadataInv'
  <1> USE DEF MetadataInv, MetadataTyped
  <1>1. /\ magnet = "collecting" /\ resultChan # <<>> /\ i = Head(resultChan)[1] /\ resultChan' = Tail(resultChan)
        /\ UNCHANGED <<source, peerCount, launcher, launched, worker, total, pieces, honest, expired>>
    BY DEF Collects, launcherVars, exchangeVars
  <1>2. /\ resultChan \in Seq(Attempts \X BOOLEAN) /\ Len(resultChan) \in Nat \ {0}
        /\ Len(resultChan) <= MaxConcurrent
    BY <1>1 DEF ResultsTyped
  <1>3. /\ Tail(resultChan) \in Seq(Attempts \X BOOLEAN) /\ Len(Tail(resultChan)) = Len(resultChan) - 1
        /\ Head(resultChan) = resultChan[1] /\ 1 \in 1 .. Len(resultChan) /\ resultChan[1] \in Attempts \X BOOLEAN
        /\ \A k \in 1 .. Len(Tail(resultChan)) : k + 1 \in 1 .. Len(resultChan)
                                                /\ Tail(resultChan)[k] = resultChan[k + 1]
        /\ \A k \in 2 .. Len(resultChan) : k - 1 \in 1 .. Len(Tail(resultChan))
                                          /\ Tail(resultChan)[k - 1] = resultChan[k]
    BY <1>1, <1>2
  <1>4. \/ /\ Head(resultChan)[2] = TRUE /\ resultChan[1] = <<i, TRUE>>
           /\ magnet' = IF HashIsRight(i) THEN "torrent" ELSE "wrong hash"
        \/ /\ Head(resultChan)[2] = FALSE
           /\ magnet' = IF expired THEN "cancelled" ELSE "collecting"
    <2>1. resultChan[1] = <<i, Head(resultChan)[2]>> /\ Head(resultChan)[2] \in BOOLEAN
      BY <1>1, <1>3
    <2>2. CASE Head(resultChan)[2] = TRUE
      <3>1. magnet' = IF HashIsRight(i) THEN "torrent" ELSE "wrong hash"
        BY <2>2 DEF Collects
      <3> QED
        BY <2>1, <2>2, <3>1
    <2>3. CASE Head(resultChan)[2] = FALSE
      BY <1>1, <2>3 DEF Collects
    <2> QED
      BY <2>1, <2>2, <2>3
  <1>5. magnet' \in {"torrent", "wrong hash", "cancelled", "collecting"}
    BY <1>4
  <1>6. ResultsTyped'
    BY <1>1, <1>2, <1>3, SizesType DEF ResultsTyped
  <1>7. MetadataTyped'
    BY <1>1, <1>5, <1>6 DEF CollectorTyped, LauncherTyped, ExchangeTyped
  <1>8. PeerCtxDone => PeerCtxDone'
    BY <1>1 DEF PeerCtxDone, FetchReturned
  <1>9. LaunchInv'
    BY <1>1, <1>5, <1>8 DEF LaunchInv
  <1>10. \A j \in Attempts : (Full(j)' <=> Full(j)) /\ (HonestOf(j)' <=> HonestOf(j))
    BY <1>1 DEF Full, HonestOf
  <1>11. ExchangeInv'
    BY <1>1, <1>10 DEF ExchangeInv
  <1>12. \A j \in Attempts : Reported(j)' => Reported(j)
    BY <1>1, <1>3 DEF Reported
  <1>13. \A j \in Attempts : Reported(j) => Reported(j)' \/ PeerCtxDone'
    <2>1. ASSUME NEW j \in Attempts, NEW k \in 1 .. Len(resultChan), resultChan[k] = <<j, TRUE>>
          PROVE  Reported(j)' \/ PeerCtxDone'
      <3>1. CASE k = 1
        <4>1. magnet' \in {"torrent", "wrong hash"}
          <5>1. Head(resultChan)[2] = TRUE
            <6>1. Head(resultChan) = <<j, TRUE>>
              BY <1>3, <2>1, <3>1
            <6> QED
              BY <6>1, PairParts
          <5> QED
            BY <1>4, <5>1
        <4> QED
          BY <4>1 DEF PeerCtxDone, FetchReturned
      <3>2. CASE k # 1
        <4>1. k \in 2 .. Len(resultChan)
          BY <1>2, <3>2
        <4> QED
          BY <1>1, <1>3, <2>1, <4>1 DEF Reported
      <3> QED
        BY <3>1, <3>2
    <2> QED
      BY <2>1 DEF Reported
  <1>14. ReportInv'
    BY <1>1, <1>8, <1>10, <1>12, <1>13 DEF ReportInv
  <1>15. OutcomeInv'
    <2>1. ASSUME magnet' = "wrong hash" PROVE worker[i] = "done" /\ ~honest[i]
      <3>1. resultChan[1] = <<i, TRUE>> /\ ~HashIsRight(i)
        BY <1>4, <2>1
      <3>2. worker[i] = "done" /\ Full(i)
        BY <1>3, <3>1 DEF Reported, ReportInv
      <3> QED
        BY <3>1, <3>2, HonestIsRight DEF ExchangeInv
    <2> QED
      BY <1>1, <1>5, <2>1 DEF OutcomeInv
  <1> QED
    BY <1>7, <1>9, <1>11, <1>14, <1>15

(* The other steps of the collector, and the clock, leave the workers and  *)
(* their results alone.                                                    *)
LEMMA AskingKeeps ==
  ASSUME MetadataInv,
         \/ FetchBegins \/ HasAsked \/ SeesClosed \/ TwoMinutesPass
         \/ /\ source < Len(Sources)
            /\ \E count \in Sources[source + 1], answers \in BOOLEAN : AsksSource(count, answers)
  PROVE  MetadataInv'
  <1> USE DEF MetadataInv, MetadataTyped
  <1>1. UNCHANGED <<launched, worker, total, pieces, honest, resultChan>>
    BY DEF FetchBegins, HasAsked, SeesClosed, TwoMinutesPass, AsksSource, launcherVars, exchangeVars
  <1>2. LauncherTyped' /\ ExchangeTyped' /\ ResultsTyped'
    <2>1. launcher' \in {"off", "launching", "waiting", "done"}
      BY DEF LauncherTyped, FetchBegins, HasAsked, SeesClosed, TwoMinutesPass, AsksSource, launcherVars
    <2> QED
      BY <1>1, <2>1 DEF LauncherTyped, ExchangeTyped, ResultsTyped
  <1>3. \A j \in Attempts : /\ (Full(j)' <=> Full(j)) /\ (HonestOf(j)' <=> HonestOf(j))
                            /\ (Reported(j)' <=> Reported(j))
    BY <1>1 DEF Full, HonestOf, Reported
  <1>4. ExchangeInv'
    BY <1>1, <1>3 DEF ExchangeInv
  <1>5. ASSUME PeerCtxDone => PeerCtxDone' PROVE ReportInv'
    BY <1>1, <1>3, <1>5 DEF ReportInv
  <1>6. CASE FetchBegins
    <2>1. magnet = "idle" /\ magnet' = "asking" /\ UNCHANGED <<source, peerCount, launcher, expired>>
      BY <1>6 DEF FetchBegins, launcherVars
    <2>2. PeerCtxDone' <=> PeerCtxDone
      BY <2>1 DEF PeerCtxDone, FetchReturned
    <2>3. CollectorTyped' /\ OutcomeInv'
      BY <2>1 DEF CollectorTyped, OutcomeInv
    <2>4. LaunchInv'
      BY <1>1, <2>1, <2>2 DEF LaunchInv
    <2> QED
      BY <1>2, <1>4, <1>5, <2>2, <2>3, <2>4
  <1>7. CASE HasAsked
    <2>1. /\ magnet = "asking" /\ UNCHANGED <<source, peerCount, expired>>
          /\ \/ magnet' = "no peers" /\ launcher' = launcher
             \/ magnet' = "collecting" /\ launcher' = "launching"
      BY <1>7 DEF HasAsked
    <2>2. PeerCtxDone => PeerCtxDone'
      BY <2>1 DEF PeerCtxDone, FetchReturned
    <2>3. CollectorTyped' /\ OutcomeInv'
      BY <2>1 DEF CollectorTyped, OutcomeInv
    <2>4. LaunchInv'
      BY <1>1, <2>1, <2>2 DEF LaunchInv
    <2> QED
      BY <1>2, <1>4, <1>5, <2>2, <2>3, <2>4
  <1>8. CASE SeesClosed
    <2>1. /\ magnet = "collecting" /\ resultChan = <<>> /\ launcher = "done" /\ magnet' = "all failed"
          /\ UNCHANGED <<source, peerCount, launcher, expired>>
      BY <1>8 DEF SeesClosed, launcherVars
    <2>2. PeerCtxDone' /\ ~FetchReturned
      BY <2>1 DEF PeerCtxDone, FetchReturned
    <2>3. CollectorTyped'
      BY <2>1 DEF CollectorTyped
    <2>4. LaunchInv'
      BY <1>1, <2>1, <2>2 DEF LaunchInv
    <2>5. ~expired => /\ launched = Fewer(peerCount, MaxAttempts)
                      /\ \A i \in 1 .. launched : pieces[i] = NoChunks
      <3>1. SUFFICES ASSUME ~expired
                     PROVE  /\ launched = Fewer(peerCount, MaxAttempts)
                            /\ \A i \in 1 .. launched : pieces[i] = NoChunks
        OBVIOUS
      <3>2. ~PeerCtxDone
        BY <2>2, <3>1 DEF PeerCtxDone
      <3>3. launched = Fewer(peerCount, MaxAttempts)
        BY <2>1, <3>2 DEF LaunchInv
      <3>4. ASSUME NEW i \in 1 .. launched PROVE pieces[i] = NoChunks
        <4>1. i \in Attempts /\ ~(i > launched)
          BY SizesType DEF LauncherTyped
        <4>2. worker[i] = "done"
          BY <2>1, <4>1 DEF LaunchInv
        <4>3. ~Reported(i)
          <5>1. Len(resultChan) = 0
            BY <2>1
          <5> QED
            BY <5>1 DEF Reported
        <4> QED
          BY <3>2, <4>1, <4>2, <4>3 DEF ReportInv
      <3> QED
        BY <3>3, <3>4
    <2>6. OutcomeInv'
      BY <1>1, <2>1, <2>5 DEF OutcomeInv
    <2> QED
      BY <1>2, <1>4, <1>5, <2>2, <2>3, <2>4, <2>6
  <1>9. CASE TwoMinutesPass
    <2>1. expired' = TRUE /\ UNCHANGED <<magnet, source, peerCount, launcher>>
      BY <1>9 DEF TwoMinutesPass, collectorVars, launcherVars
    <2>2. PeerCtxDone'
      BY <2>1 DEF PeerCtxDone
    <2>3. CollectorTyped' /\ OutcomeInv'
      BY <1>1, <2>1 DEF CollectorTyped, OutcomeInv
    <2>4. LaunchInv'
      BY <1>1, <2>1, <2>2 DEF LaunchInv
    <2> QED
      BY <1>2, <1>4, <1>5, <2>2, <2>3, <2>4
  <1>10. ASSUME source < Len(Sources), NEW count \in Sources[source + 1], NEW answers \in BOOLEAN,
                AsksSource(count, answers)
         PROVE  MetadataInv'
    <2>1. /\ magnet = "asking" /\ peerCount' = peerCount + count
          /\ source' \in {Len(Sources), source + 1} /\ UNCHANGED <<magnet, launcher, expired>>
      BY <1>10 DEF AsksSource, launcherVars
    <2>2. Sources \in Seq(SUBSET Nat) /\ source \in 0 .. Len(Sources)
      BY MetadataAssumption DEF CollectorTyped
    <2>3. count \in Nat
      <3>1. source + 1 \in 1 .. Len(Sources)
        BY <1>10, <2>2
      <3>2. Sources[source + 1] \in SUBSET Nat
        BY <2>2, <3>1
      <3> QED
        BY <3>2
    <2>4. source' \in 0 .. Len(Sources)
      BY <1>10, <2>1, <2>2
    <2>5. CollectorTyped'
      BY <2>1, <2>3, <2>4 DEF CollectorTyped
    <2>6. (PeerCtxDone' <=> PeerCtxDone) /\ OutcomeInv'
      BY <2>1 DEF PeerCtxDone, FetchReturned, OutcomeInv
    <2>7. launched <= peerCount'
      BY <2>1, <2>3, SizesType DEF LaunchInv, LauncherTyped, CollectorTyped
    <2>8. LaunchInv'
      BY <1>1, <2>1, <2>6, <2>7 DEF LaunchInv
    <2> QED
      BY <1>2, <1>4, <1>5, <2>5, <2>6, <2>8
  <1> QED
    BY <1>6, <1>7, <1>8, <1>9, <1>10

(* The launcher.                                                           *)
LEMMA LauncherKeeps ==
  ASSUME MetadataInv, LauncherStep PROVE MetadataInv'
  <1> USE DEF MetadataInv, MetadataTyped
  <1>1. UNCHANGED <<magnet, source, peerCount, total, pieces, honest, resultChan, expired>>
    BY DEF LauncherStep, Launch, LaunchingEnds, WaitForWorkers, collectorVars, exchangeVars
  <1>2. CollectorTyped' /\ ExchangeTyped' /\ ResultsTyped' /\ (PeerCtxDone' <=> PeerCtxDone)
    BY <1>1 DEF CollectorTyped, ExchangeTyped, ResultsTyped, PeerCtxDone, FetchReturned
  <1>3. \A j \in Attempts : /\ (Full(j)' <=> Full(j)) /\ (HonestOf(j)' <=> HonestOf(j))
                            /\ (Reported(j)' <=> Reported(j))
    BY <1>1 DEF Full, HonestOf, Reported
  <1>4. launcher \in {"launching", "waiting"}
    BY DEF LauncherStep, Launch, LaunchingEnds, WaitForWorkers
  <1>5. CASE Launch
    <2>1. /\ launcher' = launcher /\ launcher = "launching" /\ launched' = launched + 1
          /\ launched < MaxAttempts /\ launched < peerCount
          /\ worker' = [worker EXCEPT ![launched + 1] = "dialing"]
      BY <1>5 DEF Launch
    <2>2. launched \in Nat /\ MaxAttempts \in Nat /\ peerCount \in Nat
      <3>1. launched \in 0 .. MaxAttempts /\ peerCount \in Nat
        BY DEF LauncherTyped, CollectorTyped
      <3>2. MaxAttempts \in Nat
        BY SizesType
      <3> QED
        BY <3>1, <3>2
    <2>3. launched + 1 \in Attempts /\ launched' \in 0 .. MaxAttempts /\ launched' <= peerCount'
      BY <1>1, <2>1, <2>2 DEF Attempts
    <2>4. LauncherTyped'
      BY <2>1, <2>3 DEF LauncherTyped, WorkerStates
    <2>5. /\ worker'[launched + 1] = "dialing" /\ worker[launched + 1] = "off"
          /\ \A j \in Attempts \ {launched + 1} : worker'[j] = worker[j]
      <3>1. launched + 1 > launched
        BY <2>2
      <3> QED
        BY <2>1, <2>3, <3>1 DEF LauncherTyped, LaunchInv
    <2>6. \A j \in Attempts : worker'[j] = "off" <=> j > launched'
      <3>1. ASSUME NEW j \in Attempts, j # launched + 1 PROVE j > launched' <=> j > launched
        BY <2>1, <2>2, <3>1 DEF Attempts
      <3>2. ~(launched + 1 > launched')
        BY <2>1, <2>2
      <3> QED
        BY <2>5, <3>1, <3>2 DEF LaunchInv
    <2>7. LaunchInv'
      BY <1>1, <2>1, <2>3, <2>6 DEF LaunchInv
    <2>8. ExchangeInv' /\ ReportInv' /\ OutcomeInv'
      BY <1>1, <1>2, <1>3, <2>1, <2>5 DEF ExchangeInv, ReportInv, OutcomeInv
    <2> QED
      BY <1>2, <2>4, <2>7, <2>8
  <1>6. ASSUME LaunchingEnds \/ WaitForWorkers PROVE MetadataInv'
    <2>1. launched' = launched /\ worker' = worker /\ launcher' \in {"waiting", "done"}
      BY <1>6 DEF LaunchingEnds, WaitForWorkers
    <2>2. LauncherTyped'
      BY <2>1 DEF LauncherTyped
    <2>3. PeerCtxDone \/ launched = Fewer(peerCount, MaxAttempts)
      <3>1. CASE LaunchingEnds
        <4>1. PeerCtxDone \/ launched = MaxAttempts \/ launched = peerCount
          BY <3>1 DEF LaunchingEnds
        <4>2. launched \in Nat /\ MaxAttempts \in Nat /\ peerCount \in Nat
              /\ launched <= MaxAttempts /\ launched <= peerCount
          <5>1. launched \in 0 .. MaxAttempts /\ peerCount \in Nat
            BY DEF LauncherTyped, CollectorTyped
          <5>2. launched <= peerCount
            BY DEF LaunchInv
          <5>3. MaxAttempts \in Nat
            BY SizesType
          <5> QED
            BY <5>1, <5>2, <5>3
        <4> QED
          BY <4>1, <4>2 DEF Fewer
      <3>2. CASE WaitForWorkers
        BY <3>2 DEF WaitForWorkers, LaunchInv
      <3> QED
        BY <1>6, <3>1, <3>2
    <2>4. launcher' = "done" => \A i \in Attempts : worker[i] \in {"off", "done"}
      BY <1>6 DEF LaunchingEnds, WaitForWorkers, Working
    <2>5. LaunchInv'
      BY <1>1, <1>2, <1>4, <2>1, <2>3, <2>4 DEF LaunchInv
    <2>6. ExchangeInv' /\ ReportInv' /\ OutcomeInv'
      BY <1>1, <1>2, <1>3, <1>4, <2>1 DEF ExchangeInv, ReportInv, OutcomeInv
    <2> QED
      BY <1>2, <2>2, <2>5, <2>6
  <1> QED
    BY <1>5, <1>6 DEF LauncherStep

LEMMA MetadataInductive == MetadataSpec => []MetadataInv
  <1>1. MetadataInit => MetadataInv
    <2> SUFFICES ASSUME MetadataInit PROVE MetadataInv
      OBVIOUS
    <2> USE DEF MetadataInit
    <2>1. NoChunks \in [1 .. LastChunk -> Chunk] /\ \A n \in 1 .. LastChunk : NoChunks[n] = "missing"
      BY DEF NoChunks, Chunk
    <2>2. Len(Sources) \in Nat /\ MaxAttempts \in Nat /\ MaxConcurrent \in Nat /\ Len(<<>>) = 0
          /\ <<>> \in Seq(Attempts \X BOOLEAN)
      BY MetadataAssumption
    <2>3. CollectorTyped /\ ResultsTyped
      <3>1. 0 \in 0 .. Len(Sources) /\ 0 <= MaxConcurrent /\ 0 \in Nat
        BY <2>2
      <3> QED
        BY <2>2, <3>1 DEF CollectorTyped, ResultsTyped
    <2>4. LauncherTyped /\ ExchangeTyped
      BY <2>1, <2>2 DEF LauncherTyped, ExchangeTyped, WorkerStates
    <2>5. LaunchInv
      BY <2>2 DEF LaunchInv, Attempts
    <2>6. ~\E i \in Attempts : Reported(i)
      BY <2>2 DEF Reported
    <2>7. ExchangeInv /\ ReportInv /\ OutcomeInv
      BY <2>1, <2>6 DEF ExchangeInv, HonestOf, ReportInv, OutcomeInv
    <2> QED
      BY <2>3, <2>4, <2>5, <2>7 DEF MetadataInv, MetadataTyped
  <1>2. MetadataInv /\ [MetadataNext]_metadataVars => MetadataInv'
    <2> SUFFICES ASSUME MetadataInv, [MetadataNext]_metadataVars PROVE MetadataInv'
      OBVIOUS
    <2>1. CASE UNCHANGED metadataVars
      <3>1. MetadataTyped' /\ LaunchInv' /\ OutcomeInv'
        BY <2>1 DEF MetadataInv, MetadataTyped, CollectorTyped, LauncherTyped, ExchangeTyped, ResultsTyped,
           LaunchInv, PeerCtxDone, FetchReturned, OutcomeInv, metadataVars
      <3>2. ExchangeInv' /\ ReportInv'
        <4>1. UNCHANGED <<magnet, worker, total, pieces, honest, resultChan, expired>>
          BY <2>1 DEF metadataVars
        <4>2. \A j \in Attempts : /\ (Full(j)' <=> Full(j)) /\ (HonestOf(j)' <=> HonestOf(j))
                                  /\ (Reported(j)' <=> Reported(j))
          BY <4>1 DEF Full, HonestOf, Reported
        <4> QED
          BY <4>1, <4>2 DEF MetadataInv, ExchangeInv, ReportInv, PeerCtxDone, FetchReturned
      <3> QED
        BY <3>1, <3>2 DEF MetadataInv
    <2>2. CASE CollectorStep \/ FetchBegins \/ TwoMinutesPass
      BY <2>2, AskingKeeps, CollectKeeps DEF CollectorStep
    <2>3. CASE \E i \in Attempts : PeerStep(i) \/ DeadlinePasses(i) \/ SendsResult(i)
      BY <2>3, ExchangeKeeps, SendKeeps
    <2> QED
      BY <2>1, <2>2, <2>3, LauncherKeeps DEF MetadataNext
  <1> QED
    BY <1>1, <1>2, PTL DEF MetadataSpec

(* The state of a fetch has its types, for any number of sources, peers    *)
(* and chunks (metadata.go:24).                                            *)
THEOREM MetadataTypeCorrect == MetadataSpec => []MetadataTypeOK
  <1>1. MetadataInv => MetadataTypeOK
    BY DEF MetadataInv, MetadataTyped, CollectorTyped, LauncherTyped, ExchangeTyped, ResultsTyped,
       MetadataTypeOK, WorkerStates, NextPhase
  <1> QED
    BY <1>1, MetadataInductive, PTL

(* A magnet link is given up for a reason: all peers that were found have  *)
(* been tried and none had its metadata, time was up, or a peer has lied   *)
(* (metadata.go:215), for any number of sources, peers, workers and        *)
(* chunks.                                                                 *)
THEOREM GivenUpForAReason == MetadataSpec => []GivesUpForAReason
  <1>1. MetadataInv => GivesUpForAReason
    <2> SUFFICES ASSUME MetadataInv PROVE GivesUpForAReason
      OBVIOUS
    <2> USE DEF MetadataInv, MetadataTyped
    <2>1. ASSUME magnet = "all failed", NEW i \in 1 .. launched PROVE worker[i] = "done"
      <3>1. i \in Attempts /\ ~(i > launched)
        BY SizesType DEF LauncherTyped
      <3> QED
        BY <2>1, <3>1 DEF OutcomeInv, LaunchInv
    <2> QED
      BY <2>1 DEF OutcomeInv, GivesUpForAReason
  <1> QED
    BY <1>1, MetadataInductive, PTL

-----------------------------------------------------------------------------
(* The tables of the client API *)

Made == 1 .. made

\* Inside a call that has changed one of the tables only.
Half == {"storing", "remove", "removeSession", "unlist"}

TablesInv ==
  /\ torrents # NoSession => sessions = torrents
  /\ sessions # NoSession => torrents = sessions \/ \E g \in Programs : at[g] \in Half
  /\ \A g \in Programs : at[g] \in Half =>
       torrents = NoSession /\ sessions = held[g] /\ held[g] # NoSession
  /\ \A g, h \in Programs : at[g] \in Half /\ at[h] \in Half => g = h
  /\ \A g \in stopping : at[g] \in {"removeSession", "stopSession", "lastSession"}
  /\ \A g \in Programs : at[g] \in {"stop", "stopSession", "lastSession"} => held[g] # NoSession

\* The call g is going to stop the session s.
WillStop(g, s) ==
  \/ at[g] \in Half \ {"storing"} /\ held[g] = s
  \/ at[g] = "lastSession" /\ g \notin stopping /\ held[g] = s
  \/ at[g] \in {"stop", "stopSession", "halt"} /\ engineRunning /\ sessions = s

DoomedInv == \A s \in doomed \cap running : \E g \in Programs : WillStop(g, s)

Labels == {"idle", "fetching", "creating", "storing", "unlist", "halt", "remove", "stop",
           "removeSession", "stopSession", "lastSession"}

\* The tables of labels, as sets and values.
LEMMA LabelFacts ==
  /\ DOMAIN Session = {"remove", "stop"}
  /\ DOMAIN AfterSession = {"removeSession", "stopSession", "lastSession"}
  /\ Session["remove"] = "removeSession" /\ Session["stop"] = "stopSession"
  /\ AfterTorrent["remove"] = "unlist" /\ AfterTorrent["stop"] = "halt"
  /\ AfterSession["removeSession"] = "unlist" /\ AfterSession["stopSession"] = "halt"
  /\ AfterSession["lastSession"] = "idle"
  /\ FirstStep["AddTorrent"] = "creating" /\ FirstStep["AddMagnet"] = "fetching"
  BY DEF Session, AfterTorrent, AfterSession, FirstStep

\* ClientTypeOK with the sets of labels written out.
TablesTyped ==
  /\ made \in Nat /\ torrents \in Made \cup {NoSession} /\ sessions \in Made \cup {NoSession}
  /\ running \subseteq Made /\ flagged \subseteq Made /\ doomed \subseteq Made
  /\ stopping \subseteq Programs /\ engineRunning \in BOOLEAN
  /\ at \in [Programs -> Labels] /\ held \in [Programs -> Made \cup {NoSession}]
  /\ done \in [Programs -> Nat] /\ \A g \in Programs : done[g] <= Len(Program[g])

LEMMA TablesTypedIsType == TablesTyped <=> ClientTypeOK
  BY LabelFacts DEF TablesTyped, ClientTypeOK, Made, Labels

LEMMA NoSessionIsNoId == ASSUME TablesTyped PROVE Made \subseteq Nat /\ NoSession \notin Made
  BY ClientAssumption DEF TablesTyped, Made

LEMMA ClientInitially == ASSUME ClientInit PROVE TablesTyped /\ TablesInv /\ DoomedInv
  <1>1. TablesTyped
    BY ClientAssumption DEF ClientInit, TablesTyped, Made, Labels
  <1>2. TablesInv /\ DoomedInv
    BY DEF ClientInit, TablesInv, DoomedInv, Half
  <1> QED
    BY <1>1, <1>2

LEMMA BeginsOnce ==
  ASSUME TablesTyped, NEW g \in Programs, NEW call, Begins(g, call)
  PROVE  /\ done' \in [Programs -> Nat] /\ \A h \in Programs : done'[h] <= Len(Program[h])
         /\ at[g] = "idle"
  <1>1. Len(Program[g]) \in Nat
    BY ClientAssumption
  <1> QED
    BY <1>1 DEF TablesTyped, Begins

LEMMA AddBeginsSafe ==
  ASSUME TablesTyped, TablesInv, DoomedInv, NEW g \in Programs, NEW call, AddBegins(g, call)
  PROVE  TablesTyped' /\ TablesInv' /\ DoomedInv'
  <1> USE LabelFacts, NoSessionIsNoId DEF AddBegins, Goto, tablesVars, stateVars
  <1>1. at[g] = "idle" /\ at'[g] \in {"idle", "fetching", "creating"}
    BY BeginsOnce DEF TablesTyped
  <1>2. at' = [at EXCEPT ![g] = at'[g]] /\ held' = [held EXCEPT ![g] = NoSession]
    BY DEF TablesTyped
  <1>3. TablesTyped'
    BY <1>1, <1>2, BeginsOnce DEF TablesTyped, Made, Labels
  <1>4. TablesInv'
    BY <1>1, <1>2 DEF TablesTyped, TablesInv, Half
  <1>5. DoomedInv'
    BY <1>1, <1>2 DEF TablesTyped, DoomedInv, WillStop, Half
  <1> QED
    BY <1>3, <1>4, <1>5

LEMMA FetchesMetadataSafe ==
  ASSUME TablesTyped, TablesInv, DoomedInv, NEW g \in Programs, FetchesMetadata(g)
  PROVE  TablesTyped' /\ TablesInv' /\ DoomedInv'
  <1> USE LabelFacts, NoSessionIsNoId DEF FetchesMetadata, Goto, tablesVars, stateVars
  <1>1. TablesTyped'
    BY BeginsOnce DEF TablesTyped, Made, Labels
  <1>2. TablesInv'
    <2>1. \A h \in Programs : at'[h] \in Half <=> at[h] \in Half
      BY DEF TablesTyped, Half
    <2> QED
      BY <2>1 DEF TablesTyped, TablesInv
  <1>3. DoomedInv'
    BY BeginsOnce DEF TablesTyped, TablesInv, DoomedInv, WillStop, Half
  <1> QED
    BY <1>1, <1>2, <1>3

LEMMA AddsSessionSafe ==
  ASSUME TablesTyped, TablesInv, DoomedInv, NEW g \in Programs, AddsSession(g)
  PROVE  TablesTyped' /\ TablesInv' /\ DoomedInv'
  <1> USE LabelFacts, NoSessionIsNoId DEF AddsSession, Goto, tablesVars, stateVars
  <1>1. TablesTyped'
    <2>1. CASE sessions = NoSession
      <3>1. made' = made + 1 /\ made' \in Nat /\ Made \subseteq Made' /\ made' \in Made'
        BY <2>1 DEF TablesTyped, Made
      <3>2. /\ running' \subseteq Made' /\ flagged' \subseteq Made' /\ doomed' \subseteq Made'
            /\ torrents' \in Made' \cup {NoSession} /\ sessions' \in Made' \cup {NoSession}
        BY <2>1, <3>1 DEF TablesTyped
      <3>3. at' \in [Programs -> Labels]
        BY <2>1 DEF TablesTyped, Labels
      <3>4. held' \in [Programs -> Made' \cup {NoSession}]
        BY <2>1, <3>1 DEF TablesTyped
      <3> QED
        BY <2>1, <3>1, <3>2, <3>3, <3>4 DEF TablesTyped
    <2>2. CASE sessions # NoSession
      BY <2>2 DEF TablesTyped, Made, Labels
    <2> QED
      BY <2>1, <2>2
  <1>2. TablesInv'
    <2>1. CASE sessions = NoSession
      <3>1. torrents = NoSession /\ \A h \in Programs : at[h] \notin Half
        BY <2>1 DEF TablesInv
      <3>2. sessions' = made + 1 /\ sessions' # NoSession /\ torrents' = NoSession
        BY <2>1, <3>1, ClientAssumption DEF TablesTyped
      <3>3. \A h \in Programs : at'[h] \in Half <=> h = g
        BY <2>1, <3>1 DEF TablesTyped, Half
      <3>4. held'[g] = sessions'
        BY <2>1 DEF TablesTyped
      <3>5. \A h \in stopping : h # g /\ at'[h] = at[h]
        BY <2>1 DEF TablesTyped, TablesInv
      <3> QED
        BY <2>1, <3>2, <3>3, <3>4, <3>5 DEF TablesInv, TablesTyped
    <2>2. CASE sessions # NoSession
      <3>1. at[g] = "creating" /\ at' = [at EXCEPT ![g] = "idle"] /\ UNCHANGED <<torrents, sessions, held, stopping>>
        BY <2>2
      <3>2. g \notin stopping /\ \A h \in Programs : at'[h] \in Half <=> at[h] \in Half
        BY <3>1 DEF TablesTyped, TablesInv, Half
      <3>3. \A h \in Programs \ {g} : at'[h] = at[h]
        BY <3>1 DEF TablesTyped
      <3>4. at'[g] = "idle"
        BY <3>1 DEF TablesTyped
      <3> QED
        BY <3>1, <3>2, <3>3, <3>4 DEF TablesInv
    <2> QED
      BY <2>1, <2>2
  <1>3. DoomedInv'
    BY BeginsOnce DEF TablesTyped, TablesInv, DoomedInv, WillStop, Half
  <1> QED
    BY <1>1, <1>2, <1>3

LEMMA StoresTorrentSafe ==
  ASSUME TablesTyped, TablesInv, DoomedInv, NEW g \in Programs, StoresTorrent(g)
  PROVE  TablesTyped' /\ TablesInv' /\ DoomedInv'
  <1> USE LabelFacts, NoSessionIsNoId DEF StoresTorrent, Goto, tablesVars, stateVars
  <1>1. TablesTyped'
    BY BeginsOnce DEF TablesTyped, Made, Labels
  <1>2. TablesInv'
    BY BeginsOnce DEF TablesTyped, TablesInv, Half
  <1>3. DoomedInv'
    BY BeginsOnce DEF TablesTyped, TablesInv, DoomedInv, WillStop, Half
  <1> QED
    BY <1>1, <1>2, <1>3

LEMMA StartsTorrentSafe ==
  ASSUME TablesTyped, TablesInv, DoomedInv, NEW g \in Programs, StartsTorrent(g)
  PROVE  TablesTyped' /\ TablesInv' /\ DoomedInv'
  <1> USE LabelFacts, NoSessionIsNoId DEF StartsTorrent, Goto, tablesVars, stateVars
  <1>1. TablesTyped'
    <2>1. running' \subseteq Made /\ doomed' \subseteq Made
      BY DEF TablesTyped
    <2>2. done' \in [Programs -> Nat] /\ \A h \in Programs : done'[h] <= Len(Program[h])
      BY BeginsOnce
    <2>3. Made' = Made
      BY DEF Made
    <2> QED
      BY <2>1, <2>2, <2>3 DEF TablesTyped
  <1>2. TablesInv'
    BY BeginsOnce DEF TablesTyped, TablesInv, Half
  <1>3. DoomedInv'
    BY BeginsOnce DEF TablesTyped, TablesInv, DoomedInv, WillStop, Half
  <1> QED
    BY <1>1, <1>2, <1>3

LEMMA RemoveBeginsSafe ==
  ASSUME TablesTyped, TablesInv, DoomedInv, NEW g \in Programs, RemoveBegins(g)
  PROVE  TablesTyped' /\ TablesInv' /\ DoomedInv'
  <1> USE LabelFacts, NoSessionIsNoId DEF RemoveBegins, Goto, tablesVars, stateVars
  <1>1. TablesTyped'
    BY BeginsOnce DEF TablesTyped, Made, Labels
  <1>2. TablesInv'
    BY BeginsOnce DEF TablesTyped, TablesInv, Half
  <1>3. DoomedInv'
    <2>1. at[g] = "idle" /\ running' = running /\ sessions' = sessions
          /\ stopping' = stopping /\ engineRunning' = engineRunning
      BY BeginsOnce
    <2>2. ASSUME NEW s \in doomed \cap running PROVE \E h \in Programs : WillStop(h, s)'
      <3>1. PICK h \in Programs : WillStop(h, s)
        BY <2>2 DEF DoomedInv
      <3>2. h # g
        BY <2>1, <3>1 DEF WillStop, Half
      <3>3. at'[h] = at[h] /\ held'[h] = held[h]
        BY <3>2 DEF TablesTyped
      <3> QED
        BY <2>1, <3>1, <3>3 DEF WillStop
    <2>3. CASE torrents \in running
      <3>1. torrents # NoSession
        BY <2>3 DEF TablesTyped
      <3>2. PICK t \in Made : t = torrents
        BY <2>3, <3>1 DEF TablesTyped
      <3>3. at'[g] = "remove" /\ held'[g] = t
        BY <3>1, <3>2 DEF TablesTyped
      <3>4. WillStop(g, t)'
        BY <3>3 DEF WillStop, Half
      <3> QED
        BY <2>1, <2>2, <3>2, <3>4 DEF DoomedInv
    <2>4. CASE torrents \notin running
      BY <2>1, <2>2, <2>4 DEF DoomedInv
    <2> QED
      BY <2>3, <2>4
  <1> QED
    BY <1>1, <1>2, <1>3

LEMMA ClientStopBeginsSafe ==
  ASSUME TablesTyped, TablesInv, DoomedInv, NEW g \in Programs, ClientStopBegins(g)
  PROVE  TablesTyped' /\ TablesInv' /\ DoomedInv'
  <1> USE LabelFacts, NoSessionIsNoId DEF ClientStopBegins, Goto, tablesVars, stateVars
  <1>1. TablesTyped'
    BY BeginsOnce DEF TablesTyped, Made, Labels
  <1>2. TablesInv'
    BY BeginsOnce DEF TablesTyped, TablesInv, Half
  <1>3. DoomedInv'
    <2>1. at[g] = "idle" /\ running' = running /\ sessions' = sessions
          /\ stopping' = stopping /\ engineRunning' = engineRunning
      BY BeginsOnce
    <2>2. ASSUME NEW s \in doomed \cap running PROVE \E h \in Programs : WillStop(h, s)'
      <3>1. PICK h \in Programs : WillStop(h, s)
        BY <2>2 DEF DoomedInv
      <3>2. h # g
        BY <2>1, <3>1 DEF WillStop, Half
      <3>3. at'[h] = at[h] /\ held'[h] = held[h]
        BY <3>2 DEF TablesTyped
      <3> QED
        BY <2>1, <3>1, <3>3 DEF WillStop
    <2>3. CASE torrents \in running /\ engineRunning
      <3>1. torrents # NoSession
        BY <2>3 DEF TablesTyped
      <3>2. at'[g] = "stop" /\ sessions = torrents
        BY <3>1 DEF TablesTyped, TablesInv
      <3>3. WillStop(g, torrents)'
        BY <2>1, <2>3, <3>2 DEF WillStop
      <3> QED
        BY <2>1, <2>2, <3>3 DEF DoomedInv
    <2>4. CASE ~(torrents \in running /\ engineRunning)
      BY <2>1, <2>2, <2>4 DEF DoomedInv
    <2> QED
      BY <2>3, <2>4
  <1> QED
    BY <1>1, <1>2, <1>3

LEMMA FlagsTorrentSafe ==
  ASSUME TablesTyped, TablesInv, DoomedInv, NEW g \in Programs, FlagsTorrent(g)
  PROVE  TablesTyped' /\ TablesInv' /\ DoomedInv'
  <1> USE LabelFacts, NoSessionIsNoId DEF FlagsTorrent, Goto, tablesVars, stateVars
  <1>a. at' = [at EXCEPT ![g] = at'[g]]
        /\ \/ at[g] = "remove" /\ at'[g] \in {"unlist", "removeSession"}
           \/ at[g] = "stop" /\ at'[g] \in {"halt", "stopSession"}
    BY DEF TablesTyped
  <1>b. held[g] \in Made
    BY <1>a DEF TablesTyped, TablesInv, Half
  <1>1. TablesTyped'
    BY <1>a, <1>b DEF TablesTyped, Made, Labels
  <1>2. TablesInv'
    BY BeginsOnce DEF TablesTyped, TablesInv, Half
  <1>3. DoomedInv'
    BY BeginsOnce DEF TablesTyped, TablesInv, DoomedInv, WillStop, Half
  <1> QED
    BY <1>1, <1>2, <1>3

LEMMA StopsSessionSafe ==
  ASSUME TablesTyped, TablesInv, DoomedInv, NEW g \in Programs, StopsSession(g)
  PROVE  TablesTyped' /\ TablesInv' /\ DoomedInv'
  <1> USE LabelFacts, NoSessionIsNoId DEF StopsSession, Goto, tablesVars, stateVars
  <1>a. at' = [at EXCEPT ![g] = at'[g]] /\ at'[g] \in Labels
    BY DEF TablesTyped, Labels
  <1>1. TablesTyped'
    BY <1>a DEF TablesTyped, Made, Labels
  <1>2. TablesInv'
    <2>1. CASE held[g] \in running
      BY <2>1 DEF TablesTyped, TablesInv
    <2>2. CASE held[g] \notin running
      <3>1. \A h \in Programs : at'[h] \in Half <=> at[h] \in Half
        BY <2>2 DEF TablesTyped, Half
      <3>2. \A h \in Programs : at'[h] \in {"stop", "stopSession", "lastSession"} => at'[h] = at[h]
        BY <2>2 DEF TablesTyped
      <3>3. \A h \in stopping : at'[h] = at[h]
        BY <2>2 DEF TablesTyped
      <3> QED
        BY <2>2, <3>1, <3>2, <3>3 DEF TablesTyped, TablesInv
    <2> QED
      BY <2>1, <2>2
  <1>3. DoomedInv'
    BY BeginsOnce DEF TablesTyped, TablesInv, DoomedInv, WillStop, Half
  <1> QED
    BY <1>1, <1>2, <1>3

LEMMA SessionStoppedSafe ==
  ASSUME TablesTyped, TablesInv, DoomedInv, NEW g \in Programs, SessionStopped(g)
  PROVE  TablesTyped' /\ TablesInv' /\ DoomedInv'
  <1> USE LabelFacts, NoSessionIsNoId DEF SessionStopped, Goto, tablesVars, stateVars
  <1>a. at' = [at EXCEPT ![g] = at'[g]] /\ at'[g] \in Labels
    BY DEF TablesTyped, TablesInv, Labels
  <1>1. TablesTyped'
    BY <1>a DEF TablesTyped, Made, Labels
  <1>2. TablesInv'
    BY BeginsOnce DEF TablesTyped, TablesInv, Half
  <1>3. DoomedInv'
    BY BeginsOnce DEF TablesTyped, TablesInv, DoomedInv, WillStop, Half
  <1> QED
    BY <1>1, <1>2, <1>3

LEMMA UnlistsSafe ==
  ASSUME TablesTyped, TablesInv, DoomedInv, NEW g \in Programs, Unlists(g)
  PROVE  TablesTyped' /\ TablesInv' /\ DoomedInv'
  <1> USE LabelFacts, NoSessionIsNoId DEF Unlists, Goto, tablesVars, stateVars
  <1>1. TablesTyped'
    BY BeginsOnce DEF TablesTyped, Made, Labels
  <1>2. TablesInv'
    BY BeginsOnce DEF TablesTyped, TablesInv, Half
  <1>3. DoomedInv'
    <2>1. sessions # NoSession /\ at'[g] = "lastSession" /\ held'[g] = held[g] /\ g \notin stopping
      BY DEF TablesTyped, TablesInv, Half
    <2>2. ASSUME NEW s \in doomed \cap running PROVE \E h \in Programs : WillStop(h, s)'
      <3>1. PICK h \in Programs : WillStop(h, s)
        BY <2>2 DEF DoomedInv
      <3>2. CASE held[g] = s
        BY <2>1, <3>2 DEF WillStop
      <3>3. CASE held[g] # s
        <4>1. h # g /\ at[h] \notin Half /\ sessions = held[g]
          BY <3>1, <3>3 DEF WillStop, TablesInv, Half
        <4>2. WillStop(h, s)'
          BY <3>1, <3>3, <4>1 DEF TablesTyped, WillStop, Half
        <4> QED
          BY <4>2
      <3> QED
        BY <3>2, <3>3
    <2> QED
      BY <2>2 DEF DoomedInv
  <1> QED
    BY <1>1, <1>2, <1>3

LEMMA HaltsSafe ==
  ASSUME TablesTyped, TablesInv, DoomedInv, NEW g \in Programs, Halts(g)
  PROVE  TablesTyped' /\ TablesInv' /\ DoomedInv'
  <1> USE LabelFacts, NoSessionIsNoId DEF Halts, Goto, tablesVars, stateVars
  <1>1. TablesTyped'
    BY BeginsOnce DEF TablesTyped, Made, Labels
  <1>2. TablesInv'
    BY BeginsOnce DEF TablesTyped, TablesInv, Half
  <1>3. DoomedInv'
    BY BeginsOnce DEF TablesTyped, TablesInv, DoomedInv, WillStop, Half
  <1> QED
    BY <1>1, <1>2, <1>3

LEMMA NextSafe ==
  ASSUME TablesTyped, TablesInv, DoomedInv, [ClientNext]_clientVars
  PROVE  TablesTyped' /\ TablesInv' /\ DoomedInv'
  <1>1. CASE UNCHANGED clientVars
    BY <1>1 DEF clientVars, tablesVars, stateVars, TablesTyped, TablesInv, DoomedInv, WillStop, Made
  <1>2. CASE ClientNext
    BY <1>2, AddBeginsSafe, FetchesMetadataSafe, AddsSessionSafe, StoresTorrentSafe,
       StartsTorrentSafe, RemoveBeginsSafe, ClientStopBeginsSafe, FlagsTorrentSafe,
       StopsSessionSafe, SessionStoppedSafe, UnlistsSafe, HaltsSafe DEF ClientNext
  <1> QED
    BY <1>1, <1>2

ClientInv == ClientTypeOK /\ TablesInv /\ DoomedInv

LEMMA ClientInvariant == ClientSpec => []ClientInv
  <1>1. ClientInit => ClientInv
    BY ClientInitially, TablesTypedIsType DEF ClientInv
  <1>2. ClientInv /\ [ClientNext]_clientVars => ClientInv'
    <2> SUFFICES ASSUME ClientInv, [ClientNext]_clientVars PROVE ClientInv'
      OBVIOUS
    <2>1. TablesTyped' /\ TablesInv' /\ DoomedInv'
      BY NextSafe, TablesTypedIsType DEF ClientInv
    <2>2. TablesTyped' <=> ClientTypeOK'
      BY LabelFacts DEF TablesTyped, ClientTypeOK, Made, Labels
    <2> QED
      BY <2>1, <2>2 DEF ClientInv
  <1> QED
    BY <1>1, <1>2, PTL DEF ClientSpec

(* The variables of the API keep their types, whatever is called.          *)
THEOREM ClientTypeCorrect == ClientSpec => []ClientTypeOK
  <1>1. ClientInv => ClientTypeOK
    BY DEF ClientInv
  <1> QED
    BY <1>1, ClientInvariant, PTL

(* AddTorrent, AddMagnet, RemoveTorrent and Client.Stop, called by any      *)
(* number of goroutines at once, leave the same session in Client.torrents  *)
(* and in Engine.sessions when they have all returned.                      *)
THEOREM TablesAgree == ClientSpec => []HandlesMatch
  <1>1. ClientInv => HandlesMatch
    BY DEF ClientInv, TablesInv, HandlesMatch, Quiet, Half
  <1> QED
    BY <1>1, ClientInvariant, PTL

(* When all calls have returned, no session runs that RemoveTorrent or the  *)
(* Client.Stop of an engine that was not stopped had found running.         *)
THEOREM FoundIsStopped == ClientSpec => []StopsTakeEffect
  <1>1. ClientInv => StopsTakeEffect
    BY DEF ClientInv, DoomedInv, WillStop, StopsTakeEffect, Quiet, Half
  <1> QED
    BY <1>1, ClientInvariant, PTL

-----------------------------------------------------------------------------
(* The components together *)

(* A step of MCServices is a step of one component, in which the others     *)
(* stutter.                                                                 *)
LEMMA ServicesStep ==
  ASSUME [ServicesNext]_allVars
  PROVE  /\ [TrackersNext]_trackersVars /\ [DhtNext]_dhtVars /\ [MetadataNext]_metadataVars
         /\ [ClientNext]_clientVars /\ [CommandNext]_commandVars
  <1>1. CASE UNCHANGED allVars
    BY <1>1 DEF allVars
  <1>2. CASE ServicesNext
    BY <1>2 DEF ServicesNext
  <1> QED
    BY <1>1, <1>2

(* No component of MCServices disturbs another: each follows its own        *)
(* specification, so that what is proved of it holds of them together.      *)
THEOREM ServicesCompose ==
  ServicesSpec =>
    TrackersSpec /\ DhtSpec /\ MetadataSpec /\ ClientSpec /\ CommandSpec
  <1>1. ServicesInit => TrackersInit /\ DhtInit /\ MetadataInit /\ ClientInit /\ CommandInit
    BY DEF ServicesInit
  <1>2. [ServicesNext]_allVars =>
          /\ [TrackersNext]_trackersVars /\ [DhtNext]_dhtVars /\ [MetadataNext]_metadataVars
          /\ [ClientNext]_clientVars /\ [CommandNext]_commandVars
    BY ServicesStep
  <1> QED
    BY <1>1, <1>2, PTL
    DEF ServicesSpec, TrackersSpec, DhtSpec, MetadataSpec, ClientSpec, CommandSpec

(* The variables of all five keep their types.                              *)
THEOREM ServicesTyped ==
  ServicesSpec => []ServicesTypeOK
  <1>1. TrackersTypeOK /\ DhtTypeOK /\ MetadataTypeOK /\ ClientTypeOK /\ CommandTypeOK
          => ServicesTypeOK
    BY DEF ServicesTypeOK
  <1> QED
    BY <1>1, ServicesCompose, TrackersTyped, DhtTyped, MetadataTypeCorrect, ClientTypeCorrect,
       CommandTypeCorrect, PTL
=============================================================================
