------------------------------ MODULE Command ------------------------------
(***************************************************************************)
(* The download command, from the torrent that was started to the end of   *)
(* the process: the main loop, the goroutine of the signals, the one of    *)
(* the keyboard, the forwarder between the two event channels, and the     *)
(* stops that they ask for.                                                *)
(*                                                                         *)
(* Abstractions: the session emits what Lifecycle says it emits (that it   *)
(* has started is progress), and its Stop saves and then ends, as there;   *)
(* Ctrl-C on a terminal in raw mode is a key like 'q'; without a terminal  *)
(* no key is pressed; the process ends when main returns.                  *)
(***************************************************************************)
EXTENDS Naturals, Sequences

CONSTANTS
  EventCap,    \* length of the two event channels, 100
  KeyCap,      \* length of keyboardCh, 10
  MaxKeys      \* bound: keys that are pressed

ASSUME CommandAssumption == EventCap \in Nat \ {0} /\ KeyCap \in Nat /\ MaxKeys \in Nat

VARIABLES
  phase,        \* Session.state: "downloading", "seeding" or "paused"
  complete,     \* the bitfield is full
  sessionOn,    \* Session.running
  alive,        \* its goroutines run
  saved,        \* Session.Stop has saved the resume data
  sessionEvents, apiEvents,   \* Session.eventCh, Torrent.events
  forwarder,    \* "receiving", the event that it will pass on, or "ended"
  torrentDone,  \* Torrent.stopped; stopEventForwarder is closed
  step, caller, \* where main and the signal goroutine are, and in whose Stop
  cancelled,    \* ctx is done
  paused, isCompleted,        \* of the main loop
  seedAfter,    \* the flag --seed
  keyboard,     \* "checking" ctx, "reading", the key that it will send, or "ended"
  keys,         \* keyboardCh
  pressed       \* bound: how many of MaxKeys

torrentVars == <<phase, complete, sessionOn, alive, saved>>
channelVars == <<sessionEvents, apiEvents, forwarder, torrentDone>>
stepVars == <<step, caller, cancelled>>
mainVars == <<paused, isCompleted, seedAfter>>
keyVars == <<keyboard, keys, pressed>>
commandVars == <<torrentVars, channelVars, stepVars, mainVars, keyVars>>

Threads == {"main", "signal"}

CommandInit ==
  /\ phase = "downloading" /\ complete = FALSE /\ sessionOn = TRUE /\ alive = TRUE
  /\ saved = FALSE
  /\ sessionEvents = <<"tick">> /\ apiEvents = <<>>
  /\ forwarder = "receiving" /\ torrentDone = FALSE
  /\ step = [main |-> "loop", signal |-> "waiting"] /\ caller = [k \in Threads |-> "none"]
  /\ cancelled = FALSE /\ paused = FALSE /\ isCompleted = FALSE
  /\ seedAfter \in BOOLEAN
  /\ keyboard = "checking" /\ keys = <<>> /\ pressed = 0

Exited == step["main"] = "exited"

-----------------------------------------------------------------------------
(* The session and the forwarder *)

\* Mutated: the channel is as long as it has to be.
SendAlways(channel, event) == Append(channel, event)

\* A full channel drops the event.
SendOrDrop(channel, event) == IF Len(channel) < EventCap THEN Append(channel, event) ELSE channel

Emits(event) == sessionEvents' = SendOrDrop(sessionEvents, event)

\* EventProgress, or EventSeeding once the torrent is complete.
Ticks ==
  /\ alive /\ phase # "paused"
  /\ Emits("tick")
  /\ UNCHANGED <<torrentVars, apiEvents, forwarder, torrentDone, stepVars, mainVars, keyVars>>

SessionCompletes ==
  /\ alive /\ phase = "downloading" /\ phase' = "seeding" /\ complete' = TRUE /\ Emits("complete")
  /\ UNCHANGED <<sessionOn, alive, saved, apiEvents, forwarder, torrentDone, stepVars, mainVars,
                 keyVars>>

ForwarderReceives ==
  /\ forwarder = "receiving" /\ sessionEvents # <<>>
  /\ forwarder' = Head(sessionEvents) /\ sessionEvents' = Tail(sessionEvents)
  /\ UNCHANGED <<torrentVars, apiEvents, torrentDone, stepVars, mainVars, keyVars>>

\* stopEventForwarder is closed, or the channel of the session is.
ForwarderEnds ==
  /\ forwarder = "receiving" /\ (torrentDone \/ (~alive /\ sessionEvents = <<>>))
  /\ forwarder' = "ended"
  /\ UNCHANGED <<torrentVars, sessionEvents, apiEvents, torrentDone, stepVars, mainVars, keyVars>>

\* Mutated: it waits until there is room.
PassesOnAll ==
  /\ forwarder \notin {"receiving", "ended"} /\ Len(apiEvents) < EventCap
  /\ apiEvents' = Append(apiEvents, forwarder) /\ forwarder' = "receiving"
  /\ UNCHANGED <<torrentVars, sessionEvents, torrentDone, stepVars, mainVars, keyVars>>

PassesOn ==
  /\ forwarder \notin {"receiving", "ended"}
  /\ apiEvents' = SendOrDrop(apiEvents, forwarder) /\ forwarder' = "receiving"
  /\ UNCHANGED <<torrentVars, sessionEvents, torrentDone, stepVars, mainVars, keyVars>>

-----------------------------------------------------------------------------
(* Torrent.Stop, Session.Stop, Client.Stop *)

EntersStop(k, who) == caller' = [caller EXCEPT ![k] = who] /\ step' = [step EXCEPT ![k] = "flag"]
Reaches(k, where) == step' = [step EXCEPT ![k] = where] /\ UNCHANGED caller

\* Mutated: the client stops its torrents, and not the engine.
ReturnsFromTorrents(k) ==
  CASE caller[k] = "key" -> EntersStop(k, "client")
    [] caller[k] = "signal" -> Reaches(k, "done")
    [] OTHER -> Reaches(k, "exited")

(* A call of Stop returns: of a key, to the deferred Client.Stop; there, of *)
(* the torrent, to the engine; of the engine, to the end of the process.    *)
ReturnsFromStop(k) ==
  CASE caller[k] = "key" -> EntersStop(k, "client")
    [] caller[k] = "signal" -> Reaches(k, "done")
    [] caller[k] = "client" -> /\ caller' = [caller EXCEPT ![k] = "engine"]
                               /\ step' = [step EXCEPT ![k] = "session"]
    [] caller[k] = "engine" -> Reaches(k, "exited")

\* The second call returns at once, whether the first has ended or not.
TorrentStop(k) ==
  /\ step[k] = "flag" /\ torrentDone' = TRUE
  /\ IF torrentDone THEN ReturnsFromStop(k) ELSE Reaches(k, "forwarder")
  /\ UNCHANGED <<torrentVars, sessionEvents, apiEvents, forwarder, cancelled, mainVars, keyVars>>

ForwarderEnded(k) ==
  /\ step[k] = "forwarder" /\ forwarder = "ended" /\ Reaches(k, "session")
  /\ UNCHANGED <<torrentVars, channelVars, cancelled, mainVars, keyVars>>

SessionStop(k) ==
  /\ step[k] = "session" /\ sessionOn' = FALSE
  /\ IF sessionOn THEN Reaches(k, "saving") ELSE ReturnsFromStop(k)
  /\ UNCHANGED <<phase, complete, alive, saved, channelVars, cancelled, mainVars, keyVars>>

SessionSaves(k) ==
  /\ step[k] = "saving" /\ saved' = TRUE /\ Reaches(k, "ending")
  /\ UNCHANGED <<phase, complete, sessionOn, alive, channelVars, cancelled, mainVars, keyVars>>

SessionEnds(k) ==
  /\ step[k] = "ending" /\ alive' = FALSE /\ ReturnsFromStop(k)
  /\ UNCHANGED <<phase, complete, sessionOn, saved, channelVars, cancelled, mainVars, keyVars>>

-----------------------------------------------------------------------------
(* The signal and the keyboard *)

SignalComes ==
  /\ step["signal"] = "waiting" /\ cancelled' = TRUE /\ EntersStop("signal", "signal")
  /\ UNCHANGED <<torrentVars, channelVars, mainVars, keyVars>>

KeyboardChecks ==
  /\ keyboard = "checking" /\ keyboard' = IF cancelled THEN "ended" ELSE "reading"
  /\ UNCHANGED <<torrentVars, channelVars, stepVars, mainVars, keys, pressed>>

KeyPressed(key) ==
  /\ keyboard = "reading" /\ pressed < MaxKeys /\ pressed' = pressed + 1 /\ keyboard' = key
  /\ UNCHANGED <<torrentVars, channelVars, stepVars, mainVars, keys>>

KeySent ==
  /\ keyboard \in {"p", "q"} /\ Len(keys) < KeyCap
  /\ keys' = Append(keys, keyboard) /\ keyboard' = "checking"
  /\ UNCHANGED <<torrentVars, channelVars, stepVars, mainVars, pressed>>

-----------------------------------------------------------------------------
(* The main loop *)

InLoop == step["main"] = "loop"

SeesCancelled ==
  /\ InLoop /\ cancelled /\ EntersStop("main", "client")
  /\ UNCHANGED <<torrentVars, channelVars, cancelled, mainVars, keyVars>>

Quits ==
  /\ InLoop /\ keys # <<>> /\ Head(keys) = "q" /\ keys' = Tail(keys)
  /\ cancelled' = TRUE /\ EntersStop("main", "key")
  /\ UNCHANGED <<torrentVars, channelVars, mainVars, keyboard, pressed>>

(* Session.Pause or Session.Resume, which refuse when the session does not  *)
(* run, and the second when it is not paused; paused goes by what the loop  *)
(* has asked for.                                                           *)
TogglesPause ==
  /\ InLoop /\ keys # <<>> /\ Head(keys) = "p" /\ keys' = Tail(keys)
  /\ IF sessionOn /\ (paused => phase = "paused")
       THEN /\ paused' = ~paused
            /\ phase' = CASE ~paused -> "paused"
                          [] paused /\ complete -> "seeding"
                          [] OTHER -> "downloading"
            /\ Emits(IF paused THEN "resumed" ELSE "paused")
       ELSE UNCHANGED <<paused, phase, sessionEvents>>
  /\ UNCHANGED <<complete, sessionOn, alive, saved, apiEvents, forwarder, torrentDone, stepVars,
                 isCompleted, seedAfter, keyboard, pressed>>

(* An event.  Seeding is over when the ratio is reached, if the loop has    *)
(* been told of the completion: no EventProgress comes after that.          *)
TakesEvent(ratioReached) ==
  /\ InLoop /\ apiEvents # <<>> /\ apiEvents' = Tail(apiEvents)
  /\ LET event == Head(apiEvents)
         ends == \/ event = "complete" /\ ~seedAfter
                 \/ event = "tick" /\ isCompleted /\ ratioReached
     IN /\ isCompleted' = (isCompleted \/ event = "complete")
        /\ paused' = CASE event = "paused" -> TRUE [] event = "resumed" -> FALSE [] OTHER -> paused
        /\ IF ends THEN EntersStop("main", "client") ELSE UNCHANGED <<step, caller>>
  /\ UNCHANGED <<torrentVars, sessionEvents, forwarder, torrentDone, cancelled, seedAfter, keyVars>>

-----------------------------------------------------------------------------
StopStep(k) ==
  TorrentStop(k) \/ ForwarderEnded(k) \/ SessionStop(k) \/ SessionSaves(k) \/ SessionEnds(k)

CommandNext ==
  /\ ~Exited
  /\ \/ Ticks \/ SessionCompletes
     \/ ForwarderReceives \/ ForwarderEnds \/ PassesOn
     \/ \E k \in Threads : StopStep(k)
     \/ SignalComes \/ KeyboardChecks \/ KeySent \/ \E key \in {"p", "q"} : KeyPressed(key)
     \/ SeesCancelled \/ Quits \/ TogglesPause
     \/ \E ratioReached \in BOOLEAN : TakesEvent(ratioReached)

CommandSpec == CommandInit /\ [][CommandNext]_commandVars

(* The goroutines run; a select with several cases that are ready takes one *)
(* of them at random, so that none is passed over for ever.                 *)
CommandFairness ==
  /\ \A k \in Threads : WF_commandVars(~Exited /\ StopStep(k))
  /\ WF_commandVars(~Exited /\ SeesCancelled) /\ WF_commandVars(~Exited /\ PassesOn)
  /\ SF_commandVars(~Exited /\ ForwarderEnds)

-----------------------------------------------------------------------------
(* Properties *)

\* The type invariant.
CommandTypeOK ==
  LET Events == {"tick", "complete", "paused", "resumed"} IN
  /\ phase \in {"downloading", "seeding", "paused"} /\ complete \in BOOLEAN
  /\ sessionOn \in BOOLEAN /\ alive \in BOOLEAN /\ saved \in BOOLEAN
  /\ sessionEvents \in Seq(Events) /\ Len(sessionEvents) <= EventCap
  /\ apiEvents \in Seq(Events) /\ Len(apiEvents) <= EventCap
  /\ forwarder \in Events \cup {"receiving", "ended"} /\ torrentDone \in BOOLEAN
  /\ step["main"] \in {"loop", "flag", "forwarder", "session", "saving", "ending", "exited"}
  /\ step["signal"] \in {"waiting", "flag", "forwarder", "session", "saving", "ending", "done"}
  /\ caller \in [Threads -> {"none", "key", "signal", "client", "engine"}]
  /\ {cancelled, paused, isCompleted, seedAfter} \subseteq BOOLEAN
  /\ keyboard \in {"checking", "reading", "p", "q", "ended"}
  /\ keys \in Seq({"p", "q"}) /\ Len(keys) <= KeyCap /\ pressed \in 0 .. MaxKeys

(* When the command ends the resume data has been saved, whoever asked it   *)
(* to end and however many ask at once, but for one case: a signal whose    *)
(* goroutine has taken the session to stop it and not yet saved, for which  *)
(* nobody waits (download.go:167).  That Save itself may fail, which is     *)
(* only logged, is not here: saved says that it was called to its end.      *)
SavedOnQuit == Exited => saved \/ step["signal"] = "saving"

(* The command ends once it was asked to, by a key or a signal, or has      *)
(* decided to: main, which stops the torrent, is itself the one that reads  *)
(* the events, and the forwarder it waits for must not wait for it.         *)
QuitEnds == (cancelled \/ ~InLoop) ~> Exited
=============================================================================
