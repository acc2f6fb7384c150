---------------------------- MODULE MCLifecycle ----------------------------
(***************************************************************************)
(* An instance of Lifecycle for TLC: the sizes of the files, and four      *)
(* scenarios, which bound what a behaviour combines.  A behaviour keeps to *)
(* one of them; the methods, the goroutines and the events of MaxEvents it *)
(* may use are those below, and every other step is open to all four.      *)
(***************************************************************************)
EXTENDS Lifecycle, TLC

CONSTANTS Other,  \* the caller that interferes
          Second  \* the worker that is idle except in "timeout"

VARIABLE scenario

\* Piece 0 is spread over two files with an empty one between them; piece 1
\* is shorter than PieceLen.
MCFileLens == <<1, 0, 2>>

Methods == {"Start", "Pause", "Resume", "Stop", "VerifyData"}
MCCalls == [c \in Callers |-> IF c = Other THEN {"Start", "VerifyData"} ELSE Methods \ {"VerifyData"}]

FirstAccess ==
  [Start |-> {"starting"}, Pause |-> {"listed"}, Stop |-> {"stopping"},
   Resume |-> {"resume as Seeding", "resume as Downloading"}, VerifyData |-> {"verifying"}]

\* Bound: when one of the callers begins a call, it is one of these methods.
OnlyCalls(callers, methods) ==
  \A c \in callers : At(c, "idle") /\ ~At(c, "idle")' =>
    \E m \in methods : pc'[c] \in FirstAccess[m]

\* Bound: only one worker, whose requests do not time out; the other leaves as
\* soon as it can.
OneWorker ==
  /\ wpc'[Second] # "fetched" /\ \A w \in Workers : wpc'[w] # "dropping"
  /\ ENABLED Leaves(Second) => wpc'[Second] = "off"

\* Every method but VerifyData, and the events.
PlainCalls == OneWorker /\ OnlyCalls({Other}, {})

\* VerifyData, while the session is started, runs and is stopped.
VerifyMeanwhile ==
  OneWorker /\ OnlyCalls({Other}, {"VerifyData"}) /\ OnlyCalls(Callers \ {Other}, {"Start", "Stop"})

\* Start while a Stop waits for the goroutines, and any call after that.
StartMeanwhile ==
  /\ OneWorker
  /\ OnlyCalls({Other}, IF \E c \in Callers : At(c, "waiting") THEN {"Start"} ELSE {})
  /\ OnlyCalls(Callers \ {Other}, IF reentered THEN {"Pause", "Resume", "Stop"} ELSE {"Start", "Stop"})

\* One session with two workers and a request that times out, and Stop after that.
TwoWorkers ==
  /\ OnlyCalls({Other}, {})
  /\ OnlyCalls(Callers \ {Other}, IF events = 0 THEN {"Start"} ELSE {"Start", "Stop"})
  /\ eventOpen' => eventOpen
  /\ events' # events => \E w \in Workers : wpc'[w] = "dropping"

Kept ==
  CASE scenario = "calls"   -> PlainCalls
    [] scenario = "verify"  -> VerifyMeanwhile
    [] scenario = "overlap" -> StartMeanwhile
    [] scenario = "timeout" -> TwoWorkers

MCInit == Init /\ scenario \in {"calls", "verify", "overlap", "timeout"}
MCNext == Next /\ Kept /\ UNCHANGED scenario
MCSpec == MCInit /\ [][MCNext]_<<vars, scenario>> /\ Fairness
=============================================================================
