------------------------------- MODULE Client -------------------------------
(***************************************************************************)
(* The API: the torrents of a client and the sessions of its engine, two   *)
(* tables with a lock each, and the calls that change both without holding *)
(* either: AddTorrent and AddMagnet, Torrent.Start, RemoveTorrent, Stop.   *)
(*                                                                         *)
(* One torrent is enough, as both tables go by info hash.  A session and   *)
(* its Torrent are one number, given when the engine takes it.             *)
(* Abstractions: what happens in a session that stops is Lifecycle, what   *)
(* else the engine waits for is Connections; a caller starts the torrents  *)
(* it has added itself, once.                                              *)
(***************************************************************************)
EXTENDS Naturals, Sequences

CONSTANTS
  Programs,    \* goroutines that use the client
  Program,     \* the calls that each makes: a sequence of sets
  NoSession    \* Go's nil

ASSUME ClientAssumption ==
  NoSession \notin Nat /\ Program \in [Programs -> Seq(SUBSET STRING)]

VARIABLES
  torrents,       \* Client.torrents[infoHash]
  sessions,       \* Engine.sessions[infoHash]
  made,           \* how many sessions the engine has taken
  running,        \* Session.running
  stopping,       \* the programs that wait in Session.Stop for its goroutines
  flagged,        \* Torrent.stopped
  engineRunning,  \* Engine.running
  at,             \* where each program is, "idle" between two calls
  held,           \* the session that its call is about
  done,           \* the calls it has begun
  doomed           \* the running sessions that some call has found and will stop

tablesVars == <<torrents, sessions, made>>
stateVars == <<running, stopping, flagged, engineRunning>>
clientVars == <<tablesVars, stateVars, at, held, done, doomed>>

ClientInit ==
  /\ torrents = NoSession /\ sessions = NoSession /\ made = 0
  /\ running = {} /\ stopping = {} /\ flagged = {} /\ engineRunning = TRUE
  /\ at = [g \in Programs |-> "idle"] /\ held = [g \in Programs |-> NoSession]
  /\ done = [g \in Programs |-> 0] /\ doomed = {}

Begins(g, call) ==
  /\ at[g] = "idle" /\ done[g] < Len(Program[g]) /\ call \in Program[g][done[g] + 1]
  /\ done' = [done EXCEPT ![g] = @ + 1]

Goto(g, where) == at' = [at EXCEPT ![g] = where]

-----------------------------------------------------------------------------
(* AddTorrent, AddMagnet, Torrent.Start *)

FirstStep == [AddTorrent |-> "creating", AddMagnet |-> "fetching"]

\* A torrent that is there is returned; a magnet's metadata is fetched first.
AddBegins(g, call) ==
  /\ call \in {"AddTorrent", "AddMagnet"} /\ Begins(g, call)
  /\ Goto(g, IF torrents = NoSession THEN FirstStep[call] ELSE "idle")
  /\ held' = [held EXCEPT ![g] = NoSession]
  /\ UNCHANGED <<tablesVars, stateVars, doomed>>

FetchesMetadata(g) ==
  /\ at[g] = "fetching" /\ (Goto(g, "creating") \/ Goto(g, "idle"))
  /\ UNCHANGED <<tablesVars, stateVars, held, done, doomed>>

\* Mutated: the error of AddSession is not looked at.
AddsSessionAnyway(g) ==
  /\ at[g] = "creating" /\ made' = made + 1 /\ held' = [held EXCEPT ![g] = made + 1]
  /\ sessions' = IF sessions = NoSession THEN made + 1 ELSE sessions
  /\ Goto(g, "storing")
  /\ UNCHANGED <<torrents, stateVars, done, doomed>>

\* Engine.AddSession; a session that another call has added is an error.
AddsSession(g) ==
  /\ at[g] = "creating"
  /\ IF sessions = NoSession
       THEN /\ made' = made + 1 /\ sessions' = made + 1 /\ held' = [held EXCEPT ![g] = made + 1]
            /\ Goto(g, "storing")
       ELSE Goto(g, "idle") /\ UNCHANGED <<made, sessions, held>>
  /\ UNCHANGED <<torrents, stateVars, done, doomed>>

StoresTorrent(g) ==
  /\ at[g] = "storing" /\ torrents' = held[g] /\ Goto(g, "idle")
  /\ UNCHANGED <<sessions, made, stateVars, held, done, doomed>>

\* A session that starts is one that nobody has found yet.
StartsTorrent(g) ==
  /\ Begins(g, "Start")
  /\ running' = running \cup ({held[g]} \ {NoSession})
  /\ doomed' = doomed \ ({held[g]} \ running)
  /\ UNCHANGED <<tablesVars, stopping, flagged, engineRunning, at, held>>

-----------------------------------------------------------------------------
(* RemoveTorrent and Client.Stop: Torrent.Stop, and then the engine's part  *)

RemoveBegins(g) ==
  /\ Begins(g, "RemoveTorrent")
  /\ torrents' = NoSession /\ held' = [held EXCEPT ![g] = torrents]
  /\ doomed' = doomed \cup ({torrents} \cap running)
  /\ Goto(g, IF torrents = NoSession THEN "idle" ELSE "remove")
  /\ UNCHANGED <<sessions, made, stateVars>>

\* Of a client that is stopped already, nothing is expected any more.
ClientStopBegins(g) ==
  /\ Begins(g, "Client.Stop")
  /\ held' = [held EXCEPT ![g] = torrents]
  /\ doomed' = IF engineRunning THEN doomed \cup ({torrents} \cap running) ELSE doomed
  /\ Goto(g, IF torrents = NoSession THEN "halt" ELSE "stop")
  /\ UNCHANGED <<tablesVars, stateVars>>

Session == [remove |-> "removeSession", stop |-> "stopSession"]
AfterTorrent == [remove |-> "unlist", stop |-> "halt"]
AfterSession == [removeSession |-> "unlist", stopSession |-> "halt", lastSession |-> "idle"]

\* Only the first Torrent.Stop goes on to Session.Stop.
FlagsTorrent(g) ==
  /\ at[g] \in DOMAIN Session /\ flagged' = flagged \cup {held[g]}
  /\ Goto(g, IF held[g] \in flagged THEN AfterTorrent[at[g]] ELSE Session[at[g]])
  /\ UNCHANGED <<tablesVars, running, stopping, engineRunning, held, done, doomed>>

(* Session.Stop: the call that finds it running goes on; another one        *)
(* returns at once, whether the session has stopped or not.                 *)
StopsSession(g) ==
  /\ at[g] \in DOMAIN AfterSession /\ g \notin stopping
  /\ running' = running \ {held[g]}
  /\ IF held[g] \in running
       THEN stopping' = stopping \cup {g} /\ UNCHANGED at
       ELSE Goto(g, AfterSession[at[g]]) /\ UNCHANGED stopping
  /\ UNCHANGED <<tablesVars, flagged, engineRunning, held, done, doomed>>

SessionStopped(g) ==
  /\ g \in stopping /\ stopping' = stopping \ {g} /\ Goto(g, AfterSession[at[g]])
  /\ UNCHANGED <<tablesVars, running, flagged, engineRunning, held, done, doomed>>

\* Mutated: RemoveSession leaves it to Torrent.Stop to stop the session.
OnlyUnlists(g) ==
  /\ at[g] = "unlist" /\ sessions' = NoSession /\ Goto(g, "idle")
  /\ UNCHANGED <<torrents, made, stateVars, held, done, doomed>>

\* Engine.RemoveSession, which stops the session of the table once more.
Unlists(g) ==
  /\ at[g] = "unlist" /\ sessions' = NoSession /\ held' = [held EXCEPT ![g] = sessions]
  /\ Goto(g, IF sessions = NoSession THEN "idle" ELSE "lastSession")
  /\ UNCHANGED <<torrents, made, stateVars, done, doomed>>

\* Engine.Stop, which stops the sessions that it finds, the first time.
Halts(g) ==
  /\ at[g] = "halt" /\ engineRunning' = FALSE
  /\ LET halts == engineRunning /\ sessions # NoSession
     IN /\ Goto(g, IF halts THEN "lastSession" ELSE "idle")
        /\ held' = [held EXCEPT ![g] = IF halts THEN sessions ELSE held[g]]
        /\ doomed' = IF halts THEN doomed \cup ({sessions} \cap running) ELSE doomed
  /\ UNCHANGED <<tablesVars, running, stopping, flagged, done>>

-----------------------------------------------------------------------------
ClientNext ==
  \E g \in Programs :
    \/ \E call \in {"AddTorrent", "AddMagnet"} : AddBegins(g, call)
    \/ FetchesMetadata(g) \/ AddsSession(g) \/ StoresTorrent(g) \/ StartsTorrent(g)
    \/ RemoveBegins(g) \/ ClientStopBegins(g) \/ FlagsTorrent(g)
    \/ StopsSession(g) \/ SessionStopped(g) \/ Unlists(g) \/ Halts(g)

ClientSpec == ClientInit /\ [][ClientNext]_clientVars

-----------------------------------------------------------------------------
(* Properties *)

\* The type invariant.
ClientTypeOK ==
  LET Ids == 1 .. made IN
  /\ made \in Nat /\ torrents \in Ids \cup {NoSession} /\ sessions \in Ids \cup {NoSession}
  /\ running \subseteq Ids /\ flagged \subseteq Ids /\ doomed \subseteq Ids
  /\ stopping \subseteq Programs /\ engineRunning \in BOOLEAN
  /\ at \in [Programs -> {"idle", "fetching", "creating", "storing", "unlist", "halt"}
                           \cup DOMAIN Session \cup DOMAIN AfterSession]
  /\ held \in [Programs -> Ids \cup {NoSession}]
  /\ done \in [Programs -> Nat] /\ \A g \in Programs : done[g] <= Len(Program[g])

Quiet == \A g \in Programs : at[g] = "idle"

(* However calls overlap, when all have returned the client and its engine  *)
(* know the same session: no torrent without a session, no session that     *)
(* nobody can remove and that keeps its torrent from being added again.     *)
HandlesMatch == Quiet => torrents = sessions

(* A session that runs when RemoveTorrent, or a Client.Stop before the      *)
(* engine has stopped, finds it runs no more when all calls have returned,  *)
(* although each of the two flags that make Stop idempotent may turn a call *)
(* away, also one that was set before the session was started.              *)
StopsTakeEffect == Quiet => doomed \cap running = {}
=============================================================================
