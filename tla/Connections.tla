---------------------------- MODULE Connections ----------------------------
(***************************************************************************)
(* The connections of one session: the engine that accepts them, the       *)
(* tracker and DHT loops that dial, the tables of download and upload       *)
(* peers, the messages that goroutines write to a connection, uploads, and  *)
(* Stop, which waits for all of it.                                         *)
(*                                                                         *)
(* A connection that is dialled is named after the goroutine that dials    *)
(* it: connectToPeer and serveDownloadPeer are one life, Dials.            *)
(*                                                                         *)
(* Abstractions: a tracker or the DHT answers with any set of addresses    *)
(* (Trackers and Dht have the detail); what a worker downloads is in       *)
(* Download; a message is written in two steps, its first Write and the    *)
(* last of its three.                                                      *)
(***************************************************************************)
EXTENDS Naturals, FiniteSets

CONSTANTS
  Addrs,          \* addresses of peers
  Dials,          \* the connections the session dials
  Incoming,       \* the connections the engine accepts
  Scopes,         \* bound: which of them, and which calls of Stop, one behaviour has
  MaxPeers,       \* Config.MaxPeers
  TargetPeers,    \* targetPeers of the two loops
  MaxConcurrent,  \* maxConcurrent of announceToTracker
  None            \* Go's nil

ASSUME ConnectionsAssumption ==
  /\ IsFiniteSet(Dials) /\ None \notin Dials
  /\ MaxPeers \in Nat /\ TargetPeers \in Nat /\ MaxConcurrent \in Nat \ {0}

Stoppers == {"engine", "api"}        \* the callers of Session.Stop
Announcers == {"tracker", "dht"} \cup Stoppers

VARIABLES
  scope,        \* bound: the connections and the calls of Stop of this behaviour, each once
  \* engine
  engine,       \* "running", "stopping" (its context is done) or "stopped"
  known,        \* the session is in Engine.sessions
  crashed,      \* the process has panicked
  \* session
  session,      \* "new", "started", "stopping" (Session.ctx is done) or "stopped"
  coordinator,  \* Session.coordinator is not nil
  seeding,      \* the state is Seeding
  table,        \* downloadPeers
  uploads,      \* uploadPeers
  \* goroutines of the session
  loop,         \* trackerAnnounceLoop and dhtPeerDiscoveryLoop
  pc,           \* next step of Session.Stop for each of its callers
  todo,         \* addresses an announcer has still to dial
  dial,         \* connectToPeer and serveDownloadPeer
  addr,         \* the address of a connection
  slot,         \* the announcer whose activeChan a dial occupies
  now,          \* the connection a worker is in the middle of writing to
  \* connections of the engine
  handler,      \* handleIncomingConnection
  upload,       \* serveUploadPeer
  open,         \* the connection is not closed on this side
  interested,   \* peerInterested
  unchoked      \* ~choked

engineVars == <<engine, known, crashed, scope>>
sessionVars == <<session, coordinator, seeding>>
dialVars == <<dial, addr, slot, now>>
uploadVars == <<upload, open, interested, unchoked>>
vars == <<engineVars, sessionVars, table, uploads, loop, pc, todo, dialVars, handler, uploadVars>>

Init ==
  /\ scope \in Scopes
  /\ engine = "running" /\ known = TRUE /\ crashed = FALSE
  /\ session = "new" /\ coordinator = FALSE /\ seeding = FALSE
  /\ table = [a \in Addrs |-> None] /\ uploads = {}
  /\ loop = [l \in {"tracker", "dht"} |-> "off"]
  /\ pc = [k \in Stoppers |-> "idle"] /\ todo = [k \in Announcers |-> {}]
  /\ dial = [d \in Dials |-> "unused"] /\ addr = [d \in Dials |-> None]
  /\ slot = [d \in Dials |-> None] /\ now = [d \in Dials |-> None]
  /\ handler = [u \in Incoming |-> "none"] /\ upload = [u \in Incoming |-> "off"]
  /\ open = [u \in Incoming |-> FALSE]
  /\ interested = [u \in Incoming |-> FALSE] /\ unchoked = [u \in Incoming |-> FALSE]

Cancelled == session \in {"stopping", "stopped"}
Listed == {table[a] : a \in Addrs} \ {None}

-----------------------------------------------------------------------------
(* Session.Start: the maps, the loops, and a coordinator unless there is   *)
(* nothing to download.                                                    *)
Start(complete) ==
  /\ session = "new" /\ known
  /\ session' = "started" /\ coordinator' = ~complete /\ seeding' = complete
  /\ loop' = [tracker |-> "announcing", dht |-> "asleep"]
  /\ UNCHANGED <<engineVars, table, uploads, pc, todo, dialVars, handler, uploadVars>>

(* trackerAnnounceLoop: it announces at once, then while the download has   *)
(* too few peers; the context ends it between two announces.                *)
TrackerTick ==
  /\ loop["tracker"] = "ticking" /\ ~seeding
  /\ Cardinality(Listed) < TargetPeers
  /\ loop' = [loop EXCEPT !["tracker"] = "announcing"]
  /\ UNCHANGED <<engineVars, sessionVars, table, uploads, pc, todo, dialVars, handler, uploadVars>>

\* dhtPeerDiscoveryLoop: ten seconds of sleep that nothing interrupts, then ticks.
DhtWakes ==
  /\ loop["dht"] = "asleep" /\ loop' = [loop EXCEPT !["dht"] = "ticking"]
  /\ UNCHANGED <<engineVars, sessionVars, table, uploads, pc, todo, dialVars, handler, uploadVars>>

DhtTick ==
  /\ loop["dht"] = "ticking" /\ ~seeding
  /\ Cardinality(Listed) < TargetPeers
  /\ loop' = [loop EXCEPT !["dht"] = "announcing"]
  /\ UNCHANGED <<engineVars, sessionVars, table, uploads, pc, todo, dialVars, handler, uploadVars>>

\* Mutated: the loops look for the state that Stop sets when they have ended.
LoopEndsWhenStopped(l) ==
  /\ loop[l] = "ticking" /\ session = "stopped" /\ loop' = [loop EXCEPT ![l] = "off"]
  /\ UNCHANGED <<engineVars, sessionVars, table, uploads, pc, todo, dialVars, handler, uploadVars>>

LoopEnds(l) ==
  /\ loop[l] = "ticking" /\ Cancelled /\ loop' = [loop EXCEPT ![l] = "off"]
  /\ UNCHANGED <<engineVars, sessionVars, table, uploads, pc, todo, dialVars, handler, uploadVars>>

-----------------------------------------------------------------------------
(* announceToTracker, of the tracker loop or of Stop, and GetPeers of the  *)
(* DHT loop: an error is an answer without addresses.                      *)

In(k, step) == IF k \in Stoppers THEN pc[k] = step ELSE loop[k] = step
Move(k, step) ==
  IF k \in Stoppers THEN pc' = [pc EXCEPT ![k] = step] /\ UNCHANGED loop
                    ELSE loop' = [loop EXCEPT ![k] = step] /\ UNCHANGED pc
\* Mutated: an announce always belongs to a loop.
AfterInLoop(k) == "ticking"

After(k) == IF k \in Stoppers THEN "closing" ELSE "ticking"

\* The bound on the dials is reached.
NoDialLeft == \A d \in Dials \cap scope : dial[d] # "unused"

\* Every announce has an activeChan of its own.
Answered(k, addrs) ==
  /\ In(k, "announcing") /\ Move(k, "launching") /\ (NoDialLeft => addrs = {})
  /\ todo' = [todo EXCEPT ![k] = addrs]
  /\ slot' = [d \in Dials |-> IF slot[d] = k THEN None ELSE slot[d]]
  /\ UNCHANGED <<engineVars, sessionVars, table, uploads, dial, addr, now,
                 handler, uploadVars>>

FreeSlot(k) == k = "dht" \/ Cardinality({d \in Dials : slot[d] = k}) < MaxConcurrent

(* The select that acquires a slot may also see that the context is done,   *)
(* but need not; the DHT loop does not look.                                *)
Launches(k, d, a) ==
  /\ In(k, "launching") /\ d \in scope /\ a \in todo[k] /\ dial[d] = "unused" /\ FreeSlot(k)
  /\ dial' = [dial EXCEPT ![d] = "checking"] /\ addr' = [addr EXCEPT ![d] = a]
  /\ slot' = [slot EXCEPT ![d] = IF k = "dht" THEN None ELSE k]
  /\ todo' = [todo EXCEPT ![k] = @ \ {a}]
  /\ UNCHANGED <<engineVars, sessionVars, table, uploads, loop, pc, now,
                 handler, uploadVars>>

LaunchesEnd(k) ==
  /\ In(k, "launching") /\ Move(k, After(k))
  /\ \/ todo[k] = {}
     \/ Cancelled /\ k # "dht"
     \/ NoDialLeft
  /\ todo' = [todo EXCEPT ![k] = {}]
  /\ UNCHANGED <<engineVars, sessionVars, table, uploads, dialVars, handler, uploadVars>>

-----------------------------------------------------------------------------
(* connectToPeer *)

\* One look at the table, long before the connection is registered there.
Checks(d) ==
  /\ dial[d] = "checking"
  /\ IF table[addr[d]] # None \/ Cardinality(Listed) >= MaxPeers
       THEN /\ dial' = [dial EXCEPT ![d] = "gone"] /\ slot' = [slot EXCEPT ![d] = None]
       ELSE /\ dial' = [dial EXCEPT ![d] = "dialing"] /\ UNCHANGED slot
  /\ UNCHANGED <<engineVars, sessionVars, table, uploads, loop, pc, todo, addr, now,
                 handler, uploadVars>>

\* Connection and handshakes, which the context does not interrupt.
Dialed(d) ==
  /\ dial[d] = "dialing" /\ slot' = [slot EXCEPT ![d] = None]
  /\ \E ok \in BOOLEAN : dial' = [dial EXCEPT ![d] = IF ok THEN "registering" ELSE "gone"]
  /\ UNCHANGED <<engineVars, sessionVars, table, uploads, loop, pc, todo, addr, now,
                 handler, uploadVars>>

(* serveDownloadPeer: the entry in the table, RegisterPeer, and the first   *)
(* messages.  Without a coordinator it returns before its deferred function *)
(* is set up, and leaves the entry behind.                                  *)
Registers(d) ==
  /\ dial[d] = "registering" /\ table' = [table EXCEPT ![addr[d]] = d]
  /\ IF coordinator
       THEN dial' = [dial EXCEPT ![d] = "serving"] /\ now' = [now EXCEPT ![d] = d]
       ELSE dial' = [dial EXCEPT ![d] = "gone"] /\ UNCHANGED now
  /\ UNCHANGED <<engineVars, sessionVars, uploads, loop, pc, todo, addr, slot, handler, uploadVars>>

Between(d) == dial[d] = "serving" /\ now[d] = None

(* A block of the peer makes its worker write a request to it, a Cancel to  *)
(* one that was asked for the same block, or Have to all that               *)
(* broadcastHave finds in the table, one after the other.  WriteMessage is  *)
(* three Writes and takes no lock.                                          *)
WriteBegins(d, c) ==
  /\ Between(d) /\ c \in {d} \cup Listed /\ now' = [now EXCEPT ![d] = c]
  /\ UNCHANGED <<engineVars, sessionVars, table, uploads, loop, pc, todo, dial, addr, slot,
                 handler, uploadVars>>

WriteEnds(d) ==
  /\ now[d] # None /\ now' = [now EXCEPT ![d] = None]
  /\ UNCHANGED <<engineVars, sessionVars, table, uploads, loop, pc, todo, dial, addr, slot,
                 handler, uploadVars>>

\* The last block of the last piece.
Seeds(d) ==
  /\ Between(d) /\ ~seeding /\ seeding' = TRUE
  /\ UNCHANGED <<engineVars, session, coordinator, table, uploads, loop, pc, todo, dialVars,
                 handler, uploadVars>>

\* Mutated: the deferred function does not delete.
TableKept(d) == table

\* The deferred function deletes by address, whoever is registered there now.
TableWithout(d) == [table EXCEPT ![addr[d]] = None]

\* The peer has gone, is too slow or banned; or the context is done.
PeerLeaves(d) ==
  /\ Between(d) /\ dial' = [dial EXCEPT ![d] = "gone"] /\ table' = TableWithout(d)
  /\ UNCHANGED <<engineVars, sessionVars, uploads, loop, pc, todo, addr, slot, now, handler,
                 uploadVars>>

SeesCancel(d) == Cancelled /\ PeerLeaves(d)

-----------------------------------------------------------------------------
(* The engine's connections *)

Accept(u) ==
  /\ u \in scope /\ engine = "running" /\ handler[u] = "none"
  /\ handler' = [handler EXCEPT ![u] = "accepted"] /\ open' = [open EXCEPT ![u] = TRUE]
  /\ UNCHANGED <<engineVars, sessionVars, table, uploads, loop, pc, todo, dialVars, upload,
                 interested, unchoked>>

HandlerEnds(u) ==
  /\ handler' = [handler EXCEPT ![u] = "gone"] /\ open' = [open EXCEPT ![u] = FALSE]
  /\ UNCHANGED <<uploads, upload, crashed>>

\* The remote handshake, within ten seconds, and the look at Engine.sessions.
Finds(u) ==
  /\ handler[u] = "accepted"
  /\ \/ /\ known /\ handler' = [handler EXCEPT ![u] = "found"]
        /\ UNCHANGED <<open, uploads, upload, crashed>>
     \/ HandlerEnds(u)
  /\ UNCHANGED <<scope, engine, known, sessionVars, table, loop, pc, todo, dialVars, interested,
                 unchoked>>

(* HandleIncomingPeer: handshake and bitfield are written, or the write     *)
(* fails; then uploadPeers, which is nil before Start, and serveUploadPeer. *)
Hands(u) ==
  /\ handler[u] = "found"
  /\ \/ /\ session = "new" /\ crashed' = TRUE /\ UNCHANGED <<handler, uploads, upload, open>>
     \/ /\ session # "new" /\ handler' = [handler EXCEPT ![u] = "handed"]
        /\ uploads' = uploads \cup {u} /\ upload' = [upload EXCEPT ![u] = "reading"]
        /\ UNCHANGED <<crashed, open>>
     \/ HandlerEnds(u)
  /\ UNCHANGED <<scope, engine, known, sessionVars, table, loop, pc, todo, dialVars, interested,
                 unchoked>>

\* handleIncomingConnection returns, and its deferred Close closes the connection.
HandlerReturns(u) ==
  /\ handler[u] = "handed" /\ HandlerEnds(u)
  /\ UNCHANGED <<scope, engine, known, sessionVars, table, loop, pc, todo, dialVars, interested,
                 unchoked>>

(* serveUploadPeer: a message of the remote peer.  A request is served if   *)
(* the peer is unchoked and interested and Stop has not closed the storage. *)
StorageClosed == session = "stopped" \/ \E k \in Stoppers : pc[k] = "waiting"

UploadReads(u, said) ==
  /\ upload[u] = "reading" /\ open[u]
  /\ interested' = [interested EXCEPT ![u] = IF said = "request" THEN @ ELSE said = "interested"]
  /\ upload' = [upload EXCEPT
       ![u] = IF \/ said = "interested" /\ ~unchoked[u]
                 \/ said = "request" /\ unchoked[u] /\ interested[u] /\ ~StorageClosed
                THEN "writing" ELSE @]
  /\ unchoked' = [unchoked EXCEPT ![u] = @ \/ said = "interested"]
  /\ UNCHANGED <<engineVars, sessionVars, table, uploads, loop, pc, todo, dialVars, handler, open>>

\* Unchoke or Piece.
UploadWrites(u) ==
  /\ upload[u] = "writing" /\ open[u] /\ upload' = [upload EXCEPT ![u] = "reading"]
  /\ UNCHANGED <<engineVars, sessionVars, table, uploads, loop, pc, todo, dialVars, handler,
                 open, interested, unchoked>>

\* Mutated: without the deferred delete.
UploadEndsListed(u) ==
  /\ upload[u] \in {"reading", "writing"} /\ upload' = [upload EXCEPT ![u] = "gone"]
  /\ open' = [open EXCEPT ![u] = FALSE]
  /\ UNCHANGED <<engineVars, sessionVars, table, uploads, loop, pc, todo, dialVars, handler,
                 interested, unchoked>>

\* An error: the peer has gone or is silent for a minute, or this side has closed.
UploadEnds(u) ==
  /\ upload[u] \in {"reading", "writing"}
  /\ uploads' = uploads \ {u} /\ upload' = [upload EXCEPT ![u] = "gone"]
  /\ open' = [open EXCEPT ![u] = FALSE]
  /\ UNCHANGED <<engineVars, sessionVars, table, loop, pc, todo, dialVars, handler, interested,
                 unchoked>>

UploadStops(u) == (Cancelled \/ ~open[u]) /\ UploadEnds(u)

-----------------------------------------------------------------------------
(* Session.Stop, called by Engine.Stop and by the API *)

EngineStops ==
  /\ "engine" \in scope /\ engine = "running" /\ engine' = "stopping"
  /\ pc' = [pc EXCEPT !["engine"] = IF known THEN "called" ELSE "returned"]
  /\ UNCHANGED <<scope, known, crashed, sessionVars, table, uploads, loop, todo, dialVars, handler,
                 uploadVars>>

ApiStops ==
  /\ "api" \in scope /\ pc["api"] = "idle" /\ pc' = [pc EXCEPT !["api"] = "called"]
  /\ UNCHANGED <<engineVars, sessionVars, table, uploads, loop, todo, dialVars, handler,
                 uploadVars>>

\* Only the first caller does the work; the others return at once.
StopBegins(k) ==
  /\ pc[k] = "called"
  /\ IF session = "started"
       THEN session' = "stopping" /\ pc' = [pc EXCEPT ![k] = "announcing"]
       ELSE UNCHANGED session /\ pc' = [pc EXCEPT ![k] = "returned"]
  /\ UNCHANGED <<engineVars, coordinator, seeding, table, uploads, loop, todo, dialVars,
                 handler, uploadVars>>

\* Mutated: the table of download peers is emptied as well.
ClosesAll(k) ==
  /\ pc[k] = "closing" /\ pc' = [pc EXCEPT ![k] = "waiting"]
  /\ open' = [u \in Incoming |-> open[u] /\ u \notin uploads] /\ uploads' = {}
  /\ table' = [a \in Addrs |-> None]
  /\ UNCHANGED <<engineVars, sessionVars, loop, todo, dialVars, handler, upload, interested,
                 unchoked>>

ClosesUploads(k) ==
  /\ pc[k] = "closing" /\ pc' = [pc EXCEPT ![k] = "waiting"]
  /\ open' = [u \in Incoming |-> open[u] /\ u \notin uploads] /\ uploads' = {}
  /\ UNCHANGED <<engineVars, sessionVars, table, loop, todo, dialVars, handler, upload, interested,
                 unchoked>>

\* Mutated: no wg.Add for serveDownloadPeer.
DialGoneEarly(d) == dial[d] \in {"unused", "registering", "serving", "gone"}

DialGone(d) == dial[d] \in {"unused", "gone"}

\* Session.wg is at zero.
AllDone ==
  /\ \A l \in {"tracker", "dht"} : loop[l] = "off"
  /\ \A d \in Dials : DialGone(d)
  /\ \A u \in Incoming : upload[u] \in {"off", "gone"}

StopEnds(k) ==
  /\ pc[k] = "waiting" /\ AllDone
  /\ session' = "stopped" /\ pc' = [pc EXCEPT ![k] = "returned"]
  /\ UNCHANGED <<engineVars, coordinator, seeding, table, uploads, loop, todo, dialVars,
                 handler, uploadVars>>

\* RemoveTorrent: after Torrent.Stop, RemoveSession.
Remove ==
  /\ pc["api"] = "returned" /\ known /\ known' = FALSE
  /\ UNCHANGED <<scope, engine, crashed, sessionVars, table, uploads, loop, pc, todo, dialVars,
                 handler, uploadVars>>

\* Engine.wg is at zero: the accept loop and every handler have returned.
EngineEnds ==
  /\ engine = "stopping" /\ pc["engine"] = "returned"
  /\ \A u \in Incoming : handler[u] \in {"none", "gone"}
  /\ engine' = "stopped"
  /\ UNCHANGED <<scope, known, crashed, sessionVars, table, uploads, loop, pc, todo, dialVars,
                 handler, uploadVars>>

-----------------------------------------------------------------------------
Answers(k) == \E addrs \in SUBSET Addrs : Answered(k, addrs)
Launch(k) == \E d \in Dials, a \in Addrs : Launches(k, d, a)

LoopStep(l) == Answers(l) \/ Launch(l) \/ LaunchesEnd(l)
StopStep(k) ==
  Answers(k) \/ Launch(k) \/ LaunchesEnd(k) \/ StopBegins(k) \/ ClosesUploads(k) \/ StopEnds(k)
DialStep(d) ==
  Checks(d) \/ Dialed(d) \/ Registers(d) \/ WriteEnds(d)
HandlerStep(u) == Finds(u) \/ Hands(u) \/ HandlerReturns(u)

Next ==
  /\ ~crashed
  /\ \/ \E complete \in BOOLEAN : Start(complete)
     \/ TrackerTick \/ DhtWakes \/ DhtTick
     \/ \E l \in {"tracker", "dht"} : LoopStep(l) \/ LoopEnds(l)
     \/ \E d \in Dials : DialStep(d) \/ Seeds(d) \/ PeerLeaves(d)
     \/ \E d, c \in Dials : WriteBegins(d, c)
     \/ \E u \in Incoming : Accept(u) \/ HandlerStep(u) \/ UploadWrites(u) \/ UploadEnds(u)
     \/ \E u \in Incoming, said \in {"interested", "not interested", "request"} : UploadReads(u, said)
     \/ EngineStops \/ ApiStops \/ Remove \/ EngineEnds
     \/ \E k \in Stoppers : StopStep(k)

Spec == Init /\ [][Next]_vars

(* Goroutines that can run do: a dial and the handshakes have timeouts, an  *)
(* answer of a tracker or of the DHT too, a read of a worker has a deadline *)
(* of a minute, and a loop whose context is done does not lose a select for *)
(* ever.  A write has no deadline: the remote peers are assumed to read.    *)
Fairness ==
  /\ WF_vars(~crashed /\ DhtWakes) /\ WF_vars(~crashed /\ EngineEnds)
  /\ \A l \in {"tracker", "dht"} : WF_vars(~crashed /\ LoopStep(l)) /\ SF_vars(~crashed /\ LoopEnds(l))
  /\ \A k \in Stoppers : WF_vars(~crashed /\ StopStep(k))
  /\ \A d \in Dials : WF_vars(~crashed /\ DialStep(d)) /\ SF_vars(~crashed /\ SeesCancel(d))
  /\ \A u \in Incoming :
       WF_vars(~crashed /\ HandlerStep(u)) /\ SF_vars(~crashed /\ UploadStops(u))

FairSpec == Spec /\ Fairness

-----------------------------------------------------------------------------
(* Properties *)

\* The type invariant.
TypeOK ==
  /\ scope \in Scopes
  /\ engine \in {"running", "stopping", "stopped"} /\ known \in BOOLEAN /\ crashed \in BOOLEAN
  /\ session \in {"new", "started", "stopping", "stopped"}
  /\ coordinator \in BOOLEAN /\ seeding \in BOOLEAN
  /\ table \in [Addrs -> Dials \cup {None}] /\ uploads \subseteq Incoming
  /\ loop \in [{"tracker", "dht"} -> {"off", "asleep", "announcing", "launching", "ticking"}]
  /\ loop["tracker"] # "asleep"
  /\ pc \in [Stoppers -> {"idle", "called", "announcing", "launching", "closing", "waiting",
                          "returned"}]
  /\ todo \in [Announcers -> SUBSET Addrs]
  /\ dial \in [Dials -> {"unused", "checking", "dialing", "registering", "serving", "gone"}]
  /\ addr \in [Dials -> Addrs \cup {None}] /\ slot \in [Dials -> Announcers \cup {None}]
  /\ now \in [Dials -> Dials \cup {None}]
  /\ handler \in [Incoming -> {"none", "accepted", "found", "handed", "gone"}]
  /\ upload \in [Incoming -> {"off", "reading", "writing", "gone"}]
  /\ open \in [Incoming -> BOOLEAN]
  /\ interested \in [Incoming -> BOOLEAN] /\ unchoked \in [Incoming -> BOOLEAN]

(* While there is a coordinator, an address in the table of download peers  *)
(* has a live worker: no entry outlives its connection, which would block   *)
(* the address and count against MaxPeers for the rest of the session.      *)
ListedIsServed ==
  coordinator => \A a \in Addrs : table[a] # None => dial[table[a]] = "serving"

(* A worker that is missing from the table, so that it gets no Have and no  *)
(* cancel and is not counted, shares or has shared its address with another *)
(* connection: both looked at the table before either was registered.       *)
ServedIsListed ==
  \A d \in Dials :
    dial[d] = "serving" /\ table[addr[d]] # d
      => \E e \in Dials \ {d} : addr[e] = addr[d] /\ dial[e] \in {"serving", "gone"}

(* Once Stop has returned nothing of the downloads runs, not even what the  *)
(* announce of Stop itself has dialled, and the table is empty.             *)
NothingAfterStop ==
  session = "stopped" =>
    /\ \A d \in Dials : DialGone(d)
    /\ coordinator => Listed = {}
    /\ loop["tracker"] = "off" /\ loop["dht"] = "off"

(* A connection in the table of upload peers has a worker that will take it *)
(* out again, also when Stop has emptied the table in between.              *)
UploadIsServed == \A u \in uploads : upload[u] \in {"reading", "writing"}

(* No Stop of the session or of the engine is under way for ever, whatever  *)
(* is being dialled, announced, uploaded or accepted when it is called.     *)
StopsReturn ==
  []<>(crashed \/ (engine # "stopping" /\ \A k \in Stoppers : pc[k] \in {"idle", "returned"}))

(* docs/ARCHITECTURE.md, Upload Flow: a peer that connects to the listener  *)
(* is sent the bitfield, and then its requests are read and served.  So     *)
(* this side does not close the connection while the session runs and the   *)
(* worker goes on reading from it.                                          *)
UploadIsOpen ==
  \A u \in Incoming : upload[u] = "reading" /\ session = "started" => open[u]

(* The comment of WriteMessage (peer.go:155): it writes one message, its    *)
(* length, its ID and its payload.  So no worker writes to a connection     *)
(* while another is in the middle of a message there.                       *)
MessagesWhole ==
  \A d, e \in Dials : d # e /\ now[d] # None => now[d] # now[e]
=============================================================================
