# A TLA+ development of revtorrent

revtorrent is a BitTorrent client in Go. This directory holds TLA+ modules that
model its core, the configurations that model-check them with TLC, and theorems
about them that TLAPS checks. Paths are those of the repository (`src/...` is its
root here).

## The system

| component | state it keeps | operations | talks to |
|---|---|---|---|
| download coordinator (`internal/core/downloader/coordinator.go`) | `pieceStates`, `pieceAssignedTime`, `pieceAvailability`, `peers`, `endgameActive` | one goroutine: assign a piece, piece complete, piece failed, peer joins or leaves, reset of stalled pieces | workers, through five channels of ten |
| piece manager (`internal/core/piece/manager.go`) | `pieces` (in progress), the blocks and buffer of each `PieceDownload` | `StartPiece`, `CompletePiece`, `FailPiece`, `WriteBlock`, `NextBlock` | workers (calls under `Manager.mu`, `PieceDownload.mu`), the storage |
| request queue, peer state (`request_queue.go`, `peer_state.go`) | requests in flight, current piece, rate, hash failures | `FillPipeline`, `CompleteBlock`, `CheckTimeouts`, ban, too-slow | its worker only |
| session (`internal/engine/session.go`) | `state`, the peer tables, `coordinator`, the event channel | `Start`, `Stop`, `Pause`, `Resume`; goroutines: one worker per download peer, one per upload peer, progress monitor, tracker loop, DHT loop | everything |
| storage and bitfield (`internal/core/storage`) | files, bitfield | read, write, verify, clear a piece | manager, selectors, uploads |
| resume data (`storage/resume.go`) | one JSON file per torrent | save, load, apply and re-verify | `Session.Start`, `Stop`, `Pause` |
| selectors, endgame tracker (`selector.go`, `endgame.go`) | availability; who asked for which block | choose a piece; whom to send a cancel | coordinator; workers |
| engine, metadata fetch (`engine.go`, `metadata.go`) | sessions by info hash; a pool of fetchers | accept, add and remove sessions; fetch a magnet's metadata | sessions, trackers, DHT |
| tracker manager and protocols (`internal/tracker`) | trackers and their active flags, UDP connection ids | announce to all in parallel, scrape | session |
| DHT (`internal/dht`) | transactions, routing table | queries with timeouts, maintenance, bootstrap | session |
| uploader, shutdown, controller, rate limiter (`internal/core/...`) | unchoke sets, handlers, a second torrent state machine, token buckets | | nothing: no package of the program imports them |
| client API (`pkg/bittorrent`) | torrents, forwarded events | add, remove, start, stop, wait for completion | engine, sessions |
| download command (`cmd/revtorrent/cmd/download.go`) | the main loop, a signal and a keyboard goroutine | pause, resume, quit, seed to a ratio | client API |

What is hardest here is the download path. A piece is the concern of four parties
that share no lock: the coordinator says who works on it, the manager holds its
blocks, the storage holds its bytes and its bit, and each worker holds a current
piece and a queue. They change at different times, by messages that can be late,
and any of them can be undone by a timer, a disconnection, a corrupt block or a
disk error in between. Around it, the hard questions are those of ending and of
tables: a session is stopped from several places while its goroutines dial,
announce, save and emit; a table is looked at under one lock and changed later under
the same or another; and what was saved may be older than what is on disk. `PROJECT.json`
lists the hazards at their lines.

What makes each component correct:

* download path: a bit means verified data; a piece is worked on by one peer at a
  time outside endgame; data that is held is never overwritten or dropped; a
  failed piece is tried again, so that downloads end; no worker is stuck in a
  handler; a peer is blamed only for bad data.
* session: stopping ends every goroutine, and nothing sends on a channel it has closed;
  a complete download is announced and seeds.
* saving: after a crash, what the session says it holds is right on disk, and no
  more is lost than what was completed since the last save.
* peer tables: an entry has a worker and a worker an entry; nobody dials after Stop.
* trackers, DHT: an answer goes to the request it answers; a transaction ends once;
  a bucket keeps its bound; every call returns.
* magnet fetch: it gives up only when nothing more could come, and leaves no goroutine.
* client: the two tables agree when no call is under way; a stop is not lost.
* command: it ends when asked to, with the resume data saved.

## Modules

| module | what it is |
|---|---|
| `Download` | the download path: workers, coordinator, manager, storage, session state |
| `PieceLease` | abstract specification: each piece belongs to nobody, to one peer or to the bitfield |
| `Lifecycle` | one session over starts, pauses, stops, verifications, crashes and restarts; the bytes of its files and the resume file |
| `Connections` | the engine's accept loop, the loops that dial, the tables of peers, messages, uploads, and `Stop` |
| `Trackers` | `Manager.Announce` and the UDP and HTTP clients |
| `Dht` | the DHT node: bootstrap, lookups, transactions, maintenance, routing table, stop |
| `Metadata` | `AddMagnet`: finding peers, trying them in parallel, the chunks of the metadata |
| `Client` | the two tables of torrents and the calls that change both |
| `Command` | the download command from the start of the torrent to the end of the process |
| `MCDownload`, `MCLifecycle`, `MCConnections`, `MCServices` | instances for TLC |
| `DownloadProofs`, `LeaseProofs` | the inductive invariant of `Download` and its theorems, and the refinement of `PieceLease` |
| `LifecycleProofs`, `ConnectionsProofs`, `TrackersProofs`, `DhtProofs` | the theorems about those modules |
| `ServiceProofs` | the theorems about `Metadata`, `Command` and `Client`, and about the five components of `MCServices` together |
| `Induction` | induction over sets of numbers, and the existence of what a recursive definition stands for |

The modules meet where one names what another guarantees: `Command` and `Connections` take
from `Lifecycle` what a session emits and how its Stop ends; `Metadata` takes from `Trackers` and `Dht`
that a source answers (`AnnounceReturns`, `LookupsEnd`); `Connections` lets an announce return any
set of addresses. The state of a whole client would be the product of all of them, which is
why they are composed along these assumptions and not as one state machine.

### How Download corresponds to the code

A worker is `serveDownloadPeer`. `pc[p]` names the next access it makes to something
shared; between two accesses it touches its own variables only, so these
steps are where interleavings can differ. One label is one access:

| label | the code's next access |
|---|---|
| `loop` | head of the loop: a message, the ticker, or a read error |
| `request`, `start`, `startfail` | `startDownloading`: `RequestPiece`, `StartPiece` under `Manager.mu`, `FailPiece` on its error |
| `fill` | `FillPipeline`: one `NextBlock` per step |
| `write`, `check` | `handleReceivedBlock`: `WriteBlock` and `CompleteBlock`, then `IsComplete` |
| `complete`, `verify` | `Manager.CompletePiece`: `WritePiece`, then `VerifyPiece`, with `Manager.mu` held (`mgrLock`) |
| `notify`, `finish` | `completePiece` on success: `NotifyPieceComplete`, then the check for the whole torrent |
| `reject` | `completePiece` on an error: hash failure, `FailPiece`, ban |
| `abandon` | the error branch of the Piece message |
| `timeout`, `drop` | the timeout branch of the ticker: coordinator first, manager second |
| `leave` | the deferred function |

`mgr[i]` is the object in `Manager.pieces`, `pd[d]` its blocks: an object lives on
while a queue or a handler refers to it, after the manager has forgotten it. The
identities `PdIds` are reused when nobody refers to them, as a garbage collector does.
`bits` and `disk` are the bitfield and the bytes: a piece is `good` or `bad`,
where a block that never came (zeros in the buffer) makes it bad. The window between
`Complete` and `Verify`, in which the bit is set and the hash not yet checked, is there as in
the code. `HandlePieceRequest` is the coordinator's answer and the worker's receipt of
it; the other two channels are bounded sequences. `MonitorLook` and `MonitorCheck`
are the two reads of `progressMonitor`. `Pause` and `Resume` also save resume data, which
is in `Lifecycle`.

Details that are easy to overlook and are modelled: `StartPiece` hands out the object in
progress with the blocks that were requested before still marked so; `CompletePiece` uses the manager's
object, `WriteBlock` the one looked up; `CompleteBlock` goes by offset on whatever queue the
worker has now; a Cancel message removes one of *our* requests; a keep-alive is
returned as message 0 and taken for a Choke; the ticker is looked at only between two messages.

Abstractions: no clocks (a timer may fire whenever the thing it watches is
there, so every order of timers and answers is covered); `NextBlock` takes any free
block rather than the first; the preference among candidate pieces is left open
(so availability counts play no part); a failed send of a request is a request
that is never answered; `WriteBlock` racing with the write of the buffer to disk
is covered by the outcome good or bad; the deferred function's table updates,
several connections to one address and `Stop` are in `Connections`; blocks nobody asked for
are left out.
Initially the bitfield is what `Session.Start` restored, `Resumed`, over
verified data: `ApplyResumeData` hashes the pieces of the saved list.

Bounds, all in guards and all named: `Budget` bounds each kind of
environment event (corrupt block, refused block, timeout, stall, disconnection, choke, cancel,
pause, disk fault); `MaxCopies` the copies of a request a peer may answer;
`PdIds` the objects alive at a time; `ChanCap`, `MaxPipeline`, `BanAt` and `EndgamePercent` are the
code's constants (10, 20, 3, 70), smaller in the runs so that limits are met.

### How the other modules correspond to the code

`Lifecycle` (`session.go`, `storage.go`, `bitfield.go`, `resume.go`). `pc[c]` is the next shared access
of a goroutine that is in `Start`, `Pause`, `Resume`, `Stop` or `VerifyData`; `mu` is `Session.mu`, which `Pause`, `Resume` and
`Start` keep over their saves and checks while `Stop` lets it go first. `disk` and `resume` survive `Crash`;
everything else is lost. A file is a function from offsets to *never written*, *right* or *wrong*, and
`FileMapping` is `calculateFileMapping` (`MapFile` one round of its loop, `Offset` the files' ends added up), so that pieces which share a file, empty files and a short last piece
are there as in the code. A save is `CreateResumeData`'s two reads of the bitfield (`listed`, then
`bytes`), the truncation of the file and the write, with a crash possible between any two of them. `CrashWriting` is
a crash in the middle of `WritePiece`, after some of its files. `wpc` is a
worker reduced to fetch, write, verify, finish; what else becomes of a piece is that its worker `Loses` it (the peer
leaves, a block is refused, the files are closed) or that a request times out: `GivesUp` is the message to the
coordinator, `Drops` is `Manager.FailPiece`, which clears the bit also when another worker has completed the piece
in between (finding 2). The coordinator gives any missing piece to any worker, so that two may have one piece.
`CompleteTold` is `sendEvent`, which drops the event when the channel is full. Nothing keeps a `Start` out while a `Stop`
waits: `StartLoads` is enabled then, and sets `reentered`. The context is done and stays so, the workers of before go on beside a
new Manager, and when the channel is closed the end of the Start, of a Pause or Resume after it, or of a second Stop
panics (`StartPanics`, `Panics`). The history variables `loaded`, `missed`, `reentered` and `told` serve the properties; of what a
session that was started during a Stop does to its files nothing is claimed (`OneGeneration`).

`Connections` (`engine.go`, `session.go`, `peer.go`). A dial and the worker it becomes are one goroutine, as in
`connectToPeer`: `checking` (the look at the table), `dialing`, `registering` (the entry in the table), `serving`,
`gone`. `todo` and `slot` are the loop of `announceToTracker` over the peers with its semaphore. `handler` and
`upload` are `handleIncomingConnection` with its deferred `Close`, and `serveUploadPeer`. `now[d]` is the
connection to which a worker has written the first part of a message and not the last. A `Stop` announces
"stopped" itself and connects to what it is answered; then it closes tables and waits. `crashed` is the write to a nil map of
a session that was added and not yet started.

`Trackers` (`manager.go`, `udp.go`, `http.go`). `request[c][t]` is the goroutine of call `c` and tracker `t`, `wire` and
`inbox` the network and the receive buffer of the shared socket. An answer may come at any time, also after the
deadline, and stays in the buffer for the next read. A tracker is an entry of the manager's list, and `FirstEntry` says
which entries have the same URL: `NewSession` puts the announce URL before the announce-list that often repeats it, and
`NewManager` keeps both. `MarkTrackerStatus` sets the flag of the first entry only, so that the second is asked at every announce
and its success revives the first. The HTTP client's timeout is `15`, without a
unit, which are nanoseconds, so an HTTP announce always fails; `HttpFails` is its only outcome.

`Dht` (`node.go`, `rpc.go`, `routing.go`, `bootstrap.go`). A transaction is the entry of the map, its channel a
buffer of one, `airborne` what the network still has. Maintenance closes the channel of an old transaction;
`panicked` is the send on it afterwards. Buckets are sequences of at most `K` nodes, chosen by the XOR distance
over `Bits` bits; a stale node is replaced. An ID is the set of its bits that are one, so that XOR is the
symmetric difference and the order of distances, `Less`, is decided by the highest bit in which two sets differ, as in
`Compare`. `FindClosest` is the set of what the sort of the nodes and the cut at `K` may give, which is proved to be one sequence.
The nodes of an answer are put into the table one by one (`Adds`), with the other users and the message loop in between.

`Metadata` (`metadata.go`, `extension.go`, `client.go`). The collector is `AddMagnet`'s goroutine, the launcher starts
workers under a semaphore, a worker goes through the phases of `fetchMetadataFromPeer`; two contexts end
it. A peer may claim another size or send wrong chunks; the hash is looked at only afterwards.

`Client` (`client.go`, `torrent.go`, `engine.go`). `at[g]` is where in a call a goroutine is; the locks of the two tables are held for
one step each. `flagged` and `running` are the two flags of `Torrent.Stop` and `Session.Stop`; `doomed` is the
history of what a stopping call found running.

`Command` (`download.go`, `torrent.go`, `session.go`). `step[k]` is where `main` and the signal goroutine are in their stops, `caller` who
asked; the session's event channel, the forwarder and the API's channel are bounded sequences. The process ends when `main`
returns, whatever the others are doing.

## Runs

| run | instance | shows |
|---|---|---|
| `download_timers` | 2 peers, 1 piece of 2 blocks; one corrupt block, one timeout, one stall reset | types; a bit outlives the verification only over verified data (`HeldIsVerified`); no piece is both held and in progress (`InProgressNotHeld`); held bytes are not rewritten (`HeldNotOverwritten`) |
| `download_leases` | 2 peers, 2 pieces; one corrupt block, one refused block, one disconnection, one pause | `Download` implements `PieceLease` (`ImplementsLease`); what the coordinator counts as complete is held (`CompleteIsHeld`) |
| `download_completes` | 2 peers that answer, 1 piece of 2 blocks, one corrupt block, channels of one | the download ends in Seeding with every piece verified, but for finding 3 (`Completes`); no peer is blamed without bad data (`StrikeNeedsBadData`) |
| `download_handlers` | 2 peers, channels of one; corrupt data, disk fault, disconnection, choke, cancel | no handler waits for ever (`HandlersEnd`) |
| `download_orphaned` | as `download_completes`, one disconnection, no corruption | **violated**: see finding 1 |
| `download_late_answers` | two timeouts | **violated**: see finding 2 |
| `download_early_seeding` | one corrupt block | **violated**: see finding 3 |
| `lifecycle` | files of 1, 0 and 2 bytes, pieces of 2; one event among crash, lost file, failed save, wrong data, full event channel, timeout and VerifyData; four scenarios (see below) | what is held is right (`HeldIsRight`) and not spoilt (`HeldStays`); a crash loses what was completed since the last save at most (`OnlyMissedIsLost`); nothing sends on the closed channel (`QuietWhenClosed`); `Stop` returns, completion is announced (`StopReturns`, `SeedingSettles`) |
| `connections` | one address, and either two dials with one Stop, or one dial or one accepted connection with the Stops of both the API and the engine; `MaxPeers` 2, one dial at a time | the table and its workers match (`ListedIsServed`, `ServedIsListed`, `UploadIsServed`); after `Stop` nothing runs (`NothingAfterStop`), and it returns (`StopsReturn`) |
| `connections_uploads` | the same | **violated**: see finding 4 |
| `connections_frames` | the same | **violated**: see finding 5 |
| `services` | the five modules below, one in each behaviour | |
| ... `Trackers` | a UDP tracker and an HTTP tracker that is listed twice, two calls that overlap | the answer is to our request (`AnswerIsOurs`); off is off for a tracker listed once (`OffForGood`); calls return (`AnnounceReturns`) |
| ... `Dht` | IDs of 2 bits, three other nodes, buckets of 1, answers that name two nodes or one node and a peer; bootstrap and two users; one event, a query of another node or a node that becomes stale | transactions match queries (`TransactionsAwaited`); buckets keep their bound (`BucketsSound`); lookups end (`LookupsEnd`) |
| ... `Metadata` | two sources with up to 1 and 2 peers, 2 attempts, one worker at a time, 2 chunks, one wrong size | gives up for a reason (`GivesUpForAReason`), ends with all goroutines (`FetchEnds`) |
| ... `Client` | three goroutines: one adds and starts, one removes, adds and starts, one stops or removes twice | the tables agree (`HandlesMatch`); stops take effect (`StopsTakeEffect`) |
| ... `Command` | channels of 1, one signal, two keys (none without `--seed`, where the first completion ends the command) | saved on quit (`SavedOnQuit`); it ends (`QuitEnds`) |

Two peers are enough for these questions: all interference on a piece is
between one worker and another, or a worker and the coordinator, and the
theorems below remove the bound for the safety properties. One piece of two blocks gives partly
downloaded pieces; two pieces are needed only for leases and for pauses before the end.
Endgame is reached in the one-piece instances only when the piece is complete;
with `Resumed` empty and two pieces it is not reached before the end, which is the
condition of `ImplementsLease` (in endgame the lease is shared on purpose).
The safety runs use symmetry under permutations of peers, blocks, objects and missing
pieces, and a view that ignores the contents of unreferenced objects; the runs with
liveness use neither.

`lifecycle` (327,209 distinct states): each behaviour keeps to one of four scenarios, which `MCLifecycle` defines as
bounds on the calls and on the second worker. `PlainCalls`: all methods but VerifyData, and the events.
`VerifyMeanwhile`: a VerifyData while the session is started, runs and is stopped. `StartMeanwhile`: a Start while a Stop
waits, and any call after it. `TwoWorkers`: two workers and a request that times out, so that one drops what the other
completes. In the first three the second worker is idle. One worker and one event are enough there for every
window of the code, since a save, a
crash and a completion are three actors already, and the theorems lift the bounds for safety. The
files spread piece 0 over the first and the last, with the empty one between, and piece 1 shares the last file and is short. `connections`: two dials are needed for a
duplicate connection, two callers for the Stops; all at once would be too many states, so that
`Scopes` gives each behaviour its share. `services` has five components that share no variable: `part`
says which one a behaviour exercises, and the fairness of the others is then vacuous, as nothing of theirs
is enabled in their initial states. In `Trackers` the bound `DuplicateFirst` lets the request to the second entry of a
URL end before the others, which loses nothing that its properties look at: an HTTP request has one outcome. One run for five keeps their reports together; each could be run alone.
In `Dht` with 2 bits there are two buckets, one of which has two candidates for its one place.

Deadlock checking is on in the runs of `Download`, where a stuck system would be a fault. It is off in the
others: their calls, dials and keys are finite in number, and a session that has been stopped does stop.

Fairness. `ProgressSpec` assumes of the Go runtime that a goroutine that can run does,
that `select` eventually takes a ready case, and that a mutex and a channel eventually
admit every waiter (strong fairness of workers: Go's mutex has a starvation mode and
channels queue their waiters in order). `FairSpec`, used for `Completes` only, adds a remote side that
connects, announces, unchokes once and answers every request, and sends often enough for
the ticker to be looked at. `Completes` then has one escape, `EarlySeeding`: Seeding was set while the last piece was
being verified. If the hash then fails, the idle retry is off, and the peer may have been told that there is
nothing for it before the failure reached the coordinator; only another Unchoke would help, which a peer that has
unchoked has no reason to send. TLC finds that behaviour when the escape is taken out. No fairness is put on corruption, timers,
disconnections or faults.

In the other modules fairness is on the steps of the program's own goroutines, and on the timeouts they wait for:
the deadline of a read, the timeout of a dial, the five seconds of a DHT query, the two minutes of a magnet
fetch. It is strong where a `select` with a closed `Done` channel competes with a ticker or with
data (`LoopEnds`, `SeesCancel`, `UploadStops`, `Leaves`, `MonitorEnds`, `ForwarderEnds`): Go picks among ready cases at random,
so that none loses for ever. Nothing is assumed of trackers, DHT nodes or peers of a magnet link, with one
exception: in `Connections` a write to a peer ends, as `WriteMessage` has no deadline and a peer that does not
read blocks the writer for good; `StopsReturn` is to be read with that assumption. API calls and
keys come at will, with no fairness.

Findings, each with the run that shows it:

1. `download_orphaned`. A worker that leaves (`session.go:1457`) reports its piece to the
   coordinator but leaves the `PieceDownload` in the manager, with the blocks it had asked for
   marked `Requested`. The next worker gets the same object, `NextBlock` finds nothing, no request
   is sent, so none can time out: the piece never completes. The stall reset gives the piece
   to somebody else with the same object, so it does not help. The README promises
   "Automatic piece retry on failure".
2. `download_late_answers`. Two workers can hold one piece after a timeout. When one completes
   and verifies it, the late timeout of the other calls `Manager.FailPiece`, which clears the bit
   "in case piece was prematurely marked complete" (`manager.go:145`), and the piece is fetched again.
   By `VerifiedPiecesKept` this needs a timeout.
3. `download_early_seeding`. The bit is set before the hash is checked, and the progress monitor
   takes a full bitfield for completion: the session seeds, and if the hash then fails it stays in Seeding with a
   piece missing (the idle retry runs in Downloading only). `Completes` has this end as its exception.
4. `connections_uploads`. `handleIncomingConnection` (`engine.go:247`) defers the close of the connection and
   returns when `HandleIncomingPeer` has started the goroutine that serves it: the peer's connection is
   closed under the worker. The upload flow of `docs/ARCHITECTURE.md` ("4. Receive INTERESTED message",
   "6. Receive REQUEST message") never takes place.
5. `connections_frames`. `WriteMessage` (`peer.go:157`) writes length, ID and payload one by one and takes no
   lock, while the workers of other peers write Have and Cancel messages to the same connection. Two messages may be
   mixed.

Also seen: a session that is found by a peer between `AddSession` and `Start` writes to a map that is not made
(`Connections`, `crashed`); a `Start` after `Stop` emits on a closed channel and a `VerifyData` before `Start` uses files that are not open
(`Lifecycle`, `StartPanics`, `VerifyPanics`); a `Start` while a `Stop` waits is let in, revives a session whose context is
done, and may panic when the channel is closed (`Panics`), although `docs/API.md` (588) calls all methods safe to
call concurrently;
a tracker that is listed twice is announced to after it was switched off (`Trackers`, `DuplicatesStayOn`);
a DHT response that comes while maintenance closes its channel panics (`Dht`, `panicked`); pieces whose bit was set
between the two reads of `CreateResumeData` are restored without being verified (the exception in `HeldIsRight`);
the HTTP timeout of 15 nanoseconds. Nothing in the repository speaks of these orders of events, beyond that general line of
`docs/API.md`, so they are steps of the models and not violation runs. And `endgameThreshold` is 0.70 in `NewCoordinator` while the field's comment says 0.95.

## Theorems

For all constants that satisfy the assumption of each module, so for any number of peers, pieces, blocks, files,
callers, trackers and events and any capacities:

| theorem | statement |
|---|---|
| `TypeCorrect` | `Download`: `Spec => []TypeOK` |
| `VerifiedBeforeHeld` | `Download`: `Spec => []HeldIsVerified` |
| `HeldOrInProgress` | `Download`: `Spec => []InProgressNotHeld` |
| `NeverOverwritten` | `Download`: `Spec => HeldNotOverwritten` |
| `CompletePiecesHeld` | `Download` without timeouts: `Spec => [](NoDiskFault => CompleteIsHeld)` |
| `VerifiedPiecesKept` | `Download` without timeouts: `Spec => VerifiedKept` |
| `LeaseImplemented` | `Download` with `QuietBudget`: `Spec /\ []~endgame => ImplementsLease` |
| `StrikesNeedBadData` | `Download` with `QuietBudget`: `Spec /\ []~endgame => []StrikeNeedsBadData` |
| `LifecycleTyped`, `ClosedIsQuiet`, `SavesLoseNothing` | `Lifecycle`: `Spec => []TypeOK`, `[]QuietWhenClosed`, `[]OnlyMissedIsLost` |
| `HeldPiecesAreRight`, `HeldPiecesStay` | `Lifecycle`: `Spec => []HeldIsRight`, `Spec => HeldStays` |
| `PiecesPartitionFiles` | `Lifecycle`: each byte of each file is in `FileMapping` of one piece and of no other |
| `CompleteIsWhole` | `Lifecycle`: a session that has all pieces has all bytes right, but for what is being verified, was restored unverified, or was started during a Stop |
| `ConnectionsTyped`, `EntriesAreServed`, `WorkersAreListed`, `StopLeavesNothing`, `UploadsAreServed` | `Connections`: `Spec => []` of `TypeOK`, `ListedIsServed`, `ServedIsListed`, `NothingAfterStop`, `UploadIsServed` |
| `TrackersTyped`, `AnswersAreOurs`, `OffStaysOff` | `Trackers`: `TrackersSpec => []TrackersTypeOK`, `[]AnswerIsOurs`, `OffForGood` |
| `DuplicatesStayOn` | `Trackers`: an entry that is not the first with its URL is always active |
| `DhtTyped`, `QueriesCleanUp`, `BucketsStaySound` | `Dht`: `DhtSpec => []DhtTypeOK`, `[]TransactionsAwaited`, `[]BucketsSound` |
| `LookupBeginsNearest` | `Dht`: `FindClosest` has exactly one answer in every state |
| `BucketsAreSorted` | `Dht`: the nodes of a lower bucket are nearer to this node than those of a higher one |
| `FreshNodesStay`, `NewcomersEnter` | `Dht`: no step takes a node that is not stale out of its bucket; a node that is added is then there, unless its bucket is full of such nodes |
| `ClientTypeCorrect`, `TablesAgree`, `FoundIsStopped` | `Client`: `ClientSpec => []ClientTypeOK`, `[]HandlesMatch`, `[]StopsTakeEffect` |
| `MetadataTypeCorrect`, `GivenUpForAReason` | `Metadata`: `MetadataSpec => []MetadataTypeOK`, `[]GivesUpForAReason` |
| `CommandTypeCorrect`, `QuitSaves` | `Command`: `CommandSpec => []CommandTypeOK`, `[]SavedOnQuit` |
| `ServicesCompose`, `ServicesTyped` | `MCServices`: `ServicesSpec` implies the specification of each of its five components, and `[]ServicesTypeOK` |

### Download

`TypeOK` is not inductive: a step that uses `job[p]` or `cur[p]` has to know that it is not `None`.
`BaseInv` adds `WorkerInv`, what a worker carries at each label, and `LockInv`, which says that exactly
the worker inside the verification holds `Manager.mu`, that its bit is set and its object still
in the manager. One lemma per action shows that it keeps `BaseInv`.

`HeldIsVerified` and `InProgressNotHeld` are proved together as `SafeInv`, with `BudgetInv` (a budget never
grows, so a past disk fault stays visible). Neither is inductive alone: a bit is set only while its
piece is in `Manager.pieces`, so a piece that is held and in progress could be
written again with bad data; and only `StartPiece`'s look at the bitfield, together
with the verification under the lock, keeps a held piece from being started again. `QuietSteps` reduces
the case analysis to the four actions that touch the bitfield, the files or the
manager's table. `HeldNotOverwritten` follows: only `Complete` writes, to a piece in
progress, which is not held.

For `CompletePiecesHeld` and `VerifiedPiecesKept`, `KeptInv` adds that no worker is in the timeout branch and that a piece that is done
(marked complete, on its way through the channel, or about to be reported) is held and not in
progress; `DoneGrows` shows that only a successful verification makes a piece done. The assumption `NoTimeouts`
is the one finding 2 shows to be necessary.

The refinement is proved from `LeaseInv`, which adds five parts. `PathInv`: which handler a worker with a current piece can
be in. `ClaimInv`: a piece has one worker, is then marked as being downloaded, and is neither on its way through
the failure channel nor through the completion channel; a failed piece is in its channel once. `HeldInv`: the
object that a worker collects into is the one in `Manager.pieces`, and two pieces have two objects. `WireInv`: a peer
owes only blocks of its current piece that nobody has, so that a late answer, the one thing that may reach
another worker's object, does not exist. `BadInv`: before the first corrupt block no object holds a bad
one. Four things break this, and are the assumptions: endgame (the lease is shared on purpose), a timer (the peer still owes what
was given to somebody else), a refused block (the same), and a disk fault. `QuietBudget` excludes the last three; corrupt
blocks, chokes, Cancels, pauses and disconnections stay. `StillOrNot` reduces the refinement to six steps of a worker: `HandlePieceRequest` is
`Assign`, a good `Verify` is `Store`, `Reject` and `Leave` are `GiveBack`, and `Complete`, `Notify` and `Start` move nothing.
TLC's instance of `download_leases` allows one refused block; with two, and two blocks to a piece, it finds `ImplementsLease`
violated: the peer's answer completes the piece that is another's by then.

### Lifecycle

The invariant is the types with three parts. `LockInv`: who is in `Start` or `Resume` holds `Session.mu`, a
Stop has cancelled the context, and there is one at a time unless the session was started during a Stop.
`GoneInv`: before `Start` and after the channel is
closed no goroutine is there, also in a session that was started during a Stop, as Stop's wait includes those. `SaveInv` follows the bitfield into the file: at each point of a save, what is
held is in what has been read so far or was completed since (`missed`), so that a save that is interrupted, and a
completion between the two reads, are accounted for. From these, `HeldIsRight` is inductive and
`HeldStays` follows: a write is always of a piece that is not held, as `Manager.mu` is kept over write and verification
and a piece in progress is not held (`InProgressNotHeld` of `Download`, here the guard of `Writes`), so that the bytes of a
held piece are safe; the bit itself is not, for which `HeldStays` names the two steps that take it. Two generations of
Managers have two mutexes, which is why a session that was started during a Stop is left out.

What VerifyPiece reads is right only if no other piece's write touches it, which depends on the arithmetic of
`calculateFileMapping`, a loop over the files. `Covers` is the invariant of that loop: what has been mapped after some
files are exactly the bytes of the extent that lie in them. `CoversStep` shows that one round (`MapFile`) keeps it, for
a file that lies before, in, around or after the extent or is empty, and `MappingExact` concludes for all files by
induction. The extents of the pieces cut the torrent without gap or overlap (`PieceRange`, `PieceOf`, with a last piece that
is shorter), so that each byte belongs to one piece: `PiecesPartitionFiles`. With `HeldPiecesAreRight` it gives
`CompleteIsWhole`, which is what a user of the client wants: when everything is held, every byte of every file is right.

Induction is proved from the least element of a set of numbers (`Induction`), as the library's theorem of induction over
predicates cannot be used by the provers here; `Recursion` shows that the functions which `Offset` and `FileMapping` define
recursively exist.

### Connections

`PathInv` (one Stop at a time is past its test of `running`, and the session is then stopping), `QuietInv` (before
`Start` there is nothing, after `Stop` no loop and no dial) and `TableInv` (an entry has the address of its
connection, which is or was served). A loop cannot begin again after the context is cancelled, and the Stop that
waits is the only one that may dial; that is what makes `NothingAfterStop` inductive.

### Trackers

`ResultInv`: a call gets one result per tracker, from a goroutine that has ended, and collects it once. `OnceInv`: a
request is answered by one datagram. `FreshInv`: nothing of a request is on the wire or in the socket before its
goroutine has sent it, nor once its answer has been taken. `AnswerIsOurs` is the last part of `FreshInv`; it
rests on the comparison of transaction IDs in `IsAnswer`. `OffForGood` needs `ResultInv`: a result that is collected is of a
tracker that the call asked and has not collected, so it is none that nobody can revive. It is stated of the
trackers that are `Alone` in the list: for the others `DuplicatesStayOn` says the opposite.

### Dht

`DhtInv` has the types with two parts. `QueryInv`: a query that is waited for has an ID and a channel that are its
own; it needs that an ID is never given twice (`transID` only grows). `TransInv`: an ID is in the map just as long as a user waits for it and its
channel is not closed. One lemma per action; `GoesKeeps` serves all three ways in which a query ends. The buckets are
sound by themselves (`PutSound`, `AddNodeSound`).

`LookupBeginsNearest` is about the operators. Of two different distances the highest bit in which they differ decides
(`LessIsOrder`). That some node of a set is the nearest goes by induction over the bits from the highest down
(`LeastStep`): among the nodes that agree so far, those without the next bit are preferred. `K` of them are found by
induction over their number, and two answers cannot differ first at any position (`ClosestAgree`).

`BucketsAreSorted` settles which way round the buckets are: the comment at `routing.go:220` says that "closer nodes are
in higher buckets", and the code does the opposite, since the first bit that differs is counted from the far end. Nothing depends on it:
`FindClosest` looks at all buckets.

### Client

`TablesInv`: at most one call has changed one table and not the other, and it holds the session
concerned. `DoomedInv`: each session that a stopping call found running has a call that is going to stop it.

### Metadata and Command

`Metadata`: `LaunchInv` (workers are started in order, and the launcher stops for a reason), `ExchangeInv` (a worker that has
fetched has as many chunks as its peer claimed, one that failed has none, and an honest peer's chunks are the right
ones), `ReportInv` (a worker that is done has nothing, or its result is in the channel, or the context is over) and
`OutcomeInv`. That metadata of an honest peer has the right hash is a count: as many chunks as there are, all in
range, are all of them. `MetadataAssumption` bounds what a peer may claim; the code's bound is the size of an `int`.

`Command`: `StopInv` says in whose call of Stop a thread is and how far it may be, `SaveInv` that a session which
does not run any more was saved or is with the thread that will save it. Main does not exit before somebody has
stopped the session, so the only save that can be missing is one of the signal's goroutine, which is what `SavedOnQuit` says.

### What is only model-checked

Liveness is out of the prover's reach: `Completes`, `HandlersEnd`, `StopReturns`, `SeedingSettles`, `StopsReturn`,
`AnnounceReturns`, `LookupsEnd`, `FetchEnds`, `QuitEnds`. Every invariant and every action property of the passing runs is
also a theorem.

## Not modelled, and why

* uploader, shutdown manager, torrent controller, rate limiter: no package that the program is built from imports
  them; a model of them would describe no behaviour of the program. So is the terminal model of `internal/ui`.
* metainfo, bencode and magnet parsing, the bytes of wire, DHT and tracker messages: functions of bytes without
  state. What a message *does* (a keep-alive that reads as a choke, an error action, a wrong size) is modelled.
* configuration, the info command, printing, the display of the download command: no state the rest reads.
* the endgame tracker: which block a Cancel names. The Cancel is a write in `Connections` and an event in
  `Download`; duplicates of a block arise only from requests that timed out.
* availability counts and the preference of the selectors: `Download` leaves the choice open, so its properties hold for
  any preference.
* `AnnouncePeer`, `Scrape`, `AnnounceSingle`, `PeriodicAnnounce`, `RequestQueue.Clear` and others that nothing calls.
* time: every timer may fire whenever what it watches is there. Rates, ratios and intervals are choices.

## What is left

1. Larger instances of `services`, one run per component, should more runs be wanted.
2. What a lookup or a Stop needs in order to end is visible in the invariants (who waits, and what will wake him); the
   step from there to liveness stays with TLC.
