------------------------------ MODULE Metadata ------------------------------
(***************************************************************************)
(* AddMagnet up to the session: FetchMetadata looks for peers, tries them  *)
(* in parallel and returns the first metadata a peer has sent in full; the *)
(* hash is checked afterwards.                                             *)
(*                                                                         *)
(* The collector is the goroutine of AddMagnet; a launcher starts one      *)
(* worker per peer, at most MaxConcurrent at a time.                       *)
(*                                                                         *)
(* Abstractions: metadata is a number of chunks, each right or wrong; the  *)
(* messages a worker skips are not there; a peer that was found twice is   *)
(* two peers.                                                              *)
(***************************************************************************)
EXTENDS Naturals, Sequences, FiniteSets

CONSTANTS
  Sources,        \* a sequence: what the DHT and then each tracker may answer, in numbers of peers
  Enough,         \* peers that make it skip the other trackers, 50 in the code
  MaxAttempts,    \* peers it tries, 100
  MaxConcurrent,  \* workers at a time, and the length of resultChan, 20
  Chunks,         \* chunks of the metadata of the torrent
  WrongTotals     \* other numbers of chunks that a peer may claim

Attempts == 1 .. MaxAttempts
Fewer(a, b) == IF a < b THEN a ELSE b
Totals == {Chunks} \cup WrongTotals
Unknown == 0
Chunk == {"missing", "right", "wrong"}
LastChunk == CHOOSE n \in Totals : \A k \in Totals : k <= n
NoChunks == [n \in 1 .. LastChunk |-> "missing"]

\* A peer claims a number of chunks, and not any number.
ASSUME MetadataAssumption ==
  /\ Sources \in Seq(SUBSET Nat) /\ MaxAttempts \in Nat /\ MaxConcurrent \in Nat
  /\ Totals \subseteq Nat \ {Unknown} /\ \E n \in Totals : \A k \in Totals : k <= n

VARIABLES
  magnet,      \* the caller: "idle", "asking" (for peers), "collecting", or what it returns
  source,      \* how many of the Sources have been asked
  peerCount,   \* len(peers)
  launcher,    \* "off", "launching", "waiting" (for the workers), "done" (channel closed)
  launched,    \* workers that were started
  worker,      \* the state of each
  total,       \* numPieces of each exchange, Unknown before its first data message
  pieces,      \* the chunks that each has received
  honest,      \* the peer of each has sent nothing wrong
  resultChan,  \* <<worker, TRUE if it has the metadata>>
  expired      \* the two minutes of the context are over

metadataVars ==
  <<magnet, source, peerCount, launcher, launched, worker, total, pieces, honest, resultChan,
    expired>>

collectorVars == <<magnet, source, peerCount>>
launcherVars == <<launcher, launched>>
exchangeVars == <<total, pieces, honest>>

MetadataInit ==
  /\ magnet = "idle" /\ source = 0 /\ peerCount = 0
  /\ launcher = "off" /\ launched = 0 /\ worker = [i \in Attempts |-> "off"]
  /\ total = [i \in Attempts |-> Unknown]
  /\ pieces = [i \in Attempts |-> NoChunks]
  /\ honest = [i \in Attempts |-> TRUE] /\ resultChan = <<>> /\ expired = FALSE

FetchReturned == magnet \in {"torrent", "no peers", "cancelled", "all failed", "wrong hash"}

\* The context of the workers is done: by its parent, or since the call has returned.
PeerCtxDone == expired \/ FetchReturned

-----------------------------------------------------------------------------
(* Looking for peers; the context is not looked at *)

\* AddMagnet, of a torrent that is not there yet; the context begins.
FetchBegins ==
  /\ magnet = "idle" /\ magnet' = "asking"
  /\ UNCHANGED <<source, peerCount, launcherVars, worker, exchangeVars, resultChan, expired>>

(* The first source is the DHT; a tracker that answers, when there are      *)
(* enough peers, is the last one.                                           *)
AsksSource(count, answers) ==
  /\ magnet = "asking" /\ source < Len(Sources)
  /\ answers \/ count = 0
  /\ peerCount' = peerCount + count
  /\ source' = IF source > 0 /\ answers /\ peerCount' >= Enough THEN Len(Sources) ELSE source + 1
  /\ UNCHANGED <<magnet, launcherVars, worker, exchangeVars, resultChan, expired>>

HasAsked ==
  /\ magnet = "asking" /\ source = Len(Sources)
  /\ IF peerCount = 0 THEN magnet' = "no peers" /\ UNCHANGED launcher
                      ELSE magnet' = "collecting" /\ launcher' = "launching"
  /\ UNCHANGED <<source, peerCount, launched, worker, exchangeVars, resultChan, expired>>

-----------------------------------------------------------------------------
(* The launcher *)

Working == {i \in Attempts : worker[i] \notin {"off", "done"}}

Launch ==
  /\ launcher = "launching" /\ launched < MaxAttempts /\ launched < peerCount
  /\ Cardinality(Working) < MaxConcurrent
  /\ launched' = launched + 1 /\ worker' = [worker EXCEPT ![launched + 1] = "dialing"]
  /\ UNCHANGED <<collectorVars, launcher, exchangeVars, resultChan, expired>>

LaunchingEnds ==
  /\ launcher = "launching"
  /\ PeerCtxDone \/ launched = MaxAttempts \/ launched = peerCount
  /\ launcher' = "waiting"
  /\ UNCHANGED <<collectorVars, launched, worker, exchangeVars, resultChan, expired>>

\* Mutated: the channel is closed without waiting for the workers.
WaitForNobody ==
  /\ launcher = "waiting" /\ launcher' = "done"
  /\ UNCHANGED <<collectorVars, launched, worker, exchangeVars, resultChan, expired>>

WaitForWorkers ==
  /\ launcher = "waiting" /\ Working = {} /\ launcher' = "done"
  /\ UNCHANGED <<collectorVars, launched, worker, exchangeVars, resultChan, expired>>

-----------------------------------------------------------------------------
(* A worker: fetchMetadataFromPeer and the exchange *)

NextPhase == [dialing |-> "handshake", handshake |-> "extension", extension |-> "fetching"]

(* The dial, the handshake, the extension handshake.  Past the dial, the    *)
(* deadline of the context makes every read and write of the connection fail.*)
Advances(i) ==
  /\ worker[i] \in DOMAIN NextPhase /\ (worker[i] = "dialing" \/ ~expired)
  /\ worker' = [worker EXCEPT ![i] = NextPhase[@]]
  /\ UNCHANGED <<collectorVars, launcherVars, exchangeVars, resultChan, expired>>

\* The connection is closed and what it has brought is forgotten.
Gives(i) ==
  /\ worker' = [worker EXCEPT ![i] = "failed"] /\ total' = [total EXCEPT ![i] = Unknown]
  /\ pieces' = [pieces EXCEPT ![i] = NoChunks] /\ honest' = [honest EXCEPT ![i] = TRUE]

(* The peer cannot be reached, is not there any more, has another torrent,  *)
(* no extensions or no metadata, rejects the request, or sends what cannot  *)
(* be read.                                                                 *)
PeerFails(i) ==
  /\ worker[i] \in DOMAIN NextPhase \cup {"fetching"} /\ Gives(i)
  /\ UNCHANGED <<collectorVars, launcherVars, resultChan, expired>>

\* Mutated: the connection has no deadline.
DialTimesOut(i) ==
  /\ worker[i] = "dialing" /\ Gives(i)
  /\ UNCHANGED <<collectorVars, launcherVars, resultChan, expired>>

\* A dial ends after two seconds, all that follows when the context is over.
DeadlinePasses(i) ==
  /\ worker[i] # "dialing" => expired /\ worker[i] \in {"handshake", "extension", "fetching"}
  /\ Gives(i)
  /\ UNCHANGED <<collectorVars, launcherVars, resultChan, expired>>

Got(chunks) == {n \in DOMAIN chunks : chunks[n] # "missing"}

\* The first one of a chunk is kept; one out of range is skipped.
Keeps(chunks, known, n, chunk) ==
  IF n <= known /\ chunks[n] = "missing" THEN [chunks EXCEPT ![n] = chunk] ELSE chunks

(* A data message: the first one, whichever it is, says how many chunks     *)
(* there are, and the others are asked for.  The last one that was missing  *)
(* ends the exchange.                                                       *)
ReceivesData(i, n, claimed, chunk) ==
  /\ worker[i] = "fetching" /\ ~expired
  /\ LET known == IF total[i] = Unknown THEN claimed ELSE total[i]
         chunks == Keeps(pieces[i], known, n, chunk)
     IN /\ total' = [total EXCEPT ![i] = known] /\ pieces' = [pieces EXCEPT ![i] = chunks]
        /\ worker' = [worker EXCEPT ![i] =
             IF Cardinality(Got(chunks)) = known THEN "fetched" ELSE "fetching"]
  /\ honest' = [honest EXCEPT ![i] = @ /\ claimed = Chunks /\ chunk = "right" /\ n <= Chunks]
  /\ UNCHANGED <<collectorVars, launcherVars, resultChan, expired>>

\* The select takes either, if both can be.
SendsResult(i) ==
  /\ worker[i] \in {"fetched", "failed"}
  /\ \/ /\ Len(resultChan) < MaxConcurrent
        /\ resultChan' = Append(resultChan, <<i, worker[i] = "fetched">>)
     \/ PeerCtxDone /\ UNCHANGED resultChan
  /\ worker' = [worker EXCEPT ![i] = "done"]
  /\ UNCHANGED <<collectorVars, launcherVars, exchangeVars, expired>>

-----------------------------------------------------------------------------
(* The collector, and the check in AddMagnet *)

Assembled(i) == [n \in 1 .. total[i] |-> pieces[i][n]]

\* ParseInfo hashes what was fetched.
HashIsRight(i) == Assembled(i) = [n \in 1 .. Chunks |-> "right"]

(* The first metadata is returned; after an error the context is looked at. *)
Collects(i) ==
  /\ magnet = "collecting" /\ resultChan # <<>> /\ i = Head(resultChan)[1]
  /\ resultChan' = Tail(resultChan)
  /\ magnet' = CASE Head(resultChan)[2] -> IF HashIsRight(i) THEN "torrent" ELSE "wrong hash"
                 [] ~Head(resultChan)[2] /\ expired -> "cancelled"
                 [] OTHER -> magnet
  /\ UNCHANGED <<source, peerCount, launcherVars, worker, exchangeVars, expired>>

SeesClosed ==
  /\ magnet = "collecting" /\ resultChan = <<>> /\ launcher = "done"
  /\ magnet' = "all failed"
  /\ UNCHANGED <<source, peerCount, launcherVars, worker, exchangeVars, resultChan, expired>>

TwoMinutesPass ==
  /\ magnet # "idle" /\ ~expired /\ expired' = TRUE
  /\ UNCHANGED <<collectorVars, launcherVars, worker, exchangeVars, resultChan>>

-----------------------------------------------------------------------------
CollectorStep ==
  \/ /\ source < Len(Sources)
     /\ \E count \in Sources[source + 1], answers \in BOOLEAN : AsksSource(count, answers)
  \/ HasAsked \/ SeesClosed \/ \E i \in Attempts : Collects(i)

LauncherStep == Launch \/ LaunchingEnds \/ WaitForWorkers

PeerStep(i) ==
  \/ Advances(i) \/ PeerFails(i)
  \/ \E n \in 1 .. LastChunk, claimed \in Totals, chunk \in {"right", "wrong"} :
       ReceivesData(i, n, claimed, chunk)

MetadataNext ==
  \/ FetchBegins \/ CollectorStep \/ LauncherStep \/ TwoMinutesPass
  \/ \E i \in Attempts : PeerStep(i) \/ DeadlinePasses(i) \/ SendsResult(i)

MetadataSpec == MetadataInit /\ [][MetadataNext]_metadataVars

(* The goroutines run, and time passes; of the peers nothing is assumed.    *)
(* That each source answers in time is AnnounceReturns and LookupsEnd.      *)
MetadataFairness ==
  /\ WF_metadataVars(CollectorStep) /\ WF_metadataVars(LauncherStep)
  /\ WF_metadataVars(TwoMinutesPass)
  /\ \A i \in Attempts : WF_metadataVars(DeadlinePasses(i) \/ SendsResult(i))

-----------------------------------------------------------------------------
(* Properties *)

\* The type invariant.
MetadataTypeOK ==
  /\ magnet \in {"idle", "asking", "collecting", "torrent", "no peers", "cancelled", "all failed",
                 "wrong hash"}
  /\ source \in 0 .. Len(Sources) /\ peerCount \in Nat
  /\ launcher \in {"off", "launching", "waiting", "done"} /\ launched \in 0 .. MaxAttempts
  /\ worker \in [Attempts -> DOMAIN NextPhase \cup {"off", "fetching", "fetched", "failed", "done"}]
  /\ total \in [Attempts -> Totals \cup {Unknown}]
  /\ pieces \in [Attempts -> [1 .. LastChunk -> Chunk]] /\ honest \in [Attempts -> BOOLEAN]
  /\ resultChan \in Seq(Attempts \X BOOLEAN) /\ Len(resultChan) <= MaxConcurrent
  /\ expired \in BOOLEAN

(* A magnet link is given up for one of these reasons only.  When all       *)
(* peers are said to have failed, each one that was found has been tried    *)
(* and none has sent its metadata in full, unless time was up; and it is    *)
(* the wrong metadata only if a peer has sent something wrong.              *)
GivesUpForAReason ==
  /\ magnet = "all failed" => \/ expired
                             \/ /\ launched = Fewer(peerCount, MaxAttempts)
                                /\ \A i \in 1 .. launched : worker[i] = "done" /\ pieces[i] = NoChunks
  /\ magnet = "wrong hash" => \E i \in Attempts : ~honest[i]

(* AddMagnet returns, and with it all the goroutines it has started, though *)
(* no peer may ever answer.                                                 *)
FetchEnds ==
  magnet = "asking" ~> [](FetchReturned /\ launcher \in {"off", "done"} /\ Working = {})
=============================================================================
