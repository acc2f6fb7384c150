-------------------------------- MODULE Dht --------------------------------
(***************************************************************************)
(* The DHT node of the engine: its queries and the transactions that wait  *)
(* for their responses, the message loop, the maintenance loop, the        *)
(* routing table, the peers it knows of one torrent, and Stop.             *)
(*                                                                         *)
(* Bootstrap, of Engine.Start, asks one node after the other; later the    *)
(* discovery loop of a session and the metadata fetch of a magnet link     *)
(* look up peers, at times both at once.                                   *)
(*                                                                         *)
(* Abstractions: a node ID is the set of the bits that are one, of Bits     *)
(* bits, the highest first in the code; a node is known by its ID; a        *)
(* datagram that no query waits for, or that cannot be parsed, is one that *)
(* the network loses; Stop closes stopCh and the socket in one step; the   *)
(* 16 bits of a transaction ID are enough for those of five seconds.       *)
(***************************************************************************)
EXTENDS Naturals, FiniteSets, Sequences, Functions

CONSTANTS
  Bits,         \* length of a node ID, 160 in the code: the bits are 0 .. Bits - 1
  K,            \* nodes of a bucket, and of a lookup
  Self,         \* nodeID
  Others,       \* the IDs of the nodes in the network
  BootNodes,    \* a sequence of Others: DefaultBootstrapNodes
  Target,       \* the info hash that is looked up
  FoundPeers,   \* peers that have the torrent
  Responses,    \* what a node may answer: <<nodes, peers>>
  MaxEvents     \* bound: queries of other nodes, and nodes that become stale

NodeIDs == SUBSET (0 .. Bits - 1)

ASSUME DhtAssumption ==
  /\ Bits \in Nat \ {0} /\ K \in Nat \ {0} /\ MaxEvents \in Nat
  /\ Self \in NodeIDs /\ Target \in NodeIDs /\ Others \subseteq NodeIDs \ {Self}
  /\ BootNodes \in Seq(Others)
  /\ \A r \in Responses : r[1] \subseteq Others \cup {Self} /\ r[2] \subseteq FoundPeers

Users == {"bootstrap", "loop", "fetch"}
NoQuery == 0
Closed == [closed |-> TRUE]

VARIABLES
  buckets,      \* RoutingTable.buckets: sequences of [id, stale]
  cached,       \* DHT.peers of the info hash; {} if there is no entry
  transID,      \* DHT.transID
  transactions, \* the IDs in DHT.transactions
  channel,      \* Transaction.Response, by ID: empty, a message, Closed
  overdue,      \* transactions whose Timeout has passed
  lookup,       \* what each user does
  todoNodes,    \* the nodes it has still to query
  visited,      \* the ones it has queried
  query,        \* the ID of its query
  found,        \* the peers it has got
  adding,       \* the nodes of the last answer that it has still to put into the table
  airborne,     \* the queries that are not answered
  delivering,   \* the message loop between the look at transactions and the send
  events,       \* bound: how many of MaxEvents have happened
  loops,        \* messageLoop and maintenanceLoop
  nodeState,    \* "running", "stopping" (stopCh is closed) or "stopped"
  panicked      \* the process has panicked

tableVars == <<buckets, cached>>
transVars == <<transID, transactions, channel, overdue>>
lookupVars == <<lookup, todoNodes, visited, query, found, adding>>
loopVars == <<delivering, events, loops, nodeState>>
dhtVars == <<tableVars, transVars, lookupVars, airborne, loopVars, panicked>>

DhtInit ==
  /\ buckets = [b \in 0 .. Bits - 1 |-> <<>>] /\ cached = {}
  /\ transID = NoQuery /\ transactions = {} /\ channel = <<>> /\ overdue = {}
  /\ lookup = [k \in Users |-> "idle"] /\ todoNodes = [k \in Users |-> <<>>] /\ visited = [k \in Users |-> {}]
  /\ query = [k \in Users |-> NoQuery] /\ found = [k \in Users |-> {}]
  /\ adding = [k \in Users |-> {}]
  /\ airborne = {} /\ delivering = NoQuery /\ events = 0
  /\ loops = {"message", "maintenance"} /\ nodeState = "running" /\ panicked = FALSE

-----------------------------------------------------------------------------
(* RoutingTable *)

\* The bits that differ: XOR.
Distance(a, b) == (a \ b) \cup (b \ a)

\* Compare: the highest bit that is not in both decides.
Less(d, e) == \E b \in e \ d : \A c \in d \ e : c < b

\* The first bit that differs, counted from the far end.
BucketIndex(id) ==
  CHOOSE b \in Distance(Self, id) : \A c \in Distance(Self, id) : c <= b

Nodes(table) == UNION {{table[b][i].id : i \in 1 .. Len(table[b])} : b \in DOMAIN table}

\* Mutated: a bucket that is full takes one more.
PutOneMore(bucket, id) ==
  LET fresh == [id |-> id, stale |-> FALSE]
  IN IF Len(bucket) > K \/ \E i \in 1 .. Len(bucket) : bucket[i].id = id THEN bucket
     ELSE Append(bucket, fresh)

(* A node that is there is replaced by itself; a new one goes to the end,   *)
(* or, in a full bucket, takes the place of the first stale one.            *)
Put(bucket, id) ==
  LET fresh == [id |-> id, stale |-> FALSE]
      same == {i \in 1 .. Len(bucket) : bucket[i].id = id}
      stale == {i \in 1 .. Len(bucket) : bucket[i].stale}
  IN CASE same # {} -> [bucket EXCEPT ![CHOOSE i \in same : TRUE] = fresh]
       [] same = {} /\ Len(bucket) < K -> Append(bucket, fresh)
       [] same = {} /\ Len(bucket) = K /\ stale # {} ->
            [bucket EXCEPT ![CHOOSE i \in stale : \A j \in stale : i <= j] = fresh]
       [] OTHER -> bucket

AddNode(table, id) ==
  IF id = Self THEN table ELSE [table EXCEPT ![BucketIndex(id)] = Put(@, id)]

(* What FindClosest may return, which is one sequence: at most K nodes in    *)
(* the order of their distance, and all that are left out are farther away. *)
FindClosest(table, target) ==
  LET Nearer(a, b) == Less(Distance(a, target), Distance(b, target))
      left(s) == Nodes(table) \ Range(s)
  IN {s \in UNION {[1 .. n -> Nodes(table)] : n \in 0 .. K} :
        /\ \A i, j \in DOMAIN s : i < j => Nearer(s[i], s[j])
        /\ \A a \in left(s) : Len(s) = K /\ \A i \in DOMAIN s : Nearer(s[i], a)}

\* Fifteen minutes without a message that names the node.
Ages(b, i) ==
  /\ ~buckets[b][i].stale /\ buckets' = [buckets EXCEPT ![b][i].stale = TRUE]
  /\ events < MaxEvents /\ events' = events + 1
  /\ UNCHANGED <<cached, transVars, lookupVars, airborne, delivering, loops, nodeState, panicked>>

-----------------------------------------------------------------------------
(* Bootstrap and GetPeers *)

BootstrapBegins ==
  /\ lookup["bootstrap"] = "idle"
  /\ lookup' = [lookup EXCEPT !["bootstrap"] = "querying"]
  /\ todoNodes' = [todoNodes EXCEPT !["bootstrap"] = BootNodes]
  /\ UNCHANGED <<tableVars, transVars, visited, query, found, adding, airborne, loopVars, panicked>>

\* Peers that are in the cache are returned; no node at all is an error.
GetPeersBegins(k) ==
  /\ k # "bootstrap" /\ lookup[k] = "idle" /\ lookup["bootstrap"] = "done"
  /\ \E closest \in FindClosest(buckets, Target) :
       todoNodes' = [todoNodes EXCEPT ![k] = IF cached = {} THEN closest ELSE <<>>]
  /\ found' = [found EXCEPT ![k] = cached]
  /\ lookup' = [lookup EXCEPT ![k] = IF todoNodes'[k] = <<>> THEN "done" ELSE "querying"]
  /\ UNCHANGED <<tableVars, transVars, visited, query, adding, airborne, loopVars, panicked>>

NextID == transID + 1

\* sendQuery: the transaction first, then the datagram, which a closed socket refuses.
Queries(k) ==
  /\ lookup[k] = "querying" /\ adding[k] = {} /\ todoNodes[k] # <<>>
  /\ transID' = NextID /\ visited' = [visited EXCEPT ![k] = @ \cup {Head(todoNodes[k])}]
  /\ IF nodeState = "running"
       THEN /\ transactions' = transactions \cup {NextID}
            /\ channel' = [id \in DOMAIN channel \cup {NextID} |-> IF id = NextID THEN <<>> ELSE channel[id]]
            /\ airborne' = airborne \cup {NextID}
            /\ query' = [query EXCEPT ![k] = NextID] /\ lookup' = [lookup EXCEPT ![k] = "waiting"]
            /\ UNCHANGED todoNodes
       ELSE /\ todoNodes' = [todoNodes EXCEPT ![k] = Tail(@)]
            /\ UNCHANGED <<transactions, channel, airborne, query, lookup>>
  /\ UNCHANGED <<tableVars, overdue, found, adding, loopVars, panicked>>

(* The user has used the answer to a query, or goes on without one.  What   *)
(* nobody refers to any more is forgotten.                                  *)
Goes(k) ==
  /\ lookup' = [lookup EXCEPT ![k] = "querying"]
  /\ todoNodes' = [todoNodes EXCEPT ![k] = Tail(@)] /\ query' = [query EXCEPT ![k] = NoQuery]
  /\ channel' = Restrict(channel, DOMAIN channel \ ({query[k]} \ {delivering}))
  /\ overdue' = overdue \ {query[k]} /\ airborne' = airborne \ {query[k]}

\* GetPeers adds no node that it has queried; Bootstrap adds them all.
Skipped(k) == IF k = "bootstrap" THEN {} ELSE visited[k]

(* The response is taken from the channel.  A channel that was closed gives *)
(* no message and no error, and the user follows the nil pointer.           *)
TakesResponse(k) ==
  /\ lookup[k] = "waiting" /\ channel[query[k]] # <<>>
  /\ transactions' = transactions \ {query[k]}
  /\ LET message == channel[query[k]]
     IN IF message = Closed
          THEN /\ panicked' = TRUE
               /\ UNCHANGED <<lookupVars, channel, overdue, airborne>>
          ELSE /\ adding' = [adding EXCEPT ![k] = message.nodes \ Skipped(k)]
               /\ found' = [found EXCEPT ![k] = @ \cup message.peers]
               /\ Goes(k) /\ UNCHANGED <<visited, panicked>>
  /\ UNCHANGED <<tableVars, transID, loopVars>>

\* One node of the answer: the lock of the bucket is taken for each.
Adds(k, id) ==
  /\ id \in adding[k] /\ adding' = [adding EXCEPT ![k] = @ \ {id}]
  /\ buckets' = AddNode(buckets, id)
  /\ UNCHANGED <<cached, transVars, lookup, todoNodes, visited, query, found, airborne, loopVars,
                 panicked>>

\* Mutated: the transaction is left for the maintenance.
TransactionStays(k) == transactions

TransactionGone(k) == transactions \ {query[k]}

\* Mutated: a query of a node that stops is forgotten.
TimesOutWhileRunning(k) ==
  /\ lookup[k] = "waiting" /\ query[k] \in overdue /\ nodeState = "running"
  /\ transactions' = TransactionGone(k) /\ Goes(k)
  /\ UNCHANGED <<tableVars, transID, visited, found, adding, loopVars, panicked>>

\* time.After, a little later than Transaction.Timeout.
QueryTimesOut(k) ==
  /\ lookup[k] = "waiting" /\ query[k] \in overdue
  /\ transactions' = TransactionGone(k) /\ Goes(k)
  /\ UNCHANGED <<tableVars, transID, visited, found, adding, loopVars, panicked>>

\* What was found overwrites the peers that have announced themselves meanwhile.
LookupEnds(k) ==
  /\ lookup[k] = "querying" /\ adding[k] = {} /\ todoNodes[k] = <<>>
  /\ lookup' = [lookup EXCEPT ![k] = "done"]
  /\ cached' = IF found[k] = {} THEN cached ELSE found[k]
  /\ UNCHANGED <<buckets, transVars, todoNodes, visited, query, found, adding, airborne, loopVars,
                 panicked>>

-----------------------------------------------------------------------------
(* messageLoop *)

Reading == "message" \in loops /\ nodeState = "running" /\ delivering = NoQuery

(* A response comes in, sooner or later; it may name nodes or peers.  The   *)
(* transaction is looked up, and the lock released.                         *)
Messages == {[closed |-> FALSE, nodes |-> r[1], peers |-> r[2]] : r \in Responses}

Receives(id) ==
  /\ Reading /\ id \in airborne \cap transactions
  /\ airborne' = airborne \ {id} /\ delivering' = id
  /\ UNCHANGED <<tableVars, transVars, lookupVars, events, loops, nodeState, panicked>>

\* The send; a full channel drops the message, and a closed one panics.
Delivers(message) ==
  /\ delivering # NoQuery /\ delivering' = NoQuery
  /\ CASE channel[delivering] = Closed -> panicked' = TRUE /\ UNCHANGED channel
       [] channel[delivering] = <<>> /\ delivering \in {query[k] : k \in Users} ->
            channel' = [channel EXCEPT ![delivering] = message] /\ UNCHANGED panicked
       [] OTHER ->
            channel' = Restrict(channel, DOMAIN channel \cap {query[k] : k \in Users}) /\ UNCHANGED panicked
  /\ UNCHANGED <<tableVars, transID, transactions, overdue, lookupVars, airborne, events, loops,
                 nodeState>>

(* A query of another node puts it into the table and is answered; only     *)
(* announce_peer changes more.                                              *)
HandleQuery(id, announced) ==
  /\ Reading /\ events < MaxEvents /\ events' = events + 1
  /\ buckets' = AddNode(buckets, id) /\ cached' = cached \cup announced
  /\ UNCHANGED <<transVars, lookupVars, airborne, delivering, loops, nodeState, panicked>>

-----------------------------------------------------------------------------
(* maintenanceLoop *)

Overdue(id) ==
  /\ id \in transactions \ overdue /\ overdue' = overdue \cup {id}
  /\ UNCHANGED <<tableVars, transID, transactions, channel, lookupVars, airborne, loopVars, panicked>>

PerformMaintenance ==
  /\ "maintenance" \in loops /\ transactions \cap overdue # {}
  /\ channel' = [id \in DOMAIN channel |->
       IF id \in transactions \cap overdue THEN Closed ELSE channel[id]]
  /\ transactions' = transactions \ overdue
  /\ UNCHANGED <<tableVars, transID, overdue, lookupVars, airborne, loopVars, panicked>>

DhtStops ==
  /\ nodeState = "running" /\ lookup["bootstrap"] = "done" /\ nodeState' = "stopping"
  /\ UNCHANGED <<tableVars, transVars, lookupVars, airborne, delivering, events, loops, panicked>>

\* A loop looks at stopCh; the read ends after a second, or when the socket is closed.
LoopStops(l) ==
  /\ l \in loops /\ nodeState = "stopping" /\ (l = "message" => delivering = NoQuery)
  /\ loops' = loops \ {l}
  /\ UNCHANGED <<tableVars, transVars, lookupVars, airborne, delivering, events, nodeState, panicked>>

DhtStopped ==
  /\ nodeState = "stopping" /\ loops = {} /\ nodeState' = "stopped"
  /\ UNCHANGED <<tableVars, transVars, lookupVars, airborne, delivering, events, loops, panicked>>

-----------------------------------------------------------------------------
Lookup(k) ==
  \/ Queries(k) \/ TakesResponse(k) \/ QueryTimesOut(k) \/ LookupEnds(k)
  \/ \E id \in adding[k] : Adds(k, id)

DhtNext ==
  \/ ~panicked /\ (BootstrapBegins \/ \E k \in Users : GetPeersBegins(k) \/ Lookup(k))
  \/ ~panicked /\ \E id \in airborne : Receives(id)
  \/ ~panicked /\ \E m \in Messages : Delivers(m)
  \/ ~panicked /\ \E id \in Others, announced \in {{}} \cup {{p} : p \in FoundPeers} :
       HandleQuery(id, announced)
  \/ ~panicked /\ (PerformMaintenance \/ DhtStops \/ DhtStopped \/ \E l \in loops : LoopStops(l))
  \/ ~panicked /\ \E id \in transactions : Overdue(id)
  \/ ~panicked /\ \E b \in DOMAIN buckets : \E i \in 1 .. Len(buckets[b]) : Ages(b, i)

DhtSpec == DhtInit /\ [][DhtNext]_dhtVars

(* Users and loops run, and time passes; no node has to answer.             *)
DhtFairness ==
  /\ \A k \in Users : WF_dhtVars(~panicked /\ Lookup(k))
  /\ WF_dhtVars(~panicked /\ \E id \in transactions : Overdue(id))
  /\ WF_dhtVars(~panicked /\ \E m \in Messages : Delivers(m))
  /\ \A l \in {"message", "maintenance"} : WF_dhtVars(~panicked /\ LoopStops(l))
  /\ WF_dhtVars(~panicked /\ DhtStopped)

-----------------------------------------------------------------------------
(* Properties *)

\* The type invariant.
DhtTypeOK ==
  /\ buckets \in [0 .. Bits - 1 -> Seq([id : Others, stale : BOOLEAN])]
  /\ cached \subseteq FoundPeers
  /\ transID \in Nat /\ transactions \subseteq 1 .. transID /\ overdue \subseteq 1 .. transID
  /\ \A id \in DOMAIN channel : channel[id] \in Messages \cup {<<>>, Closed}
  /\ lookup \in [Users -> {"idle", "querying", "waiting", "done"}]
  /\ todoNodes \in [Users -> Seq(Others)] /\ visited \in [Users -> SUBSET Others]
  /\ query \in [Users -> 0 .. transID]
  /\ found \in [Users -> SUBSET FoundPeers] /\ adding \in [Users -> SUBSET (Others \cup {Self})]
  /\ airborne \subseteq 1 .. transID /\ delivering \in 0 .. transID
  /\ events \in 0 .. MaxEvents /\ loops \subseteq {"message", "maintenance"}
  /\ nodeState \in {"running", "stopping", "stopped"} /\ panicked \in BOOLEAN

Waiting == {k \in Users : lookup[k] = "waiting"}

(* No two queries wait for the same ID, and a transaction is in the map     *)
(* just as long as its query waits for it, unless maintenance has closed    *)
(* its channel: a query cleans up after itself on every path, so that what  *)
(* maintenance finds is never abandoned but about to time out.              *)
TransactionsAwaited ==
  ~panicked =>
    /\ \A j, k \in Waiting : j # k => query[j] # query[k]
    /\ transactions = {query[k] : k \in {j \in Waiting : channel[query[j]] # Closed}}

(* A bucket has at most K nodes, each once, each in the bucket of its       *)
(* distance, and never this node itself, whoever names it.                  *)
BucketsSound ==
  \A b \in DOMAIN buckets :
    /\ Len(buckets[b]) <= K
    /\ \A i, j \in 1 .. Len(buckets[b]) :
         /\ buckets[b][i].id # Self /\ BucketIndex(buckets[b][i].id) = b
         /\ i # j => buckets[b][i].id # buckets[b][j].id

(* Whatever is lost, and whether the node is stopped meanwhile or not, a    *)
(* lookup ends and Stop returns.                                            *)
LookupsEnd ==
  []<>(panicked \/ (nodeState # "stopping" /\ \A k \in Users : lookup[k] \in {"idle", "done"}))
=============================================================================
