----------------------------- MODULE DhtProofs -----------------------------
(***************************************************************************)
(* The safety of Dht, for IDs of any length, buckets of any size, any      *)
(* nodes, answers and peers, and any number of lookups at once.            *)
(*                                                                         *)
(* DhtInv is inductive: QueryInv says that every query that is waited for  *)
(* has an ID and a channel of its own, TransInv that the transactions are  *)
(* those that are waited for and whose channel is not closed; a bucket is  *)
(* sound by itself.                                                        *)
(*                                                                         *)
(* FindClosest is proved to have one answer: Less is a strict order, by    *)
(* the highest bit (Highest); some node is the nearest, by induction over  *)
(* the bits (NearestExists); K of them, by induction over their number     *)
(* (ClosestExists); and two answers cannot differ, by induction over the   *)
(* positions (ClosestIsOne).                                               *)
(***************************************************************************)
EXTENDS Dht, Induction

TableEntry == [id : Others, stale : BOOLEAN]

TableTyped ==
  /\ buckets \in [0 .. Bits - 1 -> Seq(TableEntry)] /\ cached \subseteq FoundPeers
  /\ events \in 0 .. MaxEvents
TransTyped ==
  /\ transID \in Nat /\ transactions \subseteq 1 .. transID /\ overdue \subseteq 1 .. transID
  /\ airborne \subseteq 1 .. transID /\ delivering \in 0 .. transID
ResponsesTyped == \A id \in DOMAIN channel : channel[id] \in Messages \cup {<<>>, Closed}
LookupTyped ==
  /\ lookup \in [Users -> {"idle", "querying", "waiting", "done"}]
  /\ query \in [Users -> 0 .. transID]
NodesTyped ==
  /\ todoNodes \in [Users -> Seq(Others)] /\ visited \in [Users -> SUBSET Others]
  /\ found \in [Users -> SUBSET FoundPeers] /\ adding \in [Users -> SUBSET (Others \cup {Self})]
  /\ \A k \in Users : lookup[k] = "waiting" => todoNodes[k] # <<>>
FlagsTyped ==
  /\ loops \subseteq {"message", "maintenance"}
  /\ nodeState \in {"running", "stopping", "stopped"} /\ panicked \in BOOLEAN

\* Every query that is waited for has an ID and a channel of its own.
QueryInv ==
  /\ \A k \in Users : lookup[k] # "waiting" => query[k] = NoQuery
  /\ \A k \in Users : lookup[k] = "waiting" => query[k] # NoQuery /\ query[k] \in DOMAIN channel
  /\ \A j, k \in Users : lookup[j] = "waiting" /\ lookup[k] = "waiting" /\ j # k => query[j] # query[k]

\* What is in the map of transactions is waited for.
TransInv ==
  ~panicked => \A id : id \in transactions <=>
    \E k \in Users : lookup[k] = "waiting" /\ query[k] = id /\ channel[id] # Closed

PartsTyped == TableTyped /\ TransTyped /\ ResponsesTyped /\ LookupTyped /\ NodesTyped /\ FlagsTyped
DhtInv == PartsTyped /\ QueryInv /\ TransInv /\ BucketsSound

USE DEF tableVars, transVars, lookupVars, loopVars

LEMMA Constants ==
  /\ Bits \in Nat /\ K \in Nat /\ K > 0 /\ MaxEvents \in Nat /\ Self \notin Others
  /\ BootNodes \in Seq(Others)
  BY DhtAssumption

LEMMA ChannelFacts ==
  /\ Closed # <<>>
  /\ \A m \in Messages : m # Closed /\ m # <<>>
  /\ \A m \in Messages : m.nodes \subseteq Others \cup {Self} /\ m.peers \subseteq FoundPeers
  <1>1. Closed # <<>>
    <2>1. DOMAIN Closed = {"closed"} /\ DOMAIN <<>> = {}
      BY DEF Closed
    <2> QED
      BY <2>1
  <1>2. ASSUME NEW m \in Messages PROVE m # Closed /\ m # <<>>
    <2>1. DOMAIN Closed = {"closed"} /\ DOMAIN m = {"closed", "nodes", "peers"} /\ DOMAIN <<>> = {}
      BY DEF Closed, Messages
    <2>2. m.closed = FALSE /\ Closed.closed = TRUE
      BY DEF Closed, Messages
    <2> QED
      BY <2>1, <2>2
  <1>3. ASSUME NEW m \in Messages
        PROVE m.nodes \subseteq Others \cup {Self} /\ m.peers \subseteq FoundPeers
    BY DhtAssumption DEF Messages
  <1> QED
    BY <1>1, <1>2, <1>3

-----------------------------------------------------------------------------
(* The routing table                                                        *)

BucketSound(s) ==
  /\ Len(s) <= K
  /\ \A i, j \in 1 .. Len(s) : i # j => s[i].id # s[j].id

\* What Put may make of the bucket s.
PutGood(s, id, t) ==
  /\ t \in Seq(TableEntry) /\ BucketSound(t)
  /\ \A i \in 1 .. Len(t) : t[i].id = id \/ \E j \in 1 .. Len(s) : s[j].id = t[i].id

LEMMA PutSound ==
  ASSUME NEW s \in Seq(TableEntry), NEW id \in Others, BucketSound(s)
  PROVE  /\ Put(s, id) \in Seq(TableEntry) /\ BucketSound(Put(s, id))
         /\ \A i \in 1 .. Len(Put(s, id)) :
              Put(s, id)[i].id = id \/ \E j \in 1 .. Len(s) : s[j].id = Put(s, id)[i].id
  <1> DEFINE fresh == [id |-> id, stale |-> FALSE]
             same == {i \in 1 .. Len(s) : s[i].id = id}
             old == {i \in 1 .. Len(s) : s[i].stale}
             x == CHOOSE i \in same : TRUE
             y == CHOOSE i \in old : \A j \in old : i <= j
  <1>1. fresh \in TableEntry /\ fresh.id = id
    BY DEF TableEntry
  <1>2. Put(s, id) = CASE same # {} -> [s EXCEPT ![x] = fresh]
                       [] same = {} /\ Len(s) < K -> Append(s, fresh)
                       [] same = {} /\ Len(s) = K /\ old # {} -> [s EXCEPT ![y] = fresh]
                       [] OTHER -> s
    BY DEF Put
  <1>3. Len(s) \in Nat /\ K \in Nat
    BY Constants
  <1>4. ASSUME same # {} PROVE x \in 1 .. Len(s) /\ s[x].id = id
    BY <1>4
  <1>5. \A i \in 1 .. Len(s) : s[i] \in TableEntry
    OBVIOUS
  <1> HIDE DEF x, y, fresh
  <1>6. ASSUME NEW z, same = {} \/ (z \in 1 .. Len(s) /\ s[z].id = id)
        PROVE  PutGood(s, id, [s EXCEPT ![z] = fresh])
    <2> DEFINE t == [s EXCEPT ![z] = fresh]
    <2>1. t \in Seq(TableEntry) /\ Len(t) = Len(s)
      <3>1. s \in [1 .. Len(s) -> TableEntry]
        BY <1>5
      <3>2. t \in [1 .. Len(s) -> TableEntry]
        BY <1>1, <3>1
      <3>3. Len(s) \in Nat
        BY <1>3
      <3> HIDE DEF t
      <3> QED
        BY <3>2, <3>3
    <2>2. \A i \in 1 .. Len(s) : t[i] = IF i = z THEN fresh ELSE s[i]
      OBVIOUS
    <2> HIDE DEF t
    <2>3. \A i \in 1 .. Len(t) : t[i].id = id \/ \E j \in 1 .. Len(s) : s[j].id = t[i].id
      BY <2>1, <2>2, <1>1
    <2>4. ASSUME NEW i \in 1 .. Len(t), NEW j \in 1 .. Len(t), i # j PROVE t[i].id # t[j].id
      <3>1. s[i].id # s[j].id
        BY <2>1, <2>4 DEF BucketSound
      <3>2. CASE i # z /\ j # z
        BY <2>1, <2>2, <3>1, <3>2
      <3>3. CASE i = z
        <4>1. t[i].id = id /\ t[j] = s[j]
          BY <2>1, <2>2, <2>4, <3>3, <1>1
        <4>2. s[j].id # id
          BY <1>6, <2>1, <3>1, <3>3
        <4> QED
          BY <4>1, <4>2
      <3>4. CASE j = z
        <4>1. t[j].id = id /\ t[i] = s[i]
          BY <2>1, <2>2, <2>4, <3>4, <1>1
        <4>2. s[i].id # id
          BY <1>6, <2>1, <3>1, <3>4
        <4> QED
          BY <4>1, <4>2
      <3> QED
        BY <3>2, <3>3, <3>4
    <2>5. BucketSound(t)
      BY <2>1, <2>4 DEF BucketSound
    <2> QED
      BY <2>1, <2>3, <2>5 DEF t, PutGood
  <1>7. ASSUME same = {}, Len(s) < K PROVE PutGood(s, id, Append(s, fresh))
    <2> DEFINE t == Append(s, fresh)
    <2>1. t \in Seq(TableEntry) /\ Len(t) = Len(s) + 1
      BY <1>1
    <2>2. \A i \in 1 .. Len(t) : t[i] = IF i = Len(s) + 1 THEN fresh ELSE s[i]
      BY <1>1
    <2> HIDE DEF t
    <2>3. \A i \in 1 .. Len(t) : i = Len(s) + 1 \/ i \in 1 .. Len(s)
      BY <2>1, <1>3
    <2>4. \A i \in 1 .. Len(t) : t[i].id = id \/ \E j \in 1 .. Len(s) : s[j].id = t[i].id
      BY <2>1, <2>2, <2>3, <1>1
    <2>5. ASSUME NEW i \in 1 .. Len(t), NEW j \in 1 .. Len(t), i # j PROVE t[i].id # t[j].id
      <3>1. CASE i \in 1 .. Len(s) /\ j \in 1 .. Len(s)
        <4>1. t[i] = s[i] /\ t[j] = s[j]
          BY <2>2, <3>1, <1>3
        <4> QED
          BY <2>5, <3>1, <4>1 DEF BucketSound
      <3>2. CASE i = Len(s) + 1
        <4>1. t[i].id = id /\ t[j] = s[j] /\ j \in 1 .. Len(s)
          BY <2>2, <2>3, <2>5, <3>2, <1>1
        <4> QED
          BY <1>7, <4>1
      <3>3. CASE j = Len(s) + 1
        <4>1. t[j].id = id /\ t[i] = s[i] /\ i \in 1 .. Len(s)
          BY <2>2, <2>3, <2>5, <3>3, <1>1
        <4> QED
          BY <1>7, <4>1
      <3> QED
        BY <2>3, <3>1, <3>2, <3>3
    <2>6. BucketSound(t)
      BY <1>3, <1>7, <2>1, <2>5 DEF BucketSound
    <2> QED
      BY <2>1, <2>4, <2>6 DEF t, PutGood
  <1>8. PutGood(s, id, s)
    BY DEF PutGood
  <1> HIDE DEF same, old
  <1> SUFFICES PutGood(s, id, Put(s, id))
    BY DEF PutGood
  <1>9. CASE same # {}
    <2>1. Put(s, id) = [s EXCEPT ![x] = fresh]
      BY <1>2, <1>9
    <2>2. PutGood(s, id, [s EXCEPT ![x] = fresh])
      BY <1>4, <1>6, <1>9
    <2> QED
      BY <2>1, <2>2
  <1>10. CASE same = {}
    <2>1. PutGood(s, id, [s EXCEPT ![y] = fresh])
      BY <1>6, <1>10
    <2>2. CASE Len(s) < K
      <3>1. Put(s, id) = Append(s, fresh)
        BY <1>2, <1>10, <2>2
      <3> QED
        BY <3>1, <1>7, <1>10, <2>2
    <2>3. CASE ~(Len(s) < K) /\ Len(s) = K /\ old # {}
      <3>1. Put(s, id) = [s EXCEPT ![y] = fresh]
        BY <1>2, <1>10, <2>3
      <3> QED
        BY <3>1, <2>1
    <2>4. CASE ~(Len(s) < K) /\ ~(Len(s) = K /\ old # {})
      <3>1. Put(s, id) = s
        BY <1>2, <1>10, <2>4
      <3> QED
        BY <3>1, <1>8
    <2> QED
      BY <2>2, <2>3, <2>4
  <1> QED
    BY <1>9, <1>10

LEMMA AddNodeSound ==
  ASSUME buckets \in [0 .. Bits - 1 -> Seq(TableEntry)], BucketsSound,
         NEW id \in Others \cup {Self}, buckets' = AddNode(buckets, id)
  PROVE  buckets' \in [0 .. Bits - 1 -> Seq(TableEntry)] /\ BucketsSound'
  <1>1. CASE id = Self
    BY <1>1 DEF AddNode, BucketsSound
  <1>2. CASE id # Self
    <2> DEFINE n == BucketIndex(id)
    <2>1. buckets' = [buckets EXCEPT ![n] = Put(buckets[n], id)] /\ id \in Others /\ id # Self
      BY <1>2 DEF AddNode
    <2>2. \A b \in 0 .. Bits - 1 : buckets[b] \in Seq(TableEntry) /\ BucketSound(buckets[b])
      BY DEF BucketsSound, BucketSound
    <2>3. \A b \in 0 .. Bits - 1 : Put(buckets[b], id) \in Seq(TableEntry)
      BY <2>1, <2>2, PutSound
    <2> HIDE DEF n
    <2>4. \A b \in 0 .. Bits - 1 : buckets'[b] = IF b = n THEN Put(buckets[n], id) ELSE buckets[b]
      BY <2>1
    <2>5. buckets' \in [0 .. Bits - 1 -> Seq(TableEntry)]
      BY <2>1, <2>3
    <2>6. ASSUME NEW b \in 0 .. Bits - 1
          PROVE  /\ Len(buckets'[b]) <= K
                 /\ \A i, j \in 1 .. Len(buckets'[b]) :
                      /\ buckets'[b][i].id # Self /\ BucketIndex(buckets'[b][i].id) = b
                      /\ i # j => buckets'[b][i].id # buckets'[b][j].id
      <3>1. CASE b # n
        <4>1. buckets'[b] = buckets[b]
          BY <2>4, <3>1
        <4> QED
          BY <4>1 DEF BucketsSound
      <3>2. CASE b = n
        <4> DEFINE s == buckets[b]
                   t == Put(s, id)
        <4>1. buckets'[b] = t
          BY <2>4, <3>2
        <4>2. s \in Seq(TableEntry) /\ BucketSound(s)
          BY <2>2
        <4>3. BucketSound(t) /\ \A i \in 1 .. Len(t) : t[i].id = id \/ \E j \in 1 .. Len(s) : s[j].id = t[i].id
          BY <4>2, <2>1, PutSound
        <4>4. BucketIndex(id) = b
          BY <3>2 DEF n
        <4>5. \A j \in 1 .. Len(s) : s[j].id # Self /\ BucketIndex(s[j].id) = b
          BY DEF BucketsSound
        <4> HIDE DEF s, t
        <4>6. \A i \in 1 .. Len(t) : t[i].id # Self /\ BucketIndex(t[i].id) = b
          BY <4>3, <4>4, <4>5, <2>1
        <4> QED
          BY <4>1, <4>3, <4>6 DEF BucketSound
      <3> QED
        BY <3>1, <3>2
    <2> QED
      BY <2>5, <2>6 DEF BucketsSound
  <1> QED
    BY <1>1, <1>2

-----------------------------------------------------------------------------
(* One lemma per operation                                                  *)

LEMMA DhtBegins ==
  DhtInit => DhtInv
  <1> SUFFICES ASSUME DhtInit PROVE DhtInv
    OBVIOUS
  <1>1. TableTyped /\ BucketsSound
    BY Constants DEF DhtInit, TableTyped, BucketsSound
  <1>2. TransTyped
    BY DEF DhtInit, TransTyped, NoQuery
  <1>6. LookupTyped
    BY DEF DhtInit, LookupTyped, NoQuery
  <1>7. FlagsTyped
    BY DEF DhtInit, FlagsTyped
  <1>5. ResponsesTyped
    <2>1. DOMAIN channel = {}
      BY DEF DhtInit
    <2> QED
      BY <2>1 DEF ResponsesTyped
  <1>3. NodesTyped
    BY DEF DhtInit, NodesTyped
  <1>4. QueryInv /\ TransInv
    BY DEF DhtInit, QueryInv, TransInv
  <1> QED
    BY <1>1, <1>2, <1>3, <1>4, <1>5, <1>6, <1>7 DEF DhtInv, PartsTyped

(* What an action that leaves the variables of a part alone leaves true.    *)
LEMMA Untouched ==
  ASSUME DhtInv
  PROVE  /\ UNCHANGED <<buckets, cached, events>> => TableTyped'
         /\ UNCHANGED <<transID, transactions, overdue, airborne, delivering>> => TransTyped'
         /\ UNCHANGED channel => ResponsesTyped'
         /\ UNCHANGED <<lookup, query, transID>> => LookupTyped'
         /\ UNCHANGED <<lookup, todoNodes, visited, found, adding>> => NodesTyped'
         /\ UNCHANGED <<loops, nodeState, panicked>> => FlagsTyped'
         /\ UNCHANGED <<lookup, query, channel>> => QueryInv'
         /\ UNCHANGED <<lookup, query, channel, transactions, panicked>> => TransInv'
         /\ UNCHANGED buckets => BucketsSound'
  <1>1. UNCHANGED <<buckets, cached, events>> => TableTyped'
    BY DEF DhtInv, PartsTyped, TableTyped
  <1>2. UNCHANGED <<transID, transactions, overdue, airborne, delivering>> => TransTyped'
    BY DEF DhtInv, PartsTyped, TransTyped
  <1>3. UNCHANGED channel => ResponsesTyped'
    BY DEF DhtInv, PartsTyped, ResponsesTyped
  <1>4. UNCHANGED <<lookup, query, transID>> => LookupTyped'
    BY DEF DhtInv, PartsTyped, LookupTyped
  <1>5. UNCHANGED <<lookup, todoNodes, visited, found, adding>> => NodesTyped'
    BY DEF DhtInv, PartsTyped, NodesTyped
  <1>6. UNCHANGED <<loops, nodeState, panicked>> => FlagsTyped'
    BY DEF DhtInv, PartsTyped, FlagsTyped
  <1>7. UNCHANGED <<lookup, query, channel>> => QueryInv'
    BY DEF DhtInv, QueryInv
  <1>8. UNCHANGED <<lookup, query, channel, transactions, panicked>> => TransInv'
    BY DEF DhtInv, TransInv
  <1>9. UNCHANGED buckets => BucketsSound'
    BY DEF DhtInv, BucketsSound
  <1> QED
    BY <1>1, <1>2, <1>3, <1>4, <1>5, <1>6, <1>7, <1>8, <1>9

LEMMA BootstrapBeginsKeeps ==
  ASSUME DhtInv, BootstrapBegins PROVE DhtInv'
  <1>1. TableTyped' /\ TransTyped' /\ ResponsesTyped' /\ FlagsTyped' /\ BucketsSound'
    BY Untouched DEF BootstrapBegins
  <1>2. LookupTyped' /\ NodesTyped'
    BY Constants DEF BootstrapBegins, DhtInv, PartsTyped, LookupTyped, NodesTyped, Users
  <1>3. QueryInv' /\ TransInv'
    BY DEF BootstrapBegins, DhtInv, PartsTyped, LookupTyped, QueryInv, TransInv
  <1> QED
    BY <1>1, <1>2, <1>3 DEF DhtInv, PartsTyped

LEMMA EntryTyped ==
  ASSUME DhtInv, NEW b \in DOMAIN buckets, NEW i \in 1 .. Len(buckets[b])
  PROVE  buckets[b][i] \in TableEntry /\ buckets[b][i].id \in Others
  <1>1. buckets[b] \in Seq(TableEntry)
    BY DEF DhtInv, PartsTyped, TableTyped
  <1>2. buckets[b][i] \in TableEntry
    BY <1>1
  <1> QED
    BY <1>2 DEF TableEntry

LEMMA KnownNodes ==
  ASSUME DhtInv
  PROVE  Nodes(buckets) \subseteq Others /\ Nodes(buckets) \subseteq NodeIDs
  BY EntryTyped, DhtAssumption DEF Nodes

LEMMA ClosestTyped ==
  ASSUME DhtInv, NEW s \in FindClosest(buckets, Target)
  PROVE  s \in Seq(Others)
  <1>1. Nodes(buckets) \subseteq Others
    BY KnownNodes
  <1>2. PICK n \in 0 .. K : s \in [1 .. n -> Nodes(buckets)]
    BY DEF FindClosest
  <1>3. n \in Nat
    BY Constants
  <1>4. s \in [1 .. n -> Others]
    BY <1>1, <1>2
  <1> QED
    BY <1>3, <1>4

LEMMA GetPeersBeginsKeeps ==
  ASSUME DhtInv, NEW k \in Users, GetPeersBegins(k) PROVE DhtInv'
  <1>1. TableTyped' /\ TransTyped' /\ ResponsesTyped' /\ FlagsTyped' /\ BucketsSound'
    BY Untouched DEF GetPeersBegins
  <1>2. PICK s \in Seq(Others) : todoNodes' = [todoNodes EXCEPT ![k] = s]
    <2>1. <<>> \in Seq(Others)
      OBVIOUS
    <2> QED
      BY <2>1, ClosestTyped DEF GetPeersBegins
  <1>3. PICK c \in {"done", "querying"} : lookup' = [lookup EXCEPT ![k] = c]
    BY DEF GetPeersBegins
  <1>4. LookupTyped' /\ NodesTyped'
    <2>1. LookupTyped'
      BY <1>3 DEF GetPeersBegins, DhtInv, PartsTyped, LookupTyped
    <2>2. todoNodes' \in [Users -> Seq(Others)]
      BY <1>2 DEF DhtInv, PartsTyped, NodesTyped
    <2>3. found' \in [Users -> SUBSET FoundPeers] /\ visited' = visited /\ adding' = adding
      BY DEF GetPeersBegins, DhtInv, PartsTyped, NodesTyped, TableTyped
    <2>4. \A j \in Users : lookup'[j] = "waiting" => todoNodes'[j] # <<>>
      BY <1>2, <1>3 DEF DhtInv, PartsTyped, NodesTyped, LookupTyped
    <2> QED
      BY <2>1, <2>2, <2>3, <2>4 DEF DhtInv, PartsTyped, NodesTyped
  <1>5. lookup[k] # "waiting" /\ \A j \in Users : lookup'[j] = "waiting" <=> lookup[j] = "waiting"
    BY <1>3 DEF GetPeersBegins, DhtInv, PartsTyped, LookupTyped
  <1>6. UNCHANGED <<query, channel, transactions, panicked>>
    BY DEF GetPeersBegins
  <1>7. QueryInv' /\ TransInv'
    BY <1>5, <1>6 DEF DhtInv, QueryInv, TransInv
  <1> QED
    BY <1>1, <1>4, <1>7 DEF DhtInv, PartsTyped

LEMMA QueriesKeeps ==
  ASSUME DhtInv, ~panicked, NEW k \in Users, Queries(k) PROVE DhtInv'
  <1>1. TableTyped' /\ BucketsSound' /\ FlagsTyped'
    BY Untouched DEF Queries
  <1> DEFINE n == transID + 1
  <1>2. transID' = n /\ n \in Nat /\ n > 0 /\ transID \in Nat /\ lookup[k] # "waiting"
    BY DEF Queries, NextID, DhtInv, PartsTyped, TransTyped
  <1>3. todoNodes[k] \in Seq(Others) /\ todoNodes[k] # <<>>
    BY DEF Queries, DhtInv, PartsTyped, NodesTyped
  <1>4. Head(todoNodes[k]) \in Others /\ Tail(todoNodes[k]) \in Seq(Others)
    BY <1>3
  <1>5. visited' \in [Users -> SUBSET Others] /\ found' = found /\ adding' = adding
    BY <1>4 DEF Queries, DhtInv, PartsTyped, NodesTyped
  <1>6. \A j \in Users : query[j] # n
    BY <1>2 DEF DhtInv, PartsTyped, LookupTyped
  <1>7. n \notin transactions
    BY <1>2 DEF DhtInv, PartsTyped, TransTyped
  <1>8. CASE nodeState = "running"
    <2>1. /\ transactions' = transactions \cup {n} /\ airborne' = airborne \cup {n}
          /\ channel' = [id \in DOMAIN channel \cup {n} |-> IF id = n THEN <<>> ELSE channel[id]]
          /\ query' = [query EXCEPT ![k] = n] /\ lookup' = [lookup EXCEPT ![k] = "waiting"]
          /\ todoNodes' = todoNodes /\ overdue' = overdue /\ delivering' = delivering
          /\ panicked' = panicked
      BY <1>8 DEF Queries, NextID
    <2>2. TransTyped'
      <3>1. (1 .. transID) \cup {n} \subseteq 1 .. n
        BY <1>2
      <3>2. transactions \subseteq 1 .. transID /\ overdue \subseteq 1 .. transID /\ airborne \subseteq 1 .. transID
        BY DEF DhtInv, PartsTyped, TransTyped
      <3>3. transactions' \subseteq 1 .. n /\ overdue' \subseteq 1 .. n /\ airborne' \subseteq 1 .. n
        <4> HIDE DEF n, TransTyped, PartsTyped, DhtInv
        <4> QED
          BY <2>1, <3>1, <3>2, Zenon
      <3>4. delivering' \in 0 .. n
        BY <1>2, <2>1 DEF DhtInv, PartsTyped, TransTyped
      <3> QED
        BY <1>2, <3>3, <3>4 DEF TransTyped
    <2>3. ResponsesTyped'
      BY <2>1 DEF DhtInv, PartsTyped, ResponsesTyped
    <2>4. LookupTyped'
      BY <1>2, <2>1 DEF DhtInv, PartsTyped, LookupTyped
    <2>5. NodesTyped'
      BY <1>3, <1>5, <2>1 DEF DhtInv, PartsTyped, NodesTyped, LookupTyped
    <2>6. /\ \A j \in Users : lookup'[j] = IF j = k THEN "waiting" ELSE lookup[j]
          /\ \A j \in Users : query'[j] = IF j = k THEN n ELSE query[j]
          /\ DOMAIN channel' = DOMAIN channel \cup {n} /\ channel'[n] = <<>>
          /\ \A id \in DOMAIN channel : id # n => channel'[id] = channel[id]
      BY <2>1 DEF DhtInv, PartsTyped, LookupTyped
    <2> HIDE DEF n
    <2>7. QueryInv'
      BY <1>2, <1>6, <2>6 DEF DhtInv, QueryInv, NoQuery
    <2>8. ASSUME NEW id PROVE id \in transactions' <=>
            \E j \in Users : lookup'[j] = "waiting" /\ query'[j] = id /\ channel'[id] # Closed
      <3>1. CASE id = n
        BY <2>1, <2>6, <3>1, ChannelFacts
      <3>2. CASE id # n
        <4>1. id \in transactions' <=> id \in transactions
          BY <2>1, <3>2
        <4>2. ASSUME NEW j \in Users
              PROVE  (lookup'[j] = "waiting" /\ query'[j] = id /\ channel'[id] # Closed)
                 <=> (lookup[j] = "waiting" /\ query[j] = id /\ channel[id] # Closed)
          BY <1>2, <2>6, <3>2 DEF DhtInv, QueryInv
        <4> QED
          BY <4>1, <4>2 DEF DhtInv, TransInv
      <3> QED
        BY <3>1, <3>2
    <2> QED
      BY <1>1, <2>2, <2>3, <2>4, <2>5, <2>7, <2>8 DEF DhtInv, PartsTyped, TransInv
  <1>9. CASE nodeState # "running"
    <2>1. /\ todoNodes' = [todoNodes EXCEPT ![k] = Tail(@)]
          /\ UNCHANGED <<transactions, channel, airborne, query, lookup, overdue, delivering, panicked>>
      BY <1>9 DEF Queries
    <2>2. TransTyped' /\ LookupTyped'
      BY <1>2, <2>1 DEF DhtInv, PartsTyped, TransTyped, LookupTyped
    <2>3. ResponsesTyped' /\ QueryInv' /\ TransInv'
      BY <2>1, Untouched
    <2>4. NodesTyped'
      BY <1>2, <1>4, <1>5, <2>1 DEF DhtInv, PartsTyped, NodesTyped
    <2> QED
      BY <1>1, <2>2, <2>3, <2>4 DEF DhtInv, PartsTyped
  <1> QED
    BY <1>8, <1>9

(* The end of a query, with an answer or without one.                       *)
LEMMA GoesKeeps ==
  ASSUME DhtInv, ~panicked, NEW k \in Users, lookup[k] = "waiting", Goes(k),
         transactions' = transactions \ {query[k]}, UNCHANGED <<transID, delivering>>
  PROVE  /\ TransTyped' /\ ResponsesTyped' /\ LookupTyped' /\ QueryInv' /\ TransInv'
         /\ todoNodes' \in [Users -> Seq(Others)]
         /\ \A j \in Users : lookup'[j] = "waiting" => todoNodes'[j] # <<>>
  <1> DEFINE q == query[k]
  <1>1. TransTyped' /\ LookupTyped'
    <2>1. TransTyped'
      BY DEF Goes, DhtInv, PartsTyped, TransTyped
    <2>2. query' \in [Users -> 0 .. transID']
      BY DEF Goes, NoQuery, DhtInv, PartsTyped, TransTyped, LookupTyped
    <2>3. lookup' \in [Users -> {"idle", "querying", "waiting", "done"}]
      BY DEF Goes, DhtInv, PartsTyped, LookupTyped
    <2> QED
      BY <2>1, <2>2, <2>3 DEF LookupTyped
  <1>2. DOMAIN channel' = DOMAIN channel \ ({q} \ {delivering})
        /\ \A id \in DOMAIN channel' : channel'[id] = channel[id]
    BY DEF Goes, Restrict
  <1>3. ResponsesTyped'
    BY <1>2 DEF DhtInv, PartsTyped, ResponsesTyped
  <1>4. /\ \A j \in Users : lookup'[j] = IF j = k THEN "querying" ELSE lookup[j]
        /\ \A j \in Users : query'[j] = IF j = k THEN NoQuery ELSE query[j]
        /\ \A j \in Users : todoNodes'[j] = IF j = k THEN Tail(todoNodes[j]) ELSE todoNodes[j]
    BY DEF Goes, DhtInv, PartsTyped, LookupTyped, NodesTyped
  <1>5. \A j \in Users : j # k /\ lookup[j] = "waiting" => query[j] # q /\ query[j] \in DOMAIN channel
    BY DEF DhtInv, QueryInv
  <1> HIDE DEF q
  <1>6. \A j \in Users : j # k /\ lookup[j] = "waiting" =>
          query[j] \in DOMAIN channel' /\ channel'[query[j]] = channel[query[j]]
    BY <1>2, <1>5
  <1>7. QueryInv'
    BY <1>4, <1>6 DEF DhtInv, QueryInv
  <1>8. ASSUME NEW id PROVE id \in transactions' <=>
          \E j \in Users : lookup'[j] = "waiting" /\ query'[j] = id /\ channel'[id] # Closed
    <2>1. id \in transactions' <=> id \in transactions /\ id # q
      BY DEF q
    <2>2. id \in transactions <=>
            \E j \in Users : lookup[j] = "waiting" /\ query[j] = id /\ channel[id] # Closed
      BY DEF DhtInv, TransInv
    <2>3. ASSUME NEW j \in Users
          PROVE  (lookup'[j] = "waiting" /\ query'[j] = id /\ channel'[id] # Closed)
             <=> (lookup[j] = "waiting" /\ query[j] = id /\ channel[id] # Closed /\ id # q)
      <3>1. CASE j = k
        BY <1>4, <3>1 DEF q
      <3>2. CASE j # k
        BY <1>4, <1>5, <1>6, <3>2
      <3> QED
        BY <3>1, <3>2
    <2> QED
      BY <2>1, <2>2, <2>3
  <1>9. todoNodes' \in [Users -> Seq(Others)]
    <2>1. todoNodes[k] \in Seq(Others) /\ todoNodes[k] # <<>>
      BY DEF DhtInv, PartsTyped, NodesTyped
    <2>2. Tail(todoNodes[k]) \in Seq(Others)
      BY <2>1
    <2> QED
      BY <2>2 DEF Goes, DhtInv, PartsTyped, NodesTyped
  <1>10. \A j \in Users : lookup'[j] = "waiting" => todoNodes'[j] # <<>>
    BY <1>4 DEF DhtInv, PartsTyped, NodesTyped
  <1> QED
    BY <1>1, <1>3, <1>7, <1>8, <1>9, <1>10 DEF TransInv

LEMMA TakesResponseKeeps ==
  ASSUME DhtInv, ~panicked, NEW k \in Users, TakesResponse(k) PROVE DhtInv'
  <1> DEFINE message == channel[query[k]]
  <1>1. TableTyped' /\ BucketsSound'
    BY Untouched DEF TakesResponse
  <1>2. lookup[k] = "waiting" /\ message # <<>> /\ transactions' = transactions \ {query[k]}
        /\ UNCHANGED <<transID, delivering, loops, nodeState>>
    BY DEF TakesResponse
  <1>3. CASE message = Closed
    <2>1. panicked' = TRUE /\ UNCHANGED <<lookup, todoNodes, visited, query, found, adding, channel,
                                          overdue, airborne>>
      BY <1>3 DEF TakesResponse
    <2>2. ResponsesTyped' /\ LookupTyped' /\ NodesTyped' /\ QueryInv'
      BY <1>2, <2>1, Untouched
    <2>3. TransTyped'
      BY <1>2, <2>1 DEF DhtInv, PartsTyped, TransTyped
    <2>4. FlagsTyped' /\ TransInv'
      BY <1>2, <2>1 DEF DhtInv, PartsTyped, FlagsTyped, TransInv
    <2> QED
      BY <1>1, <2>2, <2>3, <2>4 DEF DhtInv, PartsTyped
  <1>4. CASE message # Closed
    <2>1. /\ adding' = [adding EXCEPT ![k] = message.nodes \ Skipped(k)]
          /\ found' = [found EXCEPT ![k] = @ \cup message.peers]
          /\ Goes(k) /\ UNCHANGED <<visited, panicked>>
      BY <1>4 DEF TakesResponse
    <2>2. query[k] \in DOMAIN channel
      BY <1>2 DEF DhtInv, QueryInv
    <2>3. message \in Messages
      BY <1>2, <1>4, <2>2 DEF DhtInv, PartsTyped, ResponsesTyped
    <2>4. message.nodes \subseteq Others \cup {Self} /\ message.peers \subseteq FoundPeers
      BY <2>3, ChannelFacts
    <2> HIDE DEF message
    <2>5. found' \in [Users -> SUBSET FoundPeers] /\ adding' \in [Users -> SUBSET (Others \cup {Self})]
      BY <2>1, <2>4 DEF DhtInv, PartsTyped, NodesTyped
    <2>6. /\ TransTyped' /\ ResponsesTyped' /\ LookupTyped' /\ QueryInv' /\ TransInv'
          /\ todoNodes' \in [Users -> Seq(Others)]
          /\ \A j \in Users : lookup'[j] = "waiting" => todoNodes'[j] # <<>>
      BY <1>2, <2>1, GoesKeeps
    <2>7. NodesTyped'
      BY <2>1, <2>5, <2>6 DEF DhtInv, PartsTyped, NodesTyped
    <2>8. FlagsTyped'
      BY <1>2, <2>1, Untouched
    <2> QED
      BY <1>1, <2>6, <2>7, <2>8 DEF DhtInv, PartsTyped
  <1> QED
    BY <1>3, <1>4

LEMMA QueryTimesOutKeeps ==
  ASSUME DhtInv, ~panicked, NEW k \in Users, QueryTimesOut(k) PROVE DhtInv'
  <1>1. TableTyped' /\ BucketsSound' /\ FlagsTyped'
    BY Untouched DEF QueryTimesOut
  <1>2. /\ TransTyped' /\ ResponsesTyped' /\ LookupTyped' /\ QueryInv' /\ TransInv'
        /\ todoNodes' \in [Users -> Seq(Others)]
        /\ \A j \in Users : lookup'[j] = "waiting" => todoNodes'[j] # <<>>
    BY GoesKeeps DEF QueryTimesOut, TransactionGone
  <1>3. NodesTyped'
    BY <1>2 DEF QueryTimesOut, DhtInv, PartsTyped, NodesTyped
  <1> QED
    BY <1>1, <1>2, <1>3 DEF DhtInv, PartsTyped

LEMMA LookupEndsKeeps ==
  ASSUME DhtInv, NEW k \in Users, LookupEnds(k) PROVE DhtInv'
  <1>1. TransTyped' /\ ResponsesTyped' /\ FlagsTyped' /\ BucketsSound'
    BY Untouched DEF LookupEnds
  <1>2. TableTyped'
    BY DEF LookupEnds, DhtInv, PartsTyped, TableTyped, NodesTyped
  <1>3. LookupTyped' /\ NodesTyped'
    BY DEF LookupEnds, DhtInv, PartsTyped, LookupTyped, NodesTyped
  <1>4. \A j \in Users : lookup'[j] = "waiting" <=> lookup[j] = "waiting"
    BY DEF LookupEnds, DhtInv, PartsTyped, LookupTyped
  <1>5. QueryInv' /\ TransInv'
    BY <1>4 DEF LookupEnds, DhtInv, QueryInv, TransInv
  <1> QED
    BY <1>1, <1>2, <1>3, <1>5 DEF DhtInv, PartsTyped

LEMMA AddsKeeps ==
  ASSUME DhtInv, NEW k \in Users, NEW id \in adding[k], Adds(k, id) PROVE DhtInv'
  <1>1. /\ TransTyped' /\ ResponsesTyped' /\ LookupTyped' /\ FlagsTyped'
        /\ QueryInv' /\ TransInv'
    BY Untouched DEF Adds
  <1>2. NodesTyped'
    BY DEF Adds, DhtInv, PartsTyped, NodesTyped
  <1>3. id \in Others \cup {Self}
    BY DEF DhtInv, PartsTyped, NodesTyped
  <1>4. buckets' \in [0 .. Bits - 1 -> Seq(TableEntry)] /\ BucketsSound'
    BY <1>3, AddNodeSound DEF Adds, DhtInv, PartsTyped, TableTyped
  <1>5. TableTyped'
    BY <1>4 DEF Adds, DhtInv, PartsTyped, TableTyped
  <1> QED
    BY <1>1, <1>2, <1>4, <1>5 DEF DhtInv, PartsTyped

LEMMA ReceivesKeeps ==
  ASSUME DhtInv, NEW id \in airborne, Receives(id) PROVE DhtInv'
  <1>1. /\ TableTyped' /\ ResponsesTyped' /\ LookupTyped' /\ NodesTyped' /\ FlagsTyped'
        /\ QueryInv' /\ TransInv' /\ BucketsSound'
    BY Untouched DEF Receives
  <1>2. TransTyped'
    BY DEF Receives, DhtInv, PartsTyped, TransTyped
  <1> QED
    BY <1>1, <1>2 DEF DhtInv, PartsTyped

LEMMA DeliversKeeps ==
  ASSUME DhtInv, ~panicked, NEW m \in Messages, Delivers(m) PROVE DhtInv'
  <1> DEFINE d == delivering
             Awaited == {query[k] : k \in Users}
  <1>1. TableTyped' /\ LookupTyped' /\ NodesTyped' /\ BucketsSound'
    BY Untouched DEF Delivers
  <1>2. TransTyped'
    BY DEF Delivers, DhtInv, PartsTyped, TransTyped, NoQuery
  <1>3. UNCHANGED <<transactions, lookup, query, loops, nodeState>> /\ d # NoQuery
    BY DEF Delivers
  <1>4. CASE channel[d] = Closed
    <2>1. panicked' = TRUE /\ UNCHANGED channel
      BY <1>4, ChannelFacts DEF Delivers
    <2>2. ResponsesTyped' /\ QueryInv'
      BY <1>3, <2>1, Untouched
    <2>3. FlagsTyped' /\ TransInv'
      BY <1>3, <2>1 DEF DhtInv, PartsTyped, FlagsTyped, TransInv
    <2> QED
      BY <1>1, <1>2, <2>2, <2>3 DEF DhtInv, PartsTyped
  <1>5. CASE channel[d] = <<>> /\ d \in Awaited
    <2>1. channel' = [channel EXCEPT ![d] = m] /\ UNCHANGED panicked
      BY <1>5, ChannelFacts DEF Delivers
    <2>2. FlagsTyped'
      BY <1>3, <2>1, Untouched
    <2>3. ResponsesTyped'
      BY <2>1 DEF DhtInv, PartsTyped, ResponsesTyped
    <2>4. QueryInv'
      BY <1>3, <2>1 DEF DhtInv, QueryInv
    <2>5. \A id \in DOMAIN channel : channel'[id] # Closed <=> channel[id] # Closed
      BY <1>5, <2>1, ChannelFacts
    <2>6. ASSUME NEW k \in Users, lookup[k] = "waiting"
          PROVE  channel'[query[k]] # Closed <=> channel[query[k]] # Closed
      BY <2>5, <2>6 DEF DhtInv, QueryInv
    <2>7. TransInv'
      BY <1>3, <2>1, <2>6 DEF DhtInv, TransInv
    <2> QED
      BY <1>1, <1>2, <2>2, <2>3, <2>4, <2>7 DEF DhtInv, PartsTyped
  <1>6. CASE channel[d] # Closed /\ ~(channel[d] = <<>> /\ d \in Awaited)
    <2>1. channel' = Restrict(channel, DOMAIN channel \cap Awaited) /\ UNCHANGED panicked
      BY <1>6 DEF Delivers
    <2>2. FlagsTyped'
      BY <1>3, <2>1, Untouched
    <2>3. DOMAIN channel' = DOMAIN channel \cap Awaited
          /\ \A id \in DOMAIN channel' : channel'[id] = channel[id]
      BY <2>1 DEF Restrict
    <2>4. ResponsesTyped'
      BY <2>3 DEF DhtInv, PartsTyped, ResponsesTyped
    <2>5. \A k \in Users : lookup[k] = "waiting" =>
            query[k] \in DOMAIN channel' /\ channel'[query[k]] = channel[query[k]]
      BY <2>3 DEF DhtInv, QueryInv
    <2>6. QueryInv' /\ TransInv'
      BY <1>3, <2>1, <2>5 DEF DhtInv, QueryInv, TransInv
    <2> QED
      BY <1>1, <1>2, <2>2, <2>4, <2>6 DEF DhtInv, PartsTyped
  <1> QED
    BY <1>4, <1>5, <1>6

LEMMA HandleQueryKeeps ==
  ASSUME DhtInv, NEW id \in Others, NEW announced \in SUBSET FoundPeers, HandleQuery(id, announced)
  PROVE  DhtInv'
  <1>1. /\ TransTyped' /\ ResponsesTyped' /\ LookupTyped' /\ NodesTyped' /\ FlagsTyped'
        /\ QueryInv' /\ TransInv'
    BY Untouched DEF HandleQuery
  <1>2. buckets' \in [0 .. Bits - 1 -> Seq(TableEntry)] /\ BucketsSound'
    BY AddNodeSound DEF HandleQuery, DhtInv, PartsTyped, TableTyped
  <1>3. TableTyped'
    BY <1>2, Constants DEF HandleQuery, DhtInv, PartsTyped, TableTyped
  <1> QED
    BY <1>1, <1>2, <1>3 DEF DhtInv, PartsTyped

LEMMA PerformMaintenanceKeeps ==
  ASSUME DhtInv, ~panicked, PerformMaintenance PROVE DhtInv'
  <1> DEFINE old == transactions \cap overdue
  <1>1. TableTyped' /\ LookupTyped' /\ NodesTyped' /\ FlagsTyped' /\ BucketsSound'
    BY Untouched DEF PerformMaintenance
  <1>2. TransTyped'
    BY DEF PerformMaintenance, DhtInv, PartsTyped, TransTyped
  <1>3. channel' = [id \in DOMAIN channel |-> IF id \in old THEN Closed ELSE channel[id]]
        /\ transactions' = transactions \ old /\ UNCHANGED <<lookup, query, panicked>>
    BY DEF PerformMaintenance
  <1> HIDE DEF old
  <1>4. ResponsesTyped'
    BY <1>3 DEF DhtInv, PartsTyped, ResponsesTyped
  <1>5. QueryInv'
    BY <1>3 DEF DhtInv, QueryInv
  <1>6. \A k \in Users : lookup[k] = "waiting" =>
          (channel'[query[k]] # Closed <=> channel[query[k]] # Closed /\ query[k] \notin old)
    BY <1>3 DEF DhtInv, QueryInv
  <1>7. TransInv'
    BY <1>3, <1>6 DEF DhtInv, TransInv
  <1> QED
    BY <1>1, <1>2, <1>4, <1>5, <1>7 DEF DhtInv, PartsTyped

LEMMA OverdueKeeps ==
  ASSUME DhtInv, NEW id \in transactions, Overdue(id) PROVE DhtInv'
  <1>1. /\ TableTyped' /\ ResponsesTyped' /\ LookupTyped' /\ NodesTyped' /\ FlagsTyped'
        /\ QueryInv' /\ TransInv' /\ BucketsSound'
    BY Untouched DEF Overdue
  <1>2. TransTyped'
    BY DEF Overdue, DhtInv, PartsTyped, TransTyped
  <1> QED
    BY <1>1, <1>2 DEF DhtInv, PartsTyped

LEMMA StoppingKeeps ==
  ASSUME DhtInv, DhtStops \/ DhtStopped \/ \E l \in loops : LoopStops(l) PROVE DhtInv'
  <1>1. /\ TableTyped' /\ TransTyped' /\ ResponsesTyped' /\ LookupTyped' /\ NodesTyped'
        /\ QueryInv' /\ TransInv' /\ BucketsSound'
    BY Untouched DEF DhtStops, DhtStopped, LoopStops
  <1>2. FlagsTyped'
    BY DEF DhtStops, DhtStopped, LoopStops, DhtInv, PartsTyped, FlagsTyped
  <1> QED
    BY <1>1, <1>2 DEF DhtInv, PartsTyped

LEMMA AgesKeeps ==
  ASSUME DhtInv, NEW b \in DOMAIN buckets, NEW i \in 1 .. Len(buckets[b]), Ages(b, i) PROVE DhtInv'
  <1> DEFINE s == buckets[b]
             t == [s EXCEPT ![i].stale = TRUE]
  <1>1. /\ TransTyped' /\ ResponsesTyped' /\ LookupTyped' /\ NodesTyped' /\ FlagsTyped'
        /\ QueryInv' /\ TransInv'
    BY Untouched DEF Ages
  <1>2. buckets' = [buckets EXCEPT ![b] = t] /\ buckets \in [0 .. Bits - 1 -> Seq(TableEntry)]
        /\ events' \in 0 .. MaxEvents /\ cached' \subseteq FoundPeers
    BY Constants DEF Ages, DhtInv, PartsTyped, TableTyped
  <1>3. s \in Seq(TableEntry) /\ b \in 0 .. Bits - 1
    BY <1>2
  <1>4. t \in Seq(TableEntry) /\ Len(t) = Len(s) /\ \A j \in 1 .. Len(s) : t[j].id = s[j].id
    <2>1. Len(s) \in Nat /\ s \in [1 .. Len(s) -> TableEntry]
      BY <1>3
    <2> DEFINE e == [s[i] EXCEPT !.stale = TRUE]
    <2>2. s[i] \in TableEntry
      BY <2>1
    <2>3. e \in TableEntry /\ e.id = s[i].id
      BY <2>2 DEF TableEntry
    <2> HIDE DEF e
    <2>4. t = [s EXCEPT ![i] = e]
      BY DEF e
    <2> HIDE DEF t
    <2>5. t \in [1 .. Len(s) -> TableEntry] /\ \A j \in 1 .. Len(s) : t[j] = IF j = i THEN e ELSE s[j]
      BY <2>1, <2>3, <2>4
    <2>6. t \in Seq(TableEntry) /\ Len(t) = Len(s)
      BY <2>1, <2>5
    <2> QED
      BY <2>3, <2>5, <2>6
  <1> HIDE DEF t
  <1>5. TableTyped'
    BY <1>2, <1>4 DEF TableTyped
  <1>6. \A c \in 0 .. Bits - 1 : Len(buckets'[c]) = Len(buckets[c])
          /\ \A j \in 1 .. Len(buckets[c]) : buckets'[c][j].id = buckets[c][j].id
    BY <1>2, <1>4
  <1>7. DOMAIN buckets' = 0 .. Bits - 1 /\ DOMAIN buckets = 0 .. Bits - 1
    BY <1>2
  <1>8. BucketsSound'
    <2> SUFFICES ASSUME NEW c \in 0 .. Bits - 1
                 PROVE  /\ Len(buckets'[c]) <= K
                        /\ \A x, y \in 1 .. Len(buckets'[c]) :
                             /\ buckets'[c][x].id # Self /\ BucketIndex(buckets'[c][x].id) = c
                             /\ x # y => buckets'[c][x].id # buckets'[c][y].id
      BY <1>7 DEF BucketsSound
    <2>1. /\ Len(buckets[c]) <= K
          /\ \A x, y \in 1 .. Len(buckets[c]) :
               /\ buckets[c][x].id # Self /\ BucketIndex(buckets[c][x].id) = c
               /\ x # y => buckets[c][x].id # buckets[c][y].id
      BY <1>7 DEF DhtInv, BucketsSound
    <2> QED
      BY <1>6, <2>1
  <1> QED
    BY <1>1, <1>5, <1>8 DEF DhtInv, PartsTyped

-----------------------------------------------------------------------------
LEMMA StepKeeps ==
  ASSUME DhtInv, [DhtNext]_dhtVars PROVE DhtInv'
  <1>1. CASE UNCHANGED dhtVars
    BY <1>1, Untouched DEF dhtVars, DhtInv, PartsTyped
  <1>2. ASSUME ~panicked, NEW k \in Users, GetPeersBegins(k) \/ Lookup(k) PROVE DhtInv'
    BY <1>2, GetPeersBeginsKeeps, QueriesKeeps, TakesResponseKeeps, QueryTimesOutKeeps,
       LookupEndsKeeps, AddsKeeps DEF Lookup
  <1>3. ASSUME ~panicked, NEW m \in Messages, Delivers(m) PROVE DhtInv'
    BY <1>3, DeliversKeeps
  <1>4. ASSUME NEW id \in Others, NEW announced \in {{}} \cup {{p} : p \in FoundPeers},
               HandleQuery(id, announced)
        PROVE  DhtInv'
    <2>1. announced \in SUBSET FoundPeers
      OBVIOUS
    <2> QED
      BY <1>4, <2>1, HandleQueryKeeps
  <1>5. ASSUME ~panicked, PerformMaintenance \/ DhtStops \/ DhtStopped \/ \E l \in loops : LoopStops(l)
        PROVE  DhtInv'
    BY <1>5, PerformMaintenanceKeeps, StoppingKeeps
  <1>6. ASSUME NEW id \in airborne, Receives(id) PROVE DhtInv'
    BY <1>6, ReceivesKeeps
  <1>7. ASSUME NEW id \in transactions, Overdue(id) PROVE DhtInv'
    BY <1>7, OverdueKeeps
  <1>8. ASSUME NEW b \in DOMAIN buckets, NEW i \in 1 .. Len(buckets[b]), Ages(b, i) PROVE DhtInv'
    BY <1>8, AgesKeeps
  <1> QED
    BY <1>1, <1>2, <1>3, <1>4, <1>5, <1>6, <1>7, <1>8, BootstrapBeginsKeeps DEF DhtNext

LEMMA DhtInvariant ==
  DhtSpec => []DhtInv
  BY DhtBegins, StepKeeps, PTL DEF DhtSpec

-----------------------------------------------------------------------------
(* What FindClosest returns                                                 *)

Bit == 0 .. Bits - 1

Nearer(a, b, target) == Less(Distance(a, target), Distance(b, target))

LEMMA DistanceFacts ==
  ASSUME NEW a \in NodeIDs, NEW b \in NodeIDs
  PROVE  /\ Distance(a, b) \in SUBSET Bit
         /\ \A c \in NodeIDs : Distance(a, c) = Distance(b, c) => a = b
  <1>1. Distance(a, b) \in SUBSET Bit
    BY DEF Distance, NodeIDs, Bit
  <1>2. ASSUME NEW c \in NodeIDs, Distance(a, c) = Distance(b, c) PROVE a = b
    <2>1. \A x : x \in Distance(a, c) <=> x \in Distance(b, c)
      BY <1>2
    <2>2. \A x : x \in a <=> x \in b
      BY <2>1 DEF Distance
    <2> QED
      BY <2>2
  <1> QED
    BY <1>1, <1>2

(* Every set of bits has a highest one.                                     *)
LEMMA Highest ==
  ASSUME NEW d \in SUBSET Bit, d # {}
  PROVE  \E h \in d : \A c \in d : c <= h
  <1>1. Bits \in Nat
    BY Constants
  <1> DEFINE T == {Bits - c : c \in d}
  <1>2. T \subseteq Nat /\ T # {}
    <2>1. ASSUME NEW c \in d PROVE Bits - c \in Nat
      <3>1. c \in 0 .. Bits - 1
        BY DEF Bit
      <3> QED
        BY <1>1, <3>1
    <2> QED
      BY <2>1
  <1>3. PICK x \in T : \A y \in T : x <= y
    <2> HIDE DEF T
    <2> QED
      BY <1>2, Least
  <1>4. PICK h \in d : x = Bits - h
    BY <1>3
  <1>5. ASSUME NEW c \in d PROVE c <= h
    <2>1. Bits - c \in T
      OBVIOUS
    <2>2. Bits - h <= Bits - c
      BY <1>3, <1>4, <2>1
    <2> QED
      BY <1>1, <2>2 DEF Bit
  <1> QED
    BY <1>5

(* Less is a strict order in which any two distances can be compared.       *)
LEMMA LessIsOrder ==
  ASSUME NEW d \in SUBSET Bit, NEW e \in SUBSET Bit
  PROVE  /\ ~ Less(d, d)
         /\ ~ (Less(d, e) /\ Less(e, d))
         /\ d = e \/ Less(d, e) \/ Less(e, d)
  <1>1. \A c \in Bit : c \in Nat
    BY Constants DEF Bit
  <1>2. ~ Less(d, d)
    BY DEF Less
  <1>3. ASSUME Less(d, e), Less(e, d) PROVE FALSE
    <2>1. PICK b \in e \ d : \A c \in d \ e : c < b
      BY <1>3 DEF Less
    <2>2. PICK c \in d \ e : \A x \in e \ d : x < c
      BY <1>3 DEF Less
    <2>3. c < b /\ b < c /\ b \in Nat /\ c \in Nat
      BY <1>1, <2>1, <2>2
    <2> QED
      BY <2>3
  <1>4. ASSUME d # e PROVE Less(d, e) \/ Less(e, d)
    <2> DEFINE X == Distance(d, e)
    <2>1. X \in SUBSET Bit /\ X # {}
      BY <1>4 DEF Distance
    <2>2. PICK h \in X : \A c \in X : c <= h
      <3> HIDE DEF X
      <3> QED
        BY <2>1, Highest
    <2>3. \A c \in X : c # h => c < h
      BY <1>1, <2>1, <2>2
    <2>4. CASE h \in e \ d
      <3>1. \A c \in d \ e : c \in X /\ c # h
        BY <2>4 DEF Distance
      <3> QED
        BY <2>3, <2>4, <3>1 DEF Less
    <2>5. CASE h \in d \ e
      <3>1. \A c \in e \ d : c \in X /\ c # h
        BY <2>5 DEF Distance
      <3> QED
        BY <2>3, <2>5, <3>1 DEF Less
    <2> QED
      BY <2>2, <2>4, <2>5 DEF Distance
  <1> QED
    BY <1>2, <1>3, <1>4

LEMMA NearerIsOrder ==
  ASSUME NEW target \in NodeIDs, NEW a \in NodeIDs, NEW b \in NodeIDs
  PROVE  /\ ~ Nearer(a, a, target)
         /\ ~ (Nearer(a, b, target) /\ Nearer(b, a, target))
         /\ a = b \/ Nearer(a, b, target) \/ Nearer(b, a, target)
  <1>1. Distance(a, target) \in SUBSET Bit /\ Distance(b, target) \in SUBSET Bit
    BY DistanceFacts
  <1>2. Distance(a, target) = Distance(b, target) => a = b
    BY DistanceFacts
  <1> QED
    BY <1>1, <1>2, LessIsOrder DEF Nearer

\* The bits of d from Bits - n on decide that it is less than e.
Decides(d, e, n) == \E b \in e \ d : b >= Bits - n /\ \A c \in d \ e : c < b

\* No set of W is less than d, as far as the n highest bits tell.
LeastSoFar(W, d, n) ==
  \A e \in W : (\E c \in Distance(d, e) : c >= Bits - n) => Decides(d, e, n)

LEMMA LeastStep ==
  ASSUME NEW W \in SUBSET (SUBSET Bit), NEW n \in Nat, n < Bits,
         NEW d \in W, LeastSoFar(W, d, n)
  PROVE  \E f \in W : LeastSoFar(W, f, n + 1)
  <1> DEFINE p == Bits - (n + 1)
             Agree(x, y) == \A c \in Bit : c > p => (c \in x <=> c \in y)
  <1>1. Bits \in Nat /\ p \in Nat /\ p + 1 = Bits - n /\ Bits - (n + 1) = p
    BY Constants
  <1>2. \A c \in Bit : c \in Nat
    BY <1>1 DEF Bit
  <1>3. PICK f \in W : Agree(d, f) /\ (p \in f => \A e \in W : Agree(d, e) => p \in e)
    <2>1. CASE \A e \in W : Agree(d, e) => p \in e
      <3>1. Agree(d, d)
        OBVIOUS
      <3> QED
        BY <2>1, <3>1
    <2>2. CASE \E e \in W : Agree(d, e) /\ p \notin e
      BY <2>2
    <2> QED
      BY <2>1, <2>2
  <1> HIDE DEF p
  <1>4. ASSUME NEW e \in W, NEW c0 \in Distance(f, e), c0 >= p
        PROVE  Decides(f, e, n + 1)
    <2>0. f \subseteq Bit /\ e \subseteq Bit /\ d \subseteq Bit /\ c0 \in Bit
      BY DEF Distance
    <2>1. CASE Agree(f, e)
      <3>1. c0 = p
        BY <1>1, <1>2, <1>4, <2>0, <2>1 DEF Distance
      <3>2. Agree(d, e)
        BY <1>3, <2>1
      <3>3. p \in e \ f
        BY <1>3, <3>1, <3>2 DEF Distance
      <3>4. ASSUME NEW c \in f \ e PROVE c < p
        <4>1. c \in Bit /\ c \in Nat /\ ~(c > p) /\ c # p
          BY <1>2, <2>0, <2>1, <3>3
        <4> QED
          BY <1>1, <4>1
      <3> QED
        BY <1>1, <3>3, <3>4 DEF Decides
    <2>2. CASE ~ Agree(f, e)
      <3>1. PICK c1 \in Bit : c1 > p /\ ~(c1 \in f <=> c1 \in e)
        BY <2>2
      <3>2. c1 \in Distance(d, e) /\ c1 >= Bits - n
        BY <1>1, <1>2, <1>3, <3>1 DEF Distance
      <3>3. PICK b \in e \ d : b >= Bits - n /\ \A c \in d \ e : c < b
        BY <3>2 DEF LeastSoFar, Decides
      <3>4. b \in Bit /\ b \in Nat /\ b > p
        BY <1>1, <1>2, <2>0, <3>3
      <3>5. b \in e \ f
        BY <1>3, <3>3, <3>4
      <3>6. ASSUME NEW c \in f \ e PROVE c < b
        <4>1. c \in Bit /\ c \in Nat
          BY <1>2, <2>0
        <4>2. CASE c > p
          BY <1>3, <3>3, <4>1, <4>2
        <4>3. CASE ~(c > p)
          BY <1>1, <3>4, <4>1, <4>3
        <4> QED
          BY <4>2, <4>3
      <3> QED
        BY <1>1, <3>4, <3>5, <3>6 DEF Decides
    <2> QED
      BY <2>1, <2>2
  <1> QED
    BY <1>1, <1>4 DEF LeastSoFar

(* Of any set of nodes one is the nearest.                                  *)
LEMMA NearestExists ==
  ASSUME NEW X \in SUBSET NodeIDs, X # {}, NEW target \in NodeIDs
  PROVE  \E a \in X : \A b \in X : a # b => Nearer(a, b, target)
  <1> DEFINE W == {Distance(x, target) : x \in X}
             T == {n \in 0 .. Bits : \E d \in W : LeastSoFar(W, d, n)}
  <1>1. Bits \in Nat
    BY Constants
  <1>2. W \in SUBSET (SUBSET Bit) /\ W # {}
    BY DistanceFacts
  <1>3. 0 \in T
    <2>1. PICK d \in W : TRUE
      BY <1>2
    <2>2. \A e \in W : \A c \in Distance(d, e) : ~(c >= Bits - 0)
      <3> HIDE DEF W
      <3> QED
        BY <1>1, <1>2 DEF Distance, Bit
    <2> QED
      BY <1>1, <2>2 DEF LeastSoFar
  <1>4. ASSUME NEW n \in 0 .. Bits, n \in T, n < Bits PROVE n + 1 \in T
    <2>1. PICK d \in W : LeastSoFar(W, d, n)
      BY <1>4
    <2>2. n \in Nat /\ n + 1 \in 0 .. Bits
      BY <1>1, <1>4
    <2> HIDE DEF W
    <2>3. \E f \in W : LeastSoFar(W, f, n + 1)
      BY <1>2, <1>4, <2>1, <2>2, LeastStep
    <2> QED
      BY <2>2, <2>3
  <1>5. Bits \in T
    <2> HIDE DEF T
    <2>1. 0 .. Bits \subseteq T
      BY <1>1, <1>3, <1>4, UpTo
    <2> QED
      BY <1>1, <2>1
  <1>6. PICK d \in W : LeastSoFar(W, d, Bits)
    BY <1>5
  <1>7. PICK a \in X : d = Distance(a, target)
    BY <1>6
  <1>8. ASSUME NEW b \in X, a # b PROVE Nearer(a, b, target)
    <2> DEFINE e == Distance(b, target)
    <2>1. e \in W /\ d # e
      BY <1>7, <1>8, DistanceFacts
    <2>2. d \subseteq Bit /\ e \subseteq Bit
      BY <1>2, <1>6, <2>1
    <2> HIDE DEF e, W
    <2>3. \E c \in Distance(d, e) : c >= Bits - Bits
      <3>1. PICK c \in Distance(d, e) : TRUE
        BY <2>1 DEF Distance
      <3>2. c \in Nat
        BY <1>1, <2>2 DEF Distance, Bit
      <3> QED
        BY <1>1, <3>2
    <2>4. Decides(d, e, Bits)
      BY <1>6, <2>1, <2>3 DEF LeastSoFar
    <2> QED
      BY <1>7, <2>4 DEF Decides, Less, Nearer, e
  <1> QED
    BY <1>8

\* The nodes of the set N in the order of their distance, as far as s goes.
Closest(s, N, target) ==
  /\ \A i, j \in DOMAIN s : i < j => Nearer(s[i], s[j], target)
  /\ \A a \in N \ Range(s) : \A i \in DOMAIN s : Nearer(s[i], a, target)

LEMMA FindClosestIs ==
  ASSUME NEW table, NEW target
  PROVE  FindClosest(table, target) =
           {s \in UNION {[1 .. n -> Nodes(table)] : n \in 0 .. K} :
              Closest(s, Nodes(table), target) /\ (Nodes(table) \ Range(s) # {} => Len(s) = K)}
  BY DEF FindClosest, Closest, Nearer

LEMMA FunctionLength ==
  ASSUME NEW n \in Nat, NEW S, NEW s \in [1 .. n -> S]
  PROVE  s \in Seq(S) /\ Len(s) = n /\ DOMAIN s = 1 .. n
  OBVIOUS

(* One more node: the nearest of those that are left.                       *)
LEMMA ClosestStep ==
  ASSUME NEW N \in SUBSET NodeIDs, NEW target \in NodeIDs, NEW n \in Nat,
         NEW s \in [1 .. n -> N], Closest(s, N, target), N \ Range(s) # {}
  PROVE  \E t \in [1 .. n + 1 -> N] : Closest(t, N, target)
  <1>1. PICK a \in N \ Range(s) : \A b \in N \ Range(s) : a # b => Nearer(a, b, target)
    <2>1. N \ Range(s) \in SUBSET NodeIDs
      OBVIOUS
    <2> QED
      BY <2>1, NearestExists
  <1> DEFINE t == [i \in 1 .. n + 1 |-> IF i <= n THEN s[i] ELSE a]
  <1>2. t \in [1 .. n + 1 -> N]
    OBVIOUS
  <1>3. \A i \in 1 .. n + 1 : IF i <= n THEN i \in 1 .. n /\ t[i] = s[i] ELSE i = n + 1 /\ t[i] = a
    OBVIOUS
  <1>4. DOMAIN t = 1 .. n + 1 /\ DOMAIN s = 1 .. n
    OBVIOUS
  <1>5. \A i \in 1 .. n : i \in 1 .. n + 1 /\ t[i] = s[i]
    OBVIOUS
  <1>6. n + 1 \in 1 .. n + 1 /\ t[n + 1] = a
    OBVIOUS
  <1> HIDE DEF t
  <1>7. N \ Range(t) \subseteq (N \ Range(s)) \ {a}
    <2>1. ASSUME NEW b \in N \ Range(t) PROVE b \notin Range(s) /\ b # a
      <3>1. \A i \in 1 .. n + 1 : t[i] # b
        BY <1>4 DEF Range
      <3> QED
        BY <1>4, <1>5, <1>6, <3>1 DEF Range
    <2> QED
      BY <2>1
  <1>8. ASSUME NEW i \in 1 .. n + 1, NEW j \in 1 .. n + 1, i < j
        PROVE  Nearer(t[i], t[j], target)
    <2>1. i \in 1 .. n /\ t[i] = s[i]
      BY <1>3, <1>8
    <2>2. CASE j <= n
      BY <1>3, <1>4, <1>8, <2>1, <2>2 DEF Closest
    <2>3. CASE ~(j <= n)
      BY <1>1, <1>3, <1>4, <2>1, <2>3 DEF Closest
    <2> QED
      BY <2>2, <2>3
  <1>9. ASSUME NEW b \in N \ Range(t), NEW i \in 1 .. n + 1 PROVE Nearer(t[i], b, target)
    <2>1. b \in N \ Range(s) /\ b # a
      BY <1>7
    <2>2. CASE i <= n
      BY <1>3, <1>4, <2>1, <2>2 DEF Closest
    <2>3. CASE ~(i <= n)
      BY <1>1, <1>3, <2>1, <2>3
    <2> QED
      BY <2>2, <2>3
  <1> QED
    BY <1>2, <1>4, <1>8, <1>9 DEF Closest

LEMMA ClosestExists ==
  ASSUME NEW N \in SUBSET NodeIDs, NEW target \in NodeIDs
  PROVE  \E m \in 0 .. K : \E s \in [1 .. m -> N] :
           Closest(s, N, target) /\ (N \ Range(s) # {} => m = K)
  <1> DEFINE Good(n, m, s) == Closest(s, N, target) /\ (N \ Range(s) # {} => m = n)
             T == {n \in 0 .. K : \E m \in 0 .. n : \E s \in [1 .. m -> N] : Good(n, m, s)}
  <1>1. K \in Nat
    BY Constants
  <1>2. 0 \in T
    <2> DEFINE s == [i \in 1 .. 0 |-> target]
    <2>1. s \in [1 .. 0 -> N] /\ DOMAIN s = {}
      OBVIOUS
    <2> HIDE DEF s
    <2>2. Good(0, 0, s)
      BY <2>1 DEF Closest
    <2>3. 0 \in 0 .. K /\ 0 \in 0 .. 0
      BY <1>1
    <2> HIDE DEF Good
    <2> QED
      BY <2>1, <2>2, <2>3
  <1>3. ASSUME NEW n \in 0 .. K, n \in T, n < K PROVE n + 1 \in T
    <2>1. PICK m \in 0 .. n : \E s \in [1 .. m -> N] : Good(n, m, s)
      BY <1>3
    <2>2. PICK s \in [1 .. m -> N] : Good(n, m, s)
      BY <2>1
    <2>3. n \in Nat /\ m \in Nat /\ n + 1 \in 0 .. K /\ m \in 0 .. n + 1 /\ n + 1 \in 0 .. n + 1
      BY <1>1, <1>3
    <2>4. CASE N \ Range(s) = {}
      <3>1. Good(n + 1, m, s)
        BY <2>2, <2>4
      <3> HIDE DEF Good
      <3> QED
        BY <2>3, <3>1
    <2>5. CASE N \ Range(s) # {}
      <3>1. m = n
        BY <2>2, <2>5
      <3>2. PICK t \in [1 .. n + 1 -> N] : Closest(t, N, target)
        BY <2>2, <2>3, <2>5, <3>1, ClosestStep
      <3>3. Good(n + 1, n + 1, t)
        BY <3>2
      <3> HIDE DEF Good
      <3> QED
        BY <2>3, <3>3
    <2> QED
      BY <2>4, <2>5
  <1>4. K \in T
    <2> HIDE DEF T
    <2>1. 0 .. K \subseteq T
      BY <1>1, <1>2, <1>3, UpTo
    <2> QED
      BY <1>1, <2>1
  <1> QED
    BY <1>4

(* Two answers that agree so far do not differ in the next node.            *)
LEMMA ClosestAgree ==
  ASSUME NEW N \in SUBSET NodeIDs, NEW target \in NodeIDs, NEW k \in Nat, k < K,
         NEW n \in 0 .. K, NEW s \in [1 .. n -> N], Closest(s, N, target),
         NEW m \in 0 .. K, NEW t \in [1 .. m -> N], Closest(t, N, target),
         N \ Range(t) # {} => m = K,
         k < n, k <= m, \A i \in 1 .. k : s[i] = t[i]
  PROVE  k < m /\ ~ Nearer(s[k + 1], t[k + 1], target)
  <1>1. K \in Nat /\ n \in Nat /\ m \in Nat /\ k + 1 \in 1 .. n
        /\ DOMAIN s = 1 .. n /\ DOMAIN t = 1 .. m
    BY Constants
  <1> DEFINE x == s[k + 1]
  <1>2. x \in N /\ x \in NodeIDs
    BY <1>1
  <1>3. ASSUME NEW i \in 1 .. k PROVE x # t[i]
    <2>1. i \in 1 .. n /\ i < k + 1
      BY <1>1
    <2>2. Nearer(s[i], x, target)
      BY <1>1, <2>1 DEF Closest
    <2>3. ~ Nearer(x, x, target)
      BY <1>2, NearerIsOrder
    <2> QED
      BY <2>2, <2>3
  <1> HIDE DEF x
  <1>4. k < m
    <2>1. SUFFICES ASSUME m = k PROVE FALSE
      BY <1>1
    <2>2. x \in N \ Range(t)
      BY <1>1, <1>2, <1>3, <2>1 DEF Range
    <2> QED
      BY <1>1, <2>1, <2>2
  <1>5. ASSUME Nearer(x, t[k + 1], target) PROVE FALSE
    <2>1. k + 1 \in 1 .. m /\ t[k + 1] \in N
      BY <1>1, <1>4
    <2>2. ~ Nearer(t[k + 1], x, target) /\ x # t[k + 1]
      BY <1>2, <1>5, <2>1, NearerIsOrder
    <2>3. PICK j \in 1 .. m : x = t[j]
      BY <1>1, <1>2, <2>1, <2>2 DEF Closest, Range
    <2>4. j > k + 1
      BY <1>1, <1>3, <2>2, <2>3
    <2> QED
      BY <1>1, <2>1, <2>2, <2>3, <2>4 DEF Closest
  <1> QED
    BY <1>4, <1>5 DEF x

(* FindClosest returns one sequence: the K nodes that are nearest to the    *)
(* target, or all there are, in the order of their distance, whatever is in *)
(* the buckets and in which order the code meets them.                      *)
LEMMA ClosestIsOne ==
  ASSUME NEW table, Nodes(table) \subseteq NodeIDs, NEW target \in NodeIDs
  PROVE  \E s : FindClosest(table, target) = {s}
  <1> DEFINE N == Nodes(table)
             F == FindClosest(table, target)
  <1>1. K \in Nat /\ N \in SUBSET NodeIDs
    BY Constants
  <1>2. \A s : s \in F <=> \E n \in 0 .. K : /\ s \in [1 .. n -> N] /\ Closest(s, N, target)
                                             /\ N \ Range(s) # {} => n = K
    <2>1. ASSUME NEW n \in 0 .. K, NEW s \in [1 .. n -> N] PROVE Len(s) = n
      BY <1>1, <2>1, FunctionLength
    <2> QED
      BY <2>1, FindClosestIs
  <1> HIDE DEF N, F
  <1>3. F # {}
    BY <1>1, <1>2, ClosestExists
  <1>4. ASSUME NEW s \in F, NEW t \in F PROVE s = t
    <2>1. PICK n \in 0 .. K : /\ s \in [1 .. n -> N] /\ Closest(s, N, target)
                              /\ N \ Range(s) # {} => n = K
      BY <1>2
    <2>2. PICK m \in 0 .. K : /\ t \in [1 .. m -> N] /\ Closest(t, N, target)
                              /\ N \ Range(t) # {} => m = K
      BY <1>2
    <2> DEFINE T == {k \in 0 .. K : (k <= n <=> k <= m) /\ (k <= n => \A i \in 1 .. k : s[i] = t[i])}
    <2>3. 0 \in T
      BY <1>1
    <2>4. ASSUME NEW k \in 0 .. K, k \in T, k < K PROVE k + 1 \in T
      <3>1. k \in Nat /\ n \in Nat /\ m \in Nat /\ k + 1 \in 0 .. K
        BY <1>1, <2>4
      <3>2. CASE ~(k < n) /\ ~(k < m)
        BY <3>1, <3>2
      <3>3. CASE k < n \/ k < m
        <4>1. k <= n /\ k <= m /\ \A i \in 1 .. k : s[i] = t[i]
          BY <2>4, <3>1, <3>3
        <4>2. k < n => k < m /\ ~ Nearer(s[k + 1], t[k + 1], target)
          BY <1>1, <2>1, <2>2, <2>4, <3>1, <4>1, ClosestAgree
        <4>3. k < m => k < n /\ ~ Nearer(t[k + 1], s[k + 1], target)
          BY <1>1, <2>1, <2>2, <2>4, <3>1, <4>1, ClosestAgree
        <4>4. k + 1 \in 1 .. n /\ k + 1 \in 1 .. m
          BY <3>1, <3>3, <4>2, <4>3
        <4>5. s[k + 1] \in NodeIDs /\ t[k + 1] \in NodeIDs
          BY <1>1, <2>1, <2>2, <4>4
        <4>6. s[k + 1] = t[k + 1]
          BY <3>3, <4>2, <4>3, <4>5, NearerIsOrder
        <4>7. \A i \in 1 .. k + 1 : i \in 1 .. k \/ i = k + 1
          BY <3>1
        <4> QED
          BY <3>1, <4>1, <4>4, <4>6, <4>7
      <3> QED
        BY <3>2, <3>3
    <2>5. 0 .. K \subseteq T
      <3> HIDE DEF T
      <3> QED
        BY <1>1, <2>3, <2>4, UpTo
    <2>6. n = m
      <3>1. n \in T /\ m \in T
        BY <2>5
      <3> QED
        BY <1>1, <3>1
    <2>7. \A i \in 1 .. n : s[i] = t[i]
      <3>1. n \in T /\ n <= n
        BY <1>1, <2>5
      <3> QED
        BY <3>1
    <2> QED
      BY <2>1, <2>2, <2>6, <2>7
  <1>5. PICK s \in F : TRUE
    BY <1>3
  <1>6. F = {s}
    BY <1>4
  <1> QED
    BY <1>6 DEF F

-----------------------------------------------------------------------------
(* What the buckets mean, and who is in them                                *)

LEMMA BucketOf ==
  ASSUME NEW id \in Others
  PROVE  /\ BucketIndex(id) \in Distance(Self, id) /\ BucketIndex(id) \in Bit
         /\ \A c \in Distance(Self, id) : c <= BucketIndex(id)
  <1> DEFINE d == Distance(Self, id)
  <1>1. Self \in NodeIDs /\ id \in NodeIDs /\ Self # id
    BY DhtAssumption
  <1>2. d \in SUBSET Bit
    BY <1>1, DistanceFacts
  <1>3. d # {}
    BY <1>1 DEF Distance
  <1>4. \E h \in d : \A c \in d : c <= h
    <2> HIDE DEF d
    <2> QED
      BY <1>2, <1>3, Highest
  <1>5. BucketIndex(id) \in d /\ \A c \in d : c <= BucketIndex(id)
    BY <1>4 DEF BucketIndex
  <1> QED
    BY <1>2, <1>5

(* The nodes of a lower bucket are nearer to this node than those of a      *)
(* higher one.                                                              *)
LEMMA LowerIsNearer ==
  ASSUME NEW a \in Others, NEW b \in Others, BucketIndex(a) < BucketIndex(b)
  PROVE  Nearer(a, b, Self)
  <1>1. \A id \in Others : Distance(id, Self) = Distance(Self, id)
    BY DEF Distance
  <1> DEFINE h == BucketIndex(b)
             g == BucketIndex(a)
  <1>2. /\ h \in Distance(b, Self) /\ h \in Nat /\ g \in Nat /\ g < h
        /\ \A c \in Distance(a, Self) : c <= g /\ c \in Nat
    <2>1. Distance(a, Self) \in SUBSET Bit /\ \A c \in Bit : c \in Nat
      BY DhtAssumption, Constants, DistanceFacts DEF Bit
    <2> QED
      BY <1>1, <2>1, BucketOf
  <1> HIDE DEF h, g
  <1>3. h \notin Distance(a, Self)
    BY <1>2
  <1>4. \A c \in Distance(a, Self) : c < h
    BY <1>2
  <1> QED
    BY <1>2, <1>3, <1>4 DEF Nearer, Less

LEMMA PutMakesRoom ==
  ASSUME NEW s \in Seq(TableEntry), NEW id \in Others, BucketSound(s)
  PROVE  /\ \A i \in 1 .. Len(s) : ~ s[i].stale =>
              \E j \in 1 .. Len(Put(s, id)) : Put(s, id)[j].id = s[i].id
         /\ \/ \E j \in 1 .. Len(Put(s, id)) : Put(s, id)[j].id = id
            \/ Len(s) = K /\ \A i \in 1 .. Len(s) : ~ s[i].stale
  <1> DEFINE fresh == [id |-> id, stale |-> FALSE]
             same == {i \in 1 .. Len(s) : s[i].id = id}
             old == {i \in 1 .. Len(s) : s[i].stale}
             x == CHOOSE i \in same : TRUE
             y == CHOOSE i \in old : \A j \in old : i <= j
             Room(t) ==
               /\ \A i \in 1 .. Len(s) : ~ s[i].stale => \E j \in 1 .. Len(t) : t[j].id = s[i].id
               /\ \/ \E j \in 1 .. Len(t) : t[j].id = id
                  \/ Len(s) = K /\ \A i \in 1 .. Len(s) : ~ s[i].stale
  <1>1. fresh.id = id
    OBVIOUS
  <1>2. Len(s) \in Nat /\ K \in Nat /\ Len(s) <= K
    BY Constants DEF BucketSound
  <1>3. Put(s, id) = CASE same # {} -> [s EXCEPT ![x] = fresh]
                       [] same = {} /\ Len(s) < K -> Append(s, fresh)
                       [] same = {} /\ Len(s) = K /\ old # {} -> [s EXCEPT ![y] = fresh]
                       [] OTHER -> s
    BY DEF Put
  <1>4. ASSUME NEW z \in 1 .. Len(s), s[z].id = id \/ s[z].stale
        PROVE  Room([s EXCEPT ![z] = fresh])
    <2> DEFINE t == [s EXCEPT ![z] = fresh]
    <2>1. Len(t) = Len(s) /\ \A i \in 1 .. Len(s) : t[i] = IF i = z THEN fresh ELSE s[i]
      BY <1>2
    <2> HIDE DEF t, fresh
    <2>2. \A i \in 1 .. Len(s) : ~ s[i].stale => t[i].id = s[i].id
      BY <1>1, <1>4, <2>1
    <2>3. t[z].id = id
      BY <1>1, <2>1
    <2> QED
      BY <2>1, <2>2, <2>3 DEF t
  <1>5. Room(Append(s, fresh))
    <2> DEFINE t == Append(s, fresh)
    <2>1. Len(t) = Len(s) + 1 /\ t[Len(s) + 1] = fresh /\ \A i \in 1 .. Len(s) : t[i] = s[i]
      OBVIOUS
    <2> HIDE DEF t, fresh
    <2>2. \A i \in 1 .. Len(s) : i \in 1 .. Len(t)
      BY <1>2, <2>1
    <2>3. Len(s) + 1 \in 1 .. Len(t)
      BY <1>2, <2>1
    <2> QED
      BY <1>1, <2>1, <2>2, <2>3 DEF t
  <1>6. same # {} => x \in 1 .. Len(s) /\ s[x].id = id
    OBVIOUS
  <1>7. old # {} => y \in 1 .. Len(s) /\ s[y].stale
    <2>1. SUFFICES ASSUME old # {} PROVE y \in old
      OBVIOUS
    <2>2. old \subseteq Nat
      OBVIOUS
    <2>3. \E i \in old : \A j \in old : i <= j
      <3> HIDE DEF old
      <3> QED
        BY <2>1, <2>2, Least
    <2> QED
      BY <2>3
  <1>8. old = {} => \A i \in 1 .. Len(s) : ~ s[i].stale
    OBVIOUS
  <1> HIDE DEF x, y, fresh, same, old
  <1> SUFFICES Room(Put(s, id))
    OBVIOUS
  <1>9. CASE same # {}
    <2>1. Put(s, id) = [s EXCEPT ![x] = fresh]
      BY <1>3, <1>9
    <2>2. Room([s EXCEPT ![x] = fresh])
      BY <1>4, <1>6, <1>9
    <2> HIDE DEF Room
    <2> QED
      BY <2>1, <2>2
  <1>10. CASE same = {} /\ Len(s) < K
    <2>1. Put(s, id) = Append(s, fresh)
      BY <1>3, <1>10
    <2> HIDE DEF Room
    <2> QED
      BY <2>1, <1>5
  <1>11. CASE same = {} /\ ~(Len(s) < K) /\ old # {}
    <2>1. Put(s, id) = [s EXCEPT ![y] = fresh]
      BY <1>2, <1>3, <1>11
    <2>2. Room([s EXCEPT ![y] = fresh])
      BY <1>4, <1>7, <1>11
    <2> HIDE DEF Room
    <2> QED
      BY <2>1, <2>2
  <1>12. CASE same = {} /\ ~(Len(s) < K) /\ old = {}
    <2>1. Put(s, id) = s
      BY <1>3, <1>12
    <2>2. Len(s) = K
      BY <1>2, <1>12
    <2>3. Room(s)
      BY <1>8, <1>12, <2>2
    <2> HIDE DEF Room
    <2> QED
      BY <2>1, <2>3
  <1> QED
    BY <1>9, <1>10, <1>11, <1>12

\* A node that is not stale in buckets is in the same bucket of table.
FreshIn(table) ==
  \A b \in DOMAIN buckets : \A i \in 1 .. Len(buckets[b]) :
    ~ buckets[b][i].stale => \E j \in 1 .. Len(table[b]) : table[b][j].id = buckets[b][i].id

LEMMA AddNodeKeepsFresh ==
  ASSUME DhtInv, NEW id \in Others \cup {Self}
  PROVE  FreshIn(AddNode(buckets, id))
  <1>1. CASE id = Self
    BY <1>1 DEF AddNode, FreshIn
  <1>2. CASE id # Self
    <2> DEFINE n == BucketIndex(id)
               table == AddNode(buckets, id)
    <2>1. table = [buckets EXCEPT ![n] = Put(buckets[n], id)] /\ id \in Others
      BY <1>2 DEF AddNode
    <2>2. \A b \in DOMAIN buckets : buckets[b] \in Seq(TableEntry) /\ BucketSound(buckets[b])
      BY DEF DhtInv, PartsTyped, TableTyped, BucketsSound, BucketSound
    <2> HIDE DEF n, table
    <2>3. \A b \in DOMAIN buckets : table[b] = IF b = n THEN Put(buckets[b], id) ELSE buckets[b]
      BY <2>1
    <2>4. ASSUME NEW b \in DOMAIN buckets, NEW i \in 1 .. Len(buckets[b]), ~ buckets[b][i].stale
          PROVE  \E j \in 1 .. Len(table[b]) : table[b][j].id = buckets[b][i].id
      <3>1. CASE b = n
        <4>1. \E j \in 1 .. Len(Put(buckets[b], id)) : Put(buckets[b], id)[j].id = buckets[b][i].id
          BY <2>1, <2>2, <2>4, PutMakesRoom
        <4> QED
          BY <2>3, <3>1, <4>1
      <3>2. CASE b # n
        BY <2>3, <3>2
      <3> QED
        BY <3>1, <3>2
    <2> QED
      BY <2>4 DEF FreshIn, table
  <1> QED
    BY <1>1, <1>2

LEMMA FreshNodesStep ==
  ASSUME DhtInv, [DhtNext]_dhtVars
  PROVE  FreshIn(buckets')
  <1>1. CASE buckets' = buckets
    BY <1>1 DEF FreshIn
  <1>2. ASSUME NEW k \in Users, NEW id \in adding[k], Adds(k, id) PROVE FreshIn(buckets')
    <2>1. id \in Others \cup {Self}
      BY DEF DhtInv, PartsTyped, NodesTyped
    <2> QED
      BY <1>2, <2>1, AddNodeKeepsFresh DEF Adds
  <1>3. ASSUME NEW id \in Others, NEW announced, HandleQuery(id, announced) PROVE FreshIn(buckets')
    BY <1>3, AddNodeKeepsFresh DEF HandleQuery
  <1>4. ASSUME NEW b \in DOMAIN buckets, NEW i \in 1 .. Len(buckets[b]), Ages(b, i)
        PROVE  FreshIn(buckets')
    <2>1. buckets' = [buckets EXCEPT ![b][i].stale = TRUE]
      BY <1>4 DEF Ages
    <2>2. buckets[b] \in Seq(TableEntry)
      BY DEF DhtInv, PartsTyped, TableTyped
    <2> DEFINE t == [buckets[b] EXCEPT ![i].stale = TRUE]
    <2>3. Len(t) = Len(buckets[b]) /\ \A j \in 1 .. Len(buckets[b]) : t[j].id = buckets[b][j].id
      <3>1. Len(buckets[b]) \in Nat /\ DOMAIN buckets[b] = 1 .. Len(buckets[b])
        BY <2>2
      <3>2. \A j \in 1 .. Len(buckets[b]) : buckets[b][j] \in TableEntry
        BY <2>2
      <3>3. \A j \in 1 .. Len(buckets[b]) : "id" \in DOMAIN buckets[b][j]
        BY <3>2 DEF TableEntry
      <3> DEFINE e == [buckets[b][i] EXCEPT !.stale = TRUE]
      <3>4. e.id = buckets[b][i].id
        BY <3>3
      <3>5. t = [buckets[b] EXCEPT ![i] = e]
        OBVIOUS
      <3> HIDE DEF e, t
      <3> QED
        BY <3>1, <3>4, <3>5
    <2>4. \A c \in DOMAIN buckets : buckets'[c] = IF c = b THEN t ELSE buckets[c]
      BY <2>1
    <2> HIDE DEF t
    <2> QED
      BY <2>3, <2>4 DEF FreshIn
  <1>5. buckets' = buckets
        \/ (\E k \in Users : \E id \in adding[k] : Adds(k, id))
        \/ (\E id \in Others : \E announced : HandleQuery(id, announced))
        \/ \E b \in DOMAIN buckets : \E i \in 1 .. Len(buckets[b]) : Ages(b, i)
    <2>1. CASE UNCHANGED dhtVars
      BY <2>1 DEF dhtVars
    <2>2. ASSUME NEW k \in Users, GetPeersBegins(k) \/ Lookup(k)
          PROVE  buckets' = buckets \/ \E id \in adding[k] : Adds(k, id)
      BY <2>2 DEF GetPeersBegins, Lookup, Queries, TakesResponse, QueryTimesOut, LookupEnds
    <2>3. ASSUME BootstrapBegins \/ (\E id \in airborne : Receives(id)) \/ (\E m \in Messages : Delivers(m))
                 \/ PerformMaintenance \/ DhtStops \/ DhtStopped \/ (\E l \in loops : LoopStops(l))
                 \/ (\E id \in transactions : Overdue(id))
          PROVE  buckets' = buckets
      BY <2>3 DEF BootstrapBegins, Receives, Delivers, PerformMaintenance, DhtStops, DhtStopped,
                  LoopStops, Overdue
    <2> QED
      BY <2>1, <2>2, <2>3 DEF DhtNext
  <1> QED
    BY <1>1, <1>2, <1>3, <1>4, <1>5

-----------------------------------------------------------------------------
(* The theorems                                                             *)

(* Every variable of the node keeps its type: in particular no user goes on *)
(* past the end of its list of nodes, and a channel holds a response, is    *)
(* empty or is closed.                                                      *)
THEOREM DhtTyped ==
  DhtSpec => []DhtTypeOK
  <1>1. DhtInv => DhtTypeOK
    BY DEF DhtInv, PartsTyped, TableTyped, TransTyped, ResponsesTyped, LookupTyped, NodesTyped, FlagsTyped,
           DhtTypeOK, TableEntry
  <1> QED
    BY <1>1, DhtInvariant, PTL

(* Whatever is lost or late, and however many users ask at once, every      *)
(* query waits for an ID of its own, and the map of transactions holds      *)
(* exactly the IDs that are waited for and that maintenance has not closed. *)
THEOREM QueriesCleanUp ==
  DhtSpec => []TransactionsAwaited
  <1>1. DhtInv => TransactionsAwaited
    <2> SUFFICES ASSUME DhtInv, ~panicked PROVE TransactionsAwaited
      BY DEF TransactionsAwaited
    <2>1. \A j, k \in Waiting : j # k => query[j] # query[k]
      BY DEF Waiting, DhtInv, QueryInv
    <2>2. \A id : id \in transactions <=>
            \E k \in Users : lookup[k] = "waiting" /\ query[k] = id /\ channel[query[k]] # Closed
      BY DEF DhtInv, TransInv
    <2>3. transactions = {query[k] : k \in {j \in Waiting : channel[query[j]] # Closed}}
      BY <2>2 DEF Waiting
    <2> QED
      BY <2>1, <2>3 DEF TransactionsAwaited
  <1> QED
    BY <1>1, DhtInvariant, PTL

(* A bucket never holds more than K nodes, none twice, none of another      *)
(* distance and never this node, for every length of the IDs and every K.   *)
THEOREM BucketsStaySound ==
  DhtSpec => []BucketsSound
  <1>1. DhtInv => BucketsSound
    BY DEF DhtInv
  <1> QED
    BY <1>1, DhtInvariant, PTL

(* FindClosest has one answer whenever it is asked: the K nodes of the      *)
(* table that are nearest to the target, or all there are, in the order of  *)
(* their distance, whatever order the code meets them in.                   *)
THEOREM LookupBeginsNearest ==
  DhtSpec => [](\E s : FindClosest(buckets, Target) = {s})
  <1>1. DhtInv => \E s : FindClosest(buckets, Target) = {s}
    <2> SUFFICES ASSUME DhtInv PROVE \E s : FindClosest(buckets, Target) = {s}
      OBVIOUS
    <2>1. Nodes(buckets) \subseteq NodeIDs /\ Target \in NodeIDs
      BY KnownNodes, DhtAssumption
    <2> QED
      BY <2>1, ClosestIsOne
  <1> QED
    BY <1>1, DhtInvariant, PTL

(* A node from which a message has come within fifteen minutes stays in its *)
(* bucket, whoever else appears meanwhile.                                  *)
THEOREM FreshNodesStay ==
  DhtSpec => [][FreshIn(buckets')]_dhtVars
  <1>1. DhtInv /\ [DhtNext]_dhtVars => [FreshIn(buckets')]_dhtVars
    BY FreshNodesStep
  <1> QED
    BY <1>1, DhtInvariant, PTL DEF DhtSpec

(* A node that is named gets into the table, unless the bucket of its       *)
(* distance is full of nodes that are not stale.                            *)
THEOREM NewcomersEnter ==
  DhtSpec => [](\A id \in Others :
    \/ id \in Nodes(AddNode(buckets, id))
    \/ Len(buckets[BucketIndex(id)]) = K
       /\ \A i \in 1 .. K : ~ buckets[BucketIndex(id)][i].stale)
  <1>1. ASSUME DhtInv, NEW id \in Others
        PROVE  \/ id \in Nodes(AddNode(buckets, id))
               \/ Len(buckets[BucketIndex(id)]) = K
                  /\ \A i \in 1 .. K : ~ buckets[BucketIndex(id)][i].stale
    <2> DEFINE n == BucketIndex(id)
               t == Put(buckets[n], id)
    <2>1. n \in DOMAIN buckets /\ id # Self
      BY <1>1, BucketOf, Constants DEF DhtInv, PartsTyped, TableTyped, Bit
    <2>2. buckets[n] \in Seq(TableEntry) /\ BucketSound(buckets[n])
      BY <1>1, <2>1 DEF DhtInv, PartsTyped, TableTyped, BucketsSound, BucketSound
    <2>3. AddNode(buckets, id) = [buckets EXCEPT ![n] = t]
      BY <2>1 DEF AddNode
    <2>4. \/ \E j \in 1 .. Len(t) : t[j].id = id
          \/ Len(buckets[n]) = K /\ \A i \in 1 .. Len(buckets[n]) : ~ buckets[n][i].stale
      BY <2>2, PutMakesRoom
    <2> HIDE DEF n, t
    <2>5. AddNode(buckets, id)[n] = t /\ n \in DOMAIN AddNode(buckets, id)
      BY <2>1, <2>3
    <2>6. (\E j \in 1 .. Len(t) : t[j].id = id) => id \in Nodes(AddNode(buckets, id))
      BY <2>5 DEF Nodes
    <2> QED
      BY <2>4, <2>6 DEF n
  <1>2. DhtInv => \A id \in Others :
          \/ id \in Nodes(AddNode(buckets, id))
          \/ Len(buckets[BucketIndex(id)]) = K
             /\ \A i \in 1 .. K : ~ buckets[BucketIndex(id)][i].stale
    BY <1>1
  <1> QED
    BY <1>2, DhtInvariant, PTL

(* The buckets are sorted: the nodes of a lower one are nearer to this node *)
(* than those of a higher one.                                              *)
THEOREM BucketsAreSorted ==
  DhtSpec => [](\A b, c \in DOMAIN buckets : b < c =>
    \A i \in 1 .. Len(buckets[b]), j \in 1 .. Len(buckets[c]) :
      Nearer(buckets[b][i].id, buckets[c][j].id, Self))
  <1>1. ASSUME DhtInv, NEW b \in DOMAIN buckets, NEW c \in DOMAIN buckets, b < c,
               NEW i \in 1 .. Len(buckets[b]), NEW j \in 1 .. Len(buckets[c])
        PROVE  Nearer(buckets[b][i].id, buckets[c][j].id, Self)
    <2>1. buckets[b][i].id \in Others /\ buckets[c][j].id \in Others
      BY <1>1, EntryTyped
    <2>2. BucketIndex(buckets[b][i].id) = b /\ BucketIndex(buckets[c][j].id) = c
      BY <1>1 DEF DhtInv, BucketsSound
    <2> QED
      BY <1>1, <2>1, <2>2, LowerIsNearer
  <1>2. DhtInv => \A b, c \in DOMAIN buckets : b < c =>
          \A i \in 1 .. Len(buckets[b]), j \in 1 .. Len(buckets[c]) :
            Nearer(buckets[b][i].id, buckets[c][j].id, Self)
    BY <1>1
  <1> QED
    BY <1>2, DhtInvariant, PTL
=============================================================================
