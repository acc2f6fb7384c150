---------------------------- MODULE MCServices ----------------------------
(***************************************************************************)
(* Small instances of five components that share no state, in one run: a   *)
(* behaviour exercises one of them, the others stay in their initial       *)
(* states, in which none of their fair actions is enabled.                 *)
(***************************************************************************)
EXTENDS Trackers, Dht, Metadata, Client, Command

VARIABLE part  \* bound: the component that this behaviour exercises

CONSTANTS Again, Before  \* a tracker that is listed twice, and its first entry

Parts == {"trackers", "dht", "metadata", "client", "command"}

MCFirstEntry == [t \in AllTrackers |-> IF t = Again THEN Before ELSE t]
MCBootNodes == <<{0}>>
MCResponses == {<<{{}, {0, 1}}, {}>>, <<{{1}}, {"p1"}>>}
MCSources == <<{0, 1}, {0, 2}>>
MCProgram ==
  [a |-> <<{"AddTorrent", "AddMagnet"}, {"Start"}>>,
   b |-> <<{"RemoveTorrent"}, {"AddTorrent"}, {"Start"}>>,
   c |-> <<{"Client.Stop", "RemoveTorrent"}, {"Client.Stop", "RemoveTorrent"}>>]

allVars == <<trackersVars, dhtVars, metadataVars, clientVars, commandVars, part>>

ServicesInit ==
  /\ TrackersInit /\ DhtInit /\ MetadataInit /\ ClientInit /\ CommandInit
  /\ part \in Parts
  /\ part # "command" => seedAfter

\* Bound: keys are pressed only in a command that seeds afterwards.
KeysBounded == ~seedAfter => pressed' = 0

\* Bound: the request to the duplicate ends, and its result is received, before
\* anything else happens.
DuplicateFirst ==
  \A c \in Calls :
    /\ request[c][Again] = "starting" => request'[c][Again] = "done"
    /\ results[c] # <<>> /\ Head(results[c])[1] = Again => Again \in collected'[c]

ServicesNext ==
  \/ /\ part = "trackers" /\ TrackersNext /\ DuplicateFirst
     /\ UNCHANGED <<dhtVars, metadataVars, clientVars, commandVars, part>>
  \/ /\ part = "dht" /\ DhtNext
     /\ UNCHANGED <<trackersVars, metadataVars, clientVars, commandVars, part>>
  \/ /\ part = "metadata" /\ MetadataNext
     /\ UNCHANGED <<trackersVars, dhtVars, clientVars, commandVars, part>>
  \/ /\ part = "client" /\ ClientNext
     /\ UNCHANGED <<trackersVars, dhtVars, metadataVars, commandVars, part>>
  \/ /\ part = "command" /\ CommandNext /\ KeysBounded
     /\ UNCHANGED <<trackersVars, dhtVars, metadataVars, clientVars, part>>

ServicesSpec ==
  /\ ServicesInit /\ [][ServicesNext]_allVars
  /\ TrackersFairness /\ DhtFairness /\ MetadataFairness /\ CommandFairness

\* The type invariant: of the five components.
ServicesTypeOK ==
  TrackersTypeOK /\ DhtTypeOK /\ MetadataTypeOK /\ ClientTypeOK /\ CommandTypeOK
=============================================================================
