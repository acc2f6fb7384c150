---------------------------- MODULE PieceLease ----------------------------
(***************************************************************************)
(* What the download coordinator promises while no timer fires: a missing  *)
(* piece is leased to at most one peer at a time; the peer either stores   *)
(* the verified piece or gives it back; a stored piece stays stored.       *)
(***************************************************************************)
CONSTANTS Peers, Pieces

VARIABLE lease   \* who has a piece: nobody, one peer, or the bitfield

Init == lease \in [Pieces -> {{}, {"bitfield"}}]

Assign(p, i) ==
  /\ lease[i] = {}
  /\ lease' = [lease EXCEPT ![i] = {p}]

Store(p, i) ==
  /\ lease[i] = {p}
  /\ lease' = [lease EXCEPT ![i] = {"bitfield"}]

GiveBack(p, i) ==
  /\ lease[i] = {p}
  /\ lease' = [lease EXCEPT ![i] = {}]

Next == \E p \in Peers, i \in Pieces : Assign(p, i) \/ Store(p, i) \/ GiveBack(p, i)

Spec == Init /\ [][Next]_lease
===========================================================================
