--------------------------- MODULE MCConnections ---------------------------
(* Instances of Connections for TLC.                                        *)
EXTENDS Connections

\* Two dials with one Stop, one dial with both, or an accepted connection with both.
MCScopes ==
  {Dials \cup {"api"}, {CHOOSE d \in Dials : TRUE} \cup Stoppers, Incoming \cup Stoppers}
=============================================================================
