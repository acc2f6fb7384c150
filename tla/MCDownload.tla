---------------------------- MODULE MCDownload ----------------------------
(* Instances of Download for TLC: every peer has every piece, and each     *)
(* kind of environment event has a constant of its own as its bound.       *)
EXTENDS Download, TLC

CONSTANTS Corrupt, MalformedBlocks, Timeouts, Stalls, Disconnects, Chokes,
          Cancels, Pauses, DiskFaults

MCRemote == [p \in Peers |-> Pieces]

MCBudget ==
  [corrupt |-> Corrupt, malformed |-> MalformedBlocks, timeout |-> Timeouts,
   stall |-> Stalls, disconnect |-> Disconnects, choke |-> Chokes, cancel |-> Cancels,
   pause |-> Pauses, diskfault |-> DiskFaults]

\* The cfgs that use it leave Resumed empty or a set of its own.
MCSymmetry ==
  Permutations(Peers) \cup Permutations(Blocks) \cup Permutations(PdIds)
    \cup Permutations(Pieces \ Resumed)

\* The contents of an object nobody refers to are garbage: Start resets them
\* before the object is used again.
MCView ==
  <<storageVars, mgr, mgrLock, coordVars, sessionVars, pc, job, queueVars,
    peerVars, envVars, [d \in PdIds |-> IF Unreferenced(d) THEN NewBlocks ELSE pd[d]]>>
===========================================================================
