----------------------------- MODULE MCPrefixSim -----------------------------
(* Every request of up to MaxLen blocks, repetitions included, and one that *)
(* can never fit; for the partial-node algorithms the paths of a tree in    *)
(* which runs are extended, cut and branched.  MCLIRSHit.cfg runs LIRS      *)
(* alone, MCPartialNode.cfg a small queue that takes most of the cache.     *)
EXTENDS Serving

CONSTANTS b1, b2, b3, b4, b5, MaxLen

MCRequests == UNION {[1 .. n -> Block] : n \in 1 .. MaxLen} \cup {<<b1, b2, b3, b4, b5>>}

MCPaths == {<<b1>>, <<b1, b2>>, <<b1, b2, b3>>, <<b1, b4>>, <<b5>>}

MCLibrary == {[tail |-> FALSE, batch |-> 1, small |-> 0, ghost |-> 0]}

MCParams ==
  MCLibrary \cup {[tail |-> TRUE, batch |-> 0, small |-> 0, ghost |-> 0],
                 [tail |-> FALSE, batch |-> 0, small |-> 1, ghost |-> 1]}

MCSmallQueue == {[tail |-> FALSE, batch |-> 64, small |-> 2, ghost |-> 2]}
==============================================================================
