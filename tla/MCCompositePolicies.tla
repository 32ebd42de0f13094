------------------------- MODULE MCCompositePolicies -------------------------
(* The policies composed of several caches, with a first queue of 3 bytes   *)
(* and a main one of 2, which refuses the objects of 3 bytes and, where its *)
(* size adapts, those of 2.  MCTwoQMd.cfg: TwoQ_get's assertion when the    *)
(* metadata of objects is charged.                                          *)
EXTENDS CompositePolicies

CONSTANTS o1, o2, o3

\* Nothing is pinned, or all but one object, which is everything in a cache that
\* does not hold that one.
MCPinSets == {{}, {o1, o2}}

\* S3FIFOd's objects keep their sizes.
MCSizes == {[o \in Obj |-> IF o = o1 THEN 1 ELSE 2]}
==============================================================================
