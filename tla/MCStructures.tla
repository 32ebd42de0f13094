---------------------------- MODULE MCStructures -----------------------------
(* MCStructures.cfg: every list of up to five objects, tables of 1 to 4     *)
(* buckets with ids that collide at every size, every trace of up to eight  *)
(* requests of five ids, and two LRU caches of 4 and 6 bytes over five      *)
(* objects of 1 to 3 bytes; and three caches simulated by two threads,      *)
(* with every kind of warm-up.  MCReuse.cfg: the profilers alone.           *)
EXTENDS Structures, TLC

CONSTANTS o1, o2, o3, o4, o5

MCHash == o1 :> 0 @@ o2 :> 4 @@ o3 :> 1 @@ o4 :> 2 @@ o5 :> 6

MCTimes == <<5, 6, 8>>

MCMisses == {<<c, k>> \in Caches \X (1 .. 5) : k # c + 1}
==============================================================================
