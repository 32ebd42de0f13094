-------------------------- MODULE MCSegmentPolicies --------------------------
(* SLRU with three segments (the even ones that SLRU_init makes, and two    *)
(* decreasing choices a user may ask for with seg-size), LFU, ARC and CAR.  *)
(* MCSegmentRemove.cfg: with the removals that miss a counter or the table; *)
(* MCSegmentMd.cfg: SLRU with per-object metadata.                          *)
EXTENDS SegmentPolicies, TLC

MCSegChoices == {0 :> 2 @@ 1 :> 2 @@ 2 :> 1, 0 :> 3 @@ 1 :> 1 @@ 2 :> 1}

Symmetry == Permutations(Obj)
==============================================================================
