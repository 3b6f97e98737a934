-------------------------- MODULE MC_CqrsPipeline --------------------------
(***************************************************************************)
(* Instances of CqrsPipeline for TLC: two aggregates and two handlers give *)
(* every overlap of two dispatches, on one aggregate and on different      *)
(* ones.                                                                   *)
(***************************************************************************)
EXTENDS CqrsPipeline, TLC

(* Aggregates and handlers are interchangeable: for the run without       *)
(* liveness properties.                                                    *)
Symmetry == Permutations(Aggs) \union Permutations(Tasks)

=============================================================================
