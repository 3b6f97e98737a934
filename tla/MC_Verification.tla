-------------------------- MODULE MC_Verification --------------------------
(***************************************************************************)
(* Instances of Verification for TLC.  A request created under one DID,    *)
(* created again or answered under another one, and a competing handler    *)
(* are three HTTP requests and one restart.                                *)
(***************************************************************************)
EXTENDS Verification, TLC

(* Ids, DIDs and handlers are interchangeable. *)
Symmetry == Permutations(Ids) \union Permutations(Dids) \union Permutations(Tasks)

=============================================================================
