----------------------------- MODULE MC_Holder -----------------------------
(***************************************************************************)
(* Instances of Holder for TLC.  Receiving, accepting and a second         *)
(* acceptance or a rejection of one offer are three requests.              *)
(***************************************************************************)
EXTENDS Holder, TLC

(* Offer ids and handlers are interchangeable. *)
Symmetry == Permutations(Offers) \union Permutations(Tasks)

=============================================================================
