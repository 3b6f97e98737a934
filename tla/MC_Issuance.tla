---------------------------- MODULE MC_Issuance ----------------------------
(***************************************************************************)
(* Instances of Issuance for TLC.  A complete flow takes four requests     *)
(* (credentials, offers, token, credential); a fifth one disturbs it.      *)
(***************************************************************************)
EXTENDS Issuance, TLC

(* Ids, subjects and handlers are interchangeable. *)
Symmetry ==
    Permutations(Offers) \union Permutations(Creds) \union Permutations(Subjects)
        \union Permutations(Tasks)

=============================================================================
