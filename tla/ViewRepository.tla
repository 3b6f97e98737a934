--------------------------- MODULE ViewRepository ---------------------------
(***************************************************************************)
(* Rows of a view table and how update_view writes them, for the two       *)
(* backends of agent_store: MemRepository (agent_store/src/in_memory.rs)   *)
(* and PostgresViewRepository (agent_store/src/postgres.rs, tables in      *)
(* agent_application/docker/db/init.sql).                                  *)
(***************************************************************************)
EXTENDS Naturals

CONSTANT Store      \* which backend: "postgres" or "in_memory"

ASSUME StoreAssumption == Store \in {"postgres", "in_memory"}

(* A row and its version; version 0 is the absent row. *)
Row(Payload) == [version : Nat, payload : Payload]
NoRow(default) == [version |-> 0, payload |-> default]

(* ViewRepository::update_view.  In memory the row is overwritten.  On     *)
(* Postgres a copy loaded as absent is INSERTed, which the primary key     *)
(* refuses if the row has appeared in between; any other copy is written   *)
(* by an UPDATE that does not compare versions.                            *)
Refused(row, copy) == Store = "postgres" /\ copy.version = 0 /\ row.version > 0

(* Mutant: an existing row is never updated. *)
InsertOnly(row, copy, payload) ==
    IF row.version > 0 THEN row ELSE [version |-> 1, payload |-> payload]

UpdateView(row, copy, payload) ==
    IF Refused(row, copy)
    THEN row
    ELSE [version |-> IF Store = "postgres" THEN copy.version + 1 ELSE 1,
          payload |-> payload]
=============================================================================
