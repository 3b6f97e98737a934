------------------------------ MODULE EventLog ------------------------------
(***************************************************************************)
(* What an event store promises to the aggregates that decide on it: one  *)
(* log per aggregate, extended by whole batches, each batch the outcome of *)
(* one command that was decided on the complete log it is appended to.     *)
(*                                                                         *)
(* README.md of the repository states the intent: event sourcing "records  *)
(* events in the order of their occurrence", so that folding the log gives *)
(* back the state.  CqrsPipeline is shown to implement this specification  *)
(* when it runs on Postgres.                                               *)
(***************************************************************************)
EXTENDS Naturals, Sequences

CONSTANTS
    Aggs,       \* aggregate ids of one aggregate type
    Cmds,       \* identities of commands
    MaxBatch    \* the most events a single command emits

VARIABLE log    \* log[a] = the committed events of aggregate a, oldest first

Kinds == {"created", "updated"}

(* The n events of command c, decided on a log of `base' events.  Each     *)
(* carries its command, its place in the batch and its sequence number.    *)
Batch(c, base, kind, n) ==
    [i \in 1..n |-> [cmd |-> c, pos |-> i, seq |-> base + i, kind |-> kind]]

Used(c) == \E a \in Aggs : \E i \in 1..Len(log[a]) : log[a][i].cmd = c

Init == log = [a \in Aggs |-> <<>>]

(* One command takes effect, once, on the log as it is now. *)
Execute(a, c, kind, n) ==
    /\ ~Used(c)
    /\ log' = [log EXCEPT ![a] = @ \o Batch(c, Len(@), kind, n)]

(* The log grows: stated first, this spares TLC to try every command on a  *)
(* step that leaves the log alone.                                         *)
Next ==
    \E a \in Aggs :
        /\ log'[a] # log[a]
        /\ \E c \in Cmds, kind \in Kinds, n \in 1..MaxBatch : Execute(a, c, kind, n)

Spec == Init /\ [][Next]_log
=============================================================================
