---------------------------- MODULE CqrsPipeline ----------------------------
(***************************************************************************)
(* The command pipeline every aggregate of the agent runs through.         *)
(*                                                                         *)
(* A request handler calls command_handler (agent_shared/src/handlers.rs), *)
(* which calls execute_with_metadata on the aggregate's CqrsFramework      *)
(* (agent_store): load the aggregate from the event log, decide, commit    *)
(* the decided events, then hand them to the registered queries one after  *)
(* the other, awaiting each.  The queries are those of the issuance Offer, *)
(* the longest chain in the code: the GenericQuery that maintains the      *)
(* aggregate's own view, the ListAllQuery that maintains ONE row for all   *)
(* aggregates, PreAuthorizedCodeQuery and AccessTokenQuery.                *)
(*                                                                         *)
(* Handlers run concurrently as tokio tasks; every await is a point where  *)
(* another task may run, so loading and storing a row are separate steps.  *)
(* No lock spans them.  The event store either refuses a stale commit      *)
(* (Postgres: PRIMARY KEY in docker/db/init.sql) or appends whatever it is *)
(* given (in memory).                                                      *)
(***************************************************************************)
EXTENDS Naturals, Sequences, ViewRepository

CONSTANTS
    Aggs,       \* ids of the aggregates of one type
    Tasks,      \* concurrently running request handlers
    MaxBatch,   \* the most events one command emits
    MaxCmds,    \* bound: commands issued in a behaviour
    MaxFaults,  \* bound: crashes, cancellations and failed view updates
    None        \* "no aggregate"

ASSUME MaxBatchAssumption == MaxBatch \in Nat \ {0}
ASSUME BoundAssumption == MaxCmds \in Nat /\ MaxFaults \in Nat
ASSUME NoneAssumption == None \notin Aggs

VARIABLES
    log,        \* log[a]: committed events (the `events' table, or MemStore)
    view,       \* view[a]: the aggregate's row, maintained by GenericQuery
    all,        \* the single row of ListAllQuery
    index,      \* index[k]: <<key, aggregate>> rows of the two lookup queries
    pc,         \* pc[t]: where handler t is
    agg,        \* agg[t]: the aggregate t works on
    cmd,        \* cmd[t]: the command t executes
    base,       \* base[t]: the current_sequence t loaded the aggregate at
    batch,      \* batch[t]: the events t has committed
    pos,        \* pos[t]: the event of the batch ListAllQuery is at
    vcopy,      \* vcopy[t]: t's copy of a row of `view'
    acopy,      \* acopy[t]: t's copy of `all'
    issued,     \* commands issued so far: commands are numbered 1, 2, ...
    faults,     \* faults so far
    raced,      \* history: aggregates on which two dispatches overlapped
    racedAll,   \* history: did any two dispatches overlap?
    faulted     \* history: aggregates on which a dispatch met a fault

store  == <<log, view, all, index>>
local  == <<agg, cmd, base, batch, pos, vcopy, acopy>>
history == <<raced, racedAll, faulted>>
vars   == <<store, pc, local, issued, faults, history>>

-----------------------------------------------------------------------------
(* Events *)

Kinds == {"created", "updated"}
Keys  == {"code", "token"}

Event == [cmd : Nat, pos : Nat \ {0}, seq : Nat \ {0}, kind : Kinds]

(* Mutant: the numbers start one too high. *)
WrapEventsSkips(c, seq, kind, n) ==
    [i \in 1..n |-> [cmd |-> c, pos |-> i, seq |-> seq + i + 1, kind |-> kind]]

(* wrap_events of the event store: the events a command emitted, numbered  *)
(* from the sequence the aggregate was loaded at.                          *)
WrapEvents(c, seq, kind, n) ==
    [i \in 1..n |-> [cmd |-> c, pos |-> i, seq |-> seq + i, kind |-> kind]]

NoEvents == [a \in Aggs |-> <<>>]

(* Mutants: no unique key; a key on the last event only. *)
NoUniqueKey(a, events) == FALSE

ChecksLastOnly(a, events) ==
    /\ Store = "postgres"
    /\ log[a] # <<>>
    /\ log[a][Len(log[a])].seq = events[Len(events)].seq

(* The commit is refused when a row with the same aggregate and sequence   *)
(* exists already; MemStore has no such check.                             *)
Conflicts(a, events) ==
    /\ Store = "postgres"
    /\ \E i \in 1..Len(log[a]) : \E j \in 1..Len(events) : log[a][i].seq = events[j].seq

-----------------------------------------------------------------------------
Dispatching(t) == pc[t] \notin {"idle", "handle"}

Init ==
    /\ log = NoEvents
    /\ view = [a \in Aggs |-> NoRow(<<>>)]
    /\ all = NoRow(NoEvents)
    /\ index = [k \in Keys |-> {}]
    /\ pc = [t \in Tasks |-> "idle"]
    /\ agg = [t \in Tasks |-> None]
    /\ cmd = [t \in Tasks |-> 0]
    /\ base = [t \in Tasks |-> 0]
    /\ batch = [t \in Tasks |-> <<>>]
    /\ pos = [t \in Tasks |-> 1]
    /\ vcopy = [t \in Tasks |-> NoRow(<<>>)]
    /\ acopy = [t \in Tasks |-> NoRow(NoEvents)]
    /\ issued = 0
    /\ faults = 0
    /\ raced = {}
    /\ racedAll = FALSE
    /\ faulted = {}

(* load_aggregate folds the committed events and remembers the sequence    *)
(* number of the last one.                                                 *)
CurrentSequence(a) == IF log[a] = <<>> THEN 0 ELSE log[a][Len(log[a])].seq

(* execute_with_metadata starts: the aggregate is loaded. *)
LoadAggregate(t, a) ==
    /\ pc[t] = "idle"
    /\ issued < MaxCmds
    /\ issued' = issued + 1
    /\ pc' = [pc EXCEPT ![t] = "handle"]
    /\ agg' = [agg EXCEPT ![t] = a]
    /\ cmd' = [cmd EXCEPT ![t] = issued + 1]
    /\ base' = [base EXCEPT ![t] = CurrentSequence(a)]
    /\ UNCHANGED <<store, batch, pos, vcopy, acopy, faults, history>>

(* The handler returns and forgets its locals. *)
Return(t) ==
    /\ pc' = [pc EXCEPT ![t] = "idle"]
    /\ agg' = [agg EXCEPT ![t] = None]
    /\ cmd' = [cmd EXCEPT ![t] = 0]
    /\ base' = [base EXCEPT ![t] = 0]
    /\ batch' = [batch EXCEPT ![t] = <<>>]
    /\ pos' = [pos EXCEPT ![t] = 1]
    /\ vcopy' = [vcopy EXCEPT ![t] = NoRow(<<>>)]
    /\ acopy' = [acopy EXCEPT ![t] = NoRow(NoEvents)]

(* Aggregate::handle returned an error, or no events, or the database      *)
(* failed: nothing is committed and nothing dispatched.                    *)
Decline(t) ==
    /\ pc[t] = "handle"
    /\ Return(t)
    /\ UNCHANGED <<store, issued, faults, history>>

(* Aggregate::handle returned n events and the store takes them: a create  *)
(* command emits exactly one event.                                        *)
Commit(t, kind, n) ==
    LET a == agg[t]
        events == WrapEvents(cmd[t], base[t], kind, n)
    IN  /\ pc[t] = "handle"
        /\ kind = "created" => n = 1
        /\ ~Conflicts(a, events)
        /\ log' = [log EXCEPT ![a] = @ \o events]
        /\ batch' = [batch EXCEPT ![t] = events]
        /\ pc' = [pc EXCEPT ![t] = "view"]
        /\ raced' = IF \E u \in Tasks : Dispatching(u) /\ agg[u] = a
                    THEN raced \union {a} ELSE raced
        /\ racedAll' = (racedAll \/ \E u \in Tasks : Dispatching(u))
        /\ UNCHANGED <<view, all, index, agg, cmd, base, pos, vcopy, acopy,
                       issued, faults, faulted>>

(* The store refused the batch (OptimisticLockError): the handler returns  *)
(* an error, no query sees the events.                                     *)
CommitConflict(t, kind, n) ==
    /\ pc[t] = "handle"
    /\ kind = "created" => n = 1
    /\ Conflicts(agg[t], WrapEvents(cmd[t], base[t], kind, n))
    /\ Return(t)
    /\ UNCHANGED <<store, issued, faults, history>>

(* GenericQuery: one load, all events applied to the copy, one store. *)
LoadView(t) ==
    /\ pc[t] = "view"
    /\ vcopy' = [vcopy EXCEPT ![t] = view[agg[t]]]
    /\ pc' = [pc EXCEPT ![t] = "view_store"]
    /\ UNCHANGED <<store, agg, cmd, base, batch, pos, acopy, issued, faults, history>>

(* Mutant: ListAllQuery is not registered. *)
StoreViewSkipsAll(t) ==
    /\ pc[t] = "view_store"
    /\ view' = [view EXCEPT ![agg[t]] = UpdateView(@, vcopy[t], vcopy[t].payload \o batch[t])]
    /\ pc' = [pc EXCEPT ![t] = "code"]
    /\ UNCHANGED <<log, all, index, local, issued, faults, history>>

StoreView(t) ==
    /\ pc[t] = "view_store"
    /\ view' = [view EXCEPT ![agg[t]] = UpdateView(@, vcopy[t], vcopy[t].payload \o batch[t])]
    /\ pc' = [pc EXCEPT ![t] = "all"]
    /\ UNCHANGED <<log, all, index, local, issued, faults, history>>

(* ListAllQuery: for each event a load and a store of the one shared row;  *)
(* the first error ends the loop.                                          *)
LoadAll(t) ==
    /\ pc[t] = "all"
    /\ acopy' = [acopy EXCEPT ![t] = all]
    /\ pc' = [pc EXCEPT ![t] = "all_store"]
    /\ UNCHANGED <<store, agg, cmd, base, batch, pos, vcopy, issued, faults, history>>

(* Mutant: every round applies the first event of the batch. *)
AppliesFirst(t) ==
    [acopy[t].payload EXCEPT ![agg[t]] = Append(@, batch[t][1])]

Applied(t) ==
    [acopy[t].payload EXCEPT ![agg[t]] = Append(@, batch[t][pos[t]])]

(* Mutant: the loop over the batch goes one too far. *)
StoreAllOverruns(t) ==
    /\ pc[t] = "all_store"
    /\ all' = UpdateView(all, acopy[t], Applied(t))
    /\ IF pos[t] <= Len(batch[t]) /\ ~Refused(all, acopy[t])
       THEN /\ pos' = [pos EXCEPT ![t] = @ + 1]
            /\ pc' = [pc EXCEPT ![t] = "all"]
       ELSE /\ pc' = [pc EXCEPT ![t] = "code"]
            /\ UNCHANGED pos
    /\ UNCHANGED <<log, view, index, agg, cmd, base, batch, vcopy, acopy,
                   issued, faults, history>>

StoreAll(t) ==
    /\ pc[t] = "all_store"
    /\ all' = UpdateView(all, acopy[t], Applied(t))
    /\ IF pos[t] < Len(batch[t]) /\ ~Refused(all, acopy[t])
       THEN /\ pos' = [pos EXCEPT ![t] = @ + 1]
            /\ pc' = [pc EXCEPT ![t] = "all"]
       ELSE /\ pc' = [pc EXCEPT ![t] = "code"]
            /\ UNCHANGED pos
    /\ UNCHANGED <<log, view, index, agg, cmd, base, batch, vcopy, acopy,
                   issued, faults, history>>

(* The rows a lookup query writes for a batch: one for every created event,*)
(* stored under the key the event carries.  Keys are fresh random strings, *)
(* here the number of the command that drew them.                          *)
CreatedIn(t) ==
    {<<batch[t][i].cmd, agg[t]>> :
        i \in {j \in 1..Len(batch[t]) : batch[t][j].kind = "created"}}

(* Mutant: AccessTokenQuery is not registered. *)
IndexCodeLast(t) ==
    /\ pc[t] = "code"
    /\ index' = [index EXCEPT !["code"] = @ \union CreatedIn(t)]
    /\ Return(t)
    /\ UNCHANGED <<log, view, all, issued, faults, history>>

(* PreAuthorizedCodeQuery *)
IndexCode(t) ==
    /\ pc[t] = "code"
    /\ index' = [index EXCEPT !["code"] = @ \union CreatedIn(t)]
    /\ pc' = [pc EXCEPT ![t] = "token"]
    /\ UNCHANGED <<log, view, all, local, issued, faults, history>>

(* Mutant: the query before it is run again. *)
IndexTokenRepeats(t) ==
    /\ pc[t] = "token"
    /\ index' = [index EXCEPT !["token"] = @ \union CreatedIn(t)]
    /\ pc' = [pc EXCEPT ![t] = "code"]
    /\ UNCHANGED <<log, view, all, local, issued, faults, history>>

(* AccessTokenQuery, the last query: execute_with_metadata returns Ok. *)
IndexToken(t) ==
    /\ pc[t] = "token"
    /\ index' = [index EXCEPT !["token"] = @ \union CreatedIn(t)]
    /\ Return(t)
    /\ UNCHANGED <<log, view, all, issued, faults, history>>

(* A view table cannot be read or written: the error is dropped (`.ok()',  *)
(* `println!') and the next query runs.                                    *)
QueryAfter ==
    [view |-> "all", view_store |-> "all", all |-> "code", all_store |-> "code",
     code |-> "token"]

ViewUpdateFails(t) ==
    /\ Store = "postgres"
    /\ Dispatching(t)
    /\ faults < MaxFaults
    /\ faults' = faults + 1
    /\ faulted' = faulted \union {agg[t]}
    /\ IF pc[t] = "token"
       THEN Return(t)
       ELSE pc' = [pc EXCEPT ![t] = QueryAfter[pc[t]]] /\ UNCHANGED local
    /\ UNCHANGED <<store, issued, raced, racedAll>>

(* The HTTP server drops the handler's future when the client closes its   *)
(* connection: the handler stops at the await it is at.                    *)
Cancel(t) ==
    /\ pc[t] # "idle"
    /\ faults < MaxFaults
    /\ faults' = faults + 1
    /\ faulted' = IF Dispatching(t) THEN faulted \union {agg[t]} ELSE faulted
    /\ Return(t)
    /\ UNCHANGED <<store, issued, raced, racedAll>>

(* The process stops and starts again.  Running handlers are gone and no   *)
(* dispatch is ever resumed; MemStore and the MemRepositories start empty. *)
Crash ==
    /\ faults < MaxFaults
    /\ faults' = faults + 1
    /\ pc' = [t \in Tasks |-> "idle"]
    /\ agg' = [t \in Tasks |-> None]
    /\ cmd' = [t \in Tasks |-> 0]
    /\ base' = [t \in Tasks |-> 0]
    /\ batch' = [t \in Tasks |-> <<>>]
    /\ pos' = [t \in Tasks |-> 1]
    /\ vcopy' = [t \in Tasks |-> NoRow(<<>>)]
    /\ acopy' = [t \in Tasks |-> NoRow(NoEvents)]
    /\ IF Store = "postgres"
       THEN /\ faulted' = faulted \union {agg[t] : t \in {u \in Tasks : Dispatching(u)}}
            /\ UNCHANGED <<store, raced, racedAll>>
       ELSE /\ log' = NoEvents
            /\ view' = [a \in Aggs |-> NoRow(<<>>)]
            /\ all' = NoRow(NoEvents)
            /\ index' = [k \in Keys |-> {}]
            /\ raced' = {}
            /\ racedAll' = FALSE
            /\ faulted' = {}
    /\ UNCHANGED issued

(* What a handler that is under way does next: the part of a step that the *)
(* scheduler owes it.                                                      *)
Proceed(t) ==
    \/ Decline(t)
    \/ \E kind \in Kinds, n \in 1..MaxBatch : Commit(t, kind, n) \/ CommitConflict(t, kind, n)
    \/ LoadView(t) \/ StoreView(t)
    \/ LoadAll(t) \/ StoreAll(t)
    \/ IndexCode(t) \/ IndexToken(t)

Next ==
    \/ \E t \in Tasks, a \in Aggs : LoadAggregate(t, a)
    \/ \E t \in Tasks : Proceed(t) \/ ViewUpdateFails(t) \/ Cancel(t)
    \/ Crash

Spec == Init /\ [][Next]_vars

(* The runtime polls every ready task; clients are free not to call. *)
FairSpec == Spec /\ \A t \in Tasks : WF_vars(Proceed(t))

-----------------------------------------------------------------------------
(* Properties *)

Phases == {"idle", "handle", "view", "view_store", "all", "all_store", "code", "token"}

Content == [Aggs -> Seq(Event)]

(* Every variable keeps its type; a handler that is under way has an       *)
(* aggregate and a command, one that dispatches has a batch to dispatch.   *)
TypeOK ==
    /\ log \in Content
    /\ view \in [Aggs -> Row(Seq(Event))]
    /\ all \in Row(Content)
    /\ index \in [Keys -> SUBSET (Nat \X Aggs)]
    /\ pc \in [Tasks -> Phases]
    /\ agg \in [Tasks -> Aggs \union {None}]
    /\ cmd \in [Tasks -> Nat]
    /\ base \in [Tasks -> Nat]
    /\ batch \in [Tasks -> Seq(Event)]
    /\ pos \in [Tasks -> Nat \ {0}]
    /\ vcopy \in [Tasks -> Row(Seq(Event))]
    /\ acopy \in [Tasks -> Row(Content)]
    /\ issued \in Nat
    /\ faults \in Nat
    /\ raced \in SUBSET Aggs
    /\ racedAll \in BOOLEAN
    /\ faulted \in SUBSET Aggs
    /\ \A t \in Tasks : pc[t] # "idle" => agg[t] \in Aggs
    /\ \A t \in Tasks : Dispatching(t) => pos[t] \in 1..Len(batch[t])

(* An event's sequence number is one above that of the last event its      *)
(* command was decided on.  On Postgres it is the event's place in the     *)
(* log: no command was decided on a state that had changed by the time it  *)
(* was committed.  MemStore only keeps it from running ahead of the log.   *)
DecidedOnLog ==
    \A a \in Aggs : \A i \in 1..Len(log[a]) :
        IF Store = "postgres" THEN log[a][i].seq = i ELSE log[a][i].seq <= i

(* However dispatches interleave and fail, a view shows committed events   *)
(* only, and none of them twice.                                           *)
Committed(a) == {log[a][i] : i \in 1..Len(log[a])}

ShowsCommitted(events, a) ==
    /\ \A i \in 1..Len(events) : events[i] \in Committed(a)
    /\ \A i, j \in 1..Len(events) : i # j => events[i] # events[j]

ViewsShowCommitted ==
    \A a \in Aggs : ShowsCommitted(view[a].payload, a) /\ ShowsCommitted(all.payload[a], a)

Quiet(a) == \A t \in Tasks : agg[t] = a => ~Dispatching(t)

(* A view is lost only to an overlap of two dispatches on the same         *)
(* aggregate, or to a fault during one: otherwise, once its dispatches are *)
(* over, the view has every event of the log, in order.  The endpoints     *)
(* that execute a command and then read the view rely on this.             *)
ViewExact ==
    \A a \in Aggs \ (raced \union faulted) : Quiet(a) => view[a].payload = log[a]

(* The row of ListAllQuery is shared: it is exact only as long as no two   *)
(* dispatches overlapped at all, whatever their aggregates.                *)
AllExact ==
    ~racedAll /\ faulted = {} /\ (\A a \in Aggs : Quiet(a)) => all.payload = log

(* The lookup rows are written under keys of their own, so that overlap    *)
(* does not lose them: a created aggregate can be found by its code and by *)
(* its token unless a fault hit its dispatch, and a row always leads to    *)
(* the aggregate that was created with that key.                           *)
CreatedKeys(a) ==
    {<<log[a][i].cmd, a>> : i \in {j \in 1..Len(log[a]) : log[a][j].kind = "created"}}

LookupsFollowCreation ==
    \A a \in Aggs, k \in Keys :
        /\ \A row \in index[k] : row[2] = a => row \in CreatedKeys(a)
        /\ a \notin faulted /\ Quiet(a) => CreatedKeys(a) \subseteq index[k]

(* On Postgres the log behaves as if every command were executed in one    *)
(* step on the current log, at most once.                                  *)
Abstract == INSTANCE EventLog WITH Cmds <- 1..MaxCmds
SerialLog == Abstract!Spec

(* A handler that has started returns, also if a view, the list or a       *)
(* lookup row cannot be read or written, or its commit is refused.         *)
CommandsReturn == \A t \in Tasks : []<>(pc[t] = "idle")

(* A committed event becomes visible in its aggregate's view, unless       *)
(* dispatches overlapped, a fault hit, or the log itself was lost.         *)
Visible(a, c) == \E i \in 1..Len(view[a].payload) : view[a].payload[i].cmd = c
InLog(a, c) == \E i \in 1..Len(log[a]) : log[a][i].cmd = c

EventuallyVisible ==
    \A a \in Aggs, c \in 1..MaxCmds :
        []<>(InLog(a, c) => Visible(a, c) \/ a \in raced \union faulted)

(* agent_shared/src/custom_queries.rs:23 describes ListAllQuery as "A      *)
(* struct that lists all the instances of an `Aggregate`.": with nothing   *)
(* under way and no crash, cancellation or database that cannot be         *)
(* reached, every aggregate that has events should be listed.              *)
ListsAllInstances ==
    faults = 0 /\ (\A a \in Aggs : Quiet(a)) =>
        \A a \in Aggs : log[a] # <<>> => all.payload[a] # <<>>
=============================================================================
