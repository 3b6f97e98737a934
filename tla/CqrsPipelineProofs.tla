------------------------- MODULE CqrsPipelineProofs -------------------------
(***************************************************************************)
(* Theorems about CqrsPipeline, for any number of aggregates and handlers, *)
(* any batch size and any bounds.                                          *)
(***************************************************************************)
EXTENDS CqrsPipeline, TLAPS

(* wrap_events yields a sequence of n well-formed events. *)
LEMMA WrapEventsType ==
    ASSUME NEW c \in Nat, NEW s \in Nat, NEW kind \in Kinds, NEW n \in Nat
    PROVE  /\ WrapEvents(c, s, kind, n) \in Seq(Event)
           /\ Len(WrapEvents(c, s, kind, n)) = n
           /\ \A i \in 1..n : WrapEvents(c, s, kind, n)[i] =
                    [cmd |-> c, pos |-> i, seq |-> s + i, kind |-> kind]
<1>1. \A i \in 1..n : [cmd |-> c, pos |-> i, seq |-> s + i, kind |-> kind] \in Event
    BY DEF Event
<1>2. WrapEvents(c, s, kind, n) \in [1..n -> Event]
    BY <1>1 DEF WrapEvents
<1>3. QED
    BY <1>2 DEF WrapEvents

(* update_view leaves a row of the same kind. *)
LEMMA UpdateViewType ==
    ASSUME NEW P, NEW row \in Row(P), NEW copy \in Row(P), NEW p \in P
    PROVE  UpdateView(row, copy, p) \in Row(P)
BY DEF UpdateView, Row

(* The absent row is a row. *)
LEMMA NoRowType ==
    ASSUME NEW P, NEW p \in P
    PROVE  NoRow(p) \in Row(P)
BY DEF NoRow, Row

(* A handler that does not dispatch stands before the first event. *)
AtFirst == \A t \in Tasks : ~Dispatching(t) => pos[t] = 1

TypeInv == TypeOK /\ AtFirst

USE StoreAssumption, MaxBatchAssumption, NoneAssumption

LEMMA TypeInit == Init => TypeInv
<1> SUFFICES ASSUME Init PROVE TypeInv
    OBVIOUS
<1>1. /\ <<>> \in Seq(Event)
      /\ NoEvents \in Content
    BY DEF NoEvents, Content
<1>2. /\ NoRow(<<>>) \in Row(Seq(Event))
      /\ NoRow(NoEvents) \in Row(Content)
    BY <1>1, NoRowType
<1>3. index \in [Keys -> SUBSET (Nat \X Aggs)]
    BY DEF Init
<1>4. /\ view \in [Aggs -> Row(Seq(Event))] /\ vcopy \in [Tasks -> Row(Seq(Event))]
      /\ all \in Row(Content) /\ acopy \in [Tasks -> Row(Content)]
    BY <1>2 DEF Init
<1>5. \A t \in Tasks : pc[t] = "idle" /\ pos[t] = 1
    BY DEF Init
<1>6. TypeOK
    <2>1. batch \in [Tasks -> Seq(Event)] /\ log \in Content
        BY <1>1 DEF Init
    <2>2. /\ pc \in [Tasks -> Phases] /\ agg \in [Tasks -> Aggs \union {None}]
          /\ cmd \in [Tasks -> Nat] /\ base \in [Tasks -> Nat] /\ pos \in [Tasks -> Nat \ {0}]
        BY DEF Init, Phases
    <2>3. /\ issued \in Nat /\ faults \in Nat /\ raced \in SUBSET Aggs
          /\ racedAll \in BOOLEAN /\ faulted \in SUBSET Aggs
        BY DEF Init
    <2> QED
        BY <1>3, <1>4, <1>5, <2>1, <2>2, <2>3 DEF TypeOK, Dispatching
<1> QED
    BY <1>5, <1>6 DEF TypeInv, AtFirst, Dispatching

(* Return resets the locals of one handler. *)
LEMMA ReturnType ==
    ASSUME TypeInv, NEW t \in Tasks, Return(t),
           UNCHANGED <<issued, raced, racedAll>>,
           log' \in Content, view' \in [Aggs -> Row(Seq(Event))], all' \in Row(Content),
           index' \in [Keys -> SUBSET (Nat \X Aggs)], faults' \in Nat, faulted' \in SUBSET Aggs
    PROVE  TypeInv'
<1>1. /\ <<>> \in Seq(Event)
      /\ NoEvents \in Content
    BY DEF NoEvents, Content
<1>2. /\ NoRow(<<>>) \in Row(Seq(Event))
      /\ NoRow(NoEvents) \in Row(Content)
    BY <1>1, NoRowType
<1> QED
    BY <1>1, <1>2 DEF Return, TypeInv, TypeOK, AtFirst, Dispatching, Phases

LEMMA TypeStep == TypeInv /\ [Next]_vars => TypeInv'
<1> SUFFICES ASSUME TypeInv, [Next]_vars PROVE TypeInv'
    OBVIOUS
<1> USE DEF TypeInv
<1>1. ASSUME NEW t \in Tasks, NEW a \in Aggs, LoadAggregate(t, a) PROVE TypeInv'
    <2>1. CurrentSequence(a) \in Nat
        <3>1. log[a] \in Seq(Event)
            BY DEF TypeOK, Content
        <3>2. log[a] # <<>> => log[a][Len(log[a])] \in Event
            BY <3>1
        <3> QED
            BY <3>1, <3>2 DEF CurrentSequence, Event
    <2>2. TypeOK'
        BY <1>1, <2>1 DEF LoadAggregate, TypeOK, Dispatching, Phases, store, history
    <2>3. AtFirst'
        BY <1>1 DEF LoadAggregate, TypeOK, AtFirst, Dispatching
    <2> QED
        BY <2>2, <2>3
<1>2. ASSUME NEW t \in Tasks, Decline(t) PROVE TypeInv'
    BY <1>2, ReturnType DEF Decline, store, history, TypeOK
<1>3. ASSUME NEW t \in Tasks, NEW kind \in Kinds, NEW n \in 1..MaxBatch, Commit(t, kind, n)
      PROVE TypeInv'
    <2> DEFINE events == WrapEvents(cmd[t], base[t], kind, n)
    <2>1. agg[t] \in Aggs /\ pos[t] = 1
        BY <1>3 DEF Commit, TypeOK, AtFirst, Dispatching
    <2>2. events \in Seq(Event) /\ Len(events) = n /\ 1 \in 1..n
        <3>1. n \in Nat /\ 1 \in 1..n
            OBVIOUS
        <3>2. cmd[t] \in Nat /\ base[t] \in Nat
            BY DEF TypeOK
        <3>3. events \in Seq(Event) /\ Len(events) = n
            <4>1. \A c \in Nat, s \in Nat : /\ WrapEvents(c, s, kind, n) \in Seq(Event)
                                            /\ Len(WrapEvents(c, s, kind, n)) = n
                BY <3>1, WrapEventsType
            <4> QED
                BY <3>2, <4>1
        <3> QED
            BY <3>1, <3>3
    <2> HIDE DEF events
    <2>3. log' \in Content
        BY <1>3, <2>1, <2>2 DEF Commit, TypeOK, Content, events
    <2>4. /\ batch' \in [Tasks -> Seq(Event)]
          /\ batch'[t] = events
          /\ \A u \in Tasks \ {t} : batch'[u] = batch[u]
        BY <1>3, <2>2 DEF Commit, TypeOK, events
    <2>5. /\ pc' \in [Tasks -> Phases]
          /\ pc'[t] = "view"
          /\ \A u \in Tasks \ {t} : pc'[u] = pc[u]
        BY <1>3 DEF Commit, TypeOK, Phases
    <2>6. raced' \in SUBSET Aggs /\ racedAll' \in BOOLEAN
        BY <1>3, <2>1 DEF Commit, TypeOK
    <2>7. \A u \in Tasks : Dispatching(u)' => pos'[u] \in 1..Len(batch'[u])
        BY <1>3, <2>1, <2>2, <2>4, <2>5 DEF Commit, TypeOK, Dispatching
    <2>8. \A u \in Tasks : pc'[u] # "idle" => agg'[u] \in Aggs
        BY <1>3, <2>1, <2>5 DEF Commit, TypeOK
    <2>9. TypeOK'
        BY <1>3, <2>3, <2>4, <2>5, <2>6, <2>7, <2>8 DEF Commit, TypeOK
    <2>10. AtFirst'
        BY <1>3, <2>5 DEF Commit, AtFirst, Dispatching
    <2> QED
        BY <2>9, <2>10
<1>4. ASSUME NEW t \in Tasks, NEW kind \in Kinds, NEW n \in 1..MaxBatch, CommitConflict(t, kind, n)
      PROVE TypeInv'
    BY <1>4, ReturnType DEF CommitConflict, store, history, TypeOK
<1>5. ASSUME NEW t \in Tasks, LoadView(t) PROVE TypeInv'
    <2>1. agg[t] \in Aggs
        BY <1>5 DEF LoadView, TypeOK
    <2> QED
        BY <1>5, <2>1 DEF LoadView, TypeOK, AtFirst, Dispatching, Phases, store, history
<1>6. ASSUME NEW t \in Tasks, StoreView(t) PROVE TypeInv'
    <2>1. agg[t] \in Aggs
        BY <1>6 DEF StoreView, TypeOK
    <2>2. vcopy[t].payload \o batch[t] \in Seq(Event)
        BY DEF TypeOK, Row
    <2>3. UpdateView(view[agg[t]], vcopy[t], vcopy[t].payload \o batch[t]) \in Row(Seq(Event))
        BY <2>1, <2>2, UpdateViewType DEF TypeOK
    <2> QED
        BY <1>6, <2>1, <2>3 DEF StoreView, TypeOK, AtFirst, Dispatching, Phases, local, history
<1>7. ASSUME NEW t \in Tasks, LoadAll(t) PROVE TypeInv'
    BY <1>7 DEF LoadAll, TypeOK, AtFirst, Dispatching, Phases, store, history
<1>8. ASSUME NEW t \in Tasks, StoreAll(t) PROVE TypeInv'
    <2>1. agg[t] \in Aggs /\ pos[t] \in 1..Len(batch[t])
        BY <1>8 DEF StoreAll, TypeOK, Dispatching
    <2>2. Applied(t) \in Content
        BY <2>1 DEF Applied, TypeOK, Row, Content
    <2>3. all' \in Row(Content)
        BY <1>8, <2>2, UpdateViewType DEF StoreAll, TypeOK
    <2>4. /\ pos' \in [Tasks -> Nat \ {0}]
          /\ pos'[t] \in 1..Len(batch[t])
          /\ \A u \in Tasks \ {t} : pos'[u] = pos[u]
        <3>1. pos \in [Tasks -> Nat \ {0}] /\ Len(batch[t]) \in Nat
            BY DEF TypeOK
        <3>2. CASE pos' = pos
            BY <2>1, <3>1, <3>2
        <3>3. CASE pos' = [pos EXCEPT ![t] = @ + 1] /\ pos[t] < Len(batch[t])
            BY <2>1, <3>1, <3>3
        <3> QED
            BY <1>8, <3>2, <3>3 DEF StoreAll
    <2>5. /\ pc' \in [Tasks -> Phases]
          /\ pc'[t] \in {"all", "code"}
          /\ \A u \in Tasks \ {t} : pc'[u] = pc[u]
        BY <1>8 DEF StoreAll, TypeOK, Phases
    <2>6. TypeOK'
        BY <1>8, <2>1, <2>3, <2>4, <2>5 DEF StoreAll, TypeOK, Dispatching, history
    <2>7. AtFirst'
        BY <2>4, <2>5 DEF AtFirst, Dispatching
    <2> QED
        BY <2>6, <2>7
<1>9. ASSUME NEW t \in Tasks, IndexCode(t) \/ IndexToken(t) PROVE TypeInv'
    <2>1. agg[t] \in Aggs
        BY <1>9 DEF IndexCode, IndexToken, TypeOK
    <2>2. CreatedIn(t) \subseteq Nat \X Aggs
        <3>1. \A i \in 1..Len(batch[t]) : batch[t][i] \in Event
            BY DEF TypeOK
        <3>2. \A i \in 1..Len(batch[t]) : batch[t][i].cmd \in Nat
            BY <3>1 DEF Event
        <3> QED
            BY <2>1, <3>2 DEF CreatedIn
    <2>3. \A k \in Keys : [index EXCEPT ![k] = @ \union CreatedIn(t)] \in [Keys -> SUBSET (Nat \X Aggs)]
        BY <2>2 DEF TypeOK
    <2>4. index' \in [Keys -> SUBSET (Nat \X Aggs)]
        BY <1>9, <2>3 DEF IndexCode, IndexToken, Keys
    <2>5. CASE IndexCode(t)
        BY <2>4, <2>5 DEF IndexCode, TypeOK, AtFirst, Dispatching, Phases, local, history
    <2>6. CASE IndexToken(t)
        BY <2>4, <2>6, ReturnType DEF IndexToken, TypeOK, history
    <2> QED
        BY <1>9, <2>5, <2>6
<1>10. ASSUME NEW t \in Tasks, ViewUpdateFails(t) PROVE TypeInv'
    <2>1. agg[t] \in Aggs
        BY <1>10 DEF ViewUpdateFails, TypeOK, Dispatching
    <2>2. faults' \in Nat /\ faulted' \in SUBSET Aggs
        BY <1>10, <2>1 DEF ViewUpdateFails, TypeOK
    <2>3. CASE pc[t] = "token"
        BY <1>10, <2>2, <2>3, ReturnType DEF ViewUpdateFails, TypeOK, store
    <2>4. CASE pc[t] # "token"
        <3>1. pc[t] \in {"view", "view_store", "all", "all_store", "code"}
            BY <1>10, <2>4 DEF ViewUpdateFails, Dispatching, TypeOK, Phases
        <3>2. QueryAfter[pc[t]] \in {"all", "code", "token"}
            BY <3>1 DEF QueryAfter
        <3> QED
            BY <1>10, <2>1, <2>2, <2>4, <3>2
            DEF ViewUpdateFails, TypeOK, AtFirst, Dispatching, Phases, store, local
    <2> QED
        BY <2>3, <2>4
<1>11. ASSUME Crash PROVE TypeInv'
    <2>1. /\ <<>> \in Seq(Event)
          /\ NoEvents \in Content
        BY DEF NoEvents, Content
    <2>2. /\ NoRow(<<>>) \in Row(Seq(Event))
          /\ NoRow(NoEvents) \in Row(Content)
        BY <2>1, NoRowType
    <2>3. faults' \in Nat
        BY <1>11 DEF Crash, TypeOK
    <2>4. /\ log' \in Content
          /\ view' \in [Aggs -> Row(Seq(Event))]
          /\ all' \in Row(Content)
          /\ index' \in [Keys -> SUBSET (Nat \X Aggs)]
          /\ raced' \in SUBSET Aggs
          /\ racedAll' \in BOOLEAN
        <3>1. CASE Store = "postgres"
            BY <1>11, <3>1 DEF Crash, TypeOK, store
        <3>2. CASE Store # "postgres"
            <4>1. index' \in [Keys -> SUBSET (Nat \X Aggs)]
                BY <1>11, <3>2 DEF Crash
            <4> QED
                BY <1>11, <2>1, <2>2, <3>2, <4>1 DEF Crash
        <3> QED
            BY <3>1, <3>2
    <2>5. faulted' \in SUBSET Aggs
        <3>1. \A u \in Tasks : Dispatching(u) => agg[u] \in Aggs
            BY DEF TypeOK, Dispatching
        <3> QED
            BY <1>11, <3>1 DEF Crash, TypeOK
    <2> QED
        BY <1>11, <2>1, <2>2, <2>3, <2>4, <2>5
        DEF Crash, TypeOK, AtFirst, Dispatching, Phases
<1>12. CASE UNCHANGED vars
    BY <1>12 DEF vars, store, local, history, TypeOK, AtFirst, Dispatching
<1>13. ASSUME NEW t \in Tasks, Cancel(t) PROVE TypeInv'
    <2>1. faults' \in Nat /\ faulted' \in SUBSET Aggs
        BY <1>13 DEF Cancel, TypeOK, Dispatching
    <2> QED
        BY <1>13, <2>1, ReturnType DEF Cancel, store, TypeOK
<1> QED
    BY <1>1, <1>2, <1>3, <1>4, <1>5, <1>6, <1>7, <1>8, <1>9, <1>10, <1>11, <1>12, <1>13
    DEF Next, Proceed

(* Every reachable state is well typed: in particular ListAllQuery never   *)
(* reads past the end of a batch.                                          *)
THEOREM TypeCorrect == Spec => []TypeOK
<1>1. TypeInv => TypeOK
    BY DEF TypeInv
<1> QED
    BY <1>1, TypeInit, TypeStep, PTL DEF Spec

-----------------------------------------------------------------------------
(* A handler never holds a sequence number the log has not reached: with   *)
(* it, a batch that does not conflict continues the log without a gap.     *)
BaseReached == \A t \in Tasks : pc[t] = "handle" => base[t] <= Len(log[agg[t]])

DecidedInv == TypeInv /\ DecidedOnLog /\ BaseReached

(* What a batch looks like that is wrapped in a well-typed state. *)
LEMMA BatchFacts ==
    ASSUME TypeOK, NEW t \in Tasks, NEW kind \in Kinds, NEW n \in 1..MaxBatch
    PROVE  LET events == WrapEvents(cmd[t], base[t], kind, n)
           IN  /\ n \in Nat /\ 1 \in 1..n
               /\ events \in Seq(Event)
               /\ Len(events) = n
               /\ \A i \in 1..n : events[i] =
                    [cmd |-> cmd[t], pos |-> i, seq |-> base[t] + i, kind |-> kind]
<1>1. n \in Nat /\ 1 \in 1..n
    OBVIOUS
<1>2. \A c \in Nat, s \in Nat :
            /\ WrapEvents(c, s, kind, n) \in Seq(Event)
            /\ Len(WrapEvents(c, s, kind, n)) = n
            /\ \A i \in 1..n : WrapEvents(c, s, kind, n)[i] =
                    [cmd |-> c, pos |-> i, seq |-> s + i, kind |-> kind]
    BY <1>1, WrapEventsType
<1>3. cmd[t] \in Nat /\ base[t] \in Nat
    BY DEF TypeOK
<1> QED
    BY <1>1, <1>2, <1>3

(* On Postgres, a batch is free of conflicts only if it was decided on the *)
(* whole log.                                                              *)
LEMMA NoConflictMeansCurrent ==
    ASSUME TypeOK, DecidedOnLog, BaseReached, Store = "postgres",
           NEW t \in Tasks, NEW kind \in Kinds, NEW n \in 1..MaxBatch,
           pc[t] = "handle", ~Conflicts(agg[t], WrapEvents(cmd[t], base[t], kind, n))
    PROVE  base[t] = Len(log[agg[t]])
<1> DEFINE a == agg[t]
           events == WrapEvents(cmd[t], base[t], kind, n)
<1>1. a \in Aggs /\ base[t] \in Nat /\ log[a] \in Seq(Event) /\ base[t] <= Len(log[a])
    BY DEF TypeOK, Content, BaseReached
<1>2. /\ 1 \in 1..Len(events)
      /\ events[1].seq = base[t] + 1
    <2>1. /\ Len(events) = n /\ 1 \in 1..n
          /\ events[1] = [cmd |-> cmd[t], pos |-> 1, seq |-> base[t] + 1, kind |-> kind]
        BY BatchFacts
    <2> HIDE DEF events
    <2> QED
        BY <2>1
<1>3. \A i \in 1..Len(log[a]) : log[a][i].seq = i
    BY <1>1 DEF DecidedOnLog
<1>4. \A i \in 1..Len(log[a]) : log[a][i].seq # events[1].seq
    <2>1. \A i \in 1..Len(log[a]) : \A j \in 1..Len(events) : log[a][i].seq # events[j].seq
        BY DEF Conflicts
    <2> QED
        BY <1>2, <2>1
<1> HIDE DEF events
<1>5. ASSUME base[t] < Len(log[a]) PROVE FALSE
    <2>1. base[t] + 1 \in 1..Len(log[a])
        BY <1>1, <1>5
    <2> QED
        BY <1>2, <1>3, <1>4, <2>1
<1> QED
    BY <1>1, <1>5

(* Where the elements of a concatenation come from. *)
LEMMA Concatenation ==
    ASSUME NEW S, NEW p \in Seq(S), NEW q \in Seq(S)
    PROVE  /\ Len(p \o q) = Len(p) + Len(q)
           /\ \A i \in 1..Len(p) : (p \o q)[i] = p[i]
           /\ \A i \in 1..Len(q) : (p \o q)[Len(p) + i] = q[i]
OBVIOUS

(* The log after a commit. *)
LEMMA CommitLog ==
    ASSUME TypeInv, NEW t \in Tasks, NEW kind \in Kinds, NEW n \in 1..MaxBatch,
           Commit(t, kind, n)
    PROVE  LET a == agg[t]
               events == WrapEvents(cmd[t], base[t], kind, n)
           IN  /\ a \in Aggs
               /\ log'[a] = log[a] \o events
               /\ Len(log'[a]) = Len(log[a]) + n
               /\ \A i \in 1..Len(log[a]) : log'[a][i] = log[a][i]
               /\ \A i \in 1..n : log'[a][Len(log[a]) + i] = events[i]
               /\ \A b \in Aggs \ {a} : log'[b] = log[b]
<1> DEFINE events == WrapEvents(cmd[t], base[t], kind, n)
<1>1. agg[t] \in Aggs /\ log \in [Aggs -> Seq(Event)]
    BY DEF Commit, TypeInv, TypeOK, Content
<1>2. events \in Seq(Event) /\ Len(events) = n /\ n \in Nat
    BY BatchFacts DEF TypeInv
<1>3. log' = [log EXCEPT ![agg[t]] = @ \o events]
    BY DEF Commit
<1> HIDE DEF events
<1>4. log'[agg[t]] = log[agg[t]] \o events /\ \A b \in Aggs \ {agg[t]} : log'[b] = log[b]
    BY <1>1, <1>3
<1>5. log[agg[t]] \in Seq(Event)
    BY <1>1
<1>6. /\ Len(log[agg[t]] \o events) = Len(log[agg[t]]) + n
      /\ \A i \in 1..Len(log[agg[t]]) : (log[agg[t]] \o events)[i] = log[agg[t]][i]
      /\ \A i \in 1..n : (log[agg[t]] \o events)[Len(log[agg[t]]) + i] = events[i]
    <2>1. \A p, q \in Seq(Event) :
            /\ Len(p \o q) = Len(p) + Len(q)
            /\ \A i \in 1..Len(p) : (p \o q)[i] = p[i]
            /\ \A i \in 1..Len(q) : (p \o q)[Len(p) + i] = q[i]
        BY Concatenation
    <2> QED
        BY <1>2, <1>5, <2>1
<1> QED
    BY <1>1, <1>4, <1>6 DEF events

LEMMA DecidedInit == Init => DecidedInv
<1> SUFFICES ASSUME Init PROVE DecidedInv
    OBVIOUS
<1>1. DecidedOnLog
    BY DEF Init, NoEvents, DecidedOnLog
<1>2. BaseReached
    BY DEF Init, BaseReached
<1> QED
    BY <1>1, <1>2, TypeInit DEF DecidedInv

(* Steps that leave the log alone and start no command. *)
LEMMA DecidedUnchanged ==
    ASSUME DecidedInv, TypeInv', log' = log,
           \A t \in Tasks : pc'[t] = "handle" =>
                pc[t] = "handle" /\ base'[t] = base[t] /\ agg'[t] = agg[t]
    PROVE  DecidedInv'
BY DEF DecidedInv, DecidedOnLog, BaseReached

LEMMA DecidedStep == DecidedInv /\ [Next]_vars => DecidedInv'
<1> SUFFICES ASSUME DecidedInv, [Next]_vars PROVE DecidedInv'
    OBVIOUS
<1>0. TypeInv'
    BY TypeStep DEF DecidedInv
<1>t. TypeInv /\ TypeOK
    BY DEF DecidedInv, TypeInv
<1>1. ASSUME NEW t \in Tasks, NEW a \in Aggs, LoadAggregate(t, a) PROVE DecidedInv'
    <2>1. CurrentSequence(a) <= Len(log[a])
        <3>1. log[a] \in Seq(Event)
            BY <1>t DEF TypeOK, Content
        <3>2. CASE log[a] = <<>>
            BY <3>2 DEF CurrentSequence
        <3>3. CASE log[a] # <<>>
            <4>1. Len(log[a]) \in 1..Len(log[a]) /\ Len(log[a]) \in Nat
                BY <3>1, <3>3
            <4>2. log[a][Len(log[a])].seq <= Len(log[a])
                BY <4>1 DEF DecidedInv, DecidedOnLog
            <4> QED
                BY <3>3, <4>2 DEF CurrentSequence
        <3> QED
            BY <3>2, <3>3
    <2>2. BaseReached'
        BY <1>1, <1>t, <2>1 DEF LoadAggregate, store, DecidedInv, BaseReached, TypeOK
    <2>3. DecidedOnLog'
        BY <1>1 DEF LoadAggregate, store, DecidedInv, DecidedOnLog
    <2> QED
        BY <1>0, <2>2, <2>3 DEF DecidedInv
<1>2. ASSUME NEW t \in Tasks, Return(t), log' = log PROVE DecidedInv'
    BY <1>0, <1>2, <1>t, DecidedUnchanged DEF Return, TypeOK
<1>3. ASSUME NEW t \in Tasks, NEW kind \in Kinds, NEW n \in 1..MaxBatch, Commit(t, kind, n)
      PROVE DecidedInv'
    <2> DEFINE a == agg[t]
               events == WrapEvents(cmd[t], base[t], kind, n)
    <2>1. /\ a \in Aggs
          /\ Len(log'[a]) = Len(log[a]) + n
          /\ \A i \in 1..Len(log[a]) : log'[a][i] = log[a][i]
          /\ \A i \in 1..n : log'[a][Len(log[a]) + i] = events[i]
          /\ \A b \in Aggs \ {a} : log'[b] = log[b]
        BY <1>3, <1>t, CommitLog
    <2>2. \A i \in 1..n : events[i].seq = base[t] + i
        <3>1. \A i \in 1..n : events[i] =
                [cmd |-> cmd[t], pos |-> i, seq |-> base[t] + i, kind |-> kind]
            BY <1>t, BatchFacts
        <3> HIDE DEF events
        <3> TAKE i \in 1..n
        <3>2. events[i] = [cmd |-> cmd[t], pos |-> i, seq |-> base[t] + i, kind |-> kind]
            BY <3>1
        <3> QED
            BY <3>2
    <2>3. /\ base[t] \in Nat /\ n \in Nat
          /\ \A b \in Aggs : Len(log[b]) \in Nat
          /\ base[t] <= Len(log[a])
        BY <1>3, <1>t DEF Commit, TypeOK, Content, DecidedInv, BaseReached
    <2>4. Store = "postgres" => base[t] = Len(log[a])
        BY <1>3, <1>t, NoConflictMeansCurrent DEF Commit, DecidedInv
    <2> HIDE DEF events
    <2>5. ASSUME NEW i \in 1..Len(log'[a])
          PROVE  IF Store = "postgres" THEN log'[a][i].seq = i ELSE log'[a][i].seq <= i
        <3>0. i \in Nat /\ i >= 1
            BY <2>1, <2>3, <2>5
        <3>1. CASE i <= Len(log[a])
            <4>1. i \in 1..Len(log[a])
                BY <2>3, <3>0, <3>1
            <4>2. log'[a][i] = log[a][i]
                BY <2>1, <4>1
            <4>3. IF Store = "postgres" THEN log[a][i].seq = i ELSE log[a][i].seq <= i
                BY <2>1, <4>1 DEF DecidedInv, DecidedOnLog
            <4> QED
                BY <4>2, <4>3
        <3>2. CASE i > Len(log[a])
            <4>1. PICK j \in 1..n : i = Len(log[a]) + j
                <5>1. i - Len(log[a]) \in 1..n /\ i = Len(log[a]) + (i - Len(log[a]))
                    BY <2>1, <2>3, <2>5, <3>0, <3>2
                <5> QED
                    BY <5>1
            <4>2. log'[a][i].seq = base[t] + j
                BY <2>1, <2>2, <4>1
            <4> QED
                BY <2>3, <2>4, <4>1, <4>2
        <3> QED
            BY <2>3, <3>0, <3>1, <3>2
    <2>6. DecidedOnLog'
        BY <2>1, <2>5 DEF DecidedInv, DecidedOnLog
    <2>7. BaseReached'
        <3> SUFFICES ASSUME NEW u \in Tasks, pc'[u] = "handle"
                     PROVE  base'[u] <= Len(log'[agg'[u]])
            BY DEF BaseReached
        <3>1. pc[u] = "handle" /\ base'[u] = base[u] /\ agg'[u] = agg[u] /\ agg[u] \in Aggs
            BY <1>3, <1>t DEF Commit, TypeOK
        <3>2. base[u] <= Len(log[agg[u]]) /\ base[u] \in Nat
            BY <1>t, <3>1 DEF DecidedInv, BaseReached, TypeOK
        <3> QED
            BY <2>1, <2>3, <3>1, <3>2
    <2> QED
        BY <1>0, <2>6, <2>7 DEF DecidedInv
<1>4. ASSUME NEW t \in Tasks, LoadView(t) \/ StoreView(t) \/ LoadAll(t) \/ StoreAll(t) \/ IndexCode(t)
      PROVE DecidedInv'
    <2>1. log' = log /\ base' = base /\ agg' = agg
        BY <1>4 DEF LoadView, StoreView, LoadAll, StoreAll, IndexCode, store, local
    <2>2. \A u \in Tasks : pc'[u] = "handle" => pc[u] = "handle"
        BY <1>4, <1>t DEF LoadView, StoreView, LoadAll, StoreAll, IndexCode, TypeOK
    <2> QED
        BY <1>0, <2>1, <2>2, DecidedUnchanged
<1>5. ASSUME NEW t \in Tasks, ViewUpdateFails(t) PROVE DecidedInv'
    <2>1. CASE pc[t] = "token"
        BY <1>2, <1>5, <2>1 DEF ViewUpdateFails, store
    <2>2. CASE pc[t] # "token"
        <3>1. pc[t] \in {"view", "view_store", "all", "all_store", "code"}
            BY <1>5, <1>t, <2>2 DEF ViewUpdateFails, Dispatching, TypeOK, Phases
        <3>2. QueryAfter[pc[t]] \in {"all", "code", "token"}
            BY <3>1 DEF QueryAfter
        <3>3. \A u \in Tasks : pc'[u] = "handle" => pc[u] = "handle"
            BY <1>5, <1>t, <2>2, <3>2 DEF ViewUpdateFails, TypeOK
        <3> QED
            BY <1>0, <1>5, <2>2, <3>3, DecidedUnchanged DEF ViewUpdateFails, store, local
    <2> QED
        BY <2>1, <2>2
<1>6. ASSUME Crash PROVE DecidedInv'
    <2>1. BaseReached'
        BY <1>6 DEF Crash, BaseReached
    <2>2. DecidedOnLog'
        BY <1>6 DEF Crash, store, NoEvents, DecidedInv, DecidedOnLog
    <2> QED
        BY <1>0, <2>1, <2>2 DEF DecidedInv
<1>7. CASE UNCHANGED vars
    BY <1>0, <1>7, DecidedUnchanged DEF vars, store, local
<1> QED
    BY <1>1, <1>2, <1>3, <1>4, <1>5, <1>6, <1>7
    DEF Next, Proceed, Decline, CommitConflict, IndexToken, Cancel, store

(* On Postgres every event stands at the place of the log its command      *)
(* reckoned with: no command was decided on a state that had changed by    *)
(* the time it was committed.  In memory no event runs ahead of the log.   *)
THEOREM DecidedOnLogHolds == Spec => []DecidedOnLog
<1>1. DecidedInv => DecidedOnLog
    BY DEF DecidedInv
<1> QED
    BY <1>1, DecidedInit, DecidedStep, PTL DEF Spec

-----------------------------------------------------------------------------
(***************************************************************************)
(* CqrsPipeline on Postgres implements EventLog: seen through the events   *)
(* table alone, concurrent handlers execute one command after the other,   *)
(* each at most once and on the log as it is.                              *)
(***************************************************************************)

(* A command that is about to commit is its handler's own and not in the   *)
(* log: no event is committed twice.                                       *)
IssuedBound == issued <= MaxCmds

LogIssued == \A a \in Aggs : \A i \in 1..Len(log[a]) : log[a][i].cmd <= issued

CmdFresh ==
    \A t \in Tasks : pc[t] = "handle" =>
        /\ cmd[t] \in 1..issued
        /\ \A a \in Aggs : \A i \in 1..Len(log[a]) : log[a][i].cmd # cmd[t]

CmdOwn ==
    \A t, u \in Tasks : pc[t] = "handle" /\ pc[u] = "handle" /\ t # u => cmd[t] # cmd[u]

SerialInv == DecidedInv /\ IssuedBound /\ LogIssued /\ CmdFresh /\ CmdOwn

LEMMA SerialInit == Init => SerialInv
<1> SUFFICES ASSUME Init PROVE SerialInv
    OBVIOUS
<1>1. IssuedBound /\ LogIssued
    BY BoundAssumption DEF Init, NoEvents, IssuedBound, LogIssued
<1>2. CmdFresh /\ CmdOwn
    BY DEF Init, CmdFresh, CmdOwn
<1> QED
    BY <1>1, <1>2, DecidedInit DEF SerialInv

(* Steps that leave the log alone and start no command. *)
LEMMA SerialUnchanged ==
    ASSUME SerialInv, DecidedInv', log' = log, issued' = issued,
           \A t \in Tasks : pc'[t] = "handle" => pc[t] = "handle" /\ cmd'[t] = cmd[t]
    PROVE  SerialInv'
<1>1. IssuedBound' /\ LogIssued'
    BY DEF SerialInv, IssuedBound, LogIssued
<1>2. CmdFresh'
    BY DEF SerialInv, CmdFresh
<1>3. CmdOwn'
    BY DEF SerialInv, CmdOwn
<1> QED
    BY <1>1, <1>2, <1>3 DEF SerialInv

(* The events of a commit are all of one command. *)
LEMMA CommitCmds ==
    ASSUME DecidedInv, NEW t \in Tasks, NEW kind \in Kinds, NEW n \in 1..MaxBatch,
           Commit(t, kind, n)
    PROVE  \A a \in Aggs : \A i \in 1..Len(log'[a]) :
                \/ log'[a][i].cmd = cmd[t]
                \/ i \in 1..Len(log[a]) /\ log'[a][i] = log[a][i]
<1> DEFINE events == WrapEvents(cmd[t], base[t], kind, n)
<1>0. TypeInv /\ TypeOK
    BY DEF DecidedInv, TypeInv
<1>1. /\ agg[t] \in Aggs
      /\ Len(log'[agg[t]]) = Len(log[agg[t]]) + n
      /\ \A i \in 1..Len(log[agg[t]]) : log'[agg[t]][i] = log[agg[t]][i]
      /\ \A i \in 1..n : log'[agg[t]][Len(log[agg[t]]) + i] = events[i]
      /\ \A b \in Aggs \ {agg[t]} : log'[b] = log[b]
    BY <1>0, CommitLog
<1>2. \A i \in 1..n : events[i] = [cmd |-> cmd[t], pos |-> i, seq |-> base[t] + i, kind |-> kind]
    BY <1>0, BatchFacts
<1>3. n \in Nat /\ \A a \in Aggs : Len(log[a]) \in Nat
    BY <1>0, BatchFacts DEF TypeOK, Content
<1> HIDE DEF events
<1> TAKE a \in Aggs
<1> TAKE i \in 1..Len(log'[a])
<1>4. CASE a # agg[t]
    BY <1>1, <1>4
<1>5. CASE a = agg[t] /\ i <= Len(log[a])
    BY <1>1, <1>3, <1>5
<1>6. CASE a = agg[t] /\ i > Len(log[a])
    <2> DEFINE j == i - Len(log[a])
    <2>1. j \in 1..n /\ i = Len(log[a]) + j
        BY <1>1, <1>3, <1>6
    <2> HIDE DEF j
    <2>2. log'[a][i] = events[j]
        BY <1>1, <1>6, <2>1
    <2>3. events[j] = [cmd |-> cmd[t], pos |-> j, seq |-> base[t] + j, kind |-> kind]
        BY <1>2, <2>1
    <2> QED
        BY <2>2, <2>3
<1> QED
    BY <1>1, <1>3, <1>4, <1>5, <1>6

LEMMA SerialStep == SerialInv /\ [Next]_vars => SerialInv'
<1> SUFFICES ASSUME SerialInv, [Next]_vars PROVE SerialInv'
    OBVIOUS
<1>0. DecidedInv'
    BY DecidedStep DEF SerialInv
<1>t. DecidedInv /\ TypeOK
    BY DEF SerialInv, DecidedInv, TypeInv
<1>1. ASSUME NEW t \in Tasks, NEW a \in Aggs, LoadAggregate(t, a) PROVE SerialInv'
    <2>1. /\ issued \in Nat /\ issued' = issued + 1 /\ issued < MaxCmds
          /\ log' = log
          /\ cmd'[t] = issued + 1
          /\ \A u \in Tasks \ {t} : pc'[u] = pc[u] /\ cmd'[u] = cmd[u]
        BY <1>1, <1>t DEF LoadAggregate, TypeOK, store
    <2>2. \A b \in Aggs : \A i \in 1..Len(log[b]) : log[b][i].cmd \in Nat
        <3>1. \A b \in Aggs : log[b] \in Seq(Event)
            BY <1>t DEF TypeOK, Content
        <3>2. \A b \in Aggs : \A i \in 1..Len(log[b]) : log[b][i] \in Event
            BY <3>1
        <3> QED
            BY <3>2 DEF Event
    <2>3. IssuedBound'
        BY <2>1, BoundAssumption DEF IssuedBound
    <2>4. LogIssued'
        BY <2>1, <2>2 DEF SerialInv, LogIssued
    <2>5. CmdFresh'
        <3> SUFFICES ASSUME NEW u \in Tasks, pc'[u] = "handle"
                     PROVE  /\ cmd'[u] \in 1..issued'
                            /\ \A b \in Aggs : \A i \in 1..Len(log'[b]) : log'[b][i].cmd # cmd'[u]
            BY DEF CmdFresh
        <3>1. CASE u = t
            BY <2>1, <2>2, <3>1 DEF SerialInv, LogIssued
        <3>2. CASE u # t
            BY <2>1, <3>2 DEF SerialInv, CmdFresh
        <3> QED
            BY <3>1, <3>2
    <2>6. CmdOwn'
        <3>1. \A u \in Tasks \ {t} : pc'[u] = "handle" => cmd'[u] \in 1..issued
            BY <2>1 DEF SerialInv, CmdFresh
        <3>2. \A u \in Tasks \ {t} : pc'[u] = "handle" => cmd'[u] # cmd'[t]
            BY <2>1, <3>1
        <3>3. \A u, v \in Tasks \ {t} : pc'[u] = "handle" /\ pc'[v] = "handle" /\ u # v
                    => cmd'[u] # cmd'[v]
            BY <2>1 DEF SerialInv, CmdOwn
        <3> QED
            BY <3>2, <3>3 DEF CmdOwn
    <2> QED
        BY <1>0, <2>3, <2>4, <2>5, <2>6 DEF SerialInv
<1>2. ASSUME NEW t \in Tasks, Return(t), log' = log, issued' = issued PROVE SerialInv'
    BY <1>0, <1>2, <1>t, SerialUnchanged DEF Return, TypeOK
<1>3. ASSUME NEW t \in Tasks, NEW kind \in Kinds, NEW n \in 1..MaxBatch, Commit(t, kind, n)
      PROVE SerialInv'
    <2>1. \A a \in Aggs : \A i \in 1..Len(log'[a]) :
                \/ log'[a][i].cmd = cmd[t]
                \/ i \in 1..Len(log[a]) /\ log'[a][i] = log[a][i]
        BY <1>3, <1>t, CommitCmds
    <2>2. /\ pc[t] = "handle"
          /\ issued' = issued /\ cmd' = cmd
          /\ \A u \in Tasks : pc'[u] = "handle" => pc[u] = "handle" /\ u # t
        BY <1>3, <1>t DEF Commit, TypeOK
    <2>3. cmd[t] \in 1..issued /\ issued \in Nat
        BY <1>t, <2>2 DEF SerialInv, CmdFresh, TypeOK
    <2>4. IssuedBound'
        BY <2>2 DEF SerialInv, IssuedBound
    <2>5. LogIssued'
        <3> SUFFICES ASSUME NEW a \in Aggs, NEW i \in 1..Len(log'[a])
                     PROVE  log'[a][i].cmd <= issued'
            BY DEF LogIssued
        <3>1. CASE log'[a][i].cmd = cmd[t]
            BY <2>2, <2>3, <3>1
        <3>2. CASE i \in 1..Len(log[a]) /\ log'[a][i] = log[a][i]
            BY <2>2, <3>2 DEF SerialInv, LogIssued
        <3> QED
            BY <2>1, <3>1, <3>2
    <2>6. CmdFresh'
        <3> SUFFICES ASSUME NEW u \in Tasks, pc'[u] = "handle"
                     PROVE  /\ cmd'[u] \in 1..issued'
                            /\ \A a \in Aggs : \A i \in 1..Len(log'[a]) : log'[a][i].cmd # cmd'[u]
            BY DEF CmdFresh
        <3>1. pc[u] = "handle" /\ u # t
            BY <2>2
        <3>2. cmd[u] \in 1..issued /\ cmd[u] # cmd[t]
            BY <2>2, <3>1 DEF SerialInv, CmdFresh, CmdOwn
        <3>3. \A a \in Aggs : \A i \in 1..Len(log[a]) : log[a][i].cmd # cmd[u]
            BY <3>1 DEF SerialInv, CmdFresh
        <3> QED
            BY <2>1, <2>2, <3>2, <3>3
    <2>7. CmdOwn'
        BY <2>2 DEF SerialInv, CmdOwn
    <2> QED
        BY <1>0, <2>4, <2>5, <2>6, <2>7 DEF SerialInv
<1>4. ASSUME NEW t \in Tasks, LoadView(t) \/ StoreView(t) \/ LoadAll(t) \/ StoreAll(t) \/ IndexCode(t)
      PROVE SerialInv'
    <2>1. log' = log /\ cmd' = cmd /\ issued' = issued
        BY <1>4 DEF LoadView, StoreView, LoadAll, StoreAll, IndexCode, store, local
    <2>2. \A u \in Tasks : pc'[u] = "handle" => pc[u] = "handle"
        BY <1>4, <1>t DEF LoadView, StoreView, LoadAll, StoreAll, IndexCode, TypeOK
    <2> QED
        BY <1>0, <2>1, <2>2, SerialUnchanged
<1>5. ASSUME NEW t \in Tasks, ViewUpdateFails(t) PROVE SerialInv'
    <2>1. CASE pc[t] = "token"
        BY <1>2, <1>5, <2>1 DEF ViewUpdateFails, store
    <2>2. CASE pc[t] # "token"
        <3>1. pc[t] \in {"view", "view_store", "all", "all_store", "code"}
            BY <1>5, <1>t, <2>2 DEF ViewUpdateFails, Dispatching, TypeOK, Phases
        <3>2. QueryAfter[pc[t]] \in {"all", "code", "token"}
            BY <3>1 DEF QueryAfter
        <3>3. \A u \in Tasks : pc'[u] = "handle" => pc[u] = "handle"
            BY <1>5, <1>t, <2>2, <3>2 DEF ViewUpdateFails, TypeOK
        <3> QED
            BY <1>0, <1>5, <2>2, <3>3, SerialUnchanged DEF ViewUpdateFails, store, local
    <2> QED
        BY <2>1, <2>2
<1>6. ASSUME Crash PROVE SerialInv'
    <2>1. CmdFresh' /\ CmdOwn'
        BY <1>6 DEF Crash, CmdFresh, CmdOwn
    <2>2. IssuedBound'
        BY <1>6 DEF Crash, SerialInv, IssuedBound
    <2>3. LogIssued'
        BY <1>6 DEF Crash, store, NoEvents, SerialInv, LogIssued
    <2> QED
        BY <1>0, <2>1, <2>2, <2>3 DEF SerialInv
<1>7. CASE UNCHANGED vars
    BY <1>0, <1>7, SerialUnchanged DEF vars, store, local
<1> QED
    BY <1>1, <1>2, <1>3, <1>4, <1>5, <1>6, <1>7
    DEF Next, Proceed, Decline, CommitConflict, IndexToken, Cancel, store

(* Only a commit moves the log; on Postgres it is a step of EventLog. *)
LEMMA LogStep ==
    ASSUME Store = "postgres", SerialInv, [Next]_vars
    PROVE  [Abstract!Next]_log
<1>0. DecidedInv /\ TypeOK /\ DecidedOnLog /\ BaseReached
    BY DEF SerialInv, DecidedInv, TypeInv
<1>1. ASSUME NEW t \in Tasks, NEW kind \in Kinds, NEW n \in 1..MaxBatch, Commit(t, kind, n)
      PROVE  Abstract!Next
    <2>1. /\ pc[t] = "handle"
          /\ ~Conflicts(agg[t], WrapEvents(cmd[t], base[t], kind, n))
          /\ log' = [log EXCEPT ![agg[t]] = @ \o WrapEvents(cmd[t], base[t], kind, n)]
        BY <1>1 DEF Commit
    <2>2. agg[t] \in Aggs /\ log \in [Aggs -> Seq(Event)]
        BY <1>0, <2>1 DEF TypeOK, Content
    <2>3. base[t] = Len(log[agg[t]])
        BY <1>0, <2>1, NoConflictMeansCurrent
    <2>4. Abstract!Batch(cmd[t], Len(log[agg[t]]), kind, n) = WrapEvents(cmd[t], base[t], kind, n)
        BY <2>3 DEF Abstract!Batch, WrapEvents
    <2>5. log' = [log EXCEPT ![agg[t]] = @ \o Abstract!Batch(cmd[t], Len(@), kind, n)]
        BY <2>1, <2>2, <2>4
    <2>6. cmd[t] \in 1..MaxCmds
        BY <1>0, <2>1, BoundAssumption DEF SerialInv, CmdFresh, IssuedBound, TypeOK
    <2>7. ~Abstract!Used(cmd[t])
        BY <2>1 DEF SerialInv, CmdFresh, Abstract!Used
    <2>8. Abstract!Execute(agg[t], cmd[t], kind, n)
        BY <2>5, <2>7 DEF Abstract!Execute
    <2>9. kind \in Abstract!Kinds
        BY DEF Kinds, Abstract!Kinds
    <2>10. log'[agg[t]] # log[agg[t]]
        <3> DEFINE appended == WrapEvents(cmd[t], base[t], kind, n)
        <3>1. appended \in Seq(Event) /\ Len(appended) = n /\ n \in Nat /\ n > 0
            BY <1>0, BatchFacts
        <3>2. log[agg[t]] \in Seq(Event)
            BY <2>2
        <3>3. log'[agg[t]] = log[agg[t]] \o appended
            BY <2>1, <2>2
        <3>4. \A s, u \in Seq(Event) : Len(s \o u) = Len(s) + Len(u)
            OBVIOUS
        <3> HIDE DEF appended
        <3>5. Len(log'[agg[t]]) = Len(log[agg[t]]) + n
            BY <3>1, <3>2, <3>3, <3>4
        <3> QED
            BY <3>1, <3>2, <3>5
    <2> QED
        BY <2>2, <2>6, <2>8, <2>9, <2>10 DEF Abstract!Next
<1>2. ASSUME NEW t \in Tasks, Proceed(t) \/ ViewUpdateFails(t) \/ Cancel(t)
      PROVE  [Abstract!Next]_log
    <2>1. CASE \E kind \in Kinds, n \in 1..MaxBatch : Commit(t, kind, n)
        BY <1>1, <2>1
    <2>2. CASE ViewUpdateFails(t) \/ Cancel(t)
        BY <2>2 DEF ViewUpdateFails, Cancel, store
    <2>3. CASE Proceed(t) /\ ~\E kind \in Kinds, n \in 1..MaxBatch : Commit(t, kind, n)
        BY <2>3 DEF Proceed, Decline, CommitConflict, LoadView, StoreView, LoadAll, StoreAll,
                    IndexCode, IndexToken, store
    <2> QED
        BY <1>2, <2>1, <2>2, <2>3
<1>3. ASSUME NEW t \in Tasks, NEW a \in Aggs, LoadAggregate(t, a) PROVE log' = log
    BY <1>3 DEF LoadAggregate, store
<1>4. ASSUME Crash PROVE log' = log
    BY <1>4 DEF Crash, store
<1>5. CASE UNCHANGED vars
    BY <1>5 DEF vars, store
<1> QED
    BY <1>2, <1>3, <1>4, <1>5 DEF Next

(* On Postgres the events table evolves as EventLog allows: a lost update  *)
(* of an aggregate is impossible, whatever handlers, crashes and failing   *)
(* views do.                                                               *)
THEOREM LogIsSerial ==
    ASSUME Store = "postgres"
    PROVE  Spec => SerialLog
<1>1. Init => Abstract!Init
    BY DEF Init, Abstract!Init, NoEvents
<1>2. SerialInv /\ [Next]_vars => [Abstract!Next]_log
    BY LogStep
<1> QED
    BY <1>1, <1>2, SerialInit, SerialStep, PTL DEF Spec, SerialLog, Abstract!Spec
=============================================================================
