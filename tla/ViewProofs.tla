----------------------------- MODULE ViewProofs -----------------------------
(***************************************************************************)
(* Proofs about the views of CqrsPipeline: what exactly can make the view  *)
(* of an aggregate or the list of all instances lose events, that the      *)
(* lookup rows lose none, and that no view shows an event twice or one     *)
(* that was not committed.                                                 *)
(***************************************************************************)
EXTENDS CqrsPipelineProofs

(* An aggregate is untouched as long as no two dispatches overlapped on it *)
(* and no fault hit one.                                                   *)
Untouched(a) == a \in Aggs /\ a \notin raced /\ a \notin faulted

Works(t, a) == Dispatching(t) /\ agg[t] = a

(* Two handlers dispatch on one aggregate only after it is marked. *)
OneAtATime ==
    \A a \in Aggs \ raced : \A t, u \in Tasks : Works(t, a) /\ Works(u, a) => t = u

(* How far the one handler that dispatches has brought the view; without   *)
(* one it is up to date.                                                   *)
Progress(t, a) ==
    /\ pc[t] \in {"view", "view_store"} => log[a] = view[a].payload \o batch[t]
    /\ pc[t] = "view_store" => vcopy[t] = view[a]
    /\ pc[t] \notin {"view", "view_store"} => view[a].payload = log[a]

InProgress == \A a \in Aggs : Untouched(a) => \A t \in Tasks : Works(t, a) => Progress(t, a)

ViewInv == TypeInv /\ OneAtATime /\ InProgress /\ ViewExact

LEMMA ViewInit == Init => ViewInv
<1> SUFFICES ASSUME Init PROVE ViewInv
    OBVIOUS
<1>1. OneAtATime /\ InProgress
    BY DEF Init, OneAtATime, InProgress, Works, Dispatching
<1>2. ViewExact
    BY DEF Init, ViewExact, NoEvents, NoRow
<1> QED
    BY <1>1, <1>2, TypeInit DEF ViewInv

(* A copy that is not refused replaces the row. *)
LEMMA UpdateViewPayload ==
    ASSUME NEW row, NEW copy, NEW p, ~Refused(row, copy)
    PROVE  UpdateView(row, copy, p).payload = p
BY DEF UpdateView

(* Steps that leave log and view alone, mark the aggregates on which a     *)
(* handler stops to dispatch or skips its view, and otherwise only move    *)
(* handlers that are past the view.                                        *)
LEMMA ViewUnchanged ==
    ASSUME ViewInv, TypeInv', log' = log, view' = view,
           raced \subseteq raced', faulted \subseteq faulted',
           \A t \in Tasks : Dispatching(t)' =>
                /\ Dispatching(t)
                /\ agg'[t] = agg[t]
                /\ \/ pc'[t] = pc[t] /\ batch'[t] = batch[t] /\ vcopy'[t] = vcopy[t]
                   \/ {pc[t], pc'[t]} \cap {"view", "view_store"} = {}
                   \/ agg[t] \in faulted',
           \A t \in Tasks : Dispatching(t) /\ ~Dispatching(t)' =>
                agg[t] \in faulted' \/ pc[t] \notin {"view", "view_store"}
    PROVE  ViewInv'
<1>1. OneAtATime'
    BY DEF ViewInv, OneAtATime, Works
<1>2. InProgress'
    <2> SUFFICES ASSUME NEW a \in Aggs, Untouched(a)', NEW t \in Tasks, Works(t, a)'
                 PROVE  Progress(t, a)'
        BY DEF InProgress
    <2>1. Untouched(a) /\ a \notin faulted'
        BY DEF Untouched
    <2>2. Works(t, a)
        BY DEF Works
    <2>3. Progress(t, a)
        BY <2>1, <2>2 DEF ViewInv, InProgress
    <2>4. \/ pc'[t] = pc[t] /\ batch'[t] = batch[t] /\ vcopy'[t] = vcopy[t]
          \/ pc[t] \notin {"view", "view_store"} /\ pc'[t] \notin {"view", "view_store"}
        BY <2>1, <2>2 DEF Works
    <2> QED
        BY <2>3, <2>4 DEF Progress
<1>3. ViewExact'
    <2> SUFFICES ASSUME NEW a \in Aggs, a \notin raced', a \notin faulted', Quiet(a)'
                 PROVE  view[a].payload = log[a]
        BY DEF ViewExact
    <2>1. CASE Quiet(a)
        BY <2>1 DEF ViewInv, ViewExact
    <2>2. CASE ~Quiet(a)
        <3>1. PICK t \in Tasks : Works(t, a)
            BY <2>2 DEF Quiet, Works
        <3>2. ~Dispatching(t)'
            BY <3>1 DEF Quiet, Works
        <3>3. Progress(t, a)
            BY <3>1 DEF ViewInv, InProgress, Untouched
        <3> QED
            BY <3>1, <3>2, <3>3 DEF Works, Progress
    <2> QED
        BY <2>1, <2>2
<1> QED
    BY <1>1, <1>2, <1>3 DEF ViewInv

LEMMA ViewStep == ViewInv /\ [Next]_vars => ViewInv'
<1> SUFFICES ASSUME ViewInv, [Next]_vars PROVE ViewInv'
    OBVIOUS
<1>0. TypeInv'
    BY TypeStep DEF ViewInv
<1>t. TypeInv /\ TypeOK
    BY DEF ViewInv, TypeInv
<1>1. ASSUME NEW t \in Tasks, NEW a \in Aggs, LoadAggregate(t, a) PROVE ViewInv'
    BY <1>0, <1>1, <1>t, ViewUnchanged DEF LoadAggregate, store, history, TypeOK, Dispatching
<1>2. ASSUME NEW t \in Tasks, Return(t), pc[t] = "handle", UNCHANGED <<store, history>>
      PROVE ViewInv'
    BY <1>0, <1>2, <1>t, ViewUnchanged DEF Return, store, history, TypeOK, Dispatching
<1>3. ASSUME NEW t \in Tasks, NEW kind \in Kinds, NEW n \in 1..MaxBatch, Commit(t, kind, n)
      PROVE ViewInv'
    <2> DEFINE a == agg[t]
               events == WrapEvents(cmd[t], base[t], kind, n)
    <2>1. /\ a \in Aggs
          /\ log'[a] = log[a] \o events
          /\ \A b \in Aggs \ {a} : log'[b] = log[b]
        BY <1>3, <1>t, CommitLog
    <2>2. /\ pc'[t] = "view" /\ batch'[t] = events
          /\ \A u \in Tasks \ {t} : pc'[u] = pc[u] /\ batch'[u] = batch[u]
          /\ ~Dispatching(t)
          /\ UNCHANGED <<view, agg, vcopy, faulted>>
          /\ raced \subseteq raced'
          /\ ~Quiet(a) => a \in raced'
        BY <1>3, <1>t DEF Commit, TypeOK, Dispatching, Quiet
    <2> HIDE DEF events
    <2>3. \A u \in Tasks \ {t}, b \in Aggs : Works(u, b)' <=> Works(u, b)
        BY <2>2 DEF Works, Dispatching
    <2>4. \A b \in Aggs : Works(t, b)' => b = a
        BY <2>2 DEF Works
    <2>5. \A u \in Tasks : Works(u, a) => a \in raced'
        BY <2>2 DEF Works, Quiet
    <2>6. OneAtATime'
        <3> SUFFICES ASSUME NEW b \in Aggs, b \notin raced',
                            NEW u \in Tasks, NEW v \in Tasks, Works(u, b)', Works(v, b)'
                     PROVE  u = v
            BY DEF OneAtATime
        <3> QED
            BY <2>2, <2>3, <2>4, <2>5 DEF ViewInv, OneAtATime
    <2>7. InProgress'
        <3> SUFFICES ASSUME NEW b \in Aggs, Untouched(b)', NEW u \in Tasks, Works(u, b)'
                     PROVE  Progress(u, b)'
            BY DEF InProgress
        <3>1. Untouched(b)
            BY <2>2 DEF Untouched
        <3>2. CASE u = t
            <4>1. b = a /\ Quiet(a)
                BY <2>2, <2>4, <3>2 DEF Untouched
            <4>2. view[a].payload = log[a]
                BY <2>1, <3>1, <4>1 DEF ViewInv, ViewExact, Untouched
            <4> QED
                BY <2>1, <2>2, <3>2, <4>1, <4>2 DEF Progress
        <3>3. CASE u # t
            <4>1. Works(u, b)
                BY <2>3, <3>3
            <4>2. b # a
                BY <2>5, <4>1 DEF Untouched
            <4>3. Progress(u, b)
                BY <3>1, <4>1 DEF ViewInv, InProgress
            <4> QED
                BY <2>1, <2>2, <3>3, <4>2, <4>3 DEF Progress
        <3> QED
            BY <3>2, <3>3
    <2>8. ViewExact'
        <3> SUFFICES ASSUME NEW b \in Aggs, b \notin raced', b \notin faulted', Quiet(b)'
                     PROVE  view'[b].payload = log'[b]
            BY DEF ViewExact
        <3>1. b # a
            BY <2>2 DEF Quiet, Dispatching
        <3>2. Quiet(b)
            BY <2>2 DEF Quiet, Dispatching
        <3> QED
            BY <2>1, <2>2, <3>1, <3>2 DEF ViewInv, ViewExact
    <2> QED
        BY <1>0, <2>6, <2>7, <2>8 DEF ViewInv
<1>4. ASSUME NEW t \in Tasks, LoadView(t) PROVE ViewInv'
    <2>1. /\ Dispatching(t) /\ Dispatching(t)' /\ agg[t] \in Aggs
          /\ pc[t] = "view" /\ pc'[t] = "view_store" /\ vcopy'[t] = view[agg[t]]
          /\ \A u \in Tasks \ {t} : pc'[u] = pc[u] /\ vcopy'[u] = vcopy[u]
          /\ UNCHANGED <<log, view, agg, batch, raced, faulted>>
        BY <1>4, <1>t DEF LoadView, TypeOK, Dispatching, store, history
    <2>2. \A u \in Tasks, b \in Aggs : Works(u, b)' <=> Works(u, b)
        BY <2>1 DEF Works, Dispatching
    <2>3. OneAtATime'
        BY <2>1, <2>2 DEF ViewInv, OneAtATime
    <2>4. InProgress'
        <3> SUFFICES ASSUME NEW b \in Aggs, Untouched(b)', NEW u \in Tasks, Works(u, b)'
                     PROVE  Progress(u, b)'
            BY DEF InProgress
        <3>1. Works(u, b) /\ Progress(u, b)
            BY <2>1, <2>2 DEF ViewInv, InProgress, Untouched
        <3> QED
            BY <2>1, <3>1 DEF Progress, Works
    <2>5. ViewExact'
        BY <2>1 DEF ViewInv, ViewExact, Quiet, Dispatching
    <2> QED
        BY <1>0, <2>3, <2>4, <2>5 DEF ViewInv
<1>5. ASSUME NEW t \in Tasks, StoreView(t) PROVE ViewInv'
    <2> DEFINE a == agg[t]
    <2>1. /\ Dispatching(t) /\ Dispatching(t)' /\ a \in Aggs
          /\ pc[t] = "view_store" /\ pc'[t] = "all"
          /\ view'[a] = UpdateView(view[a], vcopy[t], vcopy[t].payload \o batch[t])
          /\ \A b \in Aggs \ {a} : view'[b] = view[b]
          /\ \A u \in Tasks \ {t} : pc'[u] = pc[u]
          /\ UNCHANGED <<log, agg, batch, vcopy, raced, faulted>>
        BY <1>5, <1>t DEF StoreView, TypeOK, Dispatching, local, history
    <2>2. \A u \in Tasks, b \in Aggs : Works(u, b)' <=> Works(u, b)
        BY <2>1 DEF Works, Dispatching
    <2>3. OneAtATime'
        BY <2>1, <2>2 DEF ViewInv, OneAtATime
    <2>4. ASSUME Untouched(a) PROVE view'[a].payload = log[a]
        <3>1. Works(t, a) /\ Progress(t, a)
            BY <2>1, <2>4 DEF Works, ViewInv, InProgress
        <3>2. vcopy[t] = view[a] /\ log[a] = view[a].payload \o batch[t]
            BY <2>1, <3>1 DEF Progress
        <3>3. view[a].version \in Nat
            BY <1>t, <2>1 DEF TypeOK, Row
        <3>4. ~Refused(view[a], vcopy[t])
            BY <3>2, <3>3 DEF Refused
        <3>5. view'[a].payload = vcopy[t].payload \o batch[t]
            <4>1. \A row, copy, p : ~Refused(row, copy) => UpdateView(row, copy, p).payload = p
                BY UpdateViewPayload
            <4> QED
                BY <2>1, <3>4, <4>1
        <3> QED
            BY <3>2, <3>5
    <2>5. InProgress'
        <3> SUFFICES ASSUME NEW b \in Aggs, Untouched(b)', NEW u \in Tasks, Works(u, b)'
                     PROVE  Progress(u, b)'
            BY DEF InProgress
        <3>1. Untouched(b) /\ Works(u, b) /\ Progress(u, b)
            BY <2>1, <2>2 DEF ViewInv, InProgress, Untouched
        <3>2. CASE b = a
            <4>1. u = t
                BY <2>1, <3>1, <3>2 DEF ViewInv, OneAtATime, Untouched, Works
            <4> QED
                BY <2>1, <2>4, <3>1, <3>2, <4>1 DEF Progress
        <3>3. CASE b # a
            <4>1. u # t
                BY <3>1, <3>3 DEF Works
            <4> QED
                BY <2>1, <3>1, <3>3, <4>1 DEF Progress
        <3> QED
            BY <3>2, <3>3
    <2>6. ViewExact'
        <3> SUFFICES ASSUME NEW b \in Aggs, b \notin raced', b \notin faulted', Quiet(b)'
                     PROVE  view'[b].payload = log'[b]
            BY DEF ViewExact
        <3>1. b # a /\ Quiet(b)
            BY <2>1 DEF Quiet, Dispatching
        <3> QED
            BY <2>1, <3>1 DEF ViewInv, ViewExact
    <2> QED
        BY <1>0, <2>3, <2>5, <2>6 DEF ViewInv
<1>6. ASSUME NEW t \in Tasks, LoadAll(t) \/ StoreAll(t) \/ IndexCode(t) PROVE ViewInv'
    <2>1. /\ Dispatching(t) /\ Dispatching(t)'
          /\ {pc[t], pc'[t]} \cap {"view", "view_store"} = {}
          /\ \A u \in Tasks \ {t} : pc'[u] = pc[u]
          /\ UNCHANGED <<log, view, agg, batch, vcopy, raced, faulted>>
        BY <1>6, <1>t
        DEF LoadAll, StoreAll, IndexCode, TypeOK, Dispatching, store, local, history
    <2> QED
        BY <1>0, <2>1, ViewUnchanged DEF Dispatching, ViewInv
<1>7. ASSUME NEW t \in Tasks, IndexToken(t) PROVE ViewInv'
    BY <1>0, <1>7, <1>t, ViewUnchanged DEF IndexToken, Return, TypeOK, Dispatching, history
<1>8. ASSUME NEW t \in Tasks, ViewUpdateFails(t) PROVE ViewInv'
    <2>1. /\ agg[t] \in faulted'
          /\ faulted \subseteq faulted'
          /\ \A u \in Tasks \ {t} : /\ pc'[u] = pc[u] /\ agg'[u] = agg[u]
                                    /\ batch'[u] = batch[u] /\ vcopy'[u] = vcopy[u]
          /\ Dispatching(t)
          /\ Dispatching(t)' => agg'[t] = agg[t]
          /\ UNCHANGED <<log, view, raced>>
        BY <1>8, <1>t DEF ViewUpdateFails, Return, TypeOK, Dispatching, store, local
    <2> QED
        BY <1>0, <2>1, ViewUnchanged DEF Dispatching, ViewInv
<1>9. ASSUME NEW t \in Tasks, Cancel(t) PROVE ViewInv'
    <2>1. /\ Dispatching(t) => agg[t] \in faulted'
          /\ faulted \subseteq faulted'
          /\ \A u \in Tasks \ {t} : /\ pc'[u] = pc[u] /\ agg'[u] = agg[u]
                                    /\ batch'[u] = batch[u] /\ vcopy'[u] = vcopy[u]
          /\ ~Dispatching(t)'
          /\ UNCHANGED <<log, view, raced>>
        BY <1>9, <1>t DEF Cancel, Return, TypeOK, Dispatching, store
    <2> QED
        BY <1>0, <2>1, ViewUnchanged DEF Dispatching, ViewInv
<1>10. ASSUME Crash PROVE ViewInv'
    <2>1. \A t \in Tasks : ~Dispatching(t)'
        BY <1>10 DEF Crash, Dispatching
    <2>2. CASE Store = "postgres"
        <3>1. /\ \A t \in Tasks : Dispatching(t) => agg[t] \in faulted'
              /\ faulted \subseteq faulted'
              /\ UNCHANGED <<log, view, raced>>
            BY <1>10, <2>2 DEF Crash, store
        <3> QED
            BY <1>0, <2>1, <3>1, ViewUnchanged
    <2>3. CASE Store # "postgres"
        <3>1. \A a \in Aggs : view'[a].payload = log'[a]
            BY <1>10, <2>3 DEF Crash, NoEvents, NoRow
        <3>2. OneAtATime' /\ InProgress'
            BY <2>1 DEF OneAtATime, InProgress, Works
        <3>3. ViewExact'
            BY <3>1 DEF ViewExact
        <3> QED
            BY <1>0, <3>2, <3>3 DEF ViewInv
    <2> QED
        BY <2>2, <2>3
<1>11. ASSUME UNCHANGED vars PROVE ViewInv'
    BY <1>0, <1>11, ViewUnchanged DEF vars, store, local, history, Dispatching
<1> QED
    <2>1. ASSUME NEW t \in Tasks, Decline(t) PROVE ViewInv'
        BY <2>1, <1>2 DEF Decline
    <2>2. ASSUME NEW t \in Tasks, NEW kind \in Kinds, NEW n \in 1..MaxBatch,
                 CommitConflict(t, kind, n)
          PROVE  ViewInv'
        BY <2>2, <1>2 DEF CommitConflict
    <2> QED
        BY <1>1, <1>3, <1>4, <1>5, <1>6, <1>7, <1>8, <1>9, <1>10, <1>11, <2>1, <2>2
        DEF Next, Proceed

(* A view loses events only to an overlap of two dispatches on the same    *)
(* aggregate or to a fault during one, on either store.                    *)
THEOREM ViewExactHolds == Spec => []ViewExact
<1>1. ViewInv => ViewExact
    BY DEF ViewInv
<1> QED
    BY <1>1, ViewInit, ViewStep, PTL DEF Spec

-----------------------------------------------------------------------------
(* The lookup rows *)

Before(k) == {"view", "view_store", "all", "all_store", "code"} \union
                (IF k = "token" THEN {"token"} ELSE {})

(* What a handler is about to index has been committed; what is indexed    *)
(* has been committed; what has been committed is indexed, or some handler *)
(* is about to do it.                                                      *)
DispatchesCommitted ==
    \A a \in Aggs, t \in Tasks : Works(t, a) => CreatedIn(t) \subseteq CreatedKeys(a)

IndexesCommitted ==
    \A a \in Aggs, k \in Keys : \A row \in index[k] : row[2] = a => row \in CreatedKeys(a)

Owes(t, a, k, row) == Works(t, a) /\ pc[t] \in Before(k) /\ row \in CreatedIn(t)

NothingForgotten ==
    \A a \in Aggs \ faulted, k \in Keys : \A row \in CreatedKeys(a) :
        row \in index[k] \/ \E t \in Tasks : Owes(t, a, k, row)

LookupInv == TypeInv /\ DispatchesCommitted /\ IndexesCommitted /\ NothingForgotten

LEMMA LookupsSafe == LookupInv => LookupsFollowCreation
BY DEF LookupInv, IndexesCommitted, NothingForgotten, LookupsFollowCreation, Owes, Works, Quiet

LEMMA LookupInit == Init => LookupInv
<1> SUFFICES ASSUME Init PROVE LookupInv
    OBVIOUS
<1>1. DispatchesCommitted
    BY DEF Init, DispatchesCommitted, Works, Dispatching
<1>2. IndexesCommitted
    BY DEF Init, IndexesCommitted
<1>3. NothingForgotten
    BY DEF Init, NothingForgotten, CreatedKeys, NoEvents
<1> QED
    BY <1>1, <1>2, <1>3, TypeInit DEF LookupInv

(* Steps of handlers that leave log and index alone: what a handler owed   *)
(* it still owes, or its aggregate is marked.                              *)
LEMMA LookupUnchanged ==
    ASSUME LookupInv, TypeInv', log' = log, index' = index, faulted \subseteq faulted',
           \A t \in Tasks : Dispatching(t)' =>
                Dispatching(t) /\ agg'[t] = agg[t] /\ batch'[t] = batch[t],
           \A t \in Tasks : Dispatching(t) =>
                \/ agg[t] \in faulted'
                \/ Dispatching(t)' /\ (pc'[t] = pc[t] \/ {pc[t], pc'[t]} \subseteq Before("code"))
    PROVE  LookupInv'
<1>1. \A a \in Aggs : CreatedKeys(a)' = CreatedKeys(a)
    BY DEF CreatedKeys
<1>2. \A t \in Tasks : Dispatching(t)' => CreatedIn(t)' = CreatedIn(t) /\ agg[t] \in Aggs
    <2> SUFFICES ASSUME NEW t \in Tasks, Dispatching(t)'
                 PROVE  CreatedIn(t)' = CreatedIn(t) /\ agg[t] \in Aggs
        OBVIOUS
    <2>1. agg'[t] = agg[t] /\ batch'[t] = batch[t] /\ Dispatching(t)
        OBVIOUS
    <2>2. agg[t] \in Aggs
        BY <2>1 DEF LookupInv, TypeInv, TypeOK, Dispatching
    <2> QED
        BY <2>1, <2>2 DEF CreatedIn
<1>3. DispatchesCommitted'
    BY <1>1, <1>2 DEF LookupInv, DispatchesCommitted, Works
<1>4. IndexesCommitted'
    BY <1>1 DEF LookupInv, IndexesCommitted
<1>5. NothingForgotten'
    <2> SUFFICES ASSUME NEW a \in Aggs, a \notin faulted', NEW k \in Keys,
                        NEW row \in CreatedKeys(a), row \notin index[k]
                 PROVE  \E t \in Tasks : Owes(t, a, k, row)'
        BY <1>1 DEF NothingForgotten
    <2>1. PICK t \in Tasks : Owes(t, a, k, row)
        BY DEF LookupInv, NothingForgotten
    <2>2. /\ Dispatching(t)' /\ agg'[t] = a
          /\ pc'[t] = pc[t] \/ {pc[t], pc'[t]} \subseteq Before("code")
        BY <2>1 DEF Owes, Works
    <2>3. pc'[t] \in Before(k)
        BY <2>1, <2>2 DEF Owes, Before
    <2> QED
        BY <1>2, <2>1, <2>2, <2>3 DEF Owes, Works
<1> QED
    BY <1>3, <1>4, <1>5 DEF LookupInv

(* A commit adds to the created keys what its handler is about to index. *)
LEMMA CommitKeys ==
    ASSUME TypeInv, NEW t \in Tasks, NEW kind \in Kinds, NEW n \in 1..MaxBatch,
           Commit(t, kind, n), NEW a \in Aggs, a = agg[t]
    PROVE  /\ CreatedKeys(a)' = CreatedKeys(a) \union CreatedIn(t)'
           /\ \A b \in Aggs \ {a} : CreatedKeys(b)' = CreatedKeys(b)
<1> DEFINE events == WrapEvents(cmd[t], base[t], kind, n)
<1>1. /\ Len(log'[a]) = Len(log[a]) + n
      /\ \A i \in 1..Len(log[a]) : log'[a][i] = log[a][i]
      /\ \A i \in 1..n : log'[a][Len(log[a]) + i] = events[i]
      /\ \A b \in Aggs \ {a} : log'[b] = log[b]
    BY CommitLog
<1>2. agg'[t] = a /\ batch'[t] = events
    BY DEF Commit, TypeInv, TypeOK
<1>3. Len(events) = n /\ n \in Nat
    BY BatchFacts DEF TypeInv
<1>4. Len(log[a]) \in Nat
    BY <1>1 DEF TypeInv, TypeOK, Content
<1> HIDE DEF events
<1>5. CreatedIn(t)' = {<<events[i].cmd, a>> : i \in {j \in 1..n : events[j].kind = "created"}}
    BY <1>2, <1>3 DEF CreatedIn
<1>6. CreatedKeys(a)' =
        {<<log'[a][i].cmd, a>> : i \in {j \in 1..Len(log'[a]) : log'[a][j].kind = "created"}}
    BY DEF CreatedKeys
<1>7. ASSUME NEW row \in CreatedKeys(a)' PROVE row \in CreatedKeys(a) \union CreatedIn(t)'
    <2>1. PICK i \in 1..Len(log'[a]) : log'[a][i].kind = "created" /\ row = <<log'[a][i].cmd, a>>
        BY <1>6, <1>7
    <2>2. CASE i \in 1..Len(log[a])
        BY <1>1, <2>1, <2>2 DEF CreatedKeys
    <2>3. CASE i \notin 1..Len(log[a])
        <3>1. i - Len(log[a]) \in 1..n /\ i = Len(log[a]) + (i - Len(log[a]))
            <4>1. \A l, m \in Nat : \A j \in 1..(l + m) :
                    j \notin 1..l => j - l \in 1..m /\ j = l + (j - l)
                OBVIOUS
            <4> QED
                BY <1>1, <1>3, <1>4, <2>1, <2>3, <4>1
        <3>2. log'[a][i] = events[i - Len(log[a])]
            BY <1>1, <3>1
        <3> QED
            BY <1>5, <2>1, <3>1, <3>2
    <2> QED
        BY <2>2, <2>3
<1>8. ASSUME NEW row \in CreatedKeys(a) PROVE row \in CreatedKeys(a)'
    <2>1. PICK i \in 1..Len(log[a]) : log[a][i].kind = "created" /\ row = <<log[a][i].cmd, a>>
        BY <1>8 DEF CreatedKeys
    <2>2. i \in 1..Len(log'[a]) /\ log'[a][i] = log[a][i]
        BY <1>1, <1>3, <1>4, <2>1
    <2> QED
        BY <1>6, <2>1, <2>2
<1>9. ASSUME NEW row \in CreatedIn(t)' PROVE row \in CreatedKeys(a)'
    <2>1. PICK i \in 1..n : events[i].kind = "created" /\ row = <<events[i].cmd, a>>
        BY <1>5, <1>9
    <2>2. Len(log[a]) + i \in 1..Len(log'[a]) /\ log'[a][Len(log[a]) + i] = events[i]
        BY <1>1, <1>3, <1>4, <2>1
    <2> QED
        BY <1>6, <2>1, <2>2
<1>10. \A b \in Aggs \ {a} : CreatedKeys(b)' = CreatedKeys(b)
    BY <1>1 DEF CreatedKeys
<1> QED
    BY <1>7, <1>8, <1>9, <1>10

LEMMA LookupStep == LookupInv /\ [Next]_vars => LookupInv'
<1> SUFFICES ASSUME LookupInv, [Next]_vars PROVE LookupInv'
    OBVIOUS
<1>0. TypeInv'
    BY TypeStep DEF LookupInv
<1>t. TypeInv /\ TypeOK
    BY DEF LookupInv, TypeInv
<1>1. ASSUME NEW t \in Tasks, NEW a \in Aggs, LoadAggregate(t, a) PROVE LookupInv'
    BY <1>0, <1>1, <1>t, LookupUnchanged DEF LoadAggregate, store, history, TypeOK, Dispatching
<1>2. ASSUME NEW t \in Tasks, Return(t), pc[t] = "handle", UNCHANGED <<store, history>>
      PROVE LookupInv'
    BY <1>0, <1>2, <1>t, LookupUnchanged DEF Return, store, history, TypeOK, Dispatching
<1>3. ASSUME NEW t \in Tasks, NEW kind \in Kinds, NEW n \in 1..MaxBatch, Commit(t, kind, n)
      PROVE LookupInv'
    <2>0. PICK a \in Aggs : a = agg[t]
        BY <1>3, <1>t DEF Commit, TypeOK
    <2>1. /\ CreatedKeys(a)' = CreatedKeys(a) \union CreatedIn(t)'
          /\ \A b \in Aggs \ {a} : CreatedKeys(b)' = CreatedKeys(b)
        BY <1>3, <1>t, <2>0, CommitKeys
    <2>2. /\ agg[t] = a
          /\ pc[t] = "handle" /\ pc'[t] = "view"
          /\ \A u \in Tasks \ {t} : pc'[u] = pc[u] /\ batch'[u] = batch[u]
          /\ UNCHANGED <<index, agg, faulted>>
        BY <1>3, <1>t, <2>0 DEF Commit, TypeOK
    <2>3. \A u \in Tasks \ {t} : CreatedIn(u)' = CreatedIn(u) /\ (Dispatching(u)' <=> Dispatching(u))
        BY <2>2 DEF CreatedIn, Dispatching
    <2>5. DispatchesCommitted'
        <3> SUFFICES ASSUME NEW b \in Aggs, NEW u \in Tasks, Works(u, b)'
                     PROVE  CreatedIn(u)' \subseteq CreatedKeys(b)'
            BY DEF DispatchesCommitted
        <3>1. CASE u = t
            BY <2>1, <2>2, <3>1 DEF Works
        <3>2. CASE u # t
            <4>1. CreatedIn(u) \subseteq CreatedKeys(b)
                BY <2>2, <2>3, <3>2 DEF LookupInv, DispatchesCommitted, Works
            <4> QED
                BY <2>1, <2>3, <3>2, <4>1
        <3> QED
            BY <3>1, <3>2
    <2>6. \A b \in Aggs : CreatedKeys(b) \subseteq CreatedKeys(b)'
        BY <2>1
    <2>7. IndexesCommitted'
        BY <2>2, <2>6 DEF LookupInv, IndexesCommitted
    <2>8. NothingForgotten'
        <3> SUFFICES ASSUME NEW b \in Aggs, b \notin faulted', NEW k \in Keys,
                            NEW row \in CreatedKeys(b)', row \notin index'[k]
                     PROVE  \E u \in Tasks : Owes(u, b, k, row)'
            BY DEF NothingForgotten
        <3>1. CASE row \in CreatedKeys(b)
            <4>1. PICK u \in Tasks : Owes(u, b, k, row)
                BY <2>2, <3>1 DEF LookupInv, NothingForgotten
            <4>2. u # t
                BY <2>2, <4>1 DEF Owes, Works, Dispatching
            <4> QED
                BY <2>2, <2>3, <4>1, <4>2 DEF Owes, Works
        <3>2. CASE row \notin CreatedKeys(b)
            <4>1. b = a /\ row \in CreatedIn(t)'
                BY <2>1, <3>2
            <4>2. Owes(t, b, k, row)'
                BY <2>2, <4>1 DEF Owes, Works, Dispatching, Before
            <4> QED
                BY <4>2
        <3> QED
            BY <3>1, <3>2
    <2> QED
        BY <1>0, <2>5, <2>7, <2>8 DEF LookupInv
<1>4. ASSUME NEW t \in Tasks, IndexCode(t) PROVE LookupInv'
    <2>0. PICK a \in Aggs : a = agg[t]
        BY <1>4, <1>t DEF IndexCode, TypeOK
    <2>1. /\ pc[t] = "code" /\ pc'[t] = "token" /\ agg'[t] = agg[t] /\ batch'[t] = batch[t]
          /\ \A u \in Tasks \ {t} : /\ pc'[u] = pc[u] /\ agg'[u] = agg[u]
                                    /\ batch'[u] = batch[u]
          /\ index'["code"] = index["code"] \union CreatedIn(t)
          /\ \A k \in Keys \ {"code"} : index'[k] = index[k]
          /\ UNCHANGED <<log, faulted>>
        BY <1>4, <1>t DEF IndexCode, Return, TypeOK, Keys, local, history
    <2>2. \A b \in Aggs : CreatedKeys(b)' = CreatedKeys(b)
        BY <2>1 DEF CreatedKeys
    <2>3. \A u \in Tasks \ {t} : /\ CreatedIn(u)' = CreatedIn(u)
                                /\ \A b \in Aggs : Works(u, b)' <=> Works(u, b)
        BY <2>1 DEF CreatedIn, Works, Dispatching
    <2>4. /\ Works(t, a) /\ \A b \in Aggs : Works(t, b) => b = a
          /\ CreatedIn(t) \subseteq CreatedKeys(a)
        BY <2>0, <2>1 DEF Works, Dispatching, LookupInv, DispatchesCommitted
    <2>5. \A row \in CreatedIn(t) : row[2] = a
        BY <2>0 DEF CreatedIn
    <2>6. DispatchesCommitted'
        <3>1. CreatedIn(t)' = CreatedIn(t) /\ \A b \in Aggs : Works(t, b)' <=> Works(t, b)
            BY <2>1 DEF CreatedIn, Works, Dispatching
        <3> QED
            BY <2>2, <2>3, <3>1 DEF LookupInv, DispatchesCommitted
    <2>7. IndexesCommitted'
        BY <2>1, <2>2, <2>4, <2>5 DEF LookupInv, IndexesCommitted
    <2>8. NothingForgotten'
        <3> SUFFICES ASSUME NEW b \in Aggs, b \notin faulted', NEW k \in Keys,
                            NEW row \in CreatedKeys(b)', row \notin index'[k]
                     PROVE  \E u \in Tasks : Owes(u, b, k, row)'
            BY DEF NothingForgotten
        <3>1. row \in CreatedKeys(b) /\ row \notin index[k]
            BY <2>1, <2>2
        <3>2. PICK u \in Tasks : Owes(u, b, k, row)
            BY <2>1, <3>1 DEF LookupInv, NothingForgotten
        <3>3. CASE u # t
            BY <2>1, <2>3, <3>2, <3>3 DEF Owes
        <3>4. CASE u = t
            <4>1. row \in CreatedIn(t) /\ k # "code"
                BY <2>1, <3>2, <3>4 DEF Owes
            <4>2. k = "token" /\ pc'[t] \in Before(k)
                BY <2>1, <4>1 DEF Keys, Before
            <4>3. Works(t, b)' /\ row \in CreatedIn(t)'
                BY <2>1, <3>2, <3>4, <4>1 DEF Owes, Works, Dispatching, CreatedIn
            <4> QED
                BY <4>2, <4>3 DEF Owes
        <3> QED
            BY <3>3, <3>4
    <2> QED
        BY <1>0, <2>6, <2>7, <2>8 DEF LookupInv
<1>5. ASSUME NEW t \in Tasks, IndexToken(t) PROVE LookupInv'
    <2>0. PICK a \in Aggs : a = agg[t]
        BY <1>5, <1>t DEF IndexToken, TypeOK
    <2>1. /\ pc[t] = "token" /\ pc'[t] = "idle"
          /\ \A u \in Tasks \ {t} : /\ pc'[u] = pc[u] /\ agg'[u] = agg[u]
                                    /\ batch'[u] = batch[u]
          /\ index'["token"] = index["token"] \union CreatedIn(t)
          /\ \A k \in Keys \ {"token"} : index'[k] = index[k]
          /\ UNCHANGED <<log, faulted>>
        BY <1>5, <1>t DEF IndexToken, Return, TypeOK, Keys, local, history
    <2>2. \A b \in Aggs : CreatedKeys(b)' = CreatedKeys(b)
        BY <2>1 DEF CreatedKeys
    <2>3. \A u \in Tasks \ {t} : /\ CreatedIn(u)' = CreatedIn(u)
                                /\ \A b \in Aggs : Works(u, b)' <=> Works(u, b)
        BY <2>1 DEF CreatedIn, Works, Dispatching
    <2>4. /\ Works(t, a) /\ \A b \in Aggs : Works(t, b) => b = a
          /\ CreatedIn(t) \subseteq CreatedKeys(a)
        BY <2>0, <2>1 DEF Works, Dispatching, LookupInv, DispatchesCommitted
    <2>5. \A row \in CreatedIn(t) : row[2] = a
        BY <2>0 DEF CreatedIn
    <2>6. DispatchesCommitted'
        <3>1. \A b \in Aggs : ~Works(t, b)'
            BY <2>1 DEF Works, Dispatching
        <3> QED
            BY <2>2, <2>3, <3>1 DEF LookupInv, DispatchesCommitted
    <2>7. IndexesCommitted'
        BY <2>1, <2>2, <2>4, <2>5 DEF LookupInv, IndexesCommitted
    <2>8. NothingForgotten'
        <3> SUFFICES ASSUME NEW b \in Aggs, b \notin faulted', NEW k \in Keys,
                            NEW row \in CreatedKeys(b)', row \notin index'[k]
                     PROVE  \E u \in Tasks : Owes(u, b, k, row)'
            BY DEF NothingForgotten
        <3>1. row \in CreatedKeys(b) /\ row \notin index[k]
            BY <2>1, <2>2
        <3>2. PICK u \in Tasks : Owes(u, b, k, row)
            BY <2>1, <3>1 DEF LookupInv, NothingForgotten
        <3>3. CASE u # t
            BY <2>1, <2>3, <3>2, <3>3 DEF Owes
        <3>4. CASE u = t
            <4>1. k = "token"
                BY <2>1, <3>2, <3>4 DEF Owes, Before, Keys
            <4> QED
                BY <2>1, <3>2, <3>4, <4>1 DEF Owes
        <3> QED
            BY <3>3, <3>4
    <2> QED
        BY <1>0, <2>6, <2>7, <2>8 DEF LookupInv
<1>6. ASSUME NEW t \in Tasks, LoadView(t) \/ StoreView(t) \/ LoadAll(t) \/ StoreAll(t)
      PROVE LookupInv'
    <2>1. /\ Dispatching(t) /\ Dispatching(t)'
          /\ {pc[t], pc'[t]} \subseteq Before("code")
          /\ \A u \in Tasks \ {t} : pc'[u] = pc[u]
          /\ UNCHANGED <<log, index, agg, batch, faulted>>
        BY <1>6, <1>t DEF LoadView, StoreView, LoadAll, StoreAll, TypeOK, Dispatching, Before,
                          store, local, history
    <2> QED
        BY <1>0, <2>1, LookupUnchanged DEF Dispatching
<1>7. ASSUME NEW t \in Tasks, ViewUpdateFails(t) \/ Cancel(t) PROVE LookupInv'
    <2>1. /\ Dispatching(t) => agg[t] \in faulted'
          /\ faulted \subseteq faulted'
          /\ \A u \in Tasks \ {t} : /\ pc'[u] = pc[u] /\ agg'[u] = agg[u]
                                    /\ batch'[u] = batch[u]
          /\ Dispatching(t)' => Dispatching(t) /\ agg'[t] = agg[t] /\ batch'[t] = batch[t]
          /\ UNCHANGED <<log, index>>
        BY <1>7, <1>t DEF ViewUpdateFails, Cancel, Return, TypeOK, Dispatching, store, local
    <2> QED
        BY <1>0, <2>1, LookupUnchanged DEF Dispatching
<1>8. ASSUME Crash PROVE LookupInv'
    <2>1. \A t \in Tasks : ~Dispatching(t)'
        BY <1>8 DEF Crash, Dispatching
    <2>2. CASE Store = "postgres"
        <3>1. /\ \A t \in Tasks : Dispatching(t) => agg[t] \in faulted'
              /\ faulted \subseteq faulted'
              /\ UNCHANGED <<log, index>>
            BY <1>8, <2>2 DEF Crash, store
        <3> QED
            BY <1>0, <2>1, <3>1, LookupUnchanged
    <2>3. CASE Store # "postgres"
        <3>1. log' = NoEvents /\ index' = [k \in Keys |-> {}]
            BY <1>8, <2>3 DEF Crash
        <3>2. DispatchesCommitted'
            BY <2>1 DEF DispatchesCommitted, Works
        <3>3. IndexesCommitted'
            BY <3>1 DEF IndexesCommitted
        <3>4. NothingForgotten'
            BY <3>1 DEF NothingForgotten, CreatedKeys, NoEvents
        <3> QED
            BY <1>0, <3>2, <3>3, <3>4 DEF LookupInv
    <2> QED
        BY <2>2, <2>3
<1>9. ASSUME UNCHANGED vars PROVE LookupInv'
    BY <1>0, <1>9, LookupUnchanged DEF vars, store, local, history, Dispatching
<1> QED
    <2>1. ASSUME NEW t \in Tasks, Decline(t) PROVE LookupInv'
        BY <2>1, <1>2 DEF Decline
    <2>2. ASSUME NEW t \in Tasks, NEW kind \in Kinds, NEW n \in 1..MaxBatch,
                 CommitConflict(t, kind, n)
          PROVE  LookupInv'
        BY <2>2, <1>2 DEF CommitConflict
    <2> QED
        BY <1>1, <1>3, <1>4, <1>5, <1>6, <1>7, <1>8, <1>9, <2>1, <2>2 DEF Next, Proceed

(* Overlapping dispatches never make an aggregate unfindable: its lookup   *)
(* rows are there once its dispatches are over, unless a fault hit one,    *)
(* and every row leads to the aggregate created with its key.              *)
THEOREM LookupsFollow == Spec => []LookupsFollowCreation
<1> QED
    BY LookupInit, LookupStep, LookupsSafe, PTL DEF Spec

-----------------------------------------------------------------------------
(* The list of all instances *)

(* The list is exact only while every dispatch had the agent to itself. *)
Alone == ~racedAll /\ faulted = {}

OneAnywhere ==
    ~racedAll => \A t, u \in Tasks : Dispatching(t) /\ Dispatching(u) => t = u

(* A list of events that lacks the part of a batch from position p on. *)
Lacks(events, whole, part, p) ==
    /\ Len(whole) + p = Len(events) + Len(part) + 1
    /\ \A i \in 1..Len(events) : whole[i] = events[i]
    /\ \A j \in 1..Len(part) : p <= j => whole[Len(events) + j - p + 1] = part[j]

(* How far the one handler that dispatches has brought the list. *)
Listed(t) ==
    /\ pc[t] \in {"view", "view_store"} => pos[t] = 1
    /\ pc[t] \in {"view", "view_store", "all", "all_store"} =>
        /\ \A a \in Aggs : a # agg[t] => all.payload[a] = log[a]
        /\ Lacks(all.payload[agg[t]], log[agg[t]], batch[t], pos[t])
    /\ pc[t] = "all_store" => acopy[t] = all
    /\ pc[t] \in {"code", "token"} => all.payload = log

Listing == Alone => \A t \in Tasks : Dispatching(t) => Listed(t)

AllInv == TypeInv /\ OneAnywhere /\ Listing /\ AllExact

LEMMA AllInit == Init => AllInv
<1> SUFFICES ASSUME Init PROVE AllInv
    OBVIOUS
<1>1. OneAnywhere /\ Listing
    BY DEF Init, OneAnywhere, Listing, Dispatching
<1>2. AllExact
    BY DEF Init, AllExact, NoRow
<1> QED
    BY <1>1, <1>2, TypeInit DEF AllInv

(* Sequences of the same elements are the same. *)
LEMMA SameElements ==
    ASSUME NEW S, NEW p \in Seq(S), NEW q \in Seq(S), Len(p) = Len(q),
           \A i \in 1..Len(p) : p[i] = q[i]
    PROVE  p = q
OBVIOUS

(* What is decided is what the list lacks at first. *)
LEMMA LacksBatch ==
    ASSUME NEW x \in Seq(Event), NEW y \in Seq(Event)
    PROVE  Lacks(x, x \o y, y, 1)
<1>1. /\ Len(x) \in Nat /\ Len(y) \in Nat
      /\ Len(x \o y) = Len(x) + Len(y)
      /\ \A i \in 1..Len(x) : (x \o y)[i] = x[i]
      /\ \A i \in 1..Len(y) : (x \o y)[Len(x) + i] = y[i]
    BY Concatenation
<1>2. \A j \in 1..Len(y) : Len(x) + j - 1 + 1 = Len(x) + j
    BY <1>1
<1> HIDE <1>1
<1> QED
    BY <1>1, <1>2 DEF Lacks

(* One more event of the batch. *)
LEMMA LacksOneLess ==
    ASSUME NEW x \in Seq(Event), NEW w \in Seq(Event), NEW y \in Seq(Event),
           NEW p \in 1..Len(y), Lacks(x, w, y, p)
    PROVE  /\ p < Len(y) => Lacks(Append(x, y[p]), w, y, p + 1)
           /\ p = Len(y) => Append(x, y[p]) = w
<1> DEFINE z == Append(x, y[p])
<1>1. /\ Len(x) \in Nat /\ Len(y) \in Nat /\ Len(w) \in Nat /\ p \in Nat
      /\ z \in Seq(Event)
      /\ Len(z) = Len(x) + 1
      /\ \A i \in 1..Len(x) : z[i] = x[i]
      /\ z[Len(x) + 1] = y[p]
    OBVIOUS
<1> HIDE DEF z
<1>2. /\ Len(w) + p = Len(x) + Len(y) + 1
      /\ \A i \in 1..Len(x) : w[i] = x[i]
      /\ w[Len(x) + 1] = y[p]
    <2>1. Len(x) + p - p + 1 = Len(x) + 1
        BY <1>1
    <2>2. /\ Len(w) + p = Len(x) + Len(y) + 1
          /\ \A i \in 1..Len(x) : w[i] = x[i]
          /\ \A j \in 1..Len(y) : p <= j => w[Len(x) + j - p + 1] = y[j]
        BY DEF Lacks
    <2>3. w[Len(x) + p - p + 1] = y[p]
        BY <1>1, <2>2
    <2> QED
        BY <2>1, <2>2, <2>3
<1>3. \A i \in 1..Len(z) : w[i] = z[i]
    <2> SUFFICES ASSUME NEW i \in 1..Len(z) PROVE w[i] = z[i]
        OBVIOUS
    <2>1. i \in 1..Len(x) \/ i = Len(x) + 1
        BY <1>1
    <2> QED
        BY <1>1, <1>2, <2>1
<1>4. ASSUME p < Len(y) PROVE Lacks(z, w, y, p + 1)
    <2>1. Len(w) + (p + 1) = Len(z) + Len(y) + 1
        <3>1. Len(w) + p = Len(x) + Len(y) + 1
            BY <1>2
        <3>2. Len(z) = Len(x) + 1
            BY <1>1
        <3>3. Len(w) + (p + 1) = (Len(w) + p) + 1
            BY <1>1
        <3>4. (Len(x) + Len(y) + 1) + 1 = (Len(x) + 1) + Len(y) + 1
            BY <1>1
        <3> QED
            BY <3>1, <3>2, <3>3, <3>4
    <2>2. ASSUME NEW j \in 1..Len(y), p + 1 <= j
          PROVE  w[Len(z) + j - (p + 1) + 1] = y[j]
        <3>1. Len(z) + j - (p + 1) + 1 = Len(x) + j - p + 1 /\ p <= j
            BY <1>1, <2>2
        <3>2. w[Len(x) + j - p + 1] = y[j]
            BY <3>1, <2>2 DEF Lacks
        <3> QED
            BY <3>1, <3>2
    <2> QED
        BY <1>3, <2>1, <2>2 DEF Lacks
<1>5. ASSUME p = Len(y) PROVE z = w
    <2>1. Len(z) = Len(w)
        BY <1>1, <1>2, <1>5
    <2> QED
        BY <1>1, <1>3, <2>1, SameElements
<1> QED
    BY <1>4, <1>5 DEF z

(* Steps that leave log and list alone. *)
LEMMA AllUnchanged ==
    ASSUME AllInv, TypeInv', log' = log, all' = all,
           racedAll => racedAll', faulted \subseteq faulted',
           \A t \in Tasks : Dispatching(t)' =>
                /\ Dispatching(t)
                /\ agg'[t] = agg[t]
                /\ \/ faulted' # {}
                   \/ /\ pc'[t] = pc[t] /\ acopy'[t] = acopy[t]
                      /\ batch'[t] = batch[t] /\ pos'[t] = pos[t]
                   \/ /\ {pc[t], pc'[t]} \subseteq {"view", "view_store"}
                      /\ batch'[t] = batch[t] /\ pos'[t] = pos[t]
                   \/ /\ pc[t] \in {"view", "view_store", "all"}
                      /\ pc'[t] = "all"
                      /\ batch'[t] = batch[t] /\ pos'[t] = pos[t]
                   \/ {pc[t], pc'[t]} \subseteq {"code", "token"},
           \A t \in Tasks : Dispatching(t) /\ ~Dispatching(t)' =>
                faulted' # {} \/ pc[t] \in {"code", "token"}
    PROVE  AllInv'
<1>1. OneAnywhere'
    BY DEF AllInv, OneAnywhere
<1>2. Listing'
    <2> SUFFICES ASSUME Alone', NEW t \in Tasks, Dispatching(t)'
                 PROVE  Listed(t)'
        BY DEF Listing
    <2>1. Listed(t) /\ agg'[t] = agg[t]
        BY DEF AllInv, Listing, Alone
    <2>2. \/ /\ pc'[t] = pc[t] /\ acopy'[t] = acopy[t]
             /\ batch'[t] = batch[t] /\ pos'[t] = pos[t]
          \/ /\ {pc[t], pc'[t]} \subseteq {"view", "view_store"}
             /\ batch'[t] = batch[t] /\ pos'[t] = pos[t]
          \/ /\ pc[t] \in {"view", "view_store", "all"}
             /\ pc'[t] = "all"
             /\ batch'[t] = batch[t] /\ pos'[t] = pos[t]
          \/ {pc[t], pc'[t]} \subseteq {"code", "token"}
        BY DEF Alone
    <2> QED
        BY <2>1, <2>2 DEF Listed
<1>3. AllExact'
    <2> SUFFICES ASSUME ~racedAll', faulted' = {}, \A a \in Aggs : Quiet(a)'
                 PROVE  all.payload = log
        BY DEF AllExact
    <2>0. Alone
        BY DEF Alone
    <2>1. CASE \A t \in Tasks : ~Dispatching(t)
        BY <2>0, <2>1 DEF AllInv, AllExact, Quiet, Alone
    <2>2. ASSUME NEW t \in Tasks, Dispatching(t) PROVE all.payload = log
        <3>1. Listed(t)
            BY <2>0, <2>2 DEF AllInv, Listing
        <3>2. pc'[t] # "idle" => agg'[t] \in Aggs
            BY DEF TypeInv, TypeOK
        <3>3. ~Dispatching(t)'
            BY <3>2 DEF Quiet, Dispatching
        <3>4. pc[t] \in {"code", "token"}
            BY <2>2, <3>3
        <3> QED
            BY <3>1, <3>4 DEF Listed
    <2> QED
        BY <2>1, <2>2
<1> QED
    BY <1>1, <1>2, <1>3 DEF AllInv

LEMMA AllStep == AllInv /\ [Next]_vars => AllInv'
<1> SUFFICES ASSUME AllInv, [Next]_vars PROVE AllInv'
    OBVIOUS
<1>0. TypeInv'
    BY TypeStep DEF AllInv
<1>t. TypeInv /\ TypeOK
    BY DEF AllInv, TypeInv
<1>1. ASSUME NEW t \in Tasks, NEW a \in Aggs, LoadAggregate(t, a) PROVE AllInv'
    BY <1>0, <1>1, <1>t, AllUnchanged DEF LoadAggregate, store, history, TypeOK, Dispatching
<1>2. ASSUME NEW t \in Tasks, Return(t), pc[t] = "handle", UNCHANGED <<store, history>>
      PROVE AllInv'
    BY <1>0, <1>2, <1>t, AllUnchanged DEF Return, store, history, TypeOK, Dispatching
<1>3. ASSUME NEW t \in Tasks, NEW kind \in Kinds, NEW n \in 1..MaxBatch, Commit(t, kind, n)
      PROVE AllInv'
    <2> DEFINE a == agg[t]
               events == WrapEvents(cmd[t], base[t], kind, n)
    <2>1. /\ a \in Aggs
          /\ log'[a] = log[a] \o events
          /\ \A b \in Aggs \ {a} : log'[b] = log[b]
        BY <1>3, <1>t, CommitLog
    <2>2. /\ pc'[t] = "view" /\ batch'[t] = events
          /\ \A u \in Tasks \ {t} : pc'[u] = pc[u]
          /\ ~Dispatching(t) /\ Dispatching(t)'
          /\ pos[t] = 1
          /\ UNCHANGED <<all, agg, faulted, pos>>
          /\ racedAll => racedAll'
          /\ (\E u \in Tasks : Dispatching(u)) => racedAll'
        BY <1>3, <1>t DEF Commit, TypeOK, Dispatching, TypeInv, AtFirst
    <2>e. events \in Seq(Event) /\ log[a] \in Seq(Event)
        BY <2>1, <1>t, BatchFacts DEF TypeOK, Content
    <2> HIDE DEF events
    <2>3. OneAnywhere'
        <3>1. \A u \in Tasks : ~racedAll' /\ Dispatching(u)' => u = t
            BY <2>2 DEF Dispatching
        <3> QED
            BY <3>1 DEF OneAnywhere
    <2>4. Listing'
        <3> SUFFICES ASSUME Alone', NEW u \in Tasks, Dispatching(u)' PROVE Listed(u)'
            BY DEF Listing
        <3>1. u = t /\ (\A v \in Tasks : ~Dispatching(v)) /\ Alone
            BY <2>2 DEF Dispatching, Alone
        <3>2. all.payload = log
            BY <3>1 DEF AllInv, AllExact, Quiet, Alone
        <3>3. Lacks(log[a], log'[a], events, 1)
            BY <2>1, <2>e, LacksBatch
        <3> QED
            BY <2>1, <2>2, <3>1, <3>2, <3>3 DEF Listed
    <2>5. AllExact'
        <3>1. ~Quiet(a)'
            BY <2>2 DEF Quiet
        <3> QED
            BY <2>1, <2>2, <3>1 DEF AllExact
    <2> QED
        BY <1>0, <2>3, <2>4, <2>5 DEF AllInv
<1>4. ASSUME NEW t \in Tasks, LoadView(t) \/ StoreView(t) \/ IndexCode(t) PROVE AllInv'
    <2>1. /\ Dispatching(t) /\ Dispatching(t)'
          /\ \/ pc[t] = "view" /\ pc'[t] = "view_store"
             \/ pc[t] = "view_store" /\ pc'[t] = "all"
             \/ pc[t] = "code" /\ pc'[t] = "token"
          /\ \A u \in Tasks \ {t} : pc'[u] = pc[u]
          /\ UNCHANGED <<log, all, agg, batch, pos, acopy, racedAll, faulted>>
        BY <1>4, <1>t
        DEF LoadView, StoreView, IndexCode, TypeOK, Dispatching, store, local, history
    <2>2. \A u \in Tasks \ {t} : Dispatching(u)' <=> Dispatching(u)
        BY <2>1 DEF Dispatching
    <2> QED
        BY <1>0, <2>1, <2>2, AllUnchanged
<1>5. ASSUME NEW t \in Tasks, LoadAll(t) PROVE AllInv'
    <2>1. /\ pc[t] = "all" /\ pc'[t] = "all_store" /\ acopy'[t] = all
          /\ \A u \in Tasks \ {t} : pc'[u] = pc[u]
          /\ UNCHANGED <<log, all, agg, batch, pos, racedAll, faulted>>
        BY <1>5, <1>t DEF LoadAll, TypeOK, store, history
    <2>2. \A u \in Tasks : Dispatching(u)' <=> Dispatching(u)
        BY <2>1 DEF Dispatching
    <2>3. OneAnywhere'
        BY <2>1, <2>2 DEF AllInv, OneAnywhere
    <2>4. Listing'
        <3> SUFFICES ASSUME Alone', NEW u \in Tasks, Dispatching(u)' PROVE Listed(u)'
            BY DEF Listing
        <3>1. Alone /\ Dispatching(u) /\ Dispatching(t)
            BY <2>1, <2>2 DEF Alone, Dispatching
        <3>2. u = t /\ Listed(t)
            BY <3>1 DEF AllInv, OneAnywhere, Listing, Alone
        <3> QED
            BY <2>1, <3>2 DEF Listed
    <2>5. AllExact'
        BY <2>1, <2>2 DEF AllInv, AllExact, Quiet
    <2> QED
        BY <1>0, <2>3, <2>4, <2>5 DEF AllInv
<1>6. ASSUME NEW t \in Tasks, StoreAll(t) PROVE AllInv'
    <2> DEFINE a == agg[t]
    <2>1. /\ a \in Aggs /\ pc[t] = "all_store"
          /\ all' = UpdateView(all, acopy[t], Applied(t))
          /\ \A u \in Tasks \ {t} : pc'[u] = pc[u]
          /\ UNCHANGED <<log, agg, batch, acopy, racedAll, faulted>>
          /\ IF pos[t] < Len(batch[t]) /\ ~Refused(all, acopy[t])
             THEN pos'[t] = pos[t] + 1 /\ pc'[t] = "all"
             ELSE pc'[t] = "code" /\ UNCHANGED pos
        BY <1>6, <1>t DEF StoreAll, TypeOK, history
    <2>2. \A u \in Tasks : Dispatching(u)' <=> Dispatching(u)
        BY <2>1 DEF Dispatching
    <2>3. OneAnywhere'
        BY <2>1, <2>2 DEF AllInv, OneAnywhere
    <2>4. Listing'
        <3> SUFFICES ASSUME Alone', NEW u \in Tasks, Dispatching(u)' PROVE Listed(u)'
            BY DEF Listing
        <3>1. Alone /\ Dispatching(u) /\ Dispatching(t)
            BY <2>1, <2>2 DEF Alone, Dispatching
        <3>2. u = t /\ Listed(t)
            BY <3>1 DEF AllInv, OneAnywhere, Listing, Alone
        <3>3. /\ acopy[t] = all
              /\ \A b \in Aggs : b # a => all.payload[b] = log[b]
              /\ Lacks(all.payload[a], log[a], batch[t], pos[t])
            BY <2>1, <3>2 DEF Listed
        <3>4. /\ all.version \in Nat /\ all.payload \in Content /\ log \in Content
              /\ batch[t] \in Seq(Event)
              /\ pos[t] \in 1..Len(batch[t])
            BY <1>t, <3>1 DEF TypeOK, Row
        <3>5. ~Refused(all, acopy[t])
            BY <3>3, <3>4 DEF Refused
        <3>6. all'.payload = Applied(t)
            <4>1. \A row, copy, p : ~Refused(row, copy) => UpdateView(row, copy, p).payload = p
                BY UpdateViewPayload
            <4> QED
                BY <2>1, <3>5, <4>1
        <3>7. /\ all'.payload[a] = Append(all.payload[a], batch[t][pos[t]])
              /\ \A b \in Aggs : b # a => all'.payload[b] = log[b]
              /\ DOMAIN all'.payload = Aggs
            BY <2>1, <3>3, <3>4, <3>6 DEF Applied, Content
        <3>8. /\ pos[t] < Len(batch[t]) =>
                    Lacks(all'.payload[a], log[a], batch[t], pos[t] + 1)
              /\ pos[t] = Len(batch[t]) => all'.payload[a] = log[a]
            <4>1. all.payload[a] \in Seq(Event) /\ log[a] \in Seq(Event)
                BY <2>1, <3>4 DEF Content
            <4>2. \A x, w, y \in Seq(Event) : \A p \in 1..Len(y) : Lacks(x, w, y, p) =>
                    /\ p < Len(y) => Lacks(Append(x, y[p]), w, y, p + 1)
                    /\ p = Len(y) => Append(x, y[p]) = w
                BY LacksOneLess
            <4>3. Lacks(all.payload[a], log[a], batch[t], pos[t])
                BY <3>3
            <4>4. batch[t] \in Seq(Event) /\ pos[t] \in 1..Len(batch[t])
                BY <3>4
            <4>5. all'.payload[a] = Append(all.payload[a], batch[t][pos[t]])
                BY <3>7
            <4>6. PICK x \in Seq(Event), w \in Seq(Event), y \in Seq(Event), p \in 1..Len(batch[t]) :
                        x = all.payload[a] /\ w = log[a] /\ y = batch[t] /\ p = pos[t]
                BY <4>1, <4>4
            <4>7. Lacks(x, w, y, p) /\ p \in 1..Len(y) /\ all'.payload[a] = Append(x, y[p])
                BY <4>3, <4>5, <4>6
            <4>8. /\ p < Len(y) => Lacks(Append(x, y[p]), w, y, p + 1)
                  /\ p = Len(y) => Append(x, y[p]) = w
                BY <4>2, <4>7
            <4> QED
                BY <4>6, <4>7, <4>8
        <3>9. CASE pos[t] < Len(batch[t])
            BY <2>1, <3>2, <3>5, <3>7, <3>8, <3>9 DEF Listed
        <3>10. CASE pos[t] = Len(batch[t])
            <4>1. all'.payload = log
                <5>1. \A b \in Aggs : all'.payload[b] = log[b]
                    BY <3>7, <3>8, <3>10
                <5>2. all'.payload = [b \in Aggs |-> all'.payload[b]]
                    <6>1. all'.payload \in Content
                        BY <1>0 DEF TypeInv, TypeOK, Row
                    <6> QED
                        BY <6>1 DEF Content
                <5>3. log = [b \in Aggs |-> log[b]]
                    BY <3>4 DEF Content
                <5> QED
                    BY <5>1, <5>2, <5>3
            <4>2. ~(pos[t] < Len(batch[t]))
                BY <3>4, <3>10
            <4>3. pc'[t] = "code"
                BY <2>1, <4>2
            <4> QED
                BY <2>1, <3>2, <4>1, <4>3 DEF Listed
        <3> QED
            BY <3>4, <3>9, <3>10
    <2>5. AllExact'
        <3>1. ~Quiet(a)'
            BY <2>1, <2>2 DEF Quiet, Dispatching
        <3> QED
            BY <2>1, <3>1 DEF AllExact
    <2> QED
        BY <1>0, <2>3, <2>4, <2>5 DEF AllInv
<1>7. ASSUME NEW t \in Tasks, IndexToken(t) PROVE AllInv'
    BY <1>0, <1>7, <1>t, AllUnchanged DEF IndexToken, Return, TypeOK, Dispatching, history
<1>8. ASSUME NEW t \in Tasks, ViewUpdateFails(t) \/ Cancel(t) PROVE AllInv'
    <2>1. /\ Dispatching(t) => agg[t] \in faulted'
          /\ faulted \subseteq faulted'
          /\ \A u \in Tasks \ {t} : /\ pc'[u] = pc[u] /\ agg'[u] = agg[u] /\ acopy'[u] = acopy[u]
                                    /\ batch'[u] = batch[u] /\ pos'[u] = pos[u]
          /\ Dispatching(t)' => Dispatching(t) /\ agg'[t] = agg[t]
          /\ UNCHANGED <<log, all, racedAll>>
        BY <1>8, <1>t DEF ViewUpdateFails, Cancel, Return, TypeOK, Dispatching, store, local
    <2>2. \A u \in Tasks \ {t} : Dispatching(u)' <=> Dispatching(u)
        BY <2>1 DEF Dispatching
    <2>3. Dispatching(t) => faulted' # {}
        BY <2>1
    <2> QED
        BY <1>0, <2>1, <2>2, <2>3, AllUnchanged
<1>9. ASSUME Crash PROVE AllInv'
    <2>1. \A t \in Tasks : ~Dispatching(t)'
        BY <1>9 DEF Crash, Dispatching
    <2>2. CASE Store = "postgres"
        <3>1. /\ \A t \in Tasks : Dispatching(t) => agg[t] \in faulted'
              /\ faulted \subseteq faulted'
              /\ UNCHANGED <<log, all, racedAll>>
            BY <1>9, <2>2 DEF Crash, store
        <3>2. \A t \in Tasks : Dispatching(t) => faulted' # {}
            BY <3>1
        <3> QED
            BY <1>0, <2>1, <3>1, <3>2, AllUnchanged
    <2>3. CASE Store # "postgres"
        <3>1. all'.payload = log'
            BY <1>9, <2>3 DEF Crash, NoRow
        <3> QED
            BY <1>0, <2>1, <3>1 DEF AllInv, OneAnywhere, Listing, AllExact
    <2> QED
        BY <2>2, <2>3
<1>10. ASSUME UNCHANGED vars PROVE AllInv'
    BY <1>0, <1>10, AllUnchanged DEF vars, store, local, history, Dispatching
<1> QED
    <2>1. ASSUME NEW t \in Tasks, Decline(t) PROVE AllInv'
        BY <2>1, <1>2 DEF Decline
    <2>2. ASSUME NEW t \in Tasks, NEW kind \in Kinds, NEW n \in 1..MaxBatch,
                 CommitConflict(t, kind, n)
          PROVE  AllInv'
        BY <2>2, <1>2 DEF CommitConflict
    <2> QED
        BY <1>1, <1>3, <1>4, <1>5, <1>6, <1>7, <1>8, <1>9, <1>10, <2>1, <2>2
        DEF Next, Proceed

(* As long as dispatches do not overlap, whatever their aggregates, and no *)
(* fault hits one, the shared row of ListAllQuery lists every event of     *)
(* every aggregate once the dispatches are over, on either store.          *)
THEOREM AllExactHolds == Spec => []AllExact
<1>1. AllInv => AllExact
    BY DEF AllInv
<1> QED
    BY <1>1, AllInit, AllStep, PTL DEF Spec

-----------------------------------------------------------------------------
(* What the views and the list show *)

(* A handler's command is its own as long as it runs. *)
OwnCmds ==
    \A t \in Tasks : pc[t] # "idle" =>
        /\ cmd[t] <= issued
        /\ \A u \in Tasks \ {t} : pc[u] # "idle" => cmd[u] # cmd[t]

(* What a handler dispatches is its own: numbered and committed. *)
OwnBatch(t) ==
    \A i \in 1..Len(batch[t]) :
        /\ batch[t][i].cmd = cmd[t]
        /\ batch[t][i].pos = i
        /\ batch[t][i] \in Committed(agg[t])

BatchOwn == \A t \in Tasks : Dispatching(t) => OwnBatch(t)

(* Everything that a view or the list shows of an aggregate or may show    *)
(* soon: the row and the copies that handlers are about to extend.         *)
ViewLists(a) ==
    {view[a].payload} \union
        {vcopy[t].payload : t \in {u \in Tasks : pc[u] = "view_store" /\ agg[u] = a}}

AllLists(a) ==
    {all.payload[a]} \union
        {acopy[t].payload[a] : t \in {u \in Tasks : pc[u] = "all_store"}}

ListsCommitted ==
    \A a \in Aggs : \A x \in ViewLists(a) \union AllLists(a) : ShowsCommitted(x, a)

AtView == {"view", "view_store"}
AtAll  == {"all", "all_store"}

(* No list has what its handler has yet to write there. *)
ViewUnseen(t) ==
    \A x \in ViewLists(agg[t]) : \A i \in 1..Len(x) : x[i].cmd # cmd[t]

AllUnseen(t) ==
    \A x \in AllLists(agg[t]) : \A i \in 1..Len(x) :
        x[i].cmd = cmd[t] => x[i].pos < pos[t]

Unseen ==
    \A t \in Tasks :
        /\ pc[t] \in AtView => ViewUnseen(t)
        /\ pc[t] \in AtView \union AtAll => AllUnseen(t)

OwnInv == SerialInv /\ OwnCmds /\ BatchOwn

ShownInv == OwnInv /\ ListsCommitted /\ Unseen

LEMMA OwnInit == Init => OwnInv
<1> SUFFICES ASSUME Init PROVE OwnInv
    OBVIOUS
<1>1. OwnCmds /\ BatchOwn
    BY DEF Init, OwnCmds, BatchOwn, Dispatching
<1> QED
    BY <1>1, SerialInit DEF OwnInv

(* Steps that commit nothing and start no command. *)
LEMMA OwnUnchanged ==
    ASSUME OwnInv, SerialInv', issued' = issued,
           \A t \in Tasks : pc'[t] # "idle" => pc[t] # "idle" /\ cmd'[t] = cmd[t],
           \A t \in Tasks : Dispatching(t)' =>
                /\ Dispatching(t) /\ agg'[t] = agg[t] /\ batch'[t] = batch[t]
                /\ log' = log
    PROVE  OwnInv'
<1>1. OwnCmds'
    BY DEF OwnInv, OwnCmds
<1>2. BatchOwn'
    <2> SUFFICES ASSUME NEW t \in Tasks, Dispatching(t)' PROVE OwnBatch(t)'
        BY DEF BatchOwn
    <2>1. OwnBatch(t) /\ agg'[t] = agg[t] /\ batch'[t] = batch[t] /\ log' = log
        BY DEF OwnInv, BatchOwn
    <2>2. cmd'[t] = cmd[t]
        BY DEF Dispatching
    <2> QED
        BY <2>1, <2>2 DEF OwnBatch, Committed
<1> QED
    BY <1>1, <1>2 DEF OwnInv

LEMMA OwnStep == OwnInv /\ [Next]_vars => OwnInv'
<1> SUFFICES ASSUME OwnInv, [Next]_vars PROVE OwnInv'
    OBVIOUS
<1>0. SerialInv'
    BY SerialStep DEF OwnInv
<1>t. TypeInv /\ TypeOK /\ TypeInv' /\ TypeOK'
    BY <1>0 DEF OwnInv, SerialInv, DecidedInv, TypeInv
<1>1. ASSUME NEW t \in Tasks, NEW a \in Aggs, LoadAggregate(t, a) PROVE OwnInv'
    <2>1. /\ pc[t] = "idle" /\ pc'[t] = "handle" /\ cmd'[t] = issued + 1
          /\ \A u \in Tasks \ {t} : pc'[u] = pc[u] /\ cmd'[u] = cmd[u] /\ agg'[u] = agg[u]
          /\ issued' = issued + 1 /\ issued \in Nat
          /\ UNCHANGED <<log, batch>>
        BY <1>1, <1>t DEF LoadAggregate, TypeOK, store
    <2>2. \A u \in Tasks : cmd[u] \in Nat
        BY <1>t DEF TypeOK
    <2>3. OwnCmds'
        BY <2>1, <2>2 DEF OwnInv, OwnCmds
    <2>4. BatchOwn'
        BY <2>1 DEF OwnInv, BatchOwn, OwnBatch, Committed, Dispatching
    <2> QED
        BY <1>0, <2>3, <2>4 DEF OwnInv
<1>2. ASSUME NEW t \in Tasks, Return(t), pc[t] # "idle", UNCHANGED <<log, issued>>
      PROVE OwnInv'
    <2>1. /\ pc'[t] = "idle"
          /\ \A u \in Tasks \ {t} : pc'[u] = pc[u] /\ cmd'[u] = cmd[u]
                                    /\ agg'[u] = agg[u] /\ batch'[u] = batch[u]
        BY <1>2, <1>t DEF Return, TypeOK
    <2> QED
        BY <1>0, <1>2, <2>1, OwnUnchanged DEF Dispatching
<1>3. ASSUME NEW t \in Tasks, NEW kind \in Kinds, NEW n \in 1..MaxBatch, Commit(t, kind, n)
      PROVE OwnInv'
    <2> DEFINE events == WrapEvents(cmd[t], base[t], kind, n)
    <2>1. /\ pc[t] = "handle" /\ pc'[t] = "view"
          /\ \A u \in Tasks \ {t} : pc'[u] = pc[u] /\ batch'[u] = batch[u]
          /\ batch'[t] = events
          /\ UNCHANGED <<cmd, agg, issued>>
        BY <1>3, <1>t DEF Commit, TypeOK
    <2>2. /\ n \in Nat
          /\ Len(events) = n
          /\ \A i \in 1..n : events[i] =
                [cmd |-> cmd[t], pos |-> i, seq |-> base[t] + i, kind |-> kind]
        BY <1>t, BatchFacts
    <2>3. /\ agg[t] \in Aggs
          /\ Len(log'[agg[t]]) = Len(log[agg[t]]) + n
          /\ \A i \in 1..Len(log[agg[t]]) : log'[agg[t]][i] = log[agg[t]][i]
          /\ \A i \in 1..n : log'[agg[t]][Len(log[agg[t]]) + i] = events[i]
          /\ \A b \in Aggs \ {agg[t]} : log'[b] = log[b]
        BY <1>3, <1>t, CommitLog
    <2> HIDE DEF events
    <2>4. Len(log[agg[t]]) \in Nat
        BY <1>t, <2>3 DEF TypeOK, Content
    <2>5. \A b \in Aggs : Committed(b) \subseteq Committed(b)'
        <3> SUFFICES ASSUME NEW b \in Aggs, NEW i \in 1..Len(log[b])
                     PROVE  \E j \in 1..Len(log'[b]) : log'[b][j] = log[b][i]
            BY DEF Committed
        <3>1. CASE b = agg[t]
            BY <2>2, <2>3, <2>4, <3>1
        <3>2. CASE b # agg[t]
            BY <2>3, <3>2
        <3> QED
            BY <3>1, <3>2
    <2>6. \A i \in 1..n : events[i] \in Committed(agg[t])'
        <3> SUFFICES ASSUME NEW i \in 1..n PROVE events[i] \in Committed(agg[t])'
            OBVIOUS
        <3>1. Len(log[agg[t]]) + i \in 1..Len(log'[agg[t]])
            BY <2>2, <2>3, <2>4
        <3>2. log'[agg[t]][Len(log[agg[t]]) + i] = events[i]
            BY <2>3
        <3> QED
            BY <2>1, <3>1, <3>2 DEF Committed
    <2>7. OwnCmds'
        <3>1. \A u \in Tasks : pc'[u] # "idle" <=> pc[u] # "idle"
            BY <2>1
        <3> QED
            BY <2>1, <3>1 DEF OwnInv, OwnCmds
    <2>8. BatchOwn'
        <3> SUFFICES ASSUME NEW u \in Tasks, Dispatching(u)' PROVE OwnBatch(u)'
            BY DEF BatchOwn
        <3>1. CASE u = t
            <4>1. \A i \in 1..n : events[i].cmd = cmd[t] /\ events[i].pos = i
                BY <2>2
            <4> QED
                BY <2>1, <2>2, <2>6, <3>1, <4>1 DEF OwnBatch
        <3>2. CASE u # t
            <4>1. OwnBatch(u) /\ agg[u] \in Aggs
                BY <1>t, <2>1, <3>2 DEF OwnInv, BatchOwn, Dispatching, TypeOK
            <4>2. PICK b \in Aggs : b = agg[u]
                BY <4>1
            <4>3. /\ batch'[u] = batch[u] /\ agg'[u] = b /\ cmd'[u] = cmd[u]
                  /\ Committed(b) \subseteq Committed(b)'
                BY <2>1, <2>5, <3>2, <4>2
            <4>4. \A i \in 1..Len(batch[u]) :
                    batch[u][i].cmd = cmd[u] /\ batch[u][i].pos = i
                    /\ batch[u][i] \in Committed(b)
                BY <4>1, <4>2 DEF OwnBatch
            <4>5. Committed(agg[u])' = Committed(b)'
                BY <4>3 DEF Committed
            <4> QED
                BY <4>3, <4>4, <4>5 DEF OwnBatch
        <3> QED
            BY <3>1, <3>2
    <2> QED
        BY <1>0, <2>7, <2>8 DEF OwnInv
<1>4. ASSUME NEW t \in Tasks,
             LoadView(t) \/ StoreView(t) \/ LoadAll(t) \/ StoreAll(t) \/ IndexCode(t)
      PROVE OwnInv'
    <2>1. /\ Dispatching(t) /\ Dispatching(t)'
          /\ \A u \in Tasks \ {t} : pc'[u] = pc[u]
          /\ UNCHANGED <<log, agg, cmd, batch, issued>>
        BY <1>4, <1>t DEF LoadView, StoreView, LoadAll, StoreAll, IndexCode, TypeOK,
                          Dispatching, store, local
    <2> QED
        BY <1>0, <2>1, OwnUnchanged DEF Dispatching
<1>5. ASSUME NEW t \in Tasks, IndexToken(t) PROVE OwnInv'
    BY <1>2, <1>5 DEF IndexToken
<1>6. ASSUME NEW t \in Tasks, ViewUpdateFails(t) PROVE OwnInv'
    <2>1. CASE pc[t] = "token"
        BY <1>2, <1>6, <2>1 DEF ViewUpdateFails, store
    <2>2. CASE pc[t] # "token"
        <3>1. /\ Dispatching(t)
              /\ \A u \in Tasks \ {t} : pc'[u] = pc[u]
              /\ UNCHANGED <<log, agg, cmd, batch, issued>>
            BY <1>6, <1>t, <2>2 DEF ViewUpdateFails, TypeOK, store, local
        <3> QED
            BY <1>0, <3>1, OwnUnchanged DEF Dispatching
    <2> QED
        BY <2>1, <2>2
<1>7. ASSUME NEW t \in Tasks, Cancel(t) PROVE OwnInv'
    BY <1>2, <1>7 DEF Cancel, store
<1>8. ASSUME Crash PROVE OwnInv'
    BY <1>0, <1>8, OwnUnchanged DEF Crash, Dispatching
<1>9. ASSUME UNCHANGED vars PROVE OwnInv'
    BY <1>0, <1>9, OwnUnchanged DEF vars, store, local, Dispatching
<1> QED
    <2>1. ASSUME NEW t \in Tasks, Decline(t) PROVE OwnInv'
        BY <2>1, <1>2 DEF Decline, store
    <2>2. ASSUME NEW t \in Tasks, NEW kind \in Kinds, NEW n \in 1..MaxBatch,
                 CommitConflict(t, kind, n)
          PROVE  OwnInv'
        BY <2>2, <1>2 DEF CommitConflict, store
    <2> QED
        BY <1>1, <1>3, <1>4, <1>5, <1>6, <1>7, <1>8, <1>9, <2>1, <2>2 DEF Next, Proceed

(* Steps after which every list was there before and no handler has more   *)
(* left to write.                                                          *)
LEMMA ShownUnchanged ==
    ASSUME ShownInv, OwnInv', log' = log,
           \A a \in Aggs : ViewLists(a)' \subseteq ViewLists(a) /\ AllLists(a)' \subseteq AllLists(a),
           \A t \in Tasks : Dispatching(t)' =>
                /\ Dispatching(t) /\ agg'[t] = agg[t] /\ cmd'[t] = cmd[t]
                /\ pc'[t] \in AtView => pc[t] \in AtView
                /\ pc'[t] \in AtView \union AtAll =>
                        pc[t] \in AtView \union AtAll /\ pos'[t] = pos[t]
    PROVE  ShownInv'
<1>1. ListsCommitted'
    BY DEF ShownInv, ListsCommitted, ShowsCommitted, Committed
<1>2. Unseen'
    <2> SUFFICES ASSUME NEW t \in Tasks, pc'[t] \in AtView \union AtAll
                 PROVE  /\ pc'[t] \in AtView => ViewUnseen(t)'
                        /\ AllUnseen(t)'
        BY DEF Unseen
    <2>1. Dispatching(t)'
        BY DEF Dispatching, AtView, AtAll
    <2>2. agg[t] \in Aggs
        BY <2>1 DEF OwnInv, SerialInv, DecidedInv, ShownInv, TypeInv, TypeOK, Dispatching
    <2>3. PICK a \in Aggs : a = agg[t] /\ a = agg'[t]
        BY <2>1, <2>2
    <2>4. /\ cmd'[t] = cmd[t] /\ pos'[t] = pos[t]
          /\ pc'[t] \in AtView => ViewUnseen(t)
          /\ AllUnseen(t)
        BY <2>1 DEF ShownInv, Unseen
    <2>5. /\ ViewLists(agg[t])' = ViewLists(a)' /\ AllLists(agg[t])' = AllLists(a)'
          /\ ViewLists(agg[t]) = ViewLists(a) /\ AllLists(agg[t]) = AllLists(a)
        BY <2>3 DEF ViewLists, AllLists
    <2>6. pc'[t] \in AtView => ViewUnseen(t)'
        BY <2>4, <2>5 DEF ViewUnseen
    <2>7. AllUnseen(t)'
        BY <2>4, <2>5 DEF AllUnseen
    <2> QED
        BY <2>6, <2>7
<1> QED
    BY <1>1, <1>2 DEF ShownInv

(* A list that is extended by events it has not yet shows no event twice.  *)
LEMMA ShowsMore ==
    ASSUME NEW a \in Aggs, NEW x \in Seq(Event), NEW y \in Seq(Event), ShowsCommitted(x, a),
           \A i \in 1..Len(y) : y[i] \in Committed(a),
           \A i, j \in 1..Len(y) : i # j => y[i] # y[j],
           \A i \in 1..Len(x) : \A j \in 1..Len(y) : x[i] # y[j]
    PROVE  ShowsCommitted(x \o y, a)
<1>1. /\ Len(x) \in Nat /\ Len(y) \in Nat
      /\ Len(x \o y) = Len(x) + Len(y)
      /\ \A i \in 1..Len(x) : (x \o y)[i] = x[i]
      /\ \A i \in 1..Len(y) : (x \o y)[Len(x) + i] = y[i]
    BY Concatenation
<1> DEFINE z == x \o y
<1>2. ASSUME NEW i \in 1..Len(z)
      PROVE  \/ i \in 1..Len(x) /\ z[i] = x[i]
             \/ \E j \in 1..Len(y) : i = Len(x) + j /\ z[i] = y[j]
    <2>1. CASE i \in 1..Len(x)
        BY <1>1, <2>1
    <2>2. CASE i \notin 1..Len(x)
        <3>1. i - Len(x) \in 1..Len(y) /\ i = Len(x) + (i - Len(x))
            BY <1>1, <2>2
        <3> QED
            BY <1>1, <3>1
    <2> QED
        BY <2>1, <2>2
<1> HIDE DEF z
<1>3. \A i \in 1..Len(z) : z[i] \in Committed(a)
    BY <1>2 DEF ShowsCommitted
<1>4. ASSUME NEW i \in 1..Len(z), NEW j \in 1..Len(z), i # j PROVE z[i] # z[j]
    <2>1. \/ i \in 1..Len(x) /\ z[i] = x[i]
          \/ \E k \in 1..Len(y) : i = Len(x) + k /\ z[i] = y[k]
        BY <1>2
    <2>2. \/ j \in 1..Len(x) /\ z[j] = x[j]
          \/ \E k \in 1..Len(y) : j = Len(x) + k /\ z[j] = y[k]
        BY <1>2
    <2>3. CASE i \in 1..Len(x) /\ z[i] = x[i] /\ j \in 1..Len(x) /\ z[j] = x[j]
        BY <1>4, <2>3 DEF ShowsCommitted
    <2>4. CASE /\ \E k \in 1..Len(y) : i = Len(x) + k /\ z[i] = y[k]
               /\ \E k \in 1..Len(y) : j = Len(x) + k /\ z[j] = y[k]
        <3>1. PICK k \in 1..Len(y) : i = Len(x) + k /\ z[i] = y[k]
            BY <2>4
        <3>2. PICK l \in 1..Len(y) : j = Len(x) + l /\ z[j] = y[l]
            BY <2>4
        <3>3. k # l
            BY <1>4, <3>1, <3>2
        <3> QED
            BY <3>1, <3>2, <3>3
    <2>5. CASE /\ i \in 1..Len(x) /\ z[i] = x[i]
               /\ \E k \in 1..Len(y) : j = Len(x) + k /\ z[j] = y[k]
        BY <2>5
    <2>6. CASE /\ j \in 1..Len(x) /\ z[j] = x[j]
               /\ \E k \in 1..Len(y) : i = Len(x) + k /\ z[i] = y[k]
        BY <2>6
    <2> QED
        BY <2>1, <2>2, <2>3, <2>4, <2>5, <2>6
<1>5. ShowsCommitted(z, a)
    BY <1>3, <1>4 DEF ShowsCommitted
<1> QED
    BY <1>5 DEF z

(* The lists are lists of events. *)
LEMMA ListsType ==
    ASSUME TypeOK
    PROVE  \A a \in Aggs : ViewLists(a) \subseteq Seq(Event) /\ AllLists(a) \subseteq Seq(Event)
<1> TAKE a \in Aggs
<1>1. /\ view[a].payload \in Seq(Event)
      /\ all.payload[a] \in Seq(Event)
      /\ \A t \in Tasks : vcopy[t].payload \in Seq(Event) /\ acopy[t].payload[a] \in Seq(Event)
    BY DEF TypeOK, Row, Content
<1> QED
    BY <1>1 DEF ViewLists, AllLists

LEMMA ShownInit == Init => ShownInv
<1> SUFFICES ASSUME Init PROVE ShownInv
    OBVIOUS
<1>1. \A a \in Aggs : ViewLists(a) = {<<>>} /\ AllLists(a) = {<<>>}
    BY DEF Init, ViewLists, AllLists, NoRow, NoEvents
<1>2. ListsCommitted
    BY <1>1 DEF ListsCommitted, ShowsCommitted
<1>3. Unseen
    BY DEF Init, Unseen, AtView, AtAll
<1> QED
    BY <1>2, <1>3, OwnInit DEF ShownInv

(* A commit: no list has an event of the command, which is new.            *)
LEMMA ShownCommit ==
    ASSUME ShownInv, OwnInv', NEW t \in Tasks, NEW kind \in Kinds, NEW n \in 1..MaxBatch,
           Commit(t, kind, n)
    PROVE  ShownInv'
<1>t. TypeInv /\ TypeOK /\ SerialInv
    BY DEF ShownInv, OwnInv, SerialInv, DecidedInv, TypeInv
<1>1. /\ pc[t] = "handle" /\ pc'[t] = "view" /\ pos[t] = 1
      /\ \A u \in Tasks \ {t} : pc'[u] = pc[u]
      /\ UNCHANGED <<view, all, vcopy, acopy, agg, cmd, pos>>
    BY <1>t DEF Commit, TypeOK, TypeInv, AtFirst, Dispatching
<1>2. /\ agg[t] \in Aggs
      /\ \A i \in 1..Len(log[agg[t]]) : log'[agg[t]][i] = log[agg[t]][i]
      /\ Len(log'[agg[t]]) = Len(log[agg[t]]) + n
      /\ \A b \in Aggs \ {agg[t]} : log'[b] = log[b]
    BY <1>t, CommitLog
<1>3. \A b \in Aggs : Committed(b) \subseteq Committed(b)'
    <2> SUFFICES ASSUME NEW b \in Aggs, NEW i \in 1..Len(log[b])
                 PROVE  \E j \in 1..Len(log'[b]) : log'[b][j] = log[b][i]
        BY DEF Committed
    <2>1. Len(log[b]) \in Nat /\ n \in Nat
        BY <1>t DEF TypeOK, Content
    <2>2. CASE b = agg[t]
        BY <1>2, <2>1, <2>2
    <2>3. CASE b # agg[t]
        BY <1>2, <2>3
    <2> QED
        BY <2>2, <2>3
<1>4. \A a \in Aggs : ViewLists(a)' = ViewLists(a) /\ AllLists(a)' = AllLists(a)
    <2>1. {u \in Tasks : pc'[u] = "all_store"} = {u \in Tasks : pc[u] = "all_store"}
        BY <1>1
    <2>2. \A a \in Aggs : {u \in Tasks : pc'[u] = "view_store" /\ agg'[u] = a}
                          = {u \in Tasks : pc[u] = "view_store" /\ agg[u] = a}
        BY <1>1
    <2> QED
        BY <1>1, <2>1, <2>2 DEF ViewLists, AllLists
<1>5. ListsCommitted'
    BY <1>3, <1>4 DEF ShownInv, ListsCommitted, ShowsCommitted
<1>6. \A x \in ViewLists(agg[t]) \union AllLists(agg[t]) : \A i \in 1..Len(x) : x[i].cmd # cmd[t]
    <2> SUFFICES ASSUME NEW x \in ViewLists(agg[t]) \union AllLists(agg[t]), NEW i \in 1..Len(x)
                 PROVE  x[i].cmd # cmd[t]
        OBVIOUS
    <2>1. x[i] \in Committed(agg[t])
        BY <1>2 DEF ShownInv, ListsCommitted, ShowsCommitted
    <2>2. PICK j \in 1..Len(log[agg[t]]) : x[i] = log[agg[t]][j]
        BY <2>1 DEF Committed
    <2>3. log[agg[t]][j].cmd # cmd[t]
        BY <1>t, <1>1, <1>2, <2>2 DEF SerialInv, CmdFresh
    <2> QED
        BY <2>2, <2>3
<1>7. Unseen'
    <2> SUFFICES ASSUME NEW u \in Tasks, pc'[u] \in AtView \union AtAll
                 PROVE  /\ pc'[u] \in AtView => ViewUnseen(u)'
                        /\ AllUnseen(u)'
        BY DEF Unseen
    <2>1. agg[u] \in Aggs
        BY <1>t, <1>1 DEF TypeOK, AtView, AtAll
    <2>2. PICK a \in Aggs : a = agg[u]
        BY <2>1
    <2>3. /\ ViewLists(agg[u])' = ViewLists(agg[u])
          /\ AllLists(agg[u])' = AllLists(agg[u])
        <3>1. ViewLists(agg[u])' = ViewLists(a)' /\ AllLists(agg[u])' = AllLists(a)'
            BY <1>1, <2>2 DEF ViewLists, AllLists
        <3> QED
            BY <1>4, <2>2, <3>1
    <2>4. CASE u = t
        BY <1>1, <1>6, <2>3, <2>4 DEF ViewUnseen, AllUnseen
    <2>5. CASE u # t
        <3>1. /\ pc'[u] \in AtView => ViewUnseen(u)
              /\ AllUnseen(u)
            BY <1>1, <2>5 DEF ShownInv, Unseen
        <3> QED
            BY <1>1, <2>3, <3>1 DEF ViewUnseen, AllUnseen
    <2> QED
        BY <2>4, <2>5
<1> QED
    BY <1>5, <1>7 DEF ShownInv

(* Where the elements of an extended list come from. *)
LEMMA Members ==
    ASSUME NEW x \in Seq(Event), NEW y \in Seq(Event), NEW i \in 1..Len(x \o y)
    PROVE  \/ \E k \in 1..Len(x) : (x \o y)[i] = x[k]
           \/ \E k \in 1..Len(y) : (x \o y)[i] = y[k]
<1>1. /\ Len(x) \in Nat /\ Len(y) \in Nat
      /\ Len(x \o y) = Len(x) + Len(y)
      /\ \A j \in 1..Len(x) : (x \o y)[j] = x[j]
      /\ \A j \in 1..Len(y) : (x \o y)[Len(x) + j] = y[j]
    BY Concatenation
<1>2. CASE i \in 1..Len(x)
    BY <1>1, <1>2
<1>3. CASE i \notin 1..Len(x)
    <2>1. i - Len(x) \in 1..Len(y) /\ i = Len(x) + (i - Len(x))
        BY <1>1, <1>3
    <2> QED
        BY <1>1, <2>1
<1> QED
    BY <1>2, <1>3

(* A handler stores its copy of the view with its batch. *)
LEMMA ShownStoreView ==
    ASSUME ShownInv, OwnInv', NEW t \in Tasks, StoreView(t)
    PROVE  ShownInv'
<1>t. TypeInv /\ TypeOK /\ OwnInv
    BY DEF ShownInv, OwnInv, SerialInv, DecidedInv, TypeInv
<1>0. PICK a \in Aggs : a = agg[t]
    BY <1>t DEF StoreView, TypeOK
<1>1. /\ pc[t] = "view_store" /\ pc'[t] = "all"
      /\ \A u \in Tasks \ {t} : pc'[u] = pc[u]
      /\ view'[a] = UpdateView(view[a], vcopy[t], vcopy[t].payload \o batch[t])
      /\ \A b \in Aggs \ {a} : view'[b] = view[b]
      /\ UNCHANGED <<log, all, vcopy, acopy, agg, cmd, batch, pos>>
    BY <1>0, <1>t DEF StoreView, TypeOK, local
<1>2. PICK x \in Seq(Event), y \in Seq(Event) :
        x = vcopy[t].payload /\ y = batch[t] /\ x \in ViewLists(a)
    BY <1>0, <1>1, <1>t DEF TypeOK, Row, ViewLists
<1>3. OwnBatch(t) /\ (\A u \in Tasks \ {t} : pc[u] # "idle" => cmd[u] # cmd[t])
    BY <1>t, <1>1 DEF OwnInv, BatchOwn, OwnCmds, Dispatching
<1>4. ShowsCommitted(x \o y, a)
    <2>1. ShowsCommitted(x, a)
        BY <1>2 DEF ShownInv, ListsCommitted
    <2>2. \A i \in 1..Len(y) : y[i] \in Committed(a) /\ y[i].pos = i /\ y[i].cmd = cmd[t]
        BY <1>0, <1>2, <1>3 DEF OwnBatch
    <2>3. \A i \in 1..Len(x) : x[i].cmd # cmd[t]
        BY <1>0, <1>1, <1>2 DEF ShownInv, Unseen, ViewUnseen, AtView
    <2>4. /\ \A i \in 1..Len(y) : y[i] \in Committed(a)
          /\ \A i, j \in 1..Len(y) : i # j => y[i] # y[j]
          /\ \A i \in 1..Len(x) : \A j \in 1..Len(y) : x[i] # y[j]
        BY <2>2, <2>3
    <2> QED
        BY <2>1, <2>4, ShowsMore
<1>5. \A b \in Aggs : AllLists(b)' = AllLists(b)
    <2>1. {u \in Tasks : pc'[u] = "all_store"} = {u \in Tasks : pc[u] = "all_store"}
        BY <1>1
    <2> QED
        BY <1>1, <2>1 DEF AllLists
<1>6. \A b \in Aggs : \A z \in ViewLists(b)' : z \in ViewLists(b) \/ (b = a /\ z = x \o y)
    <2>1. view'[a].payload \in {view[a].payload, x \o y}
        BY <1>1, <1>2 DEF UpdateView
    <2>2. \A b \in Aggs : view'[b].payload = view[b].payload \/ (b = a /\ view'[b].payload = x \o y)
        BY <1>1, <2>1
    <2>3. \A b \in Aggs : {u \in Tasks : pc'[u] = "view_store" /\ agg'[u] = b}
                          \subseteq {u \in Tasks : pc[u] = "view_store" /\ agg[u] = b}
        BY <1>1
    <2> QED
        BY <1>1, <2>2, <2>3 DEF ViewLists
<1>7. ListsCommitted'
    <2>1. \A b \in Aggs : \A z : ShowsCommitted(z, b)' <=> ShowsCommitted(z, b)
        BY <1>1 DEF ShowsCommitted, Committed
    <2> QED
        BY <1>4, <1>5, <1>6, <2>1 DEF ShownInv, ListsCommitted
<1>8. Unseen'
    <2> SUFFICES ASSUME NEW u \in Tasks, pc'[u] \in AtView \union AtAll
                 PROVE  /\ pc'[u] \in AtView => ViewUnseen(u)'
                        /\ AllUnseen(u)'
        BY DEF Unseen
    <2>1. PICK b \in Aggs : b = agg[u]
        BY <1>t, <1>1 DEF TypeOK, AtView, AtAll
    <2>2. /\ ViewLists(agg[u])' = ViewLists(b)' /\ AllLists(agg[u])' = AllLists(b)'
        BY <1>1, <2>1 DEF ViewLists, AllLists
    <2>3. /\ pc'[u] \in AtView => ViewUnseen(u) /\ u # t
          /\ AllUnseen(u)
        BY <1>1 DEF ShownInv, Unseen, AtView, AtAll
    <2>4. AllUnseen(u)'
        BY <1>1, <1>5, <2>1, <2>2, <2>3 DEF AllUnseen
    <2>5. ASSUME pc'[u] \in AtView PROVE ViewUnseen(u)'
        <3> SUFFICES ASSUME NEW z \in ViewLists(b)', NEW i \in 1..Len(z)
                     PROVE  z[i].cmd # cmd[u]
            BY <1>1, <2>2 DEF ViewUnseen
        <3>1. CASE z \in ViewLists(b)
            BY <2>1, <2>3, <2>5, <3>1 DEF ViewUnseen
        <3>2. CASE b = a /\ z = x \o y
            <4>1. \A k \in 1..Len(x) : x[k].cmd # cmd[u]
                BY <1>2, <2>1, <2>3, <2>5, <3>2 DEF ViewUnseen
            <4>2. \A k \in 1..Len(y) : y[k].cmd # cmd[u]
                BY <1>1, <1>2, <1>3, <2>3, <2>5 DEF OwnBatch, AtView
            <4> QED
                BY <3>2, <4>1, <4>2, Members
        <3> QED
            BY <1>6, <3>1, <3>2
    <2> QED
        BY <2>4, <2>5
<1> QED
    BY <1>7, <1>8 DEF ShownInv

(* A handler stores its copy of the list with one event of its batch. *)
LEMMA ShownStoreAll ==
    ASSUME ShownInv, OwnInv', NEW t \in Tasks, StoreAll(t)
    PROVE  ShownInv'
<1>t. TypeInv /\ TypeOK /\ OwnInv
    BY DEF ShownInv, OwnInv, SerialInv, DecidedInv, TypeInv
<1>0. PICK a \in Aggs : a = agg[t]
    BY <1>t DEF StoreAll, TypeOK
<1>1. /\ pc[t] = "all_store" /\ pc'[t] \in {"all", "code"}
      /\ pc'[t] = "all" => pos'[t] = pos[t] + 1
      /\ \A u \in Tasks \ {t} : pc'[u] = pc[u] /\ pos'[u] = pos[u]
      /\ all' = UpdateView(all, acopy[t], Applied(t))
      /\ UNCHANGED <<log, view, vcopy, acopy, agg, cmd, batch>>
    BY <1>t DEF StoreAll, TypeOK
<1>p. pos[t] \in Nat /\ pos[t] \in 1..Len(batch[t])
    BY <1>t, <1>1 DEF TypeOK, Dispatching
<1>2. PICK x \in Seq(Event), e \in Event :
        x = acopy[t].payload[a] /\ e = batch[t][pos[t]] /\ x \in AllLists(a)
    <2>1. acopy[t].payload[a] \in Seq(Event) /\ batch[t][pos[t]] \in Event
        BY <1>t, <1>p DEF TypeOK, Row, Content
    <2> QED
        BY <1>1, <2>1 DEF AllLists
<1>e. e.cmd = cmd[t] /\ e.pos = pos[t] /\ e \in Committed(a)
    BY <1>t, <1>0, <1>1, <1>2, <1>p DEF OwnInv, BatchOwn, OwnBatch, Dispatching
<1>3. /\ <<e>> \in Seq(Event) /\ Len(<<e>>) = 1 /\ <<e>>[1] = e
      /\ Append(x, e) = x \o <<e>>
    OBVIOUS
<1>x. \A k \in 1..Len(x) : x[k].cmd = cmd[t] => x[k].pos < pos[t]
    BY <1>0, <1>1, <1>2 DEF ShownInv, Unseen, AllUnseen, AtAll
<1>4. ShowsCommitted(Append(x, e), a)
    <2>1. ShowsCommitted(x, a)
        BY <1>2 DEF ShownInv, ListsCommitted
    <2>2. \A i \in 1..Len(x) : x[i] # e
        BY <1>p, <1>e, <1>x
    <2>3. /\ \A i \in 1..Len(<<e>>) : <<e>>[i] \in Committed(a)
          /\ \A i, j \in 1..Len(<<e>>) : i # j => <<e>>[i] # <<e>>[j]
          /\ \A i \in 1..Len(x) : \A j \in 1..Len(<<e>>) : x[i] # <<e>>[j]
        BY <1>3, <1>e, <2>2
    <2>4. ShowsCommitted(x \o <<e>>, a)
        BY <1>3, <2>1, <2>3, ShowsMore
    <2> QED
        BY <1>3, <2>4
<1>5. \A b \in Aggs : ViewLists(b)' = ViewLists(b)
    <2>1. \A b \in Aggs : {u \in Tasks : pc'[u] = "view_store" /\ agg'[u] = b}
                          = {u \in Tasks : pc[u] = "view_store" /\ agg[u] = b}
        BY <1>1
    <2> QED
        BY <1>1, <2>1 DEF ViewLists
<1>6. \A b \in Aggs : \A z \in AllLists(b)' : z \in AllLists(b) \/ (b = a /\ z = Append(x, e))
    <2>1. all'.payload \in {all.payload, Applied(t)}
        BY <1>1 DEF UpdateView
    <2>2. /\ Applied(t)[a] = Append(x, e)
          /\ \A b \in Aggs \ {a} : Applied(t)[b] = acopy[t].payload[b]
        <3>1. acopy[t].payload \in [Aggs -> Seq(Event)]
            BY <1>t DEF TypeOK, Row, Content
        <3> QED
            BY <1>0, <1>2, <3>1 DEF Applied
    <2>3. \A b \in Aggs : acopy[t].payload[b] \in AllLists(b)
        BY <1>1 DEF AllLists
    <2>4. \A b \in Aggs : all'.payload[b] \in AllLists(b) \/ (b = a /\ all'.payload[b] = Append(x, e))
        BY <2>1, <2>2, <2>3 DEF AllLists
    <2>5. \A u \in Tasks : pc'[u] = "all_store" => pc[u] = "all_store"
        BY <1>1
    <2> QED
        BY <1>1, <2>4, <2>5 DEF AllLists
<1>7. ListsCommitted'
    <2>1. \A b \in Aggs : \A z : ShowsCommitted(z, b)' <=> ShowsCommitted(z, b)
        BY <1>1 DEF ShowsCommitted, Committed
    <2> QED
        BY <1>4, <1>5, <1>6, <2>1 DEF ShownInv, ListsCommitted
<1>8. Unseen'
    <2> SUFFICES ASSUME NEW u \in Tasks, pc'[u] \in AtView \union AtAll
                 PROVE  /\ pc'[u] \in AtView => ViewUnseen(u)'
                        /\ AllUnseen(u)'
        BY DEF Unseen
    <2>1. PICK b \in Aggs : b = agg[u]
        BY <1>t, <1>1 DEF TypeOK, AtView, AtAll
    <2>2. /\ ViewLists(agg[u])' = ViewLists(b)' /\ AllLists(agg[u])' = AllLists(b)'
        BY <1>1, <2>1 DEF ViewLists, AllLists
    <2>3. /\ pc'[u] \in AtView => ViewUnseen(u)
          /\ AllUnseen(u)
        BY <1>1 DEF ShownInv, Unseen, AtView, AtAll
    <2>4. ASSUME pc'[u] \in AtView PROVE ViewUnseen(u)'
        BY <1>1, <1>5, <2>1, <2>2, <2>3, <2>4 DEF ViewUnseen
    <2>5. AllUnseen(u)'
        <3> SUFFICES ASSUME NEW z \in AllLists(b)', NEW i \in 1..Len(z), z[i].cmd = cmd[u]
                     PROVE  z[i].pos < pos'[u]
            BY <1>1, <2>2 DEF AllUnseen
        <3>1. pos[u] \in Nat /\ pos'[u] \in Nat /\ pos[u] <= pos'[u]
              /\ (u = t => pos'[u] = pos[u] + 1)
            <4>1. pos[u] \in Nat
                BY <1>t DEF TypeOK
            <4> QED
                BY <1>1, <4>1 DEF AtView, AtAll
        <3>3. \A w \in AllLists(b) : \A k \in 1..Len(w) :
                w[k].cmd = cmd[u] => w[k].pos < pos'[u] /\ w[k].pos \in Nat
            <4> SUFFICES ASSUME NEW w \in AllLists(b), NEW k \in 1..Len(w), w[k].cmd = cmd[u]
                         PROVE  w[k].pos < pos'[u] /\ w[k].pos \in Nat
                OBVIOUS
            <4>1. w[k].pos < pos[u]
                BY <2>1, <2>3 DEF AllUnseen
            <4>2. w[k] \in Event
                BY <1>t, ListsType
            <4>3. w[k].pos \in Nat
                BY <4>2 DEF Event
            <4> QED
                BY <3>1, <4>1, <4>3
        <3>4. CASE z \in AllLists(b)
            BY <3>3, <3>4
        <3>5. CASE b = a /\ z = Append(x, e)
            <4>1. \/ \E k \in 1..Len(x) : z[i] = x[k]
                  \/ z[i] = e
                <5>1. i \in 1..Len(x \o <<e>>) /\ z = x \o <<e>>
                    BY <1>3, <3>5
                <5>2. \/ \E k \in 1..Len(x) : z[i] = x[k]
                      \/ \E k \in 1..Len(<<e>>) : z[i] = <<e>>[k]
                    BY <1>3, <5>1, Members
                <5> QED
                    BY <1>3, <5>2
            <4>2. CASE \E k \in 1..Len(x) : z[i] = x[k]
                BY <1>2, <3>3, <3>5, <4>2
            <4>3. CASE z[i] = e
                <5>1. u = t
                    BY <1>t, <1>1, <1>e, <4>3 DEF OwnInv, OwnCmds, AtView, AtAll
                <5> QED
                    BY <1>e, <3>1, <4>3, <5>1
            <4> QED
                BY <4>1, <4>2, <4>3
        <3> QED
            BY <1>6, <3>4, <3>5
    <2> QED
        BY <2>4, <2>5
<1> QED
    BY <1>7, <1>8 DEF ShownInv

LEMMA ShownStep == ShownInv /\ [Next]_vars => ShownInv'
<1> SUFFICES ASSUME ShownInv, [Next]_vars PROVE ShownInv'
    OBVIOUS
<1>0. OwnInv'
    BY OwnStep DEF ShownInv
<1>t. TypeInv /\ TypeOK
    BY DEF ShownInv, OwnInv, SerialInv, DecidedInv, TypeInv
<1> DEFINE Calm ==
        \A u \in Tasks :
            /\ Dispatching(u)' => Dispatching(u) /\ agg'[u] = agg[u] /\ cmd'[u] = cmd[u]
            /\ pc'[u] \in AtView => pc[u] \in AtView
            /\ pc'[u] \in AtView \union AtAll =>
                    pc[u] \in AtView \union AtAll /\ pos'[u] = pos[u]
            /\ pc'[u] = "view_store" =>
                    vcopy'[u] = view[agg[u]] \/ (pc[u] = "view_store" /\ vcopy'[u] = vcopy[u])
            /\ pc'[u] = "all_store" =>
                    acopy'[u] = all \/ (pc[u] = "all_store" /\ acopy'[u] = acopy[u])
<1>1. ASSUME UNCHANGED <<log, view, all>>, Calm PROVE ShownInv'
    <2>1. \A u \in Tasks : pc'[u] \in {"view_store", "all_store"} => agg'[u] = agg[u]
        BY <1>1 DEF Dispatching
    <2>2. \A a \in Aggs : ViewLists(a)' \subseteq ViewLists(a)
        BY <1>1, <2>1 DEF ViewLists
    <2>3. \A a \in Aggs : AllLists(a)' \subseteq AllLists(a)
        BY <1>1 DEF AllLists
    <2> QED
        BY <1>0, <1>1, <2>2, <2>3, ShownUnchanged
<1>2. ASSUME NEW t \in Tasks, NEW a \in Aggs, LoadAggregate(t, a) PROVE ShownInv'
    <2>1. Calm
        BY <1>2, <1>t DEF LoadAggregate, TypeOK, Dispatching, AtView, AtAll
    <2> QED
        BY <1>1, <1>2, <2>1 DEF LoadAggregate, store
<1>3. ASSUME NEW t \in Tasks, Return(t), UNCHANGED <<log, view, all>> PROVE ShownInv'
    <2>1. Calm
        BY <1>3, <1>t DEF Return, TypeOK, Dispatching, AtView, AtAll
    <2> QED
        BY <1>1, <1>3, <2>1
<1>4. ASSUME NEW t \in Tasks, LoadView(t) \/ LoadAll(t) \/ IndexCode(t) PROVE ShownInv'
    <2>1. Calm /\ UNCHANGED <<log, view, all>>
        <3>1. CASE LoadView(t)
            BY <3>1, <1>t DEF LoadView, TypeOK, Dispatching, AtView, AtAll, store
        <3>2. CASE LoadAll(t)
            BY <3>2, <1>t DEF LoadAll, TypeOK, Dispatching, AtView, AtAll, store
        <3>3. CASE IndexCode(t)
            BY <3>3, <1>t DEF IndexCode, TypeOK, Dispatching, AtView, AtAll, local
        <3> QED
            BY <1>4, <3>1, <3>2, <3>3
    <2> QED
        BY <1>1, <2>1
<1>5. ASSUME NEW t \in Tasks, ViewUpdateFails(t) PROVE ShownInv'
    <2>1. CASE pc[t] = "token"
        BY <1>3, <1>5, <2>1 DEF ViewUpdateFails, store
    <2>2. CASE pc[t] # "token"
        <3>1. /\ pc'[t] \in {"all", "code", "token"} /\ pc[t] # "handle" /\ pc[t] # "idle"
              /\ pc'[t] = "all" => pc[t] \in AtView
              /\ \A u \in Tasks \ {t} : pc'[u] = pc[u]
              /\ UNCHANGED <<log, view, all, agg, cmd, pos, vcopy, acopy>>
            BY <1>5, <1>t, <2>2 DEF ViewUpdateFails, TypeOK, Phases, QueryAfter, Dispatching,
                                    AtView, store, local
        <3>2. Calm
            BY <3>1 DEF Dispatching, AtView, AtAll
        <3> QED
            BY <1>1, <3>1, <3>2
    <2> QED
        BY <2>1, <2>2
<1>6. ASSUME NEW t \in Tasks, IndexToken(t) \/ Cancel(t) PROVE ShownInv'
    BY <1>3, <1>6 DEF IndexToken, Cancel, store
<1>7. ASSUME Crash PROVE ShownInv'
    <2>1. \A u \in Tasks : pc'[u] = "idle"
        BY <1>7 DEF Crash
    <2>2. CASE Store = "postgres"
        <3>1. Calm
            BY <2>1 DEF Dispatching, AtView, AtAll
        <3> QED
            BY <1>1, <1>7, <2>2, <3>1 DEF Crash, store
    <2>3. CASE Store # "postgres"
        <3>1. \A a \in Aggs : view'[a].payload = <<>> /\ all'.payload[a] = <<>>
            BY <1>7, <2>3 DEF Crash, NoRow, NoEvents
        <3>2. \A a \in Aggs : ViewLists(a)' = {<<>>} /\ AllLists(a)' = {<<>>}
            BY <2>1, <3>1 DEF ViewLists, AllLists
        <3>3. ListsCommitted'
            BY <3>2 DEF ListsCommitted, ShowsCommitted
        <3>4. Unseen'
            BY <2>1 DEF Unseen, AtView, AtAll
        <3> QED
            BY <1>0, <3>3, <3>4 DEF ShownInv
    <2> QED
        BY <2>2, <2>3
<1>8. ASSUME UNCHANGED vars PROVE ShownInv'
    <2>1. Calm
        BY <1>8 DEF vars, store, local, Dispatching, AtView, AtAll
    <2> QED
        BY <1>1, <1>8, <2>1 DEF vars, store
<1> QED
    <2>1. ASSUME NEW t \in Tasks, Decline(t) PROVE ShownInv'
        BY <2>1, <1>3 DEF Decline, store
    <2>2. ASSUME NEW t \in Tasks, NEW kind \in Kinds, NEW n \in 1..MaxBatch,
                 CommitConflict(t, kind, n)
          PROVE  ShownInv'
        BY <2>2, <1>3 DEF CommitConflict, store
    <2>3. ASSUME NEW t \in Tasks, NEW kind \in Kinds, NEW n \in 1..MaxBatch,
                 Commit(t, kind, n)
          PROVE  ShownInv'
        BY <2>3, <1>0, ShownCommit
    <2>4. ASSUME NEW t \in Tasks, StoreView(t) PROVE ShownInv'
        BY <2>4, <1>0, ShownStoreView
    <2>5. ASSUME NEW t \in Tasks, StoreAll(t) PROVE ShownInv'
        BY <2>5, <1>0, ShownStoreAll
    <2> HIDE DEF Calm
    <2> QED
        BY <1>2, <1>4, <1>5, <1>6, <1>7, <1>8, <2>1, <2>2, <2>3, <2>4, <2>5
        DEF Next, Proceed

(* However dispatches interleave, fail, are cancelled or cut short, and on *)
(* either store, a view and the list show committed events only and none   *)
(* of them twice.                                                          *)
THEOREM ViewsShow == Spec => []ViewsShowCommitted
<1>1. ShownInv => ViewsShowCommitted
    BY DEF ShownInv, ListsCommitted, ViewsShowCommitted, ViewLists, AllLists
<1> QED
    BY <1>1, ShownInit, ShownStep, PTL DEF Spec
=============================================================================
