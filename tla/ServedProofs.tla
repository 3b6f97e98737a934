---------------------------- MODULE ServedProofs ----------------------------
(***************************************************************************)
(* Proofs about what the verifier serves: a published request_uri leads to *)
(* a signed object, on Postgres to that of the request that is stored.     *)
(***************************************************************************)
EXTENDS VerificationProofs

(* Two commands that dispatch to the same row have disturbed it. *)
Alone ==
    \A t, u \in Tasks : t # u /\ Dispatching(t) /\ Dispatching(u) /\ Key(t) = Key(u)
        => Key(t) \in disturbed

(* An undisturbed request's row lags its aggregate by the event that is    *)
(* being dispatched, if there is one.                                      *)
Lagging ==
    \A t \in Tasks : Dispatching(t) /\ Key(t) \in Ids \ disturbed =>
        /\ aggregate[Key(t)].payload = Apply(view[Key(t)].payload, exec[t].event)
        /\ exec[t].phase = "view_store" => exec[t].copy = view[Key(t)]

Current ==
    \A r \in Ids \ disturbed : (\A t \in Tasks : Dispatching(t) => Key(t) # r)
        => aggregate[r].payload = view[r].payload

SignsSomething ==
    \A t \in Tasks : Dispatching(t) /\ pc[t] = "sign" => exec[t].event.arg # None

(* A row with a signature is there, and stays so. *)
SignedRows ==
    /\ \A r \in Ids : view[r].version = 0 => view[r].payload.signed = None
    /\ \A t \in Tasks : pc[t] = "read" /\ req[t].id \notin disturbed
            => view[req[t].id].payload.signed # None
    /\ \A a \in answered : a[2] \notin disturbed => view[a[2]].payload.signed # None

RowsInv == Alone /\ Lagging /\ Current /\ SignsSomething /\ SignedRows

LEMMA RowsInit == Init => RowsInv
<1> SUFFICES ASSUME Init PROVE RowsInv
    OBVIOUS
<1>1. \A t \in Tasks : pc[t] = "idle" /\ ~Dispatching(t)
    BY NewTypes DEF Init, Dispatching
<1>2. \A r \in Ids : /\ aggregate[r].payload = view[r].payload
                     /\ view[r].payload.signed = None
    BY DEF Init, Keys, NoRow, NewAggregate, NewRequest
<1>3. answered = {}
    BY DEF Init
<1> QED
    BY <1>1, <1>2, <1>3 DEF RowsInv, Alone, Lagging, Current, SignsSomething, SignedRows

(* What a step that leaves the stores alone and moves t on has to mind.    *)
LEMMA MoveRows ==
    ASSUME TypeInv, RowsInv, NEW t \in Tasks, NEW where, NEW r, Goto(t, where),
           req' = [req EXCEPT ![t] = r], UNCHANGED <<aggregate, view>>,
           disturbed \subseteq disturbed', Dispatching(t) => Key(t) \in disturbed',
           where = "read" /\ r.id \notin disturbed' => view[r.id].payload.signed # None,
           \A a \in answered' \ answered :
                a[2] \notin disturbed' => view[a[2]].payload.signed # None
    PROVE  RowsInv'
<1>1. req'[t] = r /\ \A u \in Tasks \ {t} : req'[u] = req[u]
    BY DEF TypeInv, TypeOK
<1>2. /\ pc'[t] = where /\ ~Dispatching(t)'
      /\ \A u \in Tasks \ {t} : pc'[u] = pc[u] /\ exec'[u] = exec[u]
    BY <1>1, GotoExec DEF TypeInv, TypeOK
<1>3. \A u \in Tasks \ {t} : Key(u)' = Key(u) /\ Dispatching(u)' = Dispatching(u)
    BY <1>1, <1>2 DEF Key, Dispatching
<1>4. Alone' /\ Lagging' /\ SignsSomething'
    BY <1>1, <1>2, <1>3 DEF RowsInv, Alone, Lagging, SignsSomething
<1>5. Current'
    <2> SUFFICES ASSUME NEW k \in Ids \ disturbed', \A u \in Tasks : Dispatching(u)' => Key(u)' # k
                 PROVE  aggregate[k].payload = view[k].payload
        BY DEF Current
    <2>1. \A u \in Tasks : Dispatching(u) => Key(u) # k
        BY <1>3
    <2> QED
        BY <2>1 DEF RowsInv, Current
<1>6. SignedRows'
    BY <1>1, <1>2 DEF RowsInv, SignedRows
<1> QED
    BY <1>4, <1>5, <1>6 DEF RowsInv

(* The row of an undisturbed request is written as its aggregate is.       *)
LEMMA StoreCurrent ==
    ASSUME TypeInv, RowsInv, NEW t \in Tasks, StoreView(t)
    PROVE  /\ Key(t) \in Keys /\ pc[t] \in Commands /\ Dispatching(t)
           /\ \A k \in Keys \ {Key(t)} : view'[k] = view[k]
           /\ view'[Key(t)] = view[Key(t)] \/ view'[Key(t)].version # 0
           /\ Key(t) \in Ids \ disturbed =>
                /\ view'[Key(t)].payload = aggregate[Key(t)].payload
                /\ view'[Key(t)].payload = Apply(view[Key(t)].payload, exec[t].event)
<1> DEFINE k == Key(t)
           p == Apply(exec[t].copy.payload, exec[t].event)
<1>1. /\ pc[t] \in Commands /\ Dispatching(t) /\ exec[t].phase = "view_store"
      /\ view' = [view EXCEPT ![k] = UpdateView(view[k], exec[t].copy, p)]
    BY DEF StoreView, At, Dispatching, TypeInv, TypeOK
<1>2. k \in Keys
    BY <1>1, KeyType DEF TypeInv
<1>3. view[k].version \in Nat /\ exec[t].copy.version \in Nat
    BY <1>1, <1>2 DEF TypeInv, TypeOK, ExecOK, Row
<1> HIDE DEF k, p
<1>4. /\ view'[k] = UpdateView(view[k], exec[t].copy, p)
      /\ \A j \in Keys \ {k} : view'[j] = view[j]
    BY <1>1, <1>2 DEF TypeInv, TypeOK
<1>5. view'[k] = view[k] \/ view'[k].version # 0
    BY <1>3, <1>4 DEF UpdateView
<1>6. ASSUME k \in Ids \ disturbed
      PROVE  view'[k].payload = aggregate[k].payload
             /\ view'[k].payload = Apply(view[k].payload, exec[t].event)
    <2>1. exec[t].copy = view[k] /\ aggregate[k].payload = Apply(view[k].payload, exec[t].event)
        BY <1>1, <1>6 DEF RowsInv, Lagging, k
    <2>2. ~Refused(view[k], exec[t].copy)
        BY <1>3, <2>1 DEF Refused
    <2> QED
        BY <1>4, <2>1, <2>2 DEF UpdateView, p
<1> QED
    BY <1>1, <1>2, <1>4, <1>5, <1>6 DEF k

LEMMA RowsStep == TypeInv /\ ExplainInv /\ RowsInv /\ [Next]_vars => RowsInv'
<1> SUFFICES ASSUME TypeInv, ExplainInv, RowsInv, [Next]_vars PROVE RowsInv'
    OBVIOUS
<1>t. TypeOK /\ ExecOK
    BY DEF TypeInv
<1>e. \A t \in Tasks : Dispatching(t) =>
        /\ pc[t] \in Commands
        /\ pc[t] = "create" => exec[t].event.type = "AuthorizationRequestCreated"
        /\ pc[t] = "sign" => exec[t].event.type = "AuthorizationRequestObjectSigned"
    BY <1>t DEF Dispatching, ExecOK, ExplainInv, TasksExplained, TaskExplained
<1>l. \A t \in Tasks : Dispatching(t) => pc[t] # "idle" /\ pc[t] # "find" /\ pc[t] # "read"
    BY <1>e DEF Commands
<1>r. \A t \in Tasks : req = [req EXCEPT ![t] = req[t]]
    BY <1>t DEF TypeOK
<1>1. ASSUME NEW t \in Tasks, Request(t) PROVE RowsInv'
    <2>1. PICK kind \in {"request", "id_token", "vp_token"}, where \in {"create", "find"}, r \in Ids :
            Start(t, kind, where, r)
        BY <1>1 DEF Request, PostRequest, PostRedirect
    <2> DEFINE q == [kind |-> kind, n |-> requests + 1, id |-> r, client |-> None]
    <2>2. Goto(t, where) /\ req' = [req EXCEPT ![t] = q] /\ pc[t] = "idle"
          /\ UNCHANGED <<aggregate, view, answered, disturbed>>
        BY <2>1 DEF Start, store
    <2> HIDE DEF q
    <2> QED
        BY <1>l, <2>2, MoveRows
<1>2. ASSUME NEW t \in Tasks, FindRequest(t) PROVE RowsInv'
    <2>1. PICK where \in {"idle", "verify"},
                r \in {NoRequest, [req[t] EXCEPT !.client = view[req[t].id].payload.asked.client]} :
            Goto(t, where) /\ req' = [req EXCEPT ![t] = r]
        <3>1. CASE view[req[t].id].payload.asked = None
            BY <1>2, <3>1 DEF FindRequest, Answer
        <3>2. CASE view[req[t].id].payload.asked # None
            BY <1>2, <1>t, <3>2 DEF FindRequest, TypeOK
        <3> QED
            BY <3>1, <3>2
    <2>2. UNCHANGED <<aggregate, view, answered, disturbed>> /\ pc[t] = "find"
        BY <1>2 DEF FindRequest, Answer, store
    <2> QED
        BY <1>l, <2>1, <2>2, MoveRows
<1>3. ASSUME NEW t \in Tasks, Decline(t) \/ Conflict(t) \/ ReadForm(t) \/ Cancel(t)
      PROVE RowsInv'
    <2>1. Goto(t, "idle") /\ req' = [req EXCEPT ![t] = NoRequest]
          /\ UNCHANGED <<aggregate, view>> /\ disturbed \subseteq disturbed'
        BY <1>3 DEF Decline, Conflict, ReadForm, Cancel, Answer, store
    <2>2. Dispatching(t) => Key(t) \in disturbed'
        BY <1>3, <1>l DEF Decline, Conflict, ReadForm, Cancel, At, Dispatching
    <2>3. ASSUME NEW a \in answered' \ answered, a[2] \notin disturbed'
          PROVE  view[a[2]].payload.signed # None
        <3>1. a = <<req[t].n, req[t].id>> /\ pc[t] = "read" /\ disturbed' = disturbed
            BY <1>3, <2>3 DEF Decline, Conflict, ReadForm, Cancel, Answer
        <3> QED
            BY <2>3, <3>1 DEF RowsInv, SignedRows
    <2> QED
        BY <2>1, <2>2, <2>3, MoveRows
<1>4. ASSUME NEW t \in Tasks, ViewUpdateFails(t) PROVE RowsInv'
    <2>1. PICK where \in {"idle", "read", "sign"}, r \in {NoRequest, req[t]} :
            /\ Goto(t, where) /\ req' = [req EXCEPT ![t] = r]
            /\ where = "read" => pc[t] = "sign" /\ r = req[t]
            /\ answered' = answered
        BY <1>4, <1>r DEF ViewUpdateFails, Continue, Answer
    <2>2. /\ UNCHANGED <<aggregate, view>>
          /\ disturbed \subseteq disturbed' /\ Key(t) \in disturbed'
        BY <1>4 DEF ViewUpdateFails, store
    <2>3. where = "read" => r.id \in disturbed'
        BY <2>1, <2>2 DEF Key
    <2> QED
        BY <2>1, <2>2, <2>3, MoveRows
<1>5. ASSUME NEW t \in Tasks, Load(t) \/ LoadView(t) PROVE RowsInv'
    <2>1. /\ UNCHANGED <<aggregate, view, pc, req, answered, disturbed>>
          /\ \A u \in Tasks \ {t} : exec'[u] = exec[u]
        BY <1>5, <1>t DEF Load, LoadView, store, history, ExecOK
    <2>2. /\ Dispatching(t)' = Dispatching(t)
          /\ exec'[t].event = exec[t].event
          /\ exec'[t].phase = "view_store" => exec'[t].copy = view[Key(t)]
        BY <1>5, <1>t DEF Load, LoadView, At, ExecOK, Execs, Dispatching
    <2>3. \A u \in Tasks : /\ Key(u)' = Key(u) /\ Dispatching(u)' = Dispatching(u)
                           /\ exec'[u].event = exec[u].event
                           /\ u # t => exec'[u] = exec[u]
        BY <2>1, <2>2 DEF Key, Dispatching
    <2>4. Alone' /\ Current' /\ SignsSomething' /\ SignedRows'
        BY <2>1, <2>3 DEF RowsInv, Alone, Current, SignsSomething, SignedRows
    <2>5. Lagging'
        BY <2>1, <2>2, <2>3 DEF RowsInv, Lagging
    <2> QED
        BY <2>4, <2>5 DEF RowsInv
<1>6. ASSUME NEW t \in Tasks, Commit(t) PROVE RowsInv'
    <2> DEFINE k == Key(t)
               e == Emitted(t)
    <2>1. /\ pc[t] \in Commands /\ exec[t].phase = "commit" /\ ~MissingRequest(t)
          /\ aggregate' = [aggregate EXCEPT ![k] =
                [version |-> @.version + 1, payload |-> Apply(@.payload, e)]]
          /\ exec' = [exec EXCEPT ![t].event = e, ![t].phase = "view"]
          /\ disturbed \subseteq disturbed'
          /\ (\E u \in Tasks : Dispatching(u) /\ Key(u) = k) => k \in disturbed'
          /\ UNCHANGED <<view, pc, req, answered>>
        BY <1>6 DEF Commit, At
    <2>2. k \in Keys
        BY <1>t, <2>1, KeyType
    <2>3. pc[t] = "sign" => e.arg # None
        BY <2>1 DEF MissingRequest, Emitted, Event
    <2>4. /\ \A u \in Tasks : Key(u)' = Key(u)
          /\ ~Dispatching(t)
          /\ exec'[t].event = e /\ exec'[t].phase = "view"
          /\ \A u \in Tasks \ {t} : exec'[u] = exec[u] /\ Dispatching(u)' = Dispatching(u)
        BY <1>t, <2>1 DEF Key, Dispatching, ExecOK, Execs
    <2>5. Dispatching(t)' /\ k = Key(t)
        BY <2>4 DEF Dispatching
    <2> HIDE DEF k, e
    <2>6. /\ aggregate'[k].payload = Apply(aggregate[k].payload, e)
          /\ \A j \in Keys \ {k} : aggregate'[j] = aggregate[j]
        BY <1>t, <2>1, <2>2 DEF TypeOK
    <2>7. Alone'
        BY <2>1, <2>4, <2>5 DEF RowsInv, Alone
    <2>8. Lagging'
        <3> SUFFICES ASSUME NEW u \in Tasks, Dispatching(u)', Key(u) \in Ids \ disturbed'
                     PROVE  /\ aggregate'[Key(u)].payload = Apply(view[Key(u)].payload, exec'[u].event)
                            /\ exec'[u].phase = "view_store" => exec'[u].copy = view[Key(u)]
            BY <2>1, <2>4 DEF Lagging
        <3>1. CASE u = t
            <4>1. aggregate[k].payload = view[k].payload
                BY <2>1, <2>5, <3>1 DEF RowsInv, Current
            <4> QED
                BY <2>4, <2>5, <2>6, <3>1, <4>1
        <3>2. CASE u # t
            <4>1. Dispatching(u) /\ exec'[u] = exec[u] /\ Key(u) # k /\ Key(u) \in Keys
                BY <2>1, <2>4, <3>2 DEF Keys
            <4> QED
                BY <2>1, <2>6, <4>1 DEF RowsInv, Lagging
        <3> QED
            BY <3>1, <3>2
    <2>9. Current'
        <3> SUFFICES ASSUME NEW r \in Ids \ disturbed', \A u \in Tasks : Dispatching(u)' => Key(u)' # r
                     PROVE  aggregate'[r].payload = view[r].payload
            BY <2>1 DEF Current
        <3>1. r # k /\ r \in Keys
            BY <2>4, <2>5 DEF Keys
        <3>2. \A u \in Tasks : Dispatching(u) => Key(u) # r
            BY <2>4
        <3> QED
            BY <2>1, <2>6, <3>1, <3>2 DEF RowsInv, Current
    <2>10. SignsSomething' /\ SignedRows'
        BY <2>1, <2>3, <2>4 DEF RowsInv, SignsSomething, SignedRows
    <2> QED
        BY <2>7, <2>8, <2>9, <2>10 DEF RowsInv
<1>7. ASSUME NEW t \in Tasks, StoreView(t) PROVE RowsInv'
    <2> DEFINE k == Key(t)
    <2>1. /\ k \in Keys /\ pc[t] \in Commands /\ Dispatching(t)
          /\ \A j \in Keys \ {k} : view'[j] = view[j]
          /\ view'[k] = view[k] \/ view'[k].version # 0
          /\ k \in Ids \ disturbed =>
                /\ view'[k].payload = aggregate[k].payload
                /\ view'[k].payload = Apply(view[k].payload, exec[t].event)
        BY <1>7, StoreCurrent
    <2>2. PICK where \in {"idle", "read", "sign"}, r \in {NoRequest, req[t]} :
            /\ Goto(t, where) /\ req' = [req EXCEPT ![t] = r]
            /\ where = "read" => pc[t] = "sign" /\ r = req[t]
            /\ UNCHANGED <<aggregate, answered, disturbed>>
        BY <1>7, <1>r DEF StoreView, Continue, Answer
    <2>3. req'[t] = r /\ \A u \in Tasks \ {t} : req'[u] = req[u]
        BY <1>t, <2>2 DEF TypeOK
    <2>4. /\ pc'[t] = where /\ ~Dispatching(t)'
          /\ \A u \in Tasks \ {t} : pc'[u] = pc[u] /\ exec'[u] = exec[u]
        BY <1>t, <2>2, <2>3, GotoExec DEF TypeOK
    <2>5. \A u \in Tasks \ {t} : Key(u)' = Key(u) /\ Dispatching(u)' = Dispatching(u)
        BY <2>3, <2>4 DEF Key, Dispatching
    <2>6. Alone' /\ SignsSomething'
        BY <2>2, <2>4, <2>5 DEF RowsInv, Alone, SignsSomething
    <2>7. Lagging'
        <3> SUFFICES ASSUME NEW u \in Tasks, Dispatching(u)', Key(u)' \in Ids \ disturbed
                     PROVE  /\ aggregate[Key(u)'].payload = Apply(view'[Key(u)'].payload, exec'[u].event)
                            /\ exec'[u].phase = "view_store" => exec'[u].copy = view'[Key(u)']
            BY <2>2 DEF Lagging
        <3>1. /\ u # t /\ Dispatching(u) /\ exec'[u] = exec[u]
              /\ Key(u)' = Key(u) /\ Key(u) \in Ids \ disturbed
            BY <2>4, <2>5
        <3>2. Key(u) # k /\ Key(u) \in Keys
            BY <2>1, <3>1 DEF RowsInv, Alone, Keys
        <3> QED
            BY <2>1, <3>1, <3>2 DEF RowsInv, Lagging
    <2>8. Current'
        <3> SUFFICES ASSUME NEW j \in Ids \ disturbed, \A u \in Tasks : Dispatching(u)' => Key(u)' # j
                     PROVE  aggregate[j].payload = view'[j].payload
            BY <2>2 DEF Current
        <3>1. CASE j = k
            BY <2>1, <3>1
        <3>2. CASE j # k
            <4>1. \A u \in Tasks : Dispatching(u) => Key(u) # j
                BY <2>5, <3>2
            <4> QED
                BY <2>1, <3>2, <4>1 DEF RowsInv, Current, Keys
        <3> QED
            BY <3>1, <3>2
    <2>9. ASSUME NEW j \in Ids, j \notin disturbed,
                 view[j].payload.signed # None \/ (j = k /\ pc[t] = "sign")
          PROVE  view'[j].payload.signed # None
        <3>1. CASE j # k
            BY <2>1, <2>9, <3>1 DEF Keys
        <3>2. CASE j = k
            <4>1. /\ view'[j].payload = Apply(view[j].payload, exec[t].event)
                  /\ view[j].payload \in RequestState
                BY <1>t, <2>1, <2>9, <3>2 DEF TypeOK, Row, State
            <4>2. pc[t] \in {"create", "sign"}
                BY <1>t, <2>1, <2>9, <3>2, KeyType DEF Commands
            <4>3. CASE pc[t] = "create"
                BY <1>e, <2>1, <2>9, <4>1, <4>3 DEF Apply, RequestState
            <4>4. CASE pc[t] = "sign"
                BY <1>e, <2>1, <4>1, <4>4 DEF Apply, RequestState, RowsInv, SignsSomething
            <4> QED
                BY <4>2, <4>3, <4>4
        <3> QED
            BY <3>1, <3>2
    <2>10. SignedRows'
        <3>1. \A j \in Ids : view'[j].version = 0 => view'[j].payload.signed = None
            BY <2>1 DEF RowsInv, SignedRows, Keys
        <3>2. ASSUME NEW u \in Tasks, pc'[u] = "read", req'[u].id \notin disturbed
              PROVE  view'[req'[u].id].payload.signed # None
            <4>1. CASE u = t
                <5>1. req'[u].id = k /\ pc[t] = "sign" /\ k \in Ids
                    BY <1>t, <2>1, <2>2, <2>3, <2>4, <3>2, <4>1, KeyType
                <5> QED
                    BY <2>9, <3>2, <5>1
            <4>2. CASE u # t
                <5>1. /\ pc[u] = "read" /\ req'[u] = req[u] /\ req[u].id \in Ids
                      /\ view[req[u].id].payload.signed # None
                    BY <1>t, <2>3, <2>4, <3>2, <4>2 DEF TypeOK, RowsInv, SignedRows
                <5> QED
                    BY <2>9, <3>2, <5>1
            <4> QED
                BY <4>1, <4>2
        <3>3. \A a \in answered : a[2] \notin disturbed => view'[a[2]].payload.signed # None
            BY <1>t, <2>9 DEF TypeOK, RowsInv, SignedRows
        <3> QED
            BY <2>2, <3>1, <3>2, <3>3 DEF SignedRows
    <2> QED
        BY <2>6, <2>7, <2>8, <2>10 DEF RowsInv
<1>8. ASSUME Crash PROVE RowsInv'
    <2>1. \A t \in Tasks : pc'[t] = "idle" /\ ~Dispatching(t)'
        BY <1>8, NewTypes DEF Crash, Dispatching
    <2>2. Alone' /\ Lagging' /\ SignsSomething'
        BY <2>1 DEF Alone, Lagging, SignsSomething
    <2>3. CASE Store = "postgres"
        <3>1. UNCHANGED <<aggregate, view, answered>> /\ disturbed \subseteq disturbed'
              /\ \A t \in Tasks : Dispatching(t) => Key(t) \in disturbed'
            BY <1>8, <2>3 DEF Crash, store
        <3>2. Current' /\ SignedRows'
            BY <2>1, <3>1 DEF RowsInv, Current, SignedRows
        <3> QED
            BY <2>2, <3>2 DEF RowsInv
    <2>4. CASE Store # "postgres"
        <3>1. \A r \in Ids : aggregate'[r] = NoRow(NewRequest) /\ view'[r] = NoRow(NewRequest)
            BY <1>8, <2>4 DEF Crash, Keys, NewAggregate
        <3>2. answered' = {}
            BY <1>8, <2>4 DEF Crash
        <3>3. Current' /\ SignedRows'
            BY <2>1, <3>1, <3>2 DEF Current, SignedRows, NoRow, NewRequest
        <3> QED
            BY <2>2, <3>3 DEF RowsInv
    <2> QED
        BY <2>3, <2>4
<1>9. CASE UNCHANGED vars
    <2>1. UNCHANGED <<aggregate, view, pc, req, exec, answered, disturbed>>
        BY <1>9 DEF vars, store, history
    <2>2. \A u \in Tasks : Key(u)' = Key(u) /\ Dispatching(u)' = Dispatching(u)
        BY <2>1 DEF Key, Dispatching
    <2> QED
        BY <2>1, <2>2 DEF RowsInv, Alone, Lagging, Current, SignsSomething, SignedRows
<1> QED
    BY <1>1, <1>2, <1>3, <1>4, <1>5, <1>6, <1>7, <1>8, <1>9 DEF Next, Proceed

(* Once a creation was answered, its request_uri serves a signed object,   *)
(* unless dispatches to the request overlapped or a fault hit one, or the  *)
(* in-memory store has forgotten the request in a restart.                 *)
THEOREM PublishedServable == Spec => []PublishedStaysServable
<1>1. TypeInv /\ RowsInv => PublishedStaysServable
    <2> SUFFICES ASSUME TypeInv, RowsInv, NEW a \in answered, a[2] \notin disturbed
                 PROVE  GetSigned(a[2]) = 200
        BY DEF PublishedStaysServable
    <2>1. a[2] \in Ids
        BY DEF TypeInv, TypeOK
    <2> QED
        BY <2>1 DEF RowsInv, SignedRows, GetSigned
<1> QED
    BY <1>1, TypeInit, TypeStep, ExplainInit, ExplainStep, RowsInit, RowsStep, PTL DEF Spec

-----------------------------------------------------------------------------
(* HTTP requests are numbered: no creation under way has the number of     *)
(* another one, or of one that was answered.                               *)
Numbered ==
    /\ \A t \in Tasks : pc[t] # "idle" => req[t].n <= requests
    /\ \A t, u \in Tasks : t # u /\ pc[t] # "idle" /\ pc[u] # "idle" => req[t].n # req[u].n
    /\ \A a \in answered :
        a[1] <= requests /\ \A t \in Tasks : pc[t] # "idle" => req[t].n # a[1]

(* While the request is that of creation n, the signature is over it. *)
SignedOver(s, n) == s.asked # None /\ s.asked.n = n => s.signed = s.asked

HasSigned(t) == pc[t] = "read" \/ (pc[t] = "sign" /\ Dispatching(t))

SignedGood ==
    Store = "postgres" =>
        /\ \A t \in Tasks : HasSigned(t) => SignedOver(aggregate[req[t].id].payload, req[t].n)
        /\ \A t \in Tasks : pc[t] = "read" /\ req[t].id \notin disturbed
                => SignedOver(view[req[t].id].payload, req[t].n)
        /\ \A a \in answered :
            /\ SignedOver(aggregate[a[2]].payload, a[1])
            /\ a[2] \notin disturbed => SignedOver(view[a[2]].payload, a[1])

AnswerInv == Numbered /\ SignedGood

LEMMA AnswerInit == Init => AnswerInv
BY DEF Init, AnswerInv, Numbered, SignedGood, HasSigned

LEMMA NumberedStep == TypeInv /\ Numbered /\ [Next]_vars => Numbered'
<1> SUFFICES ASSUME TypeInv, Numbered, [Next]_vars PROVE Numbered'
    OBVIOUS
<1>t. TypeOK
    BY DEF TypeInv
<1>r. \A t \in Tasks : req = [req EXCEPT ![t] = req[t]]
    BY <1>t DEF TypeOK
<1>g. \A t \in Tasks : \A where : Goto(t, where) =>
        pc'[t] = where /\ \A u \in Tasks \ {t} : pc'[u] = pc[u]
    BY <1>t DEF Goto, TypeOK
<1>1. ASSUME NEW t \in Tasks, Request(t) PROVE Numbered'
    <2>1. PICK kind \in {"request", "id_token", "vp_token"}, where \in {"create", "find"}, r \in Ids :
            Start(t, kind, where, r)
        BY <1>1 DEF Request, PostRequest, PostRedirect
    <2>2. /\ req'[t].n = requests + 1
          /\ \A u \in Tasks \ {t} : req'[u] = req[u] /\ pc'[u] = pc[u]
          /\ requests' = requests + 1 /\ answered' = answered
        BY <1>g, <1>t, <2>1 DEF Start, TypeOK
    <2>3. requests \in Nat /\ (\A u \in Tasks : req[u].n \in Nat) /\ \A a \in answered : a[1] \in Nat
        BY <1>t DEF TypeOK
    <2>4. \A n \in Nat : n <= requests => n <= requests + 1 /\ n # requests + 1
        BY <2>3
    <2>5. \A u \in Tasks : pc'[u] # "idle" => req'[u].n <= requests'
        BY <2>2, <2>3, <2>4 DEF Numbered
    <2>6. \A u, v \in Tasks : u # v /\ pc'[u] # "idle" /\ pc'[v] # "idle" => req'[u].n # req'[v].n
        BY <2>2, <2>3, <2>4 DEF Numbered
    <2>7. \A a \in answered' : /\ a[1] <= requests'
                              /\ \A u \in Tasks : pc'[u] # "idle" => req'[u].n # a[1]
        BY <2>2, <2>3, <2>4 DEF Numbered
    <2> QED
        BY <2>5, <2>6, <2>7 DEF Numbered
<1>2. ASSUME NEW t \in Tasks, Answer(t, 201) \/ Answer(t, 500) \/ Answer(t, 200) \/ Cancel(t),
             UNCHANGED requests, pc[t] # "idle"
      PROVE Numbered'
    <2>1. /\ pc'[t] = "idle"
          /\ \A u \in Tasks \ {t} : req'[u] = req[u] /\ pc'[u] = pc[u]
          /\ answered' \subseteq answered \union {<<req[t].n, req[t].id>>}
        BY <1>2, <1>g, <1>t DEF Answer, Cancel, TypeOK
    <2> QED
        BY <1>2, <2>1 DEF Numbered
<1>3. ASSUME NEW t \in Tasks, NEW where, Goto(t, where), UNCHANGED <<requests, answered>>,
             req' = [req EXCEPT ![t] = req[t]] \/ \E d : req' = [req EXCEPT ![t].client = d],
             pc[t] # "idle"
      PROVE Numbered'
    <2>1. /\ \A u \in Tasks \ {t} : req'[u] = req[u] /\ pc'[u] = pc[u]
          /\ req'[t].n = req[t].n
        BY <1>3, <1>g, <1>t DEF TypeOK
    <2>2. \A u \in Tasks : req'[u].n = req[u].n /\ (pc'[u] # "idle" => pc[u] # "idle")
        BY <1>3, <2>1
    <2> QED
        BY <1>3, <2>2 DEF Numbered
<1>4. ASSUME NEW t \in Tasks, FindRequest(t) PROVE Numbered'
    <2>1. UNCHANGED requests /\ pc[t] # "idle"
        BY <1>4 DEF FindRequest
    <2>2. CASE view[req[t].id].payload.asked = None
        BY <1>2, <1>4, <2>1, <2>2 DEF FindRequest
    <2>3. CASE view[req[t].id].payload.asked # None
        <3>1. Goto(t, "verify") /\ answered' = answered /\ \E d : req' = [req EXCEPT ![t].client = d]
            BY <1>4, <2>3 DEF FindRequest
        <3> QED
            BY <1>3, <2>1, <3>1
    <2> QED
        BY <2>2, <2>3
<1>5. ASSUME NEW t \in Tasks, Decline(t) \/ Conflict(t) \/ ReadForm(t) \/ Cancel(t)
      PROVE Numbered'
    <2>1. UNCHANGED requests /\ pc[t] # "idle"
        BY <1>5 DEF Decline, Conflict, ReadForm, Cancel, At, Commands
    <2>2. Answer(t, 201) \/ Answer(t, 500) \/ Answer(t, 200) \/ Cancel(t)
        BY <1>5 DEF Decline, Conflict, ReadForm
    <2> QED
        BY <1>2, <2>1, <2>2
<1>6. ASSUME NEW t \in Tasks, StoreView(t) \/ ViewUpdateFails(t) PROVE Numbered'
    <2>1. Continue(t) /\ UNCHANGED requests /\ pc[t] # "idle"
        BY <1>6 DEF StoreView, ViewUpdateFails, At, Commands
    <2>2. CASE Answer(t, 200)
        BY <1>2, <2>1, <2>2
    <2>3. CASE ~Answer(t, 200)
        <3>1. PICK where \in {"sign", "read"} : Goto(t, where) /\ UNCHANGED <<req, answered>>
            BY <2>1, <2>3 DEF Continue
        <3> QED
            BY <1>3, <1>r, <2>1, <3>1
    <2> QED
        BY <2>2, <2>3
<1>7. ASSUME UNCHANGED <<pc, req, requests, answered>> PROVE Numbered'
    BY <1>7 DEF Numbered
<1>8. ASSUME NEW t \in Tasks, Load(t) \/ LoadView(t) \/ Commit(t) PROVE Numbered'
    BY <1>7, <1>8 DEF Load, LoadView, Commit, history
<1>9. CASE Crash
    BY <1>9 DEF Crash, Numbered
<1>10. CASE UNCHANGED vars
    BY <1>7, <1>10 DEF vars, history
<1> QED
    BY <1>1, <1>4, <1>5, <1>6, <1>8, <1>9, <1>10 DEF Next, Proceed

(* A step that changes no store keeps signatures good for the creations    *)
(* that had them.                                                          *)
LEMMA MoveGood ==
    ASSUME TypeInv, SignedGood, NEW t \in Tasks, NEW where, NEW r, Goto(t, where),
           req' = [req EXCEPT ![t] = r], UNCHANGED <<aggregate, view>>,
           disturbed \subseteq disturbed',
           where = "read" => HasSigned(t) /\ r = req[t] /\ r.id \in disturbed',
           \A a \in answered' \ answered : pc[t] = "read" /\ a = <<req[t].n, req[t].id>>
    PROVE  SignedGood'
<1>1. req'[t] = r /\ \A u \in Tasks \ {t} : req'[u] = req[u]
    BY DEF TypeInv, TypeOK
<1>2. /\ pc'[t] = where /\ ~Dispatching(t)'
      /\ \A u \in Tasks \ {t} : pc'[u] = pc[u] /\ exec'[u] = exec[u]
    BY <1>1, GotoExec DEF TypeInv, TypeOK
<1>3. \A u \in Tasks \ {t} : HasSigned(u)' = HasSigned(u)
    BY <1>2 DEF HasSigned, Dispatching
<1>4. HasSigned(t)' => where = "read"
    BY <1>2 DEF HasSigned
<1> SUFFICES ASSUME Store = "postgres" PROVE SignedGood'
    BY DEF SignedGood
<1>0. aggregate' = aggregate /\ view' = view
    OBVIOUS
<1>5. \A u \in Tasks : HasSigned(u)' => SignedOver(aggregate'[req'[u].id].payload, req'[u].n)
    BY <1>0, <1>1, <1>3, <1>4 DEF SignedGood
<1>6. \A u \in Tasks : pc'[u] = "read" /\ req'[u].id \notin disturbed'
            => SignedOver(view'[req'[u].id].payload, req'[u].n)
    BY <1>0, <1>1, <1>2 DEF SignedGood
<1>7. \A a \in answered' : /\ SignedOver(aggregate'[a[2]].payload, a[1])
                          /\ a[2] \notin disturbed' => SignedOver(view'[a[2]].payload, a[1])
    BY <1>0 DEF SignedGood, HasSigned
<1> QED
    BY <1>5, <1>6, <1>7 DEF SignedGood, SignedOver, HasSigned, Dispatching

LEMMA SignedGoodStep ==
    TypeInv /\ SeenOK /\ RowsInv /\ AnswerInv /\ [Next]_vars => SignedGood'
<1> SUFFICES ASSUME TypeInv, SeenOK, RowsInv, AnswerInv, [Next]_vars, Store = "postgres"
             PROVE  SignedGood'
    BY DEF SignedGood
<1>t. TypeOK /\ ExecOK
    BY DEF TypeInv
<1>g. SignedGood
    BY DEF AnswerInv
<1>r. \A t \in Tasks : req = [req EXCEPT ![t] = req[t]]
    BY <1>t DEF TypeOK
<1>h. \A t \in Tasks : HasSigned(t) => pc[t] # "idle" /\ req[t].id \in Ids
    BY <1>t DEF HasSigned, TypeOK
<1>1. ASSUME NEW t \in Tasks, Request(t) PROVE SignedGood'
    <2>1. PICK kind \in {"request", "id_token", "vp_token"}, where \in {"create", "find"}, r \in Ids :
            Start(t, kind, where, r)
        BY <1>1 DEF Request, PostRequest, PostRedirect
    <2> DEFINE q == [kind |-> kind, n |-> requests + 1, id |-> r, client |-> None]
    <2>2. Goto(t, where) /\ req' = [req EXCEPT ![t] = q]
          /\ UNCHANGED <<aggregate, view, answered, disturbed>>
        BY <2>1 DEF Start, store
    <2> HIDE DEF q
    <2> QED
        BY <1>g, <2>2, MoveGood
<1>2. ASSUME NEW t \in Tasks, FindRequest(t) PROVE SignedGood'
    <2>1. PICK where \in {"idle", "verify"},
                r \in {NoRequest, [req[t] EXCEPT !.client = view[req[t].id].payload.asked.client]} :
            Goto(t, where) /\ req' = [req EXCEPT ![t] = r]
        <3>1. CASE view[req[t].id].payload.asked = None
            BY <1>2, <3>1 DEF FindRequest, Answer
        <3>2. CASE view[req[t].id].payload.asked # None
            BY <1>2, <1>t, <3>2 DEF FindRequest, TypeOK
        <3> QED
            BY <3>1, <3>2
    <2>2. UNCHANGED <<aggregate, view, answered, disturbed>>
        BY <1>2 DEF FindRequest, Answer, store
    <2> QED
        BY <1>g, <2>1, <2>2, MoveGood
<1>3. ASSUME NEW t \in Tasks, Decline(t) \/ Conflict(t) \/ ReadForm(t) \/ Cancel(t)
      PROVE SignedGood'
    <2>1. Goto(t, "idle") /\ req' = [req EXCEPT ![t] = NoRequest]
          /\ UNCHANGED <<aggregate, view>> /\ disturbed \subseteq disturbed'
        BY <1>3 DEF Decline, Conflict, ReadForm, Cancel, Answer, store
    <2>2. \A a \in answered' \ answered : pc[t] = "read" /\ a = <<req[t].n, req[t].id>>
        BY <1>3 DEF Decline, Conflict, ReadForm, Cancel, Answer
    <2> QED
        BY <1>g, <2>1, <2>2, MoveGood
<1>4. ASSUME NEW t \in Tasks, ViewUpdateFails(t) PROVE SignedGood'
    <2>1. PICK where \in {"idle", "read", "sign"}, r \in {NoRequest, req[t]} :
            /\ Goto(t, where) /\ req' = [req EXCEPT ![t] = r]
            /\ where = "read" => pc[t] = "sign" /\ r = req[t]
            /\ answered' = answered
        BY <1>4, <1>r DEF ViewUpdateFails, Continue, Answer
    <2>2. /\ UNCHANGED <<aggregate, view>> /\ Dispatching(t)
          /\ disturbed \subseteq disturbed' /\ Key(t) \in disturbed'
        BY <1>4 DEF ViewUpdateFails, store
    <2>3. where = "read" => HasSigned(t) /\ r.id \in disturbed'
        BY <2>1, <2>2 DEF Key, HasSigned
    <2> QED
        BY <1>g, <2>1, <2>2, <2>3, MoveGood
<1>5. ASSUME NEW t \in Tasks, Load(t) \/ LoadView(t) PROVE SignedGood'
    <2>1. UNCHANGED <<aggregate, view, pc, req, answered, disturbed>>
        BY <1>5 DEF Load, LoadView, store, history
    <2>2. \A u \in Tasks : Dispatching(u)' = Dispatching(u)
        BY <1>5, <1>t DEF Load, LoadView, At, ExecOK, Execs, Dispatching
    <2>3. \A u \in Tasks : HasSigned(u)' = HasSigned(u)
        BY <2>1, <2>2 DEF HasSigned
    <2> QED
        BY <1>g, <2>1, <2>3 DEF SignedGood
<1>6. ASSUME NEW t \in Tasks, Commit(t) PROVE SignedGood'
    <2> DEFINE k == Key(t)
    <2>1. /\ pc[t] \in Commands /\ exec[t].phase = "commit"
          /\ exec[t].seen.version = aggregate[k].version
          /\ aggregate' = [aggregate EXCEPT ![k] =
                [version |-> @.version + 1, payload |-> Apply(@.payload, Emitted(t))]]
          /\ exec' = [exec EXCEPT ![t].event = Emitted(t), ![t].phase = "view"]
          /\ disturbed \subseteq disturbed'
          /\ UNCHANGED <<view, pc, req, answered>>
        BY <1>6 DEF Commit, At, Stale
    <2>2. /\ k \in Keys /\ exec[t].seen = aggregate[k] /\ aggregate[k] \in Row(State(k))
          /\ pc[t] = "verify" => k \notin Ids
        BY <1>t, <2>1, KeyType DEF SeenOK, TypeOK
    <2>3. \A u \in Tasks \ {t} : HasSigned(u)' = HasSigned(u)
        BY <1>t, <2>1 DEF HasSigned, Dispatching, ExecOK
    <2> HIDE DEF k
    <2>4. /\ aggregate'[k].payload = Apply(aggregate[k].payload, Emitted(t))
          /\ \A j \in Keys \ {k} : aggregate'[j] = aggregate[j]
        BY <1>t, <2>1, <2>2 DEF TypeOK
    <2>5. ASSUME NEW j \in Ids, NEW n \in Nat,
                 \/ SignedOver(aggregate[j].payload, n) /\ (pc[t] = "create" => n # req[t].n)
                 \/ j = k /\ pc[t] = "sign"
          PROVE  SignedOver(aggregate'[j].payload, n)
        <3>1. CASE j # k
            BY <2>4, <2>5, <3>1 DEF Keys
        <3>2. CASE j = k
            <4>1. aggregate[k].payload \in RequestState /\ pc[t] # "verify"
                BY <2>2, <2>5, <3>2 DEF Row, State
            <4>2. CASE pc[t] = "create"
                <5>1. aggregate'[k].payload.asked.n = req[t].n
                    BY <2>4, <4>1, <4>2 DEF Emitted, Event, Ask, Apply, RequestState
                <5> QED
                    BY <2>5, <3>2, <4>2, <5>1 DEF SignedOver
            <4>3. CASE pc[t] = "sign"
                BY <2>2, <2>4, <3>2, <4>1, <4>3 DEF Emitted, Event, Apply, RequestState, SignedOver, k
            <4> QED
                BY <2>1, <4>1, <4>2, <4>3 DEF Commands
        <3> QED
            BY <3>1, <3>2
    <2>6. ASSUME NEW u \in Tasks, HasSigned(u)' PROVE SignedOver(aggregate'[req[u].id].payload, req[u].n)
        <3>1. req[u].id \in Ids /\ req[u].n \in Nat
            BY <1>t, <2>1, <2>6 DEF HasSigned, TypeOK
        <3>2. CASE u = t
            <4>1. pc[t] = "sign" /\ req[u].id = k
                BY <2>1, <2>6, <3>2 DEF HasSigned, Commands, Key, k
            <4> QED
                BY <2>5, <3>1, <4>1
        <3>3. CASE u # t
            <4>1. HasSigned(u)
                BY <2>3, <2>6, <3>3
            <4>2. pc[u] # "idle" /\ pc[t] # "idle"
                BY <1>h, <2>1, <4>1 DEF Commands
            <4>3. req[u].n # req[t].n
                BY <3>3, <4>2 DEF AnswerInv, Numbered
            <4>4. SignedOver(aggregate[req[u].id].payload, req[u].n)
                BY <1>g, <4>1 DEF SignedGood
            <4> QED
                BY <2>5, <3>1, <4>3, <4>4
        <3> QED
            BY <3>2, <3>3
    <2>7. ASSUME NEW a \in answered PROVE SignedOver(aggregate'[a[2]].payload, a[1])
        <3>1. a[1] \in Nat /\ a[2] \in Ids
            BY <1>t DEF TypeOK
        <3>2. a[1] # req[t].n
            BY <2>1 DEF AnswerInv, Numbered, Commands
        <3>3. SignedOver(aggregate[a[2]].payload, a[1])
            BY <1>g DEF SignedGood
        <3> QED
            BY <2>5, <3>1, <3>2, <3>3
    <2> QED
        BY <1>g, <2>1, <2>6, <2>7 DEF SignedGood
<1>7. ASSUME NEW t \in Tasks, StoreView(t) PROVE SignedGood'
    <2> DEFINE k == Key(t)
    <2>1. /\ k \in Keys /\ Dispatching(t) /\ pc[t] \in Commands
          /\ \A j \in Keys \ {k} : view'[j] = view[j]
          /\ k \in Ids \ disturbed => view'[k].payload = aggregate[k].payload
        BY <1>7, StoreCurrent
    <2>2. PICK where \in {"idle", "read", "sign"}, r \in {NoRequest, req[t]} :
            /\ Goto(t, where) /\ req' = [req EXCEPT ![t] = r]
            /\ where = "read" => pc[t] = "sign" /\ r = req[t]
            /\ UNCHANGED <<aggregate, answered, disturbed>>
        BY <1>7, <1>r DEF StoreView, Continue, Answer
    <2>3. req'[t] = r /\ \A u \in Tasks \ {t} : req'[u] = req[u]
        BY <1>t, <2>2 DEF TypeOK
    <2>4. /\ pc'[t] = where /\ ~Dispatching(t)'
          /\ \A u \in Tasks \ {t} : pc'[u] = pc[u] /\ exec'[u] = exec[u]
        BY <1>t, <2>2, <2>3, GotoExec DEF TypeOK
    <2>5. \A u \in Tasks : HasSigned(u)' => HasSigned(u) /\ req'[u] = req[u]
        <3>1. \A u \in Tasks \ {t} : HasSigned(u)' = HasSigned(u)
            BY <2>4 DEF HasSigned, Dispatching
        <3>2. HasSigned(t)' => HasSigned(t) /\ req'[t] = req[t]
            BY <2>1, <2>2, <2>3, <2>4 DEF HasSigned
        <3> QED
            BY <2>3, <3>1, <3>2
    <2>6. ASSUME NEW j \in Ids \ disturbed, NEW n,
                 SignedOver(aggregate[j].payload, n), j # k => SignedOver(view[j].payload, n)
          PROVE  SignedOver(view'[j].payload, n)
        BY <2>1, <2>6 DEF Keys
    <2>7. ASSUME NEW u \in Tasks, pc'[u] = "read", req'[u].id \notin disturbed
          PROVE  SignedOver(view'[req'[u].id].payload, req'[u].n)
        <3>1. HasSigned(u) /\ req'[u] = req[u] /\ req[u].id \in Ids
            BY <1>h, <2>5, <2>7 DEF HasSigned
        <3>2. SignedOver(aggregate[req[u].id].payload, req[u].n)
            BY <1>g, <3>1 DEF SignedGood
        <3>3. req[u].id # k => SignedOver(view[req[u].id].payload, req[u].n)
            <4>1. CASE u = t
                BY <2>2, <2>4, <2>7, <4>1 DEF Key
            <4>2. CASE u # t
                BY <1>g, <2>4, <2>7, <3>1, <4>2 DEF SignedGood
            <4> QED
                BY <4>1, <4>2
        <3> QED
            BY <2>6, <2>7, <3>1, <3>2, <3>3
    <2>8. ASSUME NEW a \in answered, a[2] \notin disturbed PROVE SignedOver(view'[a[2]].payload, a[1])
        <3>1. a[2] \in Ids
            BY <1>t DEF TypeOK
        <3> QED
            BY <1>g, <2>6, <2>8, <3>1 DEF SignedGood
    <2> QED
        BY <1>g, <2>2, <2>5, <2>7, <2>8 DEF SignedGood
<1>8. CASE Crash
    <2>1. /\ \A t \in Tasks : pc'[t] = "idle"
          /\ UNCHANGED <<aggregate, view, answered>> /\ disturbed \subseteq disturbed'
        BY <1>8 DEF Crash, store
    <2> QED
        BY <1>g, <2>1 DEF SignedGood, HasSigned
<1>9. CASE UNCHANGED vars
    <2>1. UNCHANGED <<aggregate, view, pc, req, exec, answered, disturbed>>
        BY <1>9 DEF vars, store, history
    <2> QED
        BY <1>g, <2>1 DEF SignedGood, HasSigned, Dispatching
<1> QED
    BY <1>1, <1>2, <1>3, <1>4, <1>5, <1>6, <1>7, <1>8, <1>9 DEF Next, Proceed

(* On Postgres the object served is that of the request that is stored, if *)
(* the creation of that request was answered and no dispatch to it was     *)
(* disturbed.                                                              *)
THEOREM AnswersCurrent == Spec => []AnsweredIsCurrent
<1> DEFINE ServedInv == TypeInv /\ ExplainInv /\ SeenOK /\ RowsInv /\ AnswerInv
<1>1. Init => ServedInv
    BY TypeInit, ExplainInit, SeenInit, RowsInit, AnswerInit
<1>2. ServedInv /\ [Next]_vars => ServedInv'
    BY TypeStep, ExplainStep, SeenStep, RowsStep, NumberedStep, SignedGoodStep DEF AnswerInv
<1>3. ServedInv => AnsweredIsCurrent
    BY DEF AnswerInv, SignedGood, SignedOver, AnsweredIsCurrent
<1> QED
    BY <1>1, <1>2, <1>3, PTL DEF Spec
=============================================================================
