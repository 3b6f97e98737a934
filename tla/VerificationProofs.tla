------------------------- MODULE VerificationProofs -------------------------
(***************************************************************************)
(* Proofs about the verifier: type correctness, where the contents of the  *)
(* shared connection come from, and what a signature is over.              *)
(***************************************************************************)
EXTENDS Verification, TLAPS

RequestEvents ==
    [type : {"AuthorizationRequestCreated", "AuthorizationRequestObjectSigned"}, arg : Asks]
ConnectionEvents ==
    [type : {"SIOPv2AuthorizationResponseVerified", "OID4VPAuthorizationResponseVerified"},
     arg : [n : Nat, state : Ids]]
EventsOf(k) == IF k \in Ids THEN RequestEvents ELSE ConnectionEvents

AnyRow == Row(RequestState) \union Row(ConnectionState)
Execs == [phase : {"load", "commit", "view", "view_store"}, seen : AnyRow \union {None},
          event : RequestEvents \union ConnectionEvents \union {None},
          copy : AnyRow \union {None}]

(* A command has what its phase works with, of its aggregate's kind. *)
ExecOK ==
    /\ exec \in [Tasks -> Execs]
    /\ \A t \in Tasks : exec[t].phase # "load" =>
        /\ pc[t] \in Commands
        /\ exec[t].phase = "commit" => exec[t].seen \in Row(State(Key(t)))
        /\ Dispatching(t) => exec[t].event \in EventsOf(Key(t))
        /\ exec[t].phase = "view_store" => exec[t].copy \in Row(State(Key(t)))

TypeInv == TypeOK /\ ExecOK

LEMMA KeyType ==
    ASSUME TypeOK, NEW t \in Tasks, pc[t] \in Commands
    PROVE  /\ Key(t) \in Keys
           /\ pc[t] = "verify" => Key(t) = req[t].client /\ Key(t) \in Dids /\ Key(t) \notin Ids
           /\ pc[t] # "verify" => Key(t) = req[t].id /\ Key(t) \in Ids
           /\ req[t].id \in Ids
BY VerificationNames DEF TypeOK, Commands, Key, Keys

LEMMA ApplyType ==
    ASSUME NEW k \in Keys, NEW s \in State(k), NEW e \in EventsOf(k)
    PROVE  Apply(s, e) \in State(k)
<1>1. CASE k \in Ids
    BY <1>1 DEF State, EventsOf, RequestEvents, RequestState, Apply
<1>2. CASE k \notin Ids
    BY <1>2 DEF State, EventsOf, ConnectionEvents, ConnectionState, Apply
<1> QED
    BY <1>1, <1>2

LEMMA UpdateViewType ==
    ASSUME NEW S, NEW row \in Row(S), NEW copy \in Row(S), NEW p \in S
    PROVE  UpdateView(row, copy, p) \in Row(S)
BY DEF UpdateView, Row

LEMMA NewTypes ==
    /\ NewExec \in Execs
    /\ NewExec.phase = "load"
    /\ \A k \in Keys : NoRow(NewAggregate(k)) \in Row(State(k))
BY DEF NewExec, Execs, NoRow, Row, NewAggregate, State, NewRequest, NewConnection,
       RequestState, ConnectionState

LEMMA TypeInit == Init => TypeInv
<1> SUFFICES ASSUME Init PROVE TypeInv
    OBVIOUS
<1>1. /\ \A k \in Keys : aggregate[k] \in Row(State(k)) /\ view[k] \in Row(State(k))
      /\ aggregate \in [Keys -> AnyRow] /\ view \in [Keys -> AnyRow]
    <2>1. \A k \in Keys : aggregate[k] \in Row(State(k)) /\ view[k] \in Row(State(k))
        BY NewTypes DEF Init
    <2> QED
        BY <2>1 DEF Init, AnyRow, State
<1>2. TypeOK
    BY <1>1, VerificationBounds DEF Init, TypeOK, NoRequest, AnyRow
<1>3. ExecOK
    BY NewTypes DEF Init, ExecOK, Dispatching
<1> QED
    BY <1>2, <1>3 DEF TypeInv

(* A handler that leaves its command behind is left with an empty one. *)
LEMMA GotoExec ==
    ASSUME TypeInv, NEW t \in Tasks, NEW where, Goto(t, where),
           \A u \in Tasks \ {t} : req'[u] = req[u]
    PROVE  /\ ExecOK'
           /\ pc' = [pc EXCEPT ![t] = where]
           /\ exec'[t] = NewExec /\ ~Dispatching(t)'
           /\ \A u \in Tasks \ {t} : pc'[u] = pc[u] /\ exec'[u] = exec[u]
<1>1. /\ pc' = [pc EXCEPT ![t] = where]
      /\ exec'[t] = NewExec
      /\ exec' \in [Tasks -> Execs]
      /\ \A u \in Tasks \ {t} : pc'[u] = pc[u] /\ exec'[u] = exec[u]
    BY NewTypes DEF Goto, TypeInv, TypeOK, ExecOK
<1>2. exec'[t].phase = "load"
    BY <1>1, NewTypes
<1>3. \A u \in Tasks \ {t} : Key(u)' = Key(u) /\ Dispatching(u)' = Dispatching(u)
    BY <1>1 DEF Key, Dispatching
<1>4. ExecOK'
    <2> SUFFICES ASSUME NEW u \in Tasks, exec'[u].phase # "load"
                 PROVE  /\ pc'[u] \in Commands
                        /\ exec'[u].phase = "commit" => exec'[u].seen \in Row(State(Key(u)'))
                        /\ Dispatching(u)' => exec'[u].event \in EventsOf(Key(u)')
                        /\ exec'[u].phase = "view_store" => exec'[u].copy \in Row(State(Key(u)'))
        BY <1>1 DEF ExecOK, State, EventsOf
    <2>1. u # t
        BY <1>2
    <2> QED
        BY <1>1, <1>3, <2>1 DEF TypeInv, ExecOK
<1> QED
    BY <1>1, <1>2, <1>4 DEF Dispatching

Requests == [kind : {None, "request", "id_token", "vp_token"}, n : Nat,
             id : Ids \union {None}, client : Dids \union {None}]

(* A step that only moves t on and may set its locals. *)
LEMMA MoveType ==
    ASSUME TypeInv, NEW t \in Tasks, NEW where \in {"idle", "find", "read"} \union Commands,
           NEW r \in Requests, Goto(t, where), req' = [req EXCEPT ![t] = r],
           where # "idle" => r.id \in Ids, where = "verify" => r.client \in Dids
    PROVE  /\ ExecOK'
           /\ pc' \in [Tasks -> {"idle", "find", "read"} \union Commands]
           /\ req' \in [Tasks -> Requests]
           /\ \A u \in Tasks : /\ pc'[u] # "idle" => req'[u].id \in Ids
                               /\ pc'[u] = "verify" => req'[u].client \in Dids
<1>1. \A u \in Tasks \ {t} : req'[u] = req[u]
    BY DEF TypeInv, TypeOK
<1>2. ExecOK' /\ pc' = [pc EXCEPT ![t] = where]
    BY <1>1, GotoExec
<1>3. req' \in [Tasks -> Requests] /\ req'[t] = r
    BY DEF TypeInv, TypeOK, Requests
<1> QED
    BY <1>1, <1>2, <1>3 DEF TypeInv, TypeOK

LEMMA TypeStep == TypeInv /\ [Next]_vars => TypeInv'
<1> SUFFICES ASSUME TypeInv, [Next]_vars PROVE TypeInv'
    OBVIOUS
<1>t. TypeOK /\ ExecOK
    BY DEF TypeInv
<1>r. \A t \in Tasks : req[t] \in Requests
    BY <1>t DEF TypeOK, Requests
<1>n. NoRequest \in Requests
    BY DEF NoRequest, Requests
<1>1. ASSUME NEW t \in Tasks, Request(t) PROVE TypeInv'
    <2>1. PICK kind \in {"request", "id_token", "vp_token"}, where \in {"create", "find"}, r \in Ids :
            Start(t, kind, where, r) /\ posted' \in {posted, posted \union {<<requests + 1, r>>}}
        BY <1>1 DEF Request, PostRequest, PostRedirect
    <2>2. [kind |-> kind, n |-> requests + 1, id |-> r, client |-> None] \in Requests
        BY <1>t DEF Requests, TypeOK
    <2>3. /\ ExecOK'
          /\ pc' \in [Tasks -> {"idle", "find", "read"} \union Commands]
          /\ req' \in [Tasks -> Requests]
          /\ \A u \in Tasks : /\ pc'[u] # "idle" => req'[u].id \in Ids
                              /\ pc'[u] = "verify" => req'[u].client \in Dids
        <3>1. where \in {"idle", "find", "read"} \union Commands /\ where # "verify"
            BY DEF Commands
        <3> QED
            BY <2>1, <2>2, <3>1, MoveType DEF Start
    <2>4. TypeOK'
        BY <1>t, <2>1, <2>3 DEF Start, TypeOK, store, Requests
    <2> QED
        BY <2>3, <2>4 DEF TypeInv
<1>2. ASSUME NEW t \in Tasks, NEW where \in {"idle", "read", "sign", "verify"}, NEW r \in Requests,
             Goto(t, where), req' = [req EXCEPT ![t] = r], pc[t] # "idle",
             where # "idle" => r.id \in Ids, where = "verify" => r.client \in Dids,
             view' \in [Keys -> AnyRow], \A k \in Keys : view'[k] \in Row(State(k)),
             answered' \subseteq Nat \X Ids, disturbed' \subseteq Keys, faults' \in Nat,
             UNCHANGED <<did, aggregate, requests, asked, posted>>
      PROVE TypeInv'
    <2>1. /\ ExecOK'
          /\ pc' \in [Tasks -> {"idle", "find", "read"} \union Commands]
          /\ req' \in [Tasks -> Requests]
          /\ \A u \in Tasks : /\ pc'[u] # "idle" => req'[u].id \in Ids
                              /\ pc'[u] = "verify" => req'[u].client \in Dids
        <3>1. where \in {"idle", "find", "read"} \union Commands
            BY DEF Commands
        <3> QED
            BY <1>2, <3>1, MoveType
    <2>2. TypeOK'
        BY <1>t, <1>2, <2>1 DEF TypeOK, Requests, AnyRow
    <2> QED
        BY <2>1, <2>2 DEF TypeInv
<1>v. view \in [Keys -> AnyRow] /\ \A k \in Keys : view[k] \in Row(State(k))
    BY <1>t DEF TypeOK, AnyRow
<1>a. ASSUME NEW t \in Tasks, pc[t] # "idle",
             answered' \in {answered, answered \union {<<req[t].n, req[t].id>>}}
      PROVE answered' \subseteq Nat \X Ids
    BY <1>t, <1>a DEF TypeOK
<1>3. ASSUME NEW t \in Tasks, Decline(t) \/ Conflict(t) \/ ReadForm(t) \/ Cancel(t)
      PROVE TypeInv'
    <2>1. /\ Goto(t, "idle") /\ req' = [req EXCEPT ![t] = NoRequest] /\ pc[t] # "idle"
          /\ answered' \in {answered, answered \union {<<req[t].n, req[t].id>>}}
          /\ view' = view /\ faults' \in Nat
          /\ UNCHANGED <<did, aggregate, requests, asked, posted>>
        BY <1>t, <1>3 DEF Decline, Conflict, ReadForm, Cancel, Answer, At, Commands, store, TypeOK
    <2>2. disturbed' \subseteq Keys
        <3>1. Dispatching(t) => Key(t) \in Keys
            BY <1>t, KeyType DEF Dispatching, ExecOK
        <3> QED
            BY <1>t, <1>3, <3>1 DEF Decline, Conflict, ReadForm, Cancel, TypeOK
    <2> QED
        BY <1>2, <1>a, <1>n, <1>v, <2>1, <2>2
<1>4. ASSUME NEW t \in Tasks, FindRequest(t) PROVE TypeInv'
    <2> DEFINE found == view[req[t].id].payload.asked
    <2>1. pc[t] = "find" /\ req[t].id \in Ids /\ view' = view
          /\ UNCHANGED <<did, aggregate, requests, faults, asked, posted, disturbed>>
        BY <1>t, <1>4 DEF FindRequest, TypeOK, store
    <2>2. CASE found = None
        BY <1>2, <1>4, <1>n, <1>t, <1>v, <2>1, <2>2 DEF FindRequest, Answer, TypeOK
    <2>3. CASE found # None
        <3>1. found.client \in Dids
            BY <1>t, <2>1, <2>3 DEF TypeOK, Row, State, RequestState, Asks, Keys
        <3>2. [req[t] EXCEPT !.client = found.client] \in Requests
            BY <1>r, <3>1 DEF Requests
        <3>3. /\ req' = [req EXCEPT ![t] = [req[t] EXCEPT !.client = found.client]]
              /\ Goto(t, "verify") /\ answered' = answered
            BY <1>4, <1>t, <2>3 DEF FindRequest, TypeOK
        <3>4. [req[t] EXCEPT !.client = found.client].client \in Dids
              /\ [req[t] EXCEPT !.client = found.client].id \in Ids
            BY <1>r, <2>1, <3>1 DEF Requests
        <3> QED
            BY <1>2, <1>t, <1>v, <2>1, <3>2, <3>3, <3>4 DEF TypeOK
    <2> QED
        BY <2>2, <2>3
<1>5. ASSUME NEW t \in Tasks, Load(t) \/ LoadView(t) PROVE TypeInv'
    <2>1. /\ pc[t] \in Commands /\ Key(t) \in Keys
          /\ UNCHANGED <<did, aggregate, view, pc, req, requests, faults, asked, posted,
                         answered, disturbed>>
        BY <1>5, <1>t, KeyType DEF Load, LoadView, At, store, history
    <2>2. TypeOK'
        BY <1>t, <2>1 DEF TypeOK
    <2>3. \A u \in Tasks : Key(u)' = Key(u)
        BY <2>1 DEF Key
    <2>4. CASE Load(t)
        <3>1. /\ exec' = [exec EXCEPT ![t].seen = aggregate[Key(t)], ![t].phase = "commit"]
              /\ aggregate[Key(t)] \in AnyRow /\ aggregate[Key(t)] \in Row(State(Key(t)))
            BY <1>t, <2>1, <2>4 DEF Load, TypeOK, AnyRow
        <3>2. exec' \in [Tasks -> Execs] /\ exec'[t].phase = "commit"
              /\ exec'[t].seen = aggregate[Key(t)]
              /\ \A u \in Tasks \ {t} : exec'[u] = exec[u]
            BY <1>t, <3>1 DEF ExecOK, Execs
        <3> QED
            BY <1>t, <2>1, <2>2, <2>3, <3>1, <3>2 DEF TypeInv, ExecOK, Dispatching, State, EventsOf
    <2>5. CASE LoadView(t)
        <3>1. /\ exec' = [exec EXCEPT ![t].copy = view[Key(t)], ![t].phase = "view_store"]
              /\ exec[t].phase = "view"
              /\ view[Key(t)] \in AnyRow /\ view[Key(t)] \in Row(State(Key(t)))
            BY <1>v, <2>1, <2>5 DEF LoadView, At
        <3>2. exec' \in [Tasks -> Execs] /\ exec'[t].phase = "view_store"
              /\ exec'[t].copy = view[Key(t)] /\ exec'[t].event = exec[t].event
              /\ \A u \in Tasks \ {t} : exec'[u] = exec[u]
            BY <1>t, <3>1 DEF ExecOK, Execs
        <3> QED
            BY <1>t, <2>1, <2>2, <2>3, <3>1, <3>2 DEF TypeInv, ExecOK, Dispatching, State, EventsOf
    <2> QED
        BY <1>5, <2>4, <2>5
<1>6. ASSUME NEW t \in Tasks, Commit(t) PROVE TypeInv'
    <2> DEFINE k == Key(t)
               e == Emitted(t)
    <2>1. /\ pc[t] \in Commands /\ exec[t].phase = "commit" /\ ~MissingRequest(t)
          /\ aggregate' = [aggregate EXCEPT ![k] =
                [version |-> @.version + 1, payload |-> Apply(@.payload, e)]]
          /\ exec' = [exec EXCEPT ![t].event = e, ![t].phase = "view"]
          /\ asked' \in {asked, asked \union {[n |-> req[t].n, id |-> k, client |-> did]}}
          /\ pc[t] # "create" => asked' = asked
          /\ disturbed' \in {disturbed, disturbed \union {k}}
          /\ UNCHANGED <<did, view, pc, req, requests, faults, posted, answered>>
        BY <1>6 DEF Commit, At
    <2>2. /\ k \in Keys /\ req[t].id \in Ids
          /\ pc[t] # "verify" => k \in Ids
          /\ pc[t] = "verify" => k \notin Ids
        BY <1>t, <2>1, KeyType
    <2>3. e \in EventsOf(k)
        <3>1. CASE pc[t] = "create"
            BY <1>r, <1>t, <2>2, <3>1
            DEF Emitted, Event, Ask, EventsOf, RequestEvents, Asks, Requests, TypeOK
        <3>2. CASE pc[t] = "sign"
            <4>1. exec[t].seen \in Row(RequestState)
                BY <1>t, <2>1, <2>2, <3>2 DEF ExecOK, State
            <4>2. exec[t].seen.payload.asked \in Asks
                BY <2>1, <3>2, <4>1 DEF MissingRequest, Row, RequestState
            <4> QED
                BY <2>2, <3>2, <4>2 DEF Emitted, Event, EventsOf, RequestEvents
        <3>3. CASE pc[t] = "verify"
            <4>1. Response(req[t].n, req[t].id) \in [n : Nat, state : Ids]
                BY <1>r, <2>2 DEF Response, Requests
            <4> QED
                BY <2>2, <3>3, <4>1 DEF Emitted, Event, EventsOf, ConnectionEvents
        <3> QED
            BY <2>1, <3>1, <3>2, <3>3 DEF Commands
    <2>4. aggregate[k] \in Row(State(k))
        BY <1>t, <2>2 DEF TypeOK
    <2>5. Apply(aggregate[k].payload, e) \in State(k)
        BY <2>2, <2>3, <2>4, ApplyType DEF Row
    <2> HIDE DEF k, e
    <2>6. [version |-> aggregate[k].version + 1, payload |-> Apply(aggregate[k].payload, e)]
            \in Row(State(k))
        BY <2>4, <2>5 DEF Row
    <2>7. /\ \A j \in Keys : aggregate'[j] \in Row(State(j))
          /\ aggregate' \in [Keys -> AnyRow]
        BY <1>t, <2>1, <2>2, <2>6 DEF TypeOK, AnyRow, State
    <2>8. asked' \subseteq [n : Nat, id : Ids, client : Dids]
        BY <1>r, <1>t, <2>1, <2>2 DEF TypeOK, Requests
    <2>9. TypeOK'
        BY <1>t, <2>1, <2>2, <2>7, <2>8 DEF TypeOK, AnyRow
    <2>10. exec' \in [Tasks -> Execs] /\ exec'[t].phase = "view" /\ exec'[t].event = e
           /\ \A u \in Tasks \ {t} : exec'[u] = exec[u]
        BY <1>t, <2>1, <2>3 DEF ExecOK, Execs, EventsOf
    <2>11. \A u \in Tasks : Key(u)' = Key(u)
        BY <2>1 DEF Key
    <2>12. ExecOK'
        <3>1. e \in EventsOf(Key(t))
            BY <2>3 DEF k
        <3> QED
            BY <1>t, <2>1, <2>10, <2>11, <3>1 DEF ExecOK, Dispatching, State, EventsOf
    <2> QED
        BY <2>9, <2>12 DEF TypeInv
<1>7. ASSUME NEW t \in Tasks, StoreView(t) \/ ViewUpdateFails(t) PROVE TypeInv'
    <2>1. PICK where \in {"idle", "read", "sign"}, r \in {NoRequest, req[t]} :
            /\ Goto(t, where) /\ req' = [req EXCEPT ![t] = r]
            /\ where # "idle" => r = req[t]
            /\ answered' = answered
        <3>1. Continue(t)
            BY <1>7 DEF StoreView, ViewUpdateFails
        <3>2. req = [req EXCEPT ![t] = req[t]]
            BY <1>t DEF TypeOK
        <3> QED
            BY <3>1, <3>2 DEF Continue, Answer
    <2>2. pc[t] \in Commands /\ Key(t) \in Keys /\ req[t].id \in Ids
          /\ UNCHANGED <<did, aggregate, requests, asked, posted>>
        BY <1>7, <1>t, KeyType DEF StoreView, ViewUpdateFails, At, store
    <2>3. disturbed' \subseteq Keys /\ faults' \in Nat /\ answered' \subseteq Nat \X Ids
        BY <1>7, <1>t, <2>1, <2>2 DEF StoreView, ViewUpdateFails, TypeOK
    <2>4. view' \in [Keys -> AnyRow] /\ \A k \in Keys : view'[k] \in Row(State(k))
        <3>1. CASE StoreView(t)
            <4>1. /\ exec[t].copy \in Row(State(Key(t)))
                  /\ exec[t].event \in EventsOf(Key(t))
                  /\ view' = [view EXCEPT ![Key(t)] = UpdateView(view[Key(t)], exec[t].copy,
                                Apply(exec[t].copy.payload, exec[t].event))]
                BY <1>t, <3>1 DEF StoreView, At, ExecOK, Dispatching, TypeOK
            <4>2. Apply(exec[t].copy.payload, exec[t].event) \in State(Key(t))
                BY <2>2, <4>1, ApplyType DEF Row
            <4>3. UpdateView(view[Key(t)], exec[t].copy,
                    Apply(exec[t].copy.payload, exec[t].event)) \in Row(State(Key(t)))
                BY <1>v, <2>2, <4>1, <4>2, UpdateViewType
            <4> QED
                BY <1>v, <2>2, <4>1, <4>3 DEF AnyRow, State
        <3>2. CASE ViewUpdateFails(t)
            BY <1>v, <3>2 DEF ViewUpdateFails, store
        <3> QED
            BY <1>7, <3>1, <3>2
    <2>5. pc[t] # "idle"
        BY <2>2 DEF Commands
    <2> QED
        BY <1>2, <1>n, <1>r, <2>1, <2>2, <2>3, <2>4, <2>5
<1>8. ASSUME Crash PROVE TypeInv'
    <2>1. /\ did' \in Dids /\ faults' \in Nat
          /\ pc' = [t \in Tasks |-> "idle"]
          /\ req' = [t \in Tasks |-> NoRequest]
          /\ exec' = [t \in Tasks |-> NewExec]
          /\ answered' \subseteq answered
          /\ UNCHANGED <<requests, asked, posted>>
        BY <1>8, <1>t DEF Crash, TypeOK
    <2>2. disturbed' \subseteq Keys
        <3>1. \A u \in Tasks : Dispatching(u) => Key(u) \in Keys
            BY <1>t, KeyType DEF Dispatching, ExecOK
        <3> QED
            BY <1>8, <1>t, <3>1 DEF Crash, TypeOK
    <2>3. /\ \A k \in Keys : aggregate'[k] \in Row(State(k)) /\ view'[k] \in Row(State(k))
          /\ aggregate' \in [Keys -> AnyRow] /\ view' \in [Keys -> AnyRow]
        <3>1. CASE Store = "postgres"
            BY <1>8, <1>t, <1>v, <3>1 DEF Crash, TypeOK, AnyRow, store
        <3>2. CASE Store # "postgres"
            <4>1. \A k \in Keys : aggregate'[k] \in Row(State(k)) /\ view'[k] \in Row(State(k))
                BY <1>8, <3>2, NewTypes DEF Crash
            <4> QED
                BY <1>8, <3>2, <4>1 DEF Crash, AnyRow, State
        <3> QED
            BY <3>1, <3>2
    <2>4. TypeOK'
        BY <1>n, <1>t, <2>1, <2>2, <2>3 DEF TypeOK, Requests, AnyRow
    <2>5. ExecOK'
        BY <2>1, NewTypes DEF ExecOK, Dispatching
    <2> QED
        BY <2>4, <2>5 DEF TypeInv
<1>9. CASE UNCHANGED vars
    <2>1. UNCHANGED <<did, aggregate, view, pc, req, exec, requests, faults, asked, posted,
                      answered, disturbed>>
        BY <1>9 DEF vars, store, history
    <2>2. TypeOK'
        BY <1>t, <2>1 DEF TypeOK
    <2>3. \A u \in Tasks : Key(u)' = Key(u) /\ Dispatching(u)' = Dispatching(u)
        BY <2>1 DEF Key, Dispatching
    <2> QED
        BY <1>t, <2>1, <2>2, <2>3 DEF ExecOK, TypeInv
<1> QED
    BY <1>1, <1>3, <1>4, <1>5, <1>6, <1>7, <1>8, <1>9 DEF Next, Proceed

(* Every variable keeps its type, and a command always has an aggregate of *)
(* the kind it works on.                                                   *)
THEOREM TypeCorrect == Spec => []TypeOK
<1>1. TypeInv => TypeOK
    BY DEF TypeInv
<1> QED
    BY <1>1, TypeInit, TypeStep, PTL DEF Spec

-----------------------------------------------------------------------------
(* Where the contents of the shared connection come from.  The operators   *)
(* take the posted responses P and the created requests A, which grow.     *)

AskedAs(r, d, A) == \E a \in A : a.id = r /\ a.client = d

By(s, d, P, A) ==
    /\ \A token \in {s.id_token, s.vp_token} \ {0} :
        \E p \in P, a \in A : p = <<token, a.id>> /\ a.client = d
    /\ s.state # None =>
        \E token \in {s.id_token, s.vp_token} : <<token, s.state>> \in P

(* A request's row, as a response finds it, is of a request created under  *)
(* its id.                                                                 *)
Named(s, r, A) == s.asked # None => AskedAs(r, s.asked.client, A)

(* Handler at c, with locals r, executing x: it knows what it will write.  *)
TaskExplained(c, r, x, P, A) ==
    /\ c \in {"find", "verify"} => <<r.n, r.id>> \in P
    /\ c = "verify" => AskedAs(r.id, r.client, A)
    /\ x.phase \in {"view", "view_store"} =>
        /\ c = "create" => x.event.type = "AuthorizationRequestCreated"
                            /\ AskedAs(r.id, x.event.arg.client, A)
        /\ c = "sign" => x.event.type = "AuthorizationRequestObjectSigned"
        /\ c = "verify" => x.event.type \in {"SIOPv2AuthorizationResponseVerified",
                                              "OID4VPAuthorizationResponseVerified"}
                            /\ x.event.arg = Response(r.n, r.id)
    /\ x.phase = "view_store" =>
        /\ c \in {"create", "sign"} => Named(x.copy.payload, r.id, A)
        /\ c = "verify" => By(x.copy.payload, r.client, P, A)

RowsExplained ==
    /\ \A d \in Dids : /\ By(aggregate[d].payload, d, posted, asked)
                       /\ By(view[d].payload, d, posted, asked)
    /\ \A r \in Ids : Named(view[r].payload, r, asked)

TasksExplained ==
    \A t \in Tasks : TaskExplained(pc[t], req[t], exec[t], posted, asked)

ExplainInv == RowsExplained /\ TasksExplained

LEMMA ByGrows ==
    ASSUME NEW s, NEW d, NEW P, NEW A, NEW P2, NEW A2, P \subseteq P2, A \subseteq A2,
           By(s, d, P, A)
    PROVE  By(s, d, P2, A2)
BY DEF By

LEMMA TaskGrows ==
    ASSUME NEW c, NEW r, NEW x, NEW P, NEW A, NEW P2, NEW A2, P \subseteq P2, A \subseteq A2,
           TaskExplained(c, r, x, P, A)
    PROVE  TaskExplained(c, r, x, P2, A2)
<1>1. \A s, d : By(s, d, P, A) => By(s, d, P2, A2)
    BY ByGrows
<1>2. \A s, d : AskedAs(s, d, A) => AskedAs(s, d, A2)
    BY DEF AskedAs
<1> QED
    BY <1>1, <1>2 DEF TaskExplained, Named

(* A verified response keeps a connection explained. *)
LEMMA ApplyBy ==
    ASSUME NEW s \in ConnectionState, NEW e \in ConnectionEvents, NEW d, NEW P, NEW A,
           By(s, d, P, A), <<e.arg.n, e.arg.state>> \in P, AskedAs(e.arg.state, d, A)
    PROVE  By(Apply(s, e), d, P, A)
<1>1. PICK a \in A : a.id = e.arg.state /\ a.client = d
    BY DEF AskedAs
<1>2. CASE e.type = "SIOPv2AuthorizationResponseVerified"
    <2>1. Apply(s, e) = [s EXCEPT !.id_token = e.arg.n, !.state = e.arg.state]
        BY <1>2 DEF Apply
    <2>2. /\ Apply(s, e).id_token = e.arg.n /\ Apply(s, e).vp_token = s.vp_token
          /\ Apply(s, e).state = e.arg.state
        BY <2>1 DEF ConnectionState
    <2> QED
        BY <1>1, <2>2 DEF By
<1>3. CASE e.type = "OID4VPAuthorizationResponseVerified"
    <2>1. Apply(s, e) = [s EXCEPT !.vp_token = e.arg.n, !.state = e.arg.state]
        BY <1>3 DEF Apply
    <2>2. /\ Apply(s, e).vp_token = e.arg.n /\ Apply(s, e).id_token = s.id_token
          /\ Apply(s, e).state = e.arg.state
        BY <2>1 DEF ConnectionState
    <2> QED
        BY <1>1, <2>2 DEF By
<1> QED
    BY <1>2, <1>3 DEF ConnectionEvents

LEMMA ApplyNamed ==
    ASSUME NEW s \in RequestState, NEW e \in RequestEvents, NEW r, NEW A, Named(s, r, A),
           e.type = "AuthorizationRequestCreated" => AskedAs(r, e.arg.client, A)
    PROVE  Named(Apply(s, e), r, A)
BY DEF Named, Apply, RequestState, RequestEvents

LEMMA NewExplained ==
    /\ \A d \in Dids : \A P, A : By(NoRow(NewAggregate(d)).payload, d, P, A)
    /\ \A r \in Ids : \A A : Named(NoRow(NewAggregate(r)).payload, r, A)
    /\ \A P, A : TaskExplained("idle", NoRequest, NewExec, P, A)
BY VerificationNames
DEF By, Named, NoRow, NewAggregate, NewConnection, NewRequest, TaskExplained, NewExec

LEMMA ExplainInit == Init => ExplainInv
<1> SUFFICES ASSUME Init PROVE ExplainInv
    OBVIOUS
<1>1. RowsExplained
    <2>1. \A k \in Keys : aggregate[k] = NoRow(NewAggregate(k)) /\ view[k] = NoRow(NewAggregate(k))
        BY DEF Init
    <2> QED
        BY <2>1, NewExplained DEF RowsExplained, Keys
<1>2. TasksExplained
    <2>1. \A t \in Tasks : pc[t] = "idle" /\ req[t] = NoRequest /\ exec[t] = NewExec
        BY DEF Init
    <2> QED
        BY <2>1, NewExplained DEF TasksExplained
<1> QED
    BY <1>1, <1>2 DEF ExplainInv

LEMMA RowsGrow ==
    ASSUME RowsExplained, UNCHANGED <<aggregate, view>>,
           posted \subseteq posted', asked \subseteq asked'
    PROVE  RowsExplained'
<1>1. \A d \in Dids : /\ By(aggregate[d].payload, d, posted', asked')
                      /\ By(view[d].payload, d, posted', asked')
    BY ByGrows DEF RowsExplained
<1>2. \A r \in Ids : Named(view[r].payload, r, asked')
    BY DEF RowsExplained, Named, AskedAs
<1> QED
    BY <1>1, <1>2 DEF RowsExplained

LEMMA TasksGrow ==
    ASSUME TasksExplained, NEW t \in Tasks,
           TaskExplained(pc'[t], req'[t], exec'[t], posted', asked'),
           \A u \in Tasks \ {t} : pc'[u] = pc[u] /\ req'[u] = req[u] /\ exec'[u] = exec[u],
           posted \subseteq posted', asked \subseteq asked'
    PROVE  TasksExplained'
<1>1. \A u \in Tasks : TaskExplained(pc[u], req[u], exec[u], posted', asked')
    BY TaskGrows DEF TasksExplained
<1> QED
    BY <1>1 DEF TasksExplained

(* A handler that moves on leaves its command behind. *)
LEMMA MoveExplained ==
    ASSUME TypeInv, TasksExplained, NEW t \in Tasks,
           NEW where \in {"idle", "find", "read"} \union Commands, NEW r,
           Goto(t, where), req' = [req EXCEPT ![t] = r],
           where \in {"find", "verify"} => <<r.n, r.id>> \in posted',
           where = "verify" => AskedAs(r.id, r.client, asked'),
           posted \subseteq posted', asked \subseteq asked'
    PROVE  TasksExplained'
<1>1. req'[t] = r /\ \A u \in Tasks \ {t} : req'[u] = req[u]
    BY DEF TypeInv, TypeOK
<1>2. pc'[t] = where /\ exec'[t] = NewExec
      /\ \A u \in Tasks \ {t} : pc'[u] = pc[u] /\ exec'[u] = exec[u]
    BY DEF Goto, TypeInv, TypeOK, ExecOK
<1>3. TaskExplained(pc'[t], req'[t], exec'[t], posted', asked')
    BY <1>1, <1>2 DEF TaskExplained, NewExec
<1> QED
    BY <1>1, <1>2, <1>3, TasksGrow

LEMMA ExplainStep == TypeInv /\ ExplainInv /\ [Next]_vars => ExplainInv'
<1> SUFFICES ASSUME TypeInv, ExplainInv, [Next]_vars PROVE ExplainInv'
    OBVIOUS
<1>t. TypeOK /\ ExecOK
    BY DEF TypeInv
<1>e. RowsExplained /\ TasksExplained
    BY DEF ExplainInv
<1>r. \A t \in Tasks : req = [req EXCEPT ![t] = req[t]]
    BY <1>t DEF TypeOK
<1>w. {"idle", "create", "find", "sign", "read", "verify"}
        \subseteq {"idle", "find", "read"} \union Commands
    BY DEF Commands
<1>1. ASSUME NEW t \in Tasks, Request(t) PROVE ExplainInv'
    <2>1. PICK kind \in {"request", "id_token", "vp_token"}, where \in {"create", "find"}, r \in Ids :
            /\ Start(t, kind, where, r)
            /\ posted \subseteq posted'
            /\ where = "find" => <<requests + 1, r>> \in posted'
        BY <1>1 DEF Request, PostRequest, PostRedirect
    <2>2. UNCHANGED <<aggregate, view, asked>>
        BY <2>1 DEF Start, store
    <2>3. TasksExplained'
        BY <1>e, <1>w, <2>1, <2>2, MoveExplained DEF Start
    <2> QED
        BY <1>e, <2>1, <2>2, <2>3, RowsGrow DEF ExplainInv
<1>2. ASSUME NEW t \in Tasks, Decline(t) \/ Conflict(t) \/ ReadForm(t) \/ Cancel(t)
      PROVE ExplainInv'
    <2>1. Goto(t, "idle") /\ req' = [req EXCEPT ![t] = NoRequest]
          /\ UNCHANGED <<aggregate, view, asked, posted>>
        BY <1>2 DEF Decline, Conflict, ReadForm, Cancel, Answer, store
    <2>2. TasksExplained'
        BY <1>e, <1>w, <2>1, MoveExplained
    <2> QED
        BY <1>e, <2>1, <2>2, RowsGrow DEF ExplainInv
<1>3. ASSUME NEW t \in Tasks, FindRequest(t) PROVE ExplainInv'
    <2> DEFINE found == view[req[t].id].payload.asked
    <2>1. /\ pc[t] = "find" /\ req[t].id \in Ids
          /\ UNCHANGED <<aggregate, view, asked, posted>>
        BY <1>t, <1>3 DEF FindRequest, TypeOK, store
    <2>2. TasksExplained'
        <3>1. CASE found = None
            <4>1. Goto(t, "idle") /\ req' = [req EXCEPT ![t] = NoRequest]
                BY <1>3, <3>1 DEF FindRequest, Answer
            <4> QED
                BY <1>e, <1>w, <2>1, <4>1, MoveExplained
        <3>2. CASE found # None
            <4> DEFINE r == [req[t] EXCEPT !.client = found.client]
            <4>1. Goto(t, "verify") /\ req' = [req EXCEPT ![t] = r]
                BY <1>3, <1>t, <3>2 DEF FindRequest, TypeOK
            <4>2. r.n = req[t].n /\ r.id = req[t].id /\ r.client = found.client
                BY <1>t DEF TypeOK
            <4>3. AskedAs(r.id, r.client, asked')
                BY <1>e, <2>1, <3>2, <4>2 DEF RowsExplained, Named
            <4>4. <<r.n, r.id>> \in posted'
                BY <1>e, <2>1, <4>2 DEF TasksExplained, TaskExplained
            <4> HIDE DEF r
            <4> QED
                BY <1>e, <1>w, <2>1, <4>1, <4>3, <4>4, MoveExplained
        <3> QED
            BY <3>1, <3>2
    <2> QED
        BY <1>e, <2>1, <2>2, RowsGrow DEF ExplainInv
<1>4. ASSUME NEW t \in Tasks, Load(t) \/ LoadView(t) PROVE ExplainInv'
    <2>1. /\ pc[t] \in Commands /\ Key(t) \in Keys
          /\ UNCHANGED <<aggregate, view, pc, req, asked, posted>>
        BY <1>4, <1>t, KeyType DEF Load, LoadView, At, store, history
    <2>2. \A u \in Tasks \ {t} : exec'[u] = exec[u]
        BY <1>4, <1>t DEF Load, LoadView, ExecOK
    <2>3. TaskExplained(pc[t], req[t], exec[t], posted, asked)
        BY <1>e DEF TasksExplained
    <2>4. TaskExplained(pc[t], req[t], exec'[t], posted, asked)
        <3>1. CASE Load(t)
            <4>1. exec'[t].phase = "commit"
                BY <1>t, <3>1 DEF Load, ExecOK, Execs
            <4> QED
                BY <2>3, <4>1 DEF TaskExplained
        <3>2. CASE LoadView(t)
            <4>1. /\ exec[t].phase = "view" /\ exec'[t].phase = "view_store"
                  /\ exec'[t].event = exec[t].event /\ exec'[t].copy = view[Key(t)]
                BY <1>t, <3>2 DEF LoadView, At, ExecOK, Execs
            <4>2. pc[t] \in {"create", "sign"} => Named(view[Key(t)].payload, req[t].id, asked)
                BY <1>e, <1>t, <2>1, KeyType DEF RowsExplained
            <4>3. pc[t] = "verify" => By(view[Key(t)].payload, req[t].client, posted, asked)
                BY <1>e, <1>t, <2>1, KeyType DEF RowsExplained
            <4> QED
                BY <2>3, <4>1, <4>2, <4>3 DEF TaskExplained
        <3> QED
            BY <1>4, <3>1, <3>2
    <2>5. TasksExplained'
        BY <1>e, <2>1, <2>2, <2>4, TasksGrow
    <2> QED
        BY <1>e, <2>1, <2>5, RowsGrow DEF ExplainInv
<1>5. ASSUME NEW t \in Tasks, Commit(t) PROVE ExplainInv'
    <2> DEFINE k == Key(t)
               e == Emitted(t)
    <2>1. /\ pc[t] \in Commands /\ exec[t].phase = "commit"
          /\ aggregate' = [aggregate EXCEPT ![k] =
                [version |-> @.version + 1, payload |-> Apply(@.payload, e)]]
          /\ exec' = [exec EXCEPT ![t].event = e, ![t].phase = "view"]
          /\ asked \subseteq asked'
          /\ pc[t] = "create" => [n |-> req[t].n, id |-> k, client |-> did] \in asked'
          /\ UNCHANGED <<view, pc, req, posted>>
        BY <1>5 DEF Commit, At
    <2>2. /\ k \in Keys /\ req[t].id \in Ids
          /\ pc[t] # "verify" => k = req[t].id /\ k \in Ids
          /\ pc[t] = "verify" => k = req[t].client /\ k \in Dids
        BY <1>t, <2>1, KeyType
    <2>3. /\ pc[t] = "create" => e.type = "AuthorizationRequestCreated" /\ e.arg.client = did
          /\ pc[t] = "sign" => e.type = "AuthorizationRequestObjectSigned"
          /\ pc[t] = "verify" => e.type \in {"SIOPv2AuthorizationResponseVerified",
                                             "OID4VPAuthorizationResponseVerified"}
                                 /\ e.arg = Response(req[t].n, req[t].id)
        BY DEF Emitted, Event, Ask
    <2>4. TaskExplained(pc[t], req[t], exec[t], posted, asked)
        BY <1>e DEF TasksExplained
    <2> HIDE DEF k, e
    <2>5. /\ exec'[t].phase = "view" /\ exec'[t].event = e
          /\ \A u \in Tasks \ {t} : exec'[u] = exec[u]
        BY <1>t, <2>1 DEF ExecOK, Execs
    <2>6. TasksExplained'
        <3>1. pc[t] = "create" => AskedAs(req[t].id, e.arg.client, asked')
            BY <2>1, <2>2, <2>3 DEF AskedAs
        <3>2. pc[t] = "verify" => AskedAs(req[t].id, req[t].client, asked')
            BY <2>1, <2>4 DEF TaskExplained, AskedAs
        <3>3. TaskExplained(pc'[t], req'[t], exec'[t], posted', asked')
            BY <2>1, <2>3, <2>4, <2>5, <3>1, <3>2 DEF TaskExplained
        <3> QED
            BY <1>e, <2>1, <2>5, <3>3, TasksGrow
    <2>7. \A d \in Dids : By(aggregate'[d].payload, d, posted, asked')
        <3> SUFFICES ASSUME NEW d \in Dids PROVE By(aggregate'[d].payload, d, posted, asked')
            OBVIOUS
        <3>1. By(aggregate[d].payload, d, posted, asked')
            BY <1>e, <2>1, ByGrows DEF RowsExplained
        <3>2. CASE d # k
            BY <1>t, <2>1, <3>1, <3>2 DEF TypeOK, Keys
        <3>3. CASE d = k
            <4>1. pc[t] = "verify" /\ d \notin Ids /\ d \in Keys
                BY <2>1, <2>2, <3>3, VerificationNames DEF Keys
            <4>2. aggregate'[d].payload = Apply(aggregate[d].payload, e)
                BY <1>t, <2>1, <3>3, <4>1 DEF TypeOK
            <4>3. aggregate[d].payload \in ConnectionState
                BY <1>t, <4>1 DEF TypeOK, State, Row
            <4>4. e \in ConnectionEvents /\ e.arg.n = req[t].n /\ e.arg.state = req[t].id
                <5>1. e.arg.n = req[t].n /\ e.arg.state = req[t].id
                    BY <2>3, <4>1 DEF Response
                <5>2. Response(req[t].n, req[t].id) \in [n : Nat, state : Ids]
                    BY <1>t, <2>2 DEF Response, TypeOK
                <5> QED
                    BY <4>1, <5>1, <5>2 DEF e, Emitted, Event, ConnectionEvents
            <4>5. <<e.arg.n, e.arg.state>> \in posted /\ AskedAs(e.arg.state, d, asked')
                BY <2>1, <2>2, <2>4, <3>3, <4>1, <4>4 DEF TaskExplained, AskedAs
            <4> QED
                BY <3>1, <4>2, <4>3, <4>4, <4>5, ApplyBy
        <3> QED
            BY <3>2, <3>3
    <2>8. RowsExplained'
        <3>1. \A d \in Dids : By(view[d].payload, d, posted, asked')
            BY <1>e, <2>1, ByGrows DEF RowsExplained
        <3>2. \A r \in Ids : Named(view[r].payload, r, asked')
            BY <1>e, <2>1 DEF RowsExplained, Named, AskedAs
        <3> QED
            BY <2>1, <2>7, <3>1, <3>2 DEF RowsExplained
    <2> QED
        BY <2>6, <2>8 DEF ExplainInv
<1>6. ASSUME NEW t \in Tasks, Continue(t), UNCHANGED <<posted, asked>> PROVE TasksExplained'
    <2>1. PICK where \in {"idle", "read", "sign"}, r \in {NoRequest, req[t]} :
            Goto(t, where) /\ req' = [req EXCEPT ![t] = r]
        BY <1>6, <1>r DEF Continue, Answer
    <2> QED
        BY <1>e, <1>w, <1>6, <2>1, MoveExplained
<1>7. ASSUME NEW t \in Tasks, StoreView(t) PROVE ExplainInv'
    <2> DEFINE k == Key(t)
               p == Apply(exec[t].copy.payload, exec[t].event)
    <2>1. /\ pc[t] \in Commands /\ exec[t].phase = "view_store" /\ Dispatching(t)
          /\ Continue(t)
          /\ view' = [view EXCEPT ![k] = UpdateView(view[k], exec[t].copy, p)]
          /\ UNCHANGED <<aggregate, asked, posted>>
        BY <1>7, <1>t DEF StoreView, At, Dispatching, TypeOK
    <2>2. /\ k \in Keys
          /\ pc[t] # "verify" => k = req[t].id /\ k \in Ids
          /\ pc[t] = "verify" => k = req[t].client /\ k \in Dids /\ k \notin Ids
        BY <1>t, <2>1, KeyType
    <2>3. exec[t].copy.payload \in State(k) /\ exec[t].event \in EventsOf(k)
        BY <1>t, <2>1 DEF ExecOK, Row
    <2>4. TaskExplained(pc[t], req[t], exec[t], posted, asked)
        BY <1>e DEF TasksExplained
    <2>5. pc[t] = "verify" => By(p, k, posted, asked)
        <3> SUFFICES ASSUME pc[t] = "verify" PROVE By(p, k, posted, asked)
            OBVIOUS
        <3>1. /\ exec[t].event.arg = Response(req[t].n, req[t].id)
              /\ <<req[t].n, req[t].id>> \in posted /\ AskedAs(req[t].id, k, asked)
              /\ By(exec[t].copy.payload, k, posted, asked)
            BY <2>1, <2>2, <2>4 DEF TaskExplained
        <3>2. /\ exec[t].copy.payload \in ConnectionState
              /\ exec[t].event \in ConnectionEvents
            BY <2>2, <2>3 DEF State, EventsOf
        <3>3. exec[t].event.arg.n = req[t].n /\ exec[t].event.arg.state = req[t].id
            BY <3>1 DEF Response
        <3> QED
            BY <3>1, <3>2, <3>3, ApplyBy
    <2>6. pc[t] # "verify" => Named(p, k, asked)
        <3> SUFFICES ASSUME pc[t] # "verify" PROVE Named(p, k, asked)
            OBVIOUS
        <3>1. /\ Named(exec[t].copy.payload, k, asked)
              /\ exec[t].event.type = "AuthorizationRequestCreated"
                    => AskedAs(k, exec[t].event.arg.client, asked)
            BY <2>1, <2>2, <2>4 DEF TaskExplained, Commands
        <3>2. exec[t].copy.payload \in RequestState /\ exec[t].event \in RequestEvents
            BY <2>2, <2>3 DEF State, EventsOf
        <3> QED
            BY <3>1, <3>2, ApplyNamed
    <2> HIDE DEF k, p
    <2>7. /\ view'[k].payload \in {view[k].payload, p}
          /\ \A j \in Keys \ {k} : view'[j] = view[j]
        BY <1>t, <2>1, <2>2 DEF TypeOK, UpdateView
    <2>8. RowsExplained'
        <3>1. \A d \in Dids : By(view'[d].payload, d, posted, asked)
            BY <1>e, <2>1, <2>2, <2>5, <2>7, VerificationNames DEF RowsExplained, Keys
        <3>2. \A r \in Ids : Named(view'[r].payload, r, asked)
            BY <1>e, <2>1, <2>2, <2>6, <2>7, VerificationNames DEF RowsExplained, Keys
        <3> QED
            BY <1>e, <2>1, <3>1, <3>2 DEF RowsExplained
    <2> QED
        BY <1>6, <2>1, <2>8 DEF ExplainInv
<1>8. ASSUME NEW t \in Tasks, ViewUpdateFails(t) PROVE ExplainInv'
    <2>1. Continue(t) /\ UNCHANGED <<aggregate, view, asked, posted>>
        BY <1>8 DEF ViewUpdateFails, store
    <2> QED
        BY <1>6, <1>e, <2>1, RowsGrow DEF ExplainInv
<1>9. ASSUME Crash PROVE ExplainInv'
    <2>1. /\ \A t \in Tasks : pc'[t] = "idle" /\ req'[t] = NoRequest /\ exec'[t] = NewExec
          /\ UNCHANGED <<asked, posted>>
        BY <1>9 DEF Crash
    <2>2. TasksExplained'
        BY <2>1, NewExplained DEF TasksExplained
    <2>3. CASE Store = "postgres"
        BY <1>9, <1>e, <2>1, <2>2, <2>3, RowsGrow DEF Crash, ExplainInv, store
    <2>4. CASE Store # "postgres"
        <3>1. \A k \in Keys : /\ aggregate'[k] = NoRow(NewAggregate(k))
                              /\ view'[k] = NoRow(NewAggregate(k))
            BY <1>9, <2>4 DEF Crash
        <3>2. RowsExplained'
            BY <3>1, NewExplained DEF RowsExplained, Keys
        <3> QED
            BY <2>2, <3>2 DEF ExplainInv
    <2> QED
        BY <2>3, <2>4
<1>10. CASE UNCHANGED vars
    <2>1. UNCHANGED <<aggregate, view, pc, req, exec, asked, posted>>
        BY <1>10 DEF vars, store, history
    <2> QED
        BY <1>e, <2>1 DEF ExplainInv, RowsExplained, TasksExplained
<1> QED
    BY <1>1, <1>2, <1>3, <1>4, <1>5, <1>7, <1>8, <1>9, <1>10 DEF Next, Proceed

(* Whatever the shared connection holds came with a response to the state  *)
(* of a request that names the connection's DID as client, under any       *)
(* changes of the verifier's DID.                                          *)
THEOREM Explains == Spec => []ConnectionExplained
<1>1. TypeInv /\ ExplainInv => ConnectionExplained
    BY DEF ExplainInv, RowsExplained, By, ConnectionExplained, Explained, AskedFor
<1> QED
    BY <1>1, TypeInit, TypeStep, ExplainInit, ExplainStep, PTL DEF Spec

-----------------------------------------------------------------------------
(* On Postgres, what a command has loaded is the aggregate as it was: at   *)
(* the same version it is the aggregate as it is.                          *)
SeenOK ==
    Store = "postgres" => \A t \in Tasks : exec[t].phase = "commit" =>
        /\ exec[t].seen.version <= aggregate[Key(t)].version
        /\ exec[t].seen.version = aggregate[Key(t)].version => exec[t].seen = aggregate[Key(t)]

LEMMA SeenInit == Init => SeenOK
BY NewTypes DEF Init, SeenOK

LEMMA SeenStep == TypeInv /\ SeenOK /\ [Next]_vars => SeenOK'
<1> SUFFICES ASSUME TypeInv, SeenOK, [Next]_vars, Store = "postgres",
                    NEW t \in Tasks, exec'[t].phase = "commit"
             PROVE  /\ exec'[t].seen.version <= aggregate'[Key(t)'].version
                    /\ exec'[t].seen.version = aggregate'[Key(t)'].version
                        => exec'[t].seen = aggregate'[Key(t)']
    BY DEF SeenOK
<1>t. TypeOK /\ ExecOK
    BY DEF TypeInv
<1>1. ASSUME UNCHANGED aggregate, Key(t)' = Key(t), exec'[t] = exec[t]
      PROVE  /\ exec'[t].seen.version <= aggregate'[Key(t)'].version
             /\ exec'[t].seen.version = aggregate'[Key(t)'].version
                => exec'[t].seen = aggregate'[Key(t)']
    BY <1>1 DEF SeenOK
<1>2. ASSUME NEW u \in Tasks, NEW where, Goto(u, where),
             \A w \in Tasks \ {u} : req'[w] = req[w]
      PROVE  Key(t)' = Key(t) /\ exec'[t] = exec[t]
    <2>1. exec'[u] = NewExec /\ \A w \in Tasks \ {u} : pc'[w] = pc[w] /\ exec'[w] = exec[w]
        BY <1>2, GotoExec
    <2>2. t # u
        BY <2>1, NewTypes
    <2> QED
        BY <1>2, <2>1, <2>2 DEF Key
<1>3. ASSUME NEW u \in Tasks, Request(u) PROVE UNCHANGED aggregate /\ Key(t)' = Key(t)
                                               /\ exec'[t] = exec[t]
    <2>1. PICK kind \in {"request", "id_token", "vp_token"}, where \in {"create", "find"}, r \in Ids :
            Start(u, kind, where, r)
        BY <1>3 DEF Request, PostRequest, PostRedirect
    <2>2. Goto(u, where) /\ \A w \in Tasks \ {u} : req'[w] = req[w]
        BY <1>t, <2>1 DEF Start, TypeOK
    <2> QED
        BY <1>2, <2>1, <2>2 DEF Start, store
<1>4. ASSUME NEW u \in Tasks, FindRequest(u) \/ Decline(u) \/ Conflict(u) \/ ReadForm(u)
                               \/ Cancel(u) \/ StoreView(u) \/ ViewUpdateFails(u)
      PROVE UNCHANGED aggregate /\ Key(t)' = Key(t) /\ exec'[t] = exec[t]
    <2>1. PICK where \in {"idle", "verify", "sign", "read"} :
            Goto(u, where) /\ \A w \in Tasks \ {u} : req'[w] = req[w]
        BY <1>4, <1>t DEF FindRequest, Decline, Conflict, ReadForm, Cancel, StoreView,
                          ViewUpdateFails, Answer, Continue, TypeOK
    <2>2. UNCHANGED aggregate
        BY <1>4 DEF FindRequest, Decline, Conflict, ReadForm, Cancel, StoreView,
                    ViewUpdateFails, store
    <2> QED
        BY <1>2, <2>1, <2>2
<1>5. ASSUME NEW u \in Tasks, Load(u) \/ LoadView(u) PROVE UNCHANGED <<aggregate, pc, req>>
    BY <1>5 DEF Load, LoadView, store, history
<1>6. CASE \E u \in Tasks : Load(u)
    <2>1. PICK u \in Tasks : Load(u)
        BY <1>6
    <2>2. Key(t)' = Key(t) /\ UNCHANGED aggregate
        BY <1>5, <2>1 DEF Key
    <2>3. CASE u # t
        BY <1>1, <1>t, <2>1, <2>2, <2>3 DEF Load, ExecOK
    <2>4. CASE u = t
        <3>1. exec'[t].seen = aggregate[Key(t)]
            BY <1>t, <2>1, <2>4 DEF Load, ExecOK, Execs
        <3>2. aggregate[Key(t)].version \in Nat
            BY <1>t, <2>1, <2>4, KeyType DEF Load, At, TypeOK, Row
        <3> QED
            BY <2>2, <3>1, <3>2
    <2> QED
        BY <2>3, <2>4
<1>7. CASE \E u \in Tasks : LoadView(u)
    <2>1. PICK u \in Tasks : LoadView(u)
        BY <1>7
    <2>2. Key(t)' = Key(t) /\ UNCHANGED aggregate
        BY <1>5, <2>1 DEF Key
    <2>3. u # t
        BY <1>t, <2>1 DEF LoadView, ExecOK, Execs
    <2> QED
        BY <1>1, <1>t, <2>1, <2>2, <2>3 DEF LoadView, ExecOK
<1>8. CASE \E u \in Tasks : Commit(u)
    <2>1. PICK u \in Tasks : Commit(u)
        BY <1>8
    <2>2. /\ aggregate' = [aggregate EXCEPT ![Key(u)] =
                [version |-> @.version + 1, payload |-> Apply(@.payload, Emitted(u))]]
          /\ exec' = [exec EXCEPT ![u].event = Emitted(u), ![u].phase = "view"]
          /\ UNCHANGED <<pc, req>> /\ pc[u] \in Commands
        BY <2>1 DEF Commit, At
    <2>3. u # t
        BY <1>t, <2>2 DEF ExecOK, Execs
    <2>4. exec'[t] = exec[t] /\ Key(t)' = Key(t)
        BY <1>t, <2>2, <2>3 DEF ExecOK, Key
    <2>5. /\ Key(t) \in Keys /\ aggregate[Key(t)].version \in Nat
          /\ exec[t].seen.version \in Nat
          /\ exec[t].seen.version <= aggregate[Key(t)].version
          /\ exec[t].seen.version = aggregate[Key(t)].version => exec[t].seen = aggregate[Key(t)]
        <3>1. exec[t].phase = "commit"
            BY <2>4
        <3>2. pc[t] \in Commands /\ exec[t].seen \in Row(State(Key(t)))
            BY <1>t, <3>1 DEF ExecOK
        <3>3. Key(t) \in Keys
            BY <1>t, <3>2, KeyType
        <3> QED
            BY <1>t, <3>1, <3>2, <3>3 DEF SeenOK, TypeOK, Row
    <2>6. \/ aggregate'[Key(t)] = aggregate[Key(t)]
          \/ aggregate'[Key(t)].version = aggregate[Key(t)].version + 1
        BY <1>t, <2>2, <2>5 DEF TypeOK
    <2>7. \A s, v \in Nat : s <= v => s <= v + 1 /\ s # v + 1
        OBVIOUS
    <2> QED
        BY <2>4, <2>5, <2>6, <2>7
<1>9. CASE Crash
    BY <1>9, NewTypes DEF Crash
<1>10. CASE UNCHANGED vars
    BY <1>1, <1>10 DEF vars, store, Key
<1> QED
    BY <1>1, <1>3, <1>4, <1>6, <1>7, <1>8, <1>9, <1>10 DEF Next, Proceed

(* On Postgres a signature that enters the log is over the request that is *)
(* stored at that moment.                                                  *)
THEOREM Signs == Spec => SignsCurrent
<1> DEFINE Signed == Store = "postgres" => \A r \in Ids :
                aggregate'[r].payload.signed # aggregate[r].payload.signed
                    => aggregate'[r].payload.signed = aggregate'[r].payload.asked
<1>1. TypeInv /\ SeenOK /\ [Next]_vars => [Signed]_aggregate
    <2> SUFFICES ASSUME TypeInv, SeenOK, [Next]_vars, aggregate' # aggregate, Store = "postgres",
                        NEW r \in Ids,
                        aggregate'[r].payload.signed # aggregate[r].payload.signed
                 PROVE  aggregate'[r].payload.signed = aggregate'[r].payload.asked
        OBVIOUS
    <2>1. PICK t \in Tasks : Commit(t)
        BY DEF Next, Request, PostRequest, PostRedirect, Start, Proceed, FindRequest, Load,
               Decline, Conflict, LoadView, StoreView, ReadForm, ViewUpdateFails, Cancel, Crash,
               vars, store
    <2>2. /\ aggregate' = [aggregate EXCEPT ![Key(t)] =
                [version |-> @.version + 1, payload |-> Apply(@.payload, Emitted(t))]]
          /\ pc[t] \in Commands /\ exec[t].phase = "commit"
          /\ exec[t].seen.version = aggregate[Key(t)].version
        BY <2>1 DEF Commit, At, Stale
    <2>3. /\ r = Key(t) /\ r \in Keys /\ aggregate[r] \in Row(RequestState)
          /\ aggregate'[r].payload = Apply(aggregate[r].payload, Emitted(t))
        BY <2>2 DEF TypeInv, TypeOK, Keys, State
    <2>4. CASE pc[t] = "create"
        BY <2>3, <2>4 DEF Emitted, Event, Apply, Row, RequestState
    <2>5. CASE pc[t] = "sign"
        <3>1. exec[t].seen = aggregate[r]
            BY <2>2, <2>3 DEF SeenOK
        <3> QED
            BY <2>3, <2>5, <3>1 DEF Emitted, Event, Apply, Row, RequestState
    <2>6. CASE pc[t] = "verify"
        BY <2>2, <2>3, <2>6, KeyType DEF TypeInv
    <2> QED
        BY <2>2, <2>4, <2>5, <2>6 DEF Commands
<1> QED
    BY <1>1, TypeInit, TypeStep, SeenInit, SeenStep, PTL DEF Spec, SignsCurrent
=============================================================================
