---------------------------- MODULE Verification ----------------------------
(***************************************************************************)
(* The verifier's REST endpoints as concurrent handlers over the           *)
(* AuthorizationRequest and Connection aggregates of agent_verification.   *)
(*                                                                         *)
(*   POST /v0/authorization_requests      create a request, sign it        *)
(*   GET  /v0/authorization_requests/{id} the request                      *)
(*   GET  /request/{id}                   the signed request, for wallets  *)
(*   POST /redirect                       a wallet's response: find the    *)
(*                                        request by `state', verify       *)
(*                                                                         *)
(* The id of a request is its `state', which the client may choose, so a   *)
(* request can be created again.  A response is recorded in the connection *)
(* whose id is the client_id of the request found: the verifier's own DID, *)
(* so ONE aggregate serves every wallet.  A command is load, commit, view  *)
(* load, view store (see CqrsPipeline).                                    *)
(***************************************************************************)
EXTENDS Naturals, ViewRepository

CONSTANTS
    Ids,            \* ids of authorization requests: their `state'
    Dids,           \* DIDs the verifier may have: keys and config may change
    Tasks,          \* concurrently running request handlers
    MaxRequests,    \* bound: HTTP requests in a behaviour
    MaxFaults,      \* bound: crashes, cancellations and failed view updates
    None            \* Option::None

ASSUME VerificationBounds == {MaxRequests, MaxFaults} \subseteq Nat
ASSUME VerificationNames == Ids \cap Dids = {} /\ None \notin Ids \union Dids

VARIABLES
    did,        \* the verifier's DID in this run of the process
    aggregate,  \* aggregate[k]: request (k an id) or connection (k a DID)
    view,       \* view[k]: its AuthorizationRequestView or ConnectionView row
    pc,         \* pc[t]: the command or query handler t is at
    req,        \* req[t]: the HTTP request and the locals of its handler
    exec,       \* exec[t]: the command under execution
    requests,   \* HTTP requests so far: they are numbered 1, 2, ...
    faults,     \* crashes, cancellations and failed view updates so far
    asked,      \* history: the requests created, with the id they were created under
    posted,     \* history: <<response, state>> of the responses wallets sent
    answered,   \* history: <<n, id>> of the creations answered with 201
    disturbed   \* history: aggregates with overlapping dispatches or a fault in one

store   == <<aggregate, view>>
history == <<asked, posted, answered, disturbed>>
vars == <<did, store, pc, req, exec, requests, faults, history>>

-----------------------------------------------------------------------------
(* State of the aggregates *)

Keys == Ids \union Dids

(* asked: what the request asks, for short the number of the HTTP request  *)
(* that created it (its nonce and presentation definition), and its        *)
(* client_id.  The two events of a creation are one batch, so the form URL *)
(* is there exactly when the request is.  signed: what the object is over. *)
NewRequest == [asked |-> None, signed |-> None]

(* Tokens are the numbers of the responses they came in, 0 is None. *)
NewConnection == [id_token |-> 0, vp_token |-> 0, state |-> None]

NewAggregate(k) == IF k \in Ids THEN NewRequest ELSE NewConnection

Ask(n, client) == [n |-> n, client |-> client]
Response(n, state) == [n |-> n, state |-> state]
Event(type, arg) == [type |-> type, arg |-> arg]

(* AuthorizationRequest::apply and Connection::apply; the views do the     *)
(* same.                                                                   *)
Apply(s, e) ==
    CASE e.type = "AuthorizationRequestCreated"         -> [s EXCEPT !.asked = e.arg]
      [] e.type = "AuthorizationRequestObjectSigned"    -> [s EXCEPT !.signed = e.arg]
      [] e.type = "SIOPv2AuthorizationResponseVerified" ->
            [s EXCEPT !.id_token = e.arg.n, !.state = e.arg.state]
      [] e.type = "OID4VPAuthorizationResponseVerified" ->
            [s EXCEPT !.vp_token = e.arg.n, !.state = e.arg.state]

-----------------------------------------------------------------------------
(* The endpoints *)

Commands == {"create", "sign", "verify"}

NewExec   == [phase |-> "load", seen |-> None, event |-> None, copy |-> None]
NoRequest == [kind |-> None, n |-> 0, id |-> None, client |-> None]

Init ==
    /\ did \in Dids
    /\ aggregate = [k \in Keys |-> NoRow(NewAggregate(k))]
    /\ view = [k \in Keys |-> NoRow(NewAggregate(k))]
    /\ pc = [t \in Tasks |-> "idle"]
    /\ req = [t \in Tasks |-> NoRequest]
    /\ exec = [t \in Tasks |-> NewExec]
    /\ requests = 0
    /\ faults = 0
    /\ asked = {}
    /\ posted = {}
    /\ answered = {}
    /\ disturbed = {}

Goto(t, where) ==
    /\ pc' = [pc EXCEPT ![t] = where]
    /\ exec' = [exec EXCEPT ![t] = NewExec]

(* The handler answers and is gone; only the answers to creations matter   *)
(* later on.                                                               *)
Answer(t, code) ==
    /\ Goto(t, "idle")
    /\ req' = [req EXCEPT ![t] = NoRequest]
    /\ answered' = IF code = 201 THEN answered \union {<<req[t].n, req[t].id>>} ELSE answered

Start(t, kind, where, r) ==
    /\ pc[t] = "idle"
    /\ requests < MaxRequests
    /\ requests' = requests + 1
    /\ req' = [req EXCEPT ![t] = [kind |-> kind, n |-> requests + 1, id |-> r, client |-> None]]
    /\ Goto(t, where)
    /\ UNCHANGED <<did, store, faults, asked, answered, disturbed>>

(* The client chooses the state or leaves it to the agent. *)
PostRequest(t, r) ==
    /\ Start(t, "request", "create", r)
    /\ UNCHANGED posted

(* A wallet responds with an id_token (SIOPv2) or a vp_token (OID4VP), to  *)
(* whatever state it names.                                                *)
PostRedirect(t, r, kind) ==
    /\ Start(t, kind, "find", r)
    /\ posted' = posted \union {<<requests + 1, r>>}

Request(t) ==
    \E r \in Ids :
        \/ PostRequest(t, r)
        \/ \E kind \in {"id_token", "vp_token"} : PostRedirect(t, r, kind)

(* Mutant: the connection of the verifier's present DID. *)
FindRequestOwnDid(t) ==
    /\ pc[t] = "find"
    /\ IF view[req[t].id].payload.asked = None
       THEN Answer(t, 500)
       ELSE /\ req' = [req EXCEPT ![t].client = did]
            /\ Goto(t, "verify")
            /\ UNCHANGED answered
    /\ UNCHANGED <<did, store, requests, faults, asked, posted, disturbed>>

(* Mutant: the client_id is forgotten. *)
FindRequestForgets(t) ==
    /\ pc[t] = "find"
    /\ IF view[req[t].id].payload.asked = None
       THEN Answer(t, 500)
       ELSE Goto(t, "verify") /\ UNCHANGED <<req, answered>>
    /\ UNCHANGED <<did, store, requests, faults, asked, posted, disturbed>>

(* redirect() retrieves the request named by the response's state: its     *)
(* client_id is the connection's id.                                       *)
FindRequest(t) ==
    LET found == view[req[t].id].payload.asked IN
    /\ pc[t] = "find"
    /\ IF found = None
       THEN Answer(t, 500)
       ELSE /\ req' = [req EXCEPT ![t].client = found.client]
            /\ Goto(t, "verify")
            /\ UNCHANGED answered
    /\ UNCHANGED <<did, store, requests, faults, asked, posted, disturbed>>

(* GET /request/{id} and GET /v0/authorization_requests/{id}: the status a *)
(* wallet or client gets.                                                  *)
GetSigned(r) ==
    IF view[r].version = 0 THEN 404
    ELSE IF view[r].payload.signed = None THEN 500 ELSE 200

GetAsked(r) ==
    IF view[r].version = 0 THEN 404
    ELSE IF view[r].payload.asked = None THEN 500 ELSE 200

-----------------------------------------------------------------------------
(* Executing a command *)

(* The aggregate the command handler t is at works on. *)
Key(t) == IF pc[t] = "verify" THEN req[t].client ELSE req[t].id

At(t, phase) == pc[t] \in Commands /\ exec[t].phase = phase

Load(t) ==
    /\ At(t, "load")
    /\ exec' = [exec EXCEPT ![t].seen = aggregate[Key(t)], ![t].phase = "commit"]
    /\ UNCHANGED <<did, store, pc, req, requests, faults, history>>

(* Aggregate::handle: CreateAuthorizationRequest asks nothing of the       *)
(* state, SignAuthorizationRequestObject signs the request it finds there, *)
(* VerifyAuthorizationResponse ignores the request it is given.            *)
Emitted(t) ==
    CASE pc[t] = "create" -> Event("AuthorizationRequestCreated", Ask(req[t].n, did))
      [] pc[t] = "sign"   ->
            Event("AuthorizationRequestObjectSigned", exec[t].seen.payload.asked)
      [] pc[t] = "verify" ->
            Event(IF req[t].kind = "id_token" THEN "SIOPv2AuthorizationResponseVerified"
                  ELSE "OID4VPAuthorizationResponseVerified",
                  Response(req[t].n, req[t].id))

MissingRequest(t) == pc[t] = "sign" /\ exec[t].seen.payload.asked = None

(* The request cannot be built; there is none to sign, or signing fails;   *)
(* the response does not verify, or is of the form that is not supported   *)
(* (Oid4vpParams::Jwt); or the database fails at load or commit.           *)
Decline(t) ==
    /\ At(t, "commit")
    /\ Answer(t, 500)
    /\ UNCHANGED <<did, store, requests, faults, asked, posted, disturbed>>

(* Mutant: the version is not compared. *)
NeverStale(t) == FALSE

(* Postgres refuses events decided on a log that has grown since. *)
Stale(t) == Store = "postgres" /\ exec[t].seen.version # aggregate[Key(t)].version

Conflict(t) ==
    /\ At(t, "commit")
    /\ Stale(t)
    /\ Answer(t, 500)
    /\ UNCHANGED <<did, store, requests, faults, asked, posted, disturbed>>

Dispatching(t) == exec[t].phase \in {"view", "view_store"}

Commit(t) ==
    LET k == Key(t) IN
    /\ At(t, "commit")
    /\ ~MissingRequest(t)
    /\ ~Stale(t)
    /\ aggregate' = [aggregate EXCEPT ![k] =
            [version |-> @.version + 1, payload |-> Apply(@.payload, Emitted(t))]]
    /\ exec' = [exec EXCEPT ![t].event = Emitted(t), ![t].phase = "view"]
    /\ asked' = IF pc[t] = "create"
                THEN asked \union {[n |-> req[t].n, id |-> k, client |-> did]} ELSE asked
    /\ disturbed' = IF \E u \in Tasks : Dispatching(u) /\ Key(u) = k
                    THEN disturbed \union {k} ELSE disturbed
    /\ UNCHANGED <<did, view, pc, req, requests, faults, posted, answered>>

LoadView(t) ==
    /\ At(t, "view")
    /\ exec' = [exec EXCEPT ![t].copy = view[Key(t)], ![t].phase = "view_store"]
    /\ UNCHANGED <<did, store, pc, req, requests, faults, history>>

(* Mutant: the request is not signed. *)
ContinueUnsigned(t) ==
    \/ pc[t] \in {"create", "sign"} /\ Goto(t, "read") /\ UNCHANGED <<req, answered>>
    \/ pc[t] = "verify" /\ Answer(t, 200)

(* What the handler goes on with after its command. *)
Continue(t) ==
    \/ pc[t] = "create" /\ Goto(t, "sign") /\ UNCHANGED <<req, answered>>
    \/ pc[t] = "sign"   /\ Goto(t, "read") /\ UNCHANGED <<req, answered>>
    \/ pc[t] = "verify" /\ Answer(t, 200)

StoreView(t) ==
    LET x == exec[t] IN
    /\ At(t, "view_store")
    /\ view' = [view EXCEPT ![Key(t)] = UpdateView(@, x.copy, Apply(x.copy.payload, x.event))]
    /\ Continue(t)
    /\ UNCHANGED <<did, aggregate, requests, faults, asked, posted, disturbed>>

(* A view table that cannot be read or written is left as it is; a         *)
(* MemRepository never fails.                                              *)
ViewUpdateFails(t) ==
    /\ Store = "postgres"
    /\ pc[t] \in Commands /\ Dispatching(t)
    /\ faults < MaxFaults
    /\ faults' = faults + 1
    /\ disturbed' = disturbed \union {Key(t)}
    /\ Continue(t)
    /\ UNCHANGED <<did, store, requests, asked, posted>>

(* The creation is answered with the form URL read back from the view,     *)
(* which says nothing of the signed object it leads to.                    *)
ReadForm(t) ==
    /\ pc[t] = "read"
    /\ Answer(t, IF GetAsked(req[t].id) = 200 THEN 201 ELSE 500)
    /\ UNCHANGED <<did, store, requests, faults, asked, posted, disturbed>>

-----------------------------------------------------------------------------
(* The HTTP server drops a handler whose client has gone, or whose         *)
(* `.unwrap()' has panicked.  A query that fails leaves the same behind.   *)
Cancel(t) ==
    /\ pc[t] # "idle"
    /\ faults < MaxFaults
    /\ faults' = faults + 1
    /\ disturbed' = IF Dispatching(t) THEN disturbed \union {Key(t)} ELSE disturbed
    /\ Goto(t, "idle")
    /\ req' = [req EXCEPT ![t] = NoRequest]
    /\ UNCHANGED <<did, store, requests, asked, posted, answered>>

(* The process restarts, maybe with another DID: no handler is resumed.    *)
Crash ==
    /\ faults < MaxFaults
    /\ faults' = faults + 1
    /\ did' \in Dids
    /\ pc' = [t \in Tasks |-> "idle"]
    /\ req' = [t \in Tasks |-> NoRequest]
    /\ exec' = [t \in Tasks |-> NewExec]
    /\ disturbed' = disturbed \union {Key(t) : t \in {u \in Tasks : Dispatching(u)}}
    /\ IF Store = "postgres"
       THEN UNCHANGED <<store, answered>>
       ELSE /\ aggregate' = [k \in Keys |-> NoRow(NewAggregate(k))]
            /\ view' = [k \in Keys |-> NoRow(NewAggregate(k))]
            /\ answered' = {}
    /\ UNCHANGED <<requests, asked, posted>>

Proceed(t) ==
    \/ FindRequest(t) \/ Load(t) \/ Decline(t) \/ Conflict(t) \/ Commit(t)
    \/ LoadView(t) \/ StoreView(t) \/ ReadForm(t)

Next ==
    \/ \E t \in Tasks : Request(t) \/ Proceed(t) \/ ViewUpdateFails(t) \/ Cancel(t)
    \/ Crash

Spec == Init /\ [][Next]_vars

-----------------------------------------------------------------------------
(* Properties *)

Asks == [n : Nat, client : Dids]
RequestState == [asked : Asks \union {None}, signed : Asks \union {None}]
ConnectionState == [id_token : Nat, vp_token : Nat, state : Ids \union {None}]
State(k) == IF k \in Ids THEN RequestState ELSE ConnectionState

(* Every variable keeps its type; a command has an aggregate to work on,   *)
(* of the right kind.                                                      *)
TypeOK ==
    /\ did \in Dids
    /\ aggregate \in [Keys -> Row(RequestState) \union Row(ConnectionState)]
    /\ view \in [Keys -> Row(RequestState) \union Row(ConnectionState)]
    /\ \A k \in Keys : aggregate[k] \in Row(State(k)) /\ view[k] \in Row(State(k))
    /\ pc \in [Tasks -> {"idle", "find", "read"} \union Commands]
    /\ req \in [Tasks -> [kind : {None, "request", "id_token", "vp_token"}, n : Nat,
                          id : Ids \union {None}, client : Dids \union {None}]]
    /\ {requests, faults} \subseteq Nat
    /\ asked \subseteq [n : Nat, id : Ids, client : Dids]
    /\ posted \subseteq Nat \X Ids
    /\ answered \subseteq Nat \X Ids
    /\ disturbed \subseteq Keys
    /\ \A t \in Tasks :
        /\ pc[t] # "idle" => req[t].id \in Ids
        /\ pc[t] = "verify" => req[t].client \in Dids

(* Once a creation was answered with the form URL, the URL's request_uri   *)
(* serves a signed object, also while the request is created again and     *)
(* after a restart on Postgres, unless dispatches overlapped or a fault    *)
(* hit one.  A restart in memory forgets every request, hence `answered'.  *)
PublishedStaysServable ==
    \A a \in answered : a[2] \notin disturbed => GetSigned(a[2]) = 200

(* On Postgres the object served is of the request that is stored, when    *)
(* the creation of that request was answered with 201: however creations   *)
(* of one id interleave, an object signed for an earlier one is served     *)
(* only while the later one is unfinished, failed or disturbed.            *)
AnsweredIsCurrent ==
    Store = "postgres" => \A a \in answered :
        LET s == view[a[2]].payload IN
        a[2] \notin disturbed /\ s.asked # None /\ s.asked.n = a[1] => s.signed = s.asked

(* On Postgres a signature that enters the log is over the request that is *)
(* stored at that moment, not over one that was replaced meanwhile.        *)
SignsCurrent ==
    [][Store = "postgres" => \A r \in Ids :
        LET old == aggregate[r].payload
            new == aggregate'[r].payload
        IN  new.signed # old.signed => new.signed = new.asked]_aggregate

(* All wallets write to one connection: whatever it holds came with a      *)
(* response to the state of a request that names the connection's DID as   *)
(* client, also when the verifier's DID has changed in between, and its    *)
(* state is that of one of its two tokens.                                 *)
AskedFor(token, d) ==
    \E p \in posted, a \in asked : p = <<token, a.id>> /\ a.client = d

Explained(s, d) ==
    /\ \A token \in {s.id_token, s.vp_token} \ {0} : AskedFor(token, d)
    /\ s.state # None =>
        \E token \in {s.id_token, s.vp_token} : <<token, s.state>> \in posted

ConnectionExplained ==
    \A d \in Dids : Explained(aggregate[d].payload, d) /\ Explained(view[d].payload, d)
=============================================================================
