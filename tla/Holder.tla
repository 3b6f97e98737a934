------------------------------- MODULE Holder -------------------------------
(***************************************************************************)
(* The holder's REST endpoints as concurrent handlers over the Offer and   *)
(* Credential aggregates of agent_holder.                                  *)
(*                                                                         *)
(*   POST openid4vci/offers            receive an offer under a fresh id   *)
(*   POST holder/offers/{id}/accept    redeem the code, request the        *)
(*                                     credential, store it                *)
(*   POST holder/offers/{id}/reject    turn the offer down                 *)
(*                                                                         *)
(* Unlike the issuer's aggregates these talk to the world while they       *)
(* decide: an HTTP exchange with the issuer happens between the load and   *)
(* the commit of a command, so the issuer may have handed out a token or a *)
(* credential that the agent never records.  A command is load, decide     *)
(* (the exchange), commit, view load, view store (see CqrsPipeline).       *)
(***************************************************************************)
EXTENDS Naturals, ViewRepository

CONSTANTS
    Offers,         \* offer ids: fresh uuids, or whatever a client asks to reject
    Tasks,          \* concurrently running request handlers
    Sizes,          \* how many credential configurations offers name
    MaxRequests,    \* bound: requests in a behaviour
    MaxFaults,      \* bound: crashes, cancellations and database errors
    None            \* Option::None

ASSUME HolderBounds == {MaxRequests, MaxFaults} \subseteq Nat
ASSUME HolderSizes == Sizes \subseteq Nat
ASSUME HolderNone == None \notin Offers \union Nat

VARIABLES
    offer,      \* offer[o]: the Offer aggregate, version = events in its log
    view,       \* view[o]: its ReceivedOfferView row
    wallet,     \* the Credential aggregates: credentials with the offer they name
    shown,      \* the HolderCredentialView rows
    drawn,      \* tokens, credentials and uuids drawn so far: they are 1, 2, ...
    pc,         \* pc[t]: the command or query handler t is at
    req,        \* req[t]: the request and the locals of its handler
    exec,       \* exec[t]: the command under execution
    status,     \* status[t]: HTTP status of the last answer, 0 while there is none
    requests,   \* requests so far
    faults,     \* crashes, cancellations and database errors so far
    issued,     \* history: <<credential, token>> handed out by the issuer
    granted,    \* history: <<token, offer>> handed out by the issuer
    disturbed,  \* history: offers with overlapping dispatches or a fault
    hidden      \* history: credentials stored whose view could not be written

store   == <<offer, view, wallet, shown>>
history == <<issued, granted, disturbed, hidden>>
vars == <<store, drawn, pc, req, exec, status, requests, faults, history>>

-----------------------------------------------------------------------------
(* State of the aggregates *)

(* size: the configurations a received offer names, None before it is      *)
(* received.  credentials has at most one element: 0 is the empty list.    *)
NewOffer == [status |-> "Pending", size |-> None, token |-> 0, credential |-> 0]

(* The events of a command, which the log takes and every reader applies   *)
(* as one batch: only AcceptCredentialOffer emits two of them,             *)
(* CredentialOfferAccepted and TokenResponseReceived.                      *)
Event(type, arg) == [type |-> type, arg |-> arg]

(* Offer::apply, and ReceivedOfferView::update, which does the same. *)
Apply(s, e) ==
    CASE e.type = "CredentialOfferReceived"    -> [s EXCEPT !.size = e.arg]
      [] e.type = "CredentialOfferAccepted"    ->
            [s EXCEPT !.status = "Accepted", !.token = e.arg]
      [] e.type = "CredentialResponseReceived" ->
            [s EXCEPT !.status = "Received", !.credential = e.arg]
      [] e.type = "CredentialOfferRejected"    -> [s EXCEPT !.status = "Rejected"]

-----------------------------------------------------------------------------
(* The endpoints *)

Commands == {"receive", "accept", "request", "reject"}

NewExec   == [phase |-> "load", seen |-> None, event |-> None, copy |-> None]
NoRequest == [kind |-> None, offer |-> None, size |-> None, credential |-> 0]

Init ==
    /\ offer = [o \in Offers |-> NoRow(NewOffer)]
    /\ view = [o \in Offers |-> NoRow(NewOffer)]
    /\ wallet = {}
    /\ shown = {}
    /\ drawn = 0
    /\ pc = [t \in Tasks |-> "idle"]
    /\ req = [t \in Tasks |-> NoRequest]
    /\ exec = [t \in Tasks |-> NewExec]
    /\ status = [t \in Tasks |-> 0]
    /\ requests = 0
    /\ faults = 0
    /\ issued = {}
    /\ granted = {}
    /\ disturbed = {}
    /\ hidden = {}

Goto(t, where) ==
    /\ pc' = [pc EXCEPT ![t] = where]
    /\ exec' = [exec EXCEPT ![t] = NewExec]

Answer(t, code) ==
    /\ Goto(t, "idle")
    /\ status' = [status EXCEPT ![t] = code]

Start(t, kind, where, o, size) ==
    /\ pc[t] = "idle"
    /\ requests < MaxRequests
    /\ requests' = requests + 1
    /\ req' = [req EXCEPT ![t] = [kind |-> kind, offer |-> o, size |-> size, credential |-> 0]]
    /\ status' = [status EXCEPT ![t] = 0]
    /\ Goto(t, where)
    /\ UNCHANGED <<store, drawn, faults, history>>

(* The id of a received offer is a fresh uuid; that of an accepted or      *)
(* rejected one comes from the client, who may make it up.                 *)
PostOffers(t, o, size) ==
    /\ offer[o].version = 0
    /\ \A u \in Tasks : req[u].offer # o
    /\ Start(t, "offers", "receive", o, size)

PostAccept(t, o) == Start(t, "accept", "find", o, None)
PostReject(t, o) == Start(t, "reject", "reject", o, None)

Request(t) ==
    \E o \in Offers :
        \/ \E size \in Sizes : PostOffers(t, o, size)
        \/ PostAccept(t, o)
        \/ PostReject(t, o)

(* accept() goes on only with an offer it finds in the view. *)
FindOffer(t) ==
    /\ pc[t] = "find"
    /\ IF view[req[t].offer].version = 0
       THEN Answer(t, 404)
       ELSE Goto(t, "accept") /\ UNCHANGED status
    /\ UNCHANGED <<store, drawn, req, requests, faults, history>>

-----------------------------------------------------------------------------
(* Commands: Offer::handle decides on the state s it was loaded in *)

At(t, phase) == pc[t] \in Commands /\ exec[t].phase = phase

Load(t) ==
    /\ At(t, "load")
    /\ exec' = [exec EXCEPT ![t].seen = offer[req[t].offer], ![t].phase = "decide"]
    /\ UNCHANGED <<store, drawn, pc, req, status, requests, faults, history>>

(* handle() returned events, to be committed next. *)
Emit(t, type, arg) ==
    /\ exec' = [exec EXCEPT ![t].event = Event(type, arg), ![t].phase = "commit"]
    /\ UNCHANGED <<store, pc, req, status, requests, faults, disturbed, hidden>>

Seen(t) == exec[t].seen.payload

(* ReceiveCredentialOffer: the offer and the issuer's metadata are fetched.*)
DecideReceive(t) ==
    /\ At(t, "decide") /\ pc[t] = "receive"
    /\ Emit(t, "CredentialOfferReceived", req[t].size)
    /\ UNCHANGED <<drawn, issued, granted>>

(* AcceptCredentialOffer: the code is redeemed for a token, whatever the   *)
(* status of the offer is.                                                 *)
DecideAccept(t) ==
    /\ At(t, "decide") /\ pc[t] = "accept"
    /\ Seen(t).size # None
    /\ Emit(t, "CredentialOfferAccepted", drawn + 1)
    /\ drawn' = drawn + 1
    /\ granted' = granted \union {<<drawn + 1, req[t].offer>>}
    /\ UNCHANGED issued

(* SendCredentialRequest: the credential, if the offer names one, is       *)
(* requested with the token.                                               *)
MayRequest(s) == s.status = "Accepted" /\ s.size # None /\ s.token # 0

DecideRequest(t) ==
    /\ At(t, "decide") /\ pc[t] = "request"
    /\ MayRequest(Seen(t))
    /\ \/ /\ Seen(t).size = 0
          /\ Emit(t, "CredentialResponseReceived", 0)
          /\ UNCHANGED <<drawn, issued>>
       \/ /\ Seen(t).size = 1
          /\ Emit(t, "CredentialResponseReceived", drawn + 1)
          /\ drawn' = drawn + 1
          /\ issued' = issued \union {<<drawn + 1, Seen(t).token>>}
    /\ UNCHANGED granted

(* Mutant: any offer may be rejected. *)
DecideRejectAny(t) ==
    /\ At(t, "decide") /\ pc[t] = "reject"
    /\ Emit(t, "CredentialOfferRejected", None)
    /\ UNCHANGED <<drawn, issued, granted>>

DecideReject(t) ==
    /\ At(t, "decide") /\ pc[t] = "reject"
    /\ Seen(t).status = "Pending"
    /\ Emit(t, "CredentialOfferRejected", None)
    /\ UNCHANGED <<drawn, issued, granted>>

(* Every exchange with the issuer may fail; handle() also returns an error *)
(* when the state does not allow the command.                              *)
MayFail(t) ==
    IF pc[t] = "reject" THEN Seen(t).status # "Pending" ELSE TRUE

(* Mutant: a failed exchange is tried again at once. *)
DecideErrorRetries(t) ==
    /\ At(t, "decide")
    /\ MayFail(t)
    /\ Goto(t, pc[t])
    /\ UNCHANGED <<store, drawn, req, status, requests, faults, history>>

DecideError(t) ==
    /\ At(t, "decide")
    /\ MayFail(t)
    /\ Answer(t, 500)
    /\ UNCHANGED <<store, drawn, req, requests, faults, history>>

-----------------------------------------------------------------------------
(* Committing and dispatching (see CqrsPipeline) *)

(* Mutant: the version is not compared. *)
NeverStale(t) == FALSE

(* Postgres refuses events decided on a log that has grown since. *)
Stale(t) == Store = "postgres" /\ exec[t].seen.version # offer[req[t].offer].version

Conflict(t) ==
    /\ At(t, "commit")
    /\ Stale(t)
    /\ Answer(t, 500)
    /\ UNCHANGED <<store, drawn, req, requests, faults, history>>

Dispatching(t) == exec[t].phase \in {"view", "view_store"}

Commit(t) ==
    LET o == req[t].offer IN
    /\ At(t, "commit")
    /\ ~Stale(t)
    /\ offer' = [offer EXCEPT ![o] =
            [version |-> @.version + 1, payload |-> Apply(@.payload, exec[t].event)]]
    /\ exec' = [exec EXCEPT ![t].phase = "view"]
    /\ disturbed' = IF \E u \in Tasks : Dispatching(u) /\ req[u].offer = o
                    THEN disturbed \union {o} ELSE disturbed
    /\ UNCHANGED <<view, wallet, shown, drawn, pc, req, status, requests, faults,
                   issued, granted, hidden>>

LoadView(t) ==
    /\ At(t, "view")
    /\ exec' = [exec EXCEPT ![t].copy = view[req[t].offer], ![t].phase = "view_store"]
    /\ UNCHANGED <<store, drawn, pc, req, status, requests, faults, history>>

(* What the handler goes on with after its command. *)
Continue(t) ==
    \/ pc[t] = "accept"  /\ Goto(t, "request") /\ UNCHANGED status
    \/ pc[t] = "request" /\ Goto(t, "read") /\ UNCHANGED status
    \/ pc[t] \in {"receive", "reject"} /\ Answer(t, 200)

StoreView(t) ==
    LET x == exec[t] IN
    /\ At(t, "view_store")
    /\ view' = [view EXCEPT ![req[t].offer] =
            UpdateView(@, x.copy, Apply(x.copy.payload, x.event))]
    /\ Continue(t)
    /\ UNCHANGED <<offer, wallet, shown, drawn, req, requests, faults, history>>

(* The database cannot be reached; a MemStore or MemRepository never fails.*)
DatabaseError ==
    /\ Store = "postgres"
    /\ faults < MaxFaults
    /\ faults' = faults + 1

(* The row of the offer is left as it is, and the command has succeeded.   *)
ViewUpdateFails(t) ==
    /\ DatabaseError
    /\ pc[t] \in Commands /\ Dispatching(t)
    /\ disturbed' = disturbed \union {req[t].offer}
    /\ Continue(t)
    /\ UNCHANGED <<store, drawn, req, requests, issued, granted, hidden>>

-----------------------------------------------------------------------------
(* Storing what was received *)

(* Mutant: the credential of any offer is read. *)
ReadAnyCredential(t) ==
    /\ pc[t] = "read"
    /\ \E o \in Offers :
        IF view[o].payload.credential = 0
        THEN Answer(t, 200) /\ UNCHANGED req
        ELSE /\ req' = [req EXCEPT ![t].credential = view[o].payload.credential]
             /\ Goto(t, "add")
             /\ UNCHANGED status
    /\ UNCHANGED <<store, drawn, requests, faults, history>>

(* accept() reads the credentials back from the view, the empty list too. *)
ReadCredentials(t) ==
    LET row == view[req[t].offer] IN
    /\ pc[t] = "read"
    /\ IF row.version = 0
       THEN Answer(t, 500) /\ UNCHANGED req
       ELSE IF row.payload.credential = 0
       THEN Answer(t, 200) /\ UNCHANGED req
       ELSE /\ req' = [req EXCEPT ![t].credential = row.payload.credential]
            /\ Goto(t, "add")
            /\ UNCHANGED status
    /\ UNCHANGED <<store, drawn, requests, faults, history>>

Entry(t) == <<req[t].credential, req[t].offer>>

(* Mutant: the view is written, the event is not. *)
AddCredentialToView(t) ==
    /\ pc[t] = "add"
    /\ Goto(t, "show")
    /\ UNCHANGED <<store, drawn, req, status, requests, faults, history>>

(* AddCredential: the Credential aggregate has a fresh uuid no one else    *)
(* knows, so it is committed in one step; entries are kept without it.     *)
AddCredential(t) ==
    /\ pc[t] = "add"
    /\ wallet' = wallet \union {Entry(t)}
    /\ Goto(t, "show")
    /\ UNCHANGED <<offer, view, shown, drawn, req, status, requests, faults, history>>

(* HolderCredentialView::update *)
ShowCredential(t) ==
    /\ pc[t] = "show"
    /\ shown' = shown \union {Entry(t)}
    /\ Answer(t, 200)
    /\ UNCHANGED <<offer, view, wallet, drawn, req, requests, faults, history>>

(* The row of HolderCredentialView cannot be written: the error is printed *)
(* and the acceptance is answered like one whose credential is shown.      *)
ShowFails(t) ==
    /\ DatabaseError
    /\ pc[t] = "show"
    /\ hidden' = hidden \union {Entry(t)}
    /\ Answer(t, 200)
    /\ UNCHANGED <<store, drawn, req, requests, issued, granted, disturbed>>

(* Any other query, load or commit that fails ends the request with an     *)
(* error, what was received before included.                               *)
StoreFails(t) ==
    /\ DatabaseError
    /\ \/ At(t, "load") \/ At(t, "commit") \/ pc[t] \in {"find", "read", "add"}
    /\ disturbed' = disturbed \union {req[t].offer}
    /\ Answer(t, 500)
    /\ UNCHANGED <<store, drawn, req, requests, issued, granted, hidden>>

-----------------------------------------------------------------------------
(* The HTTP server drops a handler whose client has gone. *)
Cancel(t) ==
    /\ pc[t] # "idle"
    /\ faults < MaxFaults
    /\ faults' = faults + 1
    /\ disturbed' = disturbed \union {req[t].offer}
    /\ Goto(t, "idle")
    /\ UNCHANGED <<store, drawn, req, status, requests, issued, granted, hidden>>

(* The process restarts: no handler is resumed. *)
Crash ==
    /\ faults < MaxFaults
    /\ faults' = faults + 1
    /\ disturbed' = disturbed \union {req[t].offer : t \in {u \in Tasks : pc[u] # "idle"}}
    /\ pc' = [t \in Tasks |-> "idle"]
    /\ req' = [t \in Tasks |-> NoRequest]
    /\ exec' = [t \in Tasks |-> NewExec]
    /\ status' = [t \in Tasks |-> 0]
    /\ IF Store = "postgres"
       THEN UNCHANGED store
       ELSE /\ offer' = [o \in Offers |-> NoRow(NewOffer)]
            /\ view' = [o \in Offers |-> NoRow(NewOffer)]
            /\ wallet' = {}
            /\ shown' = {}
    /\ UNCHANGED <<drawn, requests, issued, granted, hidden>>

Decide(t) ==
    \/ DecideReceive(t) \/ DecideAccept(t) \/ DecideRequest(t) \/ DecideReject(t)
    \/ DecideError(t)

Proceed(t) ==
    \/ FindOffer(t) \/ Load(t) \/ Decide(t) \/ Conflict(t) \/ Commit(t)
    \/ LoadView(t) \/ StoreView(t)
    \/ ReadCredentials(t) \/ AddCredential(t) \/ ShowCredential(t)

(* What the database may do to a handler. *)
Fail(t) == ViewUpdateFails(t) \/ ShowFails(t) \/ StoreFails(t)

Next == (\E t \in Tasks : Request(t) \/ Proceed(t) \/ Fail(t) \/ Cancel(t)) \/ Crash

Spec == Init /\ [][Next]_vars

(* The runtime polls every ready task, and the issuer answers each request *)
(* or its connection fails; clients and faults are free.                   *)
FairSpec == Spec /\ \A t \in Tasks : WF_vars(Proceed(t))

-----------------------------------------------------------------------------
(* Properties *)

Statuses == {"Pending", "Accepted", "Received", "Rejected"}
OfferState == [status : Statuses, size : Sizes \union {None}, token : Nat, credential : Nat]

(* Every variable keeps its type; a command has an offer to work on. *)
TypeOK ==
    /\ offer \in [Offers -> Row(OfferState)]
    /\ view \in [Offers -> Row(OfferState)]
    /\ wallet \subseteq Nat \X Offers
    /\ shown \subseteq wallet
    /\ pc \in [Tasks -> {"idle", "find", "read", "add", "show"} \union Commands]
    /\ req \in [Tasks -> [kind : {None, "offers", "accept", "reject"}, credential : Nat,
                          offer : Offers \union {None}, size : Sizes \union {None}]]
    /\ status \in [Tasks -> {0, 200, 404, 500}]
    /\ {drawn, requests, faults} \subseteq Nat
    /\ issued \subseteq Nat \X Nat
    /\ granted \subseteq Nat \X Offers
    /\ disturbed \subseteq Offers
    /\ hidden \subseteq Nat \X Offers
    /\ \A t \in Tasks : pc[t] # "idle" => req[t].offer \in Offers

(* A credential is stored under the offer it was requested for, with a     *)
(* token the issuer granted for that very offer, although the handler      *)
(* reads it back from a view other handlers write.                         *)
StoredFromOwnOffer ==
    \A entry \in wallet : \E grant \in granted :
        /\ grant[2] = entry[2]
        /\ <<entry[1], grant[1]>> \in issued

(* On Postgres a received offer holds the token its credential was         *)
(* requested with: no second acceptance slips between the two.             *)
TokenBehindCredential ==
    Store = "postgres" => \A o \in Offers :
        LET s == offer[o].payload IN
        s.status = "Received" /\ s.credential # 0 => <<s.credential, s.token>> \in issued

(* agent_holder/src/offer/error.rs:9 "The Credential Offer has already been accepted and    *)
(* cannot be rejected anymore": on Postgres an offer whose acceptance was  *)
(* answered with 200 is not rejected afterwards, even when the rejection   *)
(* was decided before.                                                     *)
AcceptedNotRejected ==
    Store = "postgres" => \A t \in Tasks :
        req[t].kind = "accept" /\ status[t] = 200 => offer[req[t].offer].payload.status # "Rejected"

(* On Postgres the status follows its order: rejection only from Pending,  *)
(* receipt only from Accepted, and nothing leads back to Pending.          *)
StatusOrder ==
    [][Store = "postgres" => \A o \in Offers :
        LET old == offer[o].payload.status
            new == offer'[o].payload.status
        IN  new # old => <<old, new>> \in (Statuses \X {"Accepted"}) \union
                {<<"Pending", "Rejected">>, <<"Accepted", "Received">>}]_offer

(* An acceptance answered with 200 has stored a credential, when the offer *)
(* names one, unless two dispatches overlapped on the offer or a fault hit *)
(* it.  The credential is shown, too, unless the update of its own view    *)
(* failed, which the answer does not tell.                                 *)
AcceptStores ==
    \A t \in Tasks :
        /\ req[t].kind = "accept" /\ status[t] = 200
        /\ req[t].offer \notin disturbed
        /\ offer[req[t].offer].payload.size # 0
        => \E entry \in wallet : entry[2] = req[t].offer /\ entry \in shown \union hidden

(* A credential in the state of an offer gets stored at last, unless       *)
(* another one replaces it, dispatches overlapped or a fault hit the offer.*)
ReceivedGetsStored ==
    \A o \in Offers, k \in 1..(2 * MaxRequests) :
        []<>(offer[o].payload.credential = k => <<k, o>> \in shown \/ o \in disturbed)

(* Every request is answered or cut short by a fault. *)
EveryRequestAnswered == \A t \in Tasks : []<>(pc[t] = "idle")
=============================================================================
