------------------------------ MODULE Issuance ------------------------------
(***************************************************************************)
(* The issuer's REST endpoints as concurrent handlers over the Offer and   *)
(* Credential aggregates (agent_issuance) and the views they read back.    *)
(*                                                                         *)
(*   POST /v0/credentials         create a credential, add it to an offer  *)
(*   POST /v0/offers              hand out the offer's URL                 *)
(*   POST /v0/offers/send         push the offer to a wallet               *)
(*   POST /auth/token             pre-authorized code -> access token      *)
(*   POST /openid4vci/credential  verify the proof, wait for credentials,  *)
(*                                sign them, answer                        *)
(*                                                                         *)
(* An endpoint is a straight line of commands and queries; a command runs  *)
(* through the steps of CqrsPipeline (load, commit, view load, view store, *)
(* and for a created offer the two lookup rows).  An aggregate is kept as  *)
(* the fold of its log with the log's length as version; that folding the  *)
(* log and committing to it behave so is what CqrsPipeline is about.  The  *)
(* list of all instances is modelled there too.                            *)
(***************************************************************************)
EXTENDS Naturals, ViewRepository

CONSTANTS
    Offers,         \* offer ids, chosen by the client
    Creds,          \* credential ids: fresh uuids, each used by one request
    Subjects,       \* DIDs that can prove possession of their key
    Tasks,          \* concurrently running request handlers
    MaxRequests,    \* bound: requests in a behaviour
    MaxPolls,       \* polls that fit in external_server_response_timeout_ms
    MaxFaults,      \* bound: crashes, cancellations and database errors in a behaviour
    None            \* Option::None

ASSUME IssuanceBounds == {MaxRequests, MaxPolls, MaxFaults} \subseteq Nat
ASSUME IssuanceNone == None \notin Offers \union Creds \union Subjects
ASSUME SubjectsAreDids == {"null", "external"} \intersect Subjects = {}

VARIABLES
    offer,      \* offer[o]: the Offer aggregate, version = events in its log
    offerView,  \* offerView[o]: its OfferView row
    cred,       \* cred[c]: the Credential aggregate
    credView,   \* credView[c]: its CredentialView row
    index,      \* index[k]: rows <<key, offer>> of pre_authorized_code / access_token
    keys,       \* random strings drawn so far: keys are 1, 2, ...
    pc,         \* pc[t]: the command or query handler t is at
    req,        \* req[t]: the request and the locals of its handler
    exec,       \* exec[t]: the command under execution
    status,     \* status[t]: HTTP status of the last answer, 0 while there is none
    requests,   \* requests so far
    faults,     \* crashes, cancellations and database errors so far
    handed,     \* handed[k]: the <<key, offer>> that have left the agent
    attached,   \* history: <<o, c>> committed by CredentialsAdded
    verified,   \* history: <<o, s>> for which a valid proof was accepted
    unshown     \* history: credentials whose view missed an event

store == <<offer, offerView, cred, credView, index>>
history == <<attached, verified, unshown>>
vars == <<store, keys, pc, req, exec, status, requests, faults, handed, history>>

-----------------------------------------------------------------------------
(* State of the aggregates *)

(* Both random strings of an offer, and the CredentialOffer that carries   *)
(* the first, are drawn together: one key stands for all; 0 is the empty   *)
(* string.  credential_ids holds at most one id, since every AddCredentials*)
(* replaces it by a list of one.                                           *)
NewOffer == [key |-> 0, cred |-> None, subject |-> None, url |-> 0, token |-> 0, resp |-> None]

(* `signed' is None, the subject a credential was signed for, "external"   *)
(* for one that came signed, or "null": the value a failed signature       *)
(* leaves behind.                                                          *)
NewCred == [data |-> FALSE, signed |-> None]

Event(type, arg) == [type |-> type, arg |-> arg]

(* Offer::apply.  OfferView::update differs in not storing the             *)
(* CredentialOffer, which no endpoint reads.                               *)
ApplyOffer(s, e) ==
    CASE e.type = "CredentialOfferCreated"    -> [s EXCEPT !.key = e.arg]
      [] e.type = "CredentialsAdded"          -> [s EXCEPT !.cred = e.arg]
      [] e.type = "FormUrlEncodedCredentialOfferCreated" -> [s EXCEPT !.url = e.arg]
      [] e.type = "CredentialOfferSent"       -> s
      [] e.type = "CredentialRequestVerified" -> [s EXCEPT !.subject = e.arg]
      [] e.type = "TokenResponseCreated"      -> [s EXCEPT !.token = e.arg]
      [] e.type = "CredentialResponseCreated" -> [s EXCEPT !.resp = e.arg]

(* Credential::apply *)
ApplyCred(s, e) ==
    CASE e.type = "UnsignedCredentialCreated" -> [s EXCEPT !.data = TRUE]
      [] e.type = "SignedCredentialCreated"   -> [s EXCEPT !.signed = "external"]
      [] e.type = "CredentialSigned"          -> [s EXCEPT !.signed = e.arg]

(* CredentialView::update and the round trip through JSON: Some(null) is   *)
(* stored as null and read back as None.                                   *)
ApplyCredView(s, e) ==
    IF e.type = "CredentialSigned" /\ e.arg = "null"
    THEN [s EXCEPT !.signed = None]
    ELSE ApplyCred(s, e)

-----------------------------------------------------------------------------
(* The endpoints *)

Endpoints == {"credentials", "offers", "send", "token", "credential"}

ASSUME NoneIsNoEndpoint == None \notin Endpoints

OfferCommands == {"create_offer", "add_credentials", "create_form", "send_offer",
                  "create_token", "verify", "create_response"}
CredCommands  == {"create_credential", "sign"}
Commands == OfferCommands \union CredCommands

NewExec == [phase |-> "load", seen |-> None, event |-> None, copy |-> None]
NoRequest == [kind |-> None, offer |-> None, cred |-> None, signed |-> FALSE, key |-> 0,
              claim |-> None, valid |-> FALSE, subject |-> None, polls |-> 0, resp |-> None]

Init ==
    /\ offer = [o \in Offers |-> NoRow(NewOffer)]
    /\ offerView = [o \in Offers |-> NoRow(NewOffer)]
    /\ cred = [c \in Creds |-> NoRow(NewCred)]
    /\ credView = [c \in Creds |-> NoRow(NewCred)]
    /\ index = [k \in {"code", "token"} |-> {}]
    /\ keys = 0
    /\ pc = [t \in Tasks |-> "idle"]
    /\ req = [t \in Tasks |-> NoRequest]
    /\ exec = [t \in Tasks |-> NewExec]
    /\ status = [t \in Tasks |-> 0]
    /\ requests = 0
    /\ faults = 0
    /\ handed = [k \in {"code", "token"} |-> {}]
    /\ attached = {}
    /\ verified = {}
    /\ unshown = {}

Goto(t, where) ==
    /\ pc' = [pc EXCEPT ![t] = where]
    /\ exec' = [exec EXCEPT ![t] = NewExec]

Answer(t, code) ==
    /\ Goto(t, "idle")
    /\ status' = [status EXCEPT ![t] = code]

(* A client calls an endpoint; the handler starts.  (A request that is     *)
(* malformed or names an unknown configuration is answered at once.)       *)
Start(t, kind, where, r) ==
    /\ pc[t] = "idle"
    /\ requests < MaxRequests
    /\ requests' = requests + 1
    /\ req' = [req EXCEPT ![t] = [r EXCEPT !.kind = kind]]
    /\ status' = [status EXCEPT ![t] = 0]
    /\ Goto(t, where)
    /\ UNCHANGED <<store, keys, faults, handed, history>>

(* The uuid drawn for a credential is one that was never used. *)
Fresh(c) ==
    /\ cred[c].version = 0
    /\ \A u \in Tasks : req[u].cred # c
    /\ \A o \in Offers : <<o, c>> \notin attached

(* Mutant: the id is added before the credential is created. *)
PostCredentialsAddsFirst(t, o, c, signed) ==
    /\ Fresh(c)
    /\ Start(t, "credentials", "read_offer",
             [NoRequest EXCEPT !.offer = o, !.cred = c, !.signed = signed])

PostCredentials(t, o, c, signed) ==
    /\ Fresh(c)
    /\ Start(t, "credentials", "create_credential",
             [NoRequest EXCEPT !.offer = o, !.cred = c, !.signed = signed])

PostOffers(t, o) == Start(t, "offers", "read_offer", [NoRequest EXCEPT !.offer = o])

PostSend(t, o) == Start(t, "send", "send_offer", [NoRequest EXCEPT !.offer = o])

(* A wallet presents a code it was handed, or an access token it was       *)
(* handed together with a proof, which claims a subject and is valid or    *)
(* not.                                                                    *)
PostToken(t, k) ==
    /\ \E o \in Offers : <<k, o>> \in handed["code"]
    /\ Start(t, "token", "lookup_code", [NoRequest EXCEPT !.key = k])

PostCredential(t, k, claim, valid) ==
    /\ \E o \in Offers : <<k, o>> \in handed["token"]
    /\ Start(t, "credential", "lookup_token",
             [NoRequest EXCEPT !.key = k, !.claim = claim, !.valid = valid])

Request(t) ==
    \/ \E o \in Offers, c \in Creds, signed \in BOOLEAN : PostCredentials(t, o, c, signed)
    \/ \E o \in Offers : PostOffers(t, o) \/ PostSend(t, o)
    \/ \E k \in 1..keys : PostToken(t, k)
    \/ \E k \in 1..keys, claim \in Subjects, valid \in BOOLEAN : PostCredential(t, k, claim, valid)

-----------------------------------------------------------------------------
(* Commands: Aggregate::handle *)

Error   == Event("Error", None)     \* handle returns Err
Nothing == Event("Nothing", None)   \* handle returns Ok with no events

(* SignCredential { overwrite: false }: the signature may fail, its error  *)
(* is turned into the value null.                                          *)
SignOutcomes(s, subject) ==
    IF s.signed # None
    THEN {Nothing}
    ELSE IF ~s.data
    THEN {Error}
    ELSE {Event("CredentialSigned", subject), Event("CredentialSigned", "null")}

(* Mutant: the claim is believed. *)
VerifyNothing(claim, valid) == {Event("CredentialRequestVerified", claim)}

(* VerifyCredentialRequest: the proof's issuer becomes the subject. *)
VerifyOutcomes(claim, valid) ==
    {IF valid THEN Event("CredentialRequestVerified", claim) ELSE Error}

(* What the command handler t is at may turn into, decided on state s.     *)
Outcomes(t, s) ==
    CASE pc[t] = "create_offer"    -> {Event("CredentialOfferCreated", keys + 1)}
      [] pc[t] = "add_credentials" -> {Event("CredentialsAdded", req[t].cred)}
      [] pc[t] = "create_form"     ->
            {IF s.key = 0 THEN Error ELSE Event("FormUrlEncodedCredentialOfferCreated", s.key)}
      [] pc[t] = "send_offer"      ->
            IF s.key = 0 THEN {Error} ELSE {Event("CredentialOfferSent", s.key), Error}
      [] pc[t] = "create_token"    -> {Event("TokenResponseCreated", s.key)}
      [] pc[t] = "verify"          ->
            VerifyOutcomes(req[t].claim, req[t].valid)
      [] pc[t] = "create_response" -> {Event("CredentialResponseCreated", req[t].resp)}
      [] pc[t] = "create_credential" ->
            IF req[t].signed
            THEN {Event("SignedCredentialCreated", None)}
            ELSE {Event("UnsignedCredentialCreated", None), Error}
      [] pc[t] = "sign"            -> SignOutcomes(s, req[t].subject)

-----------------------------------------------------------------------------
(* What an endpoint does after a command has returned *)

(* In these three places POST /openid4vci/credential builds an error       *)
(* response but does not return it.                                        *)
IgnoresError == {"verify", "sign", "create_response"}

Successor(t) ==
    [create_credential |-> "read_offer",
     create_offer      |-> IF req[t].kind = "offers" THEN "create_form" ELSE "add_credentials",
     add_credentials   |-> "read_credential",
     create_form       |-> "read_url",
     create_token      |-> "read_token",
     verify            |-> "poll",
     sign              |-> "read_signed",
     create_response   |-> "read_response"]

Return(t, ok) ==
    IF ~ok /\ pc[t] \notin IgnoresError
    THEN Answer(t, 500)
    ELSE IF pc[t] = "send_offer"
    THEN Answer(t, 200)
    ELSE Goto(t, Successor(t)[pc[t]]) /\ UNCHANGED status

-----------------------------------------------------------------------------
(* Executing a command *)

At(t, phase) == pc[t] \in Commands /\ exec[t].phase = phase

OnOffer(t) == pc[t] \in OfferCommands

(* Loads the aggregate. *)
Load(t) ==
    /\ At(t, "load")
    /\ exec' = [exec EXCEPT
            ![t].seen = IF OnOffer(t) THEN offer[req[t].offer] ELSE cred[req[t].cred],
            ![t].phase = "commit"]
    /\ UNCHANGED <<store, keys, pc, req, status, requests, faults, handed, history>>

(* Mutant: the version is not compared. *)
NeverStale(t) == FALSE

(* Postgres refuses events decided on a state that is no longer current. *)
Stale(t) ==
    /\ Store = "postgres"
    /\ exec[t].seen.version #
            (IF OnOffer(t) THEN offer[req[t].offer] ELSE cred[req[t].cred]).version

(* SendCredentialOffer performs its request while it decides: the wallet   *)
(* has the offer if it answers, even if the commit then fails, and may     *)
(* have it if there is no answer or an error.                              *)
Delivers(t, e) ==
    \/ /\ pc[t] = "send_offer" /\ exec[t].seen.payload.key # 0
       /\ handed' = [handed EXCEPT !["code"] =
                @ \union {<<exec[t].seen.payload.key, req[t].offer>>}]
    \/ e.type # "CredentialOfferSent" /\ UNCHANGED handed

(* The command is refused, changes nothing, or comes too late. *)
NoCommit(t) ==
    /\ At(t, "commit")
    /\ \E e \in Outcomes(t, exec[t].seen.payload) :
        /\ e \in {Error, Nothing} \/ Stale(t)
        /\ Delivers(t, e)
        /\ Return(t, e = Nothing)
    /\ UNCHANGED <<store, keys, req, requests, faults, history>>

CommitOffer(t) ==
    LET o == req[t].offer IN
    /\ At(t, "commit") /\ OnOffer(t)
    /\ ~Stale(t)
    /\ \E e \in Outcomes(t, exec[t].seen.payload) \ {Error, Nothing} :
        /\ offer' = [offer EXCEPT ![o] =
                [version |-> @.version + 1, payload |-> ApplyOffer(@.payload, e)]]
        /\ exec' = [exec EXCEPT ![t].event = e, ![t].phase = "view"]
        /\ keys' = IF e.type = "CredentialOfferCreated" THEN keys + 1 ELSE keys
        /\ attached' = IF e.type = "CredentialsAdded"
                       THEN attached \union {<<o, e.arg>>} ELSE attached
        /\ verified' = IF e.type = "CredentialRequestVerified" /\ req[t].valid
                       THEN verified \union {<<o, e.arg>>} ELSE verified
        /\ Delivers(t, e)
    /\ UNCHANGED <<offerView, cred, credView, index, pc, req, status, requests, faults, unshown>>

CommitCred(t) ==
    LET c == req[t].cred IN
    /\ At(t, "commit") /\ ~OnOffer(t)
    /\ ~Stale(t)
    /\ \E e \in Outcomes(t, exec[t].seen.payload) \ {Error, Nothing} :
        /\ cred' = [cred EXCEPT ![c] =
                [version |-> @.version + 1, payload |-> ApplyCred(@.payload, e)]]
        /\ exec' = [exec EXCEPT ![t].event = e, ![t].phase = "view"]
    /\ UNCHANGED <<offer, offerView, credView, index, keys, pc, req, status, requests,
                   faults, handed, history>>

(* The database cannot be reached; a MemStore never fails. *)
DatabaseError ==
    /\ Store = "postgres"
    /\ faults < MaxFaults
    /\ faults' = faults + 1

(* ... when the command loads its aggregate or commits its event. *)
StoreFails(t) ==
    /\ DatabaseError
    /\ \/ At(t, "load") /\ UNCHANGED handed
       \/ At(t, "commit") /\ \E e \in Outcomes(t, exec[t].seen.payload) : Delivers(t, e)
    /\ Return(t, FALSE)
    /\ UNCHANGED <<store, keys, req, requests, history>>

(* GenericQuery on the aggregate's view. *)
LoadView(t) ==
    /\ At(t, "view")
    /\ exec' = [exec EXCEPT
            ![t].copy = IF OnOffer(t) THEN offerView[req[t].offer] ELSE credView[req[t].cred],
            ![t].phase = "view_store"]
    /\ UNCHANGED <<store, keys, pc, req, status, requests, faults, handed, history>>

(* After the view only a created offer has more rows to write. *)
StoreView(t) ==
    LET x == exec[t] IN
    /\ At(t, "view_store")
    /\ IF OnOffer(t)
       THEN /\ offerView' = [offerView EXCEPT ![req[t].offer] =
                    UpdateView(@, x.copy, ApplyOffer(x.copy.payload, x.event))]
            /\ UNCHANGED credView
       ELSE /\ credView' = [credView EXCEPT ![req[t].cred] =
                    UpdateView(@, x.copy, ApplyCredView(x.copy.payload, x.event))]
            /\ UNCHANGED offerView
    /\ IF x.event.type = "CredentialOfferCreated"
       THEN /\ exec' = [exec EXCEPT ![t].phase = "code"]
            /\ UNCHANGED <<pc, status>>
       ELSE Return(t, TRUE)
    /\ UNCHANGED <<offer, cred, index, keys, req, requests, faults, handed, history>>

(* Mutants: either query is missing. *)
IndexCodeLast(t) ==
    /\ At(t, "code")
    /\ index' = [index EXCEPT !["code"] = @ \union {<<exec[t].event.arg, req[t].offer>>}]
    /\ Return(t, TRUE)
    /\ UNCHANGED <<offer, offerView, cred, credView, keys, req, requests, faults, handed,
                   history>>

IndexNoCode(t) ==
    /\ At(t, "code")
    /\ exec' = [exec EXCEPT ![t].phase = "token"]
    /\ UNCHANGED <<store, keys, pc, req, status, requests, faults, handed, history>>

(* PreAuthorizedCodeQuery, then AccessTokenQuery. *)
IndexCode(t) ==
    /\ At(t, "code")
    /\ index' = [index EXCEPT !["code"] = @ \union {<<exec[t].event.arg, req[t].offer>>}]
    /\ exec' = [exec EXCEPT ![t].phase = "token"]
    /\ UNCHANGED <<offer, offerView, cred, credView, keys, pc, req, status, requests,
                   faults, handed, history>>

IndexToken(t) ==
    /\ At(t, "token")
    /\ index' = [index EXCEPT !["token"] = @ \union {<<exec[t].event.arg, req[t].offer>>}]
    /\ Return(t, TRUE)
    /\ UNCHANGED <<offer, offerView, cred, credView, keys, req, requests, faults, handed,
                   history>>

(* A row cannot be read or written: the error is printed and the next query*)
(* runs, if there is one; the command has succeeded.                       *)
ViewUpdateFails(t) ==
    /\ DatabaseError
    /\ pc[t] \in Commands /\ exec[t].phase \in {"view", "view_store", "code", "token"}
    /\ IF exec[t].event.type = "CredentialOfferCreated" /\ exec[t].phase # "token"
       THEN /\ exec' = [exec EXCEPT ![t].phase = IF @ = "code" THEN "token" ELSE "code"]
            /\ UNCHANGED <<pc, status>>
       ELSE Return(t, TRUE)
    /\ unshown' = IF OnOffer(t) THEN unshown ELSE unshown \union {req[t].cred}
    /\ UNCHANGED <<store, keys, req, requests, handed, attached, verified>>

-----------------------------------------------------------------------------
(* Queries: an endpoint reads a view and decides how to go on *)

Queries == {"read_offer", "read_credential", "read_url", "lookup_code", "lookup_token",
            "read_token", "poll", "read_signed", "read_response"}

Reading(t, where) ==
    /\ pc[t] = where
    /\ UNCHANGED <<store, keys, requests, faults, history>>

OfferRow(t) == offerView[req[t].offer]
CredRow(t)  == credView[req[t].cred]

(* "Create an offer if it does not exist yet": decided on the view. *)
ReadOffer(t) ==
    /\ Reading(t, "read_offer")
    /\ Goto(t, IF OfferRow(t).version = 0 THEN "create_offer" ELSE Successor(t)["create_offer"])
    /\ UNCHANGED <<req, status, handed>>

(* POST /v0/credentials answers with the unsigned data of the credential.  *)
ReadCredential(t) ==
    /\ Reading(t, "read_credential")
    /\ Answer(t, IF CredRow(t).payload.data THEN 201 ELSE 500)
    /\ UNCHANGED <<req, handed>>

(* POST /v0/offers answers with the URL in the view, the empty one too. *)
ReadUrl(t) ==
    LET k == OfferRow(t).payload.url IN
    /\ Reading(t, "read_url")
    /\ IF OfferRow(t).version = 0
       THEN Answer(t, 500) /\ UNCHANGED <<req, handed>>
       ELSE /\ Answer(t, 200)
            /\ req' = [req EXCEPT ![t].key = k]
            /\ handed' = IF k = 0 THEN handed
                         ELSE [handed EXCEPT !["code"] = @ \union {<<k, req[t].offer>>}]

(* Mutants: the offer found is not kept; any offer will do. *)
LookupForgets(t, k, next, failure) == Goto(t, next) /\ UNCHANGED <<req, status>>

LookupAny(t, k, next, failure) ==
    \E row \in index[k] :
        /\ req' = [req EXCEPT ![t].offer = row[2]]
        /\ Goto(t, next)
        /\ UNCHANGED status

(* The two lookups lead from the key to the offer it was drawn for. *)
Lookup(t, k, next, failure) ==
    \/ \E o \in Offers :
        /\ <<req[t].key, o>> \in index[k]
        /\ req' = [req EXCEPT ![t].offer = o]
        /\ Goto(t, next)
        /\ UNCHANGED status
    \/ /\ \A o \in Offers : <<req[t].key, o>> \notin index[k]
       /\ Answer(t, failure)
       /\ UNCHANGED req

LookupCode(t) ==
    Reading(t, "lookup_code") /\ Lookup(t, "code", "create_token", 500) /\ UNCHANGED handed

LookupToken(t) ==
    Reading(t, "lookup_token") /\ Lookup(t, "token", "verify", 401) /\ UNCHANGED handed

ReadToken(t) ==
    LET k == OfferRow(t).payload.token IN
    /\ Reading(t, "read_token")
    /\ IF k = 0
       THEN Answer(t, 500) /\ UNCHANGED handed
       ELSE /\ Answer(t, 200)
            /\ handed' = [handed EXCEPT !["token"] = @ \union {<<k, req[t].offer>>}]
    /\ UNCHANGED req

(* POST /openid4vci/credential polls the view until an id is in it. *)
PollWaits(t) ==
    /\ Reading(t, "poll")
    /\ OfferRow(t).version > 0 /\ OfferRow(t).payload.cred = None
    /\ req[t].polls < MaxPolls
    /\ req' = [req EXCEPT ![t].polls = @ + 1]
    /\ UNCHANGED <<pc, exec, status, handed>>

(* Mutant: no timeout. *)
PollTimesOutNever(t) ==
    /\ Reading(t, "poll")
    /\ OfferRow(t).version = 0
    /\ Answer(t, 500)
    /\ UNCHANGED <<req, handed>>

(* The clock decides when it gives up; an absent view ends it at once. *)
PollTimesOut(t) ==
    /\ Reading(t, "poll")
    /\ OfferRow(t).payload.cred = None
    /\ Answer(t, 500)
    /\ UNCHANGED <<req, handed>>

PollEnds(t) ==
    LET v == OfferRow(t).payload IN
    /\ Reading(t, "poll")
    /\ v.cred # None
    /\ IF v.subject = None
       THEN Answer(t, 500) /\ UNCHANGED req
       ELSE /\ req' = [req EXCEPT ![t].cred = v.cred, ![t].subject = v.subject]
            /\ Goto(t, "sign")
            /\ UNCHANGED status
    /\ UNCHANGED handed

ReadSigned(t) ==
    LET signature == CredRow(t).payload.signed IN
    /\ Reading(t, "read_signed")
    /\ IF signature = None
       THEN Answer(t, 500) /\ UNCHANGED req
       ELSE /\ req' = [req EXCEPT ![t].resp = [cred |-> req[t].cred, signed |-> signature]]
            /\ Goto(t, "create_response")
            /\ UNCHANGED status
    /\ UNCHANGED handed

(* The answer is the response in the view, whoever put it there. *)
ReadResponse(t) ==
    LET r == OfferRow(t).payload.resp IN
    /\ Reading(t, "read_response")
    /\ IF r = None
       THEN Answer(t, 500) /\ UNCHANGED req
       ELSE Answer(t, 200) /\ req' = [req EXCEPT ![t].resp = r]
    /\ UNCHANGED handed

(* A query fails: the offer is taken for absent and created, a token for   *)
(* unknown, and the other endpoints give up.                               *)
QueryFails(t) ==
    /\ DatabaseError
    /\ pc[t] \in Queries
    /\ IF pc[t] = "read_offer"
       THEN Goto(t, "create_offer") /\ UNCHANGED status
       ELSE Answer(t, IF pc[t] = "lookup_token" THEN 401 ELSE 500)
    /\ UNCHANGED <<store, keys, req, requests, handed, history>>

(* The HTTP server drops a handler whose client has gone, at whatever      *)
(* await it is.                                                            *)
Cancel(t) ==
    /\ pc[t] # "idle"
    /\ faults < MaxFaults
    /\ faults' = faults + 1
    /\ Goto(t, "idle")
    /\ UNCHANGED <<store, keys, req, status, requests, handed, history>>

(* The process restarts: handlers are gone, dispatches are not resumed.    *)
Crash ==
    /\ faults < MaxFaults
    /\ faults' = faults + 1
    /\ pc' = [t \in Tasks |-> "idle"]
    /\ req' = [t \in Tasks |-> NoRequest]
    /\ exec' = [t \in Tasks |-> NewExec]
    /\ status' = [t \in Tasks |-> 0]
    /\ IF Store = "postgres"
       THEN UNCHANGED store
       ELSE /\ offer' = [o \in Offers |-> NoRow(NewOffer)]
            /\ offerView' = [o \in Offers |-> NoRow(NewOffer)]
            /\ cred' = [c \in Creds |-> NoRow(NewCred)]
            /\ credView' = [c \in Creds |-> NoRow(NewCred)]
            /\ index' = [k \in {"code", "token"} |-> {}]
    /\ UNCHANGED <<keys, requests, handed, history>>

-----------------------------------------------------------------------------
Execute(t) ==
    \/ Load(t) \/ NoCommit(t) \/ CommitOffer(t) \/ CommitCred(t)
    \/ LoadView(t) \/ StoreView(t) \/ IndexCode(t) \/ IndexToken(t)

Query(t) ==
    \/ ReadOffer(t) \/ ReadCredential(t) \/ ReadUrl(t)
    \/ LookupCode(t) \/ LookupToken(t) \/ ReadToken(t)
    \/ PollWaits(t) \/ PollTimesOut(t) \/ PollEnds(t)
    \/ ReadSigned(t) \/ ReadResponse(t)

Proceed(t) == Execute(t) \/ Query(t)

(* What the database may do to a handler. *)
Fail(t) == StoreFails(t) \/ ViewUpdateFails(t) \/ QueryFails(t)

Next == (\E t \in Tasks : Request(t) \/ Proceed(t) \/ Fail(t) \/ Cancel(t)) \/ Crash

Spec == Init /\ [][Next]_vars

(* The runtime polls every ready task and the poll timer fires; clients,   *)
(* wallets and crashes are free.                                           *)
FairSpec == Spec /\ \A t \in Tasks : WF_vars(Proceed(t))

-----------------------------------------------------------------------------
(* Properties *)

Signatures == Subjects \union {"null", "external"}
Responses  == [cred : Creds, signed : Subjects \union {"external"}]
OfferState == [key : Nat, cred : Creds \union {None}, subject : Subjects \union {None},
               url : Nat, token : Nat, resp : Responses \union {None}]
CredState  == [data : BOOLEAN, signed : Signatures \union {None}]
Lookups    == [{"code", "token"} -> SUBSET (Nat \X Offers)]

(* Every variable keeps its type; a command has an aggregate to work on. *)
TypeOK ==
    /\ offer \in [Offers -> Row(OfferState)]
    /\ offerView \in [Offers -> Row(OfferState)]
    /\ cred \in [Creds -> Row(CredState)]
    /\ credView \in [Creds -> Row(CredState)]
    /\ index \in Lookups
    /\ handed \in Lookups
    /\ pc \in [Tasks -> {"idle"} \union Commands \union Queries]
    /\ req \in [Tasks -> [kind : Endpoints \union {None}, offer : Offers \union {None},
                          cred : Creds \union {None}, signed : BOOLEAN, key : Nat,
                          claim : Subjects \union {None}, valid : BOOLEAN,
                          subject : Subjects \union {None}, polls : Nat,
                          resp : Responses \union {None}]]
    /\ status \in [Tasks -> {0, 200, 201, 401, 500}]
    /\ {keys, requests, faults} \subseteq Nat
    /\ attached \subseteq Offers \X Creds
    /\ verified \subseteq Offers \X Subjects
    /\ unshown \subseteq Creds
    /\ \A t \in Tasks : pc[t] \in OfferCommands => req[t].offer \in Offers
    /\ \A t \in Tasks : pc[t] \in CredCommands => req[t].cred \in Creds

(* The agent signs a credential only for a subject that proved possession  *)
(* of its key for an offer the credential was added to: although the       *)
(* subject and the id are read from a view other handlers write, and the   *)
(* result of the verification is ignored.                                  *)
SignedForProver ==
    \A c \in Creds : cred[c].payload.signed \in Subjects =>
        \E o \in Offers : /\ <<o, c>> \in attached
                          /\ <<o, cred[c].payload.signed>> \in verified

(* What POST /openid4vci/credential hands out was added to the offer of    *)
(* the access token it was asked with, never to another one, and was       *)
(* signed outside or for a subject verified for that offer.                *)
AnswersFromOwnOffer ==
    \A t \in Tasks : req[t].kind = "credential" /\ status[t] = 200 =>
        \E o \in Offers :
            /\ <<req[t].key, o>> \in handed["token"]
            /\ <<o, req[t].resp.cred>> \in attached
            /\ req[t].resp.signed \in Subjects => <<o, req[t].resp.signed>> \in verified

(* An id in an OfferView can be read as a credential: POST /v0/credentials *)
(* creates the credential, its view included, before it adds the id.  Only *)
(* a failed update of that very view, which the handler is not told of,    *)
(* makes an id dangle: no overlap, crash, cancellation or other error does.*)
ListedCredentialsExist ==
    \A o \in Offers : LET c == offerView[o].payload.cred IN
        c # None => credView[c].version > 0 \/ c \in unshown

(* A code or token that has left the agent is found by the lookup it is    *)
(* for, or will be as soon as the handler that drew it gets on: dispatches *)
(* that overlap never make an offer unredeemable, only a fault does.       *)
Indexing(t, key) ==
    /\ pc[t] = "create_offer"
    /\ exec[t].phase \notin {"load", "commit"}
    /\ <<exec[t].event.arg, req[t].offer>> = key

KeysResolve ==
    faults = 0 => \A k \in {"code", "token"} : \A key \in handed[k] :
        key \in index[k] \/ \E t \in Tasks : Indexing(t, key)

(* On Postgres a signature, good or null, is final: SignCredential is sent *)
(* without `overwrite' and two requests cannot both find it missing.       *)
SignatureFinal ==
    [][\A c \in Creds : cred[c].payload.signed # None =>
            cred'[c].payload.signed = cred[c].payload.signed]_cred

(* Every request is answered: the poll for credentials gives up in time. *)
EveryRequestAnswered == \A t \in Tasks : []<>(pc[t] = "idle")

(* A wallet that was handed a code finds it usable at last, whatever       *)
(* overlapped, unless a handler was cut short.                             *)
CodesBecomeUsable ==
    \A o \in Offers, k \in 1..MaxRequests :
        []<>(<<k, o>> \in handed["code"] => <<k, o>> \in index["code"] \/ faults > 0)

-----------------------------------------------------------------------------
(* What the repository says of these endpoints *)

(* agent_api_rest/src/issuance/credential_issuer/credential.rs:65 "Use the *)
(* `offer_id` to verify the `proof` inside the `CredentialRequest`.": a    *)
(* request whose proof does not verify should get no credential.           *)
InvalidProofGetsNothing ==
    \A t \in Tasks : req[t].kind = "credential" /\ ~req[t].valid => status[t] # 200

(* agent_api_rest/src/issuance/offers/mod.rs:43 "Create an offer if it     *)
(* does not exist yet.": an offer should be created once.                  *)
CreatedOnce == \A o \in Offers : \A k, l \in 1..keys :
    <<k, o>> \in index["code"] /\ <<l, o>> \in index["code"] => k = l
=============================================================================
