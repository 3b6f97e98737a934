--------------------------- MODULE IssuanceProofs ---------------------------
(***************************************************************************)
(* Proofs about issuance: every state is well typed; what an offer lists,  *)
(* signs and hands out is its own; keys resolve; a signature is final.     *)
(***************************************************************************)
EXTENDS Issuance, TLAPS

(* What the command at c may emit. *)
EventsOf(c) ==
    CASE c = "create_offer"    -> [type : {"CredentialOfferCreated"}, arg : Nat]
      [] c = "add_credentials" -> [type : {"CredentialsAdded"}, arg : Creds]
      [] c = "create_form"     -> [type : {"FormUrlEncodedCredentialOfferCreated"}, arg : Nat]
      [] c = "send_offer"      -> [type : {"CredentialOfferSent"}, arg : Nat]
      [] c = "create_token"    -> [type : {"TokenResponseCreated"}, arg : Nat]
      [] c = "verify"          -> [type : {"CredentialRequestVerified"}, arg : Subjects]
      [] c = "create_response" -> [type : {"CredentialResponseCreated"}, arg : Responses]
      [] c = "create_credential" ->
            [type : {"UnsignedCredentialCreated", "SignedCredentialCreated"}, arg : {None}]
      [] c = "sign"            -> [type : {"CredentialSigned"}, arg : Subjects \union {"null"}]

Events == UNION {EventsOf(c) : c \in Commands}

(* The null of a failed signature does not survive in a view. *)
CredViewState == [data : BOOLEAN, signed : Subjects \union {"external", None}]

SeenBy(c) == IF c \in OfferCommands THEN Row(OfferState) ELSE Row(CredState)
CopyOf(c) == IF c \in OfferCommands THEN Row(OfferState) ELSE Row(CredViewState)

(* Handler at c, executing x: a command has what its phase works with. *)
Executing(c, x) ==
    /\ x.phase # "load" => c \in Commands /\ x.seen \in SeenBy(c)
    /\ x.phase \notin {"load", "commit"} => x.event \in EventsOf(c)
    /\ x.phase = "view_store" => x.copy \in CopyOf(c)
    /\ x.phase \in {"code", "token"} => c = "create_offer"

(* Handler at c, with locals r: it has what it will work with. *)
Equipped(c, r) ==
    /\ c \notin {"idle", "lookup_code", "lookup_token"} => r.offer \in Offers
    /\ c \in {"create_credential", "add_credentials", "read_credential", "sign", "read_signed"}
        => r.cred \in Creds
    /\ c \in {"create_credential", "add_credentials", "read_credential"} => r.kind = "credentials"
    /\ c \in {"read_offer", "create_offer"} =>
        r.kind = "offers" \/ (r.kind = "credentials" /\ r.cred \in Creds)
    /\ c \in {"lookup_token", "verify"} => r.claim \in Subjects
    /\ c = "sign" => r.subject \in Subjects
    /\ c = "create_response" => r.resp \in Responses

Places == {"idle"} \union Commands \union Queries
Locals == [kind : Endpoints \union {None}, offer : Offers \union {None},
           cred : Creds \union {None}, signed : BOOLEAN, key : Nat,
           claim : Subjects \union {None}, valid : BOOLEAN,
           subject : Subjects \union {None}, polls : Nat, resp : Responses \union {None}]
Execs == [phase : {"load", "commit", "view", "view_store", "code", "token"},
          seen : Row(OfferState) \union Row(CredState) \union {None},
          event : Events \union {None},
          copy : Row(OfferState) \union Row(CredViewState) \union {None}]

StoreType ==
    /\ offer \in [Offers -> Row(OfferState)]
    /\ offerView \in [Offers -> Row(OfferState)]
    /\ cred \in [Creds -> Row(CredState)]
    /\ credView \in [Creds -> Row(CredViewState)]
    /\ index \in Lookups

TaskType ==
    /\ pc \in [Tasks -> Places]
    /\ req \in [Tasks -> Locals]
    /\ exec \in [Tasks -> Execs]
    /\ \A t \in Tasks : Executing(pc[t], exec[t]) /\ Equipped(pc[t], req[t])

RestType ==
    /\ handed \in Lookups
    /\ attached \subseteq Offers \X Creds
    /\ verified \subseteq Offers \X Subjects
    /\ unshown \subseteq Creds
    /\ status \in [Tasks -> {0, 200, 201, 401, 500}]
    /\ {keys, requests, faults} \subseteq Nat

TypeInv == StoreType /\ TaskType /\ RestType

-----------------------------------------------------------------------------
(* Types of the operators *)

LEMMA NewTypes ==
    /\ NoRow(NewOffer) \in Row(OfferState)
    /\ NoRow(NewCred) \in Row(CredState) /\ NoRow(NewCred) \in Row(CredViewState)
    /\ NewExec \in Execs /\ NoRequest \in Locals
    /\ \A c : Executing(c, NewExec)
    /\ \A r : Equipped("idle", r)
BY DEF NewOffer, NewCred, OfferState, CredState, CredViewState, NoRow, Row, NewExec, Execs,
       NoRequest, Locals, Executing, Equipped, Signatures

LEMMA ApplyOfferType ==
    ASSUME NEW c \in OfferCommands, NEW s \in OfferState, NEW e \in EventsOf(c)
    PROVE  ApplyOffer(s, e) \in OfferState
BY DEF OfferCommands, ApplyOffer, OfferState, EventsOf

LEMMA ApplyCredType ==
    ASSUME NEW c \in CredCommands, NEW e \in EventsOf(c)
    PROVE  /\ \A s \in CredState : ApplyCred(s, e) \in CredState
           /\ \A s \in CredViewState : ApplyCredView(s, e) \in CredViewState
BY DEF CredCommands, ApplyCred, ApplyCredView, CredState, CredViewState, EventsOf, Signatures

LEMMA UpdateViewType ==
    ASSUME NEW S, NEW row \in Row(S), NEW copy \in Row(S), NEW p \in S
    PROVE  UpdateView(row, copy, p) \in Row(S)
BY DEF UpdateView, Row

(* Where a handler may be after its command. *)
Follows(c, r, w) ==
    \/ w = "idle"
    \/ c = "create_credential" /\ w = "read_offer"
    \/ c = "create_offer" /\ r.kind = "offers" /\ w = "create_form"
    \/ c = "create_offer" /\ r.kind # "offers" /\ w = "add_credentials"
    \/ c = "add_credentials" /\ w = "read_credential"
    \/ c = "create_form" /\ w = "read_url"
    \/ c = "create_token" /\ w = "read_token"
    \/ c = "verify" /\ w = "poll"
    \/ c = "sign" /\ w = "read_signed"
    \/ c = "create_response" /\ w = "read_response"

LEMMA ReturnFollows ==
    ASSUME NEW t \in Tasks, NEW ok, pc[t] \in Commands, Return(t, ok)
    PROVE  \E w \in Places : /\ Follows(pc[t], req[t], w) /\ Goto(t, w)
                             /\ (w = "idle" /\ \E n \in {200, 500} : status' = [status EXCEPT ![t] = n])
                                \/ (w # "idle" /\ status' = status)
                             /\ ~ok /\ pc[t] \notin IgnoresError => w = "idle"
                             /\ w = "idle" => pc[t] \notin IgnoresError
<1>1. CASE ~ok /\ pc[t] \notin IgnoresError
    BY <1>1 DEF Return, Answer, Follows, Places
<1>2. CASE ~(~ok /\ pc[t] \notin IgnoresError) /\ pc[t] = "send_offer"
    BY <1>2 DEF Return, Answer, Follows, Places, IgnoresError
<1>3. CASE ~(~ok /\ pc[t] \notin IgnoresError) /\ pc[t] # "send_offer"
    <2>1. Goto(t, Successor(t)[pc[t]]) /\ status' = status
        BY <1>3 DEF Return
    <2>2. /\ Follows(pc[t], req[t], Successor(t)[pc[t]]) /\ Successor(t)[pc[t]] \in Places
          /\ Successor(t)[pc[t]] # "idle"
        BY <1>3 DEF Successor, Follows, Places, Commands, OfferCommands, CredCommands, Queries
    <2> QED
        BY <1>3, <2>1, <2>2
<1> QED
    BY <1>1, <1>2, <1>3

LEMMA FollowsEquipped ==
    ASSUME NEW c \in Commands, NEW r, NEW w, Equipped(c, r), Follows(c, r, w)
    PROVE  Equipped(w, r)
BY DEF Commands, OfferCommands, CredCommands, Equipped, Follows

LEMMA OutcomeType ==
    ASSUME TypeInv, NEW t \in Tasks, pc[t] \in Commands, exec[t].phase = "commit",
           NEW e \in Outcomes(t, exec[t].seen.payload), e \notin {Error, Nothing}
    PROVE  e \in EventsOf(pc[t]) /\ e \in Events
<1>t. Executing(pc[t], exec[t]) /\ Equipped(pc[t], req[t])
    BY DEF TypeInv, TaskType
<1> DEFINE s == exec[t].seen.payload
<1> SUFFICES e \in EventsOf(pc[t])
    BY DEF Events
<1>1. CASE pc[t] = "create_offer"
    <2>1. e = Event("CredentialOfferCreated", keys + 1)
        BY <1>1 DEF Outcomes
    <2> QED
        BY <1>1, <2>1 DEF EventsOf, Event, TypeInv, RestType
<1>2. CASE pc[t] = "add_credentials"
    <2>1. e = Event("CredentialsAdded", req[t].cred)
        BY <1>2 DEF Outcomes
    <2> QED
        BY <1>t, <1>2, <2>1 DEF EventsOf, Event, Equipped
<1>3. CASE pc[t] \in {"create_form", "send_offer", "create_token"}
    <2>1. s.key \in Nat
        BY <1>t, <1>3 DEF Executing, SeenBy, OfferCommands, Row, OfferState
    <2> QED
        BY <1>3, <2>1 DEF Outcomes, EventsOf, Event, Error
<1>4. CASE pc[t] = "verify"
    BY <1>t, <1>4 DEF Outcomes, VerifyOutcomes, EventsOf, Event, Error, Equipped
<1>5. CASE pc[t] = "create_response"
    <2>1. e = Event("CredentialResponseCreated", req[t].resp)
        BY <1>5 DEF Outcomes
    <2> QED
        BY <1>t, <1>5, <2>1 DEF EventsOf, Event, Equipped
<1>6. CASE pc[t] = "create_credential"
    BY <1>6 DEF Outcomes, EventsOf, Event, Error
<1>7. CASE pc[t] = "sign"
    BY <1>t, <1>7 DEF Outcomes, SignOutcomes, EventsOf, Event, Error, Nothing, Equipped
<1> QED
    BY <1>1, <1>2, <1>3, <1>4, <1>5, <1>6, <1>7 DEF Commands, OfferCommands, CredCommands, Events

(* What an exchange with the wallet leaves it with: the code of the offer  *)
(* as the command saw it, or nothing new.                                  *)
Code(t) == <<exec[t].seen.payload.key, req[t].offer>>

LEMMA DeliversCode ==
    ASSUME TypeInv, NEW t \in Tasks, pc[t] \in Commands, exec[t].phase = "commit",
           NEW e, Delivers(t, e)
    PROVE  /\ handed' \in Lookups
           /\ \/ handed' = handed
              \/ /\ pc[t] = "send_offer" /\ exec[t].seen.payload.key # 0
                 /\ handed' = [handed EXCEPT !["code"] = @ \union {Code(t)}]
<1>t. Executing(pc[t], exec[t]) /\ Equipped(pc[t], req[t]) /\ handed \in Lookups
    BY DEF TypeInv, TaskType, RestType
<1>1. CASE pc[t] = "send_offer" /\ exec[t].seen.payload.key # 0
           /\ handed' = [handed EXCEPT !["code"] = @ \union {Code(t)}]
    <2>1. exec[t].seen.payload.key \in Nat /\ req[t].offer \in Offers
        BY <1>t, <1>1 DEF Executing, Equipped, SeenBy, OfferCommands, Row, OfferState
    <2>2. handed' \in Lookups
        BY <1>t, <1>1, <2>1 DEF Code, Lookups
    <2> QED
        BY <1>1, <2>2
<1>2. CASE handed' = handed
    BY <1>t, <1>2
<1> QED
    BY <1>1, <1>2 DEF Delivers, Code

-----------------------------------------------------------------------------
(* Every state is well typed *)

LEMMA TypeInit == Init => TypeInv
<1> SUFFICES ASSUME Init PROVE TypeInv
    OBVIOUS
<1>1. StoreType
    BY NewTypes DEF Init, StoreType, Lookups
<1>2. TaskType
    BY NewTypes DEF Init, TaskType, Places
<1>3. RestType
    BY DEF Init, RestType, Lookups
<1> QED
    BY <1>1, <1>2, <1>3 DEF TypeInv

(* A handler that moves on leaves its command behind. *)
LEMMA MoveType ==
    ASSUME TaskType, NEW t \in Tasks, NEW where \in Places, NEW r \in Locals,
           Equipped(where, r), Goto(t, where), req' = [req EXCEPT ![t] = r]
    PROVE  /\ TaskType'
           /\ pc'[t] = where /\ req'[t] = r /\ exec'[t] = NewExec
           /\ \A u \in Tasks \ {t} : pc'[u] = pc[u] /\ req'[u] = req[u] /\ exec'[u] = exec[u]
<1>1. /\ pc' \in [Tasks -> Places] /\ req' \in [Tasks -> Locals] /\ exec' \in [Tasks -> Execs]
      /\ pc'[t] = where /\ req'[t] = r /\ exec'[t] = NewExec
      /\ \A u \in Tasks \ {t} : pc'[u] = pc[u] /\ req'[u] = req[u] /\ exec'[u] = exec[u]
    BY NewTypes DEF TaskType, Goto
<1>2. Executing(pc'[t], exec'[t]) /\ Equipped(pc'[t], req'[t])
    BY <1>1, NewTypes
<1> QED
    BY <1>1, <1>2 DEF TaskType

(* A command gets on. *)
LEMMA ExecType ==
    ASSUME TaskType, NEW t \in Tasks, NEW x \in Execs, Executing(pc[t], x),
           exec' = [exec EXCEPT ![t] = x], UNCHANGED <<pc, req>>
    PROVE  /\ TaskType' /\ exec'[t] = x
           /\ \A u \in Tasks \ {t} : exec'[u] = exec[u]
BY DEF TaskType

LEMMA TypeStep == TypeInv /\ [Next]_vars => TypeInv'
<1> SUFFICES ASSUME TypeInv, [Next]_vars PROVE TypeInv'
    OBVIOUS
<1>t. StoreType /\ TaskType /\ RestType
    BY DEF TypeInv
<1>n. NoRequest \in Locals
    BY NewTypes
<1>e. \A t \in Tasks : /\ Executing(pc[t], exec[t]) /\ Equipped(pc[t], req[t])
                       /\ req = [req EXCEPT ![t] = req[t]] /\ req[t] \in Locals
                       /\ exec[t] \in Execs
    BY <1>t DEF TaskType
<1>1. ASSUME NEW t \in Tasks, Request(t) PROVE TypeInv'
    <2>1. ASSUME NEW kind \in Endpoints, NEW where \in Places, NEW r \in Locals,
                 Start(t, kind, where, r), Equipped(where, [r EXCEPT !.kind = kind])
          PROVE  TypeInv'
        <3>1. [r EXCEPT !.kind = kind] \in Locals
            BY DEF Locals
        <3>2. TaskType'
            BY <1>t, <2>1, <3>1, MoveType DEF Start
        <3>3. StoreType' /\ RestType'
            BY <1>t, <2>1 DEF Start, StoreType, RestType, store, history
        <3> QED
            BY <3>2, <3>3 DEF TypeInv
    <2>2. ASSUME NEW o \in Offers, NEW c \in Creds, NEW signed \in BOOLEAN,
                 PostCredentials(t, o, c, signed)
          PROVE TypeInv'
        <3> DEFINE r == [NoRequest EXCEPT !.offer = o, !.cred = c, !.signed = signed]
        <3>1. r \in Locals /\ Equipped("create_credential", [r EXCEPT !.kind = "credentials"])
            BY DEF NoRequest, Locals, Equipped
        <3>2. Start(t, "credentials", "create_credential", r)
            BY <2>2 DEF PostCredentials
        <3> QED
            BY <2>1, <3>1, <3>2 DEF Endpoints, Places, Commands, CredCommands
    <2>3. ASSUME NEW o \in Offers, PostOffers(t, o) \/ PostSend(t, o) PROVE TypeInv'
        <3> DEFINE r == [NoRequest EXCEPT !.offer = o]
        <3>1. /\ r \in Locals /\ Equipped("read_offer", [r EXCEPT !.kind = "offers"])
              /\ Equipped("send_offer", [r EXCEPT !.kind = "send"])
            BY DEF NoRequest, Locals, Equipped
        <3>2. \/ Start(t, "offers", "read_offer", r)
              \/ Start(t, "send", "send_offer", r)
            BY <2>3 DEF PostOffers, PostSend
        <3> QED
            BY <2>1, <3>1, <3>2 DEF Endpoints, Places, Commands, OfferCommands, Queries
    <2>4. ASSUME NEW k \in 1..keys, PostToken(t, k) PROVE TypeInv'
        <3> DEFINE r == [NoRequest EXCEPT !.key = k]
        <3>0. k \in Nat
            BY <1>t DEF RestType
        <3>1. r \in Locals /\ Equipped("lookup_code", [r EXCEPT !.kind = "token"])
            BY <3>0 DEF NoRequest, Locals, Equipped
        <3>2. Start(t, "token", "lookup_code", r)
            BY <2>4 DEF PostToken
        <3> QED
            BY <2>1, <3>1, <3>2 DEF Endpoints, Places, Queries
    <2>5. ASSUME NEW k \in 1..keys, NEW claim \in Subjects, NEW valid \in BOOLEAN,
                 PostCredential(t, k, claim, valid)
          PROVE TypeInv'
        <3> DEFINE r == [NoRequest EXCEPT !.key = k, !.claim = claim, !.valid = valid]
        <3>0. k \in Nat
            BY <1>t DEF RestType
        <3>1. r \in Locals /\ Equipped("lookup_token", [r EXCEPT !.kind = "credential"])
            BY <3>0 DEF NoRequest, Locals, Equipped
        <3>2. Start(t, "credential", "lookup_token", r)
            BY <2>5 DEF PostCredential
        <3> QED
            BY <2>1, <3>1, <3>2 DEF Endpoints, Places, Queries
    <2> QED
        BY <1>1, <2>2, <2>3, <2>4, <2>5 DEF Request
<1>2. ASSUME NEW t \in Tasks, Load(t) PROVE TypeInv'
    <2> DEFINE s == IF OnOffer(t) THEN offer[req[t].offer] ELSE cred[req[t].cred]
               x == [exec[t] EXCEPT !.seen = s, !.phase = "commit"]
    <2>1. pc[t] \in Commands /\ exec[t].phase = "load" /\ exec' = [exec EXCEPT ![t] = x]
        BY <1>2 DEF Load, At
    <2>2. s \in SeenBy(pc[t])
        BY <1>e, <1>t, <2>1 DEF StoreType, SeenBy, OnOffer, Equipped, Commands, OfferCommands,
                                CredCommands
    <2>3. x \in Execs /\ Executing(pc[t], x)
        BY <1>e, <2>1, <2>2 DEF Execs, Executing, SeenBy
    <2> HIDE DEF x
    <2>4. TaskType'
        BY <1>2, <1>t, <2>1, <2>3, ExecType DEF Load
    <2>5. StoreType' /\ RestType'
        BY <1>2, <1>t DEF Load, StoreType, RestType, store, history
    <2> QED
        BY <2>4, <2>5 DEF TypeInv
<1>3. ASSUME NEW t \in Tasks, NoCommit(t) PROVE TypeInv'
    <2>1. PICK e \in Outcomes(t, exec[t].seen.payload) :
            /\ e \in {Error, Nothing} \/ Stale(t)
            /\ Delivers(t, e) /\ Return(t, e = Nothing)
        BY <1>3 DEF NoCommit
    <2>2. pc[t] \in Commands /\ exec[t].phase = "commit"
          /\ UNCHANGED <<store, keys, req, requests, faults, history>>
        BY <1>3 DEF NoCommit, At
    <2>3. PICK w \in Places : /\ Follows(pc[t], req[t], w) /\ Goto(t, w)
                              /\ status' = status \/ \E n \in {200, 500} : status' = [status EXCEPT ![t] = n]
        BY <2>1, <2>2, ReturnFollows
    <2>4. TaskType'
        BY <1>e, <1>t, <2>2, <2>3, FollowsEquipped, MoveType
    <2>5. handed' \in Lookups
        BY <2>1, <2>2, DeliversCode
    <2>6. StoreType' /\ RestType'
        BY <1>t, <2>2, <2>3, <2>5 DEF StoreType, RestType, store, history
    <2> QED
        BY <2>4, <2>6 DEF TypeInv
<1>4. ASSUME NEW t \in Tasks, CommitOffer(t) PROVE TypeInv'
    <2> DEFINE o == req[t].offer
    <2>0. pc[t] \in OfferCommands /\ pc[t] \in Commands /\ exec[t].phase = "commit"
          /\ UNCHANGED <<offerView, cred, credView, index, pc, req, status, requests, faults,
                         unshown>>
        BY <1>4 DEF CommitOffer, At, OnOffer
    <2>1. PICK e \in Outcomes(t, exec[t].seen.payload) \ {Error, Nothing} :
            /\ offer' = [offer EXCEPT ![o] =
                    [version |-> @.version + 1, payload |-> ApplyOffer(@.payload, e)]]
            /\ exec' = [exec EXCEPT ![t].event = e, ![t].phase = "view"]
            /\ keys' = IF e.type = "CredentialOfferCreated" THEN keys + 1 ELSE keys
            /\ attached' = IF e.type = "CredentialsAdded"
                           THEN attached \union {<<o, e.arg>>} ELSE attached
            /\ verified' = IF e.type = "CredentialRequestVerified" /\ req[t].valid
                           THEN verified \union {<<o, e.arg>>} ELSE verified
            /\ Delivers(t, e)
        BY <1>4 DEF CommitOffer
    <2>2. e \in EventsOf(pc[t]) /\ e \in Events
        BY <2>0, <2>1, OutcomeType
    <2>3. o \in Offers
        BY <1>e, <2>0 DEF Equipped, OfferCommands
    <2>4. offer' \in [Offers -> Row(OfferState)]
        <3>1. offer[o] \in Row(OfferState) /\ offer[o].payload \in OfferState
            BY <1>t, <2>3 DEF StoreType, Row
        <3>2. ApplyOffer(offer[o].payload, e) \in OfferState
            BY <2>0, <2>2, <3>1, ApplyOfferType
        <3>3. [version |-> offer[o].version + 1,
               payload |-> ApplyOffer(offer[o].payload, e)] \in Row(OfferState)
            BY <3>1, <3>2 DEF Row
        <3> QED
            BY <1>t, <2>1, <3>3 DEF StoreType
    <2>5. TaskType'
        <3> DEFINE x == [exec[t] EXCEPT !.event = e, !.phase = "view"]
        <3>1. x \in Execs /\ Executing(pc[t], x)
            BY <1>e, <2>0, <2>2 DEF Execs, Executing
        <3>2. exec' = [exec EXCEPT ![t] = x]
            BY <2>1
        <3> HIDE DEF x
        <3> QED
            BY <1>t, <2>0, <3>1, <3>2, ExecType
    <2>6. /\ e.type \in {"CredentialOfferCreated", "CredentialOfferSent"} => e.arg \in Nat
          /\ e.type = "CredentialsAdded" => e.arg \in Creds
          /\ e.type = "CredentialRequestVerified" => e.arg \in Subjects
        BY <2>0, <2>2 DEF EventsOf, OfferCommands
    <2>7. handed' \in Lookups /\ attached' \subseteq Offers \X Creds
          /\ verified' \subseteq Offers \X Subjects /\ keys' \in Nat
        BY <1>t, <2>0, <2>1, <2>3, <2>6, DeliversCode DEF RestType
    <2>8. StoreType' /\ RestType'
        BY <1>t, <2>0, <2>4, <2>7 DEF StoreType, RestType
    <2> QED
        BY <2>5, <2>8 DEF TypeInv
<1>5. ASSUME NEW t \in Tasks, CommitCred(t) PROVE TypeInv'
    <2> DEFINE c == req[t].cred
    <2>0. pc[t] \in CredCommands /\ pc[t] \in Commands /\ exec[t].phase = "commit"
          /\ UNCHANGED <<offer, offerView, credView, index, keys, pc, req, status, requests,
                   faults, handed, history>>
        BY <1>5 DEF CommitCred, At, OnOffer, Commands
    <2>1. PICK e \in Outcomes(t, exec[t].seen.payload) \ {Error, Nothing} :
            /\ cred' = [cred EXCEPT ![c] =
                    [version |-> @.version + 1, payload |-> ApplyCred(@.payload, e)]]
            /\ exec' = [exec EXCEPT ![t].event = e, ![t].phase = "view"]
        BY <1>5 DEF CommitCred
    <2>2. e \in EventsOf(pc[t]) /\ e \in Events
        BY <2>0, <2>1, OutcomeType
    <2>3. c \in Creds
        BY <1>e, <2>0 DEF Equipped, CredCommands
    <2>4. cred' \in [Creds -> Row(CredState)]
        <3>1. cred[c] \in Row(CredState) /\ cred[c].payload \in CredState
            BY <1>t, <2>3 DEF StoreType, Row
        <3>2. ApplyCred(cred[c].payload, e) \in CredState
            BY <2>0, <2>2, <3>1, ApplyCredType
        <3>3. [version |-> cred[c].version + 1,
               payload |-> ApplyCred(cred[c].payload, e)] \in Row(CredState)
            BY <3>1, <3>2 DEF Row
        <3> QED
            BY <1>t, <2>1, <3>3 DEF StoreType
    <2>5. TaskType'
        <3> DEFINE x == [exec[t] EXCEPT !.event = e, !.phase = "view"]
        <3>1. x \in Execs /\ Executing(pc[t], x)
            BY <1>e, <2>0, <2>2 DEF Execs, Executing
        <3>2. exec' = [exec EXCEPT ![t] = x]
            BY <2>1
        <3> HIDE DEF x
        <3> QED
            BY <1>t, <2>0, <3>1, <3>2, ExecType
    <2>6. StoreType' /\ RestType'
        BY <1>t, <2>0, <2>4 DEF StoreType, RestType, history
    <2> QED
        BY <2>5, <2>6 DEF TypeInv
<1>6. ASSUME NEW t \in Tasks, LoadView(t) PROVE TypeInv'
    <2> DEFINE s == IF OnOffer(t) THEN offerView[req[t].offer] ELSE credView[req[t].cred]
               x == [exec[t] EXCEPT !.copy = s, !.phase = "view_store"]
    <2>1. pc[t] \in Commands /\ exec[t].phase = "view" /\ exec' = [exec EXCEPT ![t] = x]
        BY <1>6 DEF LoadView, At
    <2>2. s \in CopyOf(pc[t])
        BY <1>e, <1>t, <2>1 DEF StoreType, CopyOf, OnOffer, Equipped, Commands, OfferCommands,
                                CredCommands
    <2>3. x \in Execs /\ Executing(pc[t], x)
        BY <1>e, <2>1, <2>2 DEF Execs, Executing, CopyOf
    <2> HIDE DEF x
    <2>4. TaskType'
        BY <1>6, <1>t, <2>1, <2>3, ExecType DEF LoadView
    <2>5. StoreType' /\ RestType'
        BY <1>6, <1>t DEF LoadView, StoreType, RestType, store, history
    <2> QED
        BY <2>4, <2>5 DEF TypeInv
<1>7. ASSUME NEW t \in Tasks, pc[t] \in Commands, NEW ok, Return(t, ok), UNCHANGED req
      PROVE TaskType' /\ status' \in [Tasks -> {0, 200, 201, 401, 500}]
    <2>1. PICK w \in Places : /\ Follows(pc[t], req[t], w) /\ Goto(t, w)
                              /\ status' = status \/ \E n \in {200, 500} : status' = [status EXCEPT ![t] = n]
        BY <1>7, ReturnFollows
    <2>2. TaskType'
        BY <1>7, <1>e, <1>t, <2>1, FollowsEquipped, MoveType
    <2> QED
        BY <1>t, <2>1, <2>2 DEF RestType
<1>8. ASSUME NEW t \in Tasks, StoreView(t) PROVE TypeInv'
    <2> DEFINE x == exec[t]
    <2>0. /\ pc[t] \in Commands /\ x.phase = "view_store"
          /\ UNCHANGED <<offer, cred, index, keys, req, requests, faults, handed, history>>
        BY <1>8 DEF StoreView, At
    <2>1. x.event \in EventsOf(pc[t]) /\ x.copy \in CopyOf(pc[t])
        BY <1>e, <2>0 DEF Executing
    <2>2. offerView' \in [Offers -> Row(OfferState)] /\ credView' \in [Creds -> Row(CredViewState)]
        <3>1. CASE pc[t] \in OfferCommands
            <4>1. req[t].offer \in Offers /\ x.copy \in Row(OfferState) /\ x.copy.payload \in OfferState
                BY <1>e, <2>1, <3>1 DEF Equipped, OfferCommands, CopyOf, Row
            <4>2. ApplyOffer(x.copy.payload, x.event) \in OfferState
                BY <2>1, <3>1, <4>1, ApplyOfferType
            <4>3. UpdateView(offerView[req[t].offer], x.copy, ApplyOffer(x.copy.payload, x.event))
                    \in Row(OfferState)
                BY <1>t, <4>1, <4>2, UpdateViewType DEF StoreType
            <4> QED
                BY <1>8, <1>t, <3>1, <4>3 DEF StoreView, OnOffer, StoreType
        <3>2. CASE pc[t] \notin OfferCommands
            <4>1. pc[t] \in CredCommands
                BY <2>0, <3>2 DEF Commands
            <4>2. req[t].cred \in Creds /\ x.copy \in Row(CredViewState)
                  /\ x.copy.payload \in CredViewState
                BY <1>e, <2>1, <3>2, <4>1 DEF Equipped, CredCommands, CopyOf, Row
            <4>3. ApplyCredView(x.copy.payload, x.event) \in CredViewState
                BY <2>1, <4>1, <4>2, ApplyCredType
            <4>4. UpdateView(credView[req[t].cred], x.copy, ApplyCredView(x.copy.payload, x.event))
                    \in Row(CredViewState)
                BY <1>t, <4>2, <4>3, UpdateViewType DEF StoreType
            <4> QED
                BY <1>8, <1>t, <3>2, <4>4 DEF StoreView, OnOffer, StoreType
        <3> QED
            BY <3>1, <3>2
    <2>3. TaskType' /\ status' \in [Tasks -> {0, 200, 201, 401, 500}]
        <3>1. CASE x.event.type = "CredentialOfferCreated"
            <4> DEFINE y == [x EXCEPT !.phase = "code"]
            <4>1. pc[t] = "create_offer"
                BY <2>0, <2>1, <3>1 DEF EventsOf, Commands, OfferCommands, CredCommands
            <4>2. exec' = [exec EXCEPT ![t] = y] /\ UNCHANGED <<pc, status>>
                BY <1>8, <3>1 DEF StoreView
            <4>3. y \in Execs /\ Executing(pc[t], y)
                BY <1>e, <2>0, <4>1 DEF Execs, Executing
            <4> HIDE DEF y, x
            <4> QED
                BY <1>t, <2>0, <4>2, <4>3, ExecType DEF RestType
        <3>2. CASE x.event.type # "CredentialOfferCreated"
            BY <1>7, <1>8, <2>0, <3>2 DEF StoreView
        <3> QED
            BY <3>1, <3>2
    <2>4. StoreType' /\ RestType'
        BY <1>t, <2>0, <2>2, <2>3 DEF StoreType, RestType, history
    <2> QED
        BY <2>3, <2>4 DEF TypeInv
<1>9. ASSUME NEW t \in Tasks, IndexCode(t) \/ IndexToken(t) PROVE TypeInv'
    <2>1. /\ pc[t] = "create_offer" /\ pc[t] \in Commands /\ exec[t].phase \in {"code", "token"}
          /\ exec[t].event.arg \in Nat /\ req[t].offer \in Offers
        <3>1. pc[t] \in Commands /\ exec[t].phase \in {"code", "token"}
            BY <1>9 DEF IndexCode, IndexToken, At
        <3>2. pc[t] = "create_offer" /\ exec[t].event \in EventsOf(pc[t])
            BY <1>e, <3>1 DEF Executing
        <3> QED
            BY <1>e, <3>1, <3>2 DEF EventsOf, Equipped
    <2>2. index' \in Lookups
        <3>1. <<exec[t].event.arg, req[t].offer>> \in Nat \X Offers
            BY <2>1
        <3>2. CASE IndexCode(t)
            BY <1>t, <3>1, <3>2 DEF IndexCode, StoreType, Lookups
        <3>3. CASE IndexToken(t)
            BY <1>t, <3>1, <3>3 DEF IndexToken, StoreType, Lookups
        <3> QED
            BY <1>9, <3>2, <3>3
    <2>3. TaskType' /\ status' \in [Tasks -> {0, 200, 201, 401, 500}]
        <3>1. CASE IndexCode(t)
            <4> DEFINE y == [exec[t] EXCEPT !.phase = "token"]
            <4>1. exec' = [exec EXCEPT ![t] = y] /\ UNCHANGED <<pc, req, status>>
                BY <3>1 DEF IndexCode
            <4>2. y \in Execs /\ Executing(pc[t], y)
                BY <1>e, <2>1 DEF Execs, Executing
            <4> HIDE DEF y
            <4> QED
                BY <1>t, <4>1, <4>2, ExecType DEF RestType
        <3>2. CASE IndexToken(t)
            BY <1>7, <2>1, <3>2 DEF IndexToken
        <3> QED
            BY <1>9, <3>1, <3>2
    <2>4. UNCHANGED <<offer, offerView, cred, credView, keys, requests, faults, handed, history>>
        BY <1>9 DEF IndexCode, IndexToken
    <2>5. StoreType' /\ RestType'
        BY <1>t, <2>2, <2>3, <2>4 DEF StoreType, RestType, history
    <2> QED
        BY <2>3, <2>5 DEF TypeInv
<1>10. ASSUME NEW t \in Tasks, NEW where \in Places, NEW r \in Locals, Equipped(where, r),
              Goto(t, where), req' = [req EXCEPT ![t] = r], handed' \in Lookups,
              status' = status \/ \E n \in {200, 201, 401, 500} : status' = [status EXCEPT ![t] = n],
              UNCHANGED <<store, keys, requests, history>>, faults' \in Nat
       PROVE TypeInv'
    <2>1. TaskType'
        BY <1>t, <1>10, MoveType
    <2>2. StoreType' /\ RestType'
        BY <1>t, <1>10 DEF StoreType, RestType, store, history
    <2> QED
        BY <2>1, <2>2 DEF TypeInv
<1>i. ASSUME NEW t \in Tasks, Goto(t, "idle"), UNCHANGED req, handed' \in Lookups,
             \E n \in {200, 201, 401, 500} : status' = [status EXCEPT ![t] = n],
             UNCHANGED <<store, keys, requests, history>>, faults' \in Nat
      PROVE TypeInv'
    <2>1. PICK where \in Places : /\ Goto(t, where) /\ Equipped(where, req[t])
                                  /\ req' = [req EXCEPT ![t] = req[t]] /\ req[t] \in Locals
        BY <1>e, <1>i, NewTypes DEF Places
    <2>2. TaskType'
        BY <1>t, <2>1, MoveType
    <2>3. StoreType' /\ RestType'
        BY <1>i, <1>t DEF StoreType, RestType, store, history
    <2> QED
        BY <2>2, <2>3 DEF TypeInv
<1>11. ASSUME NEW t \in Tasks, Query(t) PROVE TypeInv'
    <2>0. /\ UNCHANGED <<store, keys, requests, faults, history>>
          /\ faults' \in Nat /\ pc[t] \in Queries
        BY <1>11, <1>t
        DEF Query, ReadOffer, ReadCredential, ReadUrl, LookupCode, LookupToken, ReadToken, PollWaits,
            PollTimesOut, PollEnds, ReadSigned, ReadResponse, Reading, RestType, Queries
    <2>v. ASSUME req[t].offer \in Offers
          PROVE  OfferRow(t).payload \in OfferState
        BY <1>t, <2>v DEF OfferRow, StoreType, Row
    <2>i. ASSUME NEW r \in Locals PROVE Equipped("idle", r)
        BY NewTypes
    <2>1. CASE ReadOffer(t)
        <3>1. PICK w \in {"create_offer", "create_form", "add_credentials"} :
                /\ Goto(t, w) /\ UNCHANGED <<req, status, handed>>
                /\ w = "create_form" => req[t].kind = "offers"
                /\ w = "add_credentials" => req[t].kind # "offers"
            BY <2>1 DEF ReadOffer, Successor
        <3>2. Equipped(w, req[t])
            BY <1>e, <2>1, <3>1 DEF Equipped, ReadOffer, Reading
        <3> QED
            BY <1>10, <1>e, <1>t, <2>0, <3>1, <3>2
            DEF RestType, Places, Commands, OfferCommands
    <2>2. CASE ReadCredential(t) \/ PollTimesOut(t)
        <3>1. Goto(t, "idle") /\ UNCHANGED <<req, handed>>
              /\ \E n \in {200, 201, 401, 500} : status' = [status EXCEPT ![t] = n]
            BY <2>2 DEF ReadCredential, PollTimesOut, Answer
        <3> QED
            BY <1>i, <1>t, <2>0, <3>1 DEF RestType
    <2>3. CASE ReadUrl(t)
        <3>1. req[t].offer \in Offers /\ OfferRow(t).payload.url \in Nat
            BY <1>e, <2>3, <2>v DEF ReadUrl, Reading, Equipped, OfferState
        <3> DEFINE r == [req[t] EXCEPT !.key = OfferRow(t).payload.url]
        <3>2. r \in Locals
            BY <1>e, <3>1 DEF Locals
        <3>3. Goto(t, "idle") /\ \E n \in {200, 201, 401, 500} : status' = [status EXCEPT ![t] = n]
            BY <2>3 DEF ReadUrl, Answer
        <3>4. req' = [req EXCEPT ![t] = r] \/ req' = [req EXCEPT ![t] = req[t]]
            BY <1>e, <2>3 DEF ReadUrl
        <3>5. handed' \in Lookups
            BY <1>t, <2>3, <3>1 DEF ReadUrl, RestType, Lookups
        <3> HIDE DEF r
        <3> QED
            BY <1>10, <1>e, <2>0, <2>i, <3>2, <3>3, <3>4, <3>5 DEF Places
    <2>4. ASSUME NEW k, NEW next, NEW failure \in {401, 500}, Lookup(t, k, next, failure),
                 k \in {"code", "token"},
                 next \in {"create_token", "verify"},
                 next = "verify" => req[t].claim \in Subjects, UNCHANGED handed
          PROVE  TypeInv'
        <3>1. CASE \E o \in Offers : /\ req' = [req EXCEPT ![t].offer = o]
                                     /\ Goto(t, next) /\ UNCHANGED status
            <4>1. PICK o \in Offers : /\ req' = [req EXCEPT ![t].offer = o]
                                      /\ Goto(t, next) /\ UNCHANGED status
                BY <3>1
            <4> DEFINE r == [req[t] EXCEPT !.offer = o]
            <4>2. r \in Locals /\ Equipped(next, r)
                BY <1>e, <2>4 DEF Locals, Equipped
            <4>3. req' = [req EXCEPT ![t] = r]
                BY <4>1
            <4> HIDE DEF r
            <4> QED
                BY <1>10, <1>t, <2>0, <2>4, <4>1, <4>2, <4>3
                DEF RestType, Places, Commands, OfferCommands
        <3>2. CASE Answer(t, failure) /\ UNCHANGED req
            <4>1. Goto(t, "idle") /\ status' = [status EXCEPT ![t] = failure]
                BY <3>2 DEF Answer
            <4>s. \E n \in {200, 201, 401, 500} : status' = [status EXCEPT ![t] = n]
                <5>1. CASE failure = 401
                    BY <4>1, <5>1
                <5>2. CASE failure = 500
                    BY <4>1, <5>2
                <5> QED
                    BY <5>1, <5>2
            <4>2. handed' \in Lookups
                BY <1>t, <2>4 DEF RestType
            <4>3. UNCHANGED <<store, keys, requests, history>> /\ faults' \in Nat
                BY <2>0
            <4> QED
                BY <1>i, <3>2, <4>1, <4>s, <4>2, <4>3
        <3> QED
            BY <2>4, <3>1, <3>2 DEF Lookup
    <2>5. CASE LookupCode(t) \/ LookupToken(t)
        <3>1. CASE LookupCode(t)
            BY <2>4, <3>1 DEF LookupCode
        <3>2. CASE LookupToken(t)
            <4>1. req[t].claim \in Subjects
                BY <1>e, <3>2 DEF LookupToken, Reading, Equipped
            <4> QED
                BY <2>4, <3>2, <4>1 DEF LookupToken
        <3> QED
            BY <2>5, <3>1, <3>2
    <2>6. CASE ReadToken(t)
        <3>1. req[t].offer \in Offers /\ OfferRow(t).payload.token \in Nat
            BY <1>e, <2>6, <2>v DEF ReadToken, Reading, Equipped, OfferState
        <3>2. Goto(t, "idle") /\ UNCHANGED req
              /\ \E n \in {200, 201, 401, 500} : status' = [status EXCEPT ![t] = n]
            BY <2>6 DEF ReadToken, Answer
        <3>3. handed' \in Lookups
            BY <1>t, <2>6, <3>1 DEF ReadToken, RestType, Lookups
        <3> QED
            BY <1>i, <2>0, <3>2, <3>3
    <2>7. CASE PollWaits(t)
        <3>1. /\ pc[t] = "poll" /\ req' = [req EXCEPT ![t].polls = @ + 1]
              /\ UNCHANGED <<pc, exec, status, handed>>
            BY <2>7 DEF PollWaits, Reading
        <3>2. req' \in [Tasks -> Locals]
              /\ \A u \in Tasks : /\ req'[u].offer = req[u].offer /\ req'[u].cred = req[u].cred
                                  /\ req'[u].claim = req[u].claim /\ req'[u].subject = req[u].subject
                                  /\ req'[u].resp = req[u].resp /\ req'[u].kind = req[u].kind
            BY <1>t, <3>1 DEF TaskType, Locals
        <3>3. TaskType'
            BY <1>t, <3>1, <3>2 DEF TaskType, Equipped
        <3>4. StoreType' /\ RestType'
            BY <1>t, <2>0, <3>1 DEF StoreType, RestType, store, history
        <3> QED
            BY <3>3, <3>4 DEF TypeInv
    <2>8. CASE PollEnds(t)
        <3> DEFINE v == OfferRow(t).payload
                   r == [req[t] EXCEPT !.cred = v.cred, !.subject = v.subject]
        <3>1. req[t].offer \in Offers /\ v \in OfferState
            BY <1>e, <2>8, <2>v DEF PollEnds, Reading, Equipped
        <3>2. v.cred # None /\ UNCHANGED handed
            BY <2>8 DEF PollEnds
        <3>3. CASE v.subject = None
            BY <1>i, <1>t, <2>0, <2>8, <3>3 DEF PollEnds, Answer, RestType
        <3>4. CASE v.subject # None
            <4>1. r \in Locals /\ Equipped("sign", r)
                BY <1>e, <3>1, <3>2, <3>4 DEF Locals, Equipped, OfferState
            <4>2. Goto(t, "sign") /\ status' = status
                BY <2>8, <3>4 DEF PollEnds
            <4>3. req' = [req EXCEPT ![t] = r]
                BY <2>8, <3>4 DEF PollEnds
            <4> HIDE DEF r, v
            <4> QED
                BY <1>10, <1>t, <2>0, <3>2, <4>1, <4>2, <4>3
                DEF RestType, Places, Commands, CredCommands
        <3> QED
            BY <3>3, <3>4
    <2>9. CASE ReadSigned(t)
        <3> DEFINE g == CredRow(t).payload.signed
                   r == [req[t] EXCEPT !.resp = [cred |-> req[t].cred, signed |-> g]]
        <3>1. req[t].cred \in Creds /\ req[t].offer \in Offers
            BY <1>e, <2>9 DEF ReadSigned, Reading, Equipped
        <3>2. g \in Subjects \union {"external", None}
            BY <1>t, <3>1 DEF CredRow, StoreType, Row, CredViewState
        <3>3. CASE g = None
            BY <1>i, <1>t, <2>0, <2>9, <3>3 DEF ReadSigned, Answer, RestType
        <3>4. CASE g # None
            <4>1. [cred |-> req[t].cred, signed |-> g] \in Responses
                BY <3>1, <3>2, <3>4 DEF Responses
            <4>2. r \in Locals /\ Equipped("create_response", r)
                BY <1>e, <3>1, <4>1 DEF Locals, Equipped
            <4>3. Goto(t, "create_response") /\ status' = status /\ UNCHANGED handed
                BY <2>9, <3>4 DEF ReadSigned
            <4>4. req' = [req EXCEPT ![t] = r]
                BY <2>9, <3>4 DEF ReadSigned
            <4> HIDE DEF r, g
            <4> QED
                BY <1>10, <1>t, <2>0, <4>2, <4>3, <4>4
                DEF RestType, Places, Commands, OfferCommands
        <3> QED
            BY <3>3, <3>4
    <2>10. CASE ReadResponse(t)
        <3> DEFINE r == [req[t] EXCEPT !.resp = OfferRow(t).payload.resp]
        <3>1. req[t].offer \in Offers
            BY <1>e, <2>10 DEF ReadResponse, Reading, Equipped
        <3>2. r \in Locals
            BY <1>e, <2>v, <3>1 DEF Locals, OfferState
        <3>3. /\ Goto(t, "idle") /\ UNCHANGED handed
              /\ \E n \in {200, 201, 401, 500} : status' = [status EXCEPT ![t] = n]
            BY <2>10 DEF ReadResponse, Answer
        <3>4. req' = [req EXCEPT ![t] = r] \/ req' = [req EXCEPT ![t] = req[t]]
            BY <1>e, <2>10 DEF ReadResponse
        <3> HIDE DEF r
        <3> QED
            BY <1>10, <1>e, <1>t, <2>0, <2>i, <3>2, <3>3, <3>4 DEF RestType, Places
    <2> QED
        BY <1>11, <2>1, <2>2, <2>3, <2>5, <2>6, <2>7, <2>8, <2>9, <2>10 DEF Query
<1>f. ASSUME NEW t \in Tasks, Fail(t) PROVE TypeInv'
    <2>d. DatabaseError
        BY <1>f DEF Fail, StoreFails, ViewUpdateFails, QueryFails
    <2>0. faults' \in Nat
        BY <1>t, <2>d DEF DatabaseError, RestType
    <2>1. CASE StoreFails(t)
        <3>0. /\ pc[t] \in Commands /\ Return(t, FALSE)
              /\ UNCHANGED <<store, keys, req, requests, history>>
            BY <2>1 DEF StoreFails, At
        <3>1. TaskType' /\ status' \in [Tasks -> {0, 200, 201, 401, 500}]
            BY <1>7, <3>0
        <3>2. handed' \in Lookups
            <4>1. CASE UNCHANGED handed
                BY <1>t, <4>1 DEF RestType
            <4>2. CASE At(t, "commit") /\ \E e \in Outcomes(t, exec[t].seen.payload) : Delivers(t, e)
                BY <4>2, DeliversCode DEF At
            <4> QED
                BY <2>1, <4>1, <4>2 DEF StoreFails
        <3>3. StoreType' /\ RestType'
            BY <1>t, <2>0, <3>0, <3>1, <3>2 DEF StoreType, RestType, store, history
        <3> QED
            BY <3>1, <3>3 DEF TypeInv
    <2>2. CASE ViewUpdateFails(t)
        <3> DEFINE y == [exec[t] EXCEPT !.phase = IF @ = "code" THEN "token" ELSE "code"]
        <3>0. /\ pc[t] \in Commands /\ exec[t].phase \in {"view", "view_store", "code", "token"}
              /\ UNCHANGED <<store, keys, req, requests, handed, attached, verified>>
            BY <2>2 DEF ViewUpdateFails
        <3>1. exec[t].event \in EventsOf(pc[t])
            BY <1>e, <3>0 DEF Executing
        <3>2. TaskType' /\ status' \in [Tasks -> {0, 200, 201, 401, 500}]
            <4>1. CASE exec[t].event.type = "CredentialOfferCreated" /\ exec[t].phase # "token"
                <5>1. pc[t] = "create_offer"
                    BY <3>0, <3>1, <4>1 DEF EventsOf, Commands, OfferCommands, CredCommands
                <5>2. exec' = [exec EXCEPT ![t] = y] /\ UNCHANGED <<pc, status>>
                    BY <2>2, <4>1 DEF ViewUpdateFails
                <5>3. y \in Execs /\ Executing(pc[t], y)
                    BY <1>e, <3>0, <5>1 DEF Execs, Executing
                <5> HIDE DEF y
                <5> QED
                    BY <1>t, <3>0, <5>2, <5>3, ExecType DEF RestType
            <4>2. CASE ~(exec[t].event.type = "CredentialOfferCreated" /\ exec[t].phase # "token")
                BY <1>7, <2>2, <3>0, <4>2 DEF ViewUpdateFails
            <4> QED
                BY <4>1, <4>2
        <3>3. unshown' \subseteq Creds
            <4>1. ~OnOffer(t) => req[t].cred \in Creds
                BY <1>e, <3>0 DEF OnOffer, Commands, CredCommands, Equipped
            <4> QED
                BY <1>t, <2>2, <4>1 DEF ViewUpdateFails, RestType
        <3>4. StoreType' /\ RestType'
            BY <1>t, <2>0, <3>0, <3>2, <3>3 DEF StoreType, RestType, store
        <3> QED
            BY <3>2, <3>4 DEF TypeInv
    <2>3. CASE QueryFails(t)
        <3>0. /\ UNCHANGED <<store, keys, req, requests, handed, history>>
              /\ handed' \in Lookups
            BY <1>t, <2>3 DEF QueryFails, RestType
        <3>1. CASE pc[t] = "read_offer"
            <4>1. Goto(t, "create_offer") /\ UNCHANGED status /\ Equipped("create_offer", req[t])
                BY <1>e, <2>3, <3>1 DEF QueryFails, Equipped
            <4> QED
                BY <1>10, <1>e, <2>0, <3>0, <4>1 DEF Places, Commands, OfferCommands
        <3>2. CASE pc[t] # "read_offer"
            <4>1. Goto(t, "idle") /\ \E n \in {200, 201, 401, 500} : status' = [status EXCEPT ![t] = n]
                BY <2>3, <3>2 DEF QueryFails, Answer
            <4> QED
                BY <1>i, <2>0, <3>0, <4>1
        <3> QED
            BY <3>1, <3>2
    <2> QED
        BY <1>f, <2>1, <2>2, <2>3 DEF Fail
<1>12. ASSUME NEW t \in Tasks, Cancel(t) PROVE TypeInv'
    <2>1. faults' \in Nat /\ handed' \in Lookups
        BY <1>12, <1>t DEF Cancel, RestType
    <2> QED
        BY <1>10, <1>12, <1>e, <2>1, NewTypes DEF Cancel, Places
<1>13. ASSUME Crash PROVE TypeInv'
    <2>1. TaskType'
        BY <1>13, NewTypes DEF Crash, TaskType, Places
    <2>2. StoreType'
        BY <1>13, <1>t, NewTypes DEF Crash, StoreType, Lookups, store
    <2>3. RestType'
        BY <1>13, <1>t DEF Crash, RestType, history
    <2> QED
        BY <2>1, <2>2, <2>3 DEF TypeInv
<1>14. CASE UNCHANGED vars
    BY <1>14, <1>t DEF vars, store, history, TypeInv, StoreType, TaskType, RestType
<1> QED
    BY <1>1, <1>2, <1>3, <1>4, <1>5, <1>6, <1>8, <1>9, <1>11, <1>f, <1>12, <1>13, <1>14
    DEF Next, Proceed, Execute

LEMMA TypeOKHolds == TypeInv => TypeOK
<1> SUFFICES ASSUME TypeInv PROVE TypeOK
    OBVIOUS
<1>1. credView \in [Creds -> Row(CredState)]
    BY DEF TypeInv, StoreType, Row, CredViewState, CredState, Signatures
<1>2. \A t \in Tasks : /\ pc[t] \in OfferCommands => req[t].offer \in Offers
                       /\ pc[t] \in CredCommands => req[t].cred \in Creds
    BY DEF TypeInv, TaskType, Equipped, OfferCommands, CredCommands
<1> QED
    BY <1>1, <1>2 DEF TypeInv, StoreType, TaskType, RestType, TypeOK, Places, Locals

(* In every reachable state rows, lookups and handlers are well typed, and *)
(* a command has the offer or credential it works on; a response handed    *)
(* out never carries the null of a failed signature.                       *)
THEOREM TypeCorrect == Spec => []TypeOK
BY TypeInit, TypeStep, TypeOKHolds, PTL DEF Spec

=============================================================================
