-------------------------- MODULE OwnershipProofs --------------------------
(***************************************************************************)
(* Proofs about what issuance hands out: credentials, signatures and       *)
(* answers belong to the offer they are handed out for, keys resolve, and  *)
(* on Postgres a signature is final.                                       *)
(***************************************************************************)
EXTENDS IssuanceProofs

(* Where the contents of rows and handlers come from.  The operators take  *)
(* the keys drawn for offers D, the credentials attached to offers A, the  *)
(* verified subjects V and the credentials E that can be read or whose view*)
(* missed an event: they grow.                                             *)

Keyed(k, o, D) == k # 0 => <<k, o>> \in D

SignedFor(c, signature, A, V) ==
    signature \in Subjects => \E o \in Offers : <<o, c>> \in A /\ <<o, signature>> \in V

OwnOffer(s, o, D, A, V, E) ==
    /\ Keyed(s.key, o, D) /\ Keyed(s.url, o, D) /\ Keyed(s.token, o, D)
    /\ s.cred # None => <<o, s.cred>> \in A /\ s.cred \in E
    /\ s.subject # None => <<o, s.subject>> \in V
    /\ s.resp # None => <<o, s.resp.cred>> \in A /\ SignedFor(s.resp.cred, s.resp.signed, A, V)

(* An event about to enter, or in, the log of offer o. *)
OwnEvent(e, o, D, A, V, E) ==
    /\ e.type \in {"CredentialOfferCreated", "FormUrlEncodedCredentialOfferCreated",
                   "CredentialOfferSent", "TokenResponseCreated"} => Keyed(e.arg, o, D)
    /\ e.type = "CredentialOfferCreated" => <<e.arg, o>> \in D
    /\ e.type = "CredentialsAdded" => <<o, e.arg>> \in A /\ e.arg \in E
    /\ e.type = "CredentialRequestVerified" => <<o, e.arg>> \in V
    /\ e.type = "CredentialResponseCreated" =>
        <<o, e.arg.cred>> \in A /\ SignedFor(e.arg.cred, e.arg.signed, A, V)

(* Handler at c with locals r. *)
Entitled(c, r, A, V, E) ==
    /\ c \in {"sign", "read_signed"} => <<r.offer, r.cred>> \in A
    /\ c = "sign" => <<r.offer, r.subject>> \in V
    /\ c = "create_response" =>
        <<r.offer, r.resp.cred>> \in A /\ SignedFor(r.resp.cred, r.resp.signed, A, V)
    /\ c \in {"read_offer", "create_offer", "add_credentials"} /\ r.kind = "credentials"
        => r.cred \in E

(* ... executing x. *)
OwnExec(c, r, x, D, A, V, E) ==
    /\ c \in OfferCommands =>
        /\ x.phase # "load" => OwnOffer(x.seen.payload, r.offer, D, A, V, E)
        /\ x.phase \notin {"load", "commit"} => OwnEvent(x.event, r.offer, D, A, V, E)
        /\ x.phase = "view_store" => OwnOffer(x.copy.payload, r.offer, D, A, V, E)
    /\ c \in CredCommands =>
        /\ x.phase \notin {"load", "commit"} /\ x.event.type = "CredentialSigned"
            => SignedFor(r.cred, x.event.arg, A, V)
        /\ x.phase = "view_store" => SignedFor(r.cred, x.copy.payload.signed, A, V)

Existing == {c \in Creds : credView[c].version > 0 \/ c \in unshown}

OwnRows(D) ==
    /\ \A o \in Offers : /\ OwnOffer(offer[o].payload, o, D, attached, verified, Existing)
                         /\ OwnOffer(offerView[o].payload, o, D, attached, verified, Existing)
    /\ \A c \in Creds : /\ SignedFor(c, cred[c].payload.signed, attached, verified)
                        /\ SignedFor(c, credView[c].payload.signed, attached, verified)
    /\ \A k \in {"code", "token"} : index[k] \subseteq D /\ handed[k] \subseteq D

OwnTasks(D) ==
    \A t \in Tasks : /\ Entitled(pc[t], req[t], attached, verified, Existing)
                     /\ OwnExec(pc[t], req[t], exec[t], D, attached, verified, Existing)

(* A key is drawn for one offer. *)
Drawn(D) ==
    /\ D \subseteq (1..keys) \X Offers
    /\ \A k \in 1..keys, o1, o2 \in Offers : <<k, o1>> \in D /\ <<k, o2>> \in D => o1 = o2

(* Without a fault every key drawn is, or is about to be, in both lookups. *)
Resolved(k, key) == key \in index[k] \/ \E t \in Tasks : Indexing(t, key)

Resolving(D) == faults = 0 =>
    /\ \A t \in Tasks : exec[t].phase = "token" =>
        <<exec[t].event.arg, req[t].offer>> \in index["code"]
    /\ \A k \in {"code", "token"} : \A key \in D : Resolved(k, key)

Owning(D) == Drawn(D) /\ OwnRows(D) /\ OwnTasks(D) /\ Resolving(D)

OwnInv == \E D \in SUBSET (Nat \X Offers) : Owning(D)

-----------------------------------------------------------------------------
LEMMA OwnGrows ==
    ASSUME NEW D, NEW A, NEW V, NEW E, NEW D2, NEW A2, NEW V2, NEW E2,
           D \subseteq D2, A \subseteq A2, V \subseteq V2, E \subseteq E2
    PROVE  /\ \A c, g : SignedFor(c, g, A, V) => SignedFor(c, g, A2, V2)
           /\ \A s, o : OwnOffer(s, o, D, A, V, E) => OwnOffer(s, o, D2, A2, V2, E2)
           /\ \A e, o : OwnEvent(e, o, D, A, V, E) => OwnEvent(e, o, D2, A2, V2, E2)
           /\ \A c, r, x : OwnExec(c, r, x, D, A, V, E) => OwnExec(c, r, x, D2, A2, V2, E2)
<1>1. \A c, g : SignedFor(c, g, A, V) => SignedFor(c, g, A2, V2)
    BY DEF SignedFor
<1>2. \A s, o : OwnOffer(s, o, D, A, V, E) => OwnOffer(s, o, D2, A2, V2, E2)
    BY <1>1 DEF OwnOffer, Keyed
<1>3. \A e, o : OwnEvent(e, o, D, A, V, E) => OwnEvent(e, o, D2, A2, V2, E2)
    BY <1>1 DEF OwnEvent, Keyed
<1>4. \A c, r, x : OwnExec(c, r, x, D, A, V, E) => OwnExec(c, r, x, D2, A2, V2, E2)
    BY <1>1, <1>2, <1>3 DEF OwnExec
<1> QED
    BY <1>1, <1>2, <1>3, <1>4

LEMMA EntitledGrows ==
    ASSUME NEW A, NEW V, NEW E, NEW A2, NEW V2, NEW E2,
           A \subseteq A2, V \subseteq V2, E \subseteq E2
    PROVE  \A c, r : Entitled(c, r, A, V, E) => Entitled(c, r, A2, V2, E2)
<1>1. \A c, g : SignedFor(c, g, A, V) => SignedFor(c, g, A2, V2)
    BY DEF SignedFor
<1> QED
    BY <1>1 DEF Entitled

(* An event of its own keeps an offer its own. *)
LEMMA ApplyOwn ==
    ASSUME NEW c \in OfferCommands, NEW s \in OfferState, NEW e \in EventsOf(c), NEW o,
           NEW D, NEW A, NEW V, NEW E, OwnOffer(s, o, D, A, V, E), OwnEvent(e, o, D, A, V, E)
    PROVE  OwnOffer(ApplyOffer(s, e), o, D, A, V, E)
<1> DEFINE n == ApplyOffer(s, e)
<1>1. CASE c = "create_offer"
    <2>1. e.type = "CredentialOfferCreated" /\ n = [s EXCEPT !.key = e.arg]
        BY <1>1 DEF EventsOf, ApplyOffer
    <2>2. n.key = e.arg /\ n.url = s.url /\ n.token = s.token /\ n.cred = s.cred
          /\ n.subject = s.subject /\ n.resp = s.resp
        BY <2>1 DEF OfferState
    <2> QED
        BY <2>1, <2>2 DEF OwnOffer, OwnEvent
<1>2. CASE c = "add_credentials"
    <2>1. e.type = "CredentialsAdded" /\ n = [s EXCEPT !.cred = e.arg]
        BY <1>2 DEF EventsOf, ApplyOffer
    <2>2. n.key = s.key /\ n.url = s.url /\ n.token = s.token /\ n.cred = e.arg
          /\ n.subject = s.subject /\ n.resp = s.resp
        BY <2>1 DEF OfferState
    <2> QED
        BY <2>1, <2>2 DEF OwnOffer, OwnEvent
<1>3. CASE c = "create_form"
    <2>1. e.type = "FormUrlEncodedCredentialOfferCreated" /\ n = [s EXCEPT !.url = e.arg]
        BY <1>3 DEF EventsOf, ApplyOffer
    <2>2. n.key = s.key /\ n.url = e.arg /\ n.token = s.token /\ n.cred = s.cred
          /\ n.subject = s.subject /\ n.resp = s.resp
        BY <2>1 DEF OfferState
    <2> QED
        BY <2>1, <2>2 DEF OwnOffer, OwnEvent
<1>4. CASE c = "send_offer"
    <2>1. n = s
        BY <1>4 DEF EventsOf, ApplyOffer
    <2> QED
        BY <2>1
<1>5. CASE c = "create_token"
    <2>1. e.type = "TokenResponseCreated" /\ n = [s EXCEPT !.token = e.arg]
        BY <1>5 DEF EventsOf, ApplyOffer
    <2>2. n.key = s.key /\ n.url = s.url /\ n.token = e.arg /\ n.cred = s.cred
          /\ n.subject = s.subject /\ n.resp = s.resp
        BY <2>1 DEF OfferState
    <2> QED
        BY <2>1, <2>2 DEF OwnOffer, OwnEvent
<1>6. CASE c = "verify"
    <2>1. e.type = "CredentialRequestVerified" /\ n = [s EXCEPT !.subject = e.arg]
        BY <1>6 DEF EventsOf, ApplyOffer
    <2>2. n.key = s.key /\ n.url = s.url /\ n.token = s.token /\ n.cred = s.cred
          /\ n.subject = e.arg /\ n.resp = s.resp
        BY <2>1 DEF OfferState
    <2> QED
        BY <2>1, <2>2 DEF OwnOffer, OwnEvent
<1>7. CASE c = "create_response"
    <2>1. e.type = "CredentialResponseCreated" /\ n = [s EXCEPT !.resp = e.arg]
        BY <1>7 DEF EventsOf, ApplyOffer
    <2>2. n.key = s.key /\ n.url = s.url /\ n.token = s.token /\ n.cred = s.cred
          /\ n.subject = s.subject /\ n.resp = e.arg
        BY <2>1 DEF OfferState
    <2> QED
        BY <2>1, <2>2 DEF OwnOffer, OwnEvent
<1> QED
    BY <1>1, <1>2, <1>3, <1>4, <1>5, <1>6, <1>7 DEF OfferCommands

(* A signature for a verified subject, or none, keeps a credential so. *)
LEMMA ApplySigned ==
    ASSUME NEW c \in CredCommands, NEW e \in EventsOf(c), NEW i, NEW A, NEW V,
           e.type = "CredentialSigned" => SignedFor(i, e.arg, A, V)
    PROVE  /\ \A s \in CredState : SignedFor(i, s.signed, A, V)
                => SignedFor(i, ApplyCred(s, e).signed, A, V)
           /\ \A s \in CredViewState : SignedFor(i, s.signed, A, V)
                => SignedFor(i, ApplyCredView(s, e).signed, A, V)
<1>1. "external" \notin Subjects /\ None \notin Subjects
    BY SubjectsAreDids, IssuanceNone
<1> QED
    BY <1>1 DEF CredCommands, EventsOf, CredState, CredViewState, ApplyCred, ApplyCredView, SignedFor

LEMMA NewOwn ==
    /\ \A o, D, A, V, E : OwnOffer(NewOffer, o, D, A, V, E)
    /\ \A c, A, V : SignedFor(c, NewCred.signed, A, V)
    /\ \A r, A, V, E : Entitled("idle", r, A, V, E)
    /\ \A c, r, D, A, V, E : OwnExec(c, r, NewExec, D, A, V, E)
<1>1. None \notin Subjects
    BY IssuanceNone
<1> QED
    BY <1>1 DEF NewOffer, NewCred, NewExec, OwnOffer, SignedFor, Keyed, Entitled, OwnExec

LEMMA OwnInit == Init => OwnInv
<1> SUFFICES ASSUME Init PROVE Owning({})
    BY DEF OwnInv
<1>1. Drawn({})
    BY DEF Drawn
<1>2. OwnRows({})
    BY NewOwn DEF Init, OwnRows, NoRow
<1>3. OwnTasks({})
    BY NewOwn DEF Init, OwnTasks
<1>4. Resolving({})
    BY DEF Init, Resolving, NewExec
<1> QED
    BY <1>1, <1>2, <1>3, <1>4 DEF Owning

(* Unchanged rows, handlers that do nothing. *)
LEMMA RowsGrow ==
    ASSUME NEW D, NEW D2, OwnRows(D), UNCHANGED <<offer, offerView, cred, credView>>,
           D \subseteq D2, attached \subseteq attached', verified \subseteq verified',
           unshown \subseteq unshown',
           \A k \in {"code", "token"} : index'[k] \subseteq D2 /\ handed'[k] \subseteq D2
    PROVE  OwnRows(D2)'
<1>1. Existing \subseteq Existing'
    BY DEF Existing
<1>g. /\ \A c, g : SignedFor(c, g, attached, verified) => SignedFor(c, g, attached', verified')
      /\ \A s, o : OwnOffer(s, o, D, attached, verified, Existing)
            => OwnOffer(s, o, D2, attached', verified', Existing')
    BY <1>1, OwnGrows
<1>2. \A o \in Offers : /\ OwnOffer(offer[o].payload, o, D2, attached', verified', Existing')
                        /\ OwnOffer(offerView[o].payload, o, D2, attached', verified', Existing')
    BY <1>g DEF OwnRows
<1>3. \A c \in Creds : /\ SignedFor(c, cred[c].payload.signed, attached', verified')
                       /\ SignedFor(c, credView[c].payload.signed, attached', verified')
    BY <1>g DEF OwnRows
<1> QED
    BY <1>2, <1>3 DEF OwnRows

LEMMA TasksGrow ==
    ASSUME NEW D, NEW D2, OwnTasks(D), NEW t \in Tasks,
           Entitled(pc'[t], req'[t], attached', verified', Existing'),
           OwnExec(pc'[t], req'[t], exec'[t], D2, attached', verified', Existing'),
           \A u \in Tasks \ {t} : pc'[u] = pc[u] /\ req'[u] = req[u] /\ exec'[u] = exec[u],
           D \subseteq D2, attached \subseteq attached', verified \subseteq verified',
           Existing \subseteq Existing'
    PROVE  OwnTasks(D2)'
<1>a. \A c, r : Entitled(c, r, attached, verified, Existing)
            => Entitled(c, r, attached', verified', Existing')
    BY EntitledGrows
<1>b. \A c, r, x : OwnExec(c, r, x, D, attached, verified, Existing)
            => OwnExec(c, r, x, D2, attached', verified', Existing')
    BY OwnGrows
<1>1. \A u \in Tasks : /\ Entitled(pc[u], req[u], attached', verified', Existing')
                       /\ OwnExec(pc[u], req[u], exec[u], D2, attached', verified', Existing')
    BY <1>a, <1>b DEF OwnTasks
<1> QED
    BY <1>1 DEF OwnTasks

(* A handler that moves on leaves its command behind. *)
LEMMA GotoMoves ==
    ASSUME TaskType, NEW t \in Tasks, NEW where, Goto(t, where)
    PROVE  /\ pc'[t] = where /\ exec'[t] = NewExec
           /\ \A u \in Tasks \ {t} : pc'[u] = pc[u] /\ exec'[u] = exec[u]
BY DEF TaskType, Goto

LEMMA MoveOwn ==
    ASSUME NEW D, TaskType, OwnTasks(D), NEW t \in Tasks, NEW where, Goto(t, where),
           \A u \in Tasks \ {t} : req'[u] = req[u],
           Entitled(where, req'[t], attached', verified', Existing'),
           attached \subseteq attached', verified \subseteq verified', Existing \subseteq Existing'
    PROVE  OwnTasks(D)'
<1>1. /\ pc'[t] = where /\ exec'[t] = NewExec
      /\ \A u \in Tasks \ {t} : pc'[u] = pc[u] /\ req'[u] = req[u] /\ exec'[u] = exec[u]
    BY GotoMoves
<1>2. OwnExec(pc'[t], req'[t], exec'[t], D, attached', verified', Existing')
    BY <1>1, NewOwn
<1> QED
    BY <1>1, <1>2, TasksGrow

(* A command gets on. *)
LEMMA ExecOwn ==
    ASSUME NEW D, NEW D2, OwnTasks(D), NEW t \in Tasks, UNCHANGED <<pc, req>>,
           \A u \in Tasks \ {t} : exec'[u] = exec[u],
           OwnExec(pc[t], req[t], exec'[t], D2, attached', verified', Existing'),
           D \subseteq D2, attached \subseteq attached', verified \subseteq verified',
           Existing \subseteq Existing'
    PROVE  OwnTasks(D2)'
<1>1. Entitled(pc[t], req[t], attached', verified', Existing')
    BY EntitledGrows DEF OwnTasks
<1> QED
    BY <1>1, TasksGrow

(* Keys keep resolving unless the handler that indexes one leaves early. *)
LEMMA ResolvingKept ==
    ASSUME NEW D, Resolving(D), NEW t \in Tasks,
           \A u \in Tasks \ {t} : pc'[u] = pc[u] /\ req'[u] = req[u] /\ exec'[u] = exec[u],
           \A k \in {"code", "token"} : index[k] \subseteq index'[k],
           faults' = 0 /\ exec'[t].phase = "token"
                => <<exec'[t].event.arg, req'[t].offer>> \in index'["code"],
           faults' = 0 => faults = 0,
           \A key : faults' = 0 /\ Indexing(t, key) =>
                Indexing(t, key)' \/ (key \in index'["code"] /\ key \in index'["token"])
    PROVE  Resolving(D)'
<1>1. faults' = 0 => \A u \in Tasks : exec'[u].phase = "token" =>
            <<exec'[u].event.arg, req'[u].offer>> \in index'["code"]
    BY DEF Resolving
<1>2. ASSUME faults' = 0, NEW k \in {"code", "token"}, NEW key \in D
      PROVE  key \in index'[k] \/ \E u \in Tasks : Indexing(u, key)'
    <2>1. key \in index[k] \/ \E u \in Tasks : Indexing(u, key)
        BY <1>2 DEF Resolving, Resolved
    <2>2. ASSUME NEW u \in Tasks \ {t}, Indexing(u, key) PROVE Indexing(u, key)'
        BY <2>2 DEF Indexing
    <2> QED
        BY <1>2, <2>1, <2>2
<1> QED
    BY <1>1, <1>2 DEF Resolving, Resolved

LEMMA FollowsEntitled ==
    ASSUME NEW c \in Commands, NEW r, NEW w, NEW A, NEW V, NEW E,
           Equipped(c, r), Follows(c, r, w), Entitled(c, r, A, V, E),
           c = "create_credential" /\ w # "idle" => r.cred \in E
    PROVE  Entitled(w, r, A, V, E)
BY DEF Commands, OfferCommands, CredCommands, Equipped, Follows, Entitled

LEMMA OwnStep == TypeInv /\ OwnInv /\ [Next]_vars => OwnInv'
<1> SUFFICES ASSUME TypeInv, [Next]_vars, NEW D \in SUBSET (Nat \X Offers), Owning(D)
             PROVE  OwnInv'
    BY DEF OwnInv
<1>t. StoreType /\ TaskType /\ RestType
    BY DEF TypeInv
<1>o. Drawn(D) /\ OwnRows(D) /\ OwnTasks(D) /\ Resolving(D)
    BY DEF Owning
<1>e. \A t \in Tasks : /\ Executing(pc[t], exec[t]) /\ Equipped(pc[t], req[t])
                       /\ Entitled(pc[t], req[t], attached, verified, Existing)
                       /\ OwnExec(pc[t], req[t], exec[t], D, attached, verified, Existing)
                       /\ req[t] \in Locals /\ exec[t] \in Execs
    BY <1>o, <1>t DEF TaskType, OwnTasks
<1>h. \A k \in {"code", "token"} : index[k] \subseteq D /\ handed[k] \subseteq D
    BY <1>o DEF OwnRows
<1>k. ASSUME Drawn(D)', OwnRows(D)', OwnTasks(D)', Resolving(D)' PROVE OwnInv'
    BY <1>k DEF OwnInv, Owning
(* What an exchange with the wallet leaves it with was drawn. *)
<1>d. ASSUME NEW t \in Tasks, pc[t] \in Commands, exec[t].phase = "commit", NEW e, Delivers(t, e)
      PROVE  \A k \in {"code", "token"} : handed'[k] \subseteq D
    <2>1. CASE handed' = handed
        BY <1>h, <2>1
    <2>2. CASE /\ pc[t] = "send_offer" /\ exec[t].seen.payload.key # 0
               /\ handed' = [handed EXCEPT !["code"] = @ \union {Code(t)}]
        <3>1. Code(t) \in D
            BY <1>d, <1>e, <2>2 DEF Code, OwnExec, OwnOffer, Keyed, OfferCommands
        <3> QED
            BY <1>h, <1>t, <2>2, <3>1 DEF RestType, Lookups
    <2> QED
        BY <1>d, <2>1, <2>2, DeliversCode
(* A handler that holds no key moves on. *)
<1>q. ASSUME NEW t \in Tasks, NEW where, Goto(t, where),
             \A u \in Tasks \ {t} : req'[u] = req[u],
             Entitled(where, req'[t], attached, verified, Existing),
             UNCHANGED <<store, keys, history>>,
             \A k \in {"code", "token"} : handed'[k] \subseteq D,
             faults' = 0 => faults = 0 /\ (pc[t] # "create_offer" \/ exec[t].phase \in {"load", "commit"})
      PROVE OwnInv'
    <2>1. UNCHANGED <<offer, offerView, cred, credView, index, keys, attached, verified, unshown>>
        BY <1>q DEF store, history
    <2>2. Existing' = Existing
        BY <2>1 DEF Existing
    <2>3. OwnTasks(D)'
        <3>1. Entitled(where, req'[t], attached', verified', Existing')
            BY <1>q, <2>1, <2>2
        <3> QED
            BY <1>o, <1>q, <1>t, <2>1, <2>2, <3>1, MoveOwn
    <2>4. OwnRows(D)'
        BY <1>h, <1>o, <1>q, <2>1, RowsGrow
    <2>5. Drawn(D)'
        BY <1>o, <2>1 DEF Drawn
    <2>6. Resolving(D)'
        <3>1. exec'[t] = NewExec /\ \A u \in Tasks \ {t} : pc'[u] = pc[u] /\ exec'[u] = exec[u]
            BY <1>q, <1>t, GotoMoves
        <3>2. exec'[t].phase # "token"
            BY <3>1 DEF NewExec
        <3>3. \A key : faults' = 0 => ~Indexing(t, key)
            BY <1>q DEF Indexing
        <3> QED
            BY <1>o, <1>q, <2>1, <3>1, <3>2, <3>3, ResolvingKept
    <2> QED
        BY <1>k, <2>3, <2>4, <2>5, <2>6
<1>1. ASSUME NEW t \in Tasks, Request(t) PROVE OwnInv'
    <2>1. PICK kind \in Endpoints, where \in {"create_credential", "read_offer", "send_offer",
                                              "lookup_code", "lookup_token"}, r \in Locals :
            Start(t, kind, where, r) /\ (where = "read_offer" => kind = "offers")
        <3>1. /\ \A o \in Offers, c \in Creds, signed \in BOOLEAN :
                    [NoRequest EXCEPT !.offer = o, !.cred = c, !.signed = signed] \in Locals
              /\ \A o \in Offers : [NoRequest EXCEPT !.offer = o] \in Locals
            BY DEF NoRequest, Locals
        <3>2. /\ \A k \in 1..keys : [NoRequest EXCEPT !.key = k] \in Locals
              /\ \A k \in 1..keys, claim \in Subjects, valid \in BOOLEAN :
                    [NoRequest EXCEPT !.key = k, !.claim = claim, !.valid = valid] \in Locals
            <4>1. \A k \in 1..keys : k \in Nat
                BY <1>t DEF RestType
            <4> QED
                BY <4>1 DEF NoRequest, Locals
        <3> QED
            BY <1>1, <3>1, <3>2 DEF Request, PostCredentials, PostOffers, PostSend, PostToken,
                                    PostCredential, Endpoints
    <2>2. /\ Goto(t, where) /\ pc[t] = "idle"
          /\ \A u \in Tasks \ {t} : req'[u] = req[u]
          /\ req'[t] = [r EXCEPT !.kind = kind]
          /\ UNCHANGED <<store, keys, history, handed, faults>>
        BY <1>t, <2>1 DEF Start, TaskType
    <2>3. Entitled(where, req'[t], attached, verified, Existing)
        BY <2>1, <2>2 DEF Entitled, Locals
    <2> QED
        BY <1>h, <1>q, <2>2, <2>3
<1>2. ASSUME NEW t \in Tasks, Load(t) PROVE OwnInv'
    <2>1. /\ pc[t] \in Commands /\ exec[t].phase = "load"
          /\ exec' = [exec EXCEPT
                ![t].seen = IF OnOffer(t) THEN offer[req[t].offer] ELSE cred[req[t].cred],
                ![t].phase = "commit"]
          /\ UNCHANGED <<offer, offerView, cred, credView, index, keys, pc, req, handed, attached,
                         verified, unshown, faults>>
        BY <1>2 DEF Load, At, store, history
    <2>2. /\ exec'[t].phase = "commit"
          /\ pc[t] \in OfferCommands => exec'[t].seen = offer[req[t].offer]
          /\ \A u \in Tasks \ {t} : exec'[u] = exec[u]
        BY <1>t, <2>1 DEF TaskType, Execs, OnOffer
    <2>3. Existing' = Existing
        BY <2>1 DEF Existing
    <2>4. OwnTasks(D)'
        <3>1. pc[t] \in OfferCommands =>
                OwnOffer(exec'[t].seen.payload, req[t].offer, D, attached, verified, Existing)
            BY <1>e, <1>o, <2>2 DEF OwnRows, Equipped, OfferCommands
        <3>2. OwnExec(pc[t], req[t], exec'[t], D, attached, verified, Existing)
            BY <2>2, <3>1 DEF OwnExec
        <3> QED
            BY <1>o, <2>1, <2>2, <2>3, <3>2, ExecOwn
    <2>5. OwnRows(D)' /\ Drawn(D)'
        BY <1>h, <1>o, <2>1, RowsGrow DEF Drawn
    <2>6. Resolving(D)'
        <3>1. \A key : ~Indexing(t, key)
            BY <2>1 DEF Indexing
        <3> QED
            BY <1>o, <2>1, <2>2, <3>1, ResolvingKept
    <2> QED
        BY <1>k, <2>4, <2>5, <2>6
<1>3. ASSUME NEW t \in Tasks, NoCommit(t) PROVE OwnInv'
    <2>1. PICK e \in Outcomes(t, exec[t].seen.payload) :
            /\ Delivers(t, e) /\ Return(t, e = Nothing)
        BY <1>3 DEF NoCommit
    <2>2. pc[t] \in Commands /\ exec[t].phase = "commit"
          /\ UNCHANGED <<store, keys, req, faults, history>>
        BY <1>3 DEF NoCommit, At
    <2>3. PICK w \in Places : /\ Follows(pc[t], req[t], w) /\ Goto(t, w)
                              /\ e # Nothing /\ pc[t] \notin IgnoresError => w = "idle"
        BY <2>1, <2>2, ReturnFollows
    <2>4. pc[t] = "create_credential" => w = "idle"
        BY <2>1, <2>3 DEF Outcomes, IgnoresError, Event, Nothing, Error
    <2>5. Entitled(w, req[t], attached, verified, Existing)
        BY <1>e, <2>2, <2>3, <2>4, FollowsEntitled
    <2>6. \A k \in {"code", "token"} : handed'[k] \subseteq D
        BY <1>d, <2>1, <2>2
    <2> QED
        BY <1>q, <2>2, <2>3, <2>5, <2>6
<1>4. ASSUME NEW t \in Tasks, CommitOffer(t) PROVE OwnInv'
    <2> DEFINE o == req[t].offer
    <2>0. pc[t] \in OfferCommands /\ pc[t] \in Commands /\ exec[t].phase = "commit"
          /\ UNCHANGED <<offerView, cred, credView, index, pc, req, faults,
                         unshown>>
        BY <1>4 DEF CommitOffer, At, OnOffer
    <2>1. PICK e \in Outcomes(t, exec[t].seen.payload) \ {Error, Nothing} :
            /\ offer' = [offer EXCEPT ![o] =
                    [version |-> @.version + 1, payload |-> ApplyOffer(@.payload, e)]]
            /\ exec' = [exec EXCEPT ![t].event = e, ![t].phase = "view"]
            /\ keys' = IF e.type = "CredentialOfferCreated" THEN keys + 1 ELSE keys
            /\ attached' = IF e.type = "CredentialsAdded"
                           THEN attached \union {<<o, e.arg>>} ELSE attached
            /\ verified' = IF e.type = "CredentialRequestVerified" /\ req[t].valid
                           THEN verified \union {<<o, e.arg>>} ELSE verified
            /\ Delivers(t, e)
        BY <1>4 DEF CommitOffer
    <2>2. e \in EventsOf(pc[t])
        BY <2>0, <2>1, OutcomeType
    <2>3. o \in Offers
        BY <1>e, <2>0 DEF Equipped, OfferCommands
    <2>k. PICK key : key = <<keys + 1, o>>
        OBVIOUS
    <2>d. PICK D2 : D2 = IF e.type = "CredentialOfferCreated" THEN D \union {key} ELSE D
        OBVIOUS
    <2>4. /\ D \subseteq D2 /\ D2 \in SUBSET (Nat \X Offers)
          /\ attached \subseteq attached' /\ verified \subseteq verified' /\ Existing' = Existing
        BY <1>t, <2>0, <2>1, <2>3, <2>d, <2>k DEF Existing, RestType
    <2>5. OwnEvent(e, o, D2, attached', verified', Existing)
        <3>s. OwnOffer(exec[t].seen.payload, o, D, attached, verified, Existing)
            BY <1>e, <2>0 DEF OwnExec
        <3>1. CASE pc[t] = "create_offer"
            <4>1. e.type = "CredentialOfferCreated" /\ e.arg = keys + 1
                BY <2>1, <3>1 DEF Outcomes, Event
            <4> QED
                BY <2>d, <2>k, <4>1 DEF OwnEvent, Keyed
        <3>2. CASE pc[t] = "add_credentials"
            <4>1. e.type = "CredentialsAdded" /\ e.arg = req[t].cred
                BY <2>1, <3>2 DEF Outcomes, Event
            <4>2. req[t].cred \in Existing
                BY <1>e, <3>2 DEF Entitled, Equipped
            <4> QED
                BY <2>1, <4>1, <4>2 DEF OwnEvent
        <3>3. CASE pc[t] \in {"create_form", "send_offer", "create_token"}
            <4>1. e.type \in {"FormUrlEncodedCredentialOfferCreated", "CredentialOfferSent",
                              "TokenResponseCreated"} /\ e.arg = exec[t].seen.payload.key
                BY <2>1, <3>3 DEF Outcomes, Event, Error
            <4> QED
                BY <2>4, <3>s, <4>1 DEF OwnEvent, OwnOffer, Keyed
        <3>4. CASE pc[t] = "verify"
            <4>1. e.type = "CredentialRequestVerified" /\ req[t].valid
                BY <2>1, <3>4 DEF Outcomes, VerifyOutcomes, Event, Error
            <4> QED
                BY <2>1, <4>1 DEF OwnEvent
        <3>5. CASE pc[t] = "create_response"
            <4>1. e.type = "CredentialResponseCreated" /\ e.arg = req[t].resp
                BY <2>1, <3>5 DEF Outcomes, Event
            <4>2. attached' = attached /\ verified' = verified
                BY <2>1, <4>1
            <4> QED
                BY <1>e, <3>5, <4>1, <4>2 DEF OwnEvent, Entitled
        <3> QED
            BY <2>0, <3>1, <3>2, <3>3, <3>4, <3>5 DEF OfferCommands
    <2>6. /\ exec'[t].phase = "view" /\ exec'[t].event = e /\ exec'[t].seen = exec[t].seen
          /\ \A u \in Tasks \ {t} : exec'[u] = exec[u]
        BY <1>e, <1>t, <2>1 DEF TaskType, Execs
    <2>7. \A k \in {"code", "token"} : index'[k] \subseteq D2 /\ handed'[k] \subseteq D2
        BY <1>d, <1>h, <2>0, <2>1, <2>4
    <2>8. Drawn(D2)'
        <3>1. keys \in Nat /\ Drawn(D)
            BY <1>o, <1>t DEF RestType
        <3>2. CASE e.type # "CredentialOfferCreated"
            BY <2>1, <2>d, <3>1, <3>2 DEF Drawn
        <3>3. CASE e.type = "CredentialOfferCreated"
            <4>1. keys' = keys + 1 /\ D2 = D \union {<<keys + 1, o>>}
                BY <2>1, <2>d, <2>k, <3>3
            <4>2. \A p : <<keys + 1, p>> \notin D
                BY <3>1 DEF Drawn
            <4>3. D2 \subseteq (1..(keys + 1)) \X Offers
                BY <2>3, <3>1, <4>1 DEF Drawn
            <4>4. \A k \in 1..(keys + 1), o1, o2 \in Offers :
                    <<k, o1>> \in D2 /\ <<k, o2>> \in D2 => o1 = o2
                <5>1. \A k \in 1..(keys + 1) : k \in 1..keys \/ k = keys + 1
                    BY <3>1
                <5> QED
                    BY <3>1, <4>1, <4>2, <5>1 DEF Drawn
            <4> QED
                BY <4>1, <4>3, <4>4 DEF Drawn
        <3> QED
            BY <3>2, <3>3
    <2>9. OwnTasks(D2)'
        <3>1. OwnExec(pc[t], req[t], exec'[t], D2, attached', verified', Existing')
            <4>1. OwnOffer(exec[t].seen.payload, o, D2, attached', verified', Existing')
                <5>1. OwnOffer(exec[t].seen.payload, o, D, attached, verified, Existing)
                    BY <1>e, <2>0 DEF OwnExec
                <5> HIDE DEF o
                <5> QED
                    BY <2>4, <5>1, OwnGrows
            <4>2. pc[t] \notin CredCommands
                BY <2>0 DEF OfferCommands, CredCommands
            <4> QED
                BY <2>4, <2>5, <2>6, <4>1, <4>2 DEF OwnExec
        <3> QED
            BY <1>o, <2>0, <2>4, <2>6, <3>1, ExecOwn
    <2>10. OwnRows(D2)'
        <3> HIDE DEF o
        <3>1. /\ \A p \in Offers :
                    /\ OwnOffer(offer[p].payload, p, D2, attached', verified', Existing)
                    /\ OwnOffer(offerView[p].payload, p, D2, attached', verified', Existing)
              /\ \A c \in Creds : /\ SignedFor(c, cred[c].payload.signed, attached', verified')
                                  /\ SignedFor(c, credView[c].payload.signed, attached', verified')
            <4>1. /\ \A c, g : SignedFor(c, g, attached, verified) => SignedFor(c, g, attached', verified')
                  /\ \A s, p : OwnOffer(s, p, D, attached, verified, Existing)
                        => OwnOffer(s, p, D2, attached', verified', Existing)
                BY <2>4, OwnGrows
            <4> QED
                BY <1>o, <4>1 DEF OwnRows
        <3>2. OwnOffer(ApplyOffer(offer[o].payload, e), o, D2, attached', verified', Existing)
            <4>1. offer[o].payload \in OfferState
                BY <1>t, <2>3 DEF StoreType, Row
            <4> QED
                BY <2>0, <2>2, <2>3, <2>5, <3>1, <4>1, ApplyOwn
        <3>3. \A p \in Offers : OwnOffer(offer'[p].payload, p, D2, attached', verified', Existing)
            BY <1>t, <2>1, <2>3, <3>1, <3>2 DEF StoreType
        <3> QED
            BY <2>0, <2>4, <2>7, <3>1, <3>3 DEF OwnRows
    <2>11. Resolving(D2)'
        <3>1. Resolving(D)'
            <4>1. \A n : ~Indexing(t, n)
                BY <2>0 DEF Indexing
            <4>2. /\ \A u \in Tasks \ {t} : pc'[u] = pc[u] /\ req'[u] = req[u] /\ exec'[u] = exec[u]
                  /\ \A k \in {"code", "token"} : index[k] \subseteq index'[k]
                  /\ exec'[t].phase # "token" /\ faults' = faults
                BY <2>0, <2>6
            <4> QED
                BY <1>o, <4>1, <4>2, ResolvingKept
        <3>2. e.type = "CredentialOfferCreated" => Indexing(t, key)'
            <4> SUFFICES ASSUME e.type = "CredentialOfferCreated" PROVE Indexing(t, key)'
                OBVIOUS
            <4>1. pc[t] = "create_offer"
                BY <2>0, <2>2 DEF EventsOf, OfferCommands
            <4>2. e.arg = keys + 1
                BY <2>1, <4>1 DEF Outcomes, Event
            <4> QED
                BY <2>0, <2>6, <2>k, <4>1, <4>2 DEF Indexing
        <3> QED
            BY <2>d, <3>1, <3>2 DEF Resolving, Resolved
    <2> QED
        BY <2>4, <2>8, <2>9, <2>10, <2>11 DEF OwnInv, Owning
<1>5. ASSUME NEW t \in Tasks, CommitCred(t) PROVE OwnInv'
    <2> DEFINE c == req[t].cred
    <2>0. pc[t] \in CredCommands /\ pc[t] \in Commands /\ exec[t].phase = "commit"
          /\ UNCHANGED <<offer, offerView, credView, index, keys, pc, req, faults, handed,
                         attached, verified, unshown>>
        BY <1>5 DEF CommitCred, At, OnOffer, Commands, history
    <2>1. PICK e \in Outcomes(t, exec[t].seen.payload) \ {Error, Nothing} :
            /\ cred' = [cred EXCEPT ![c] =
                    [version |-> @.version + 1, payload |-> ApplyCred(@.payload, e)]]
            /\ exec' = [exec EXCEPT ![t].event = e, ![t].phase = "view"]
        BY <1>5 DEF CommitCred
    <2>2. e \in EventsOf(pc[t])
        BY <2>0, <2>1, OutcomeType
    <2>3. c \in Creds /\ pc[t] \notin OfferCommands /\ Existing' = Existing
        BY <1>e, <2>0 DEF Equipped, CredCommands, OfferCommands, Existing
    <2>4. /\ exec'[t].phase = "view" /\ exec'[t].event = e
          /\ \A u \in Tasks \ {t} : exec'[u] = exec[u]
        BY <1>e, <1>t, <2>1 DEF TaskType, Execs
    <2>5. e.type = "CredentialSigned" => SignedFor(c, e.arg, attached, verified)
        <3> SUFFICES ASSUME e.type = "CredentialSigned", e.arg \in Subjects
                     PROVE  SignedFor(c, e.arg, attached, verified)
            BY DEF SignedFor
        <3>1. pc[t] = "sign"
            BY <2>0, <2>2 DEF EventsOf, CredCommands
        <3>2. e.arg \in {req[t].subject, "null"}
            BY <2>1, <3>1 DEF Outcomes, SignOutcomes, Event, Error, Nothing
        <3>3. e.arg = req[t].subject
            BY <3>2, SubjectsAreDids
        <3>4. <<req[t].offer, c>> \in attached /\ <<req[t].offer, e.arg>> \in verified
              /\ req[t].offer \in Offers
            BY <1>e, <3>1, <3>3 DEF Entitled, Equipped
        <3> QED
            BY <3>4 DEF SignedFor
    <2>6. OwnTasks(D)'
        <3>1. OwnExec(pc[t], req[t], exec'[t], D, attached', verified', Existing')
            BY <2>0, <2>3, <2>4, <2>5 DEF OwnExec
        <3> QED
            BY <1>o, <2>0, <2>3, <2>4, <3>1, ExecOwn
    <2>7. OwnRows(D)'
        <3>1. SignedFor(c, ApplyCred(cred[c].payload, e).signed, attached, verified)
            <4>1. cred[c].payload \in CredState
                BY <1>t, <2>3 DEF StoreType, Row
            <4>2. SignedFor(c, cred[c].payload.signed, attached, verified)
                BY <1>o, <2>3 DEF OwnRows
            <4> HIDE DEF c
            <4> QED
                BY <2>0, <2>2, <2>5, <4>1, <4>2, ApplySigned
        <3>2. \A i \in Creds : SignedFor(i, cred'[i].payload.signed, attached, verified)
            BY <1>o, <1>t, <2>1, <2>3, <3>1 DEF OwnRows, StoreType
        <3> QED
            BY <1>o, <2>0, <2>3, <3>2 DEF OwnRows
    <2>8. Drawn(D)'
        BY <1>o, <2>0 DEF Drawn
    <2>9. Resolving(D)'
        <3>1. \A key : ~Indexing(t, key)
            BY <2>0 DEF Indexing
        <3>2. \A k \in {"code", "token"} : index[k] \subseteq index'[k]
            BY <2>0
        <3> QED
            BY <1>o, <2>0, <2>4, <3>1, <3>2, ResolvingKept
    <2> QED
        BY <1>k, <2>6, <2>7, <2>8, <2>9
<1>6. ASSUME NEW t \in Tasks, LoadView(t) PROVE OwnInv'
    <2>1. /\ pc[t] \in Commands /\ exec[t].phase = "view"
          /\ exec' = [exec EXCEPT
                ![t].copy = IF OnOffer(t) THEN offerView[req[t].offer] ELSE credView[req[t].cred],
                ![t].phase = "view_store"]
          /\ UNCHANGED <<offer, offerView, cred, credView, index, keys, pc, req, handed, attached,
                         verified, unshown, faults>>
        BY <1>6 DEF LoadView, At, store, history
    <2>2. /\ exec'[t].phase = "view_store" /\ exec'[t].event = exec[t].event
          /\ exec'[t].seen = exec[t].seen
          /\ pc[t] \in OfferCommands => exec'[t].copy = offerView[req[t].offer]
          /\ pc[t] \notin OfferCommands => exec'[t].copy = credView[req[t].cred]
          /\ \A u \in Tasks \ {t} : exec'[u] = exec[u]
        BY <1>t, <2>1 DEF TaskType, Execs, OnOffer
    <2>3. Existing' = Existing
        BY <2>1 DEF Existing
    <2>4. OwnTasks(D)'
        <3>1. pc[t] \in OfferCommands =>
                OwnOffer(exec'[t].copy.payload, req[t].offer, D, attached, verified, Existing)
            BY <1>e, <1>o, <2>2 DEF OwnRows, Equipped, OfferCommands
        <3>2. pc[t] \in CredCommands =>
                SignedFor(req[t].cred, exec'[t].copy.payload.signed, attached, verified)
            BY <1>e, <1>o, <2>2 DEF OwnRows, Equipped, CredCommands, OfferCommands
        <3>3. OwnExec(pc[t], req[t], exec[t], D, attached, verified, Existing)
            BY <1>e
        <3>4. OwnExec(pc[t], req[t], exec'[t], D, attached, verified, Existing)
            BY <2>1, <2>2, <3>1, <3>2, <3>3 DEF OwnExec
        <3>5. OwnExec(pc[t], req[t], exec'[t], D, attached', verified', Existing')
            BY <2>1, <2>3, <3>4
        <3> QED
            BY <1>o, <2>1, <2>2, <2>3, <3>5, ExecOwn
    <2>5. OwnRows(D)' /\ Drawn(D)'
        BY <1>h, <1>o, <2>1, RowsGrow DEF Drawn
    <2>6. Resolving(D)'
        <3>1. \A key : Indexing(t, key) => Indexing(t, key)'
            BY <2>1, <2>2 DEF Indexing
        <3>2. /\ \A k \in {"code", "token"} : index[k] \subseteq index'[k]
              /\ exec'[t].phase # "token"
            BY <2>1, <2>2
        <3> QED
            BY <1>o, <2>1, <2>2, <3>1, <3>2, ResolvingKept
    <2> QED
        BY <1>k, <2>4, <2>5, <2>6
<1>7. ASSUME NEW t \in Tasks, StoreView(t) PROVE OwnInv'
    <2> DEFINE x == exec[t]
    <2>0. /\ pc[t] \in Commands /\ x.phase = "view_store"
          /\ UNCHANGED <<offer, cred, index, keys, req, faults, handed, attached, verified, unshown>>
        BY <1>7 DEF StoreView, At, history
    <2>1. /\ x.event \in EventsOf(pc[t]) /\ x.copy \in CopyOf(pc[t])
          /\ OwnExec(pc[t], req[t], x, D, attached, verified, Existing)
        BY <1>e, <2>0 DEF Executing
    <2>2. ASSUME pc[t] \in OfferCommands
          PROVE  /\ OwnRows(D)' /\ Existing \subseteq Existing'
                 /\ pc[t] = "create_credential" => req[t].cred \in Existing'
        <3> DEFINE o == req[t].offer
                   p == ApplyOffer(x.copy.payload, x.event)
        <3>1. /\ o \in Offers /\ x.copy.payload \in OfferState
              /\ OwnOffer(x.copy.payload, o, D, attached, verified, Existing)
              /\ OwnEvent(x.event, o, D, attached, verified, Existing)
            BY <1>e, <2>0, <2>1, <2>2 DEF OwnExec, CopyOf, Row, Equipped, OfferCommands
        <3>2. OwnOffer(p, o, D, attached, verified, Existing)
            <4> HIDE DEF x, o
            <4> QED
                BY <2>1, <2>2, <3>1, ApplyOwn
        <3>3. credView' = credView /\ offerView' = [offerView EXCEPT ![o] = UpdateView(@, x.copy, p)]
            BY <1>7, <2>2 DEF StoreView, OnOffer
        <3> HIDE DEF p
        <3>4. /\ offerView'[o].payload \in {offerView[o].payload, p}
              /\ \A q \in Offers \ {o} : offerView'[q] = offerView[q]
            BY <1>t, <3>1, <3>3 DEF StoreType, UpdateView
        <3> HIDE DEF o, x
        <3>5. \A q \in Offers : OwnOffer(offerView'[q].payload, q, D, attached, verified, Existing)
            BY <1>o, <3>2, <3>4 DEF OwnRows
        <3>6. Existing' = Existing
            BY <2>0, <3>3 DEF Existing
        <3>7. OwnRows(D)'
            BY <1>o, <2>0, <3>3, <3>5, <3>6 DEF OwnRows
        <3>8. pc[t] # "create_credential"
            BY <2>2 DEF OfferCommands
        <3> QED
            BY <3>6, <3>7, <3>8
    <2>3. ASSUME pc[t] \notin OfferCommands
          PROVE  /\ OwnRows(D)' /\ Existing \subseteq Existing'
                 /\ pc[t] = "create_credential" => req[t].cred \in Existing'
        <3> DEFINE c == req[t].cred
                   p == ApplyCredView(x.copy.payload, x.event)
        <3>0. pc[t] \in CredCommands
            BY <2>0, <2>3 DEF Commands
        <3>1. /\ c \in Creds /\ x.copy.version \in Nat /\ x.copy.payload \in CredViewState
              /\ SignedFor(c, x.copy.payload.signed, attached, verified)
              /\ x.event.type = "CredentialSigned" => SignedFor(c, x.event.arg, attached, verified)
            BY <1>e, <2>0, <2>1, <2>3, <3>0 DEF OwnExec, CopyOf, Row, Equipped, CredCommands
        <3>2. SignedFor(c, p.signed, attached, verified)
            <4> HIDE DEF x, c
            <4> QED
                BY <2>1, <3>0, <3>1, ApplySigned
        <3>3. offerView' = offerView /\ credView' = [credView EXCEPT ![c] = UpdateView(@, x.copy, p)]
            BY <1>7, <2>3 DEF StoreView, OnOffer
        <3> HIDE DEF p
        <3>4. /\ credView'[c].payload \in {credView[c].payload, p} /\ credView'[c].version > 0
              /\ \A i \in Creds \ {c} : credView'[i] = credView[i]
            BY <1>t, <3>1, <3>3 DEF StoreType, UpdateView, Refused, Row
        <3> HIDE DEF c, x
        <3>5. \A i \in Creds : SignedFor(i, credView'[i].payload.signed, attached, verified)
            BY <1>o, <3>2, <3>4 DEF OwnRows
        <3>6. Existing \subseteq Existing' /\ c \in Existing'
            BY <2>0, <3>1, <3>4 DEF Existing
        <3>7. \A q \in Offers :
                /\ OwnOffer(offer[q].payload, q, D, attached, verified, Existing')
                /\ OwnOffer(offerView[q].payload, q, D, attached, verified, Existing')
            <4>1. \A s, o : OwnOffer(s, o, D, attached, verified, Existing)
                        => OwnOffer(s, o, D, attached, verified, Existing')
                BY <3>6, OwnGrows
            <4> QED
                BY <1>o, <4>1 DEF OwnRows
        <3>8. OwnRows(D)'
            BY <1>o, <2>0, <3>3, <3>5, <3>7 DEF OwnRows
        <3> QED
            BY <3>6, <3>8 DEF c
    <2>4. /\ OwnRows(D)' /\ Existing \subseteq Existing'
          /\ pc[t] = "create_credential" => req[t].cred \in Existing'
        BY <2>2, <2>3
    <2>5. Entitled(pc[t], req[t], attached', verified', Existing')
        BY <1>e, <2>0, <2>4, EntitledGrows
    <2>6. CASE x.event.type = "CredentialOfferCreated"
        <3>1. exec' = [exec EXCEPT ![t].phase = "code"] /\ UNCHANGED pc
            BY <1>7, <2>6 DEF StoreView
        <3>2. /\ exec'[t].phase = "code" /\ exec'[t].event = exec[t].event
              /\ exec'[t].seen = exec[t].seen
              /\ \A u \in Tasks \ {t} : exec'[u] = exec[u]
            BY <1>t, <3>1 DEF TaskType, Execs
        <3>3. pc[t] \in OfferCommands /\ pc[t] \notin CredCommands
            BY <2>0, <2>1, <2>6 DEF EventsOf, Commands, OfferCommands, CredCommands
        <3>4. OwnTasks(D)'
            <4>1. OwnExec(pc[t], req[t], exec'[t], D, attached, verified, Existing)
                BY <2>0, <2>1, <3>2, <3>3 DEF OwnExec
            <4>2. OwnExec(pc[t], req[t], exec'[t], D, attached', verified', Existing')
                BY <2>0, <2>4, <4>1, OwnGrows
            <4> QED
                BY <1>o, <2>0, <2>4, <3>1, <3>2, <4>2, ExecOwn
        <3>5. Resolving(D)'
            <4>1. \A key : Indexing(t, key) => Indexing(t, key)'
                BY <2>0, <3>1, <3>2 DEF Indexing
            <4>2. /\ \A k \in {"code", "token"} : index[k] \subseteq index'[k]
                  /\ exec'[t].phase # "token"
                BY <2>0, <3>2
            <4> QED
                BY <1>o, <2>0, <3>1, <3>2, <4>1, <4>2, ResolvingKept
        <3>6. Drawn(D)'
            BY <1>o, <2>0 DEF Drawn
        <3> QED
            BY <1>k, <2>4, <3>4, <3>5, <3>6
    <2>7. CASE x.event.type # "CredentialOfferCreated"
        <3>1. Return(t, TRUE) /\ pc[t] # "create_offer"
            BY <1>7, <2>1, <2>7 DEF StoreView, EventsOf
        <3>2. PICK w \in Places : Follows(pc[t], req[t], w) /\ Goto(t, w)
            BY <2>0, <3>1, ReturnFollows
        <3>3. Entitled(w, req[t], attached', verified', Existing')
            BY <1>e, <2>0, <2>4, <2>5, <3>2, FollowsEntitled
        <3>4. OwnTasks(D)'
            BY <1>o, <1>t, <2>0, <2>4, <3>2, <3>3, MoveOwn
        <3>5. Resolving(D)'
            <4>1. exec'[t] = NewExec /\ \A u \in Tasks \ {t} : pc'[u] = pc[u] /\ exec'[u] = exec[u]
                BY <1>t, <3>2, GotoMoves
            <4>2. \A key : ~Indexing(t, key)
                BY <3>1 DEF Indexing
            <4>3. /\ \A k \in {"code", "token"} : index[k] \subseteq index'[k]
                  /\ exec'[t].phase # "token"
                BY <2>0, <4>1 DEF NewExec
            <4> QED
                BY <1>o, <2>0, <4>1, <4>2, <4>3, ResolvingKept
        <3>6. Drawn(D)'
            BY <1>o, <2>0 DEF Drawn
        <3> QED
            BY <1>k, <2>4, <3>4, <3>5, <3>6
    <2> QED
        BY <2>6, <2>7
<1>8. ASSUME NEW t \in Tasks, IndexCode(t) \/ IndexToken(t) PROVE OwnInv'
    <2>k. PICK key : key = <<exec[t].event.arg, req[t].offer>>
        OBVIOUS
    <2>0. /\ pc[t] = "create_offer" /\ pc[t] \in Commands /\ exec[t].phase \in {"code", "token"}
          /\ key \in D
          /\ UNCHANGED <<offer, offerView, cred, credView, keys, req, faults, handed, attached,
                         verified, unshown>>
        <3>1. pc[t] \in Commands /\ exec[t].phase \in {"code", "token"}
              /\ UNCHANGED <<offer, offerView, cred, credView, keys, req, faults, handed, attached,
                             verified, unshown>>
            BY <1>8 DEF IndexCode, IndexToken, At, history
        <3>2. pc[t] = "create_offer" /\ exec[t].event \in EventsOf(pc[t])
            BY <1>e, <3>1 DEF Executing
        <3>3. OwnEvent(exec[t].event, req[t].offer, D, attached, verified, Existing)
            BY <1>e, <3>1, <3>2 DEF OwnExec, OfferCommands
        <3> QED
            BY <2>k, <3>1, <3>2, <3>3 DEF OwnEvent, EventsOf
    <2>1. /\ IndexCode(t) => index' = [index EXCEPT !["code"] = @ \union {key}]
          /\ IndexToken(t) => index' = [index EXCEPT !["token"] = @ \union {key}]
        BY <2>k DEF IndexCode, IndexToken
    <2>2. \A k \in {"code", "token"} : index[k] \subseteq index'[k] /\ index'[k] \subseteq D
        BY <1>8, <1>h, <1>t, <2>0, <2>1 DEF StoreType, Lookups
    <2>3. OwnRows(D)' /\ Existing' = Existing
        BY <1>h, <1>o, <2>0, <2>2, RowsGrow DEF Existing
    <2>4. Drawn(D)'
        BY <1>o, <2>0 DEF Drawn
    <2>5. \A n : Indexing(t, n) => n = key
        BY <2>k DEF Indexing
    <2>6. CASE IndexCode(t)
        <3>1. exec' = [exec EXCEPT ![t].phase = "token"] /\ UNCHANGED pc
            BY <2>6 DEF IndexCode
        <3>2. /\ exec'[t].phase = "token" /\ exec'[t].event = exec[t].event
              /\ exec'[t].seen = exec[t].seen
              /\ \A u \in Tasks \ {t} : exec'[u] = exec[u]
            BY <1>t, <3>1 DEF TaskType, Execs
        <3>3. OwnTasks(D)'
            <4>1. OwnExec(pc[t], req[t], exec'[t], D, attached, verified, Existing)
                BY <1>e, <2>0, <3>2 DEF OwnExec, OfferCommands, CredCommands
            <4>2. OwnExec(pc[t], req[t], exec'[t], D, attached', verified', Existing')
                BY <2>0, <2>3, <4>1
            <4> QED
                BY <1>o, <2>0, <2>3, <3>1, <3>2, <4>2, ExecOwn
        <3>4. Resolving(D)'
            <4>1. \A n : Indexing(t, n) => Indexing(t, n)'
                BY <2>0, <3>1, <3>2 DEF Indexing
            <4>2. <<exec'[t].event.arg, req'[t].offer>> \in index'["code"]
                BY <1>t, <2>0, <2>1, <2>6, <2>k, <3>2 DEF StoreType, Lookups
            <4> QED
                BY <1>o, <2>0, <2>2, <3>1, <3>2, <4>1, <4>2, ResolvingKept
        <3> QED
            BY <1>k, <2>3, <2>4, <3>3, <3>4
    <2>7. CASE IndexToken(t)
        <3>1. Return(t, TRUE) /\ exec[t].phase = "token"
            BY <2>7 DEF IndexToken, At
        <3>2. PICK w \in Places : Follows(pc[t], req[t], w) /\ Goto(t, w)
            BY <2>0, <3>1, ReturnFollows
        <3>3. Entitled(w, req[t], attached, verified, Existing)
            BY <1>e, <2>0, <3>2, FollowsEntitled
        <3>4. Entitled(w, req'[t], attached', verified', Existing')
            BY <2>0, <2>3, <3>3
        <3>5. OwnTasks(D)'
            BY <1>o, <1>t, <2>0, <2>3, <3>2, <3>4, MoveOwn
        <3>6. Resolving(D)'
            <4>1. exec'[t] = NewExec /\ \A u \in Tasks \ {t} : pc'[u] = pc[u] /\ exec'[u] = exec[u]
                BY <1>t, <3>2, GotoMoves
            <4>2. faults = 0 => key \in index["code"]
                BY <1>o, <2>k, <3>1 DEF Resolving
            <4>3. faults = 0 => key \in index'["code"] /\ key \in index'["token"]
                BY <1>t, <2>1, <2>2, <2>7, <4>2 DEF StoreType, Lookups
            <4>4. exec'[t].phase # "token"
                BY <4>1 DEF NewExec
            <4> QED
                BY <1>o, <2>0, <2>2, <2>5, <4>1, <4>3, <4>4, ResolvingKept
        <3> QED
            BY <1>k, <2>3, <2>4, <3>5, <3>6
    <2> QED
        BY <1>8, <2>6, <2>7
<1>9. ASSUME NEW t \in Tasks, Query(t) PROVE OwnInv'
    <2>0. /\ pc[t] \in Queries /\ pc[t] # "create_offer"
          /\ UNCHANGED <<store, keys, faults, history>>
        BY <1>9 DEF Query, ReadOffer, ReadCredential, ReadUrl, LookupCode, LookupToken, ReadToken,
                    PollWaits, PollTimesOut, PollEnds, ReadSigned, ReadResponse, Reading, Queries
    <2>q. ASSUME NEW where, Goto(t, where), \A u \in Tasks \ {t} : req'[u] = req[u],
                 where # "idle" => Entitled(where, req'[t], attached, verified, Existing),
                 \A k \in {"code", "token"} : handed'[k] \subseteq D
          PROVE  OwnInv'
        <3>1. Entitled(where, req'[t], attached, verified, Existing)
            BY <2>q, NewOwn
        <3> QED
            BY <1>q, <2>0, <2>q, <3>1
    <2>l. ASSUME NEW r, req' = [req EXCEPT ![t] = r]
          PROVE  req'[t] = r /\ \A u \in Tasks \ {t} : req'[u] = req[u]
        BY <1>t, <2>l DEF TaskType
    <2>1. CASE ReadOffer(t)
        <3>1. PICK w \in {"create_offer", "create_form", "add_credentials"} :
                    Goto(t, w) /\ UNCHANGED <<req, handed>> /\ pc[t] = "read_offer"
            BY <2>1 DEF ReadOffer, Successor, Reading
        <3>2. Entitled(w, req'[t], attached, verified, Existing)
            BY <1>e, <3>1 DEF Entitled
        <3> QED
            BY <1>h, <2>q, <3>1, <3>2
    <2>2. CASE ReadCredential(t) \/ PollTimesOut(t)
        <3>1. Goto(t, "idle") /\ UNCHANGED <<req, handed>>
            BY <2>2 DEF ReadCredential, PollTimesOut, Answer
        <3> QED
            BY <1>h, <2>q, <3>1
    <2>3. CASE ReadUrl(t)
        <3> DEFINE k == OfferRow(t).payload.url
                   o == req[t].offer
        <3>1. /\ Goto(t, "idle")
              /\ req' = req \/ req' = [req EXCEPT ![t] = [req[t] EXCEPT !.key = k]]
              /\ handed' = handed
                 \/ (k # 0 /\ handed' = [handed EXCEPT !["code"] = @ \union {<<k, o>>}])
            BY <2>3 DEF ReadUrl, Answer
        <3>2. o \in Offers
            BY <1>e, <2>3 DEF ReadUrl, Reading, Equipped
        <3>3. k # 0 => <<k, o>> \in D
            BY <1>o, <3>2 DEF OwnRows, OwnOffer, Keyed, OfferRow
        <3> HIDE DEF k, o
        <3>4. \A n \in {"code", "token"} : handed'[n] \subseteq D
            BY <1>h, <1>t, <3>1, <3>3 DEF RestType, Lookups
        <3>5. \A u \in Tasks \ {t} : req'[u] = req[u]
            BY <2>l, <3>1
        <3> QED
            BY <2>q, <3>1, <3>4, <3>5
    <2>4. CASE LookupCode(t) \/ LookupToken(t)
        <3>1. PICK k \in {"code", "token"}, next \in {"create_token", "verify"}, failure \in Nat :
                    Lookup(t, k, next, failure) /\ UNCHANGED handed
            BY <2>4 DEF LookupCode, LookupToken
        <3>2. CASE Goto(t, "idle") /\ UNCHANGED req
            BY <1>h, <2>q, <3>1, <3>2
        <3>3. CASE \E o \in Offers : req' = [req EXCEPT ![t].offer = o] /\ Goto(t, next)
            <4>1. PICK o \in Offers : req' = [req EXCEPT ![t] = [req[t] EXCEPT !.offer = o]]
                BY <3>3
            <4>2. \A u \in Tasks \ {t} : req'[u] = req[u]
                BY <2>l, <4>1
            <4>3. Entitled(next, req'[t], attached, verified, Existing)
                BY DEF Entitled
            <4> QED
                BY <1>h, <2>q, <3>1, <3>3, <4>2, <4>3
        <3> QED
            BY <3>1, <3>2, <3>3 DEF Lookup, Answer
    <2>5. CASE ReadToken(t)
        <3> DEFINE k == OfferRow(t).payload.token
                   o == req[t].offer
        <3>1. /\ Goto(t, "idle") /\ UNCHANGED req
              /\ handed' = handed
                 \/ (k # 0 /\ handed' = [handed EXCEPT !["token"] = @ \union {<<k, o>>}])
            BY <2>5 DEF ReadToken, Answer
        <3>2. o \in Offers
            BY <1>e, <2>5 DEF ReadToken, Reading, Equipped
        <3>3. k # 0 => <<k, o>> \in D
            BY <1>o, <3>2 DEF OwnRows, OwnOffer, Keyed, OfferRow
        <3> HIDE DEF k, o
        <3>4. \A n \in {"code", "token"} : handed'[n] \subseteq D
            BY <1>h, <1>t, <3>1, <3>3 DEF RestType, Lookups
        <3> QED
            BY <2>q, <3>1, <3>4
    <2>6. CASE PollWaits(t)
        <3>1. /\ pc[t] = "poll" /\ UNCHANGED <<pc, exec, handed>>
              /\ req' = [req EXCEPT ![t] = [req[t] EXCEPT !.polls = req[t].polls + 1]]
            BY <2>6 DEF PollWaits, Reading
        <3>2. UNCHANGED <<offer, offerView, cred, credView, index, keys, attached, verified, unshown, faults>>
            BY <2>0 DEF store, history
        <3>3. req'[t].offer = req[t].offer /\ \A u \in Tasks \ {t} : req'[u] = req[u]
            BY <1>e, <1>t, <3>1 DEF TaskType, Locals
        <3>4. Existing' = Existing
            BY <3>2 DEF Existing
        <3>5. OwnTasks(D)'
            <4>1. Entitled(pc'[t], req'[t], attached', verified', Existing')
                BY <3>1 DEF Entitled
            <4>2. OwnExec(pc'[t], req'[t], exec'[t], D, attached', verified', Existing')
                BY <3>1 DEF OwnExec, OfferCommands, CredCommands
            <4> QED
                BY <1>o, <3>1, <3>2, <3>3, <3>4, <4>1, <4>2, TasksGrow
        <3>6. OwnRows(D)' /\ Drawn(D)'
            BY <1>h, <1>o, <3>1, <3>2, RowsGrow DEF Drawn
        <3>7. Resolving(D)'
            <4>1. /\ exec'[t].phase # "token" /\ \A key : ~Indexing(t, key)
                BY <1>e, <3>1 DEF Executing, Indexing, Commands, OfferCommands, CredCommands
            <4>2. /\ \A u \in Tasks \ {t} : pc'[u] = pc[u] /\ req'[u] = req[u] /\ exec'[u] = exec[u]
                  /\ \A k \in {"code", "token"} : index[k] \subseteq index'[k]
                  /\ faults' = faults
                BY <3>1, <3>2, <3>3
            <4> QED
                BY <1>o, <4>1, <4>2, ResolvingKept
        <3> QED
            BY <1>k, <3>5, <3>6, <3>7
    <2>7. CASE PollEnds(t)
        <3> DEFINE v == OfferRow(t).payload
        <3>1. handed' = handed /\ v.cred # None /\ pc[t] = "poll"
            BY <2>7 DEF PollEnds, Reading
        <3>2. CASE Goto(t, "idle") /\ UNCHANGED req
            BY <1>h, <2>q, <3>1, <3>2
        <3>3. CASE /\ Goto(t, "sign") /\ v.subject # None
                   /\ req' = [req EXCEPT ![t] = [req[t] EXCEPT !.cred = v.cred, !.subject = v.subject]]
            <4>1. \A u \in Tasks \ {t} : req'[u] = req[u]
                BY <1>t, <3>3 DEF TaskType
            <4>2. req'[t].offer = req[t].offer /\ req'[t].cred = v.cred /\ req'[t].subject = v.subject
                BY <1>e, <1>t, <3>3 DEF TaskType, Locals
            <4>3. req[t].offer \in Offers
                BY <1>e, <3>1 DEF Equipped
            <4>4. OwnOffer(v, req[t].offer, D, attached, verified, Existing)
                BY <1>o, <4>3 DEF OwnRows, OfferRow
            <4>5. Entitled("sign", req'[t], attached, verified, Existing)
                BY <3>1, <3>3, <4>2, <4>4 DEF Entitled, OwnOffer
            <4> QED
                BY <1>h, <2>q, <3>1, <3>3, <4>1, <4>5
        <3> QED
            BY <2>7, <3>2, <3>3 DEF PollEnds, Answer
    <2>8. CASE ReadSigned(t)
        <3> DEFINE signature == CredRow(t).payload.signed
        <3>1. handed' = handed /\ pc[t] = "read_signed"
            BY <2>8 DEF ReadSigned, Reading
        <3>2. CASE Goto(t, "idle") /\ UNCHANGED req
            BY <1>h, <2>q, <3>1, <3>2
        <3>3. CASE /\ Goto(t, "create_response")
                   /\ req' = [req EXCEPT ![t] =
                        [req[t] EXCEPT !.resp = [cred |-> req[t].cred, signed |-> signature]]]
            <4>1. \A u \in Tasks \ {t} : req'[u] = req[u]
                BY <1>t, <3>3 DEF TaskType
            <4>2. req'[t].offer = req[t].offer /\ req'[t].resp = [cred |-> req[t].cred, signed |-> signature]
                BY <1>e, <1>t, <3>3 DEF TaskType, Locals
            <4>3. req[t].cred \in Creds /\ <<req[t].offer, req[t].cred>> \in attached
                BY <1>e, <3>1 DEF Equipped, Entitled
            <4>4. SignedFor(req[t].cred, signature, attached, verified)
                BY <1>o, <4>3 DEF OwnRows, CredRow
            <4> HIDE DEF signature
            <4>5. Entitled("create_response", req'[t], attached, verified, Existing)
                BY <4>2, <4>3, <4>4 DEF Entitled
            <4> QED
                BY <1>h, <2>q, <3>1, <3>3, <4>1, <4>5
        <3> QED
            BY <2>8, <3>2, <3>3 DEF ReadSigned, Answer
    <2>9. CASE ReadResponse(t)
        <3> DEFINE r == OfferRow(t).payload.resp
        <3>1. /\ Goto(t, "idle") /\ handed' = handed
              /\ req' = req \/ req' = [req EXCEPT ![t] = [req[t] EXCEPT !.resp = r]]
            BY <2>9 DEF ReadResponse, Answer
        <3> HIDE DEF r
        <3>2. \A u \in Tasks \ {t} : req'[u] = req[u]
            BY <2>l, <3>1
        <3> QED
            BY <1>h, <2>q, <3>1, <3>2
    <2> QED
        BY <1>9, <2>1, <2>2, <2>3, <2>4, <2>5, <2>6, <2>7, <2>8, <2>9 DEF Query
<1>f. ASSUME NEW t \in Tasks, Fail(t) PROVE OwnInv'
    <2>0. faults' # 0
        <3>1. faults' = faults + 1
            BY <1>f DEF Fail, StoreFails, ViewUpdateFails, QueryFails, DatabaseError
        <3> QED
            BY <1>t, <3>1 DEF RestType
    <2>1. CASE StoreFails(t)
        <3>1. pc[t] \in Commands /\ Return(t, FALSE) /\ UNCHANGED <<store, keys, req, history>>
            BY <2>1 DEF StoreFails, At
        <3>2. PICK w \in Places : /\ Follows(pc[t], req[t], w) /\ Goto(t, w)
                                  /\ pc[t] \notin IgnoresError => w = "idle"
            BY <3>1, ReturnFollows
        <3>3. Entitled(w, req[t], attached, verified, Existing)
            BY <1>e, <3>1, <3>2, FollowsEntitled DEF IgnoresError
        <3>4. \A k \in {"code", "token"} : handed'[k] \subseteq D
            BY <1>d, <1>h, <2>1 DEF StoreFails, At
        <3> QED
            BY <1>q, <2>0, <3>1, <3>2, <3>3, <3>4
    <2>2. CASE ViewUpdateFails(t)
        <3>0. /\ pc[t] \in Commands /\ exec[t].phase \in {"view", "view_store", "code", "token"}
              /\ UNCHANGED <<offer, offerView, cred, credView, index, keys, req, handed, attached,
                             verified>>
              /\ unshown' = IF OnOffer(t) THEN unshown ELSE unshown \union {req[t].cred}
            BY <2>2 DEF ViewUpdateFails, store
        <3>1. /\ Existing \subseteq Existing' /\ unshown \subseteq unshown'
              /\ pc[t] = "create_credential" => req[t].cred \in Existing'
            BY <1>e, <3>0 DEF Existing, OnOffer, OfferCommands, Equipped
        <3>2. OwnRows(D)' /\ Drawn(D)' /\ Resolving(D)'
            BY <1>h, <1>o, <2>0, <3>0, <3>1, RowsGrow DEF Drawn, Resolving
        <3>3. CASE exec[t].event.type = "CredentialOfferCreated" /\ exec[t].phase # "token"
            <4>1. /\ exec' = [exec EXCEPT ![t].phase = IF @ = "code" THEN "token" ELSE "code"]
                  /\ UNCHANGED pc
                BY <2>2, <3>3 DEF ViewUpdateFails
            <4>2. /\ exec'[t].phase \in {"code", "token"} /\ exec'[t].event = exec[t].event
                  /\ exec'[t].seen = exec[t].seen
                  /\ \A u \in Tasks \ {t} : exec'[u] = exec[u]
                BY <1>t, <4>1 DEF TaskType, Execs
            <4>3. OwnExec(pc[t], req[t], exec'[t], D, attached, verified, Existing)
                BY <1>e, <3>0, <4>2 DEF OwnExec
            <4>4. OwnExec(pc[t], req[t], exec'[t], D, attached', verified', Existing')
                BY <3>0, <3>1, <4>3, OwnGrows
            <4>5. OwnTasks(D)'
                BY <1>o, <3>0, <3>1, <4>1, <4>2, <4>4, ExecOwn
            <4> QED
                BY <1>k, <3>2, <4>5
        <3>4. CASE ~(exec[t].event.type = "CredentialOfferCreated" /\ exec[t].phase # "token")
            <4>1. Return(t, TRUE)
                BY <2>2, <3>4 DEF ViewUpdateFails
            <4>2. PICK w \in Places : Follows(pc[t], req[t], w) /\ Goto(t, w)
                BY <3>0, <4>1, ReturnFollows
            <4>3. Entitled(pc[t], req[t], attached', verified', Existing')
                BY <1>e, <3>0, <3>1, EntitledGrows
            <4>4. Entitled(w, req[t], attached', verified', Existing')
                BY <1>e, <3>0, <3>1, <4>2, <4>3, FollowsEntitled
            <4>5. OwnTasks(D)'
                BY <1>o, <1>t, <3>0, <3>1, <4>2, <4>4, MoveOwn
            <4> QED
                BY <1>k, <3>2, <4>5
        <3> QED
            BY <3>3, <3>4
    <2>3. CASE QueryFails(t)
        <3>1. UNCHANGED <<store, keys, req, handed, history>>
            BY <2>3 DEF QueryFails
        <3>2. PICK w : /\ Goto(t, w)
                       /\ w = "idle" \/ (w = "create_offer" /\ pc[t] = "read_offer")
            BY <2>3 DEF QueryFails, Answer
        <3>3. Entitled(w, req[t], attached, verified, Existing)
            BY <1>e, <3>2, NewOwn DEF Entitled
        <3> QED
            BY <1>h, <1>q, <2>0, <3>1, <3>2, <3>3
    <2> QED
        BY <1>f, <2>1, <2>2, <2>3 DEF Fail
<1>10. ASSUME NEW t \in Tasks, Cancel(t) PROVE OwnInv'
    <2>1. /\ Goto(t, "idle") /\ faults' = faults + 1 /\ UNCHANGED <<store, keys, req, handed, history>>
        BY <1>10 DEF Cancel
    <2>2. faults' # 0
        BY <1>t, <2>1 DEF RestType
    <2>3. Entitled("idle", req'[t], attached, verified, Existing)
        BY NewOwn
    <2> QED
        BY <1>h, <1>q, <2>1, <2>2, <2>3
<1>11. ASSUME Crash PROVE OwnInv'
    <2>1. /\ \A t \in Tasks : pc'[t] = "idle" /\ req'[t] = NoRequest /\ exec'[t] = NewExec
          /\ UNCHANGED <<keys, handed, attached, verified, unshown>> /\ faults' = faults + 1
        BY <1>11 DEF Crash, history
    <2>2. OwnTasks(D)'
        BY <2>1, NewOwn DEF OwnTasks
    <2>3. Drawn(D)'
        BY <1>o, <2>1 DEF Drawn
    <2>4. Resolving(D)'
        BY <1>t, <2>1 DEF RestType, Resolving, NewExec
    <2>5. OwnRows(D)'
        <3>1. CASE Store = "postgres"
            <4>1. UNCHANGED <<offer, offerView, cred, credView, index>>
                BY <1>11, <3>1 DEF Crash, store
            <4> QED
                BY <1>h, <1>o, <2>1, <4>1, RowsGrow
        <3>2. CASE Store # "postgres"
            <4>1. /\ \A o \in Offers : offer'[o] = NoRow(NewOffer) /\ offerView'[o] = NoRow(NewOffer)
                  /\ \A c \in Creds : cred'[c] = NoRow(NewCred) /\ credView'[c] = NoRow(NewCred)
                  /\ \A k \in {"code", "token"} : index'[k] = {}
                BY <1>11, <3>2 DEF Crash
            <4>2. NoRow(NewOffer).payload = NewOffer /\ NoRow(NewCred).payload = NewCred
                BY DEF NoRow
            <4>3. \A o \in Offers :
                    /\ OwnOffer(offer'[o].payload, o, D, attached', verified', Existing')
                    /\ OwnOffer(offerView'[o].payload, o, D, attached', verified', Existing')
                BY <4>1, <4>2, NewOwn
            <4>4. \A c \in Creds : /\ SignedFor(c, cred'[c].payload.signed, attached', verified')
                                   /\ SignedFor(c, credView'[c].payload.signed, attached', verified')
                BY <4>1, <4>2, NewOwn
            <4> QED
                BY <1>h, <2>1, <4>1, <4>3, <4>4 DEF OwnRows
        <3> QED
            BY <3>1, <3>2
    <2> QED
        BY <1>k, <2>2, <2>3, <2>4, <2>5
<1>12. CASE UNCHANGED vars
    <2>1. UNCHANGED <<offer, offerView, cred, credView, index, keys, pc, req, exec, handed, faults,
                      attached, verified, unshown>>
        BY <1>12 DEF vars, store, history
    <2>2. Existing' = Existing
        BY <2>1 DEF Existing
    <2>3. Drawn(D)' /\ OwnRows(D)' /\ OwnTasks(D)'
        BY <1>o, <2>1, <2>2 DEF Drawn, OwnRows, OwnTasks
    <2>4. Resolving(D)'
        BY <1>o, <2>1 DEF Resolving, Resolved, Indexing
    <2> QED
        BY <1>k, <2>3, <2>4
<1> QED
    BY <1>1, <1>2, <1>3, <1>4, <1>5, <1>6, <1>7, <1>8, <1>9, <1>f, <1>10, <1>11, <1>12
       DEF Next, Proceed, Execute

LEMMA OwnHolds == Spec => [](TypeInv /\ OwnInv)
<1>1. Init => TypeInv /\ OwnInv
    BY TypeInit, OwnInit
<1>2. TypeInv /\ OwnInv /\ [Next]_vars => (TypeInv /\ OwnInv)'
    BY TypeStep, OwnStep
<1> QED
    BY <1>1, <1>2, PTL DEF Spec

(* The agent signs only for a subject that proved possession of its key    *)
(* for an offer the credential was added to: SignCredential in             *)
(* agent_api_rest/src/issuance/credential_issuer/credential.rs.            *)
THEOREM SignedForProverHolds == Spec => []SignedForProver
<1>1. TypeInv /\ OwnInv => SignedForProver
    BY DEF OwnInv, Owning, OwnRows, SignedFor, SignedForProver
<1> QED
    BY <1>1, OwnHolds, PTL

(* An id in an OfferView can be read as a credential unless an update of   *)
(* that credential's view failed: the order of the commands in             *)
(* agent_api_rest/src/issuance/credentials.rs.                             *)
THEOREM ListedExist == Spec => []ListedCredentialsExist
<1>1. TypeInv /\ OwnInv => ListedCredentialsExist
    BY DEF OwnInv, Owning, OwnRows, OwnOffer, Existing, ListedCredentialsExist
<1> QED
    BY <1>1, OwnHolds, PTL

(* A code or token that has left the agent is found by its lookup, or will *)
(* be as soon as the handler that drew it gets on, unless a fault struck.  *)
THEOREM HandedKeysResolve == Spec => []KeysResolve
<1>1. TypeInv /\ OwnInv => KeysResolve
    BY DEF OwnInv, Owning, OwnRows, Resolving, Resolved, KeysResolve
<1> QED
    BY <1>1, OwnHolds, PTL

-----------------------------------------------------------------------------
(* A credential is added to one offer, by the request that created it. *)
OneOffer ==
    /\ \A c \in Creds, o1, o2 \in Offers :
            <<o1, c>> \in attached /\ <<o2, c>> \in attached => o1 = o2
    /\ \A t, u \in Tasks :
            req[t].kind = "credentials" /\ req[u].kind = "credentials" /\ req[t].cred = req[u].cred
            => t = u
    /\ \A t \in Tasks, o \in Offers :
            req[t].kind = "credentials" /\ <<o, req[t].cred>> \in attached => o = req[t].offer

Redeeming == {"verify", "poll", "sign", "read_signed", "create_response", "read_response"}

(* Handler at c with locals r: each place belongs to an endpoint. *)
Kinded(c, r) ==
    /\ c \in Redeeming \union {"lookup_token"} => r.kind = "credential"
    /\ c \in {"lookup_code", "create_token", "read_token"} => r.kind = "token"
    /\ c \in {"create_form", "read_url"} => r.kind = "offers"
    /\ c = "send_offer" => r.kind = "send"
    /\ r.kind = "credentials" => r.cred \in Creds

(* ... with status s, access tokens H handed out. *)
Answering(c, r, s, H, A, V) ==
    /\ c # "idle" => s = 0
    /\ c \in Redeeming => <<r.key, r.offer>> \in H
    /\ c = "lookup_token" => \E o \in Offers : <<r.key, o>> \in H
    /\ r.kind = "credential" /\ s = 200 =>
        \E o \in Offers : /\ <<r.key, o>> \in H /\ <<o, r.resp.cred>> \in A
                          /\ r.resp.signed \in Subjects => <<o, r.resp.signed>> \in V

RedeemInv ==
    /\ OneOffer
    /\ \A t \in Tasks :
        /\ Kinded(pc[t], req[t])
        /\ Answering(pc[t], req[t], status[t], handed["token"], attached, verified)

LEMMA AnsweringGrows ==
    ASSUME NEW H, NEW A, NEW V, NEW H2, NEW A2, NEW V2,
           H \subseteq H2, A \subseteq A2, V \subseteq V2
    PROVE  \A c, r, s : Answering(c, r, s, H, A, V) => Answering(c, r, s, H2, A2, V2)
BY DEF Answering

LEMMA OneOfferKept ==
    ASSUME OneOffer, attached' = attached,
           \A t \in Tasks : req'[t].kind = "credentials" =>
                req[t].kind = "credentials" /\ req'[t].cred = req[t].cred /\ req'[t].offer = req[t].offer
    PROVE  OneOffer'
BY DEF OneOffer

LEMMA FollowsKinded ==
    ASSUME NEW c \in Commands, NEW r, NEW w, Equipped(c, r), Kinded(c, r), Follows(c, r, w)
    PROVE  Kinded(w, r)
BY DEF Commands, OfferCommands, CredCommands, Equipped, Follows, Kinded, Redeeming

LEMMA FollowsAnswering ==
    ASSUME NEW c \in Commands, NEW r, NEW w, NEW s, NEW s2, NEW H, NEW A, NEW V,
           Equipped(c, r), Kinded(c, r), Follows(c, r, w), Answering(c, r, s, H, A, V),
           w = "idle" => c \notin IgnoresError, w # "idle" => s2 = s
    PROVE  Answering(w, r, s2, H, A, V)
<1>1. CASE c \in {"verify", "sign", "create_response"}
    <2>1. w \in Redeeming /\ s2 = 0 /\ c \in Redeeming
        BY <1>1 DEF Follows, IgnoresError, Redeeming, Answering
    <2> QED
        BY <2>1 DEF Answering, Redeeming
<1>2. CASE c \notin {"verify", "sign", "create_response"}
    <2>1. r.kind # "credential" /\ w \notin Redeeming \union {"lookup_token"}
        BY <1>2 DEF Commands, OfferCommands, CredCommands, Equipped, Kinded, Follows, Redeeming
    <2>2. w # "idle" => s2 = 0
        BY DEF Answering, Commands, OfferCommands, CredCommands
    <2> QED
        BY <2>1, <2>2 DEF Answering
<1> QED
    BY <1>1, <1>2

LEMMA RedeemInit == Init => RedeemInv
BY NoneIsNoEndpoint
   DEF Init, RedeemInv, OneOffer, Kinded, Answering, NoRequest, Redeeming, Endpoints

LEMMA RedeemStep == TypeInv /\ OwnInv /\ RedeemInv /\ [Next]_vars => RedeemInv'
<1> SUFFICES ASSUME TypeInv, OwnInv, RedeemInv, [Next]_vars PROVE RedeemInv'
    OBVIOUS
<1>t. StoreType /\ TaskType /\ RestType /\ OneOffer
    BY DEF TypeInv, RedeemInv
<1>o. PICK D \in SUBSET (Nat \X Offers) : Drawn(D) /\ OwnRows(D) /\ OwnTasks(D)
    BY DEF OwnInv, Owning
<1>e. \A t \in Tasks :
        /\ Equipped(pc[t], req[t]) /\ Kinded(pc[t], req[t]) /\ req[t] \in Locals
        /\ Answering(pc[t], req[t], status[t], handed["token"], attached, verified)
    BY <1>t DEF TaskType, RedeemInv
<1>m. ASSUME NEW t \in Tasks, OneOffer', Kinded(pc'[t], req'[t]),
             Answering(pc'[t], req'[t], status'[t], handed'["token"], attached', verified'),
             \A u \in Tasks \ {t} : pc'[u] = pc[u] /\ req'[u] = req[u] /\ status'[u] = status[u],
             handed["token"] \subseteq handed'["token"],
             attached \subseteq attached', verified \subseteq verified'
      PROVE  RedeemInv'
    <2>1. \A c, r, s : Answering(c, r, s, handed["token"], attached, verified)
                => Answering(c, r, s, handed'["token"], attached', verified')
        BY <1>m, AnsweringGrows
    <2>2. \A u \in Tasks \ {t} :
            Answering(pc[u], req[u], status[u], handed'["token"], attached', verified')
        BY <1>e, <2>1
    <2> QED
        BY <1>e, <1>m, <2>2 DEF RedeemInv
<1>g. ASSUME NEW t \in Tasks, NEW e, Delivers(t, e)
      PROVE  handed["token"] \subseteq handed'["token"]
    BY <1>g, <1>t DEF Delivers, RestType, Lookups
(* A command returns. *)
<1>r. ASSUME NEW t \in Tasks, NEW ok, pc[t] \in Commands, Return(t, ok), req' = req,
             handed["token"] \subseteq handed'["token"], UNCHANGED <<attached, verified>>
      PROVE  RedeemInv'
    <2>1. PICK w \in Places :
            /\ Follows(pc[t], req[t], w) /\ Goto(t, w)
            /\ (\E n \in {200, 500} : status' = [status EXCEPT ![t] = n]) \/ status' = status
            /\ w # "idle" => status' = status
            /\ w = "idle" => pc[t] \notin IgnoresError
        BY <1>r, ReturnFollows
    <2>2. pc'[t] = w /\ \A u \in Tasks \ {t} : pc'[u] = pc[u]
        BY <1>t, <2>1, GotoMoves
    <2>3. w # "idle" => status'[t] = status[t]
        BY <2>1
    <2>4. \A u \in Tasks \ {t} : status'[u] = status[u]
        BY <1>t, <2>1 DEF RestType
    <2>5. Kinded(w, req[t])
        BY <1>e, <1>r, <2>1, FollowsKinded
    <2>6. Answering(w, req[t], status'[t], handed["token"], attached, verified)
        BY <1>e, <1>r, <2>1, <2>3, FollowsAnswering
    <2>7. Answering(w, req[t], status'[t], handed'["token"], attached', verified')
        BY <1>r, <2>6, AnsweringGrows
    <2>8. OneOffer'
        BY <1>r, <1>t, OneOfferKept
    <2> QED
        BY <1>m, <1>r, <2>2, <2>4, <2>5, <2>7, <2>8
(* A command gets on. *)
<1>x. ASSUME NEW t \in Tasks, UNCHANGED <<pc, req, status>>, OneOffer',
             handed["token"] \subseteq handed'["token"],
             attached \subseteq attached', verified \subseteq verified'
      PROVE  RedeemInv'
    <2>1. Answering(pc[t], req[t], status[t], handed'["token"], attached', verified')
        BY <1>e, <1>x, AnsweringGrows
    <2> QED
        BY <1>e, <1>m, <1>x, <2>1
<1>1. ASSUME NEW t \in Tasks, Request(t) PROVE RedeemInv'
    <2>1. ASSUME NEW kind \in Endpoints, NEW where \in Places \ {"idle"}, NEW r \in Locals,
                 Start(t, kind, where, r), Kinded(where, [r EXCEPT !.kind = kind]),
                 where \notin Redeeming,
                 where = "lookup_token" => \E o \in Offers : <<r.key, o>> \in handed["token"],
                 kind = "credentials" => r.cred \in Creds /\ Fresh(r.cred)
          PROVE  RedeemInv'
        <3>1. /\ req'[t] = [r EXCEPT !.kind = kind] /\ req'[t].kind = kind /\ req'[t].cred = r.cred
              /\ req'[t].key = r.key /\ status'[t] = 0
              /\ \A u \in Tasks \ {t} : req'[u] = req[u] /\ status'[u] = status[u]
              /\ UNCHANGED <<handed, attached, verified>>
            BY <1>t, <2>1 DEF Start, TaskType, RestType, Locals, history
        <3>2. pc'[t] = where /\ \A u \in Tasks \ {t} : pc'[u] = pc[u]
            BY <1>t, <2>1, GotoMoves DEF Start
        <3>3. OneOffer'
            <4>1. CASE kind # "credentials"
                BY <1>t, <3>1, <4>1, OneOfferKept
            <4>2. CASE kind = "credentials"
                <5>1. /\ \A u \in Tasks \ {t} : req'[u].cred # req'[t].cred
                      /\ \A o \in Offers : <<o, req'[t].cred>> \notin attached
                    BY <2>1, <3>1, <4>2 DEF Fresh
                <5>2. ASSUME NEW v \in Tasks, NEW u \in Tasks, req'[v].kind = "credentials",
                             req'[u].kind = "credentials", req'[v].cred = req'[u].cred
                      PROVE  v = u
                    <6>1. CASE v = t \/ u = t
                        BY <5>1, <5>2, <6>1
                    <6>2. CASE v # t /\ u # t
                        BY <1>t, <3>1, <5>2, <6>2 DEF OneOffer
                    <6> QED
                        BY <6>1, <6>2
                <5>3. ASSUME NEW u \in Tasks, NEW o \in Offers, req'[u].kind = "credentials",
                             <<o, req'[u].cred>> \in attached
                      PROVE  o = req'[u].offer
                    <6>1. u # t /\ req'[u] = req[u]
                        BY <3>1, <5>1, <5>3
                    <6> QED
                        BY <1>t, <5>3, <6>1 DEF OneOffer
                <5> QED
                    BY <1>t, <3>1, <5>2, <5>3 DEF OneOffer
            <4> QED
                BY <4>1, <4>2
        <3>4. Answering(where, req'[t], 0, handed["token"], attached, verified)
            BY <2>1, <3>1 DEF Answering
        <3> QED
            BY <1>m, <2>1, <3>1, <3>2, <3>3, <3>4
    <2>2. ASSUME NEW o \in Offers, NEW c \in Creds, NEW signed \in BOOLEAN,
                 PostCredentials(t, o, c, signed)
          PROVE RedeemInv'
        <3> DEFINE r == [NoRequest EXCEPT !.offer = o, !.cred = c, !.signed = signed]
        <3>1. r \in Locals /\ r.cred = c /\ Kinded("create_credential", [r EXCEPT !.kind = "credentials"])
            BY DEF NoRequest, Locals, Kinded, Redeeming
        <3>2. Start(t, "credentials", "create_credential", r) /\ Fresh(c)
            BY <2>2 DEF PostCredentials
        <3> HIDE DEF r
        <3> QED
            BY <2>1, <3>1, <3>2 DEF Endpoints, Places, Commands, CredCommands, Redeeming
    <2>3. ASSUME NEW o \in Offers, PostOffers(t, o) \/ PostSend(t, o) PROVE RedeemInv'
        <3> DEFINE r == [NoRequest EXCEPT !.offer = o]
        <3>1. /\ r \in Locals /\ Kinded("read_offer", [r EXCEPT !.kind = "offers"])
              /\ Kinded("send_offer", [r EXCEPT !.kind = "send"])
            BY DEF NoRequest, Locals, Kinded, Redeeming
        <3>2. \/ Start(t, "offers", "read_offer", r)
              \/ Start(t, "send", "send_offer", r)
            BY <2>3 DEF PostOffers, PostSend
        <3> HIDE DEF r
        <3> QED
            BY <2>1, <3>1, <3>2 DEF Endpoints, Places, Commands, OfferCommands, Queries, Redeeming
    <2>4. ASSUME NEW k \in 1..keys, PostToken(t, k) PROVE RedeemInv'
        <3> DEFINE r == [NoRequest EXCEPT !.key = k]
        <3>0. k \in Nat
            BY <1>t DEF RestType
        <3>1. r \in Locals /\ Kinded("lookup_code", [r EXCEPT !.kind = "token"])
            BY <3>0 DEF NoRequest, Locals, Kinded, Redeeming
        <3>2. Start(t, "token", "lookup_code", r)
            BY <2>4 DEF PostToken
        <3> HIDE DEF r
        <3> QED
            BY <2>1, <3>1, <3>2 DEF Endpoints, Places, Queries, Redeeming
    <2>5. ASSUME NEW k \in 1..keys, NEW claim \in Subjects, NEW valid \in BOOLEAN,
                 PostCredential(t, k, claim, valid)
          PROVE RedeemInv'
        <3> DEFINE r == [NoRequest EXCEPT !.key = k, !.claim = claim, !.valid = valid]
        <3>0. k \in Nat
            BY <1>t DEF RestType
        <3>1. r \in Locals /\ r.key = k /\ Kinded("lookup_token", [r EXCEPT !.kind = "credential"])
            BY <3>0 DEF NoRequest, Locals, Kinded, Redeeming
        <3>2. Start(t, "credential", "lookup_token", r) /\ \E o \in Offers : <<k, o>> \in handed["token"]
            BY <2>5 DEF PostCredential
        <3> HIDE DEF r
        <3> QED
            BY <2>1, <3>1, <3>2 DEF Endpoints, Places, Queries, Redeeming
    <2> QED
        BY <1>1, <2>2, <2>3, <2>4, <2>5 DEF Request
<1>2. ASSUME NEW t \in Tasks, Load(t) \/ LoadView(t) \/ CommitCred(t) \/ IndexCode(t) PROVE RedeemInv'
    <2>1. UNCHANGED <<pc, req, status, handed, attached, verified>>
        BY <1>2 DEF Load, LoadView, CommitCred, IndexCode, history
    <2>2. OneOffer'
        BY <1>t, <2>1, OneOfferKept
    <2> QED
        BY <1>x, <2>1, <2>2
<1>3. ASSUME NEW t \in Tasks, NoCommit(t) PROVE RedeemInv'
    <2>1. PICK e : Delivers(t, e) /\ Return(t, e = Nothing)
        BY <1>3 DEF NoCommit
    <2>2. pc[t] \in Commands /\ req' = req /\ UNCHANGED <<attached, verified>>
        BY <1>3 DEF NoCommit, At, history
    <2> QED
        BY <1>g, <1>r, <2>1, <2>2
<1>4. ASSUME NEW t \in Tasks, CommitOffer(t) PROVE RedeemInv'
    <2> DEFINE o == req[t].offer
    <2>0. pc[t] \in OfferCommands /\ pc[t] \in Commands /\ exec[t].phase = "commit"
          /\ UNCHANGED <<pc, req, status>>
        BY <1>4 DEF CommitOffer, At, OnOffer
    <2>1. PICK e \in Outcomes(t, exec[t].seen.payload) \ {Error, Nothing} :
            /\ attached' = IF e.type = "CredentialsAdded"
                           THEN attached \union {<<o, e.arg>>} ELSE attached
            /\ verified' = IF e.type = "CredentialRequestVerified" /\ req[t].valid
                           THEN verified \union {<<o, e.arg>>} ELSE verified
            /\ Delivers(t, e)
        BY <1>4 DEF CommitOffer
    <2>2. OneOffer'
        <3>1. CASE e.type # "CredentialsAdded"
            BY <1>t, <2>0, <2>1, <3>1, OneOfferKept
        <3>2. CASE e.type = "CredentialsAdded"
            <4>1. pc[t] = "add_credentials"
                BY <2>0, <2>1, <3>2, OutcomeType DEF EventsOf, OfferCommands
            <4>2. e.arg = req[t].cred
                BY <2>1, <4>1 DEF Outcomes, Event
            <4>3. req[t].kind = "credentials" /\ req[t].cred \in Creds /\ o \in Offers
                BY <1>e, <4>1 DEF Equipped
            <4>4. attached' = attached \union {<<o, req[t].cred>>}
                BY <2>1, <3>2, <4>2
            <4> QED
                BY <1>t, <2>0, <4>3, <4>4 DEF OneOffer
        <3> QED
            BY <3>1, <3>2
    <2> QED
        BY <1>g, <1>x, <2>0, <2>1, <2>2
<1>5. ASSUME NEW t \in Tasks, StoreView(t) PROVE RedeemInv'
    <2>0. pc[t] \in Commands /\ UNCHANGED <<req, handed, attached, verified>>
        BY <1>5 DEF StoreView, At, history
    <2>1. CASE Return(t, TRUE)
        BY <1>r, <2>0, <2>1
    <2>2. CASE UNCHANGED <<pc, status>>
        <3>1. OneOffer'
            BY <1>t, <2>0, OneOfferKept
        <3> QED
            BY <1>x, <2>0, <2>2, <3>1
    <2> QED
        BY <1>5, <2>1, <2>2 DEF StoreView
<1>6. ASSUME NEW t \in Tasks, IndexToken(t) PROVE RedeemInv'
    <2>0. pc[t] \in Commands /\ UNCHANGED <<req, handed, attached, verified>> /\ Return(t, TRUE)
        BY <1>6 DEF IndexToken, At, history
    <2> QED
        BY <1>r, <2>0
<1>7. ASSUME NEW t \in Tasks, Query(t) PROVE RedeemInv'
    <2>0. /\ pc[t] \in Queries /\ status[t] = 0 /\ UNCHANGED <<offerView, index, attached, verified, keys>>
        BY <1>7, <1>e DEF Query, ReadOffer, ReadCredential, ReadUrl, LookupCode, LookupToken, ReadToken,
                    PollWaits, PollTimesOut, PollEnds, ReadSigned, ReadResponse, Reading, Queries,
                    Answering, store, history
    (* The handler goes on ... *)
    <2>q. ASSUME Kinded(pc'[t], req'[t]),
                 Answering(pc'[t], req'[t], status'[t], handed["token"], attached, verified),
                 \A u \in Tasks \ {t} : pc'[u] = pc[u] /\ req'[u] = req[u] /\ status'[u] = status[u],
                 handed["token"] \subseteq handed'["token"],
                 req[t].kind = "credentials" => req'[t] = req[t], req'[t].kind = req[t].kind
          PROVE  RedeemInv'
        <3>1. OneOffer'
            BY <1>t, <2>0, <2>q, OneOfferKept
        <3>2. Answering(pc'[t], req'[t], status'[t], handed'["token"], attached, verified)
            BY <2>q, AnsweringGrows
        <3>3. Answering(pc'[t], req'[t], status'[t], handed'["token"], attached', verified')
            BY <2>0, <3>2
        <3> QED
            BY <1>m, <2>0, <2>q, <3>1, <3>3
    (* ... or ends without a credential. *)
    <2>i. ASSUME NEW n \in {200, 201, 401, 500}, Answer(t, n), n # 200 \/ req'[t].kind # "credential",
                 \A u \in Tasks \ {t} : req'[u] = req[u],
                 handed["token"] \subseteq handed'["token"],
                 req[t].kind = "credentials" => req'[t] = req[t], req'[t].kind = req[t].kind
          PROVE  RedeemInv'
        <3>1. /\ pc'[t] = "idle" /\ status'[t] = n
              /\ \A u \in Tasks \ {t} : pc'[u] = pc[u] /\ status'[u] = status[u]
            BY <1>t, <2>i DEF Answer, Goto, TaskType, RestType
        <3>2. req[t].kind = "credentials" => req'[t].cred \in Creds
            BY <1>e, <2>i DEF Kinded
        <3>3. Kinded(pc'[t], req'[t])
            BY <2>i, <3>1, <3>2 DEF Kinded, Redeeming
        <3>4. Answering(pc'[t], req'[t], status'[t], handed["token"], attached, verified)
            BY <2>i, <3>1 DEF Answering, Redeeming
        <3> QED
            BY <2>i, <2>q, <3>1, <3>3, <3>4
    <2>l. ASSUME NEW r, req' = [req EXCEPT ![t] = r]
          PROVE  req'[t] = r /\ \A u \in Tasks \ {t} : req'[u] = req[u]
        BY <1>t, <2>l DEF TaskType
    <2>w. ASSUME NEW where, Goto(t, where)
          PROVE  pc'[t] = where /\ \A u \in Tasks \ {t} : pc'[u] = pc[u]
        BY <1>t, <2>w, GotoMoves
    <2>1. CASE ReadOffer(t)
        <3>1. PICK w \in {"create_offer", "create_form", "add_credentials"} :
                    /\ Goto(t, w) /\ UNCHANGED <<req, status, handed>> /\ pc[t] = "read_offer"
                    /\ w = "create_form" => req[t].kind = "offers"
            BY <2>1 DEF ReadOffer, Successor, Reading
        <3>2. Kinded(w, req[t]) /\ Answering(w, req[t], status[t], handed["token"], attached, verified)
            BY <1>e, <2>0, <3>1 DEF Kinded, Answering, Redeeming, Equipped
        <3>3. pc'[t] = w /\ \A u \in Tasks \ {t} : pc'[u] = pc[u]
            BY <2>w, <3>1
        <3> QED
            BY <2>q, <3>1, <3>2, <3>3
    <2>2. CASE ReadCredential(t) \/ PollTimesOut(t)
        <3>1. (Answer(t, 201) \/ Answer(t, 500)) /\ UNCHANGED <<req, handed>>
            BY <2>2 DEF ReadCredential, PollTimesOut
        <3> QED
            BY <2>i, <3>1
    <2>3. CASE ReadUrl(t)
        <3> DEFINE k == OfferRow(t).payload.url
        <3>1. /\ Answer(t, 200) \/ Answer(t, 500)
              /\ req' = req \/ req' = [req EXCEPT ![t] = [req[t] EXCEPT !.key = k]]
            BY <2>3 DEF ReadUrl
        <3> HIDE DEF k
        <3>2. handed["token"] \subseteq handed'["token"]
            BY <1>t, <2>3 DEF ReadUrl, RestType, Lookups
        <3>3. req[t].kind = "offers"
            BY <1>e, <2>3 DEF ReadUrl, Reading, Kinded
        <3>4. req'[t].kind = "offers" /\ \A u \in Tasks \ {t} : req'[u] = req[u]
            BY <1>e, <2>l, <3>1, <3>3 DEF Locals
        <3> QED
            BY <2>i, <3>1, <3>2, <3>3, <3>4
    <2>4. CASE LookupCode(t) \/ LookupToken(t)
        <3>1. PICK k \in {"code", "token"}, next \in {"create_token", "verify"}, failure \in {401, 500} :
                    /\ Lookup(t, k, next, failure) /\ UNCHANGED handed
                    /\ \/ k = "code" /\ next = "create_token" /\ pc[t] = "lookup_code"
                       \/ k = "token" /\ next = "verify" /\ pc[t] = "lookup_token"
            BY <2>4 DEF LookupCode, LookupToken, Reading
        <3>2. CASE Answer(t, failure) /\ UNCHANGED req
            BY <2>i, <3>1, <3>2
        <3>3. ASSUME NEW o \in Offers, <<req[t].key, o>> \in index[k], Goto(t, next),
                     req' = [req EXCEPT ![t].offer = o], UNCHANGED status
              PROVE  RedeemInv'
            <4>1. /\ req'[t] = [req[t] EXCEPT !.offer = o] /\ \A u \in Tasks \ {t} : req'[u] = req[u]
                  /\ req'[t].kind = req[t].kind /\ req'[t].key = req[t].key /\ req'[t].offer = o
                  /\ req'[t].cred = req[t].cred
                BY <1>e, <1>t, <3>3 DEF TaskType, Locals
            <4>2. pc'[t] = next /\ \A u \in Tasks \ {t} : pc'[u] = pc[u]
                BY <2>w, <3>3
            <4>3. Kinded(next, req'[t]) /\ req[t].kind # "credentials"
                BY <1>e, <3>1, <4>1 DEF Kinded, Redeeming
            <4>4. next = "verify" => <<req[t].key, o>> \in handed["token"]
                <5> SUFFICES ASSUME next = "verify" PROVE <<req[t].key, o>> \in handed["token"]
                    OBVIOUS
                <5>1. PICK p \in Offers : <<req[t].key, p>> \in handed["token"]
                    BY <1>e, <3>1 DEF Answering
                <5>2. <<req[t].key, p>> \in D /\ <<req[t].key, o>> \in D
                    BY <1>o, <3>1, <3>3, <5>1 DEF OwnRows
                <5>3. req[t].key \in 1..keys
                    BY <1>o, <5>2 DEF Drawn
                <5> QED
                    BY <1>o, <5>1, <5>2, <5>3 DEF Drawn
            <4>5. Answering(next, req'[t], status[t], handed["token"], attached, verified)
                BY <2>0, <3>1, <4>1, <4>4 DEF Answering, Redeeming
            <4> QED
                BY <2>q, <3>1, <3>3, <4>1, <4>2, <4>3, <4>5
        <3> QED
            BY <3>1, <3>2, <3>3 DEF Lookup
    <2>5. CASE ReadToken(t)
        <3>1. (Answer(t, 200) \/ Answer(t, 500)) /\ UNCHANGED req
            BY <2>5 DEF ReadToken
        <3>2. handed["token"] \subseteq handed'["token"]
            BY <1>t, <2>5 DEF ReadToken, RestType, Lookups
        <3>3. req[t].kind = "token"
            BY <1>e, <2>5 DEF ReadToken, Reading, Kinded
        <3> QED
            BY <2>i, <3>1, <3>2, <3>3
    (* The handler of a credential request, whose token is for its offer.  *)
    <2>v. ASSUME pc[t] \in {"poll", "read_signed", "read_response"}
          PROVE  /\ req[t].kind = "credential" /\ <<req[t].key, req[t].offer>> \in handed["token"]
                 /\ req[t].offer \in Offers
        BY <1>e, <2>v DEF Kinded, Answering, Redeeming, Equipped
    <2>n. ASSUME pc[t] \in {"poll", "read_signed"}, pc'[t] \in {"poll", "sign", "create_response"},
                 \A u \in Tasks \ {t} : pc'[u] = pc[u] /\ req'[u] = req[u], UNCHANGED <<status, handed>>,
                 req'[t].kind = req[t].kind, req'[t].key = req[t].key, req'[t].offer = req[t].offer
          PROVE  RedeemInv'
        <3>1. Kinded(pc'[t], req'[t])
            BY <2>n, <2>v DEF Kinded, Redeeming
        <3>2. Answering(pc'[t], req'[t], status'[t], handed["token"], attached, verified)
            BY <2>0, <2>n, <2>v DEF Answering
        <3> QED
            BY <2>n, <2>q, <2>v, <3>1, <3>2
    <2>6. CASE PollWaits(t)
        <3>1. /\ pc[t] = "poll" /\ pc' = pc /\ UNCHANGED <<status, handed>>
              /\ req' = [req EXCEPT ![t] = [req[t] EXCEPT !.polls = req[t].polls + 1]]
            BY <2>6 DEF PollWaits, Reading
        <3>2. /\ req'[t].kind = req[t].kind /\ req'[t].key = req[t].key /\ req'[t].offer = req[t].offer
              /\ \A u \in Tasks \ {t} : req'[u] = req[u]
            BY <1>e, <1>t, <3>1 DEF Locals, TaskType
        <3> QED
            BY <2>n, <3>1, <3>2
    <2>7. CASE PollEnds(t)
        <3> DEFINE v == OfferRow(t).payload
        <3>1. pc[t] = "poll" /\ UNCHANGED handed
            BY <2>7 DEF PollEnds, Reading
        <3>2. CASE Answer(t, 500) /\ UNCHANGED req
            BY <2>i, <3>1, <3>2
        <3>3. CASE /\ req' = [req EXCEPT ![t] = [req[t] EXCEPT !.cred = v.cred, !.subject = v.subject]]
                   /\ Goto(t, "sign") /\ UNCHANGED status
            <4> HIDE DEF v
            <4>1. /\ req'[t].kind = req[t].kind /\ req'[t].key = req[t].key
                  /\ req'[t].offer = req[t].offer /\ \A u \in Tasks \ {t} : req'[u] = req[u]
                BY <1>e, <1>t, <3>3 DEF Locals, TaskType
            <4>2. pc'[t] = "sign" /\ \A u \in Tasks \ {t} : pc'[u] = pc[u]
                BY <2>w, <3>3
            <4> QED
                BY <2>n, <3>1, <3>3, <4>1, <4>2
        <3> QED
            BY <2>7, <3>2, <3>3 DEF PollEnds
    <2>8. CASE ReadSigned(t)
        <3> DEFINE resp == [cred |-> req[t].cred, signed |-> CredRow(t).payload.signed]
        <3>1. pc[t] = "read_signed" /\ UNCHANGED handed
            BY <2>8 DEF ReadSigned, Reading
        <3>2. CASE Answer(t, 500) /\ UNCHANGED req
            BY <2>i, <3>1, <3>2
        <3>3. CASE /\ req' = [req EXCEPT ![t] = [req[t] EXCEPT !.resp = resp]]
                   /\ Goto(t, "create_response") /\ UNCHANGED status
            <4> HIDE DEF resp
            <4>1. /\ req'[t].kind = req[t].kind /\ req'[t].key = req[t].key
                  /\ req'[t].offer = req[t].offer /\ \A u \in Tasks \ {t} : req'[u] = req[u]
                BY <1>e, <1>t, <3>3 DEF Locals, TaskType
            <4>2. pc'[t] = "create_response" /\ \A u \in Tasks \ {t} : pc'[u] = pc[u]
                BY <2>w, <3>3
            <4> QED
                BY <2>n, <3>1, <3>3, <4>1, <4>2
        <3> QED
            BY <2>8, <3>2, <3>3 DEF ReadSigned
    <2>9. CASE ReadResponse(t)
        <3> DEFINE resp == OfferRow(t).payload.resp
        <3>1. pc[t] = "read_response" /\ UNCHANGED handed
            BY <2>9 DEF ReadResponse, Reading
        <3>2. CASE Answer(t, 500) /\ UNCHANGED req
            BY <2>i, <3>1, <3>2
        <3>3. CASE /\ resp # None /\ req' = [req EXCEPT ![t] = [req[t] EXCEPT !.resp = resp]]
                   /\ Answer(t, 200)
            <4>1. OwnOffer(OfferRow(t).payload, req[t].offer, D, attached, verified, Existing)
                  /\ OfferRow(t).payload \in OfferState
                BY <1>o, <1>t, <2>v, <3>1 DEF OwnRows, OfferRow, StoreType, Row
            <4>2. /\ resp.cred \in Creds /\ <<req[t].offer, resp.cred>> \in attached
                  /\ SignedFor(resp.cred, resp.signed, attached, verified)
                BY <3>3, <4>1 DEF OwnOffer, OfferState, Responses
            <4> HIDE DEF resp
            <4>3. resp.signed \in Subjects => <<req[t].offer, resp.signed>> \in verified
                BY <1>t, <2>v, <3>1, <4>2 DEF SignedFor, OneOffer
            <4>4. /\ req'[t].kind = req[t].kind /\ req'[t].key = req[t].key /\ req'[t].resp = resp
                  /\ \A u \in Tasks \ {t} : req'[u] = req[u]
                BY <1>e, <1>t, <3>3 DEF Locals, TaskType
            <4>5. /\ pc'[t] = "idle" /\ status'[t] = 200
                  /\ \A u \in Tasks \ {t} : pc'[u] = pc[u] /\ status'[u] = status[u]
                BY <1>t, <3>3 DEF Answer, Goto, TaskType, RestType
            <4>6. /\ Kinded(pc'[t], req'[t])
                  /\ Answering(pc'[t], req'[t], status'[t], handed["token"], attached, verified)
                BY <2>v, <3>1, <4>2, <4>3, <4>4, <4>5 DEF Kinded, Answering, Redeeming
            <4> QED
                BY <2>q, <2>v, <3>1, <4>4, <4>5, <4>6
        <3> QED
            BY <2>9, <3>2, <3>3 DEF ReadResponse
    <2> QED
        BY <1>7, <2>1, <2>2, <2>3, <2>4, <2>5, <2>6, <2>7, <2>8, <2>9 DEF Query
<1>f. ASSUME NEW t \in Tasks, Fail(t) PROVE RedeemInv'
    <2>0. UNCHANGED <<req, attached, verified>>
        BY <1>f DEF Fail, StoreFails, ViewUpdateFails, QueryFails, history
    <2>1. CASE StoreFails(t)
        <3>1. pc[t] \in Commands /\ Return(t, FALSE)
            BY <2>1 DEF StoreFails, At
        <3>2. handed["token"] \subseteq handed'["token"]
            BY <1>g, <2>1 DEF StoreFails
        <3> QED
            BY <1>r, <2>0, <3>1, <3>2
    <2>2. CASE ViewUpdateFails(t)
        <3>0. pc[t] \in Commands /\ UNCHANGED handed
            BY <2>2 DEF ViewUpdateFails
        <3>1. CASE Return(t, TRUE)
            BY <1>r, <2>0, <3>0, <3>1
        <3>2. CASE UNCHANGED <<pc, status>>
            <4>1. OneOffer'
                BY <1>t, <2>0, OneOfferKept
            <4> QED
                BY <1>x, <2>0, <3>0, <3>2, <4>1
        <3> QED
            BY <2>2, <3>1, <3>2 DEF ViewUpdateFails
    <2>3. CASE QueryFails(t)
        <3>0. pc[t] \in Queries /\ UNCHANGED handed /\ OneOffer' /\ status[t] = 0
            BY <1>e, <1>t, <2>0, <2>3, OneOfferKept DEF QueryFails, Queries, Answering
        <3>1. CASE Goto(t, "create_offer") /\ UNCHANGED status /\ pc[t] = "read_offer"
            <4>1. pc'[t] = "create_offer" /\ \A u \in Tasks \ {t} : pc'[u] = pc[u]
                BY <1>t, <3>1, GotoMoves
            <4>2. /\ Kinded("create_offer", req[t])
                  /\ Answering("create_offer", req[t], status[t], handed["token"], attached, verified)
                BY <1>e, <3>0 DEF Kinded, Answering, Redeeming
            <4> QED
                BY <1>m, <2>0, <3>0, <3>1, <4>1, <4>2
        <3>2. CASE \E n \in {401, 500} : Answer(t, n)
            <4>1. PICK n \in {401, 500} : Answer(t, n)
                BY <3>2
            <4>2. /\ pc'[t] = "idle" /\ status'[t] = n
                  /\ \A u \in Tasks \ {t} : pc'[u] = pc[u] /\ status'[u] = status[u]
                BY <1>t, <4>1 DEF Answer, Goto, TaskType, RestType
            <4>3. Kinded("idle", req[t])
                BY <1>e DEF Kinded, Redeeming
            <4>4. Answering("idle", req[t], n, handed["token"], attached, verified)
                BY <4>1 DEF Answering, Redeeming
            <4> QED
                BY <1>m, <2>0, <3>0, <4>2, <4>3, <4>4
        <3> QED
            BY <2>3, <3>1, <3>2 DEF QueryFails
    <2> QED
        BY <1>f, <2>1, <2>2, <2>3 DEF Fail
<1>8. ASSUME NEW t \in Tasks, Cancel(t) PROVE RedeemInv'
    <2>1. Goto(t, "idle") /\ UNCHANGED <<req, status, handed, attached, verified>> /\ pc[t] # "idle"
        BY <1>8 DEF Cancel, history
    <2>2. pc'[t] = "idle" /\ \A u \in Tasks \ {t} : pc'[u] = pc[u]
        BY <1>t, <2>1 DEF TaskType, Goto
    <2>3. Kinded("idle", req[t]) /\ Answering("idle", req[t], status[t], handed["token"], attached, verified)
        BY <1>e, <2>1 DEF Kinded, Answering, Redeeming
    <2>4. OneOffer'
        BY <1>t, <2>1, OneOfferKept
    <2> QED
        BY <1>m, <2>1, <2>2, <2>3, <2>4
<1>9. CASE Crash
    <2>1. \A t \in Tasks : pc'[t] = "idle" /\ req'[t] = NoRequest /\ status'[t] = 0
        BY <1>9 DEF Crash
    <2>2. attached' = attached /\ NoRequest.kind \notin Endpoints
        BY <1>9, NoneIsNoEndpoint DEF Crash, history, NoRequest
    <2>3. OneOffer'
        BY <1>t, <2>1, <2>2, OneOfferKept DEF Endpoints
    <2> QED
        BY <2>1, <2>2, <2>3 DEF RedeemInv, Kinded, Answering, Redeeming, Endpoints
<1>10. CASE UNCHANGED vars
    <2>1. UNCHANGED <<pc, req, status, handed, attached, verified>>
        BY <1>10 DEF vars, history
    <2>2. OneOffer'
        BY <1>t, <2>1, OneOfferKept
    <2> QED
        BY <1>e, <2>1, <2>2 DEF RedeemInv
<1> QED
    BY <1>1, <1>2, <1>3, <1>4, <1>5, <1>6, <1>7, <1>f, <1>8, <1>9, <1>10 DEF Next, Proceed, Execute

(* What POST /openid4vci/credential hands out was added to the offer of    *)
(* the access token it was asked with and signed outside or for a subject  *)
(* verified for that offer: the handlers of                                *)
(* agent_api_rest/src/issuance/credential_issuer/credential.rs.            *)
THEOREM AnswersOwn == Spec => []AnswersFromOwnOffer
<1>1. Init => TypeInv /\ OwnInv /\ RedeemInv
    BY TypeInit, OwnInit, RedeemInit
<1>2. TypeInv /\ OwnInv /\ RedeemInv /\ [Next]_vars => (TypeInv /\ OwnInv /\ RedeemInv)'
    BY TypeStep, OwnStep, RedeemStep
<1>3. RedeemInv => AnswersFromOwnOffer
    BY DEF RedeemInv, Answering, AnswersFromOwnOffer
<1> QED
    BY <1>1, <1>2, <1>3, PTL DEF Spec

-----------------------------------------------------------------------------
(* On Postgres what a command on a credential loaded is what it commits to.*)

(* Handler at p with locals r executing x, credentials C, attached A. *)
CredSeen(p, r, x, C, A) ==
    /\ p = "create_credential" /\ x.phase \in {"load", "commit"} =>
        C[r.cred].version = 0 /\ \A o \in Offers : <<o, r.cred>> \notin A
    /\ p \in CredCommands /\ x.phase = "commit" =>
        /\ x.seen.version <= C[r.cred].version
        /\ x.seen.version = C[r.cred].version => x.seen = C[r.cred]

SeenInv ==
    /\ \A c \in Creds : cred[c].version = 0 => cred[c].payload = NewCred
    /\ \A t \in Tasks : CredSeen(pc[t], req[t], exec[t], cred, attached)

Whole == TypeInv /\ OwnInv /\ RedeemInv /\ SeenInv

LEMMA SeenInit == Init => SeenInv
BY DEF Init, SeenInv, CredSeen, NoRow, NewExec, CredCommands

LEMMA SeenStep ==
    ASSUME Store = "postgres"
    PROVE  Whole /\ [Next]_vars => SeenInv'
<1> SUFFICES ASSUME Whole, [Next]_vars PROVE SeenInv'
    OBVIOUS
<1>t. StoreType /\ TaskType /\ RestType /\ OneOffer
    BY DEF Whole, TypeInv, RedeemInv
<1>o. PICK D \in SUBSET (Nat \X Offers) : OwnTasks(D)
    BY DEF Whole, OwnInv, Owning
<1>e. \A t \in Tasks : /\ Executing(pc[t], exec[t]) /\ Equipped(pc[t], req[t])
                       /\ Entitled(pc[t], req[t], attached, verified, Existing)
                       /\ req[t] \in Locals /\ exec[t] \in Execs
                       /\ CredSeen(pc[t], req[t], exec[t], cred, attached)
    BY <1>o, <1>t DEF TaskType, OwnTasks, Whole, SeenInv
<1>m. ASSUME NEW t \in Tasks, UNCHANGED <<cred, attached>>,
             CredSeen(pc'[t], req'[t], exec'[t], cred, attached),
             \A u \in Tasks \ {t} : pc'[u] = pc[u] /\ req'[u] = req[u] /\ exec'[u] = exec[u]
      PROVE  SeenInv'
    <2>1. \A u \in Tasks : CredSeen(pc'[u], req'[u], exec'[u], cred, attached)
        BY <1>e, <1>m
    <2> QED
        BY <1>m, <2>1 DEF SeenInv, Whole
<1>w. ASSUME NEW t \in Tasks, NEW where, Goto(t, where), where # "create_credential",
             UNCHANGED <<cred, attached>>, \A u \in Tasks \ {t} : req'[u] = req[u]
      PROVE  SeenInv'
    <2>1. /\ pc'[t] = where /\ exec'[t] = NewExec
          /\ \A u \in Tasks \ {t} : pc'[u] = pc[u] /\ exec'[u] = exec[u]
        BY <1>t, <1>w, GotoMoves
    <2>2. CredSeen(pc'[t], req'[t], exec'[t], cred, attached)
        BY <1>w, <2>1 DEF CredSeen, NewExec
    <2> QED
        BY <1>m, <1>w, <2>1, <2>2
<1>r. ASSUME NEW t \in Tasks, NEW ok, pc[t] \in Commands, Return(t, ok), UNCHANGED <<cred, attached, req>>
      PROVE  SeenInv'
    <2>1. PICK w \in Places : Follows(pc[t], req[t], w) /\ Goto(t, w)
        BY <1>r, ReturnFollows
    <2>2. w # "create_credential"
        BY <2>1 DEF Follows
    <2> QED
        BY <1>r, <1>w, <2>1, <2>2
<1>x. ASSUME NEW t \in Tasks, UNCHANGED <<cred, attached, pc, req>>,
             \A u \in Tasks \ {t} : exec'[u] = exec[u], exec'[t].phase \notin {"load", "commit"}
      PROVE  SeenInv'
    <2>1. CredSeen(pc[t], req[t], exec'[t], cred, attached)
        BY <1>x DEF CredSeen
    <2> QED
        BY <1>m, <1>x, <2>1
<1>1. ASSUME NEW t \in Tasks, Request(t) PROVE SeenInv'
    <2>1. CASE \E o \in Offers, c \in Creds, signed \in BOOLEAN : PostCredentials(t, o, c, signed)
        <3>1. PICK o \in Offers, c \in Creds, signed \in BOOLEAN : PostCredentials(t, o, c, signed)
            BY <2>1
        <3> DEFINE r == [NoRequest EXCEPT !.offer = o, !.cred = c, !.signed = signed]
        <3>2. /\ Fresh(c) /\ Goto(t, "create_credential") /\ UNCHANGED <<cred, attached>>
              /\ req' = [req EXCEPT ![t] = [r EXCEPT !.kind = "credentials"]]
            BY <3>1 DEF PostCredentials, Start, store, history
        <3>3. [r EXCEPT !.kind = "credentials"].cred = c
            BY DEF NoRequest
        <3> HIDE DEF r
        <3>4. req'[t].cred = c /\ \A u \in Tasks \ {t} : req'[u] = req[u]
            BY <1>t, <3>2, <3>3 DEF TaskType
        <3>5. /\ pc'[t] = "create_credential" /\ exec'[t] = NewExec
              /\ \A u \in Tasks \ {t} : pc'[u] = pc[u] /\ exec'[u] = exec[u]
            BY <1>t, <3>2 DEF TaskType, Goto
        <3>6. CredSeen(pc'[t], req'[t], exec'[t], cred, attached)
            BY <3>2, <3>4, <3>5 DEF CredSeen, Fresh, NewExec
        <3> QED
            BY <1>m, <3>2, <3>4, <3>5, <3>6
    <2>2. CASE ~\E o \in Offers, c \in Creds, signed \in BOOLEAN : PostCredentials(t, o, c, signed)
        <3>1. PICK where, kind, r : /\ Start(t, kind, where, r)
                                    /\ where \in {"read_offer", "send_offer", "lookup_code", "lookup_token"}
            BY <1>1, <2>2 DEF Request, PostOffers, PostSend, PostToken, PostCredential
        <3>2. Goto(t, where) /\ UNCHANGED <<cred, attached>> /\ \A u \in Tasks \ {t} : req'[u] = req[u]
            BY <1>t, <3>1 DEF Start, TaskType, store, history
        <3> QED
            BY <1>w, <3>1, <3>2
    <2> QED
        BY <2>1, <2>2
<1>2. ASSUME NEW t \in Tasks, Load(t) PROVE SeenInv'
    <2>1. /\ pc[t] \in Commands /\ exec[t].phase = "load" /\ UNCHANGED <<pc, req, cred, attached>>
          /\ exec' = [exec EXCEPT
                ![t].seen = IF OnOffer(t) THEN offer[req[t].offer] ELSE cred[req[t].cred],
                ![t].phase = "commit"]
        BY <1>2 DEF Load, At, store, history
    <2>2. /\ exec'[t].phase = "commit"
          /\ pc[t] \in CredCommands => exec'[t].seen = cred[req[t].cred]
          /\ \A u \in Tasks \ {t} : exec'[u] = exec[u]
        BY <1>t, <2>1 DEF TaskType, Execs, OnOffer, OfferCommands, CredCommands
    <2>3. pc[t] \in CredCommands => cred[req[t].cred].version \in Nat
        BY <1>e, <1>t DEF StoreType, Row, Equipped, CredCommands
    <2>4. CredSeen(pc[t], req[t], exec'[t], cred, attached)
        BY <1>e, <2>1, <2>2, <2>3 DEF CredSeen
    <2> QED
        BY <1>m, <2>1, <2>2, <2>4
<1>3. ASSUME NEW t \in Tasks, NoCommit(t) PROVE SeenInv'
    <2>1. PICK e : Return(t, e = Nothing)
        BY <1>3 DEF NoCommit
    <2>2. pc[t] \in Commands /\ UNCHANGED <<cred, attached, req>>
        BY <1>3 DEF NoCommit, At, store, history
    <2> QED
        BY <1>r, <2>1, <2>2
<1>4. ASSUME NEW t \in Tasks, CommitOffer(t) PROVE SeenInv'
    <2>0. /\ pc[t] \in OfferCommands /\ pc[t] \in Commands /\ exec[t].phase = "commit"
          /\ UNCHANGED <<cred, pc, req>>
        BY <1>4 DEF CommitOffer, At, OnOffer
    <2>1. PICK e \in Outcomes(t, exec[t].seen.payload) \ {Error, Nothing} :
            /\ exec' = [exec EXCEPT ![t].event = e, ![t].phase = "view"]
            /\ attached' = IF e.type = "CredentialsAdded"
                           THEN attached \union {<<req[t].offer, e.arg>>} ELSE attached
        BY <1>4 DEF CommitOffer
    <2>2. exec'[t].phase = "view" /\ \A u \in Tasks \ {t} : exec'[u] = exec[u]
        BY <1>t, <2>1 DEF TaskType, Execs
    <2>3. CASE e.type # "CredentialsAdded"
        BY <1>x, <2>0, <2>1, <2>2, <2>3
    <2>4. CASE e.type = "CredentialsAdded"
        <3>1. pc[t] = "add_credentials"
            BY <2>0, <2>1, <2>4, OutcomeType DEF EventsOf, OfferCommands, Whole
        <3>2. attached' = attached \union {<<req[t].offer, req[t].cred>>}
            BY <2>1, <2>4, <3>1 DEF Outcomes, Event
        <3>3. \A u \in Tasks : pc[u] = "create_credential" => req[u].cred # req[t].cred
            BY <1>e, <1>t, <3>1 DEF OneOffer, Equipped
        <3>4. \A u \in Tasks \ {t} : CredSeen(pc[u], req[u], exec[u], cred, attached')
            BY <1>e, <3>2, <3>3 DEF CredSeen
        <3>5. CredSeen(pc[t], req[t], exec'[t], cred, attached')
            BY <2>2 DEF CredSeen
        <3> QED
            BY <2>0, <2>2, <3>4, <3>5 DEF SeenInv, Whole
    <2> QED
        BY <2>3, <2>4
<1>5. ASSUME NEW t \in Tasks, CommitCred(t) PROVE SeenInv'
    <2> DEFINE c == req[t].cred
    <2>0. /\ pc[t] \in CredCommands /\ exec[t].phase = "commit" /\ UNCHANGED <<pc, req, attached>>
        BY <1>5 DEF CommitCred, At, OnOffer, Commands, history
    <2>1. PICK e : /\ cred' = [cred EXCEPT ![c] =
                        [version |-> @.version + 1, payload |-> ApplyCred(@.payload, e)]]
                   /\ exec' = [exec EXCEPT ![t].event = e, ![t].phase = "view"]
        BY <1>5 DEF CommitCred
    <2>2. exec'[t].phase = "view" /\ \A u \in Tasks \ {t} : exec'[u] = exec[u]
        BY <1>t, <2>1 DEF TaskType, Execs
    <2>3. c \in Creds /\ cred[c].version \in Nat
        BY <1>e, <1>t, <2>0 DEF Equipped, CredCommands, StoreType, Row
    <2> HIDE DEF c
    <2>4. /\ cred'[c].version = cred[c].version + 1
          /\ \A d \in Creds \ {c} : cred'[d] = cred[d]
        BY <1>t, <2>1, <2>3 DEF StoreType
    <2>5. \A d \in Creds : cred'[d].version = 0 => cred'[d].payload = NewCred
        BY <2>3, <2>4 DEF Whole, SeenInv
    <2>6. ASSUME NEW u \in Tasks \ {t} PROVE CredSeen(pc[u], req[u], exec[u], cred', attached)
        <3>1. CASE pc[u] \notin CredCommands \/ exec[u].phase \notin {"load", "commit"}
            BY <3>1 DEF CredSeen, CredCommands
        <3>2. CASE pc[u] \in CredCommands /\ req[u].cred # c
            <4>1. cred'[req[u].cred] = cred[req[u].cred]
                BY <1>e, <2>4, <3>2 DEF Equipped, CredCommands
            <4> QED
                BY <1>e, <4>1 DEF CredSeen
        <3>3. CASE pc[u] \in CredCommands /\ exec[u].phase \in {"load", "commit"} /\ req[u].cred = c
            <4>1. pc[u] # "create_credential"
                <5> SUFFICES ASSUME pc[u] = "create_credential" PROVE FALSE
                    OBVIOUS
                <5>1. \A o \in Offers : <<o, c>> \notin attached
                    BY <1>e, <3>3 DEF CredSeen
                <5>2. CASE pc[t] = "create_credential"
                    BY <1>e, <1>t, <3>3, <5>2 DEF OneOffer, Equipped, c
                <5>3. CASE pc[t] = "sign"
                    BY <1>e, <5>1, <5>3 DEF Entitled, Equipped, c
                <5> QED
                    BY <2>0, <5>2, <5>3 DEF CredCommands
            <4>2. exec[u].phase = "commit" => exec[u].seen.version \in Nat
                BY <1>e, <3>3 DEF Executing, SeenBy, Row, CredCommands, OfferCommands
            <4>3. exec[u].phase = "commit" => exec[u].seen.version <= cred[c].version
                BY <1>e, <3>3 DEF CredSeen
            <4>4. exec[u].phase = "commit" => exec[u].seen.version < cred'[c].version
                BY <2>3, <2>4, <4>2, <4>3
            <4> QED
                BY <2>3, <2>4, <3>3, <4>1, <4>2, <4>4 DEF CredSeen
        <3> QED
            BY <3>1, <3>2, <3>3
    <2>7. CredSeen(pc[t], req[t], exec'[t], cred', attached)
        BY <2>2 DEF CredSeen
    <2> QED
        BY <2>0, <2>2, <2>5, <2>6, <2>7 DEF SeenInv
<1>6. ASSUME NEW t \in Tasks, LoadView(t) \/ IndexCode(t) PROVE SeenInv'
    <2>1. /\ UNCHANGED <<cred, attached, pc, req>>
          /\ \/ exec' = [exec EXCEPT
                    ![t].copy = IF OnOffer(t) THEN offerView[req[t].offer] ELSE credView[req[t].cred],
                    ![t].phase = "view_store"]
             \/ exec' = [exec EXCEPT ![t].phase = "token"]
        BY <1>6 DEF LoadView, IndexCode, store, history
    <2>2. exec'[t].phase \in {"view_store", "token"} /\ \A u \in Tasks \ {t} : exec'[u] = exec[u]
        BY <1>t, <2>1 DEF TaskType, Execs
    <2> QED
        BY <1>x, <2>1, <2>2
<1>7. ASSUME NEW t \in Tasks, StoreView(t) PROVE SeenInv'
    <2>1. pc[t] \in Commands /\ UNCHANGED <<cred, attached, req>>
        BY <1>7 DEF StoreView, At, history
    <2>2. CASE Return(t, TRUE)
        BY <1>r, <2>1, <2>2
    <2>3. CASE exec' = [exec EXCEPT ![t].phase = "code"] /\ pc' = pc
        <3>1. exec'[t].phase = "code" /\ \A u \in Tasks \ {t} : exec'[u] = exec[u]
            BY <1>t, <2>3 DEF TaskType, Execs
        <3> QED
            BY <1>x, <2>1, <2>3, <3>1
    <2> QED
        BY <1>7, <2>2, <2>3 DEF StoreView
<1>8. ASSUME NEW t \in Tasks, IndexToken(t) PROVE SeenInv'
    <2>1. pc[t] \in Commands /\ UNCHANGED <<cred, attached, req>> /\ Return(t, TRUE)
        BY <1>8 DEF IndexToken, At, history
    <2> QED
        BY <1>r, <2>1
<1>9. ASSUME NEW t \in Tasks, Query(t) PROVE SeenInv'
    <2>1. UNCHANGED <<cred, attached>>
        BY <1>9 DEF Query, ReadOffer, ReadCredential, ReadUrl, LookupCode, LookupToken, ReadToken,
                    PollWaits, PollTimesOut, PollEnds, ReadSigned, ReadResponse, Reading, store, history
    <2>2. req' = req \/ \E r : req' = [req EXCEPT ![t] = r]
        BY <1>9 DEF Query, ReadOffer, ReadCredential, ReadUrl, LookupCode, LookupToken, ReadToken,
                    PollWaits, PollTimesOut, PollEnds, ReadSigned, ReadResponse, Lookup
    <2>3. \A u \in Tasks \ {t} : req'[u] = req[u]
        BY <1>t, <2>2 DEF TaskType
    <2>4. CASE PollWaits(t)
        <3>1. pc[t] = "poll" /\ UNCHANGED <<pc, exec>>
            BY <2>4 DEF PollWaits, Reading
        <3>2. CredSeen(pc[t], req'[t], exec[t], cred, attached)
            BY <3>1 DEF CredSeen, CredCommands
        <3> QED
            BY <1>m, <2>1, <2>3, <3>1, <3>2
    <2>5. CASE ~PollWaits(t)
        <3>1. PICK w \in {"idle", "create_offer", "create_form", "add_credentials", "create_token",
                          "verify", "sign", "create_response"} : Goto(t, w)
            BY <1>9, <2>5 DEF Query, ReadOffer, ReadCredential, ReadUrl, LookupCode, LookupToken,
                    ReadToken, PollTimesOut, PollEnds, ReadSigned, ReadResponse, Lookup, Answer, Successor
        <3> QED
            BY <1>w, <2>1, <2>3, <3>1
    <2> QED
        BY <2>4, <2>5
<1>f. ASSUME NEW t \in Tasks, Fail(t) PROVE SeenInv'
    <2>0. UNCHANGED <<cred, attached, req>>
        BY <1>f DEF Fail, StoreFails, ViewUpdateFails, QueryFails, store, history
    <2>1. CASE StoreFails(t)
        BY <1>r, <2>0, <2>1 DEF StoreFails, At
    <2>2. CASE ViewUpdateFails(t)
        <3>1. CASE Return(t, TRUE)
            BY <1>r, <2>0, <2>2, <3>1 DEF ViewUpdateFails
        <3>2. CASE /\ exec' = [exec EXCEPT ![t].phase = IF @ = "code" THEN "token" ELSE "code"]
                   /\ pc' = pc
            <4>1. exec'[t].phase \in {"code", "token"} /\ \A u \in Tasks \ {t} : exec'[u] = exec[u]
                BY <1>t, <3>2 DEF TaskType, Execs
            <4> QED
                BY <1>x, <2>0, <3>2, <4>1
        <3> QED
            BY <2>2, <3>1, <3>2 DEF ViewUpdateFails
    <2>3. CASE QueryFails(t)
        <3>1. PICK w \in {"idle", "create_offer"} : Goto(t, w)
            BY <2>3 DEF QueryFails, Answer
        <3> QED
            BY <1>w, <2>0, <3>1
    <2> QED
        BY <1>f, <2>1, <2>2, <2>3 DEF Fail
<1>10. ASSUME NEW t \in Tasks, Cancel(t) PROVE SeenInv'
    <2>1. Goto(t, "idle") /\ UNCHANGED <<cred, attached, req>>
        BY <1>10 DEF Cancel, store, history
    <2> QED
        BY <1>w, <2>1
<1>11. CASE Crash
    <2>1. /\ UNCHANGED <<cred, attached>>
          /\ \A t \in Tasks : pc'[t] = "idle" /\ exec'[t] = NewExec
        BY <1>11 DEF Crash, store, history
    <2> QED
        BY <2>1 DEF Whole, SeenInv, CredSeen, CredCommands
<1>12. CASE UNCHANGED vars
    BY <1>12 DEF vars, store, history, Whole, SeenInv
<1> QED
    BY <1>1, <1>2, <1>3, <1>4, <1>5, <1>6, <1>7, <1>8, <1>9, <1>f, <1>10, <1>11, <1>12
       DEF Next, Proceed, Execute

(* On Postgres a signature, good or null, is final: SignCredential in      *)
(* agent_issuance/src/credential/aggregate.rs, sent without `overwrite',   *)
(* never replaces one, and a credential is created once.                   *)
THEOREM SignaturesFinal ==
    ASSUME Store = "postgres"
    PROVE  Spec => SignatureFinal
<1> DEFINE Kept == \A c \in Creds : cred[c].payload.signed # None =>
                        cred'[c].payload.signed = cred[c].payload.signed
<1>1. Init => Whole
    BY TypeInit, OwnInit, RedeemInit, SeenInit DEF Whole
<1>2. Whole /\ [Next]_vars => Whole'
    BY TypeStep, OwnStep, RedeemStep, SeenStep DEF Whole
<1>3. Whole /\ [Next]_vars => [Kept]_cred
    <2> SUFFICES ASSUME Whole, [Next]_vars, cred' # cred, NEW c \in Creds,
                        cred[c].payload.signed # None
                 PROVE  cred'[c].payload.signed = cred[c].payload.signed
        OBVIOUS
    <2>1. PICK t \in Tasks : CommitCred(t)
        <3>1. \A t \in Tasks : Request(t) => cred' = cred
            BY DEF Request, PostCredentials, PostOffers, PostSend, PostToken, PostCredential, Start, store
        <3>2. \A t \in Tasks : Query(t) => cred' = cred
            BY DEF Query, ReadOffer, ReadCredential, ReadUrl, LookupCode, LookupToken, ReadToken,
                   PollWaits, PollTimesOut, PollEnds, ReadSigned, ReadResponse, Reading, store
        <3>3. \A t \in Tasks : Execute(t) => cred' = cred \/ CommitCred(t)
            BY DEF Execute, Load, NoCommit, CommitOffer, LoadView, StoreView, IndexCode, IndexToken, store
        <3>4. \A t \in Tasks : Cancel(t) => cred' = cred
            BY DEF Cancel, store
        <3>5. Crash => cred' = cred
            BY DEF Crash, store
        <3>6. UNCHANGED vars => cred' = cred
            BY DEF vars, store
        <3>7. \A t \in Tasks : Fail(t) => cred' = cred
            BY DEF Fail, StoreFails, ViewUpdateFails, QueryFails, store
        <3> QED
            BY <3>1, <3>2, <3>3, <3>4, <3>5, <3>6, <3>7 DEF Next, Proceed
    <2> DEFINE d == req[t].cred
    <2>2. /\ pc[t] \in CredCommands /\ exec[t].phase = "commit"
          /\ exec[t].seen.version = cred[d].version
        BY <2>1 DEF CommitCred, At, OnOffer, Commands, Stale, OfferCommands, CredCommands
    <2>3. PICK e \in Outcomes(t, exec[t].seen.payload) \ {Error, Nothing} :
            cred' = [cred EXCEPT ![d] =
                        [version |-> @.version + 1, payload |-> ApplyCred(@.payload, e)]]
        BY <2>1 DEF CommitCred
    <2>4. cred \in [Creds -> Row(CredState)] /\ d \in Creds
          /\ CredSeen(pc[t], req[t], exec[t], cred, attached)
        BY <2>2 DEF Whole, TypeInv, StoreType, TaskType, Equipped, CredCommands, SeenInv
    <2>5. exec[t].seen = cred[d]
        BY <2>2, <2>4 DEF CredSeen
    <2>6. cred[d].payload.signed = None
        <3>1. CASE pc[t] = "create_credential"
            <4>1. cred[d].payload = NewCred
                BY <2>2, <2>4, <3>1 DEF CredSeen, Whole, SeenInv
            <4> QED
                BY <4>1 DEF NewCred
        <3>2. CASE pc[t] = "sign"
            BY <2>3, <2>5, <3>2 DEF Outcomes, SignOutcomes
        <3> QED
            BY <2>2, <3>1, <3>2 DEF CredCommands
    <2> HIDE DEF d
    <2> QED
        BY <2>3, <2>4, <2>6
<1> QED
    BY <1>1, <1>2, <1>3, PTL DEF Spec, SignatureFinal

=============================================================================
