---------------------------- MODULE HolderProofs ----------------------------
(***************************************************************************)
(* Proofs about the holder: every state is well typed, whose credentials   *)
(* are stored, the order of an offer's states on Postgres, and what an     *)
(* acceptance leaves behind.                                               *)
(***************************************************************************)
EXTENDS Holder, TLAPS

(* What handle() may emit, and the command under execution. *)
Events ==
    [type : {"CredentialOfferReceived"}, arg : Sizes \union {None}] \union
    [type : {"CredentialOfferAccepted", "CredentialResponseReceived"}, arg : Nat] \union
    [type : {"CredentialOfferRejected"}, arg : {None}]

Execs == [phase : {"load", "decide", "commit", "view", "view_store"},
          seen : Row(OfferState) \union {None}, event : Events \union {None},
          copy : Row(OfferState) \union {None}]

(* A command has what its phase works with. *)
ExecOK ==
    /\ exec \in [Tasks -> Execs]
    /\ \A t \in Tasks :
        /\ exec[t].phase # "load" => pc[t] \in Commands /\ exec[t].seen \in Row(OfferState)
        /\ exec[t].phase \in {"commit", "view", "view_store"} => exec[t].event \in Events
        /\ exec[t].phase = "view_store" => exec[t].copy \in Row(OfferState)

(* What is shown next has been stored. *)
Stored == \A t \in Tasks : pc[t] = "show" => Entry(t) \in wallet

TypeInv == TypeOK /\ ExecOK /\ Stored

LEMMA ApplyType ==
    ASSUME NEW s \in OfferState, NEW e \in Events
    PROVE  Apply(s, e) \in OfferState
BY DEF Apply, OfferState, Events, Statuses

LEMMA UpdateViewType ==
    ASSUME NEW row \in Row(OfferState), NEW copy \in Row(OfferState), NEW p \in OfferState
    PROVE  UpdateView(row, copy, p) \in Row(OfferState)
BY DEF UpdateView, Row

LEMMA NewTypes ==
    /\ NewOffer \in OfferState
    /\ NoRow(NewOffer) \in Row(OfferState)
    /\ NewExec \in Execs
BY DEF NewOffer, OfferState, Statuses, NoRow, Row, NewExec, Execs

LEMMA TypeInit == Init => TypeInv
<1> SUFFICES ASSUME Init PROVE TypeInv
    OBVIOUS
<1>1. TypeOK
    BY NewTypes, HolderBounds DEF Init, TypeOK, NoRequest
<1>2. ExecOK
    BY NewTypes DEF Init, ExecOK, NewExec
<1>3. Stored
    BY DEF Init, Stored
<1> QED
    BY <1>1, <1>2, <1>3 DEF TypeInv

(* A handler that leaves its command behind is left with an empty one. *)
LEMMA GotoExec ==
    ASSUME TypeInv, NEW t \in Tasks, NEW where, Goto(t, where)
    PROVE  /\ ExecOK'
           /\ pc' = [pc EXCEPT ![t] = where]
           /\ exec'[t] = NewExec
           /\ \A u \in Tasks \ {t} : pc'[u] = pc[u] /\ exec'[u] = exec[u]
<1>1. /\ pc' = [pc EXCEPT ![t] = where]
      /\ exec'[t] = NewExec
      /\ exec' \in [Tasks -> Execs]
      /\ \A u \in Tasks \ {t} : pc'[u] = pc[u] /\ exec'[u] = exec[u]
    BY NewTypes DEF Goto, TypeInv, TypeOK, ExecOK
<1>2. exec'[t].phase = "load"
    BY <1>1 DEF NewExec
<1> QED
    BY <1>1, <1>2 DEF TypeInv, ExecOK

LEMMA TypeStep == TypeInv /\ [Next]_vars => TypeInv'
<1> SUFFICES ASSUME TypeInv, [Next]_vars PROVE TypeInv'
    OBVIOUS
<1>t. TypeOK /\ ExecOK /\ Stored
    BY DEF TypeInv
<1>s. ASSUME \A t \in Tasks : pc'[t] = "show" => pc[t] = "show" /\ req'[t] = req[t],
             wallet \subseteq wallet'
      PROVE  Stored'
    BY <1>s, <1>t DEF Stored, Entry
<1>1. ASSUME NEW t \in Tasks, Request(t) PROVE TypeInv'
    <2>1. ASSUME NEW kind \in {"offers", "accept", "reject"}, NEW where \in {"receive", "find", "reject"},
                 NEW o \in Offers, NEW size \in Sizes \union {None},
                 Start(t, kind, where, o, size)
          PROVE  TypeInv'
        <3>1. ExecOK' /\ pc' = [pc EXCEPT ![t] = where]
            BY <2>1, GotoExec DEF Start
        <3>2. TypeOK'
            BY <1>t, <2>1, <3>1 DEF Start, TypeOK, Commands, store, history
        <3>3. Stored'
            BY <1>s, <1>t, <2>1, <3>1 DEF Start, TypeOK, store
        <3> QED
            BY <3>1, <3>2, <3>3 DEF TypeInv
    <2> QED
        BY <1>1, <2>1 DEF Request, PostOffers, PostAccept, PostReject
<1>2. ASSUME NEW t \in Tasks, FindOffer(t) \/ DecideError(t) \/ Conflict(t) \/ ReadCredentials(t)
      PROVE TypeInv'
    <2>0. PICK where \in {"idle", "accept", "add"} : Goto(t, where)
        BY <1>2 DEF FindOffer, DecideError, Conflict, ReadCredentials, Answer
    <2>1. ExecOK' /\ pc' = [pc EXCEPT ![t] = where]
        BY <2>0, GotoExec
    <2>2. view[req[t].offer].payload.credential \in Nat \/ ~ReadCredentials(t)
        BY <1>t DEF TypeOK, ReadCredentials, Row, OfferState
    <2>3. status' \in [Tasks -> {0, 200, 404, 500}]
        BY <1>t, <1>2 DEF FindOffer, DecideError, Conflict, ReadCredentials, Answer, TypeOK
    <2>4. /\ req' \in [Tasks -> [kind : {None, "offers", "accept", "reject"}, credential : Nat,
                          offer : Offers \union {None}, size : Sizes \union {None}]]
          /\ \A u \in Tasks : req'[u].offer = req[u].offer
          /\ \A u \in Tasks \ {t} : req'[u] = req[u]
        <3>1. CASE ReadCredentials(t)
            <4>1. \/ UNCHANGED req
                  \/ req' = [req EXCEPT ![t].credential = view[req[t].offer].payload.credential]
                BY <3>1 DEF ReadCredentials
            <4> QED
                BY <1>t, <2>2, <3>1, <4>1 DEF TypeOK
        <3>2. CASE FindOffer(t) \/ DecideError(t) \/ Conflict(t)
            BY <1>t, <3>2 DEF FindOffer, DecideError, Conflict, TypeOK
        <3> QED
            BY <1>2, <3>1, <3>2
    <2>5. pc[t] # "idle"
        BY <1>2 DEF FindOffer, DecideError, Conflict, ReadCredentials, At, Commands
    <2>6. UNCHANGED <<store, drawn, requests, faults, history>>
        BY <1>2 DEF FindOffer, DecideError, Conflict, ReadCredentials
    <2>7. TypeOK'
        BY <1>t, <2>1, <2>3, <2>4, <2>5, <2>6 DEF TypeOK, Commands, store, history
    <2>8. Stored'
        BY <1>s, <1>t, <2>1, <2>4, <2>6 DEF TypeOK, store
    <2> QED
        BY <2>1, <2>7, <2>8 DEF TypeInv
<1>3. ASSUME NEW t \in Tasks, Load(t) \/ LoadView(t) PROVE TypeInv'
    <2>1. req[t].offer \in Offers
        BY <1>t, <1>3 DEF Load, LoadView, At, TypeOK, Commands
    <2>2. offer[req[t].offer] \in Row(OfferState) /\ view[req[t].offer] \in Row(OfferState)
        BY <1>t, <2>1 DEF TypeOK
    <2>3. ExecOK'
        BY <1>t, <1>3, <2>2 DEF Load, LoadView, At, ExecOK, Execs
    <2>4. TypeOK'
        BY <1>t, <1>3 DEF Load, LoadView, TypeOK, store, history
    <2>5. Stored'
        BY <1>s, <1>3 DEF Load, LoadView, store
    <2> QED
        BY <2>3, <2>4, <2>5 DEF TypeInv
<1>4. ASSUME NEW t \in Tasks, NEW type, NEW arg, At(t, "decide"), Emit(t, type, arg),
             Event(type, arg) \in Events,
             drawn' \in Nat, issued' \subseteq Nat \X Nat, granted' \subseteq Nat \X Offers
      PROVE TypeInv'
    <2>1. ExecOK'
        BY <1>t, <1>4 DEF Emit, At, ExecOK, Execs
    <2>2. TypeOK'
        BY <1>t, <1>4 DEF Emit, TypeOK, store
    <2>3. Stored'
        BY <1>s, <1>4 DEF Emit, store
    <2> QED
        BY <2>1, <2>2, <2>3 DEF TypeInv
<1>5. ASSUME NEW t \in Tasks, Decide(t) PROVE TypeInv'
    <2>0. pc[t] \in Commands => req[t].offer \in Offers
        BY <1>t DEF TypeOK, Commands
    <2>1. CASE DecideReceive(t)
        <3>1. Event("CredentialOfferReceived", req[t].size) \in Events
            BY <1>t DEF Event, Events, TypeOK
        <3> QED
            BY <1>t, <1>4, <2>1, <3>1 DEF DecideReceive, TypeOK
    <2>2. CASE DecideAccept(t)
        <3>1. drawn + 1 \in Nat
            BY <1>t DEF TypeOK
        <3>2. Event("CredentialOfferAccepted", drawn + 1) \in Events
            BY <3>1 DEF Event, Events
        <3>3. granted' \subseteq Nat \X Offers
            BY <1>t, <2>0, <2>2, <3>1 DEF DecideAccept, TypeOK, At
        <3> QED
            BY <1>t, <1>4, <2>2, <3>1, <3>2, <3>3 DEF DecideAccept, TypeOK
    <2>3. CASE DecideRequest(t)
        <3>1. drawn + 1 \in Nat
            BY <1>t DEF TypeOK
        <3>2. /\ Event("CredentialResponseReceived", drawn + 1) \in Events
              /\ Event("CredentialResponseReceived", 0) \in Events
            BY <3>1 DEF Event, Events
        <3>3. Seen(t).token \in Nat
            BY <1>t, <2>3 DEF DecideRequest, At, ExecOK, Seen, Row, OfferState
        <3>4. drawn' \in Nat /\ issued' \subseteq Nat \X Nat
            BY <1>t, <2>3, <3>1, <3>3 DEF DecideRequest, TypeOK
        <3> QED
            BY <1>t, <1>4, <2>3, <3>2, <3>4 DEF DecideRequest, TypeOK
    <2>4. CASE DecideReject(t)
        <3>1. Event("CredentialOfferRejected", None) \in Events
            BY DEF Event, Events
        <3> QED
            BY <1>t, <1>4, <2>4, <3>1 DEF DecideReject, TypeOK
    <2> QED
        BY <1>2, <1>5, <2>1, <2>2, <2>3, <2>4 DEF Decide
<1>6. ASSUME NEW t \in Tasks, Commit(t) PROVE TypeInv'
    <2>1. req[t].offer \in Offers /\ exec[t].event \in Events
        BY <1>t, <1>6 DEF Commit, At, TypeOK, Commands, ExecOK
    <2>2. offer[req[t].offer] \in Row(OfferState)
        BY <1>t, <2>1 DEF TypeOK
    <2>3. Apply(offer[req[t].offer].payload, exec[t].event) \in OfferState
        <3>1. offer[req[t].offer].payload \in OfferState
            BY <2>2 DEF Row
        <3> QED
            BY <2>1, <3>1, ApplyType
    <2>r. [version |-> offer[req[t].offer].version + 1,
           payload |-> Apply(offer[req[t].offer].payload, exec[t].event)] \in Row(OfferState)
        BY <2>2, <2>3 DEF Row
    <2>4. offer' \in [Offers -> Row(OfferState)]
        BY <1>t, <1>6, <2>r DEF Commit, TypeOK
    <2>5. ExecOK'
        BY <1>t, <1>6 DEF Commit, At, ExecOK, Execs
    <2>6. TypeOK'
        BY <1>t, <1>6, <2>1, <2>4 DEF Commit, TypeOK
    <2>7. Stored'
        BY <1>s, <1>6 DEF Commit
    <2> QED
        BY <2>5, <2>6, <2>7 DEF TypeInv
<1>7. ASSUME NEW t \in Tasks, At(t, "view_store") \/ (pc[t] \in Commands /\ Dispatching(t)),
             Continue(t), view' \in [Offers -> Row(OfferState)], faults' \in Nat,
             disturbed' \subseteq Offers,
             UNCHANGED <<offer, wallet, shown, drawn, req, requests, issued, granted, hidden>>
      PROVE TypeInv'
    <2>0. PICK where \in {"idle", "request", "read"} : Goto(t, where)
        BY <1>7 DEF Continue, Answer
    <2>1. ExecOK' /\ pc' = [pc EXCEPT ![t] = where]
        BY <2>0, GotoExec
    <2>2. status' \in [Tasks -> {0, 200, 404, 500}]
        BY <1>t, <1>7 DEF Continue, Answer, TypeOK
    <2>3. pc[t] # "idle"
        BY <1>7 DEF At, Commands
    <2>4. /\ pc' \in [Tasks -> {"idle", "find", "read", "add", "show"} \union Commands]
          /\ \A u \in Tasks : pc'[u] # "idle" => pc[u] # "idle"
          /\ \A u \in Tasks : pc'[u] = "show" => pc[u] = "show"
        BY <1>t, <2>1, <2>3 DEF TypeOK, Commands
    <2>5. TypeOK'
        BY <1>t, <1>7, <2>2, <2>4 DEF TypeOK
    <2>6. Stored'
        BY <1>s, <1>7, <2>4
    <2> QED
        BY <2>1, <2>5, <2>6 DEF TypeInv
<1>8. ASSUME NEW t \in Tasks, StoreView(t) PROVE TypeInv'
    <2>1. /\ req[t].offer \in Offers /\ exec[t].event \in Events
          /\ exec[t].copy \in Row(OfferState)
        BY <1>t, <1>8 DEF StoreView, At, TypeOK, Commands, ExecOK
    <2>2. /\ view[req[t].offer] \in Row(OfferState)
          /\ exec[t].copy.payload \in OfferState
        BY <1>t, <2>1 DEF TypeOK, Row
    <2>3. Apply(exec[t].copy.payload, exec[t].event) \in OfferState
        BY <2>1, <2>2, ApplyType
    <2>4. UpdateView(view[req[t].offer], exec[t].copy,
                     Apply(exec[t].copy.payload, exec[t].event)) \in Row(OfferState)
        BY <2>1, <2>2, <2>3, UpdateViewType
    <2>5. view' \in [Offers -> Row(OfferState)]
        BY <1>t, <1>8, <2>4 DEF StoreView, TypeOK
    <2> QED
        BY <1>7, <1>8, <1>t, <2>5 DEF StoreView, TypeOK, history
<1>9. ASSUME NEW t \in Tasks, ViewUpdateFails(t) PROVE TypeInv'
    <2>1. req[t].offer \in Offers
        BY <1>t, <1>9 DEF ViewUpdateFails, TypeOK, Commands
    <2> QED
        BY <1>7, <1>9, <1>t, <2>1 DEF ViewUpdateFails, DatabaseError, TypeOK, store
<1>10. ASSUME NEW t \in Tasks,
              AddCredential(t) \/ ShowCredential(t) \/ Cancel(t) \/ ShowFails(t) \/ StoreFails(t)
       PROVE TypeInv'
    <2>0. PICK where \in {"idle", "show"} : Goto(t, where)
        BY <1>10 DEF AddCredential, ShowCredential, Cancel, ShowFails, StoreFails, Answer
    <2>1. ExecOK' /\ pc' = [pc EXCEPT ![t] = where]
        BY <2>0, GotoExec
    <2>2. /\ pc[t] # "idle"
          /\ req[t].offer \in Offers /\ Entry(t) \in Nat \X Offers
        BY <1>t, <1>10
        DEF AddCredential, ShowCredential, Cancel, ShowFails, StoreFails, At, Commands, TypeOK, Entry
    <2>3. /\ status' \in [Tasks -> {0, 200, 404, 500}]
          /\ UNCHANGED <<offer, view, drawn, req, requests, issued, granted>>
          /\ faults' \in Nat /\ disturbed' \subseteq Offers /\ hidden' \subseteq Nat \X Offers
        <3>1. CASE AddCredential(t) \/ ShowCredential(t)
            BY <1>t, <3>1 DEF AddCredential, ShowCredential, Answer, TypeOK, history
        <3>2. CASE Cancel(t)
            BY <1>t, <2>2, <3>2 DEF Cancel, TypeOK, store
        <3>3. CASE ShowFails(t)
            BY <1>t, <2>2, <3>3 DEF ShowFails, DatabaseError, Answer, TypeOK, store
        <3>4. CASE StoreFails(t)
            BY <1>t, <2>2, <3>4 DEF StoreFails, DatabaseError, Answer, TypeOK, store
        <3> QED
            BY <1>10, <3>1, <3>2, <3>3, <3>4
    <2>4. wallet \subseteq wallet' /\ wallet' \subseteq Nat \X Offers /\ shown' \subseteq wallet'
        <3>1. CASE AddCredential(t)
            BY <1>t, <2>2, <3>1 DEF AddCredential, TypeOK
        <3>2. CASE ShowCredential(t)
            BY <1>t, <3>2 DEF ShowCredential, TypeOK, Stored
        <3>3. CASE Cancel(t) \/ ShowFails(t) \/ StoreFails(t)
            BY <1>t, <3>3 DEF Cancel, ShowFails, StoreFails, TypeOK, store
        <3> QED
            BY <1>10, <3>1, <3>2, <3>3
    <2>5. Stored'
        <3>1. CASE AddCredential(t)
            <4>1. Entry(t)' = Entry(t) /\ Entry(t) \in wallet'
                BY <2>3, <3>1 DEF AddCredential, Entry
            <4>2. \A u \in Tasks \ {t} : pc'[u] = pc[u] /\ Entry(u)' = Entry(u)
                BY <1>t, <2>1, <2>3 DEF Entry, TypeOK
            <4> QED
                BY <1>t, <2>4, <4>1, <4>2 DEF Stored
        <3>2. CASE ShowCredential(t) \/ Cancel(t) \/ ShowFails(t) \/ StoreFails(t)
            <4>1. where = "idle" \/ pc'[t] = "idle"
                BY <1>t, <3>2
                DEF ShowCredential, Cancel, ShowFails, StoreFails, Answer, Goto, TypeOK
            <4> QED
                BY <1>s, <1>t, <2>1, <2>3, <2>4, <4>1 DEF TypeOK
        <3> QED
            BY <1>10, <3>1, <3>2
    <2>6. /\ pc' \in [Tasks -> {"idle", "find", "read", "add", "show"} \union Commands]
          /\ \A u \in Tasks : pc'[u] # "idle" => pc[u] # "idle"
        BY <1>t, <2>1, <2>2 DEF TypeOK, Commands
    <2>7. TypeOK'
        BY <1>t, <2>3, <2>4, <2>6 DEF TypeOK
    <2> QED
        BY <2>1, <2>5, <2>7 DEF TypeInv
<1>11. ASSUME Crash PROVE TypeInv'
    <2>1. /\ pc' = [t \in Tasks |-> "idle"] /\ req' = [t \in Tasks |-> NoRequest]
          /\ exec' = [t \in Tasks |-> NewExec] /\ status' = [t \in Tasks |-> 0]
          /\ UNCHANGED <<drawn, requests, issued, granted, hidden>> /\ faults' = faults + 1
        BY <1>11 DEF Crash
    <2>2. ExecOK' /\ Stored'
        BY <2>1, NewTypes DEF ExecOK, NewExec, Stored
    <2>3. disturbed' \subseteq Offers
        BY <1>t, <1>11 DEF Crash, TypeOK
    <2>4. /\ offer' \in [Offers -> Row(OfferState)] /\ view' \in [Offers -> Row(OfferState)]
          /\ wallet' \subseteq Nat \X Offers /\ shown' \subseteq wallet'
        BY <1>t, <1>11, NewTypes DEF Crash, TypeOK, store
    <2>5. TypeOK'
        BY <1>t, <2>1, <2>3, <2>4 DEF TypeOK, NoRequest
    <2> QED
        BY <2>2, <2>5 DEF TypeInv
<1>12. ASSUME UNCHANGED vars PROVE TypeInv'
    BY <1>12, <1>t DEF TypeInv, TypeOK, ExecOK, Stored, Entry, vars, store, history
<1> QED
    BY <1>1, <1>2, <1>3, <1>5, <1>6, <1>8, <1>9, <1>10, <1>11, <1>12 DEF Next, Proceed, Fail

(* Every reachable state of the holder is well typed, and a credential is  *)
(* shown only after it has been stored.                                    *)
THEOREM TypeCorrect == Spec => []TypeOK
<1>1. TypeInv => TypeOK
    BY DEF TypeInv
<1> QED
    BY <1>1, TypeInit, TypeStep, PTL DEF Spec

-----------------------------------------------------------------------------
(***************************************************************************)
(* Whose credentials are stored: the holder stores a credential under the  *)
(* offer it was requested for, on both stores.                             *)
(*                                                                         *)
(* The handler takes the credential from a view row that other handlers    *)
(* write from copies of their own, so the invariant follows a credential,  *)
(* and the token behind it, through every place that holds one: the log,   *)
(* the row, the state a command was decided on, its event, its copy of the *)
(* row, the handler's locals and the wallet.                               *)
(***************************************************************************)

(* <<token, offer>> as granted, and <<credential, offer>> as handed out    *)
(* for such a token; 0 is the absent token, or the empty list.             *)
Tokens  == {entry \in Nat \X Offers : entry[1] = 0 \/ entry \in granted}
Genuine == {entry \in Nat \X Offers :
    entry[1] = 0 \/ \E grant \in granted : grant[2] = entry[2] /\ <<entry[1], grant[1]>> \in issued}

(* The states and events of offer o that carry its own tokens and credentials.*)
OwnState(o) == {s \in OfferState : <<s.token, o>> \in Tokens /\ <<s.credential, o>> \in Genuine}
OwnEvent(o) == {e \in Events :
    /\ e.type = "CredentialOfferAccepted"    => <<e.arg, o>> \in Tokens
    /\ e.type = "CredentialResponseReceived" => <<e.arg, o>> \in Genuine}

(* The handler of t, working on o, carries nothing of another offer. *)
OwnTask(t, o) ==
    req[t].offer = o =>
        /\ exec[t].phase # "load" => exec[t].seen.payload \in OwnState(o)
        /\ exec[t].phase \in {"commit", "view", "view_store"} => exec[t].event \in OwnEvent(o)
        /\ exec[t].phase = "view_store" => exec[t].copy.payload \in OwnState(o)
        /\ pc[t] \in {"add", "show"} =>
              req[t].credential # 0 /\ <<req[t].credential, o>> \in Genuine

OwnStates == \A o \in Offers : {offer[o].payload, view[o].payload} \subseteq OwnState(o)
OwnTasks  == \A t \in Tasks, o \in Offers : OwnTask(t, o)
OwnWallet == \A entry \in wallet : entry[1] # 0 /\ entry \in Genuine

WalletInv == TypeInv /\ OwnStates /\ OwnTasks /\ OwnWallet

(* What the issuer handed out once stays handed out. *)
LEMMA Monotone ==
    ASSUME issued \subseteq issued', granted \subseteq granted'
    PROVE  /\ Genuine \subseteq Genuine'
           /\ \A o \in Offers : OwnState(o) \subseteq OwnState(o)' /\ OwnEvent(o) \subseteq OwnEvent(o)'
<1>1. Tokens \subseteq Tokens' /\ Genuine \subseteq Genuine'
    BY DEF Tokens, Genuine
<1> QED
    BY <1>1 DEF OwnState, OwnEvent

LEMMA OwnApply ==
    ASSUME NEW o \in Offers, NEW s \in OwnState(o), NEW e \in OwnEvent(o)
    PROVE  Apply(s, e) \in OwnState(o)
<1>1. Apply(s, e) \in OfferState
    BY ApplyType DEF OwnState, OwnEvent
<1> QED
    BY <1>1 DEF Apply, OwnState, OwnEvent, Events, OfferState

LEMMA OwnNew == \A o \in Offers : NewOffer \in OwnState(o)
BY NewTypes DEF OwnState, NewOffer, Tokens, Genuine

LEMMA WalletInit == Init => WalletInv
<1> SUFFICES ASSUME Init PROVE WalletInv
    OBVIOUS
<1>1. TypeInv
    BY TypeInit
<1>2. OwnStates
    BY OwnNew DEF Init, OwnStates, NoRow
<1>3. OwnTasks
    BY DEF Init, OwnTasks, OwnTask, NewExec
<1>4. OwnWallet
    BY DEF Init, OwnWallet
<1> QED
    BY <1>1, <1>2, <1>3, <1>4 DEF WalletInv

(* A step of t keeps the invariant when t itself, the states it writes and *)
(* what it stores stay genuine.                                            *)
LEMMA OwnStep ==
    ASSUME WalletInv, TypeInv', NEW t \in Tasks,
           issued \subseteq issued', granted \subseteq granted',
           \A u \in Tasks \ {t} : pc'[u] = pc[u] /\ exec'[u] = exec[u] /\ req'[u] = req[u],
           \A o \in Offers : OwnTask(t, o)',
           \A o \in Offers :
              /\ offer'[o] = offer[o] \/ offer'[o].payload \in OwnState(o)'
              /\ view'[o] = view[o] \/ view'[o].payload \in OwnState(o)',
           \A entry \in wallet' : entry \in wallet \/ (entry[1] # 0 /\ entry \in Genuine)
    PROVE  WalletInv'
<1>m. /\ Genuine \subseteq Genuine'
      /\ \A o \in Offers : OwnState(o) \subseteq OwnState(o)' /\ OwnEvent(o) \subseteq OwnEvent(o)'
    BY Monotone
<1>1. OwnStates'
    BY <1>m DEF OwnStates, WalletInv
<1>2. ASSUME NEW u \in Tasks, NEW o \in Offers PROVE OwnTask(u, o)'
    <2>1. CASE u = t
        BY <2>1
    <2>2. CASE u # t
        <3>1. OwnTask(u, o) /\ pc'[u] = pc[u] /\ exec'[u] = exec[u] /\ req'[u] = req[u]
            BY <2>2 DEF WalletInv, OwnTasks
        <3> QED
            BY <1>m, <3>1 DEF OwnTask
    <2> QED
        BY <2>1, <2>2
<1>3. OwnWallet'
    BY <1>m DEF OwnWallet, WalletInv
<1> QED
    BY <1>1, <1>2, <1>3 DEF WalletInv, OwnTasks

(* A handler between two commands carries nothing. *)
LEMMA OwnGoto ==
    ASSUME WalletInv, NEW t \in Tasks, NEW where, where \notin {"add", "show"}, Goto(t, where)
    PROVE  /\ \A o \in Offers : OwnTask(t, o)'
           /\ \A u \in Tasks \ {t} : pc'[u] = pc[u] /\ exec'[u] = exec[u]
<1>1. /\ pc' = [pc EXCEPT ![t] = where] /\ exec'[t] = NewExec
      /\ \A u \in Tasks \ {t} : pc'[u] = pc[u] /\ exec'[u] = exec[u]
    BY GotoExec DEF WalletInv
<1>2. pc'[t] = where /\ exec'[t].phase = "load"
    BY <1>1 DEF WalletInv, TypeInv, TypeOK, NewExec
<1> QED
    BY <1>1, <1>2 DEF OwnTask

LEMMA WalletStep == WalletInv /\ [Next]_vars => WalletInv'
<1> SUFFICES ASSUME WalletInv, [Next]_vars PROVE WalletInv'
    OBVIOUS
<1>t. /\ TypeOK /\ ExecOK /\ TypeInv'
      /\ OwnStates /\ OwnTasks /\ OwnWallet
    BY TypeStep DEF WalletInv, TypeInv
<1>1. ASSUME NEW t \in Tasks, Request(t) PROVE WalletInv'
    <2>1. PICK kind \in {"offers", "accept", "reject"}, where \in {"receive", "find", "reject"},
               o \in Offers, size \in Sizes \union {None} : Start(t, kind, where, o, size)
        BY <1>1 DEF Request, PostOffers, PostAccept, PostReject
    <2>2. /\ \A p \in Offers : OwnTask(t, p)'
          /\ \A u \in Tasks \ {t} : pc'[u] = pc[u] /\ exec'[u] = exec[u]
        BY <2>1, OwnGoto DEF Start
    <2>3. \A u \in Tasks \ {t} : req'[u] = req[u]
        BY <1>t, <2>1 DEF Start, TypeOK
    <2> QED
        BY <1>t, <2>1, <2>2, <2>3, OwnStep DEF Start, store, history
<1>2. ASSUME NEW t \in Tasks,
             FindOffer(t) \/ DecideError(t) \/ Conflict(t) \/ ShowCredential(t) \/ Cancel(t) \/ Fail(t)
      PROVE WalletInv'
    <2>1. PICK where \in {"idle", "accept", "request", "read"} : Goto(t, where)
        BY <1>2 DEF FindOffer, DecideError, Conflict, ShowCredential, Cancel, Fail, ViewUpdateFails,
                    ShowFails, StoreFails, Continue, Answer
    <2>2. UNCHANGED <<offer, view, wallet, req, issued, granted>>
        BY <1>2 DEF FindOffer, DecideError, Conflict, ShowCredential, Cancel, Fail, ViewUpdateFails,
                    ShowFails, StoreFails, store, history
    <2>3. /\ \A p \in Offers : OwnTask(t, p)'
          /\ \A u \in Tasks \ {t} : pc'[u] = pc[u] /\ exec'[u] = exec[u]
        BY <2>1, OwnGoto
    <2> QED
        BY <1>t, <2>2, <2>3, OwnStep
<1>3. ASSUME NEW t \in Tasks, Load(t) \/ LoadView(t) PROVE WalletInv'
    <2>1. /\ req[t].offer \in Offers /\ exec[t] \in Execs
          /\ UNCHANGED <<offer, view, wallet, pc, req, issued, granted>>
          /\ \A u \in Tasks \ {t} : exec'[u] = exec[u]
        BY <1>t, <1>3 DEF Load, LoadView, At, TypeOK, ExecOK, Commands, store, history
    <2>m. \A o \in Offers : OwnState(o) \subseteq OwnState(o)' /\ OwnEvent(o) \subseteq OwnEvent(o)'
        BY <2>1, Monotone
    <2>2. PICK o \in Offers : o = req[t].offer
        BY <2>1
    <2>3. offer[o].payload \in OwnState(o)' /\ view[o].payload \in OwnState(o)'
        BY <1>t, <2>m DEF OwnStates
    <2>4. OwnTask(t, o) /\ pc[t] \in Commands
        BY <1>t, <1>3 DEF OwnTasks, Load, LoadView, At
    <2>5. OwnTask(t, o)'
        <3>1. CASE Load(t)
            <4>1. exec'[t].phase = "decide" /\ exec'[t].seen = offer[o]
                BY <1>t, <2>1, <2>2, <3>1 DEF Load, ExecOK, Execs
            <4> QED
                BY <2>1, <2>3, <2>4, <4>1 DEF OwnTask, Commands
        <3>2. CASE LoadView(t)
            <4>1. /\ exec'[t].phase = "view_store" /\ exec'[t].copy = view[o]
                  /\ exec'[t].seen = exec[t].seen /\ exec'[t].event = exec[t].event
                  /\ exec[t].phase = "view"
                BY <1>t, <2>1, <2>2, <3>2 DEF LoadView, At, ExecOK, Execs
            <4>2. exec[t].seen.payload \in OwnState(o) /\ exec[t].event \in OwnEvent(o)
                BY <2>2, <2>4, <4>1 DEF OwnTask
            <4> QED
                BY <2>1, <2>3, <2>m, <2>4, <4>1, <4>2 DEF OwnTask, Commands
        <3> QED
            BY <1>3, <3>1, <3>2
    <2>6. \A p \in Offers \ {o} : OwnTask(t, p)'
        BY <2>1, <2>2 DEF OwnTask
    <2> QED
        BY <1>t, <2>1, <2>5, <2>6, OwnStep
<1>4. ASSUME NEW t \in Tasks, NEW type, NEW arg, At(t, "decide"), Emit(t, type, arg),
             issued \subseteq issued', granted \subseteq granted',
             \A o \in Offers : req[t].offer = o => Event(type, arg) \in OwnEvent(o)'
      PROVE WalletInv'
    <2>1. /\ exec[t] \in Execs /\ pc[t] \in Commands /\ exec[t].phase = "decide"
          /\ UNCHANGED <<offer, view, wallet, pc, req>>
          /\ \A u \in Tasks \ {t} : exec'[u] = exec[u]
        BY <1>t, <1>4 DEF Emit, At, ExecOK, store
    <2>2. /\ exec'[t].phase = "commit" /\ exec'[t].event = Event(type, arg)
          /\ exec'[t].seen = exec[t].seen
        BY <1>t, <1>4, <2>1 DEF Emit, ExecOK, Execs
    <2>3. ASSUME NEW o \in Offers PROVE OwnTask(t, o)'
        <3>1. OwnTask(t, o) /\ OwnState(o) \subseteq OwnState(o)'
            BY <1>t, <1>4, Monotone DEF OwnTasks
        <3> QED
            BY <1>4, <2>1, <2>2, <3>1 DEF OwnTask, Commands
    <2> QED
        BY <1>t, <1>4, <2>1, <2>3, OwnStep
<1>5. ASSUME NEW t \in Tasks, Decide(t) PROVE WalletInv'
    <2>0. PICK o : o = req[t].offer
        OBVIOUS
    <2>1. CASE DecideReceive(t)
        <3>1. Event("CredentialOfferReceived", req[t].size) \in Events
            BY <1>t DEF Event, Events, TypeOK
        <3>2. \A p \in Offers : Event("CredentialOfferReceived", req[t].size) \in OwnEvent(p)'
            BY <3>1 DEF OwnEvent, Event
        <3> QED
            BY <1>4, <2>1, <3>2 DEF DecideReceive
    <2>2. CASE DecideAccept(t)
        <3>1. drawn + 1 \in Nat
            BY <1>t DEF TypeOK
        <3>2. Event("CredentialOfferAccepted", drawn + 1) \in Events
            BY <3>1 DEF Event, Events
        <3>3. o \in Offers => <<drawn + 1, o>> \in Tokens'
            BY <2>0, <2>2, <3>1 DEF DecideAccept, Tokens
        <3>4. o \in Offers => Event("CredentialOfferAccepted", drawn + 1) \in OwnEvent(o)'
            BY <3>2, <3>3 DEF OwnEvent, Event
        <3> QED
            BY <1>4, <2>0, <2>2, <3>4 DEF DecideAccept
    <2>3. CASE DecideRequest(t)
        <3>1. drawn + 1 \in Nat /\ Seen(t).token \in Nat
            BY <1>t, <2>3 DEF DecideRequest, At, ExecOK, Seen, Row, OfferState, TypeOK
        <3>2. /\ Event("CredentialResponseReceived", drawn + 1) \in Events
              /\ Event("CredentialResponseReceived", 0) \in Events
            BY <3>1 DEF Event, Events
        <3>3. o \in Offers => <<Seen(t).token, o>> \in granted
            <4>1. o \in Offers => OwnTask(t, o)
                BY <1>t DEF OwnTasks
            <4> QED
                BY <2>0, <2>3, <4>1 DEF DecideRequest, MayRequest, At, OwnTask, OwnState, Tokens, Seen
        <3>4. o \in Offers => Event("CredentialResponseReceived", 0) \in OwnEvent(o)'
            BY <3>2 DEF OwnEvent, Event, Genuine
        <3>5. o \in Offers /\ <<drawn + 1, Seen(t).token>> \in issued' /\ UNCHANGED granted
                => Event("CredentialResponseReceived", drawn + 1) \in OwnEvent(o)'
            <4>1. o \in Offers /\ <<drawn + 1, Seen(t).token>> \in issued' /\ UNCHANGED granted
                    => <<drawn + 1, o>> \in Genuine'
                BY <3>1, <3>3 DEF Genuine
            <4> QED
                BY <3>2, <4>1 DEF OwnEvent, Event
        <3> QED
            BY <1>4, <2>0, <2>3, <3>4, <3>5 DEF DecideRequest
    <2>4. CASE DecideReject(t)
        <3>1. Event("CredentialOfferRejected", None) \in Events
            BY DEF Event, Events
        <3>2. \A p \in Offers : Event("CredentialOfferRejected", None) \in OwnEvent(p)'
            BY <3>1 DEF OwnEvent, Event
        <3> QED
            BY <1>4, <2>4, <3>2 DEF DecideReject
    <2> QED
        BY <1>2, <1>5, <2>1, <2>2, <2>3, <2>4 DEF Decide
<1>6. ASSUME NEW t \in Tasks, Commit(t) PROVE WalletInv'
    <2>1. /\ req[t].offer \in Offers /\ exec[t] \in Execs
          /\ exec[t].phase = "commit" /\ pc[t] \in Commands
          /\ UNCHANGED <<view, wallet, pc, req, issued, granted>>
          /\ \A u \in Tasks \ {t} : exec'[u] = exec[u]
        BY <1>t, <1>6 DEF Commit, At, TypeOK, ExecOK, Commands
    <2>m. \A o \in Offers : OwnState(o) \subseteq OwnState(o)' /\ OwnEvent(o) \subseteq OwnEvent(o)'
        BY <2>1, Monotone
    <2>2. PICK o \in Offers : o = req[t].offer
        BY <2>1
    <2>3. exec[t].event \in OwnEvent(o) /\ exec[t].seen.payload \in OwnState(o)
        BY <1>t, <2>1, <2>2 DEF OwnTasks, OwnTask
    <2>4. Apply(offer[o].payload, exec[t].event) \in OwnState(o)
        BY <1>t, <2>3, OwnApply DEF OwnStates
    <2>5. /\ offer'[o].payload = Apply(offer[o].payload, exec[t].event)
          /\ \A p \in Offers \ {o} : offer'[p] = offer[p]
        BY <1>t, <1>6, <2>2 DEF Commit, TypeOK
    <2>6. /\ exec'[t].phase = "view" /\ exec'[t].event = exec[t].event
          /\ exec'[t].seen = exec[t].seen
        BY <1>t, <1>6, <2>1 DEF Commit, ExecOK, Execs
    <2>7. OwnTask(t, o)'
        BY <2>1, <2>3, <2>m, <2>6 DEF OwnTask, Commands
    <2>8. \A p \in Offers \ {o} : OwnTask(t, p)'
        BY <2>1, <2>2 DEF OwnTask
    <2>9. \A p \in Offers : offer'[p] = offer[p] \/ offer'[p].payload \in OwnState(p)'
        BY <2>4, <2>5, <2>m
    <2> QED
        BY <1>t, <2>1, <2>7, <2>8, <2>9, OwnStep
<1>7. ASSUME NEW t \in Tasks, StoreView(t) PROVE WalletInv'
    <2>1. /\ req[t].offer \in Offers /\ exec[t].phase = "view_store"
          /\ UNCHANGED <<offer, wallet, req, issued, granted>>
        BY <1>t, <1>7 DEF StoreView, At, TypeOK, Commands, history
    <2>m. \A o \in Offers : OwnState(o) \subseteq OwnState(o)'
        BY <2>1, Monotone
    <2>2. PICK o \in Offers : o = req[t].offer
        BY <2>1
    <2>3. exec[t].event \in OwnEvent(o) /\ exec[t].copy.payload \in OwnState(o)
        BY <1>t, <2>1, <2>2 DEF OwnTasks, OwnTask
    <2>4. Apply(exec[t].copy.payload, exec[t].event) \in OwnState(o)
        BY <2>3, OwnApply
    <2>5. /\ view'[o] = UpdateView(view[o], exec[t].copy,
                                   Apply(exec[t].copy.payload, exec[t].event))
          /\ \A p \in Offers \ {o} : view'[p] = view[p]
        BY <1>t, <1>7, <2>2 DEF StoreView, TypeOK
    <2>6. view'[o] = view[o] \/ view'[o].payload \in OwnState(o)
        BY <2>4, <2>5 DEF UpdateView
    <2>7. PICK where \in {"idle", "request", "read"} : Goto(t, where)
        BY <1>7 DEF StoreView, Continue, Answer
    <2>8. /\ \A p \in Offers : OwnTask(t, p)'
          /\ \A u \in Tasks \ {t} : pc'[u] = pc[u] /\ exec'[u] = exec[u]
        BY <2>7, OwnGoto
    <2>9. \A p \in Offers : view'[p] = view[p] \/ view'[p].payload \in OwnState(p)'
        BY <2>5, <2>6, <2>m
    <2> QED
        BY <1>t, <2>1, <2>8, <2>9, OwnStep
<1>8. ASSUME NEW t \in Tasks, ReadCredentials(t) PROVE WalletInv'
    <2>1. /\ req[t].offer \in Offers
          /\ UNCHANGED <<offer, view, wallet, issued, granted>>
          /\ \A u \in Tasks \ {t} : req'[u] = req[u]
          /\ req'[t].offer = req[t].offer
        BY <1>t, <1>8 DEF ReadCredentials, TypeOK, store, history
    <2>2. PICK where \in {"idle", "add"} :
              /\ Goto(t, where)
              /\ where = "add" => /\ req'[t].credential = view[req[t].offer].payload.credential
                                  /\ req'[t].credential # 0
        BY <1>t, <1>8 DEF ReadCredentials, Answer, TypeOK
    <2>3. /\ pc'[t] = where /\ exec'[t].phase = "load"
          /\ \A u \in Tasks \ {t} : pc'[u] = pc[u] /\ exec'[u] = exec[u]
        BY <1>t, <2>2, GotoExec DEF TypeInv, TypeOK, NewExec, WalletInv
    <2>4. PICK o \in Offers : o = req[t].offer
        BY <2>1
    <2>5. <<view[o].payload.credential, o>> \in Genuine'
        BY <1>t, <2>1, Monotone DEF OwnStates, OwnState
    <2>6. OwnTask(t, o)'
        BY <2>2, <2>3, <2>4, <2>5 DEF OwnTask
    <2>7. \A p \in Offers \ {o} : OwnTask(t, p)'
        BY <2>1, <2>4 DEF OwnTask
    <2> QED
        BY <1>t, <2>1, <2>3, <2>6, <2>7, OwnStep
<1>9. ASSUME NEW t \in Tasks, AddCredential(t) PROVE WalletInv'
    <2>1. /\ UNCHANGED <<offer, view, req, issued, granted>>
          /\ wallet' = wallet \union {Entry(t)} /\ Goto(t, "show") /\ pc[t] = "add"
          /\ req[t].offer \in Offers
        BY <1>t, <1>9 DEF AddCredential, TypeOK, history
    <2>2. PICK o \in Offers : o = req[t].offer
        BY <2>1
    <2>3. req[t].credential # 0 /\ <<req[t].credential, o>> \in Genuine
        BY <1>t, <2>1, <2>2 DEF OwnTasks, OwnTask
    <2>4. /\ pc'[t] = "show" /\ exec'[t].phase = "load"
          /\ \A u \in Tasks \ {t} : pc'[u] = pc[u] /\ exec'[u] = exec[u]
        BY <1>t, <2>1, GotoExec DEF TypeInv, TypeOK, NewExec, WalletInv
    <2>5. <<req[t].credential, o>> \in Genuine'
        BY <2>1, <2>3, Monotone
    <2>6. \A p \in Offers : OwnTask(t, p)'
        BY <2>1, <2>2, <2>3, <2>4, <2>5 DEF OwnTask
    <2>7. \A entry \in wallet' : entry \in wallet \/ (entry[1] # 0 /\ entry \in Genuine)
        BY <2>1, <2>2, <2>3 DEF Entry
    <2> QED
        BY <1>t, <2>1, <2>4, <2>6, <2>7, OwnStep
<1>10. ASSUME Crash PROVE WalletInv'
    <2>1. /\ req' = [t \in Tasks |-> NoRequest] /\ exec' = [t \in Tasks |-> NewExec]
          /\ pc' = [t \in Tasks |-> "idle"] /\ UNCHANGED <<issued, granted>>
        BY <1>10 DEF Crash
    <2>2. OwnTasks'
        BY <2>1 DEF OwnTasks, OwnTask, NewExec
    <2>m. /\ Genuine \subseteq Genuine' /\ \A o \in Offers : OwnState(o) \subseteq OwnState(o)'
        BY <2>1, Monotone
    <2>3. OwnStates' /\ OwnWallet'
        <3>1. CASE Store = "postgres"
            BY <1>10, <1>t, <2>m, <3>1 DEF Crash, OwnStates, OwnWallet, store
        <3>2. CASE Store # "postgres"
            <4>1. \A o \in Offers : NewOffer \in OwnState(o)'
                BY <2>m, OwnNew
            <4>2. /\ \A o \in Offers : offer'[o].payload = NewOffer /\ view'[o].payload = NewOffer
                  /\ wallet' = {}
                BY <1>10, <3>2 DEF Crash, NoRow
            <4> QED
                BY <4>1, <4>2 DEF OwnStates, OwnWallet
        <3> QED
            BY <3>1, <3>2
    <2> QED
        BY <1>t, <2>2, <2>3 DEF WalletInv
<1>11. ASSUME UNCHANGED vars PROVE WalletInv'
    <2>1. UNCHANGED <<offer, view, wallet, pc, req, exec, issued, granted>>
        BY <1>11 DEF vars, store, history
    <2>m. /\ Genuine \subseteq Genuine'
          /\ \A o \in Offers : OwnState(o) \subseteq OwnState(o)' /\ OwnEvent(o) \subseteq OwnEvent(o)'
        BY <2>1, Monotone
    <2>2. OwnStates' /\ OwnTasks' /\ OwnWallet'
        BY <1>t, <2>1, <2>m DEF OwnStates, OwnTasks, OwnTask, OwnWallet
    <2> QED
        BY <1>t, <2>2 DEF WalletInv
<1> QED
    BY <1>1, <1>2, <1>3, <1>5, <1>6, <1>7, <1>8, <1>9, <1>10, <1>11 DEF Next, Proceed

(* Whatever other handlers do to the view row in between, a credential is  *)
(* stored under the offer it was requested for, with a token granted for   *)
(* that offer.                                                             *)
THEOREM OwnCredentials == Spec => []StoredFromOwnOffer
<1>1. WalletInv => StoredFromOwnOffer
    <2> SUFFICES ASSUME WalletInv, NEW entry \in wallet
                 PROVE  \E grant \in granted : grant[2] = entry[2] /\ <<entry[1], grant[1]>> \in issued
        BY DEF StoredFromOwnOffer
    <2> QED
        BY DEF WalletInv, OwnWallet, Genuine
<1> QED
    BY <1>1, WalletInit, WalletStep, PTL DEF Spec

-----------------------------------------------------------------------------
(***************************************************************************)
(* The states of the holder's offers on Postgres: their order, the token   *)
(* behind a received credential, and that a recorded acceptance is not     *)
(* turned into a rejection.                                                *)
(*                                                                         *)
(* handle() decides on a state loaded before an exchange with the issuer.  *)
(* The invariant carries the conditions it tested over to the commit: the  *)
(* version compared there tells whether they still hold of the log.        *)
(***************************************************************************)

(* The state a command was decided on is the offer's, or an older one. *)
Current(t, o) ==
    req[t].offer = o /\ exec[t].phase \in {"decide", "commit"} =>
        /\ exec[t].seen.version <= offer[o].version
        /\ exec[t].seen.version = offer[o].version => exec[t].seen = offer[o]

(* An event about to be committed was allowed by the state it was decided on.*)
Allowed(t) ==
    exec[t].phase = "commit" =>
        LET s == exec[t].seen.payload
            e == exec[t].event
        IN  \/ pc[t] = "receive" /\ e.type = "CredentialOfferReceived"
            \/ pc[t] = "accept"  /\ e.type = "CredentialOfferAccepted"
            \/ pc[t] = "reject"  /\ e.type = "CredentialOfferRejected" /\ s.status = "Pending"
            \/ /\ pc[t] = "request" /\ e.type = "CredentialResponseReceived"
               /\ s.status = "Accepted"
               /\ e.arg = 0 \/ <<e.arg, s.token>> \in issued

(* Only accept() goes on after a command, and an answer is about an offer. *)
OwnKind(t) ==
    /\ pc[t] \in {"receive", "reject"} => req[t].kind # "accept"
    /\ status[t] = 200 => req[t].offer \in Offers

(* The acceptance t works on, or has answered, is in the log. *)
Recorded(t) ==
    /\ req[t].kind = "accept"
    /\ \/ status[t] = 200
       \/ pc[t] \in {"request", "read", "add", "show"}
       \/ pc[t] = "accept" /\ Dispatching(t)

StaysAccepted(t, o) ==
    req[t].offer = o /\ Recorded(t) => offer[o].payload.status \in {"Accepted", "Received"}

OrderedTask(t) ==
    /\ Allowed(t) /\ OwnKind(t)
    /\ \A o \in Offers : Current(t, o) /\ StaysAccepted(t, o)

TokenKept(o) ==
    LET s == offer[o].payload IN
    s.status = "Received" /\ s.credential # 0 => <<s.credential, s.token>> \in issued

Ordered ==
    Store = "postgres" =>
        (\A t \in Tasks : OrderedTask(t)) /\ (\A o \in Offers : TokenKept(o))

OrderInv == TypeInv /\ Ordered

LEMMA OrderInit == Init => OrderInv
<1> SUFFICES ASSUME Init PROVE OrderInv
    OBVIOUS
<1>1. TypeInv
    BY TypeInit
<1>2. \A t \in Tasks : OrderedTask(t)
    BY DEF Init, OrderedTask, Allowed, OwnKind, Current, StaysAccepted, Recorded, NewExec, NoRequest
<1>3. \A o \in Offers : TokenKept(o)
    BY DEF Init, TokenKept, NoRow, NewOffer
<1> QED
    BY <1>1, <1>2, <1>3 DEF OrderInv, Ordered

(* What a commit does to an offer: the event was allowed by the very state *)
(* it is applied to.                                                       *)
Committed(t, old, new) ==
    /\ pc[t] = "accept" => new.status = "Accepted"
    /\ \/ new.status = old.status /\ new.token = old.token /\ new.credential = old.credential
       \/ new.status = "Accepted"
       \/ old.status = "Pending" /\ new.status = "Rejected"
       \/ /\ old.status = "Accepted" /\ new.status = "Received"
          /\ new.credential = 0 \/ <<new.credential, new.token>> \in issued

LEMMA CommitAllowed ==
    ASSUME OrderInv, Store = "postgres", NEW t \in Tasks, Commit(t),
           NEW o \in Offers, o = req[t].offer
    PROVE  /\ offer'[o].version = offer[o].version + 1
           /\ \A p \in Offers \ {o} : offer'[p] = offer[p]
           /\ Committed(t, offer[o].payload, offer'[o].payload)
<1>t. TypeOK /\ ExecOK /\ OrderedTask(t)
    BY DEF OrderInv, Ordered, TypeInv
<1>1. /\ exec[t].seen = offer[o] /\ exec[t].phase = "commit"
      /\ exec[t].event \in Events /\ offer[o].payload \in OfferState
    BY <1>t DEF Commit, At, Stale, OrderedTask, Current, ExecOK, TypeOK, Row
<1>2. /\ offer'[o] = [version |-> offer[o].version + 1,
                      payload |-> Apply(offer[o].payload, exec[t].event)]
      /\ \A p \in Offers \ {o} : offer'[p] = offer[p]
    BY <1>t DEF Commit, TypeOK
<1>3. \/ pc[t] = "receive" /\ exec[t].event.type = "CredentialOfferReceived"
      \/ pc[t] = "accept"  /\ exec[t].event.type = "CredentialOfferAccepted"
      \/ /\ pc[t] = "reject" /\ exec[t].event.type = "CredentialOfferRejected"
         /\ offer[o].payload.status = "Pending"
      \/ /\ pc[t] = "request" /\ exec[t].event.type = "CredentialResponseReceived"
         /\ offer[o].payload.status = "Accepted"
         /\ exec[t].event.arg = 0 \/ <<exec[t].event.arg, offer[o].payload.token>> \in issued
    BY <1>t, <1>1 DEF OrderedTask, Allowed
<1>4. Committed(t, offer[o].payload, Apply(offer[o].payload, exec[t].event))
    BY <1>1, <1>3 DEF Committed, Apply, OfferState
<1> QED
    BY <1>2, <1>4

(* A step of t that commits nothing keeps the invariant when t itself does.*)
LEMMA OrderedStep ==
    ASSUME OrderInv, TypeInv', Store = "postgres", NEW t \in Tasks,
           UNCHANGED offer, issued \subseteq issued',
           \A u \in Tasks \ {t} :
              /\ pc'[u] = pc[u] /\ exec'[u] = exec[u]
              /\ req'[u] = req[u] /\ status'[u] = status[u],
           OrderedTask(t)'
    PROVE  OrderInv'
<1>1. ASSUME NEW u \in Tasks PROVE OrderedTask(u)'
    <2>1. CASE u # t
        <3>1. /\ OrderedTask(u) /\ pc'[u] = pc[u] /\ exec'[u] = exec[u]
              /\ req'[u] = req[u] /\ status'[u] = status[u]
            BY <2>1 DEF OrderInv, Ordered
        <3>2. Allowed(u)'
            BY <3>1 DEF OrderedTask, Allowed
        <3>3. OwnKind(u)' /\ \A o \in Offers : Current(u, o)' /\ StaysAccepted(u, o)'
            BY <3>1 DEF OrderedTask, OwnKind, Current, StaysAccepted, Recorded, Dispatching
        <3> QED
            BY <3>2, <3>3 DEF OrderedTask
    <2> QED
        BY <2>1
<1>2. \A o \in Offers : TokenKept(o)'
    BY DEF OrderInv, Ordered, TokenKept
<1> QED
    BY <1>1, <1>2 DEF OrderInv, Ordered

(* A handler that leaves its command behind has none to be in order. *)
LEMMA OrderedGoto ==
    ASSUME OrderInv, TypeInv', Store = "postgres", NEW t \in Tasks, NEW where, Goto(t, where),
           UNCHANGED offer, issued \subseteq issued',
           \A u \in Tasks \ {t} : req'[u] = req[u] /\ status'[u] = status[u],
           where \in {"receive", "reject"} => req'[t].kind # "accept",
           status'[t] = 200 => req'[t].offer \in Offers,
           \A o \in Offers :
              /\ req'[t].offer = o /\ req'[t].kind = "accept"
              /\ status'[t] = 200 \/ where \in {"request", "read", "add", "show"}
              => offer[o].payload.status \in {"Accepted", "Received"}
    PROVE  OrderInv'
<1>1. /\ pc'[t] = where /\ exec'[t].phase = "load"
      /\ \A u \in Tasks \ {t} : pc'[u] = pc[u] /\ exec'[u] = exec[u]
    BY GotoExec DEF OrderInv, TypeInv, TypeOK, NewExec
<1>2. OrderedTask(t)'
    BY <1>1 DEF OrderedTask, Allowed, OwnKind, Current, StaysAccepted, Recorded, Dispatching
<1> QED
    BY <1>1, <1>2, OrderedStep

LEMMA OrderStep == OrderInv /\ [Next]_vars => OrderInv'
<1> SUFFICES ASSUME OrderInv, [Next]_vars PROVE OrderInv'
    OBVIOUS
<1>0. CASE Store # "postgres"
    BY <1>0, TypeStep DEF OrderInv, Ordered
<1>p. CASE Store = "postgres"
    <2>t. /\ TypeOK /\ ExecOK /\ TypeInv'
          /\ \A t \in Tasks : OrderedTask(t)
          /\ \A o \in Offers : TokenKept(o)
        BY <1>p, TypeStep DEF OrderInv, Ordered, TypeInv
    <2>r. \A t \in Tasks, o \in Offers :
              req[t].offer = o /\ Recorded(t) => offer[o].payload.status \in {"Accepted", "Received"}
        BY <2>t DEF OrderedTask, StaysAccepted
    <2>1. ASSUME NEW t \in Tasks, Request(t) PROVE OrderInv'
        <3>1. ASSUME NEW kind, NEW where, NEW o \in Offers, NEW size,
                     <<kind, where>> \in {<<"offers", "receive">>, <<"accept", "find">>, <<"reject", "reject">>},
                     Start(t, kind, where, o, size)
              PROVE  OrderInv'
            <4>1. /\ req'[t].kind = kind /\ status'[t] = 0
                  /\ \A u \in Tasks \ {t} : req'[u] = req[u] /\ status'[u] = status[u]
                BY <2>t, <3>1 DEF Start, TypeOK
            <4> QED
                BY <1>p, <2>t, <3>1, <4>1, OrderedGoto DEF Start, store, history
        <3> QED
            BY <2>1, <3>1 DEF Request, PostOffers, PostAccept, PostReject
    <2>2. ASSUME NEW t \in Tasks,
                 FindOffer(t) \/ DecideError(t) \/ Conflict(t) \/ ReadCredentials(t)
                    \/ AddCredential(t) \/ ShowCredential(t) \/ Cancel(t) \/ ShowFails(t) \/ StoreFails(t)
          PROVE OrderInv'
        <3>1. PICK where \in {"idle", "accept", "add", "show"} : Goto(t, where)
            BY <2>2 DEF FindOffer, DecideError, Conflict, ReadCredentials, AddCredential,
                        ShowCredential, Cancel, ShowFails, StoreFails, Answer
        <3>2. UNCHANGED <<offer, issued>>
            BY <2>2 DEF FindOffer, DecideError, Conflict, ReadCredentials, AddCredential,
                        ShowCredential, Cancel, ShowFails, StoreFails, store, history
        <3>3. /\ \A u \in Tasks \ {t} : req'[u] = req[u] /\ status'[u] = status[u]
              /\ req'[t].offer = req[t].offer /\ req'[t].kind = req[t].kind
            BY <2>2, <2>t DEF FindOffer, DecideError, Conflict, ReadCredentials, AddCredential,
                        ShowCredential, Cancel, ShowFails, StoreFails, Answer, store, TypeOK
        <3>4. status'[t] = 200 \/ where \in {"add", "show"} =>
                  status[t] = 200 \/ pc[t] \in {"read", "add", "show"}
            <4>1. pc'[t] = where
                BY <3>1, <2>t DEF Goto, TypeOK
            <4>2. CASE FindOffer(t) \/ DecideError(t) \/ Conflict(t) \/ StoreFails(t)
                <5>1. pc'[t] \in {"idle", "accept"} /\ (status'[t] = status[t] \/ status'[t] # 200)
                    BY <4>2, <2>t DEF FindOffer, DecideError, Conflict, StoreFails, Answer, Goto, TypeOK
                <5> QED
                    BY <4>1, <5>1
            <4>3. CASE Cancel(t)
                <5>1. pc'[t] = "idle" /\ status'[t] = status[t]
                    BY <4>3, <2>t DEF Cancel, Goto, TypeOK
                <5> QED
                    BY <4>1, <5>1
            <4>4. CASE ReadCredentials(t) \/ AddCredential(t) \/ ShowCredential(t) \/ ShowFails(t)
                BY <4>4 DEF ReadCredentials, AddCredential, ShowCredential, ShowFails
            <4> QED
                BY <2>2, <4>2, <4>3, <4>4
        <3>o. req'[t].offer \in Offers
            BY <2>2, <2>t, <3>3 DEF FindOffer, DecideError, Conflict, ReadCredentials, AddCredential,
                        ShowCredential, Cancel, ShowFails, StoreFails, At, Commands, TypeOK
        <3>5. ASSUME NEW o \in Offers, req'[t].offer = o, req'[t].kind = "accept",
                     status'[t] = 200 \/ where \in {"request", "read", "add", "show"}
              PROVE  offer[o].payload.status \in {"Accepted", "Received"}
            BY <2>r, <3>3, <3>4, <3>5 DEF Recorded
        <3> QED
            BY <1>p, <2>t, <3>1, <3>2, <3>3, <3>5, <3>o, OrderedGoto
    <2>3. ASSUME NEW t \in Tasks, Load(t) \/ LoadView(t) PROVE OrderInv'
        <3>1. /\ req[t].offer \in Offers /\ exec[t] \in Execs /\ OrderedTask(t)
              /\ UNCHANGED <<offer, pc, req, status, issued>>
              /\ \A u \in Tasks \ {t} : exec'[u] = exec[u]
            BY <2>t, <2>3 DEF Load, LoadView, At, TypeOK, ExecOK, Commands, store, history
        <3>2. PICK o \in Offers : o = req[t].offer
            BY <3>1
        <3>3. CASE Load(t)
            <4>1. exec'[t].phase = "decide" /\ exec'[t].seen = offer[o]
                BY <2>t, <3>1, <3>2, <3>3 DEF Load, ExecOK, Execs
            <4>2. exec'[t].seen.version <= offer[o].version
                BY <2>t, <4>1 DEF TypeOK, Row
            <4>3. Allowed(t)' /\ OwnKind(t)'
                BY <3>1, <4>1 DEF OrderedTask, Allowed, OwnKind
            <4>4. \A p \in Offers : Current(t, p)'
                BY <3>1, <3>2, <4>1, <4>2 DEF Current
            <4>5. \A p \in Offers : StaysAccepted(t, p)'
                BY <3>1, <4>1 DEF OrderedTask, StaysAccepted, Recorded, Dispatching
            <4> QED
                BY <1>p, <2>t, <3>1, <4>3, <4>4, <4>5, OrderedStep DEF OrderedTask
        <3>4. CASE LoadView(t)
            <4>1. exec'[t].phase = "view_store" /\ exec[t].phase = "view"
                BY <2>t, <3>1, <3>4 DEF LoadView, At, ExecOK, Execs
            <4>2. OrderedTask(t)'
                BY <3>1, <4>1
                DEF OrderedTask, Allowed, OwnKind, Current, StaysAccepted, Recorded, Dispatching
            <4> QED
                BY <1>p, <2>t, <3>1, <4>2, OrderedStep
        <3> QED
            BY <2>3, <3>3, <3>4
    <2>4. ASSUME NEW t \in Tasks, NEW type, NEW arg, At(t, "decide"), Emit(t, type, arg),
                 issued \subseteq issued',
                 \/ pc[t] = "receive" /\ type = "CredentialOfferReceived"
                 \/ pc[t] = "accept"  /\ type = "CredentialOfferAccepted"
                 \/ pc[t] = "reject"  /\ type = "CredentialOfferRejected" /\ Seen(t).status = "Pending"
                 \/ /\ pc[t] = "request" /\ type = "CredentialResponseReceived"
                    /\ Seen(t).status = "Accepted"
                    /\ arg = 0 \/ <<arg, Seen(t).token>> \in issued'
          PROVE OrderInv'
        <3>1. /\ exec[t] \in Execs /\ exec[t].phase = "decide" /\ OrderedTask(t)
              /\ UNCHANGED <<offer, pc, req, status>>
              /\ \A u \in Tasks \ {t} : exec'[u] = exec[u]
            BY <2>t, <2>4 DEF Emit, At, ExecOK, store
        <3>2. /\ exec'[t].phase = "commit" /\ exec'[t].seen = exec[t].seen
              /\ exec'[t].event = Event(type, arg)
            BY <2>t, <2>4, <3>1 DEF Emit, ExecOK, Execs
        <3>3. Allowed(t)'
            BY <2>4, <3>1, <3>2 DEF Allowed, Event, Seen
        <3>4. OwnKind(t)' /\ \A o \in Offers : Current(t, o)'
            BY <3>1, <3>2 DEF OrderedTask, OwnKind, Current
        <3>5. \A o \in Offers : StaysAccepted(t, o)'
            BY <3>1, <3>2 DEF OrderedTask, StaysAccepted, Recorded, Dispatching
        <3> QED
            BY <1>p, <2>t, <2>4, <3>1, <3>3, <3>4, <3>5, OrderedStep DEF OrderedTask
    <2>5. ASSUME NEW t \in Tasks, Decide(t) PROVE OrderInv'
        <3>1. CASE DecideReceive(t)
            BY <2>4, <3>1 DEF DecideReceive
        <3>2. CASE DecideAccept(t)
            BY <2>4, <3>2 DEF DecideAccept
        <3>3. CASE DecideRequest(t)
            BY <2>4, <3>3 DEF DecideRequest, MayRequest
        <3>4. CASE DecideReject(t)
            BY <2>4, <3>4 DEF DecideReject
        <3> QED
            BY <2>2, <2>5, <3>1, <3>2, <3>3, <3>4 DEF Decide
    <2>6. ASSUME NEW t \in Tasks, Commit(t) PROVE OrderInv'
        <3>1. /\ req[t].offer \in Offers /\ exec[t] \in Execs /\ OrderedTask(t)
              /\ UNCHANGED <<pc, req, status, issued>>
              /\ \A u \in Tasks \ {t} : exec'[u] = exec[u]
            BY <2>t, <2>6 DEF Commit, At, TypeOK, ExecOK, Commands
        <3>2. PICK o \in Offers : o = req[t].offer
            BY <3>1
        <3>3. /\ offer'[o].version = offer[o].version + 1
              /\ \A p \in Offers \ {o} : offer'[p] = offer[p]
              /\ Committed(t, offer[o].payload, offer'[o].payload)
            BY <1>p, <2>6, <3>2, CommitAllowed
        <3>4. exec'[t].phase = "view" /\ exec[t].phase = "commit"
            BY <2>t, <2>6, <3>1 DEF Commit, At, ExecOK, Execs
        <3>5. \A p \in Offers : TokenKept(p)'
            BY <2>t, <3>1, <3>3 DEF TokenKept, Committed
        <3>6. ASSUME NEW u \in Tasks, u # t PROVE OrderedTask(u)'
            <4>1. OrderedTask(u) /\ exec'[u] = exec[u]
                BY <2>t, <3>1, <3>6
            <4>2. Allowed(u)' /\ OwnKind(u)'
                BY <3>1, <4>1 DEF OrderedTask, Allowed, OwnKind
            <4>3. ASSUME NEW p \in Offers PROVE Current(u, p)'
                <5>1. exec[u].phase \in {"decide", "commit"} => exec[u].seen.version \in Nat
                    BY <2>t DEF ExecOK, Row
                <5>2. offer[p].version \in Nat
                    BY <2>t DEF TypeOK, Row
                <5>3. Current(u, p)
                    BY <4>1 DEF OrderedTask
                <5>4. CASE p = o
                    BY <3>1, <3>3, <4>1, <5>1, <5>2, <5>3, <5>4 DEF Current
                <5>5. CASE p # o
                    BY <3>1, <3>3, <4>1, <5>3, <5>5 DEF Current
                <5> QED
                    BY <5>4, <5>5
            <4>4. ASSUME NEW p \in Offers PROVE StaysAccepted(u, p)'
                <5>1. StaysAccepted(u, p)
                    BY <4>1 DEF OrderedTask
                <5>2. Recorded(u)' = Recorded(u)
                    BY <3>1, <4>1 DEF Recorded, Dispatching
                <5> QED
                    BY <3>1, <3>3, <5>1, <5>2 DEF StaysAccepted, Committed
            <4> QED
                BY <4>2, <4>3, <4>4 DEF OrderedTask
        <3>7. OrderedTask(t)'
            <4>1. Allowed(t)' /\ OwnKind(t)' /\ \A p \in Offers : Current(t, p)'
                BY <3>1, <3>4 DEF OrderedTask, Allowed, OwnKind, Current
            <4>2. Recorded(t)' => Recorded(t) \/ pc[t] = "accept"
                BY <3>1 DEF Recorded
            <4>3. \A p \in Offers : StaysAccepted(t, p)'
                BY <3>1, <3>2, <3>3, <4>2 DEF OrderedTask, StaysAccepted, Committed
            <4> QED
                BY <4>1, <4>3 DEF OrderedTask
        <3> QED
            BY <2>t, <3>5, <3>6, <3>7 DEF OrderInv, Ordered
    <2>7. ASSUME NEW t \in Tasks, StoreView(t) \/ ViewUpdateFails(t) PROVE OrderInv'
        <3>1. PICK where \in {"idle", "request", "read"} : Goto(t, where)
            BY <2>7 DEF StoreView, ViewUpdateFails, Continue, Answer
        <3>2. UNCHANGED <<offer, req, issued>> /\ Dispatching(t) /\ Continue(t)
            BY <2>7 DEF StoreView, ViewUpdateFails, At, Dispatching, store, history
        <3>o. req[t].offer \in Offers
            BY <2>7, <2>t DEF StoreView, ViewUpdateFails, At, Commands, TypeOK
        <3>3. \A u \in Tasks \ {t} : status'[u] = status[u]
            BY <2>t, <3>2 DEF Continue, Answer, TypeOK
        <3>4. /\ pc'[t] = where /\ OwnKind(t)
              /\ req[t].kind = "accept" => pc[t] \in {"accept", "request"}
            BY <2>t, <3>1, <3>2 DEF Goto, TypeOK, OrderedTask, OwnKind, Continue
        <3>5. ASSUME NEW o \in Offers, req[t].offer = o, req[t].kind = "accept"
              PROVE  offer[o].payload.status \in {"Accepted", "Received"}
            BY <2>r, <3>2, <3>4, <3>5 DEF Recorded
        <3> QED
            BY <1>p, <2>t, <3>1, <3>2, <3>3, <3>5, <3>o, OrderedGoto
    <2>8. ASSUME Crash PROVE OrderInv'
        <3>1. /\ req' = [t \in Tasks |-> NoRequest] /\ exec' = [t \in Tasks |-> NewExec]
              /\ pc' = [t \in Tasks |-> "idle"] /\ status' = [t \in Tasks |-> 0]
              /\ UNCHANGED <<offer, issued>>
            BY <1>p, <2>8 DEF Crash, store
        <3>2. \A t \in Tasks : OrderedTask(t)'
            BY <3>1 DEF OrderedTask, Allowed, OwnKind, Current, StaysAccepted, Recorded,
                        NewExec, NoRequest
        <3>3. \A o \in Offers : TokenKept(o)'
            BY <2>t, <3>1 DEF TokenKept
        <3> QED
            BY <2>t, <3>2, <3>3 DEF OrderInv, Ordered
    <2>9. ASSUME UNCHANGED vars PROVE OrderInv'
        <3>1. UNCHANGED <<offer, pc, req, exec, status, issued>>
            BY <2>9 DEF vars, store, history
        <3>2. \A t \in Tasks : Allowed(t)' /\ OwnKind(t)'
            BY <2>t, <3>1 DEF OrderedTask, Allowed, OwnKind
        <3>3. \A t \in Tasks, o \in Offers : Current(t, o)' /\ StaysAccepted(t, o)'
            BY <2>t, <3>1 DEF OrderedTask, Current, StaysAccepted, Recorded, Dispatching
        <3>4. \A o \in Offers : TokenKept(o)'
            BY <2>t, <3>1 DEF TokenKept
        <3> QED
            BY <2>t, <3>2, <3>3, <3>4 DEF OrderInv, Ordered, OrderedTask
    <2> QED
        BY <2>1, <2>2, <2>3, <2>5, <2>6, <2>7, <2>8, <2>9 DEF Next, Proceed, Fail
<1> QED
    BY <1>0, <1>p

(* A received offer keeps the token its credential was requested with. *)
THEOREM TokenStays == Spec => []TokenBehindCredential
<1>1. OrderInv => TokenBehindCredential
    BY DEF OrderInv, Ordered, TokenKept, TokenBehindCredential
<1> QED
    BY <1>1, OrderInit, OrderStep, PTL DEF Spec

(* An offer whose acceptance was answered with 200 is not rejected later,  *)
(* not by a rejection decided earlier either.                              *)
THEOREM AcceptanceStays == Spec => []AcceptedNotRejected
<1>1. OrderInv => AcceptedNotRejected
    <2> SUFFICES ASSUME OrderInv, Store = "postgres", NEW t \in Tasks,
                        req[t].kind = "accept", status[t] = 200
                 PROVE  offer[req[t].offer].payload.status # "Rejected"
        BY DEF AcceptedNotRejected
    <2>1. OrderedTask(t) /\ req[t].offer \in Offers
        BY DEF OrderInv, Ordered, OrderedTask, OwnKind
    <2> QED
        BY <2>1 DEF OrderedTask, StaysAccepted, Recorded
<1> QED
    BY <1>1, OrderInit, OrderStep, PTL DEF Spec

(* The status of an offer follows its order in every step. *)
THEOREM StatusInOrder == Spec => StatusOrder
<1> DEFINE InOrder ==
        Store = "postgres" => \A o \in Offers :
            LET old == offer[o].payload.status
                new == offer'[o].payload.status
            IN  new # old => <<old, new>> \in (Statuses \X {"Accepted"}) \union
                    {<<"Pending", "Rejected">>, <<"Accepted", "Received">>}
<1>1. OrderInv /\ [Next]_vars => [InOrder]_offer
    <2> SUFFICES ASSUME OrderInv, [Next]_vars, Store = "postgres", offer' # offer, NEW o \in Offers,
                        offer'[o].payload.status # offer[o].payload.status
                 PROVE  <<offer[o].payload.status, offer'[o].payload.status>> \in
                            (Statuses \X {"Accepted"}) \union
                            {<<"Pending", "Rejected">>, <<"Accepted", "Received">>}
        OBVIOUS
    <2>1. PICK t \in Tasks : Commit(t)
        <3>1. ASSUME NEW t \in Tasks, Request(t) PROVE UNCHANGED offer
            BY <3>1 DEF Request, PostOffers, PostAccept, PostReject, Start, store
        <3>2. ASSUME NEW t \in Tasks, Proceed(t), ~Commit(t) PROVE UNCHANGED offer
            <4>1. ASSUME Decide(t) PROVE UNCHANGED offer
                BY <4>1 DEF Decide, DecideReceive, DecideAccept, DecideRequest, DecideReject,
                            DecideError, Emit, store
            <4>2. CASE FindOffer(t) \/ Load(t) \/ Conflict(t) \/ LoadView(t) \/ StoreView(t)
                BY <4>2 DEF FindOffer, Load, Conflict, LoadView, StoreView, store
            <4>3. CASE ReadCredentials(t) \/ AddCredential(t) \/ ShowCredential(t)
                BY <4>3 DEF ReadCredentials, AddCredential, ShowCredential, store
            <4> QED
                BY <3>2, <4>1, <4>2, <4>3 DEF Proceed
        <3>3. ASSUME NEW t \in Tasks, Fail(t) \/ Cancel(t) PROVE UNCHANGED offer
            BY <3>3 DEF Fail, ViewUpdateFails, ShowFails, StoreFails, Cancel, store
        <3>4. ASSUME Crash \/ UNCHANGED vars PROVE UNCHANGED offer
            BY <3>4 DEF Crash, vars, store
        <3> QED
            BY <3>1, <3>2, <3>3, <3>4 DEF Next
    <2>2. req[t].offer \in Offers /\ TypeOK
        BY <2>1 DEF OrderInv, TypeInv, TypeOK, Commit, At, Commands
    <2>3. PICK p \in Offers : p = req[t].offer
        BY <2>2
    <2>4. /\ \A q \in Offers \ {p} : offer'[q] = offer[q]
          /\ Committed(t, offer[p].payload, offer'[p].payload)
        BY <2>1, <2>3, CommitAllowed
    <2>5. offer[p].payload.status \in Statuses
        BY <2>2 DEF TypeOK, Row, OfferState
    <2> QED
        BY <2>4, <2>5 DEF Committed
<1> QED
    BY <1>1, OrderInit, OrderStep, PTL DEF Spec, StatusOrder

-----------------------------------------------------------------------------
(***************************************************************************)
(* What an acceptance leaves behind: a credential in the wallet, on both   *)
(* stores, unless the offer names none.                                    *)
(***************************************************************************)

(* What is stored and shown, or would be had its view been written.        *)
Kept == wallet \intersect (shown \union hidden)

(* A rejection or a reception is no acceptance; an answer is about an offer. *)
KindOK ==
    \A t \in Tasks :
        /\ pc[t] \in {"receive", "reject"} => req[t].kind # "accept"
        /\ status[t] = 200 => req[t].offer \in Offers

(* An offer is received once, whoever else uses its id.                    *)
ReceivedOnce ==
    /\ \A o \in Offers : offer[o].version = 0 => offer[o].payload = NewOffer
    /\ \A t, u \in Tasks :
        pc[t] = "receive" /\ pc[u] = "receive" /\ req[t].offer = req[u].offer => t = u

Receiving(t) == pc[t] = "receive" /\ ~Dispatching(t)

(* An event of t fits an offer of that size: an empty response answers an  *)
(* offer that names no credential.                                         *)
Fits(t, size) ==
    LET e == exec[t].event IN
    /\ e.type = "CredentialOfferReceived" => pc[t] = "receive"
    /\ pc[t] = "request" => e.type = "CredentialResponseReceived"
    /\ e.type = "CredentialResponseReceived" => e.arg # 0 \/ size = 0

(* The size of an offer does not change once it is known, so that what t   *)
(* was told of the offer, and has done about it, stays true.               *)
Fulfils(t, o) ==
    req[t].offer = o =>
        LET s == offer[o].payload IN
        /\ Receiving(t) => s.size = None
        /\ exec[t].phase # "load" => exec[t].seen.payload.size \in {None, s.size}
        /\ exec[t].phase \in {"commit", "view", "view_store"} => Fits(t, s.size)
        /\ pc[t] = "read" \/ (pc[t] = "request" /\ Dispatching(t)) =>
                s.size = 0 \/ s.credential # 0
        /\ pc[t] = "read" /\ o \notin disturbed =>
                s.size = 0 \/ view[o].payload.credential # 0
        /\ req[t].kind = "accept" /\ status[t] = 200 /\ o \notin disturbed =>
                s.size = 0 \/ \E entry \in Kept : entry[2] = o

(* The view of an undisturbed offer lacks at most the event of the one     *)
(* handler that dispatches on it.                                          *)
WorksOn(t, o) == Dispatching(t) /\ req[t].offer = o

InSync(o) ==
    o \notin disturbed =>
        /\ \A t, u \in Tasks : WorksOn(t, o) /\ WorksOn(u, o) => t = u
        /\ \A t \in Tasks : WorksOn(t, o) =>
                /\ offer[o].payload = Apply(view[o].payload, exec[t].event)
                /\ exec[t].phase = "view_store" => exec[t].copy = view[o]
        /\ (\A t \in Tasks : ~WorksOn(t, o)) => view[o].payload = offer[o].payload

FulfilInv ==
    /\ TypeInv /\ KindOK /\ ReceivedOnce
    /\ \A t \in Tasks, o \in Offers : Fulfils(t, o)
    /\ \A o \in Offers : InSync(o)

LEMMA FulfilInit == Init => FulfilInv
<1> SUFFICES ASSUME Init PROVE FulfilInv
    OBVIOUS
<1>1. TypeInv
    BY TypeInit
<1>2. KindOK /\ ReceivedOnce
    BY DEF Init, KindOK, ReceivedOnce, NoRow, NoRequest
<1>3. \A t \in Tasks, o \in Offers : Fulfils(t, o)
    BY DEF Init, Fulfils, Receiving, Dispatching, NewExec, NoRequest, NoRow, NewOffer
<1>4. \A o \in Offers : InSync(o)
    BY DEF Init, InSync, WorksOn, Dispatching, NewExec
<1> QED
    BY <1>1, <1>2, <1>3, <1>4 DEF FulfilInv

(* A step of t that leaves offers and views alone keeps the invariant when *)
(* t's own part is kept and t stops to dispatch only on a disturbed offer. *)
LEMMA FulfilStep ==
    ASSUME FulfilInv, TypeInv', NEW t \in Tasks,
           UNCHANGED <<offer, view>>, disturbed \subseteq disturbed', Kept \subseteq Kept',
           \A u \in Tasks \ {t} :
              /\ pc'[u] = pc[u] /\ exec'[u] = exec[u]
              /\ req'[u] = req[u] /\ status'[u] = status[u],
           pc'[t] \in {"receive", "reject"} => req'[t].kind # "accept",
           status'[t] = 200 => req'[t].offer \in Offers,
           \A u \in Tasks \ {t} :
              pc'[t] = "receive" /\ pc[u] = "receive" => req'[t].offer # req[u].offer,
           \A o \in Offers : Fulfils(t, o)',
           \A o \in Offers : o \notin disturbed' =>
              /\ WorksOn(t, o)' <=> WorksOn(t, o)
              /\ WorksOn(t, o)' =>
                    /\ exec'[t].event = exec[t].event
                    /\ exec'[t].phase = "view_store" => exec'[t].copy = view[o]
    PROVE  FulfilInv'
<1>1. KindOK'
    BY DEF FulfilInv, KindOK
<1>2. ReceivedOnce'
    <2>1. \A o \in Offers : offer'[o].version = 0 => offer'[o].payload = NewOffer
        BY DEF FulfilInv, ReceivedOnce
    <2>2. \A u, v \in Tasks :
            pc'[u] = "receive" /\ pc'[v] = "receive" /\ req'[u].offer = req'[v].offer => u = v
        BY DEF FulfilInv, ReceivedOnce
    <2> QED
        BY <2>1, <2>2 DEF ReceivedOnce
<1>3. ASSUME NEW u \in Tasks, NEW o \in Offers PROVE Fulfils(u, o)'
    <2>1. CASE u = t
        BY <2>1
    <2>2. CASE u # t
        <3>1. Fulfils(u, o) /\ pc'[u] = pc[u] /\ exec'[u] = exec[u] /\ req'[u] = req[u]
              /\ status'[u] = status[u]
            BY <2>2 DEF FulfilInv
        <3> QED
            BY <3>1 DEF Fulfils, Fits, Receiving, Dispatching
    <2> QED
        BY <2>1, <2>2
<1>4. ASSUME NEW o \in Offers PROVE InSync(o)'
    <2> SUFFICES ASSUME o \notin disturbed' PROVE InSync(o)'
        BY DEF InSync
    <2>1. InSync(o) /\ o \notin disturbed
        BY DEF FulfilInv
    <2>2. \A u \in Tasks : WorksOn(u, o)' <=> WorksOn(u, o)
        BY DEF WorksOn, Dispatching
    <2>3. ASSUME NEW u \in Tasks, WorksOn(u, o)'
          PROVE  /\ exec'[u].event = exec[u].event
                 /\ exec'[u].phase = "view_store" => exec'[u].copy = view[o]
        BY <2>1, <2>2, <2>3 DEF InSync
    <2> QED
        BY <2>1, <2>2, <2>3 DEF InSync
<1> QED
    BY <1>1, <1>2, <1>3, <1>4 DEF FulfilInv

(* The same for steps between two commands, after which nothing is under   *)
(* way.                                                                    *)
LEMMA FulfilGoto ==
    ASSUME FulfilInv, TypeInv', NEW t \in Tasks, NEW where, Goto(t, where),
           UNCHANGED <<offer, view>>, disturbed \subseteq disturbed', Kept \subseteq Kept',
           \A u \in Tasks \ {t} : req'[u] = req[u] /\ status'[u] = status[u],
           where \in {"receive", "reject"} => req'[t].kind # "accept",
           status'[t] = 200 => req'[t].offer \in Offers,
           \A u \in Tasks \ {t} :
              where = "receive" /\ pc[u] = "receive" => req'[t].offer # req[u].offer,
           \A o \in Offers : req'[t].offer = o =>
              LET s == offer[o].payload IN
              /\ where = "receive" => s.size = None
              /\ where = "read" => (s.size = 0 \/ s.credential # 0) /\ o \in disturbed'
              /\ req'[t].kind = "accept" /\ status'[t] = 200 /\ o \notin disturbed' =>
                    s.size = 0 \/ \E entry \in Kept' : entry[2] = o,
           Dispatching(t) => req[t].offer \in disturbed'
    PROVE  FulfilInv'
<1>t. TypeInv /\ TypeOK
    BY DEF FulfilInv, TypeInv
<1>1. /\ pc'[t] = where /\ exec'[t].phase = "load"
      /\ \A u \in Tasks \ {t} : pc'[u] = pc[u] /\ exec'[u] = exec[u]
    BY <1>t, GotoExec DEF TypeOK, NewExec
<1>2. ~Dispatching(t)' /\ \A o \in Offers : ~WorksOn(t, o)'
    BY <1>1 DEF Dispatching, WorksOn
<1>3. \A o \in Offers : Fulfils(t, o)'
    BY <1>1, <1>2 DEF Fulfils, Receiving
<1>4. \A o \in Offers : o \notin disturbed' => ~WorksOn(t, o)
    BY DEF WorksOn
<1> QED
    BY <1>1, <1>2, <1>3, <1>4, FulfilStep

(* A commit changes what is known of an offer only where nothing relies    *)
(* on it.                                                                  *)
LEMMA FulfilCommit ==
    ASSUME FulfilInv, TypeInv', NEW t \in Tasks, Commit(t)
    PROVE  FulfilInv'
<1>t. TypeInv /\ TypeOK /\ ExecOK /\ KindOK /\ ReceivedOnce
    BY DEF FulfilInv, TypeInv
<1>1. /\ req[t].offer \in Offers /\ exec[t] \in Execs
      /\ exec[t].phase = "commit" /\ pc[t] \in Commands /\ exec[t].event \in Events
      /\ UNCHANGED <<view, Kept, pc, req, status>>
      /\ \A u \in Tasks \ {t} : exec'[u] = exec[u]
      /\ disturbed \subseteq disturbed'
    BY <1>t DEF Commit, At, TypeOK, ExecOK, Commands, Kept
<1>2. PICK o \in Offers : o = req[t].offer
    BY <1>1
<1>3. /\ exec'[t].phase = "view" /\ exec'[t].event = exec[t].event
      /\ exec'[t].seen = exec[t].seen
    BY <1>t, <1>1 DEF Commit, ExecOK, Execs
<1>4. PICK e \in Events, s \in OfferState : e = exec[t].event /\ s = offer[o].payload
    BY <1>t, <1>1 DEF TypeOK, Row
<1>5. /\ offer'[o].payload = Apply(s, e)
      /\ offer'[o].version = offer[o].version + 1
      /\ \A p \in Offers \ {o} : offer'[p] = offer[p]
    BY <1>t, <1>2, <1>4 DEF Commit, TypeOK
<1>6. /\ Fulfils(t, o) /\ ~Dispatching(t)
      /\ e.type = "CredentialOfferReceived" => pc[t] = "receive" /\ s.size = None
      /\ pc[t] = "request" => e.type = "CredentialResponseReceived"
      /\ e.type = "CredentialResponseReceived" => e.arg # 0 \/ s.size = 0
      /\ exec[t].seen.payload.size \in {None, s.size}
    <2>1. Fulfils(t, o)
        BY DEF FulfilInv
    <2>2. ~Dispatching(t)
        BY <1>1 DEF Dispatching
    <2>3. Fits(t, s.size) /\ exec[t].seen.payload.size \in {None, s.size}
          /\ (Receiving(t) => s.size = None)
        BY <1>1, <1>2, <1>4, <2>1 DEF Fulfils
    <2> QED
        BY <1>4, <2>1, <2>2, <2>3 DEF Fits, Receiving
<1>7. /\ e.type # "CredentialOfferReceived" => offer'[o].payload.size = s.size
      /\ e.type # "CredentialResponseReceived" => offer'[o].payload.credential = s.credential
      /\ e.type = "CredentialResponseReceived" =>
            offer'[o].payload.credential = e.arg /\ offer'[o].payload.size = s.size
    BY <1>4, <1>5 DEF Apply, OfferState, Events
<1>n. None # 0
    BY HolderNone
<1>8. /\ s.size = 0 => offer'[o].payload.size = 0
      /\ s.size = None \/ offer'[o].payload.size = s.size
      /\ s.size = 0 \/ s.credential # 0 =>
            offer'[o].payload.size = 0 \/ offer'[o].payload.credential # 0
    BY <1>6, <1>7, <1>n
<1>9. ReceivedOnce'
    <2>1. offer[o].version \in Nat
        BY <1>t DEF TypeOK, Row
    <2>2. offer'[o].version # 0
        BY <1>5, <2>1
    <2> QED
        BY <1>t, <1>1, <1>5, <2>2 DEF ReceivedOnce
<1>10. ASSUME NEW u \in Tasks, NEW p \in Offers PROVE Fulfils(u, p)'
    <2>0. Fulfils(u, p)
        BY DEF FulfilInv
    <2>1. CASE p # o
        <3>1. u # t \/ req[u].offer # p
            BY <1>2, <2>1
        <3> QED
            BY <1>1, <1>5, <2>0, <2>1, <3>1 DEF Fulfils, Fits, Receiving, Dispatching
    <2>2. CASE p = o /\ u = t
        <3>1. Dispatching(t)' /\ ~Receiving(t)'
            BY <1>3 DEF Dispatching, Receiving
        <3>2. exec'[t].seen.payload.size \in {None, offer'[o].payload.size}
            BY <1>3, <1>6, <1>8
        <3>3. /\ exec'[t].event.type = "CredentialOfferReceived" => pc[t] = "receive"
              /\ pc[t] = "request" => exec'[t].event.type = "CredentialResponseReceived"
              /\ exec'[t].event.type = "CredentialResponseReceived" =>
                    exec'[t].event.arg # 0 \/ offer'[o].payload.size = 0
            BY <1>3, <1>4, <1>6, <1>8
        <3>4. pc[t] = "request" => offer'[o].payload.size = 0 \/ offer'[o].payload.credential # 0
            BY <1>6, <1>7, <1>8
        <3>5. pc[t] # "read"
            BY <1>1 DEF Commands
        <3>6. req[t].kind = "accept" /\ status[t] = 200 /\ o \notin disturbed =>
                s.size = 0 \/ \E entry \in Kept : entry[2] = o
            BY <1>2, <1>4, <1>6 DEF Fulfils
        <3> QED
            BY <1>1, <1>8, <2>2, <3>1, <3>2, <3>3, <3>4, <3>5, <3>6 DEF Fulfils, Fits
    <2>3. CASE p = o /\ u # t /\ req[u].offer = o
        <3>1. Receiving(u)' => offer'[o].payload.size = None
            <4>1. Receiving(u)' => Receiving(u) /\ pc[u] = "receive"
                BY <1>1, <2>3 DEF Receiving, Dispatching
            <4>2. Receiving(u) => s.size = None
                BY <1>4, <2>0, <2>3 DEF Fulfils
            <4>3. pc[u] = "receive" => pc[t] # "receive"
                BY <1>t, <1>2, <2>3 DEF ReceivedOnce
            <4> QED
                BY <1>6, <1>7, <4>1, <4>2, <4>3
        <3>2. exec[u].phase # "load" => exec[u].seen.payload.size \in {None, offer'[o].payload.size}
            BY <1>4, <1>8, <2>0, <2>3 DEF Fulfils
        <3>3. exec[u].phase \in {"commit", "view", "view_store"} =>
                /\ exec[u].event.type = "CredentialOfferReceived" => pc[u] = "receive"
                /\ pc[u] = "request" => exec[u].event.type = "CredentialResponseReceived"
                /\ exec[u].event.type = "CredentialResponseReceived" =>
                      exec[u].event.arg # 0 \/ offer'[o].payload.size = 0
            BY <1>4, <1>8, <2>0, <2>3 DEF Fulfils, Fits
        <3>4. pc[u] = "read" \/ (pc[u] = "request" /\ Dispatching(u)) =>
                offer'[o].payload.size = 0 \/ offer'[o].payload.credential # 0
            BY <1>4, <1>8, <2>0, <2>3 DEF Fulfils
        <3>5. pc[u] = "read" /\ o \notin disturbed =>
                offer'[o].payload.size = 0 \/ view[o].payload.credential # 0
            BY <1>4, <1>8, <2>0, <2>3 DEF Fulfils
        <3>6. req[u].kind = "accept" /\ status[u] = 200 /\ o \notin disturbed =>
                offer'[o].payload.size = 0 \/ \E entry \in Kept : entry[2] = o
            BY <1>4, <1>8, <2>0, <2>3 DEF Fulfils
        <3>7. Dispatching(u)' <=> Dispatching(u)
            BY <1>1, <2>3 DEF Dispatching
        <3> QED
            <4>1. exec'[u] = exec[u] /\ req'[u] = req[u] /\ pc'[u] = pc[u] /\ status'[u] = status[u]
                BY <1>1, <2>3
            <4>2. Fits(u, offer[o].payload.size)' <=>
                    (/\ exec[u].event.type = "CredentialOfferReceived" => pc[u] = "receive"
                     /\ pc[u] = "request" => exec[u].event.type = "CredentialResponseReceived"
                     /\ exec[u].event.type = "CredentialResponseReceived" =>
                            exec[u].event.arg # 0 \/ offer'[o].payload.size = 0)
                BY <4>1 DEF Fits
            <4> QED
                BY <1>1, <2>3, <4>1, <4>2, <3>1, <3>2, <3>3, <3>4, <3>5, <3>6, <3>7 DEF Fulfils
    <2>4. CASE req[u].offer # p
        BY <1>1, <2>4 DEF Fulfils
    <2> QED
        BY <2>1, <2>2, <2>3, <2>4
<1>11. ASSUME NEW p \in Offers PROVE InSync(p)'
    <2> SUFFICES ASSUME p \notin disturbed' PROVE InSync(p)'
        BY DEF InSync
    <2>1. InSync(p) /\ p \notin disturbed
        BY <1>1 DEF FulfilInv
    <2>2. \A u \in Tasks \ {t} : WorksOn(u, p)' <=> WorksOn(u, p)
        BY <1>1 DEF WorksOn, Dispatching
    <2>3. CASE p = o
        <3>1. \A u \in Tasks : ~WorksOn(u, p)
            BY <1>2, <2>3 DEF Commit, WorksOn
        <3>2. WorksOn(t, p)' /\ \A u \in Tasks : WorksOn(u, p)' => u = t
            BY <1>1, <1>2, <1>3, <2>2, <2>3, <3>1 DEF WorksOn, Dispatching
        <3>3. view[p].payload = s
            BY <1>4, <2>1, <2>3, <3>1 DEF InSync
        <3>4. offer'[p].payload = Apply(view'[p].payload, exec'[t].event)
            BY <1>1, <1>3, <1>4, <1>5, <2>3, <3>3
        <3> QED
            BY <1>3, <3>2, <3>4 DEF InSync
    <2>4. CASE p # o
        <3>1. ~WorksOn(t, p) /\ ~WorksOn(t, p)'
            BY <1>1, <1>2, <2>4 DEF WorksOn
        <3>2. \A u \in Tasks : WorksOn(u, p)' <=> WorksOn(u, p)
            BY <2>2, <3>1
        <3>3. \A u \in Tasks : WorksOn(u, p)' => exec'[u] = exec[u]
            BY <1>1, <3>1
        <3>4. offer'[p] = offer[p] /\ view'[p] = view[p]
            BY <1>1, <1>5, <2>4
        <3> QED
            BY <2>1, <3>2, <3>3, <3>4 DEF InSync
    <2> QED
        BY <2>3, <2>4
<1>12. KindOK'
    BY <1>t, <1>1 DEF KindOK
<1> QED
    BY <1>9, <1>10, <1>11, <1>12 DEF FulfilInv

(* What comes after a command: a credential was received before it is read.*)
LEMMA Continues ==
    ASSUME FulfilInv, NEW t \in Tasks, Continue(t), pc[t] \in Commands, Dispatching(t),
           UNCHANGED req
    PROVE  \E where \in {"idle", "request", "read"} :
              /\ Goto(t, where)
              /\ \A u \in Tasks \ {t} : status'[u] = status[u]
              /\ where = "read" => pc[t] = "request"
              /\ req[t].kind = "accept" => status'[t] = status[t]
<1>t. TypeOK /\ KindOK
    BY DEF FulfilInv, TypeInv
<1>1. CASE pc[t] = "accept" /\ Goto(t, "request") /\ UNCHANGED status
    BY <1>1
<1>2. CASE pc[t] = "request" /\ Goto(t, "read") /\ UNCHANGED status
    BY <1>2
<1>3. CASE pc[t] \in {"receive", "reject"} /\ Answer(t, 200)
    <2>1. req[t].kind # "accept"
        BY <1>t, <1>3 DEF KindOK
    <2>2. \A u \in Tasks \ {t} : status'[u] = status[u]
        BY <1>t, <1>3 DEF Answer, TypeOK
    <2> QED
        BY <1>3, <2>1, <2>2 DEF Answer
<1> QED
    BY <1>1, <1>2, <1>3 DEF Continue

LEMMA FulfilStoreView ==
    ASSUME FulfilInv, TypeInv', NEW t \in Tasks, StoreView(t)
    PROVE  FulfilInv'
<1>t. TypeInv /\ TypeOK /\ ExecOK /\ KindOK /\ ReceivedOnce
    BY DEF FulfilInv, TypeInv
<1>1. /\ req[t].offer \in Offers /\ pc[t] \in Commands
      /\ exec[t].phase = "view_store" /\ Dispatching(t)
      /\ UNCHANGED <<offer, Kept, req, disturbed>> /\ Continue(t)
    BY <1>t DEF StoreView, At, Dispatching, TypeOK, Commands, history, Kept
<1>2. PICK o \in Offers : o = req[t].offer
    BY <1>1
<1>3. PICK where \in {"idle", "request", "read"} :
              /\ Goto(t, where)
              /\ \A u \in Tasks \ {t} : status'[u] = status[u]
              /\ where = "read" => pc[t] = "request"
              /\ req[t].kind = "accept" => status'[t] = status[t]
    BY <1>1, Continues
<1>4. /\ pc'[t] = where /\ exec'[t].phase = "load"
      /\ \A u \in Tasks \ {t} : pc'[u] = pc[u] /\ exec'[u] = exec[u]
    BY <1>t, <1>3, GotoExec DEF TypeOK, NewExec
<1>5. /\ view'[o] = UpdateView(view[o], exec[t].copy, Apply(exec[t].copy.payload, exec[t].event))
      /\ \A p \in Offers \ {o} : view'[p] = view[p]
    BY <1>t, <1>2 DEF StoreView, TypeOK
<1>6. ASSUME o \notin disturbed
      PROVE  view'[o].payload = offer[o].payload /\ \A u \in Tasks : WorksOn(u, o) => u = t
    <2>1. WorksOn(t, o) /\ InSync(o)
        BY <1>1, <1>2 DEF WorksOn, FulfilInv
    <2>2. /\ offer[o].payload = Apply(view[o].payload, exec[t].event)
          /\ exec[t].copy = view[o]
          /\ \A u \in Tasks : WorksOn(u, o) => u = t
        BY <1>1, <1>6, <2>1 DEF InSync
    <2>3. view[o].version \in Nat
        BY <1>t DEF TypeOK, Row
    <2>4. ~Refused(view[o], exec[t].copy)
        BY <2>2, <2>3 DEF Refused
    <2>5. view'[o].payload = Apply(exec[t].copy.payload, exec[t].event)
        BY <1>5, <2>4 DEF UpdateView
    <2> QED
        BY <2>2, <2>5
<1>7. KindOK'
    <2>1. pc'[t] \notin {"receive", "reject"}
        BY <1>4
    <2> QED
        BY <1>t, <1>1, <1>3, <1>4, <2>1 DEF KindOK
<1>8. ReceivedOnce'
    BY <1>t, <1>1, <1>4 DEF ReceivedOnce
<1>9. ASSUME NEW u \in Tasks, NEW p \in Offers PROVE Fulfils(u, p)'
    <2>0. Fulfils(u, p)
        BY DEF FulfilInv
    <2>1. CASE u = t
        <3>1. ~Receiving(t)' /\ ~Dispatching(t)'
            BY <1>4 DEF Receiving, Dispatching
        <3>2. pc'[t] = "read" /\ req[t].offer = p =>
                /\ offer[p].payload.size = 0 \/ offer[p].payload.credential # 0
                /\ p \notin disturbed => view'[p].payload = offer[p].payload
            BY <1>1, <1>2, <1>3, <1>4, <1>6, <2>0, <2>1 DEF Fulfils
        <3>3. req[t].kind = "accept" /\ status'[t] = 200 /\ req[t].offer = p /\ p \notin disturbed =>
                offer[p].payload.size = 0 \/ \E entry \in Kept : entry[2] = p
            BY <1>3, <2>0, <2>1 DEF Fulfils
        <3> QED
            BY <1>1, <1>4, <2>1, <3>1, <3>2, <3>3 DEF Fulfils
    <2>2. CASE u # t
        <3>1. pc'[u] = pc[u] /\ exec'[u] = exec[u] /\ req'[u] = req[u] /\ status'[u] = status[u]
            BY <1>1, <1>3, <1>4, <2>2
        <3>2. pc[u] = "read" /\ req[u].offer = p /\ p \notin disturbed =>
                offer[p].payload.size = 0 \/ view'[p].payload.credential # 0
            <4>1. CASE p = o
                BY <1>6, <2>0, <4>1 DEF Fulfils
            <4>2. CASE p # o
                BY <1>5, <2>0, <4>2 DEF Fulfils
            <4> QED
                BY <4>1, <4>2
        <3> QED
            BY <1>1, <2>0, <3>1, <3>2 DEF Fulfils, Fits, Receiving, Dispatching
    <2> QED
        BY <2>1, <2>2
<1>10. ASSUME NEW p \in Offers PROVE InSync(p)'
    <2> SUFFICES ASSUME p \notin disturbed PROVE InSync(p)'
        BY <1>1 DEF InSync
    <2>1. InSync(p) /\ ~WorksOn(t, p)'
        BY <1>4 DEF FulfilInv, WorksOn, Dispatching
    <2>2. \A u \in Tasks \ {t} : WorksOn(u, p)' <=> WorksOn(u, p)
        BY <1>1, <1>4 DEF WorksOn, Dispatching
    <2>3. CASE p = o
        <3>1. \A u \in Tasks : ~WorksOn(u, p)'
            BY <1>6, <2>1, <2>2, <2>3
        <3>2. view'[p].payload = offer'[p].payload
            BY <1>1, <1>6, <2>3
        <3> QED
            BY <3>1, <3>2 DEF InSync
    <2>4. CASE p # o
        <3>1. \A u \in Tasks : WorksOn(u, p)' <=> WorksOn(u, p)
            BY <1>1, <1>2, <2>1, <2>2, <2>4 DEF WorksOn
        <3>2. \A u \in Tasks : WorksOn(u, p)' => exec'[u] = exec[u]
            BY <1>4, <2>1
        <3>3. offer'[p] = offer[p] /\ view'[p] = view[p]
            BY <1>1, <1>5, <2>4
        <3> QED
            BY <1>1, <2>1, <3>1, <3>2, <3>3 DEF InSync
    <2> QED
        BY <2>3, <2>4
<1> QED
    BY <1>7, <1>8, <1>9, <1>10 DEF FulfilInv

LEMMA FulfilNext == FulfilInv /\ [Next]_vars => FulfilInv'
<1> SUFFICES ASSUME FulfilInv, [Next]_vars PROVE FulfilInv'
    OBVIOUS
<1>t. /\ TypeInv /\ TypeOK /\ ExecOK /\ TypeInv' /\ KindOK /\ ReceivedOnce
    BY TypeStep DEF FulfilInv, TypeInv
<1>k. \A t \in Tasks : pc[t] # "idle" \/ status[t] = 200 => req[t].offer \in Offers
    BY <1>t DEF KindOK, TypeOK
<1>d. \A t \in Tasks : Dispatching(t) => pc[t] \in Commands
    BY <1>t DEF ExecOK, Dispatching
<1>1. ASSUME NEW t \in Tasks, Request(t) PROVE FulfilInv'
    <2>1. PICK kind \in {"offers", "accept", "reject"}, where \in {"receive", "find", "reject"},
               o \in Offers, size \in Sizes \union {None} :
            /\ Start(t, kind, where, o, size)
            /\ where = "receive" => offer[o].version = 0 /\ \A u \in Tasks : req[u].offer # o
            /\ kind = "accept" => where = "find"
        BY <1>1 DEF Request, PostOffers, PostAccept, PostReject
    <2>2. /\ req'[t].offer = o /\ req'[t].kind = kind /\ status'[t] = 0
          /\ Goto(t, where) /\ pc[t] = "idle"
          /\ \A u \in Tasks \ {t} : req'[u] = req[u] /\ status'[u] = status[u]
          /\ UNCHANGED <<offer, view, Kept, disturbed>>
        BY <1>t, <2>1 DEF Start, TypeOK, store, history, Kept
    <2>3. where = "receive" => offer[o].payload.size = None
        BY <1>t, <2>1 DEF ReceivedOnce, NewOffer
    <2>4. ~Dispatching(t)
        BY <1>d, <2>2 DEF Commands
    <2> QED
        BY <1>t, <2>1, <2>2, <2>3, <2>4, FulfilGoto
<1>2. ASSUME NEW t \in Tasks, FindOffer(t) \/ DecideError(t) \/ Conflict(t) PROVE FulfilInv'
    <2>1. /\ UNCHANGED <<offer, view, Kept, req, disturbed>>
          /\ pc[t] = "find" \/ exec[t].phase \in {"decide", "commit"}
        BY <1>2 DEF FindOffer, DecideError, Conflict, At, store, history, Kept
    <2>2. PICK where \in {"idle", "accept"} :
            /\ Goto(t, where)
            /\ \A u \in Tasks \ {t} : status'[u] = status[u]
            /\ status'[t] = 200 => status[t] = 200
        BY <1>2, <1>t DEF FindOffer, DecideError, Conflict, Answer, TypeOK
    <2>3. ~Dispatching(t)
        BY <1>d, <2>1 DEF Commands, Dispatching
    <2>4. \A o \in Offers : req[t].offer = o /\ req[t].kind = "accept" /\ status[t] = 200
                                /\ o \notin disturbed =>
              offer[o].payload.size = 0 \/ \E entry \in Kept : entry[2] = o
        BY DEF FulfilInv, Fulfils
    <2> QED
        BY <1>t, <1>k, <2>1, <2>2, <2>3, <2>4, FulfilGoto
<1>3. ASSUME NEW t \in Tasks, Cancel(t) \/ StoreFails(t) PROVE FulfilInv'
    <2>1. /\ UNCHANGED <<offer, view, Kept, req>> /\ Goto(t, "idle")
          /\ \A u \in Tasks \ {t} : status'[u] = status[u]
          /\ status'[t] = 200 => status[t] = 200
          /\ disturbed \subseteq disturbed' /\ req[t].offer \in disturbed'
        BY <1>3, <1>t DEF Cancel, StoreFails, Answer, TypeOK, store, Kept
    <2> QED
        BY <1>t, <1>k, <2>1, FulfilGoto
<1>4. ASSUME NEW t \in Tasks, ViewUpdateFails(t) PROVE FulfilInv'
    <2>1. /\ UNCHANGED <<offer, view, Kept, req>> /\ Continue(t)
          /\ pc[t] \in Commands /\ Dispatching(t)
          /\ disturbed \subseteq disturbed' /\ req[t].offer \in disturbed'
        BY <1>4 DEF ViewUpdateFails, store, Kept
    <2>2. PICK where \in {"idle", "request", "read"} :
              /\ Goto(t, where)
              /\ \A u \in Tasks \ {t} : status'[u] = status[u]
              /\ where = "read" => pc[t] = "request"
              /\ req[t].kind = "accept" => status'[t] = status[t]
        BY <2>1, Continues
    <2>3. \A o \in Offers : where = "read" /\ req[t].offer = o =>
            offer[o].payload.size = 0 \/ offer[o].payload.credential # 0
        BY <2>1, <2>2 DEF FulfilInv, Fulfils
    <2>4. req[t].offer \in Offers
        BY <1>k, <2>1 DEF Commands
    <2> QED
        BY <1>t, <2>1, <2>2, <2>3, <2>4, FulfilGoto
<1>5. ASSUME NEW t \in Tasks, Load(t) \/ LoadView(t) PROVE FulfilInv'
    <2>1. /\ req[t].offer \in Offers /\ exec[t] \in Execs /\ pc[t] \in Commands
          /\ UNCHANGED <<offer, view, Kept, pc, req, status, disturbed>>
          /\ \A u \in Tasks \ {t} : exec'[u] = exec[u]
        BY <1>t, <1>5 DEF Load, LoadView, At, TypeOK, ExecOK, Commands, store, history, Kept
    <2>2. PICK o \in Offers : o = req[t].offer
        BY <2>1
    <2>3. Fulfils(t, o)
        BY DEF FulfilInv
    <2>4. \/ /\ exec[t].phase = "load" /\ exec'[t].phase = "decide" /\ exec'[t].seen = offer[o]
          \/ /\ exec[t].phase = "view" /\ exec'[t].phase = "view_store"
             /\ exec'[t].copy = view[o] /\ exec'[t].event = exec[t].event
             /\ exec'[t].seen = exec[t].seen
        BY <1>t, <1>5, <2>1, <2>2 DEF Load, LoadView, At, ExecOK, Execs
    <2>5. Dispatching(t)' <=> Dispatching(t)
        BY <2>4 DEF Dispatching
    <2>6. Fulfils(t, o)'
        BY <2>1, <2>2, <2>3, <2>4, <2>5 DEF Fulfils, Fits, Receiving
    <2>7. \A p \in Offers : Fulfils(t, p)'
        BY <2>1, <2>2, <2>6 DEF Fulfils
    <2>8. \A p \in Offers :
              /\ WorksOn(t, p)' <=> WorksOn(t, p)
              /\ WorksOn(t, p)' => /\ exec'[t].event = exec[t].event
                                   /\ exec'[t].phase = "view_store" => exec'[t].copy = view[p]
        BY <2>1, <2>2, <2>4, <2>5 DEF WorksOn, Dispatching
    <2>9. \A u \in Tasks \ {t} :
              pc'[t] = "receive" /\ pc[u] = "receive" => req'[t].offer # req[u].offer
        BY <1>t, <2>1 DEF ReceivedOnce
    <2> QED
        BY <1>t, <1>k, <2>1, <2>7, <2>8, <2>9, FulfilStep DEF KindOK
<1>6. ASSUME NEW t \in Tasks, NEW type, NEW arg, At(t, "decide"), Emit(t, type, arg),
             type = "CredentialOfferReceived" => pc[t] = "receive",
             pc[t] = "request" => type = "CredentialResponseReceived",
             type = "CredentialResponseReceived" => arg # 0 \/ Seen(t).size = 0
      PROVE FulfilInv'
    <2>1. /\ req[t].offer \in Offers /\ exec[t] \in Execs /\ pc[t] \in Commands
          /\ exec[t].phase = "decide"
          /\ UNCHANGED <<offer, view, Kept, pc, req, status, disturbed>>
          /\ \A u \in Tasks \ {t} : exec'[u] = exec[u]
        BY <1>t, <1>6 DEF Emit, At, TypeOK, ExecOK, Commands, store, Kept
    <2>2. PICK o \in Offers : o = req[t].offer
        BY <2>1
    <2>3. Fulfils(t, o)
        BY DEF FulfilInv
    <2>4. /\ exec'[t].phase = "commit" /\ exec'[t].event = Event(type, arg)
          /\ exec'[t].seen = exec[t].seen
        BY <1>t, <1>6, <2>1 DEF Emit, ExecOK, Execs
    <2>5. ~Dispatching(t) /\ ~Dispatching(t)'
        BY <2>1, <2>4 DEF Dispatching
    <2>6. exec[t].seen.payload.size \in {None, offer[o].payload.size}
        BY <2>1, <2>2, <2>3 DEF Fulfils
    <2>7. Fits(t, offer[o].payload.size)'
        <3>1. None # 0
            BY HolderNone
        <3>2. Event(type, arg).type = type /\ Event(type, arg).arg = arg
            BY DEF Event
        <3> QED
            BY <1>6, <2>1, <2>4, <2>6, <3>1, <3>2 DEF Fits, Seen
    <2>8. Fulfils(t, o)'
        BY <2>1, <2>2, <2>3, <2>4, <2>5, <2>6, <2>7 DEF Fulfils, Receiving, Commands
    <2>9. \A p \in Offers : Fulfils(t, p)'
        BY <2>1, <2>2, <2>8 DEF Fulfils
    <2>10. \A p \in Offers : ~WorksOn(t, p) /\ ~WorksOn(t, p)'
        BY <2>5 DEF WorksOn
    <2>11. \A u \in Tasks \ {t} :
              pc'[t] = "receive" /\ pc[u] = "receive" => req'[t].offer # req[u].offer
        BY <1>t, <2>1 DEF ReceivedOnce
    <2> QED
        BY <1>t, <1>k, <2>1, <2>9, <2>10, <2>11, FulfilStep DEF KindOK
<1>7. ASSUME NEW t \in Tasks, Decide(t) PROVE FulfilInv'
    <2>1. CASE DecideReceive(t)
        BY <1>6, <2>1 DEF DecideReceive
    <2>2. CASE DecideAccept(t)
        BY <1>6, <2>2 DEF DecideAccept
    <2>3. CASE DecideRequest(t)
        <3>1. drawn + 1 # 0
            BY <1>t DEF TypeOK
        <3> QED
            BY <1>6, <2>3, <3>1 DEF DecideRequest
    <2>4. CASE DecideReject(t)
        BY <1>6, <2>4 DEF DecideReject
    <2> QED
        BY <1>2, <1>7, <2>1, <2>2, <2>3, <2>4 DEF Decide
<1>8. ASSUME NEW t \in Tasks, ReadCredentials(t) PROVE FulfilInv'
    <2>1. /\ UNCHANGED <<offer, view, Kept, disturbed>> /\ pc[t] = "read"
          /\ req[t].offer \in Offers
          /\ req'[t].offer = req[t].offer /\ req'[t].kind = req[t].kind
          /\ \A u \in Tasks \ {t} : req'[u] = req[u]
        BY <1>t, <1>8 DEF ReadCredentials, TypeOK, store, history, Kept
    <2>2. PICK where \in {"idle", "add"} :
            /\ Goto(t, where)
            /\ \A u \in Tasks \ {t} : status'[u] = status[u]
            /\ status'[t] = 200 =>
                  status[t] = 200 \/ view[req[t].offer].payload.credential = 0
        BY <1>t, <1>8 DEF ReadCredentials, Answer, TypeOK
    <2>3. ~Dispatching(t)
        BY <1>d, <2>1 DEF Commands
    <2>4. \A o \in Offers : req[t].offer = o /\ req[t].kind = "accept" /\ status'[t] = 200
                                /\ o \notin disturbed =>
              offer[o].payload.size = 0 \/ \E entry \in Kept : entry[2] = o
        BY <2>1, <2>2 DEF FulfilInv, Fulfils
    <2> QED
        BY <1>t, <1>k, <2>1, <2>2, <2>3, <2>4, FulfilGoto
<1>9. ASSUME NEW t \in Tasks, AddCredential(t) \/ ShowCredential(t) \/ ShowFails(t)
      PROVE FulfilInv'
    <2>1. /\ UNCHANGED <<offer, view, req, disturbed>> /\ pc[t] \in {"add", "show"}
          /\ Kept \subseteq Kept'
        BY <1>9 DEF AddCredential, ShowCredential, ShowFails, store, history, Kept
    <2>2. PICK where \in {"idle", "show"} :
            /\ Goto(t, where)
            /\ \A u \in Tasks \ {t} : status'[u] = status[u]
            /\ status'[t] = 200 => status[t] = 200 \/ Entry(t) \in Kept'
        <3>1. CASE AddCredential(t)
            BY <3>1 DEF AddCredential
        <3>2. CASE ShowCredential(t) \/ ShowFails(t)
            <4>1. pc[t] = "show" /\ Answer(t, 200)
                BY <3>2 DEF ShowCredential, ShowFails
            <4>2. Entry(t) \in wallet /\ wallet' = wallet
                BY <1>t, <3>2, <4>1 DEF TypeInv, Stored, ShowCredential, ShowFails, store
            <4>3. Entry(t) \in Kept'
                BY <3>2, <4>2 DEF ShowCredential, ShowFails, Kept
            <4> QED
                BY <1>t, <4>1, <4>3 DEF Answer, TypeOK
        <3> QED
            BY <1>9, <3>1, <3>2
    <2>3. ~Dispatching(t)
        BY <1>d, <2>1 DEF Commands
    <2>4. \A o \in Offers : req[t].offer = o /\ req[t].kind = "accept" /\ status'[t] = 200
                                /\ o \notin disturbed =>
              offer[o].payload.size = 0 \/ \E entry \in Kept' : entry[2] = o
        BY <2>1, <2>2 DEF FulfilInv, Fulfils, Entry
    <2> QED
        BY <1>t, <1>k, <2>1, <2>2, <2>3, <2>4, FulfilGoto
<1>10. ASSUME Crash PROVE FulfilInv'
    <2>1. /\ \A t \in Tasks : /\ pc'[t] = "idle" /\ status'[t] = 0
                               /\ req'[t] = NoRequest /\ exec'[t] = NewExec
          /\ \A o \in Offers : \A t \in Tasks :
                pc[t] # "idle" /\ req[t].offer = o => o \in disturbed'
          /\ disturbed \subseteq disturbed'
        BY <1>10 DEF Crash
    <2>2. /\ NewExec.phase = "load" /\ NoRequest.offer = None
          /\ \A o \in Offers : o # None
        BY HolderNone DEF NewExec, NoRequest
    <2>3. KindOK'
        BY <2>1, <2>2 DEF KindOK
    <2>4. \A t \in Tasks, o \in Offers : Fulfils(t, o)' /\ ~WorksOn(t, o)'
        BY <2>1, <2>2 DEF Fulfils, WorksOn
    <2>5. CASE Store = "postgres"
        <3>1. UNCHANGED <<offer, view>>
            BY <1>10, <2>5 DEF Crash, store
        <3>2. ReceivedOnce'
            BY <1>t, <2>1, <3>1 DEF ReceivedOnce
        <3>3. ASSUME NEW o \in Offers, o \notin disturbed' PROVE view[o].payload = offer[o].payload
            <4>1. \A t \in Tasks : ~WorksOn(t, o)
                BY <1>d, <2>1, <3>3 DEF WorksOn, Commands
            <4> QED
                BY <2>1, <3>3, <4>1 DEF FulfilInv, InSync
        <3>4. \A o \in Offers : InSync(o)'
            BY <2>4, <3>1, <3>3 DEF InSync
        <3> QED
            BY <1>t, <2>3, <2>4, <3>2, <3>4 DEF FulfilInv
    <2>6. CASE Store # "postgres"
        <3>1. \A o \in Offers : offer'[o].payload = NewOffer /\ view'[o].payload = NewOffer
            BY <1>10, <2>6 DEF Crash, NoRow
        <3>2. ReceivedOnce'
            BY <2>1, <3>1 DEF ReceivedOnce
        <3>3. \A o \in Offers : InSync(o)'
            BY <2>4, <3>1 DEF InSync
        <3> QED
            BY <1>t, <2>3, <2>4, <3>2, <3>3 DEF FulfilInv
    <2> QED
        BY <2>5, <2>6
<1>11. ASSUME UNCHANGED vars PROVE FulfilInv'
    <2>1. UNCHANGED <<offer, view, Kept, pc, req, exec, status, disturbed>>
        BY <1>11 DEF vars, store, history, Kept
    <2>2. KindOK' /\ ReceivedOnce'
        BY <1>t, <2>1 DEF KindOK, ReceivedOnce
    <2>3. \A t \in Tasks, o \in Offers : Fulfils(t, o)'
        BY <2>1 DEF FulfilInv, Fulfils, Fits, Receiving, Dispatching
    <2>4. \A o \in Offers : InSync(o)'
        BY <2>1 DEF FulfilInv, InSync, WorksOn, Dispatching
    <2> QED
        BY <1>t, <2>2, <2>3, <2>4 DEF FulfilInv
<1> QED
    <2>1. ASSUME NEW t \in Tasks, Commit(t) PROVE FulfilInv'
        BY <1>t, <2>1, FulfilCommit
    <2>2. ASSUME NEW t \in Tasks, StoreView(t) PROVE FulfilInv'
        BY <1>t, <2>2, FulfilStoreView
    <2> QED
        BY <1>1, <1>2, <1>3, <1>4, <1>5, <1>7, <1>8, <1>9, <1>10, <1>11, <2>1, <2>2
        DEF Next, Proceed, Fail

(* An acceptance answered with 200 has stored a credential, when the offer *)
(* names one, unless dispatches overlapped on the offer or a fault hit it: *)
(* on both stores, although accept() reads the credential back from a view *)
(* that other handlers write.  The credential is shown, too, unless the    *)
(* update of its own view failed.                                          *)
THEOREM AcceptanceStores == Spec => []AcceptStores
<1>1. FulfilInv => AcceptStores
    BY DEF FulfilInv, KindOK, Fulfils, AcceptStores, Kept
<1> QED
    BY <1>1, FulfilInit, FulfilNext, PTL DEF Spec
=============================================================================
