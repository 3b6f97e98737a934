--------------------------- MODULE StartupProofs ---------------------------
(***************************************************************************)
(* Proofs about the process from boot to serving: what the event           *)
(* publishers are told, and what the well-known documents show, for all    *)
(* configurations, batches and numbers of runs.                            *)
(***************************************************************************)
EXTENDS Startup, TLAPS

Updates == {"view", "all", "code", "token"}
Steps   == Updates \union {"publisher"}

EventNames == UNION {DOMAIN EventTypes[a] : a \in Aggregates}

EventRecords ==
    [aggregate : Aggregates, event : EventNames, wanted : BOOLEAN, tried : SUBSET Updates,
     posts : Nat, flying : Nat, received : Nat, lost : BOOLEAN]

OwedRecords == [aggregate : Aggregates \union {None}, numbers : SUBSET Nat, queries : Seq(Steps)]

(* What is left of a dispatch to publishers p: they come last. *)
Chained(q, p) ==
    /\ q \in Seq(Steps) /\ q # <<>>
    /\ \A i \in 1..Len(q) : q[i] = "publisher" <=> i = Len(q) /\ p # <<>>

(* An event asked for by the name that the filter compares. *)
Asked(x) == x.wanted /\ TypeIsName(x)

(* An event of aggregate a still to be dispatched through q. *)
Due(x, a, q, p) ==
    /\ x.aggregate = a /\ x.posts = 0
    /\ Asked(x) <=> p # <<>> /\ Matches(Head(p), x)
    /\ x.tried \union (Range(q) \ {"publisher"}) = Range(Queries(a))

(* An event alone. *)
Told(x) ==
    /\ x.event \in DOMAIN EventTypes[x.aggregate]
    /\ x.tried \subseteq Range(Queries(x.aggregate))
    /\ x.posts <= (IF Asked(x) THEN 1 ELSE 0)
    /\ x.flying + x.received <= x.posts
    /\ x.posts > 0 => x.tried = Range(Queries(x.aggregate))

(* What handler t owes. *)
Owing(t) ==
    ~Idle(t) =>
        LET a == owed[t].aggregate IN
        /\ a \in Aggregates
        /\ Chained(owed[t].queries, publishers[a])
        /\ \A n \in owed[t].numbers :
            n \in DOMAIN events /\ Due(events[n], a, owed[t].queries, publishers[a])

PublishersOK ==
    /\ DOMAIN publishers = Aggregates
    /\ \A a \in Aggregates :
        publishers[a] \in Seq(SUBSET Configurable[a]) /\ Len(publishers[a]) <= 1

EventsOK == events \in Seq(EventRecords) /\ \A n \in DOMAIN events : Told(events[n])

OwedOK ==
    /\ owed \in [Handlers -> OwedRecords]
    /\ \A t \in Handlers : Owing(t)
    /\ \A t, u \in Handlers : \A n \in owed[t].numbers : n \in owed[u].numbers => t = u

(* What nobody owes any more has been posted as asked, or is lost. *)
Done ==
    \A n \in DOMAIN events :
        Dispatched(n) /\ ~events[n].lost => events[n].posts = (IF Asked(events[n]) THEN 1 ELSE 0)

PublishingInv == PublishersOK /\ EventsOK /\ OwedOK /\ Done

-----------------------------------------------------------------------------
(* The tables *)

LEMMA AggregatesAre ==
    Aggregates = {"server_config", "credential", "offer", "holder_credential", "received_offer",
                  "connection", "authorization_request"}
BY DEF Aggregates, EventTypes

LEMMA QueriesOf ==
    /\ \A a \in Aggregates : Queries(a) \in Seq(Updates) /\ Queries(a) # <<>>
    /\ Queries("server_config") = <<"view">>
<1>1. DOMAIN IssuanceState = {"server_config", "credential", "offer"}
    BY DEF IssuanceState
<1>2. DOMAIN HolderState = {"holder_credential", "received_offer"}
    BY DEF HolderState
<1>3. DOMAIN VerificationState = {"connection", "authorization_request"}
    BY DEF VerificationState
<1>4. Queries("server_config") = <<"view">>
    BY <1>1, <1>2, <1>3 DEF Queries, IssuanceState
<1>5. Queries("credential") = <<"view", "all">>
    BY <1>1, <1>2, <1>3 DEF Queries, IssuanceState
<1>6. Queries("offer") = <<"view", "all", "code", "token">>
    BY <1>1, <1>2, <1>3 DEF Queries, IssuanceState
<1>7. Queries("holder_credential") = <<"view", "all">>
    BY <1>1, <1>2, <1>3 DEF Queries, HolderState
<1>8. Queries("received_offer") = <<"view", "all">>
    BY <1>1, <1>2, <1>3 DEF Queries, HolderState
<1>9. Queries("connection") = <<"view">>
    BY <1>1, <1>2, <1>3 DEF Queries, VerificationState
<1>10. Queries("authorization_request") = <<"view">>
    BY <1>1, <1>2, <1>3 DEF Queries, VerificationState
<1>11. ASSUME NEW q \in {<<"view">>, <<"view", "all">>, <<"view", "all", "code", "token">>}
       PROVE  q \in Seq(Updates) /\ q # <<>>
    <2>1. CASE q = <<"view">>
        BY <2>1 DEF Updates
    <2>2. CASE q = <<"view", "all">>
        BY <2>2 DEF Updates
    <2>3. CASE q = <<"view", "all", "code", "token">>
        BY <2>3 DEF Updates
    <2> QED
        BY <2>1, <2>2, <2>3
<1>12. \A a \in Aggregates : Queries(a) \in {<<"view">>, <<"view", "all">>, <<"view", "all", "code", "token">>}
    BY <1>4, <1>5, <1>6, <1>7, <1>8, <1>9, <1>10, AggregatesAre
<1> QED
    BY <1>4, <1>11, <1>12

(* An event_type is the name of its own variant or of none that can be     *)
(* listed for the aggregate.                                               *)
LEMMA TypesAndNames ==
    ASSUME NEW a \in Aggregates, NEW e \in DOMAIN EventTypes[a],
           NEW filter \in SUBSET Configurable[a]
    PROVE  EventTypes[a][e] \in filter <=> e \in filter /\ EventTypes[a][e] = e
<1>1. EventTypes[a][e] = e \/ EventTypes[a][e] \notin DOMAIN EventTypes[a]
    <2>1. CASE a = "server_config"
        <3>1. EventTypes[a] = ServerConfigEvents
            BY <2>1 DEF EventTypes
        <3> QED
            BY <3>1 DEF ServerConfigEvents
    <2>2. CASE a = "received_offer"
        <3>1. EventTypes[a] = ReceivedOfferEvents
            BY <2>2 DEF EventTypes
        <3> QED
            BY <3>1 DEF ReceivedOfferEvents
    <2>3. CASE a = "holder_credential"
        <3>1. EventTypes[a] = HolderCredentialEvents
            BY <2>3 DEF EventTypes
        <3> QED
            BY <3>1 DEF HolderCredentialEvents
    <2>4. CASE a \in {"credential", "offer", "connection", "authorization_request"}
        <3>1. EventTypes[a] \in {CredentialEvents, OfferEvents, ConnectionEvents,
                                 AuthorizationRequestEvents}
            BY <2>4 DEF EventTypes
        <3> QED
            BY <3>1
            DEF CredentialEvents, OfferEvents, ConnectionEvents, AuthorizationRequestEvents
    <2> QED
        BY <2>1, <2>2, <2>3, <2>4, AggregatesAre
<1>2. filter \subseteq DOMAIN EventTypes[a]
    BY DEF Configurable
<1> QED
    BY <1>1, <1>2

LEMMA ServerEvents ==
    /\ "server_config" \in Aggregates
    /\ {"ServerMetadataInitialized", "CredentialConfigurationAdded"} \subseteq DOMAIN EventTypes["server_config"]
<1>1. EventTypes["server_config"] = ServerConfigEvents
    BY DEF EventTypes
<1> QED
    BY <1>1, AggregatesAre DEF ServerConfigEvents

-----------------------------------------------------------------------------
(* A dispatch *)

LEMMA ChainIs ==
    ASSUME PublishersOK, NEW a \in Aggregates
    PROVE  /\ Chained(Chain(a), publishers[a])
           /\ Range(Chain(a)) \ {"publisher"} = Range(Queries(a))
<1> DEFINE p == publishers[a]
           ps == [i \in DOMAIN p |-> "publisher"]
           q == Queries(a)
<1>1. p \in Seq(SUBSET Configurable[a]) /\ Len(p) \in {0, 1}
    <2>1. p \in Seq(SUBSET Configurable[a]) /\ Len(p) <= 1
        BY DEF PublishersOK
    <2>2. Len(p) \in Nat
        BY <2>1
    <2>3. \A n \in Nat : n <= 1 => n \in {0, 1}
        OBVIOUS
    <2> QED
        BY <2>1, <2>2, <2>3
<1>2. q \in Seq(Updates) /\ Len(q) \in Nat \ {0} /\ DOMAIN q = 1..Len(q)
    BY QueriesOf
<1>3. DOMAIN p = 1..Len(p) /\ (p # <<>> <=> Len(p) = 1)
    BY <1>1
<1>4. ps \in Seq({"publisher"}) /\ Len(ps) = Len(p)
    <2>1. ps = [i \in 1..Len(p) |-> "publisher"]
        BY <1>3
    <2> HIDE DEF ps, p
    <2> QED
        BY <1>1, <2>1
<1>5. Chain(a) = q \o ps
    BY DEF Chain
<1> HIDE DEF p, ps, q
<1>6. /\ q \o ps \in Seq(Steps) /\ Len(q \o ps) = Len(q) + Len(ps)
      /\ \A i \in 1..Len(q \o ps) : (q \o ps)[i] = IF i <= Len(q) THEN q[i] ELSE ps[i - Len(q)]
    BY <1>2, <1>4 DEF Steps
<1>7. (\A i \in 1..Len(q) : q[i] \in Updates) /\ \A i \in 1..Len(ps) : ps[i] = "publisher"
    BY <1>2, <1>4
<1>8. Chained(q \o ps, p)
    BY <1>1, <1>2, <1>3, <1>4, <1>6, <1>7 DEF Chained, Updates
<1>9. DOMAIN (q \o ps) = 1..Len(q \o ps)
    BY <1>6
<1>10. Range(q) \subseteq Range(q \o ps) \ {"publisher"}
    BY <1>1, <1>2, <1>4, <1>6, <1>7, <1>9 DEF Range, Updates
<1>11. ASSUME NEW i \in 1..Len(q \o ps), (q \o ps)[i] # "publisher"
       PROVE  i \in 1..Len(q) /\ (q \o ps)[i] = q[i]
    BY <1>1, <1>2, <1>4, <1>6, <1>7, <1>11
<1>12. Range(q \o ps) \ {"publisher"} \subseteq Range(q)
    BY <1>2, <1>9, <1>11 DEF Range
<1> QED
    BY <1>5, <1>8, <1>10, <1>12 DEF p, q

(* One query on. *)
LEMMA RestIs ==
    ASSUME NEW q, NEW p, Chained(q, p)
    PROVE  /\ Len(q) \in Nat \ {0} /\ Head(q) \in Steps /\ Head(q) \in Range(q)
           /\ Head(q) = "publisher" => Len(q) = 1 /\ p # <<>> /\ Range(q) = {"publisher"}
           /\ Len(q) = 1 /\ Head(q) # "publisher" => p = <<>> /\ Range(q) = {Head(q)}
           /\ Len(q) # 1 => /\ Chained(Tail(q), p) /\ Head(q) # "publisher"
                            /\ Range(q) = {Head(q)} \union Range(Tail(q))
<1>1. q \in Seq(Steps) /\ Len(q) \in Nat \ {0} /\ Head(q) = q[1] /\ DOMAIN q = 1..Len(q)
    BY DEF Chained
<1>2. q[1] \in Steps /\ q[1] \in Range(q)
    BY <1>1 DEF Range
<1>3. Len(q) = 1 => Range(q) = {q[1]}
    BY <1>1 DEF Range
<1>4. q[1] = "publisher" <=> 1 = Len(q) /\ p # <<>>
    <2>1. 1 \in 1..Len(q)
        BY <1>1
    <2> QED
        BY <2>1 DEF Chained
<1>5. \A i \in 1..Len(q) : q[i] = "publisher" <=> i = Len(q) /\ p # <<>>
    BY DEF Chained
<1>6. ASSUME Len(q) # 1
      PROVE  Chained(Tail(q), p) /\ Range(q) = {q[1]} \union Range(Tail(q))
    <2>1. /\ Tail(q) \in Seq(Steps) /\ Len(Tail(q)) = Len(q) - 1 /\ DOMAIN Tail(q) = 1..(Len(q) - 1)
          /\ \A i \in 1..(Len(q) - 1) : Tail(q)[i] = q[i + 1]
        BY <1>1, <1>6
    <2>2. Chained(Tail(q), p)
        <3>1. Tail(q) # <<>>
            BY <1>1, <1>6, <2>1
        <3>2. ASSUME NEW i \in 1..(Len(q) - 1)
              PROVE  Tail(q)[i] = "publisher" <=> i = Len(q) - 1 /\ p # <<>>
            <4>1. i + 1 \in 1..Len(q) /\ (i + 1 = Len(q) <=> i = Len(q) - 1)
                BY <1>1
            <4> QED
                BY <1>5, <2>1, <4>1
        <3> QED
            BY <2>1, <3>1, <3>2 DEF Chained
    <2>3. \A i \in 1..Len(q) : i = 1 \/ (i - 1 \in 1..(Len(q) - 1) /\ Tail(q)[i - 1] = q[i])
        BY <1>1, <2>1
    <2>4. Range(q) \subseteq {q[1]} \union Range(Tail(q))
        <3>1. SUFFICES ASSUME NEW i \in 1..Len(q) PROVE q[i] \in {q[1]} \union Range(Tail(q))
            BY <1>1 DEF Range
        <3>2. CASE i = 1
            BY <3>2
        <3>3. CASE i # 1
            BY <2>1, <2>3, <3>3 DEF Range
        <3> QED
            BY <3>2, <3>3
    <2>5. \A i \in 1..(Len(q) - 1) : i + 1 \in 1..Len(q)
        BY <1>1
    <2>6. {q[1]} \union Range(Tail(q)) \subseteq Range(q)
        BY <1>1, <1>2, <2>1, <2>5 DEF Range
    <2> QED
        BY <2>2, <2>4, <2>6
<1> QED
    BY <1>1, <1>2, <1>3, <1>4, <1>6

-----------------------------------------------------------------------------
(* The frame: events that stay as they are, those owed above all *)

LEMMA OneOf == \A S : \A x \in S : <<x>> \in Seq(S) /\ Len(<<x>>) = 1
OBVIOUS

LEMMA TwoInOne == \A a, b : <<a>> \o <<b>> = <<a, b>>
<1> SUFFICES ASSUME NEW a, NEW b PROVE <<a>> \o <<b>> = <<a, b>>
    OBVIOUS
<1>1. <<a>> \o <<b>> \in Seq({a, b}) /\ Len(<<a>> \o <<b>>) = 2
    OBVIOUS
<1>2. (<<a>> \o <<b>>)[1] = a
    OBVIOUS
<1>3. (<<a>> \o <<b>>)[2] = b
    OBVIOUS
<1>4. PICK s \in Seq({a, b}) : s = <<a>> \o <<b>>
    BY <1>1
<1>5. Len(s) = 2
    BY <1>1, <1>4
<1>6. s = <<s[1], s[2]>>
    BY <1>5
<1> QED
    BY <1>2, <1>3, <1>4, <1>6

LEMMA SameLength ==
    ASSUME NEW S, NEW s \in Seq(S), NEW f, f = [n \in DOMAIN s |-> f[n]],
           \A n \in DOMAIN s : f[n] \in S
    PROVE  f \in Seq(S) /\ Len(f) = Len(s) /\ DOMAIN f = DOMAIN s
<1>1. DOMAIN s = 1..Len(s) /\ Len(s) \in Nat
    OBVIOUS
<1>2. f \in [1..Len(s) -> S]
    BY <1>1
<1> QED
    BY <1>1, <1>2

LEMMA Appended ==
    ASSUME NEW S, NEW s \in Seq(S), NEW r \in Seq(S)
    PROVE  /\ s \o r \in Seq(S) /\ Len(s \o r) = Len(s) + Len(r)
           /\ DOMAIN (s \o r) = 1..(Len(s) + Len(r))
           /\ \A n \in 1..(Len(s) + Len(r)) : (s \o r)[n] = IF n <= Len(s) THEN s[n] ELSE r[n - Len(s)]
<1>1. s \o r \in Seq(S) /\ Len(s \o r) = Len(s) + Len(r)
    OBVIOUS
<1>2. DOMAIN (s \o r) = 1..(Len(s) + Len(r))
    BY <1>1
<1>3. \A n \in 1..(Len(s) + Len(r)) : (s \o r)[n] = IF n <= Len(s) THEN s[n] ELSE r[n - Len(s)]
    OBVIOUS
<1> QED
    BY <1>1, <1>2, <1>3

(* What the steps of a post change of an event. *)
Sent(x)     == [x EXCEPT !.posts = @ + 1, !.flying = @ + 1]
Received(x) == [x EXCEPT !.flying = @ - 1, !.received = @ + 1]
Lost(x)     == [x EXCEPT !.flying = @ - 1, !.lost = TRUE]
Dropped(x)  == [x EXCEPT !.lost = TRUE, !.flying = 0]

LEMMA SentEvent ==
    ASSUME NEW x \in EventRecords
    PROVE  /\ Sent(x) \in EventRecords /\ Sent(x).posts = x.posts + 1 /\ Sent(x).flying = x.flying + 1
           /\ Sent(x).aggregate = x.aggregate /\ Sent(x).event = x.event /\ Sent(x).wanted = x.wanted /\ Sent(x).tried = x.tried
           /\ Sent(x).received = x.received /\ Sent(x).lost = x.lost
<1>1. x.posts \in Nat /\ x.flying \in Nat /\ x.received \in Nat
    BY DEF EventRecords
<1>2. PICK p \in Nat, f \in Nat : p = x.posts + 1 /\ f = x.flying + 1
    BY <1>1
<1>3. Sent(x) = [x EXCEPT !.posts = p, !.flying = f]
    BY <1>2 DEF Sent
<1>4. Sent(x) \in EventRecords
    BY <1>3 DEF EventRecords
<1> QED
    BY <1>2, <1>3, <1>4 DEF EventRecords

LEMMA ReceivedEvent ==
    ASSUME NEW x \in EventRecords, x.flying > 0
    PROVE  /\ Received(x) \in EventRecords
           /\ Received(x).flying = x.flying - 1 /\ Received(x).received = x.received + 1
           /\ Received(x).aggregate = x.aggregate /\ Received(x).event = x.event /\ Received(x).wanted = x.wanted /\ Received(x).tried = x.tried
           /\ Received(x).posts = x.posts /\ Received(x).lost = x.lost
<1>1. x.posts \in Nat /\ x.flying \in Nat /\ x.received \in Nat
    BY DEF EventRecords
<1>2. PICK f \in Nat, r \in Nat : f = x.flying - 1 /\ r = x.received + 1
    BY <1>1
<1>3. Received(x) = [x EXCEPT !.flying = f, !.received = r]
    BY <1>2 DEF Received
<1>4. Received(x) \in EventRecords
    BY <1>3 DEF EventRecords
<1> QED
    BY <1>2, <1>3, <1>4 DEF EventRecords

LEMMA LostEvent ==
    ASSUME NEW x \in EventRecords, x.flying > 0
    PROVE  /\ Lost(x) \in EventRecords /\ Lost(x).flying = x.flying - 1 /\ Lost(x).lost
           /\ Lost(x).aggregate = x.aggregate /\ Lost(x).event = x.event /\ Lost(x).wanted = x.wanted /\ Lost(x).tried = x.tried
           /\ Lost(x).posts = x.posts /\ Lost(x).received = x.received
<1>1. x.posts \in Nat /\ x.flying \in Nat /\ x.received \in Nat
    BY DEF EventRecords
<1>2. PICK f \in Nat : f = x.flying - 1
    BY <1>1
<1>3. Lost(x) = [x EXCEPT !.flying = f, !.lost = TRUE]
    BY <1>2 DEF Lost
<1>4. Lost(x) \in EventRecords
    BY <1>3 DEF EventRecords
<1> QED
    BY <1>2, <1>3, <1>4 DEF EventRecords

LEMMA DroppedEvent ==
    ASSUME NEW x \in EventRecords
    PROVE  /\ Dropped(x) \in EventRecords /\ Dropped(x).flying = 0 /\ Dropped(x).lost
           /\ Dropped(x).aggregate = x.aggregate /\ Dropped(x).event = x.event /\ Dropped(x).wanted = x.wanted /\ Dropped(x).tried = x.tried
           /\ Dropped(x).posts = x.posts /\ Dropped(x).received = x.received
BY DEF EventRecords, Dropped

LEMMA Undisturbed ==
    ASSUME NEW t \in Handlers, Owing(t), owed'[t] = owed[t], publishers' = publishers,
           \A n \in owed[t].numbers :
               n \in DOMAIN events => n \in DOMAIN events' /\ events'[n] = events[n]
    PROVE  Owing(t)'
<1>1. CASE Idle(t)
    BY <1>1 DEF Owing, Idle, Nothing
<1>2. CASE ~Idle(t)
    <2>1. ~Idle(t)' /\ \A n \in owed[t].numbers : n \in DOMAIN events' /\ events'[n] = events[n]
        BY <1>2 DEF Owing, Idle, Nothing
    <2> QED
        BY <1>2, <2>1 DEF Owing, Due, Matches
<1> QED
    BY <1>1, <1>2

(* Whom an event is owed by knows it, and nothing of it has been posted. *)
LEMMA OwedEvents ==
    ASSUME PublishingInv, NEW t \in Handlers, NEW n \in owed[t].numbers
    PROVE  /\ ~Idle(t) /\ owed[t].aggregate \in Aggregates
           /\ n \in DOMAIN events /\ events[n] \in EventRecords /\ Told(events[n])
           /\ Due(events[n], owed[t].aggregate, owed[t].queries, publishers[owed[t].aggregate])
           /\ events[n].posts = 0 /\ events[n].flying = 0 /\ events[n].received = 0
           /\ \A u \in Handlers : u # t => n \notin owed[u].numbers
<1>1. ~Idle(t)
    BY DEF Idle, Nothing
<1>2. /\ owed[t].aggregate \in Aggregates /\ n \in DOMAIN events
      /\ Due(events[n], owed[t].aggregate, owed[t].queries, publishers[owed[t].aggregate])
    BY <1>1 DEF PublishingInv, OwedOK, Owing
<1>3. events[n] \in EventRecords /\ Told(events[n])
    BY <1>2 DEF PublishingInv, EventsOK
<1>4. events[n].posts = 0
    BY <1>2 DEF Due
<1>5. events[n].flying = 0 /\ events[n].received = 0
    BY <1>3, <1>4 DEF Told, EventRecords
<1>6. \A u \in Handlers : u # t => n \notin owed[u].numbers
    BY DEF PublishingInv, OwedOK
<1> QED
    BY <1>1, <1>2, <1>3, <1>4, <1>5, <1>6

LEMMA NothingOwed ==
    /\ Nothing \in OwedRecords /\ Nothing.numbers = {}
    /\ \A q \in Seq(Steps) : \A a, N : q # <<>> => [aggregate |-> a, numbers |-> N, queries |-> q] # Nothing
BY DEF Nothing, OwedRecords, Steps

-----------------------------------------------------------------------------
(* Each action of EventPublisher keeps the invariant *)

(* An event of a batch that is committed under the publishers of its run. *)
LEMMA NewEventIsDue ==
    ASSUME PublishersOK, NEW http \in HttpConfig, publishers = Partition(Load(http)),
           NEW a \in Aggregates, NEW e \in DOMAIN EventTypes[a]
    PROVE  /\ NewEvent(http, a, e) \in EventRecords
           /\ Told(NewEvent(http, a, e))
           /\ Due(NewEvent(http, a, e), a, Chain(a), publishers[a])
<1> DEFINE x == NewEvent(http, a, e)
           p == publishers[a]
<1>1. /\ x.aggregate = a /\ x.event = e /\ x.wanted = Wanted(http, a, e) /\ x.tried = {}
      /\ x.posts = 0 /\ x.flying = 0 /\ x.received = 0
    BY DEF NewEvent
<1>2. http.enabled \in BOOLEAN /\ http.events[a] \in SUBSET Configurable[a]
    BY DEF HttpConfig
<1>3. Wanted(http, a, e) \in BOOLEAN
    BY <1>2 DEF Wanted
<1>4. x \in EventRecords
    BY <1>3 DEF NewEvent, EventRecords, EventNames
<1>5. p = IF Load(http)[a] = None THEN <<>> ELSE <<Load(http)[a]>>
    BY DEF Partition
<1>6. Load(http)[a] = IF http.enabled /\ http.events[a] # {} THEN http.events[a] ELSE None
    BY DEF Load
<1>7. http.events[a] # None
    BY <1>2, NoneIsNoFilter
<1>8. Matches(Head(p), x) <=> EventTypes[a][e] \in Head(p)
    BY <1>1 DEF Matches
<1>a. Asked(x) <=> http.enabled /\ e \in http.events[a] /\ EventTypes[a][e] = e
    BY <1>1, <1>2 DEF Asked, TypeIsName, Wanted
<1>9. Asked(x) <=> p # <<>> /\ Matches(Head(p), x)
    <2>1. CASE http.enabled /\ http.events[a] # {}
        <3>1. p # <<>> /\ Head(p) = http.events[a]
            BY <1>5, <1>6, <1>7, <2>1
        <3>2. EventTypes[a][e] \in http.events[a] <=>
                  e \in http.events[a] /\ EventTypes[a][e] = e
            BY <1>2, TypesAndNames
        <3> QED
            BY <1>8, <1>a, <2>1, <3>1, <3>2
    <2>2. CASE ~(http.enabled /\ http.events[a] # {})
        BY <1>5, <1>6, <1>a, <2>2
    <2> QED
        BY <2>1, <2>2
<1>10. Range(Chain(a)) \ {"publisher"} = Range(Queries(a))
    BY ChainIs
<1> HIDE DEF x, p
<1>11. Due(x, a, Chain(a), p)
    BY <1>1, <1>9, <1>10 DEF Due
<1>12. Told(x)
    BY <1>1, <1>3 DEF Told
<1> QED
    BY <1>4, <1>11, <1>12 DEF x, p

LEMMA CommitKeeps ==
    ASSUME PublishingInv, NEW t \in Handlers, NEW http \in HttpConfig,
           publishers = Partition(Load(http)), NEW a \in Aggregates,
           NEW batch \in Seq(DOMAIN EventTypes[a]), CommitBatch(t, http, a, batch)
    PROVE  PublishingInv'
<1> DEFINE new == [i \in DOMAIN batch |-> NewEvent(http, a, batch[i])]
           N == {Len(events) + i : i \in DOMAIN batch}
<1>1. /\ events' = events \o new /\ publishers' = publishers
      /\ owed' = [owed EXCEPT ![t] = [aggregate |-> a, numbers |-> N, queries |-> Chain(a)]]
    BY DEF CommitBatch
<1>2. PublishersOK /\ EventsOK /\ OwedOK /\ Done
    BY DEF PublishingInv
<1>3. DOMAIN batch = 1..Len(batch) /\ Len(batch) \in Nat /\ \A i \in DOMAIN batch : batch[i] \in DOMAIN EventTypes[a]
    OBVIOUS
<1>4. \A i \in DOMAIN batch : new[i] = NewEvent(http, a, batch[i])
    OBVIOUS
<1>5. \A i \in DOMAIN batch :
        new[i] \in EventRecords /\ Told(new[i]) /\ Due(new[i], a, Chain(a), publishers[a])
    BY <1>2, <1>3, <1>4, NewEventIsDue
<1>6. new \in Seq(EventRecords) /\ Len(new) = Len(batch)
    <2>1. DOMAIN new = 1..Len(batch)
        BY <1>3
    <2> HIDE DEF new
    <2>2. \A i \in 1..Len(batch) : new[i] \in EventRecords
        BY <1>3, <1>5
    <2>3. new = [i \in 1..Len(batch) |-> new[i]]
        BY <2>1 DEF new
    <2> QED
        BY <1>3, <2>1, <2>2, <2>3
<1>7. events \in Seq(EventRecords) /\ DOMAIN events = 1..Len(events) /\ Len(events) \in Nat
    BY <1>2 DEF EventsOK
<1> HIDE DEF new, N
<1>8. /\ events' \in Seq(EventRecords) /\ Len(events') = Len(events) + Len(batch)
      /\ DOMAIN events' = 1..(Len(events) + Len(batch))
      /\ \A n \in 1..(Len(events) + Len(batch)) :
            events'[n] = IF n <= Len(events) THEN events[n] ELSE new[n - Len(events)]
    <2>1. /\ events \o new \in Seq(EventRecords) /\ Len(events \o new) = Len(events) + Len(new)
          /\ DOMAIN (events \o new) = 1..(Len(events) + Len(new))
          /\ \A n \in 1..(Len(events) + Len(new)) :
                (events \o new)[n] = IF n <= Len(events) THEN events[n] ELSE new[n - Len(events)]
        BY <1>6, <1>7, Appended, Zenon
    <2> QED
        BY <1>1, <1>6, <2>1, Zenon
<1>9. \A n \in DOMAIN events : n \in DOMAIN events' /\ events'[n] = events[n] /\ n \notin N
    BY <1>3, <1>7, <1>8 DEF N
<1>10. \A n \in DOMAIN events' : n \notin DOMAIN events =>
            n \in N /\ n - Len(events) \in DOMAIN batch /\ events'[n] = new[n - Len(events)]
    BY <1>3, <1>7, <1>8 DEF N
<1>11. \A n \in N : n \in DOMAIN events' /\ n \notin DOMAIN events /\ n \in Nat
    BY <1>3, <1>7, <1>8 DEF N
<1>12. EventsOK'
    <2>1. ASSUME NEW n \in DOMAIN events'
          PROVE  Told(events'[n])
        BY <1>2, <1>5, <1>9, <1>10 DEF EventsOK
    <2> QED
        BY <1>8, <2>1 DEF EventsOK, Told
<1>13. PublishersOK'
    BY <1>1, <1>2 DEF PublishersOK
<1>14. Chained(Chain(a), publishers[a])
    BY <1>2, ChainIs
<1>15. owed' \in [Handlers -> OwedRecords]
    BY <1>1, <1>2, <1>11, <1>14 DEF OwedOK, OwedRecords, Chained
<1>16. owed \in [Handlers -> OwedRecords]
    BY <1>2 DEF OwedOK
<1>17. owed'[t] = [aggregate |-> a, numbers |-> N, queries |-> Chain(a)] /\ \A u \in Handlers : u # t => owed'[u] = owed[u]
    BY <1>1, <1>16
<1>18. \A u \in Handlers : \A n \in owed[u].numbers : n \in DOMAIN events
    BY OwedEvents
<1>19. ASSUME NEW u \in Handlers
       PROVE  Owing(u)'
    <2>1. CASE u # t
        BY <1>1, <1>2, <1>9, <1>17, <2>1, Undisturbed DEF OwedOK
    <2>2. CASE u = t
        <3>1. \A n \in N : n \in DOMAIN events' /\ Due(events'[n], a, Chain(a), publishers[a])
            BY <1>5, <1>10, <1>11
        <3>2. owed'[t].aggregate = a /\ owed'[t].numbers = N /\ owed'[t].queries = Chain(a)
            BY <1>17
        <3> QED
            BY <1>1, <1>14, <2>2, <3>1, <3>2 DEF Owing, Chained, Due, Matches
    <2> QED
        BY <2>1, <2>2
<1>20. \A u, v \in Handlers : \A n \in owed'[u].numbers : n \in owed'[v].numbers => u = v
    BY <1>2, <1>11, <1>17, <1>18 DEF OwedOK
<1>21. OwedOK'
    BY <1>15, <1>19, <1>20 DEF OwedOK
<1>22. Done'
    <2> SUFFICES ASSUME NEW n \in DOMAIN events', Dispatched(n)', ~events'[n].lost
                 PROVE  events'[n].posts = (IF Asked(events'[n]) THEN 1 ELSE 0)
        BY DEF Done
    <2>1. n \notin N
        BY <1>17 DEF Dispatched
    <2>2. n \in DOMAIN events /\ events'[n] = events[n]
        BY <1>9, <1>10, <2>1
    <2>3. Dispatched(n)
        <3>1. owed[t].numbers = {}
            BY DEF CommitBatch, Idle, Nothing
        <3> QED
            BY <1>17, <3>1 DEF Dispatched
    <2> QED
        BY <1>2, <2>2, <2>3 DEF Done
<1> QED
    BY <1>12, <1>13, <1>21, <1>22 DEF PublishingInv

(* The handler's next query has been run. *)
LEMMA RestOwed ==
    ASSUME PublishingInv, NEW t \in Handlers, ~Idle(t), owed' = [owed EXCEPT ![t] = Rest(t)]
    PROVE  /\ owed' \in [Handlers -> OwedRecords]
           /\ \A u \in Handlers : u # t => owed'[u] = owed[u]
           /\ \A u, v \in Handlers : \A n \in owed'[u].numbers : n \in owed'[v].numbers => u = v
           /\ Len(owed[t].queries) = 1 => owed'[t] = Nothing
           /\ Len(owed[t].queries) # 1 =>
                /\ owed'[t].aggregate = owed[t].aggregate /\ owed'[t].numbers = owed[t].numbers
                /\ owed'[t].queries = Tail(owed[t].queries)
<1>1. owed \in [Handlers -> OwedRecords] /\ Chained(owed[t].queries, publishers[owed[t].aggregate])
    BY DEF PublishingInv, OwedOK, Owing
<1>2. owed'[t] = Rest(t) /\ \A u \in Handlers : u # t => owed'[u] = owed[u]
    BY <1>1
<1>3. Len(owed[t].queries) = 1 => owed'[t] = Nothing
    BY <1>2 DEF Rest
<1>4. Len(owed[t].queries) # 1 =>
        /\ owed'[t].aggregate = owed[t].aggregate /\ owed'[t].numbers = owed[t].numbers
        /\ owed'[t].queries = Tail(owed[t].queries)
    BY <1>1, <1>2 DEF Rest, OwedRecords
<1>5. Len(owed[t].queries) # 1 => Tail(owed[t].queries) \in Seq(Steps)
    BY <1>1, RestIs DEF Chained
<1>6. Rest(t) \in OwedRecords
    <2>1. CASE Len(owed[t].queries) = 1
        BY <2>1, NothingOwed DEF Rest
    <2>2. CASE Len(owed[t].queries) # 1
        BY <1>1, <1>5, <2>2 DEF Rest, OwedRecords
    <2> QED
        BY <2>1, <2>2
<1>7. owed' \in [Handlers -> OwedRecords]
    BY <1>1, <1>6
<1>8. \A u \in Handlers : owed'[u].numbers \subseteq owed[u].numbers
    BY <1>2, <1>3, <1>4, NothingOwed
<1>9. \A u, v \in Handlers : \A n \in owed'[u].numbers : n \in owed'[v].numbers => u = v
    BY <1>8 DEF PublishingInv, OwedOK
<1> QED
    BY <1>2, <1>3, <1>4, <1>7, <1>9

LEMMA RunQueryKeeps ==
    ASSUME PublishingInv, NEW t \in Handlers, RunQuery(t)
    PROVE  PublishingInv'
<1> DEFINE o == owed[t]
           q == o.queries
           p == publishers[o.aggregate]
<1>1. /\ ~Idle(t) /\ Head(q) # "publisher" /\ publishers' = publishers
      /\ events' = [n \in DOMAIN events |->
            IF n \in o.numbers THEN [events[n] EXCEPT !.tried = @ \union {Head(q)}] ELSE events[n]]
      /\ owed' = [owed EXCEPT ![t] = Rest(t)]
    BY DEF RunQuery, AtQuery
<1>2. PublishersOK /\ EventsOK /\ OwedOK /\ Done
    BY DEF PublishingInv
<1>3. /\ o.aggregate \in Aggregates /\ Chained(q, p)
      /\ \A n \in o.numbers : n \in DOMAIN events /\ Due(events[n], o.aggregate, q, p)
    BY <1>1, <1>2 DEF OwedOK, Owing
<1>4. /\ owed' \in [Handlers -> OwedRecords]
      /\ \A u \in Handlers : u # t => owed'[u] = owed[u]
      /\ \A u, v \in Handlers : \A n \in owed'[u].numbers : n \in owed'[v].numbers => u = v
      /\ Len(q) = 1 => owed'[t] = Nothing
      /\ Len(q) # 1 =>
            owed'[t].aggregate = o.aggregate /\ owed'[t].numbers = o.numbers /\ owed'[t].queries = Tail(q)
    BY <1>1, RestOwed
<1>5. /\ Head(q) \in Updates /\ Head(q) \in Range(q)
      /\ Len(q) = 1 => p = <<>> /\ Range(q) = {Head(q)}
      /\ Len(q) # 1 => Chained(Tail(q), p) /\ Range(q) = {Head(q)} \union Range(Tail(q))
    <2>1. Chained(q, p)
        BY <1>3
    <2> HIDE DEF q, p
    <2>2. /\ Head(q) \in Steps /\ Head(q) \in Range(q)
          /\ Len(q) = 1 /\ Head(q) # "publisher" => p = <<>> /\ Range(q) = {Head(q)}
          /\ Len(q) # 1 => Chained(Tail(q), p) /\ Range(q) = {Head(q)} \union Range(Tail(q))
        BY <2>1, RestIs
    <2>3. Head(q) # "publisher"
        BY <1>1 DEF q
    <2> QED
        BY <2>2, <2>3 DEF Steps, q, p
<1>6. events \in Seq(EventRecords)
    BY <1>2 DEF EventsOK
<1>7. \A n \in o.numbers :
        /\ events[n] \in EventRecords /\ Told(events[n])
        /\ events[n].posts = 0 /\ events[n].flying = 0 /\ events[n].received = 0
        /\ \A u \in Handlers : u # t => n \notin owed[u].numbers
    BY OwedEvents
<1> HIDE DEF o, q, p
<1>8. ASSUME NEW n \in o.numbers
      PROVE  /\ events'[n].tried = events[n].tried \union {Head(q)}
             /\ events'[n].aggregate = events[n].aggregate /\ events'[n].event = events[n].event
             /\ events'[n].wanted = events[n].wanted /\ events'[n].posts = 0 /\ events'[n].flying = 0
             /\ events'[n].received = 0 /\ events'[n].lost = events[n].lost
             /\ events'[n] \in EventRecords
    <2>1. n \in DOMAIN events
        BY <1>3
    <2>2. events'[n] = [events[n] EXCEPT !.tried = @ \union {Head(q)}]
        BY <1>1, <2>1
    <2> QED
        BY <1>5, <1>7, <2>2 DEF EventRecords
<1>9. \A n \in DOMAIN events : n \notin o.numbers => events'[n] = events[n]
    BY <1>1
<1>10. \A n \in DOMAIN events : events'[n] \in EventRecords
    BY <1>6, <1>8, <1>9
<1>11. events' \in Seq(EventRecords) /\ DOMAIN events' = DOMAIN events
    <2>1. events' = [n \in DOMAIN events |-> events'[n]]
        BY <1>1
    <2> QED
        BY <1>6, <1>10, <2>1, SameLength
<1>12. ASSUME NEW n \in o.numbers
       PROVE  Told(events'[n])
    <2>1. Told(events[n]) /\ events[n].aggregate = o.aggregate
        BY <1>3, <1>7 DEF Due
    <2>2. Head(q) \in Range(Queries(o.aggregate))
        BY <1>1, <1>3, <1>5 DEF Due
    <2>3. events[n].wanted \in BOOLEAN
        BY <1>7 DEF EventRecords
    <2> QED
        BY <1>8, <2>1, <2>2, <2>3 DEF Told, Asked, TypeIsName
<1>13. EventsOK'
    <2>1. ASSUME NEW n \in DOMAIN events'
          PROVE  Told(events'[n])
        BY <1>2, <1>9, <1>11, <1>12 DEF EventsOK
    <2> QED
        BY <1>11, <2>1 DEF EventsOK, Told
<1>14. ASSUME NEW n \in o.numbers, Len(q) # 1
       PROVE  Due(events'[n], o.aggregate, Tail(q), p)
    <2>1. Due(events[n], o.aggregate, q, p)
        BY <1>3
    <2>2. events'[n].tried \union (Range(Tail(q)) \ {"publisher"}) = events[n].tried \union (Range(q) \ {"publisher"})
        BY <1>1, <1>5, <1>8, <1>14
    <2>3. Matches(Head(p), events'[n]) <=> Matches(Head(p), events[n])
        BY <1>8 DEF Matches
    <2> QED
        BY <1>8, <2>1, <2>2, <2>3 DEF Due, Asked, TypeIsName
<1>15. ASSUME NEW u \in Handlers
       PROVE  Owing(u)'
    <2>1. CASE u # t
        <3>1. \A n \in owed[u].numbers : n \in DOMAIN events => n \in DOMAIN events' /\ events'[n] = events[n]
            BY <1>7, <1>9, <1>11, <2>1
        <3> QED
            BY <1>1, <1>2, <1>4, <2>1, <3>1, Undisturbed DEF OwedOK
    <2>2. CASE u = t /\ Len(q) = 1
        BY <1>4, <2>2 DEF Owing, Idle, Nothing
    <2>3. CASE u = t /\ Len(q) # 1
        <3>1. \A n \in o.numbers : n \in DOMAIN events' /\ Due(events'[n], o.aggregate, Tail(q), p)
            BY <1>3, <1>11, <1>14, <2>3
        <3>2. publishers'[o.aggregate] = p
            BY <1>1 DEF p
        <3> QED
            BY <1>3, <1>4, <1>5, <2>3, <3>1, <3>2 DEF Owing, Chained, Due, Matches
    <2> QED
        BY <2>1, <2>2, <2>3
<1>16. PublishersOK'
    BY <1>1, <1>2 DEF PublishersOK
<1>17. Done'
    <2> SUFFICES ASSUME NEW n \in DOMAIN events, Dispatched(n)', ~events'[n].lost
                 PROVE  events'[n].posts = (IF Asked(events'[n]) THEN 1 ELSE 0)
        BY <1>11 DEF Done
    <2>1. CASE n \in o.numbers
        <3>1. Len(q) = 1
            BY <1>4, <2>1 DEF Dispatched
        <3>2. ~Asked(events[n])
            <4>1. Due(events[n], o.aggregate, q, p) /\ p = <<>>
                BY <1>3, <1>5, <2>1, <3>1
            <4> QED
                BY <4>1 DEF Due
        <3> QED
            BY <1>8, <2>1, <3>2 DEF Asked, TypeIsName
    <2>2. CASE n \notin o.numbers
        <3>1. Dispatched(n)
            BY <1>4, <2>2 DEF Dispatched, o
        <3> QED
            BY <1>2, <1>9, <2>2, <3>1 DEF Done
    <2> QED
        BY <2>1, <2>2
<1>18. OwedOK'
    BY <1>4, <1>15 DEF OwedOK
<1> QED
    BY <1>13, <1>16, <1>17, <1>18 DEF PublishingInv

LEMMA PublishKeeps ==
    ASSUME PublishingInv, NEW t \in Handlers, Publish(t)
    PROVE  PublishingInv'
<1> DEFINE o == owed[t]
           q == o.queries
           p == publishers[o.aggregate]
<1>1. /\ ~Idle(t) /\ Head(q) = "publisher" /\ publishers' = publishers
      /\ events' = [n \in DOMAIN events |->
            IF n \in o.numbers /\ Matches(Head(p), events[n])
            THEN [events[n] EXCEPT !.posts = @ + 1, !.flying = @ + 1] ELSE events[n]]
      /\ owed' = [owed EXCEPT ![t] = Rest(t)]
    BY DEF Publish, AtQuery
<1>2. PublishersOK /\ EventsOK /\ OwedOK /\ Done
    BY DEF PublishingInv
<1>3. /\ o.aggregate \in Aggregates /\ Chained(q, p)
      /\ \A n \in o.numbers : n \in DOMAIN events /\ Due(events[n], o.aggregate, q, p)
    BY <1>1, <1>2 DEF OwedOK, Owing
<1>4. Len(q) = 1 /\ p # <<>> /\ Range(q) = {"publisher"}
    <2>1. Chained(q, p) /\ Head(q) = "publisher"
        BY <1>1, <1>3
    <2> HIDE DEF q, p
    <2>2. Len(q) = 1 /\ p # <<>> /\ Range(q) = {"publisher"}
        BY <2>1, RestIs
    <2> QED
        BY <2>2 DEF q, p
<1>5. /\ owed' \in [Handlers -> OwedRecords]
      /\ \A u \in Handlers : u # t => owed'[u] = owed[u]
      /\ \A u, v \in Handlers : \A n \in owed'[u].numbers : n \in owed'[v].numbers => u = v
      /\ owed'[t] = Nothing
    BY <1>1, <1>4, RestOwed
<1>6. events \in Seq(EventRecords)
    BY <1>2 DEF EventsOK
<1>7. \A n \in o.numbers :
        /\ events[n] \in EventRecords /\ Told(events[n])
        /\ events[n].posts = 0 /\ events[n].flying = 0 /\ events[n].received = 0
        /\ \A u \in Handlers : u # t => n \notin owed[u].numbers
    BY OwedEvents
<1> HIDE DEF o, q, p
<1>8. ASSUME NEW n \in o.numbers
      PROVE  /\ events[n].aggregate = o.aggregate
             /\ Asked(events[n]) <=> Matches(Head(p), events[n])
             /\ events[n].tried = Range(Queries(o.aggregate))
    <2>1. Due(events[n], o.aggregate, q, p)
        BY <1>3
    <2>2. Range(q) \ {"publisher"} = {}
        BY <1>4
    <2> QED
        BY <1>4, <2>1, <2>2 DEF Due
<1>9. ASSUME NEW n \in o.numbers
      PROVE  /\ events'[n].tried = events[n].tried
             /\ events'[n].aggregate = events[n].aggregate /\ events'[n].event = events[n].event
             /\ events'[n].wanted = events[n].wanted /\ events'[n].wanted \in BOOLEAN
             /\ events'[n].posts = (IF Asked(events[n]) THEN 1 ELSE 0)
             /\ events'[n].flying = (IF Asked(events[n]) THEN 1 ELSE 0)
             /\ events'[n].received = 0 /\ events'[n].lost = events[n].lost
             /\ events'[n] \in EventRecords
    <2>1. n \in DOMAIN events
        BY <1>3
    <2>2. CASE Asked(events[n])
        <3>1. events'[n] = [events[n] EXCEPT !.posts = @ + 1, !.flying = @ + 1]
            BY <1>1, <1>8, <2>1, <2>2
        <3>2. events[n] \in EventRecords /\ events[n].posts + 1 = 1 /\ events[n].flying + 1 = 1
            BY <1>7
        <3>3. events'[n] = Sent(events[n])
            BY <3>1 DEF Sent
        <3>4. events[n].wanted \in BOOLEAN /\ events[n].received = 0
            BY <1>7 DEF EventRecords
        <3> QED
            BY <2>2, <3>2, <3>3, <3>4, SentEvent
    <2>3. CASE ~Asked(events[n])
        <3>1. events'[n] = events[n]
            BY <1>1, <1>8, <2>1, <2>3
        <3> QED
            BY <1>7, <2>3, <3>1 DEF EventRecords
    <2> QED
        BY <2>2, <2>3
<1>10. \A n \in DOMAIN events : n \notin o.numbers => events'[n] = events[n]
    BY <1>1
<1>11. \A n \in DOMAIN events : events'[n] \in EventRecords
    BY <1>6, <1>9, <1>10
<1>12. events' \in Seq(EventRecords) /\ DOMAIN events' = DOMAIN events
    <2>1. events' = [n \in DOMAIN events |-> events'[n]]
        BY <1>1
    <2> QED
        BY <1>6, <1>11, <2>1, SameLength
<1>13. ASSUME NEW n \in o.numbers
       PROVE  Told(events'[n])
    <2>1. Told(events[n])
        BY <1>7
    <2> QED
        BY <1>8, <1>9, <2>1 DEF Told, Asked, TypeIsName
<1>14. EventsOK'
    <2>1. ASSUME NEW n \in DOMAIN events'
          PROVE  Told(events'[n])
        BY <1>2, <1>10, <1>12, <1>13 DEF EventsOK
    <2> QED
        BY <1>12, <2>1 DEF EventsOK, Told
<1>15. ASSUME NEW u \in Handlers
       PROVE  Owing(u)'
    <2>1. CASE u # t
        <3>1. \A n \in owed[u].numbers : n \in DOMAIN events => n \in DOMAIN events' /\ events'[n] = events[n]
            BY <1>7, <1>10, <1>12, <2>1
        <3> QED
            BY <1>1, <1>2, <1>5, <2>1, <3>1, Undisturbed DEF OwedOK
    <2>2. CASE u = t
        BY <1>5, <2>2 DEF Owing, Idle, Nothing
    <2> QED
        BY <2>1, <2>2
<1>16. PublishersOK'
    BY <1>1, <1>2 DEF PublishersOK
<1>17. Done'
    <2> SUFFICES ASSUME NEW n \in DOMAIN events, Dispatched(n)', ~events'[n].lost
                 PROVE  events'[n].posts = (IF Asked(events'[n]) THEN 1 ELSE 0)
        BY <1>12 DEF Done
    <2>1. CASE n \in o.numbers
        BY <1>9, <2>1 DEF Asked, TypeIsName
    <2>2. CASE n \notin o.numbers
        <3>1. Dispatched(n)
            BY <1>5, <2>2 DEF Dispatched, o
        <3> QED
            BY <1>2, <1>10, <2>2, <3>1 DEF Done
    <2> QED
        BY <2>1, <2>2
<1>18. OwedOK'
    BY <1>5, <1>15 DEF OwedOK
<1> QED
    BY <1>14, <1>16, <1>17, <1>18 DEF PublishingInv

(* A post that is under way is nobody's to dispatch: it arrives, or fails. *)
LEMMA PostEndsKeeps ==
    ASSUME PublishingInv, NEW n, Deliver(n) \/ SendFails(n)
    PROVE  PublishingInv'
<1>1. /\ n \in DOMAIN events /\ events[n].flying > 0 /\ publishers' = publishers /\ owed' = owed
      /\ \/ events' = [events EXCEPT ![n].flying = @ - 1, ![n].received = @ + 1]
         \/ events' = [events EXCEPT ![n].flying = @ - 1, ![n].lost = TRUE]
    BY DEF Deliver, SendFails
<1>2. PublishersOK /\ EventsOK /\ OwedOK /\ Done
    BY DEF PublishingInv
<1>3. events[n] \in EventRecords /\ Told(events[n]) /\ events \in Seq(EventRecords)
    BY <1>1, <1>2 DEF EventsOK
<1>4. DOMAIN events' = DOMAIN events /\ \A m \in DOMAIN events : m # n => events'[m] = events[m]
    BY <1>1
<1>5. \/ events'[n] = [events[n] EXCEPT !.flying = @ - 1, !.received = @ + 1]
      \/ events'[n] = [events[n] EXCEPT !.flying = @ - 1, !.lost = TRUE]
    BY <1>1
<1>6. /\ events'[n] \in EventRecords
      /\ events'[n].aggregate = events[n].aggregate /\ events'[n].event = events[n].event
      /\ events'[n].wanted = events[n].wanted /\ events'[n].tried = events[n].tried
      /\ events'[n].posts = events[n].posts /\ events'[n].posts \in Nat
      /\ ~events'[n].lost => ~events[n].lost
      /\ events'[n].flying + events'[n].received <= events[n].flying + events[n].received
    <2>1. /\ events[n].flying \in Nat /\ events[n].received \in Nat /\ events[n].posts \in Nat
          /\ events[n].lost \in BOOLEAN
        BY <1>3 DEF EventRecords
    <2>3. CASE events'[n] = [events[n] EXCEPT !.flying = @ - 1, !.received = @ + 1]
        <3>1. events'[n] = Received(events[n])
            BY <2>3 DEF Received
        <3>2. /\ events'[n] \in EventRecords /\ events'[n].flying = events[n].flying - 1 /\ events'[n].received = events[n].received + 1
              /\ events'[n].aggregate = events[n].aggregate /\ events'[n].event = events[n].event
              /\ events'[n].wanted = events[n].wanted /\ events'[n].tried = events[n].tried
              /\ events'[n].posts = events[n].posts /\ events'[n].lost = events[n].lost
            BY <1>1, <1>3, <3>1, ReceivedEvent
        <3> QED
            BY <2>1, <3>2
    <2>4. CASE events'[n] = [events[n] EXCEPT !.flying = @ - 1, !.lost = TRUE]
        <3>1. events'[n] = Lost(events[n])
            BY <2>4 DEF Lost
        <3>2. /\ events'[n] \in EventRecords /\ events'[n].flying = events[n].flying - 1 /\ events'[n].lost
              /\ events'[n].aggregate = events[n].aggregate /\ events'[n].event = events[n].event
              /\ events'[n].wanted = events[n].wanted /\ events'[n].tried = events[n].tried
              /\ events'[n].posts = events[n].posts /\ events'[n].received = events[n].received
            BY <1>1, <1>3, <3>1, LostEvent
        <3> QED
            BY <2>1, <3>2
    <2> QED
        BY <1>5, <2>3, <2>4
<1>7. Told(events'[n])
    <2>1. /\ events[n].flying + events[n].received \in Nat
          /\ events'[n].flying + events'[n].received \in Nat
        <3>1. \A x \in EventRecords : x.flying + x.received \in Nat
            BY DEF EventRecords
        <3> QED
            BY <1>3, <1>6, <3>1
    <2>2. events[n].flying + events[n].received <= events[n].posts
        BY <1>3 DEF Told
    <2>3. events'[n].flying + events'[n].received <= events'[n].posts
        BY <1>6, <2>1, <2>2
    <2> QED
        BY <1>3, <1>6, <2>3 DEF Told, Asked, TypeIsName
<1>8. events' \in Seq(EventRecords)
    <2>1. \A m \in DOMAIN events : events'[m] \in EventRecords
        BY <1>3, <1>4, <1>6
    <2>2. events' = [m \in DOMAIN events |-> events'[m]]
        BY <1>1
    <2> QED
        BY <1>3, <2>1, <2>2, SameLength
<1>9. EventsOK'
    <2>1. ASSUME NEW m \in DOMAIN events'
          PROVE  Told(events'[m])
        BY <1>2, <1>4, <1>7 DEF EventsOK
    <2> QED
        BY <1>8, <2>1 DEF EventsOK, Told
<1>10. \A t \in Handlers : n \notin owed[t].numbers
    BY <1>1, OwedEvents
<1>11. ASSUME NEW t \in Handlers
       PROVE  Owing(t)'
    <2>1. \A m \in owed[t].numbers : m \in DOMAIN events => m \in DOMAIN events' /\ events'[m] = events[m]
        BY <1>4, <1>10
    <2> QED
        BY <1>1, <1>2, <2>1, Undisturbed DEF OwedOK
<1>12. OwedOK'
    BY <1>1, <1>2, <1>11 DEF OwedOK
<1>13. Done'
    <2> SUFFICES ASSUME NEW m \in DOMAIN events, Dispatched(m)', ~events'[m].lost
                 PROVE  events'[m].posts = (IF Asked(events'[m]) THEN 1 ELSE 0)
        BY <1>4 DEF Done
    <2>1. Dispatched(m)
        BY <1>1 DEF Dispatched
    <2> QED
        BY <1>2, <1>4, <1>6, <2>1 DEF Done, Asked, TypeIsName
<1>14. PublishersOK'
    BY <1>1, <1>2 DEF PublishersOK
<1> QED
    BY <1>9, <1>12, <1>13, <1>14 DEF PublishingInv

(* What is cut short is lost; those who go on are not disturbed. *)
LEMMA CutShortKeeps ==
    ASSUME PublishingInv, NEW T \in SUBSET Handlers, NEW flying, CutShort(T, flying),
           \/ publishers' = publishers
           \/ T = Handlers /\ publishers' = NoPublishers
    PROVE  PublishingInv'
<1> DEFINE dropped == UNION {owed[t].numbers : t \in T}
           gone(n) == n \in dropped \/ (n \in flying /\ events[n].flying > 0)
<1>1. /\ events' = [n \in DOMAIN events |->
            IF gone(n) THEN [events[n] EXCEPT !.lost = TRUE, !.flying = 0] ELSE events[n]]
      /\ owed' = [t \in Handlers |-> IF t \in T THEN Nothing ELSE owed[t]]
    BY DEF CutShort
<1>2. PublishersOK /\ EventsOK /\ OwedOK /\ Done
    BY DEF PublishingInv
<1>3. events \in Seq(EventRecords) /\ \A n \in DOMAIN events : events[n] \in EventRecords /\ Told(events[n])
    BY <1>2 DEF EventsOK
<1>4. \A t \in Handlers \ T : owed'[t] = owed[t] /\ \A n \in owed[t].numbers : n \notin dropped
    BY <1>1, <1>2 DEF OwedOK
<1>5. \A t \in T : owed'[t] = Nothing /\ owed'[t].numbers = {}
    BY <1>1, NothingOwed
<1>6. \A n \in dropped : n \in DOMAIN events
    BY OwedEvents
<1>7. \A t \in Handlers \ T : \A n \in owed[t].numbers : ~gone(n)
    <2> SUFFICES ASSUME NEW t \in Handlers \ T, NEW n \in owed[t].numbers, gone(n)
                 PROVE  FALSE
        OBVIOUS
    <2>1. events[n].flying = 0
        BY OwedEvents
    <2> QED
        BY <1>4, <2>1
<1> HIDE DEF dropped
<1>8. ASSUME NEW n \in DOMAIN events
      PROVE  events'[n] \in EventRecords /\ Told(events'[n])
    <2>1. CASE gone(n)
        <3>1. events'[n] = Dropped(events[n])
            BY <1>1, <2>1 DEF Dropped
        <3>2. {events[n].flying, events[n].received, events[n].posts} \subseteq Nat
            BY <1>3 DEF EventRecords
        <3>3. /\ events'[n] \in EventRecords /\ events'[n].flying = 0
              /\ events'[n].aggregate = events[n].aggregate /\ events'[n].event = events[n].event
              /\ events'[n].wanted = events[n].wanted /\ events'[n].tried = events[n].tried
              /\ events'[n].posts = events[n].posts /\ events'[n].received = events[n].received
            BY <1>3, <3>1, DroppedEvent
        <3>4. events[n].flying + events[n].received <= events[n].posts
            BY <1>3 DEF Told
        <3>5. 0 + events[n].received <= events[n].posts
            BY <3>2, <3>4
        <3> QED
            BY <1>3, <3>3, <3>5 DEF Told, Asked, TypeIsName
    <2>2. CASE ~gone(n)
        BY <1>1, <1>3, <2>2
    <2> QED
        BY <2>1, <2>2
<1>9. events' \in Seq(EventRecords) /\ DOMAIN events' = DOMAIN events
    <2>1. events' = [n \in DOMAIN events |-> events'[n]]
        BY <1>1
    <2> QED
        BY <1>3, <1>8, <2>1, SameLength
<1>10. EventsOK'
    BY <1>8, <1>9 DEF EventsOK, Told
<1>11. PublishersOK'
    <2>1. CASE publishers' = publishers
        BY <1>2, <2>1 DEF PublishersOK
    <2>2. CASE publishers' = NoPublishers
        BY <2>2 DEF PublishersOK, NoPublishers
    <2> QED
        BY <2>1, <2>2
<1>12. ASSUME NEW t \in Handlers
       PROVE  Owing(t)'
    <2>1. CASE t \in T
        BY <1>5, <2>1 DEF Owing, Idle
    <2>2. CASE t \notin T
        <3>1. publishers' = publishers
            BY <2>2
        <3>2. \A n \in owed[t].numbers : n \in DOMAIN events => n \in DOMAIN events' /\ events'[n] = events[n]
            BY <1>1, <1>7, <1>9, <2>2
        <3> QED
            BY <1>2, <1>4, <2>2, <3>1, <3>2, Undisturbed DEF OwedOK
    <2> QED
        BY <2>1, <2>2
<1>13. OwedOK'
    <2>1. owed' \in [Handlers -> OwedRecords]
        BY <1>1, <1>2, NothingOwed DEF OwedOK
    <2>2. ASSUME NEW t \in Handlers, NEW u \in Handlers, NEW n \in owed'[t].numbers, n \in owed'[u].numbers
          PROVE  t = u
        BY <1>2, <1>4, <1>5, <2>2 DEF OwedOK
    <2> QED
        BY <1>12, <2>1, <2>2 DEF OwedOK
<1>14. Done'
    <2> SUFFICES ASSUME NEW n \in DOMAIN events, Dispatched(n)', ~events'[n].lost
                 PROVE  events'[n].posts = (IF Asked(events'[n]) THEN 1 ELSE 0)
        BY <1>9 DEF Done
    <2>1. ~gone(n)
        <3>1. gone(n) => events'[n] = [events[n] EXCEPT !.lost = TRUE, !.flying = 0]
            BY <1>1
        <3> QED
            BY <1>3, <3>1 DEF EventRecords
    <2>2. events'[n] = events[n]
        BY <1>1, <2>1
    <2>3. Dispatched(n)
        BY <1>4, <2>1 DEF Dispatched, dropped
    <2> QED
        BY <1>2, <2>2, <2>3 DEF Done
<1> QED
    BY <1>10, <1>11, <1>13, <1>14 DEF PublishingInv

(* Other publishers, while nobody owes anything. *)
LEMMA RegisterKeeps ==
    ASSUME PublishingInv, UNCHANGED <<events, owed>>, \A t \in Handlers : Idle(t), PublishersOK'
    PROVE  PublishingInv'
<1>1. EventsOK'
    BY DEF PublishingInv, EventsOK, Told
<1>2. OwedOK'
    BY DEF PublishingInv, OwedOK, Owing, Idle
<1>3. Done'
    BY DEF PublishingInv, Done, Dispatched
<1> QED
    BY <1>1, <1>2, <1>3 DEF PublishingInv

LEMMA UnchangedKeeps ==
    ASSUME PublishingInv, UNCHANGED publishing
    PROVE  PublishingInv'
<1>1. publishers' = publishers /\ events' = events /\ owed' = owed
    BY DEF publishing
<1>2. PublishersOK'
    BY <1>1 DEF PublishingInv, PublishersOK
<1>3. EventsOK'
    BY <1>1 DEF PublishingInv, EventsOK, Told
<1>4. OwedOK'
    <2>1. ASSUME NEW t \in Handlers
          PROVE  Owing(t)'
        BY <1>1, Undisturbed DEF PublishingInv, OwedOK
    <2> QED
        BY <1>1, <2>1 DEF PublishingInv, OwedOK
<1>5. Done'
    BY <1>1 DEF PublishingInv, Done, Dispatched
<1> QED
    BY <1>2, <1>3, <1>4, <1>5 DEF PublishingInv

-----------------------------------------------------------------------------
(* The run: what each phase of main() has established *)

Configured == {"stores", "commands", "initialize", "router", "documents", "mark", "bind", "listening"}
Started    == Configured \ {"stores", "commands"}

Types == {"in_memory", "postgres"}

BootOK ==
    /\ phase \in Phases
    /\ todo \in {<<>>, Tail(StartupCommands), StartupCommands}
    /\ boots \in Nat /\ requests \in Nat /\ faults \in Nat
    /\ IF phase = "down" THEN config = None ELSE config \in Configs
    /\ IF phase \in Configured
       THEN config.http # None /\ publishers = Partition(Load(config.http))
       ELSE publishers = NoPublishers
    /\ phase \in Started => ~CommandsPanic(config)
    /\ phase # "initialize" => todo = <<>>

(* The startup task dispatches while it initializes, the others serve. *)
TasksOK ==
    /\ phase # "listening" => \A t \in Handlers \ {Main} : Idle(t)
    /\ ~Idle(Main) =>
        /\ phase = "initialize" /\ todo # <<>> /\ owed[Main].aggregate = "server_config"
        /\ owed[Main].queries \in {<<"view">>, <<"view", "publisher">>, <<"publisher">>}
    /\ phase = "down" => \A n \in DOMAIN events : events[n].flying = 0

StoresOK ==
    /\ stores \in [Types -> [aggregate : ServerConfig, view : ServerConfig \union {None}]]
    /\ behind \subseteq Types /\ flawed \in BOOLEAN /\ renewed \in BOOLEAN
    /\ phase = "down" => ~renewed

Metadata(c) == [url |-> c.url, configuration |-> None]
Current(c)  == [url |-> c.url, configuration |-> Supported(c)]

(* How far this run has come with the view of its store. *)
ShownOK ==
    /\ phase \in Started /\ ~flawed =>
        /\ todo = StartupCommands /\ AtQuery(Main, "publisher") => Row = Metadata(config)
        /\ todo = Tail(StartupCommands) =>
            Row = (IF AtQuery(Main, "publisher") THEN Current(config) ELSE Metadata(config))
        /\ todo = <<>> => Row = Current(config)
    /\ renewed => phase \in Started /\ Row \in {Metadata(config), Current(config)}

Shows(row) == row # None /\ row.url # None

(* How far a view is from its aggregate. *)
AgreeOK ==
    /\ AtQuery(Main, "view") /\ todo = StartupCommands =>
        stores[config.event_store].aggregate = Metadata(config)
    /\ \A type \in Types \ behind :
        LET s == stores[type] IN
        Shows(s.view) =>
            IF AtQuery(Main, "view") /\ config.event_store = type
            THEN todo = Tail(StartupCommands) =>
                    s.aggregate = [s.view EXCEPT !.configuration = Supported(config)]
            ELSE s.view = s.aggregate

RunOK == BootOK /\ TasksOK /\ StoresOK /\ ShownOK /\ AgreeOK

-----------------------------------------------------------------------------
(* Facts about the constants of a run *)

LEMMA Commands ==
    /\ Head(StartupCommands) = "ServerMetadataInitialized"
    /\ Tail(StartupCommands) = <<"CredentialConfigurationAdded">>
    /\ Head(Tail(StartupCommands)) = "CredentialConfigurationAdded"
    /\ Tail(Tail(StartupCommands)) = <<>>
    /\ StartupCommands # <<>> /\ Tail(StartupCommands) # <<>>
    /\ Tail(StartupCommands) # StartupCommands
<1>1. StartupCommands = <<"ServerMetadataInitialized", "CredentialConfigurationAdded">>
    BY DEF StartupCommands
<1>2. Tail(StartupCommands) = <<"CredentialConfigurationAdded">>
    BY <1>1
<1>3. Len(StartupCommands) = 2 /\ Len(Tail(StartupCommands)) = 1
    BY <1>1, <1>2
<1> QED
    BY <1>1, <1>2, <1>3

LEMMA PhasesAre ==
    /\ DOMAIN After = {"secrets", "services", "stores", "router", "documents", "mark", "bind"}
    /\ Phases = {"down", "secrets", "services", "publishers", "stores", "commands", "initialize",
                 "router", "documents", "mark", "bind", "listening"}
    /\ \A p \in DOMAIN After :
        /\ After[p] \in Phases \ {"down", "initialize"}
        /\ After[p] \in Configured <=> p \in Configured
        /\ After[p] \in Started <=> p \in Started
<1>1. DOMAIN After = {"secrets", "services", "stores", "router", "documents", "mark", "bind"}
    BY DEF After
<1>2. Phases = {"down", "secrets", "services", "publishers", "stores", "commands", "initialize",
                "router", "documents", "mark", "bind", "listening"}
    BY <1>1 DEF Phases
<1>3. /\ After["secrets"] = "services" /\ After["services"] = "publishers" /\ After["stores"] = "commands"
      /\ After["router"] = "documents" /\ After["documents"] = "mark" /\ After["mark"] = "bind"
      /\ After["bind"] = "listening"
    BY DEF After
<1> QED
    BY <1>1, <1>2, <1>3 DEF Configured, Started

LEMMA ConfigOf ==
    ASSUME NEW c \in Configs
    PROVE  /\ c.event_store \in Types /\ c.url \in Urls \union {None} /\ c.http \in HttpConfig \union {None}
           /\ ~CommandsPanic(c) =>
                /\ c.url # None
                /\ Metadata(c) \in ServerConfig /\ Current(c) \in ServerConfig
                /\ Metadata(c).url = c.url /\ Metadata(c).configuration = None
                /\ Current(c).url = c.url /\ Current(c).configuration = Supported(c)
<1>1. c \in ApplicationConfiguration
    BY StartupConfigs
<1>2. /\ c.event_store \in Types /\ c.url \in Urls \union {None} /\ c.http \in HttpConfig \union {None}
      /\ c.credential_configurations \in Seq(Ids)
      /\ c.did_methods \in [SupportedDidMethod -> ToggleOptions]
      /\ c.signing_algorithms_supported \in [Algorithms -> ToggleOptions]
    BY <1>1 DEF ApplicationConfiguration, Types
<1>3. ASSUME ~CommandsPanic(c)
      PROVE  /\ c.url # None /\ Metadata(c) \in ServerConfig /\ Current(c) \in ServerConfig
    <2>1. c.url # None /\ Head(c.credential_configurations) \in Ids
        BY <1>2, <1>3 DEF CommandsPanic
    <2>2. /\ Enabled(c.did_methods) \subseteq SupportedDidMethod
          /\ Enabled(c.signing_algorithms_supported) \subseteq Algorithms
        BY <1>2 DEF Enabled
    <2>3. Supported(c) \in [id : Ids, methods : SUBSET SupportedDidMethod, algorithms : SUBSET Algorithms]
        BY <2>1, <2>2 DEF Supported
    <2> QED
        BY <1>2, <2>1, <2>3 DEF Metadata, Current, ServerConfig
<1> QED
    BY <1>2, <1>3 DEF Metadata, Current

(* The view of the server configuration, and then the event publishers. *)
LEMMA ServerChain ==
    ASSUME PublishersOK
    PROVE  Chain("server_config") \in {<<"view">>, <<"view", "publisher">>}
<1> DEFINE p == publishers["server_config"]
<1>1. p \in Seq(SUBSET Configurable["server_config"]) /\ Len(p) <= 1
    BY ServerEvents DEF PublishersOK
<1>2. Len(p) \in Nat /\ DOMAIN p = 1..Len(p)
    BY <1>1
<1>3. \A n \in Nat : n <= 1 => n = 0 \/ n = 1
    OBVIOUS
<1>4. Chain("server_config") = <<"view">> \o [i \in DOMAIN p |-> "publisher"]
    BY QueriesOf DEF Chain
<1>5. CASE Len(p) = 0
    <2>1. [i \in DOMAIN p |-> "publisher"] = <<>>
        BY <1>2, <1>5
    <2>2. <<"view">> \o <<>> = <<"view">>
        OBVIOUS
    <2> QED
        BY <1>4, <2>1, <2>2
<1>6. CASE Len(p) = 1
    <2>1. [i \in DOMAIN p |-> "publisher"] = <<"publisher">>
        BY <1>2, <1>6
    <2>2. <<"view">> \o <<"publisher">> = <<"view", "publisher">>
        BY TwoInOne, Zenon
    <2> QED
        BY <1>4, <2>1, <2>2
<1> QED
    BY <1>1, <1>2, <1>3, <1>5, <1>6

(* The startup task, one query on. *)
LEMMA MainAt ==
    ASSUME TasksOK, ~Idle(Main)
    PROVE  \/ AtQuery(Main, "view") /\ ~AtQuery(Main, "publisher")
           \/ AtQuery(Main, "publisher") /\ ~AtQuery(Main, "view") /\ owed[Main].queries = <<"publisher">>
<1>1. owed[Main].queries \in {<<"view">>, <<"view", "publisher">>, <<"publisher">>}
    BY DEF TasksOK
<1>2. \/ Head(owed[Main].queries) = "view"
      \/ Head(owed[Main].queries) = "publisher" /\ owed[Main].queries = <<"publisher">>
    BY <1>1
<1> QED
    BY <1>2 DEF AtQuery

LEMMA MainGoesOn ==
    ASSUME TasksOK, PublishingInv, ~Idle(Main), owed' = [owed EXCEPT ![Main] = Rest(Main)]
    PROVE  /\ \/ Idle(Main)'
              \/ /\ AtQuery(Main, "view") /\ AtQuery(Main, "publisher")' /\ ~Idle(Main)' /\ ~AtQuery(Main, "view")'
                 /\ owed'[Main].queries = <<"publisher">> /\ owed'[Main].aggregate = "server_config"
           /\ AtQuery(Main, "publisher") => Idle(Main)'
           /\ Idle(Main)' => ~AtQuery(Main, "view")' /\ ~AtQuery(Main, "publisher")'
<1>1. /\ owed[Main].queries \in {<<"view">>, <<"view", "publisher">>, <<"publisher">>}
      /\ owed[Main].aggregate = "server_config"
    BY DEF TasksOK
<1>2. /\ Len(owed[Main].queries) = 1 => owed'[Main] = Nothing
      /\ Len(owed[Main].queries) # 1 =>
            owed'[Main].aggregate = "server_config" /\ owed'[Main].queries = Tail(owed[Main].queries)
    BY <1>1, StartupMain, RestOwed
<1>3. Nothing.queries = <<>>
    BY DEF Nothing
<1>4. CASE Len(owed[Main].queries) = 1
    BY <1>2, <1>4 DEF Idle, AtQuery
<1>5. CASE Len(owed[Main].queries) # 1
    <2>1. owed[Main].queries = <<"view", "publisher">>
        BY <1>1, <1>5
    <2>2. owed'[Main].queries = <<"publisher">> /\ owed'[Main].aggregate = "server_config"
        BY <1>2, <1>5, <2>1
    <2>3. ~Idle(Main)' /\ Head(owed'[Main].queries) = "publisher"
        BY <1>3, <2>2 DEF Idle
    <2> QED
        BY <2>1, <2>2, <2>3 DEF AtQuery
<1> QED
    BY <1>4, <1>5

LEMMA PartitionOK ==
    ASSUME NEW http \in HttpConfig
    PROVE  LET p == Partition(Load(http)) IN
           /\ DOMAIN p = Aggregates
           /\ \A a \in Aggregates : p[a] \in Seq(SUBSET Configurable[a]) /\ Len(p[a]) <= 1
<1> SUFFICES ASSUME NEW a \in Aggregates
             PROVE  /\ Partition(Load(http))[a] \in Seq(SUBSET Configurable[a])
                    /\ Len(Partition(Load(http))[a]) <= 1
    BY DEF Partition
<1>1. Load(http)[a] = IF http.enabled /\ http.events[a] # {} THEN http.events[a] ELSE None
    BY DEF Load
<1>2. http.events[a] \in SUBSET Configurable[a]
    BY DEF HttpConfig
<1>3. Partition(Load(http))[a] = IF Load(http)[a] = None THEN <<>> ELSE <<Load(http)[a]>>
    BY DEF Partition
<1>4. CASE Load(http)[a] = None
    BY <1>3, <1>4
<1>5. CASE Load(http)[a] # None
    <2>1. PICK filter \in SUBSET Configurable[a] : filter = Load(http)[a]
        BY <1>1, <1>2, <1>5
    <2>2. Partition(Load(http))[a] = <<filter>>
        BY <1>3, <1>5, <2>1
    <2>3. <<filter>> \in Seq(SUBSET Configurable[a]) /\ Len(<<filter>>) = 1
        BY OneOf
    <2> QED
        BY <2>2, <2>3
<1> QED
    BY <1>4, <1>5

-----------------------------------------------------------------------------
(* Each action of Startup keeps the invariant *)

LEMMA AllIdle ==
    ASSUME TasksOK
    PROVE  /\ phase # "listening" /\ phase # "initialize" => \A t \in Handlers : Idle(t)
           /\ Idle(Main) => ~AtQuery(Main, "view") /\ ~AtQuery(Main, "publisher")
BY DEF TasksOK, AtQuery

(* What a run does aside from its startup task. *)
LEMMA AsideKeeps ==
    ASSUME RunOK, UNCHANGED <<publishers, phase, config, todo, stores, history>>,
           owed'[Main] = owed[Main], boots' \in Nat, requests' \in Nat, faults' \in Nat,
           \/ phase = "listening"
           \/ \A t \in Handlers : owed'[t] = owed[t],
           \/ phase # "down"
           \/ events' = events
    PROVE  RunOK'
<1>1. /\ publishers' = publishers /\ phase' = phase /\ config' = config /\ todo' = todo
      /\ stores' = stores /\ flawed' = flawed /\ renewed' = renewed /\ behind' = behind
    BY DEF history
<1>2. /\ Idle(Main)' <=> Idle(Main)
      /\ AtQuery(Main, "view")' <=> AtQuery(Main, "view")
      /\ AtQuery(Main, "publisher")' <=> AtQuery(Main, "publisher")
    BY DEF Idle, AtQuery
<1>3. BootOK'
    BY <1>1 DEF RunOK, BootOK
<1>4. TasksOK'
    <2>1. phase # "listening" => \A t \in Handlers \ {Main} : Idle(t)'
        BY DEF RunOK, TasksOK, Idle
    <2>2. phase = "down" => \A n \in DOMAIN events' : events'[n].flying = 0
        BY DEF RunOK, TasksOK
    <2> QED
        BY <1>1, <1>2, <2>1, <2>2 DEF RunOK, TasksOK
<1>5. StoresOK'
    BY <1>1 DEF RunOK, StoresOK
<1>6. ShownOK'
    BY <1>1, <1>2 DEF RunOK, ShownOK, Row
<1>7. AgreeOK'
    BY <1>1, <1>2 DEF RunOK, AgreeOK
<1> QED
    BY <1>3, <1>4, <1>5, <1>6, <1>7 DEF RunOK

(* A step of main() while nobody owes anything. *)
LEMMA BootKeeps ==
    ASSUME RunOK, Boot
    PROVE  RunOK'
<1>1. /\ phase = "down" /\ phase' = "secrets" /\ config' \in Configs /\ boots' = boots + 1
      /\ publishers' = publishers /\ events' = events /\ owed' = owed /\ todo' = todo /\ stores' = stores
      /\ flawed' = flawed /\ renewed' = renewed /\ behind' = behind /\ requests' = requests /\ faults' = faults
    BY DEF Boot, publishing, history
<1>2. (\A t \in Handlers : Idle(t)') /\ ~AtQuery(Main, "view") /\ ~AtQuery(Main, "view")'
    BY <1>1, AllIdle, StartupMain DEF RunOK, Idle, AtQuery
<1>3. BootOK'
    BY <1>1, PhasesAre DEF RunOK, BootOK, Configured, Started
<1>4. TasksOK'
    BY <1>1, <1>2, StartupMain DEF TasksOK
<1>5. StoresOK'
    BY <1>1 DEF RunOK, StoresOK
<1>6. ShownOK'
    BY <1>1 DEF RunOK, StoresOK, ShownOK, Started, Configured
<1>7. AgreeOK'
    BY <1>1, <1>2 DEF RunOK, AgreeOK
<1> QED
    BY <1>3, <1>4, <1>5, <1>6, <1>7 DEF RunOK

LEMMA PassKeeps ==
    ASSUME RunOK, Pass
    PROVE  RunOK'
<1>1. /\ phase \in DOMAIN After /\ phase' = After[phase]
      /\ publishers' = publishers /\ events' = events /\ owed' = owed /\ config' = config /\ todo' = todo
      /\ stores' = stores /\ flawed' = flawed /\ renewed' = renewed /\ behind' = behind
      /\ boots' = boots /\ requests' = requests /\ faults' = faults
    BY DEF Pass, publishing, history, counters
<1>2. /\ phase \notin {"down", "initialize", "listening"} /\ phase' \in Phases \ {"down", "initialize"}
      /\ phase' \in Configured <=> phase \in Configured
      /\ phase' \in Started <=> phase \in Started
    BY <1>1, PhasesAre
<1>3. (\A t \in Handlers : Idle(t)') /\ ~AtQuery(Main, "view") /\ ~AtQuery(Main, "publisher")
      /\ ~AtQuery(Main, "view")' /\ ~AtQuery(Main, "publisher")'
    BY <1>1, <1>2, AllIdle, StartupMain DEF RunOK, Idle, AtQuery
<1>4. BootOK'
    BY <1>1, <1>2 DEF RunOK, BootOK
<1>5. TasksOK'
    BY <1>1, <1>2, <1>3, StartupMain DEF TasksOK
<1>6. StoresOK'
    BY <1>1, <1>2 DEF RunOK, StoresOK
<1>7. ShownOK'
    BY <1>1, <1>2, <1>3 DEF RunOK, ShownOK, Row
<1>8. AgreeOK'
    BY <1>1, <1>3 DEF RunOK, AgreeOK
<1> QED
    BY <1>4, <1>5, <1>6, <1>7, <1>8 DEF RunOK

LEMMA LoadPublishersKeeps ==
    ASSUME PublishingInv, RunOK, LoadPublishers
    PROVE  PublishingInv' /\ RunOK'
<1>1. /\ phase = "publishers" /\ phase' = "stores" /\ publishers' = Partition(Load(config.http))
      /\ events' = events /\ owed' = owed /\ config' = config /\ todo' = todo
      /\ stores' = stores /\ flawed' = flawed /\ renewed' = renewed /\ behind' = behind
      /\ boots' = boots /\ requests' = requests /\ faults' = faults
    BY DEF LoadPublishers, history, counters
<1>2. config.http # None /\ config \in Configs
    BY <1>1 DEF LoadPublishers, Panics, RunOK, BootOK
<1>3. config.http \in HttpConfig
    BY <1>2, ConfigOf
<1>4. PublishersOK'
    BY <1>1, <1>3, PartitionOK DEF PublishersOK
<1>5. (\A t \in Handlers : Idle(t) /\ Idle(t)') /\ ~AtQuery(Main, "view") /\ ~AtQuery(Main, "view")'
    BY <1>1, AllIdle, StartupMain DEF RunOK, Idle, AtQuery
<1>6. PublishingInv'
    BY <1>1, <1>4, <1>5, RegisterKeeps
<1>7. BootOK'
    BY <1>1, <1>2, PhasesAre DEF RunOK, BootOK, Configured, Started
<1>8. TasksOK'
    BY <1>1, <1>5, StartupMain DEF TasksOK
<1>9. StoresOK'
    BY <1>1 DEF RunOK, StoresOK
<1>10. ShownOK'
    BY <1>1 DEF RunOK, ShownOK, Started, Configured
<1>11. AgreeOK'
    BY <1>1, <1>5 DEF RunOK, AgreeOK
<1> QED
    BY <1>6, <1>7, <1>8, <1>9, <1>10, <1>11 DEF RunOK

LEMMA PrepareCommandsKeeps ==
    ASSUME RunOK, PrepareCommands
    PROVE  RunOK'
<1>1. /\ phase = "commands" /\ phase' = "initialize" /\ todo' = StartupCommands
      /\ publishers' = publishers /\ events' = events /\ owed' = owed /\ config' = config
      /\ stores' = stores /\ flawed' = flawed /\ renewed' = renewed /\ behind' = behind
      /\ boots' = boots /\ requests' = requests /\ faults' = faults
    BY DEF PrepareCommands, publishing, history, counters
<1>2. ~CommandsPanic(config)
    BY <1>1 DEF PrepareCommands, Panics
<1>3. (\A t \in Handlers : Idle(t)') /\ ~AtQuery(Main, "view") /\ ~AtQuery(Main, "publisher")
      /\ ~AtQuery(Main, "view")' /\ ~AtQuery(Main, "publisher")'
    BY <1>1, AllIdle, StartupMain DEF RunOK, Idle, AtQuery
<1>4. BootOK'
    BY <1>1, <1>2, PhasesAre DEF RunOK, BootOK, Configured, Started
<1>5. TasksOK'
    BY <1>1, <1>3, StartupMain DEF TasksOK
<1>6. StoresOK'
    BY <1>1 DEF RunOK, StoresOK
<1>7. ShownOK'
    BY <1>1, <1>3, Commands DEF RunOK, ShownOK, Started, Configured
<1>8. AgreeOK'
    BY <1>1, <1>3 DEF RunOK, AgreeOK
<1> QED
    BY <1>4, <1>5, <1>6, <1>7, <1>8 DEF RunOK

LEMMA InitializedKeeps ==
    ASSUME RunOK, Initialized
    PROVE  RunOK'
<1>1. /\ phase = "initialize" /\ todo = <<>> /\ phase' = "router" /\ todo' = todo
      /\ publishers' = publishers /\ events' = events /\ owed' = owed /\ config' = config
      /\ stores' = stores /\ flawed' = flawed /\ renewed' = renewed /\ behind' = behind
      /\ boots' = boots /\ requests' = requests /\ faults' = faults
    BY DEF Initialized, publishing, history, counters
<1>2. (\A t \in Handlers : Idle(t)') /\ ~AtQuery(Main, "view") /\ ~AtQuery(Main, "publisher")
      /\ ~AtQuery(Main, "view")' /\ ~AtQuery(Main, "publisher")'
    BY <1>1 DEF RunOK, TasksOK, Idle, AtQuery
<1>3. BootOK'
    BY <1>1, PhasesAre DEF RunOK, BootOK, Configured, Started
<1>4. TasksOK'
    BY <1>1, <1>2, StartupMain DEF TasksOK
<1>5. StoresOK'
    BY <1>1 DEF RunOK, StoresOK
<1>6. ShownOK'
    BY <1>1, <1>2, Commands DEF RunOK, ShownOK, Started, Configured, Row
<1>7. AgreeOK'
    BY <1>1, <1>2 DEF RunOK, AgreeOK
<1> QED
    BY <1>3, <1>4, <1>5, <1>6, <1>7 DEF RunOK

LEMMA ExecuteKeeps ==
    ASSUME PublishingInv, RunOK, Execute
    PROVE  PublishingInv' /\ RunOK'
<1> DEFINE type == config.event_store
           e == Head(todo)
<1>1. /\ phase = "initialize" /\ todo # <<>> /\ Idle(Main)
      /\ CommitBatch(Main, config.http, "server_config", <<e>>)
      /\ stores' = [stores EXCEPT ![type].aggregate = ApplyServerConfig(@, e, config)]
      /\ phase' = phase /\ config' = config /\ todo' = todo
      /\ flawed' = flawed /\ renewed' = renewed /\ behind' = behind
      /\ boots' = boots /\ requests' = requests /\ faults' = faults
    BY DEF Execute, Ready, history, counters
<1>2. /\ config \in Configs /\ config.http # None /\ publishers = Partition(Load(config.http))
      /\ ~CommandsPanic(config)
    BY <1>1, PhasesAre DEF RunOK, BootOK, Configured, Started
<1>3. config.http \in HttpConfig /\ type \in Types /\ config.url \in Urls \union {None}
      /\ Metadata(config) \in ServerConfig /\ Current(config) \in ServerConfig
    BY <1>2, ConfigOf
<1>4. \/ todo = StartupCommands /\ e = "ServerMetadataInitialized"
      \/ todo = Tail(StartupCommands) /\ e = "CredentialConfigurationAdded" /\ todo # StartupCommands
    BY <1>1, Commands DEF RunOK, BootOK
<1>5. PublishingInv'
    <2>1. e \in DOMAIN EventTypes["server_config"]
        BY <1>4, ServerEvents
    <2>2. <<e>> \in Seq(DOMAIN EventTypes["server_config"])
        BY <2>1, OneOf
    <2> QED
        BY <1>1, <1>2, <1>3, <2>2, ServerEvents, StartupMain, CommitKeeps
<1>6. /\ owed'[Main].aggregate = "server_config"
      /\ owed'[Main].queries \in {<<"view">>, <<"view", "publisher">>}
      /\ \A t \in Handlers \ {Main} : owed'[t] = owed[t]
      /\ publishers' = publishers
    <2>1. owed \in [Handlers -> OwedRecords] /\ PublishersOK
        BY DEF PublishingInv, OwedOK
    <2>2. Chain("server_config") \in {<<"view">>, <<"view", "publisher">>}
        BY <2>1, ServerChain
    <2> QED
        BY <1>1, <2>1, <2>2, StartupMain DEF CommitBatch
<1>7. ~Idle(Main)' /\ AtQuery(Main, "view")' /\ ~AtQuery(Main, "publisher")'
    <2>1. owed'[Main].queries # <<>> /\ Head(owed'[Main].queries) = "view"
        BY <1>6
    <2> QED
        BY <2>1 DEF Idle, AtQuery, Nothing
<1>8. ~AtQuery(Main, "view") /\ ~AtQuery(Main, "publisher")
    BY <1>1 DEF AtQuery
<1>9. \A s \in Types : stores[s].aggregate \in ServerConfig /\ stores[s].view \in ServerConfig \union {None}
    BY DEF RunOK, StoresOK
<1>10. /\ stores' \in [Types -> [aggregate : ServerConfig, view : ServerConfig \union {None}]]
       /\ stores'[type].view = stores[type].view
       /\ stores'[type].aggregate = ApplyServerConfig(stores[type].aggregate, e, config)
       /\ \A s \in Types : s # type => stores'[s] = stores[s]
    <2>1. PICK a : a = ApplyServerConfig(stores[type].aggregate, e, config)
        OBVIOUS
    <2>2. a \in ServerConfig
        <3>1. CASE e = "ServerMetadataInitialized"
            BY <1>3, <2>1, <3>1 DEF ApplyServerConfig, Metadata
        <3>2. CASE e # "ServerMetadataInitialized"
            <4>1. Supported(config) \in [id : Ids, methods : SUBSET SupportedDidMethod, algorithms : SUBSET Algorithms]
                  \union {None}
                BY <1>3 DEF Current, ServerConfig
            <4>2. stores[type].aggregate \in ServerConfig
                BY <1>3, <1>9
            <4> QED
                BY <2>1, <3>2, <4>1, <4>2 DEF ApplyServerConfig, ServerConfig
        <3> QED
            BY <3>1, <3>2
    <2>3. stores' = [stores EXCEPT ![type] = [stores[type] EXCEPT !.aggregate = a]]
        BY <1>1, <2>1
    <2>4. stores \in [Types -> [aggregate : ServerConfig, view : ServerConfig \union {None}]]
        BY DEF RunOK, StoresOK
    <2> HIDE DEF type
    <2>5. stores'[type] = [stores[type] EXCEPT !.aggregate = a] /\ \A s \in Types : s # type => stores'[s] = stores[s]
        BY <1>3, <2>3, <2>4
    <2>6. stores'[type].view = stores[type].view /\ stores'[type].aggregate = a
          /\ stores'[type] \in [aggregate : ServerConfig, view : ServerConfig \union {None}]
        BY <1>3, <2>2, <2>4, <2>5
    <2>7. stores' \in [Types -> [aggregate : ServerConfig, view : ServerConfig \union {None}]]
        BY <2>3, <2>4, <2>5, <2>6
    <2> QED
        BY <2>1, <2>5, <2>6, <2>7
<1>11. Row' = Row
    BY <1>1, <1>10 DEF Row
<1>12. BootOK'
    BY <1>1, <1>6 DEF RunOK, BootOK
<1>13. TasksOK'
    <2>1. \A t \in Handlers \ {Main} : Idle(t)'
        BY <1>1, <1>6 DEF RunOK, TasksOK, Idle
    <2> QED
        BY <1>1, <1>6, <2>1 DEF TasksOK
<1>14. StoresOK'
    BY <1>1, <1>10 DEF RunOK, StoresOK
<1>15. ShownOK'
    BY <1>1, <1>7, <1>8, <1>11 DEF RunOK, ShownOK
<1>16. AgreeOK'
    <2>1. todo = StartupCommands => stores'[type].aggregate = Metadata(config)
        BY <1>4, <1>10 DEF ApplyServerConfig, Metadata
    <2>2. ASSUME NEW s \in Types \ behind, Shows(stores'[s].view), s # type
          PROVE  stores'[s].view = stores'[s].aggregate
        BY <1>8, <1>10, <2>2 DEF RunOK, AgreeOK
    <2>3. ASSUME type \notin behind, Shows(stores'[type].view), todo = Tail(StartupCommands)
          PROVE  stores'[type].aggregate = [stores'[type].view EXCEPT !.configuration = Supported(config)]
        <3>1. stores[type].view = stores[type].aggregate
            BY <1>3, <1>8, <1>10, <2>3 DEF RunOK, AgreeOK
        <3> QED
            BY <1>4, <1>10, <2>3, <3>1, Commands DEF ApplyServerConfig
    <2> QED
        BY <1>1, <1>7, <2>1, <2>2, <2>3 DEF AgreeOK
<1> QED
    BY <1>5, <1>12, <1>13, <1>14, <1>15, <1>16 DEF RunOK

LEMMA CommandFailsKeeps ==
    ASSUME RunOK, CommandFails
    PROVE  RunOK'
<1>1. /\ phase = "initialize" /\ todo # <<>> /\ Idle(Main) /\ todo' = Tail(todo) /\ flawed' = TRUE
      /\ publishers' = publishers /\ events' = events /\ owed' = owed /\ phase' = phase /\ config' = config
      /\ stores' = stores /\ renewed' = renewed /\ behind' = behind
      /\ boots' = boots /\ requests' = requests /\ faults' = faults + 1
    BY DEF CommandFails, Ready, Fault, publishing
<1>2. Idle(Main)' /\ ~AtQuery(Main, "view") /\ ~AtQuery(Main, "publisher")
      /\ ~AtQuery(Main, "view")' /\ ~AtQuery(Main, "publisher")'
    BY <1>1 DEF Idle, AtQuery
<1>3. BootOK'
    BY <1>1, Commands DEF RunOK, BootOK
<1>4. TasksOK'
    <2>1. \A t \in Handlers \ {Main} : Idle(t)'
        BY <1>1 DEF RunOK, TasksOK, Idle
    <2> QED
        BY <1>1, <1>2, <2>1 DEF TasksOK
<1>5. StoresOK'
    BY <1>1 DEF RunOK, StoresOK
<1>6. ShownOK'
    BY <1>1 DEF RunOK, ShownOK, Row
<1>7. AgreeOK'
    BY <1>1, <1>2 DEF RunOK, AgreeOK
<1> QED
    BY <1>3, <1>4, <1>5, <1>6, <1>7 DEF RunOK

(* The startup task runs a query: where it gets to. *)
LEMMA MainStep ==
    ASSUME PublishingInv, RunOK, RunQuery(Main) \/ Publish(Main), NextCommand,
           UNCHANGED <<phase, config>>, boots' \in Nat, requests' \in Nat, faults' \in Nat
    PROVE  /\ BootOK' /\ TasksOK' /\ phase = "initialize" /\ ~AtQuery(Main, "view")'
           /\ \/ todo = StartupCommands /\ Head(todo) = "ServerMetadataInitialized"
                 /\ \/ todo' = Tail(StartupCommands) /\ ~AtQuery(Main, "publisher")'
                    \/ todo' = StartupCommands
              \/ todo = Tail(StartupCommands) /\ Head(todo) = "CredentialConfigurationAdded"
                 /\ \/ todo' = <<>> /\ ~AtQuery(Main, "publisher")'
                    \/ todo' = Tail(StartupCommands) /\ AtQuery(Main, "publisher")'
           /\ AtQuery(Main, "publisher") => todo' = Tail(todo) /\ ~AtQuery(Main, "publisher")'
<1>1. ~Idle(Main) /\ owed' = [owed EXCEPT ![Main] = Rest(Main)] /\ publishers' = publishers
    BY DEF RunQuery, Publish, AtQuery
<1>2. /\ phase = "initialize" /\ todo # <<>> /\ phase' = phase /\ config' = config
    BY <1>1 DEF RunOK, TasksOK
<1>3. \/ todo = StartupCommands /\ Head(todo) = "ServerMetadataInitialized"
      \/ todo = Tail(StartupCommands) /\ Head(todo) = "CredentialConfigurationAdded"
    BY <1>2, Commands DEF RunOK, BootOK
<1>4. /\ \/ Idle(Main)' /\ ~AtQuery(Main, "publisher")'
         \/ /\ AtQuery(Main, "publisher")' /\ ~Idle(Main)'
            /\ owed'[Main].queries = <<"publisher">> /\ owed'[Main].aggregate = "server_config"
      /\ ~AtQuery(Main, "view")'
      /\ AtQuery(Main, "publisher") => Idle(Main)'
    BY <1>1, MainGoesOn DEF RunOK
<1>5. IF Idle(Main)' THEN todo' = Tail(todo) ELSE todo' = todo
    BY DEF NextCommand
<1>6. BootOK'
    BY <1>1, <1>2, <1>3, <1>5, Commands DEF RunOK, BootOK
<1>7. TasksOK'
    <2>1. \A t \in Handlers \ {Main} : Idle(t) /\ owed'[t] = owed[t]
        BY <1>1, <1>2 DEF RunOK, TasksOK, PublishingInv, OwedOK
    <2>2. \A t \in Handlers \ {Main} : Idle(t)'
        BY <2>1 DEF Idle
    <2>3. ~Idle(Main)' =>
            /\ phase' = "initialize" /\ todo' # <<>> /\ owed'[Main].aggregate = "server_config"
            /\ owed'[Main].queries \in {<<"view">>, <<"view", "publisher">>, <<"publisher">>}
        BY <1>2, <1>4, <1>5
    <2> QED
        BY <1>2, <2>2, <2>3 DEF TasksOK
<1> QED
    BY <1>2, <1>3, <1>4, <1>5, <1>6, <1>7, Commands

LEMMA ShowServerConfigKeeps ==
    ASSUME PublishingInv, RunOK, ShowServerConfig
    PROVE  PublishingInv' /\ RunOK'
<1> DEFINE type == config.event_store
           v == stores[type].view
           w == UpdateServerView(v, Head(todo), config)
           rowSet == ServerConfig \union {None}
<1>1. /\ AtQuery(Main, "view") /\ RunQuery(Main) /\ NextCommand
      /\ stores' = [stores EXCEPT ![type].view = UpdateServerView(@, Head(todo), config)]
      /\ renewed' = (renewed \/ Head(todo) = "ServerMetadataInitialized")
      /\ behind' = IF Head(todo) = "ServerMetadataInitialized" THEN behind \ {type} ELSE behind
      /\ phase' = phase /\ config' = config /\ flawed' = flawed
      /\ boots' = boots /\ requests' = requests /\ faults' = faults
    BY DEF ShowServerConfig, counters
<1>2. PublishingInv'
    BY <1>1, StartupMain, RunQueryKeeps
<1>3. boots' \in Nat /\ requests' \in Nat /\ faults' \in Nat
    BY <1>1 DEF RunOK, BootOK
<1>4. /\ BootOK' /\ TasksOK' /\ phase = "initialize" /\ ~AtQuery(Main, "view")'
      /\ \/ todo = StartupCommands /\ Head(todo) = "ServerMetadataInitialized"
            /\ \/ todo' = Tail(StartupCommands) /\ ~AtQuery(Main, "publisher")'
               \/ todo' = StartupCommands
         \/ todo = Tail(StartupCommands) /\ Head(todo) = "CredentialConfigurationAdded"
            /\ \/ todo' = <<>> /\ ~AtQuery(Main, "publisher")'
               \/ todo' = Tail(StartupCommands) /\ AtQuery(Main, "publisher")'
    BY <1>1, <1>3, MainStep
<1>5. config \in Configs /\ ~CommandsPanic(config) /\ phase \in Started /\ phase # "down"
    BY <1>4, PhasesAre DEF RunOK, BootOK, Configured, Started
<1>6. /\ type \in Types /\ config.url # None
      /\ Metadata(config) \in ServerConfig /\ Metadata(config).url = config.url /\ Metadata(config).configuration = None
      /\ Current(config) \in ServerConfig /\ Current(config).url = config.url
      /\ Current(config).configuration = Supported(config)
    BY <1>5, ConfigOf
<1>7. /\ stores \in [Types -> [aggregate : ServerConfig, view : rowSet]]
      /\ v \in rowSet /\ stores[type].aggregate \in ServerConfig
    BY <1>6 DEF RunOK, StoresOK
<1>8. NewServerConfig \in ServerConfig /\ NewServerConfig.url = None
    BY DEF NewServerConfig, ServerConfig
<1>9. ~AtQuery(Main, "publisher")
    BY <1>1 DEF AtQuery
<1> HIDE DEF type, v
<1>10. todo = StartupCommands => w = Metadata(config)
    BY <1>4, Commands DEF UpdateServerView, ApplyServerConfig, Metadata
<1>11. ASSUME todo = Tail(StartupCommands)
       PROVE  /\ Shows(v) => w = [v EXCEPT !.configuration = Supported(config)]
              /\ ~Shows(v) => w = IF v = None THEN NewServerConfig ELSE v
    BY <1>4, <1>8, <1>11, Commands DEF UpdateServerView, ApplyServerConfig, Shows
<1>12. ASSUME todo = Tail(StartupCommands), v \in {Metadata(config), Current(config)}, v # None
       PROVE  w = Current(config)
    <2>1. v \in ServerConfig /\ Shows(v) /\ v.url = config.url
        BY <1>6, <1>12 DEF Shows
    <2>2. w = [v EXCEPT !.configuration = Supported(config)]
        BY <1>11, <1>12, <2>1
    <2>3. [Metadata(config) EXCEPT !.configuration = Supported(config)] = Current(config)
        BY DEF Metadata, Current
    <2>4. [Current(config) EXCEPT !.configuration = Supported(config)] = Current(config)
        BY DEF Current
    <2> QED
        BY <1>12, <2>2, <2>3, <2>4
<1>13. w \in rowSet
    <2>1. CASE todo = StartupCommands
        BY <1>6, <1>10, <2>1
    <2>2. CASE todo = Tail(StartupCommands) /\ Shows(v)
        <3>1. v \in ServerConfig
            BY <1>7, <2>2 DEF Shows
        <3>2. Supported(config) \in [id : Ids, methods : SUBSET SupportedDidMethod, algorithms : SUBSET Algorithms]
              \union {None}
            BY <1>6 DEF Current, ServerConfig
        <3> QED
            BY <1>11, <2>2, <3>1, <3>2 DEF ServerConfig
    <2>3. CASE todo = Tail(StartupCommands) /\ ~Shows(v)
        BY <1>7, <1>8, <1>11, <2>3
    <2> QED
        BY <1>4, <2>1, <2>2, <2>3
<1>14. /\ stores' \in [Types -> [aggregate : ServerConfig, view : rowSet]]
       /\ stores'[type].view = w /\ stores'[type].aggregate = stores[type].aggregate
       /\ \A s \in Types : s # type => stores'[s] = stores[s]
    <2>1. stores' = [stores EXCEPT ![type] = [stores[type] EXCEPT !.view = w]]
        BY <1>1 DEF v
    <2> HIDE DEF w
    <2>2. stores'[type] = [stores[type] EXCEPT !.view = w] /\ \A s \in Types : s # type => stores'[s] = stores[s]
        BY <1>6, <1>7, <2>1
    <2>3. stores'[type].view = w /\ stores'[type].aggregate = stores[type].aggregate
          /\ stores'[type] \in [aggregate : ServerConfig, view : rowSet]
        BY <1>6, <1>7, <1>13, <2>2
    <2>4. stores' \in [Types -> [aggregate : ServerConfig, view : rowSet]]
        BY <1>7, <2>1, <2>2, <2>3
    <2> QED
        BY <2>2, <2>3, <2>4
<1> HIDE DEF w
<1>15. Row = v /\ Row' = w
    BY <1>1, <1>14 DEF Row, v, type
<1>16. StoresOK'
    <2>1. renewed' \in BOOLEAN /\ behind' \subseteq Types /\ flawed' \in BOOLEAN
        BY <1>1 DEF RunOK, StoresOK
    <2> QED
        BY <1>1, <1>5, <1>14, <2>1 DEF StoresOK
<1>17. ShownOK'
    <2>1. CASE todo = StartupCommands
        BY <1>1, <1>4, <1>5, <1>10, <1>15, <2>1, Commands DEF ShownOK
    <2>2. CASE todo = Tail(StartupCommands)
        <3>1. ~flawed => v = Metadata(config)
            BY <1>5, <1>9, <1>15, <2>2 DEF RunOK, ShownOK
        <3>2. renewed => v \in {Metadata(config), Current(config)}
            BY <1>15 DEF RunOK, ShownOK
        <3>3. None \notin {Metadata(config), Current(config)}
            BY <1>6, NoneIsNoServerConfig
        <3> QED
            BY <1>1, <1>4, <1>5, <1>12, <1>15, <2>2, <3>1, <3>2, <3>3, Commands DEF ShownOK
    <2> QED
        BY <1>4, <2>1, <2>2
<1>18. AgreeOK'
    <2>1. ASSUME NEW s \in Types \ behind', Shows(stores'[s].view), s # type
          PROVE  stores'[s].view = stores'[s].aggregate
        BY <1>1, <1>14, <2>1 DEF RunOK, AgreeOK, type
    <2>2. ASSUME type \notin behind', Shows(w)
          PROVE  w = stores'[type].aggregate
        <3>1. CASE todo = StartupCommands
            BY <1>1, <1>10, <1>14, <3>1 DEF RunOK, AgreeOK, type
        <3>2. CASE todo = Tail(StartupCommands)
            <4>1. type \notin behind
                BY <1>1, <1>4, <2>2, <3>2, Commands
            <4>2. Shows(v)
                BY <1>8, <1>11, <2>2, <3>2 DEF Shows
            <4>3. stores[type].aggregate = [v EXCEPT !.configuration = Supported(config)]
                BY <1>1, <1>6, <3>2, <4>1, <4>2 DEF RunOK, AgreeOK, type, v
            <4> QED
                BY <1>11, <1>14, <3>2, <4>2, <4>3
        <3> QED
            BY <1>4, <3>1, <3>2
    <2> QED
        BY <1>4, <1>14, <2>1, <2>2 DEF AgreeOK
<1> QED
    BY <1>2, <1>4, <1>16, <1>17, <1>18 DEF RunOK

LEMMA ShowFailsKeeps ==
    ASSUME PublishingInv, RunOK, ShowFails
    PROVE  PublishingInv' /\ RunOK'
<1>1. /\ AtQuery(Main, "view") /\ RunQuery(Main) /\ NextCommand
      /\ config.event_store = "postgres" /\ flawed' = TRUE /\ behind' = behind \union {"postgres"}
      /\ phase' = phase /\ config' = config /\ stores' = stores /\ renewed' = renewed
      /\ boots' = boots /\ requests' = requests /\ faults' = faults + 1
    BY DEF ShowFails, Fault
<1>2. PublishingInv'
    BY <1>1, StartupMain, RunQueryKeeps
<1>3. boots' \in Nat /\ requests' \in Nat /\ faults' \in Nat
    BY <1>1 DEF RunOK, BootOK
<1>4. BootOK' /\ TasksOK' /\ ~AtQuery(Main, "view")'
    BY <1>1, <1>3, MainStep
<1>5. StoresOK'
    BY <1>1 DEF RunOK, StoresOK, Types
<1>6. ShownOK'
    BY <1>1 DEF RunOK, ShownOK, Row
<1>7. AgreeOK'
    BY <1>1, <1>4 DEF RunOK, AgreeOK
<1> QED
    BY <1>2, <1>4, <1>5, <1>6, <1>7 DEF RunOK

LEMMA AnnounceKeeps ==
    ASSUME PublishingInv, RunOK, Announce
    PROVE  PublishingInv' /\ RunOK'
<1>1. /\ AtQuery(Main, "publisher") /\ Publish(Main) /\ NextCommand
      /\ phase' = phase /\ config' = config /\ stores' = stores
      /\ flawed' = flawed /\ renewed' = renewed /\ behind' = behind
      /\ boots' = boots /\ requests' = requests /\ faults' = faults
    BY DEF Announce, Publish, history, counters
<1>2. PublishingInv'
    BY <1>1, StartupMain, PublishKeeps
<1>3. boots' \in Nat /\ requests' \in Nat /\ faults' \in Nat
    BY <1>1 DEF RunOK, BootOK
<1>4. /\ BootOK' /\ TasksOK' /\ phase = "initialize" /\ ~AtQuery(Main, "view")' /\ ~AtQuery(Main, "publisher")'
      /\ todo' = Tail(todo) /\ todo \in {StartupCommands, Tail(StartupCommands)}
    BY <1>1, <1>3, MainStep
<1>5. ~AtQuery(Main, "view")
    BY <1>1 DEF AtQuery
<1>6. StoresOK'
    BY <1>1 DEF RunOK, StoresOK
<1>7. ShownOK'
    <2>1. Row' = Row
        BY <1>1 DEF Row
    <2> QED
        BY <1>1, <1>4, <2>1, Commands DEF RunOK, ShownOK
<1>8. AgreeOK'
    BY <1>1, <1>4, <1>5 DEF RunOK, AgreeOK
<1> QED
    BY <1>2, <1>4, <1>6, <1>7, <1>8 DEF RunOK

LEMMA EndKeeps ==
    ASSUME PublishingInv, RunOK, End, faults' \in Nat
    PROVE  PublishingInv' /\ RunOK'
<1>1. /\ CutShort(Handlers, DOMAIN events) /\ publishers' = NoPublishers
      /\ phase' = "down" /\ config' = None /\ todo' = <<>>
      /\ stores' = [stores EXCEPT !["in_memory"] = EmptyStore]
      /\ flawed' = FALSE /\ renewed' = FALSE
      /\ behind' = (behind \ {"in_memory"}) \union
            (IF AtQuery(Main, "view") THEN {config.event_store} \ {"in_memory"} ELSE {})
      /\ boots' = boots /\ requests' = requests
    BY DEF End
<1>2. PublishingInv'
    BY <1>1, CutShortKeeps
<1>3. \A t \in Handlers : Idle(t)'
    BY <1>1 DEF CutShort, Idle
<1>4. ~AtQuery(Main, "view")' /\ ~AtQuery(Main, "publisher")'
    BY <1>3, StartupMain DEF AtQuery
<1>5. BootOK'
    BY <1>1, PhasesAre DEF RunOK, BootOK, Configured, Started
<1>6. ASSUME NEW n \in DOMAIN events'
      PROVE  events'[n].flying = 0
    <2> DEFINE dropped == UNION {owed[t].numbers : t \in Handlers}
               gone(m) == m \in dropped \/ (m \in DOMAIN events /\ events[m].flying > 0)
    <2>0. events' = [m \in DOMAIN events |->
            IF gone(m) THEN [events[m] EXCEPT !.lost = TRUE, !.flying = 0] ELSE events[m]]
        BY <1>1 DEF CutShort
    <2> HIDE DEF gone
    <2>1. n \in DOMAIN events /\ events[n] \in EventRecords
        <3>1. n \in DOMAIN events
            BY <2>0
        <3> QED
            BY <3>1 DEF PublishingInv, EventsOK
    <2>2. events[n].flying \in Nat
        BY <2>1 DEF EventRecords
    <2>3. \/ events'[n] = Dropped(events[n])
          \/ events'[n] = events[n] /\ ~(events[n].flying > 0)
        <3>1. events'[n] = IF gone(n) THEN [events[n] EXCEPT !.lost = TRUE, !.flying = 0] ELSE events[n]
            BY <2>0, <2>1
        <3>2. ~gone(n) => ~(events[n].flying > 0)
            BY <2>1 DEF gone
        <3> QED
            BY <3>1, <3>2 DEF Dropped
    <2>4. CASE events'[n] = Dropped(events[n])
        BY <2>1, <2>4, DroppedEvent
    <2>5. CASE events'[n] = events[n] /\ ~(events[n].flying > 0)
        BY <2>2, <2>5
    <2> QED
        BY <2>3, <2>4, <2>5
<1>7. TasksOK'
    BY <1>1, <1>3, <1>6, StartupMain DEF TasksOK
<1>8. EmptyStore \in [aggregate : ServerConfig, view : ServerConfig \union {None}] /\ EmptyStore.view = None
    BY DEF EmptyStore, NewServerConfig, ServerConfig
<1>9. /\ stores' \in [Types -> [aggregate : ServerConfig, view : ServerConfig \union {None}]]
      /\ stores'["in_memory"].view = None /\ stores'["postgres"] = stores["postgres"]
    BY <1>1, <1>8 DEF RunOK, StoresOK, Types
<1>10. StoresOK'
    <2>1. AtQuery(Main, "view") => config.event_store \in Types
        <3>1. AtQuery(Main, "view") => phase = "initialize"
            BY DEF AtQuery, RunOK, TasksOK
        <3>2. AtQuery(Main, "view") => config \in Configs
            BY <3>1 DEF RunOK, BootOK
        <3> QED
            BY <3>2, ConfigOf
    <2> QED
        BY <1>1, <1>9, <2>1 DEF RunOK, StoresOK
<1>11. ShownOK'
    BY <1>1 DEF ShownOK, Started, Configured
<1>12. AgreeOK'
    <2>1. ASSUME NEW type \in Types \ behind', Shows(stores'[type].view)
          PROVE  stores'[type].view = stores'[type].aggregate
        <3>1. type = "postgres"
            BY <1>9, <2>1 DEF Types, Shows
        <3>2. type \notin behind /\ ~(AtQuery(Main, "view") /\ config.event_store = type)
            BY <1>1, <2>1, <3>1
        <3> QED
            BY <1>9, <2>1, <3>1, <3>2 DEF RunOK, AgreeOK
    <2> QED
        BY <1>4, <2>1 DEF AgreeOK
<1> QED
    BY <1>2, <1>5, <1>7, <1>10, <1>11, <1>12 DEF RunOK

(* While the server listens, a request handler commits a batch. *)
LEMMA ServeKeeps ==
    ASSUME PublishingInv, RunOK, NEW t \in Handlers, Serve(t)
    PROVE  PublishingInv' /\ RunOK'
<1>1. PICK b \in Batches : CommitBatch(t, config.http, b.aggregate, b.events)
    BY DEF Serve
<1>2. /\ phase = "listening" /\ t # Main /\ requests' = requests + 1
      /\ phase' = phase /\ config' = config /\ todo' = todo /\ stores' = stores
      /\ UNCHANGED history /\ boots' = boots /\ faults' = faults
    BY DEF Serve
<1>3. config \in Configs /\ config.http # None /\ publishers = Partition(Load(config.http))
    BY <1>2 DEF RunOK, BootOK, Configured
<1>4. config.http \in HttpConfig /\ b.aggregate \in Aggregates /\ b.events \in Seq(DOMAIN EventTypes[b.aggregate])
    BY <1>3, ConfigOf, StartupBatches
<1>5. PublishingInv'
    BY <1>1, <1>3, <1>4, CommitKeeps
<1>6. publishers' = publishers /\ owed'[Main] = owed[Main]
    BY <1>1, <1>2, StartupMain DEF CommitBatch, PublishingInv, OwedOK
<1>7. RunOK'
    <2>1. boots' \in Nat /\ requests' \in Nat /\ faults' \in Nat
        BY <1>2 DEF RunOK, BootOK
    <2> QED
        BY <1>2, <1>6, <2>1, AsideKeeps
<1> QED
    BY <1>5, <1>7

LEMMA DispatchKeeps ==
    ASSUME PublishingInv, RunOK, NEW t \in Handlers, Dispatch(t)
    PROVE  PublishingInv' /\ RunOK'
<1>1. /\ t # Main
      /\ RunQuery(t) \/ Publish(t)
      /\ phase' = phase /\ config' = config /\ todo' = todo /\ stores' = stores
      /\ UNCHANGED history /\ boots' = boots /\ requests' = requests /\ faults' = faults
    BY DEF Dispatch, counters
<1>2. PublishingInv'
    BY <1>1, RunQueryKeeps, PublishKeeps
<1>3. ~Idle(t) /\ publishers' = publishers /\ owed' = [owed EXCEPT ![t] = Rest(t)]
    BY <1>1 DEF RunQuery, Publish, AtQuery
<1>4. phase = "listening" /\ owed'[Main] = owed[Main]
    <2>1. phase = "listening"
        BY <1>1, <1>3 DEF RunOK, TasksOK
    <2>2. owed \in [Handlers -> OwedRecords]
        BY DEF PublishingInv, OwedOK
    <2> QED
        BY <1>1, <1>3, <2>1, <2>2, StartupMain
<1>5. RunOK'
    <2>1. boots' \in Nat /\ requests' \in Nat /\ faults' \in Nat
        BY <1>1 DEF RunOK, BootOK
    <2> QED
        BY <1>1, <1>3, <1>4, <2>1, AsideKeeps
<1> QED
    BY <1>2, <1>5

LEMMA PostKeeps ==
    ASSUME PublishingInv, RunOK, NEW n \in DOMAIN events, Receive(n) \/ PostFails(n)
    PROVE  PublishingInv' /\ RunOK'
<1>1. /\ Deliver(n) \/ SendFails(n)
      /\ phase' = phase /\ config' = config /\ todo' = todo /\ stores' = stores
      /\ UNCHANGED history /\ boots' = boots /\ requests' = requests
      /\ faults' = faults \/ faults' = faults + 1
    BY DEF Receive, PostFails, Fault, counters
<1>2. PublishingInv'
    BY <1>1, PostEndsKeeps
<1>3. events[n].flying > 0 /\ publishers' = publishers /\ owed' = owed
    BY <1>1 DEF Deliver, SendFails
<1>4. phase # "down"
    <2>1. phase = "down" => events[n].flying = 0
        BY DEF RunOK, TasksOK
    <2> QED
        BY <1>3, <2>1
<1>5. RunOK'
    <2>1. boots' \in Nat /\ requests' \in Nat /\ faults' \in Nat
        BY <1>1 DEF RunOK, BootOK
    <2> QED
        BY <1>1, <1>3, <1>4, <2>1, AsideKeeps
<1> QED
    BY <1>2, <1>5

LEMMA CancelKeeps ==
    ASSUME PublishingInv, RunOK, NEW t \in Handlers, Cancel(t)
    PROVE  PublishingInv' /\ RunOK'
<1>1. /\ t # Main /\ ~Idle(t) /\ CutShort({t}, {}) /\ publishers' = publishers
      /\ phase' = phase /\ config' = config /\ todo' = todo /\ stores' = stores
      /\ UNCHANGED history /\ boots' = boots /\ requests' = requests /\ faults' = faults + 1
    BY DEF Cancel, Fault
<1>2. PublishingInv'
    BY <1>1, CutShortKeeps
<1>3. phase = "listening" /\ owed'[Main] = owed[Main]
    BY <1>1, StartupMain DEF RunOK, TasksOK, CutShort
<1>4. RunOK'
    <2>1. boots' \in Nat /\ requests' \in Nat /\ faults' \in Nat
        BY <1>1 DEF RunOK, BootOK
    <2> QED
        BY <1>1, <1>3, <2>1, AsideKeeps
<1> QED
    BY <1>2, <1>4

LEMMA StutterKeeps ==
    ASSUME PublishingInv, RunOK, UNCHANGED vars
    PROVE  PublishingInv' /\ RunOK'
<1>1. /\ UNCHANGED publishing /\ phase' = phase /\ config' = config /\ todo' = todo /\ stores' = stores
      /\ UNCHANGED history /\ boots' = boots /\ requests' = requests /\ faults' = faults
      /\ publishers' = publishers /\ owed' = owed /\ events' = events
    BY DEF vars, publishing, counters
<1>2. PublishingInv'
    BY <1>1, UnchangedKeeps
<1>3. RunOK'
    <2>1. boots' \in Nat /\ requests' \in Nat /\ faults' \in Nat
        BY <1>1 DEF RunOK, BootOK
    <2> QED
        BY <1>1, <2>1, AsideKeeps
<1> QED
    BY <1>2, <1>3

-----------------------------------------------------------------------------
(* The invariant *)

LEMMA RunInit == Init => PublishingInv /\ RunOK
<1> SUFFICES ASSUME Init PROVE PublishingInv /\ RunOK
    OBVIOUS
<1>1. /\ publishers = NoPublishers /\ events = <<>> /\ owed = [t \in Handlers |-> Nothing]
      /\ phase = "down" /\ config = None /\ todo = <<>> /\ stores = [type \in Types |-> EmptyStore]
      /\ flawed = FALSE /\ renewed = FALSE /\ behind = {} /\ boots = 0 /\ requests = 0 /\ faults = 0
    BY DEF Init, Types
<1>2. \A t \in Handlers : Idle(t) /\ owed[t].numbers = {}
    BY <1>1, NothingOwed DEF Idle
<1>3. PublishersOK
    BY <1>1 DEF PublishersOK, NoPublishers
<1>4. DOMAIN events = {}
    BY <1>1
<1>5. EventsOK
    BY <1>1, <1>4 DEF EventsOK
<1>6. OwedOK
    BY <1>1, <1>2, NothingOwed DEF OwedOK, Owing
<1>7. Done
    BY <1>4 DEF Done
<1>8. ~AtQuery(Main, "view") /\ ~AtQuery(Main, "publisher")
    BY <1>2, StartupMain DEF AtQuery
<1>9. BootOK
    BY <1>1, PhasesAre DEF BootOK, Configured, Started
<1>10. TasksOK
    BY <1>1, <1>2, <1>4, StartupMain DEF TasksOK
<1>11. EmptyStore \in [aggregate : ServerConfig, view : ServerConfig \union {None}] /\ EmptyStore.view = None
    BY DEF EmptyStore, NewServerConfig, ServerConfig
<1>12. StoresOK
    BY <1>1, <1>11 DEF StoresOK
<1>13. ShownOK
    BY <1>1 DEF ShownOK, Started, Configured
<1>14. AgreeOK
    BY <1>1, <1>8, <1>11 DEF AgreeOK, Shows
<1> QED
    BY <1>3, <1>5, <1>6, <1>7, <1>9, <1>10, <1>12, <1>13, <1>14 DEF PublishingInv, RunOK

LEMMA RunNext == PublishingInv /\ RunOK /\ [Next]_vars => PublishingInv' /\ RunOK'
<1> SUFFICES ASSUME PublishingInv, RunOK, [Next]_vars PROVE PublishingInv' /\ RunOK'
    OBVIOUS
<1>1. ASSUME UNCHANGED publishing, RunOK'
      PROVE  PublishingInv' /\ RunOK'
    BY <1>1, UnchangedKeeps
<1>2. CASE Boot
    BY <1>1, <1>2, BootKeeps DEF Boot
<1>3. CASE Pass
    BY <1>1, <1>3, PassKeeps DEF Pass
<1>4. CASE LoadPublishers
    BY <1>4, LoadPublishersKeeps
<1>5. CASE PrepareCommands
    BY <1>1, <1>5, PrepareCommandsKeeps DEF PrepareCommands
<1>6. CASE Execute
    BY <1>6, ExecuteKeeps
<1>7. CASE ShowServerConfig
    BY <1>7, ShowServerConfigKeeps
<1>8. CASE Announce
    BY <1>8, AnnounceKeeps
<1>9. CASE Initialized
    BY <1>1, <1>9, InitializedKeeps DEF Initialized
<1>10. CASE Panic
    <2>1. faults' \in Nat
        BY <1>10 DEF Panic, RunOK, BootOK
    <2> QED
        BY <1>10, <2>1, EndKeeps DEF Panic
<1>11. CASE CommandFails
    BY <1>1, <1>11, CommandFailsKeeps DEF CommandFails
<1>12. CASE ShowFails
    BY <1>12, ShowFailsKeeps
<1>13. CASE Crash
    <2>1. faults' \in Nat
        BY <1>13 DEF Crash, Fault, RunOK, BootOK
    <2> QED
        BY <1>13, <2>1, EndKeeps DEF Crash
<1>14. CASE \E t \in Handlers : Serve(t) \/ Dispatch(t) \/ Cancel(t)
    BY <1>14, ServeKeeps, DispatchKeeps, CancelKeeps
<1>15. CASE \E n \in DOMAIN events : Receive(n) \/ PostFails(n)
    BY <1>15, PostKeeps
<1>16. CASE UNCHANGED vars
    BY <1>16, StutterKeeps
<1> QED
    BY <1>2, <1>3, <1>4, <1>5, <1>6, <1>7, <1>8, <1>9, <1>10, <1>11, <1>12, <1>13, <1>14, <1>15, <1>16
    DEF Next, Proceed

(* The strengthened invariant of Startup. *)
LEMMA RunInvariant == Spec => [](PublishingInv /\ RunOK)
BY RunInit, RunNext, PTL DEF Spec

-----------------------------------------------------------------------------
(* What it implies *)

(* The target is sent nothing but what the configuration of the run that   *)
(* committed an event asks for, and nothing twice; an event that is asked  *)
(* for by the name that is its event_type has been posted once its         *)
(* dispatch is over, unless it is lost: whatever the configurations of the *)
(* runs, wherever they end.                                                *)
THEOREM PostsAsAsked == Spec => []PostedAsConfigured
<1>1. PublishingInv => PostedAsConfigured
    <2> SUFFICES ASSUME PublishingInv, NEW n \in DOMAIN events
                 PROVE  /\ events[n].posts <= (IF events[n].wanted THEN 1 ELSE 0)
                        /\ events[n].flying + events[n].received <= events[n].posts
                        /\ Dispatched(n) /\ ~events[n].lost /\ Asked(events[n]) => events[n].posts = 1
        BY DEF PostedAsConfigured, Asked
    <2>1. Told(events[n]) /\ events[n] \in EventRecords
        BY DEF PublishingInv, EventsOK
    <2>2. events[n].posts <= (IF events[n].wanted THEN 1 ELSE 0)
        BY <2>1 DEF Told, Asked, EventRecords
    <2> QED
        BY <2>1, <2>2 DEF PublishingInv, Done, Told
<1> QED
    BY <1>1, RunInvariant, PTL

(* Who is told of an event finds its effect in the view, the list and the  *)
(* lookups of its aggregate, or their update has failed.                   *)
THEOREM PostsComeLast == Spec => []PostedLast
<1>1. PublishingInv => PostedLast
    BY DEF PublishingInv, EventsOK, EventRecords, Told, PostedLast
<1> QED
    BY <1>1, RunInvariant, PTL

(* Every variable keeps its type; a process that is down holds nothing.    *)
THEOREM TypeCorrect == Spec => []TypeOK
<1>1. ASSUME PublishingInv, RunOK
      PROVE  TypeOK
    <2>1. ASSUME NEW n \in DOMAIN events
          PROVE  /\ events[n].event \in DOMAIN EventTypes[events[n].aggregate]
                 /\ events[n].tried \subseteq Range(Queries(events[n].aggregate))
                 /\ {events[n].posts, events[n].flying, events[n].received} \subseteq Nat
                 /\ {events[n].wanted, events[n].lost} \subseteq BOOLEAN
        <3>1. events[n] \in EventRecords /\ Told(events[n])
            BY <1>1 DEF PublishingInv, EventsOK
        <3>2. {events[n].posts, events[n].flying, events[n].received} \subseteq Nat
            BY <3>1 DEF EventRecords
        <3>3. {events[n].wanted, events[n].lost} \subseteq BOOLEAN
            BY <3>1 DEF EventRecords
        <3> QED
            BY <3>1, <3>2, <3>3 DEF Told
    <2>2. ASSUME NEW t \in Handlers, ~Idle(t)
          PROVE  /\ owed[t].numbers \subseteq DOMAIN events
                 /\ \A n \in owed[t].numbers : events[n].aggregate = owed[t].aggregate
                 /\ owed[t].queries # <<>>
        BY <1>1, <2>2 DEF PublishingInv, OwedOK, Owing, Due, Chained
    <2>3. PublishingTypeOK
        BY <1>1, <2>1, <2>2 DEF PublishingTypeOK, PublishingInv, PublishersOK
    <2>4. phase \in Phases /\ config \in Configs \union {None}
        BY <1>1 DEF RunOK, BootOK
    <2>5. DOMAIN stores = Types /\ \A type \in Types :
            stores[type].aggregate \in ServerConfig /\ stores[type].view \in ServerConfig \union {None}
        BY <1>1 DEF RunOK, StoresOK
    <2>6. /\ todo \in {<<>>, Tail(StartupCommands), StartupCommands}
          /\ behind \subseteq Types /\ {flawed, renewed} \subseteq BOOLEAN /\ {boots, requests, faults} \subseteq Nat
        BY <1>1 DEF RunOK, BootOK, StoresOK
    <2>7. ASSUME phase = "down"
          PROVE  /\ config = None /\ publishers = NoPublishers
                 /\ \A t \in Handlers : Idle(t)
                 /\ \A n \in DOMAIN events : events[n].flying = 0
        <3>1. \A t \in Handlers : Idle(t)
            BY <1>1, <2>7, AllIdle DEF RunOK
        <3> QED
            BY <1>1, <2>7, <3>1 DEF RunOK, BootOK, TasksOK, Configured
    <2> QED
        BY <2>3, <2>4, <2>5, <2>6, <2>7 DEF TypeOK
<1> QED
    BY <1>1, RunInvariant, PTL

(* While the server listens, its documents show the URL and the credential *)
(* configuration of this run, whatever earlier runs left in the store and  *)
(* wherever they were cut short, unless a startup command or the update of *)
(* its view failed.                                                        *)
THEOREM ServesCurrent == Spec => []ServesCurrentConfig
<1>1. ASSUME RunOK, phase = "listening", ~flawed
      PROVE  /\ OpenidCredentialIssuer(Row) =
                    [status |-> 200, body |-> [url |-> config.url, configuration |-> Supported(config)]]
             /\ OauthAuthorizationServer(Row) = [status |-> 200, issuer |-> config.url]
    <2>1. phase \in Started /\ todo = <<>> /\ config \in Configs /\ ~CommandsPanic(config)
        BY <1>1 DEF RunOK, BootOK, Started, Configured
    <2>2. Row = Current(config)
        BY <1>1, <2>1 DEF RunOK, ShownOK
    <2>3. Current(config) \in ServerConfig /\ Current(config).url = config.url /\ config.url # None
        BY <2>1, ConfigOf
    <2>4. Row # None
        BY <2>2, <2>3, NoneIsNoServerConfig
    <2> QED
        BY <2>2, <2>3, <2>4 DEF OpenidCredentialIssuer, OauthAuthorizationServer, Current
<1>2. RunOK => ServesCurrentConfig
    BY <1>1 DEF ServesCurrentConfig
<1> QED
    BY <1>2, RunInvariant, PTL

(* Once a run has shown its metadata, the configurations of earlier runs   *)
(* are gone, also if AddCredentialConfiguration fails then.                *)
THEOREM DropsOldConfigs == Spec => []RenewedDropsOld
<1>1. ASSUME RunOK, renewed
      PROVE  Row.url = config.url /\ Row.configuration \in {None, Supported(config)}
    <2>1. Row \in {Metadata(config), Current(config)}
        BY <1>1 DEF RunOK, ShownOK
    <2> QED
        BY <2>1 DEF Metadata, Current
<1>2. RunOK => RenewedDropsOld
    BY <1>1 DEF RenewedDropsOld
<1> QED
    BY <1>2, RunInvariant, PTL

(* Once there is metadata, aggregate and view agree, over restarts too,    *)
(* except while an event is on its way to the view or after one was lost.  *)
THEOREM ViewAgrees == Spec => []ViewMatchesAggregate
<1>1. ASSUME RunOK, NEW type \in DOMAIN stores, type \notin behind,
             ~(phase # "down" /\ config.event_store = type /\ AtQuery(Main, "view")),
             OpenidCredentialIssuer(stores[type].view).status = 200
      PROVE  stores[type].view = stores[type].aggregate
    <2>1. type \in Types
        BY <1>1 DEF RunOK, StoresOK
    <2>2. Shows(stores[type].view)
        BY <1>1 DEF OpenidCredentialIssuer, Shows
    <2>3. AtQuery(Main, "view") => phase = "initialize"
        BY <1>1 DEF RunOK, TasksOK, AtQuery
    <2> QED
        BY <1>1, <2>1, <2>2, <2>3 DEF RunOK, AgreeOK
<1>2. RunOK => ViewMatchesAggregate
    BY <1>1 DEF ViewMatchesAggregate
<1> QED
    BY <1>2, RunInvariant, PTL
=============================================================================
