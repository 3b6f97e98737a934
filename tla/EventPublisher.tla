--------------------------- MODULE EventPublisher ---------------------------
(***************************************************************************)
(* Who is told of an event once it is committed: the queries registered    *)
(* with the aggregates of the three states (agent_store), of which the     *)
(* HTTP event publishers (agent_event_publisher_http) are the last.        *)
(*                                                                         *)
(* A configuration lists the names of events' variants.  A publisher posts *)
(* the events whose event_type is listed, each in a task of its own that   *)
(* is neither awaited nor repeated.                                        *)
(*                                                                         *)
(* The module has no specification of its own: Startup composes its        *)
(* actions with the process that loads the publishers and may end.         *)
(***************************************************************************)
EXTENDS Naturals, Sequences, Functions

CONSTANTS
    Handlers,   \* what executes commands: the startup task, request handlers
    None        \* Option::None

VARIABLES
    publishers, \* publishers[a]: the filters of a's event publishers
    events,     \* events[n]: history of the n-th event committed
    owed        \* owed[t]: t's committed batch and the queries to come

publishing == <<publishers, events, owed>>

-----------------------------------------------------------------------------
(* Events: the variants of each aggregate and their event_type, which is   *)
(* not always the variant's name.                                          *)

ServerConfigEvents ==
    [ServerMetadataInitialized    |-> "ServerMetadataLoaded",
     CredentialConfigurationAdded |-> "CredentialConfigurationAdded"]

CredentialEvents ==
    LET names == {"UnsignedCredentialCreated", "SignedCredentialCreated", "CredentialSigned"}
    IN  [e \in names |-> e]

OfferEvents ==
    LET names == {"CredentialOfferCreated", "CredentialsAdded", "CredentialOfferSent",
                  "FormUrlEncodedCredentialOfferCreated", "TokenResponseCreated",
                  "CredentialRequestVerified", "CredentialResponseCreated"}
    IN  [e \in names |-> e]

HolderCredentialEvents == [CredentialAdded |-> "CredentialAdded"]

ReceivedOfferEvents ==
    LET names == {"CredentialOfferReceived", "CredentialOfferAccepted", "TokenResponseReceived",
                  "CredentialResponseReceived", "CredentialOfferRejected"}
    IN  [e \in names |-> IF e = "TokenResponseReceived" THEN "AccessTokenReceived" ELSE e]

ConnectionEvents ==
    LET names == {"SIOPv2AuthorizationResponseVerified", "OID4VPAuthorizationResponseVerified"}
    IN  [e \in names |-> e]

AuthorizationRequestEvents ==
    LET names == {"AuthorizationRequestCreated", "FormUrlEncodedAuthorizationRequestCreated",
                  "AuthorizationRequestObjectSigned"}
    IN  [e \in names |-> e]

EventTypes ==
    [server_config         |-> ServerConfigEvents,
     credential            |-> CredentialEvents,
     offer                 |-> OfferEvents,
     holder_credential     |-> HolderCredentialEvents,
     received_offer        |-> ReceivedOfferEvents,
     connection            |-> ConnectionEvents,
     authorization_request |-> AuthorizationRequestEvents]

Aggregates == DOMAIN EventTypes

(* The names a configuration may list: those of the variants, but not of   *)
(* CredentialOfferSent.                                                    *)
Configurable == [a \in Aggregates |-> DOMAIN EventTypes[a] \ {"CredentialOfferSent"}]

HttpConfig == [enabled : BOOLEAN, events : {l \in [Aggregates -> SUBSET UNION Range(Configurable)] :
                                              \A a \in Aggregates : l[a] \subseteq Configurable[a]}]

-----------------------------------------------------------------------------
(* Registration: the queries of the aggregates of each state, in the order *)
(* in which they are appended; SimpleLoggingQuery only logs.               *)

IssuanceState ==
    [server_config |-> <<"view">>,
     credential    |-> <<"view", "all">>,
     offer         |-> <<"view", "all", "code", "token">>]

HolderState ==
    [holder_credential |-> <<"view", "all">>,
     received_offer    |-> <<"view", "all">>]

VerificationState ==
    [authorization_request |-> <<"view">>,
     connection            |-> <<"view">>]

Queries(a) ==
    CASE a \in DOMAIN IssuanceState     -> IssuanceState[a]
      [] a \in DOMAIN HolderState       -> HolderState[a]
      [] a \in DOMAIN VerificationState -> VerificationState[a]

(* Mutant: a disabled publisher is loaded. *)
LoadDisabled(http) ==
    [a \in Aggregates |-> IF http.events[a] # {} THEN http.events[a] ELSE None]

(* EventPublisherHttp::load: the filter of each aggregate; none if the     *)
(* publisher is disabled or lists nothing for the aggregate.               *)
Load(http) ==
    [a \in Aggregates |->
        IF http.enabled /\ http.events[a] # {} THEN http.events[a] ELSE None]

(* Each state loads the publishers anew and takes those of its aggregates. *)
Partition(loaded) ==
    [a \in Aggregates |-> IF loaded[a] = None THEN <<>> ELSE <<loaded[a]>>]

NoPublishers == [a \in Aggregates |-> <<>>]

ASSUME NoneIsNoFilter == \A a \in Aggregates : \A filter \in SUBSET Configurable[a] : filter # None

(* Mutant: the event publishers are put in front. *)
ChainPublishersFirst(a) == [i \in DOMAIN publishers[a] |-> "publisher"] \o Queries(a)

(* The event publishers are appended after all other queries. *)
Chain(a) == Queries(a) \o [i \in DOMAIN publishers[a] |-> "publisher"]

-----------------------------------------------------------------------------
(* Commit and dispatch *)

Nothing == [aggregate |-> None, numbers |-> {}, queries |-> <<>>]
Idle(t) == owed[t] = Nothing

(* Does this configuration ask for event e?  It lists variants by name. *)
Wanted(http, a, e) == http.enabled /\ e \in http.events[a]

NewEvent(http, a, e) ==
    [aggregate |-> a, event |-> e, wanted |-> Wanted(http, a, e), tried |-> {},
     posts |-> 0, flying |-> 0, received |-> 0, lost |-> FALSE]

CommitBatch(t, http, a, batch) ==
    /\ Idle(t)
    /\ events' = events \o [i \in DOMAIN batch |-> NewEvent(http, a, batch[i])]
    /\ owed' = [owed EXCEPT ![t] =
            [aggregate |-> a, numbers |-> {Len(events) + i : i \in DOMAIN batch},
             queries   |-> Chain(a)]]
    /\ UNCHANGED publishers

AtQuery(t, q) == ~Idle(t) /\ Head(owed[t].queries) = q

(* Mutant: a dispatch never ends. *)
RestNeverIdle(t) == [owed[t] EXCEPT !.queries = Tail(@)]

(* owed[t] after its first query. *)
Rest(t) ==
    IF Len(owed[t].queries) = 1 THEN Nothing ELSE [owed[t] EXCEPT !.queries = Tail(@)]

(* A view, list or lookup is updated, or its update fails: the next query  *)
(* follows either way.                                                     *)
RunQuery(t) ==
    /\ ~Idle(t)
    /\ ~AtQuery(t, "publisher")
    /\ events' = [n \in DOMAIN events |->
            IF n \in owed[t].numbers
            THEN [events[n] EXCEPT !.tried = @ \union {Head(owed[t].queries)}] ELSE events[n]]
    /\ owed' = [owed EXCEPT ![t] = Rest(t)]
    /\ UNCHANGED publishers

(* The filter compares the event_type with the names that were listed. *)
Matches(filter, x) == EventTypes[x.aggregate][x.event] \in filter

(* Mutant: only the last event of a batch is looked at. *)
PublishLast(t) ==
    /\ AtQuery(t, "publisher")
    /\ LET filter == Head(publishers[owed[t].aggregate]) IN
       events' = [n \in DOMAIN events |->
            IF n \in owed[t].numbers /\ n + 1 \notin owed[t].numbers /\ Matches(filter, events[n])
            THEN [events[n] EXCEPT !.posts = @ + 1, !.flying = @ + 1] ELSE events[n]]
    /\ owed' = [owed EXCEPT ![t] = Rest(t)]
    /\ UNCHANGED publishers

(* AggregateEventPublisherHttp::dispatch: a task is spawned for each event *)
(* the filter lists; the dispatch waits for none of them.                  *)
Publish(t) ==
    /\ AtQuery(t, "publisher")
    /\ LET filter == Head(publishers[owed[t].aggregate]) IN
       events' = [n \in DOMAIN events |->
            IF n \in owed[t].numbers /\ Matches(filter, events[n])
            THEN [events[n] EXCEPT !.posts = @ + 1, !.flying = @ + 1] ELSE events[n]]
    /\ owed' = [owed EXCEPT ![t] = Rest(t)]
    /\ UNCHANGED publishers

(* The target receives a post, whichever of those under way. *)
Deliver(n) ==
    /\ n \in DOMAIN events
    /\ events[n].flying > 0
    /\ events' = [events EXCEPT ![n].flying = @ - 1, ![n].received = @ + 1]
    /\ UNCHANGED <<publishers, owed>>

(* The target cannot be reached or its answer is an error: that is logged. *)
SendFails(n) ==
    /\ n \in DOMAIN events
    /\ events[n].flying > 0
    /\ events' = [events EXCEPT ![n].flying = @ - 1, ![n].lost = TRUE]
    /\ UNCHANGED <<publishers, owed>>

(* The dispatches of handlers T are cut short, the posts among `flying'    *)
(* are abandoned: nothing repeats them.                                    *)
CutShort(T, flying) ==
    LET dropped == UNION {owed[t].numbers : t \in T} IN
    /\ events' = [n \in DOMAIN events |->
            IF n \in dropped \/ (n \in flying /\ events[n].flying > 0)
            THEN [events[n] EXCEPT !.lost = TRUE, !.flying = 0] ELSE events[n]]
    /\ owed' = [t \in Handlers |-> IF t \in T THEN Nothing ELSE owed[t]]

-----------------------------------------------------------------------------
(* Properties *)

PublishingTypeOK ==
    /\ DOMAIN publishers = Aggregates
    /\ \A a \in Aggregates :
        publishers[a] \in Seq(SUBSET Configurable[a]) /\ Len(publishers[a]) <= 1
    /\ \A n \in DOMAIN events :
        /\ events[n].event \in DOMAIN EventTypes[events[n].aggregate]
        /\ events[n].tried \subseteq Range(Queries(events[n].aggregate))
        /\ {events[n].posts, events[n].flying, events[n].received} \subseteq Nat
        /\ {events[n].wanted, events[n].lost} \subseteq BOOLEAN
    /\ \A t \in Handlers : Idle(t) \/
        /\ owed[t].numbers \subseteq DOMAIN events
        /\ \A n \in owed[t].numbers : events[n].aggregate = owed[t].aggregate
        /\ owed[t].queries # <<>>

Dispatched(n) == \A t \in Handlers : n \notin owed[t].numbers

(* Is the event_type of an event the name a configuration knows it by? *)
TypeIsName(x) == EventTypes[x.aggregate][x.event] = x.event

(* The target is sent nothing but what the configuration of the run that   *)
(* committed an event asks for, and nothing twice, not even by a later     *)
(* run.  An event that is asked for and whose dispatch was neither cut     *)
(* short nor failed has been posted, provided its event_type is the name   *)
(* it is asked for by.                                                     *)
PostedAsConfigured ==
    \A n \in DOMAIN events :
        LET x == events[n] IN
        /\ x.posts <= (IF x.wanted THEN 1 ELSE 0)
        /\ x.flying + x.received <= x.posts
        /\ Dispatched(n) /\ ~x.lost /\ x.wanted /\ TypeIsName(x) => x.posts = 1

(* Who is told of an event finds its effect: when it is posted, the view,  *)
(* the list and the lookups of its aggregate have been updated, or their   *)
(* update has failed.                                                      *)
PostedLast ==
    \A n \in DOMAIN events :
        events[n].posts > 0 => events[n].tried = Range(Queries(events[n].aggregate))

-----------------------------------------------------------------------------
(* What the repository says of the publisher *)

(* agent_event_publisher_http/README.md:8 "a list of events that will be   *)
(* published", and :61 lists TokenResponseReceived among those available   *)
(* for `received_offer': an event the configuration asks for should have   *)
(* been posted once its dispatch is over and nothing cut it short.         *)
PostedAsAsked ==
    \A n \in DOMAIN events :
        events[n].wanted /\ Dispatched(n) /\ ~events[n].lost => events[n].posts = 1
=============================================================================
