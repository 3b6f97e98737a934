------------------------------ MODULE Startup ------------------------------
(***************************************************************************)
(* The process of agent_application from boot to serving, over several     *)
(* runs with possibly different configurations, and what its well-known    *)
(* documents and event publishers show.                                    *)
(*                                                                         *)
(* main() builds the secret manager, the services, the event publishers    *)
(* and the stores, executes the startup commands, builds the router and    *)
(* the documents, marks /tmp/unicore/accept_requests and binds.  What the  *)
(* configuration lacks panics in the step that needs it, also after        *)
(* earlier steps have changed the store.  A startup command that fails is  *)
(* only logged.  While it listens, request handlers commit events.         *)
(***************************************************************************)
EXTENDS EventPublisher, FiniteSets

CONSTANTS
    Urls,           \* URLs the agent may be configured with
    Ids,            \* credential_configuration_ids
    Configs,        \* the configurations a run may find
    Batches,        \* what commands of the REST endpoints commit
    Main,           \* the startup task, one of Handlers
    MaxBoots,       \* bound: runs of the process
    MaxRequests,    \* bound: commands of request handlers
    MaxFaults       \* bound: crashes, cancellations, failed commands, updates, posts

VARIABLES
    phase,      \* where main() is
    config,     \* the configuration of this run
    todo,       \* the startup commands to come
    stores,     \* stores[type]: the server configuration in an event store
    flawed,     \* history: a startup command or its view update failed in this run
    renewed,    \* history: this run has stored its metadata in the view
    behind,     \* history: the stores whose view missed an event
    boots,      \* runs so far
    requests,   \* commands of request handlers so far
    faults      \* faults so far

counters == <<boots, requests, faults>>
history  == <<flawed, renewed, behind>>
vars == <<publishing, phase, config, todo, stores, history, counters>>

-----------------------------------------------------------------------------
(* ApplicationConfiguration *)

SupportedDidMethod == {"jwk", "key", "web", "iota", "iota_smr", "iota_rms"}

(* RS256 stands for the algorithms no credential is signed with. *)
Algorithms == {"EdDSA", "ES256", "RS256"}

ToggleOptions == [enabled : BOOLEAN, preferred : BOOLEAN]
Toggle(enabled, preferred) == [enabled |-> enabled, preferred |-> preferred]

(* url is None if it cannot be parsed or nothing can be appended to it;    *)
(* http is None also if event_publishers is; base_path is a sequence of    *)
(* slashes and other characters; issuer_did stands for the DID and the     *)
(* fragment.                                                               *)
ApplicationConfiguration ==
    [event_store : {"in_memory", "postgres"}, connection_string : BOOLEAN,
     url : Urls \union {None}, base_path : Seq({"/", "c"}) \union {None},
     did_methods : [SupportedDidMethod -> ToggleOptions],
     signing_algorithms_supported : [Algorithms -> ToggleOptions],
     issuer_did : BOOLEAN, domain_linkage_enabled : BOOLEAN,
     credential_configurations : Seq(Ids), http : HttpConfig \union {None}]

ASSUME StartupConfigs == Configs \subseteq ApplicationConfiguration
ASSUME StartupMain == Main \in Handlers /\ None \notin Urls \union Ids
ASSUME StartupBounds == {MaxBoots, MaxRequests, MaxFaults} \subseteq Nat
ASSUME StartupBatches == \A b \in Batches :
    b.aggregate \in Aggregates \ {"server_config"} /\ b.events \in Seq(DOMAIN EventTypes[b.aggregate])

Enabled(options) == {k \in DOMAIN options : options[k].enabled}
Preferred(options) == {k \in Enabled(options) : options[k].preferred}

(* get_base_path: one slash is stripped at each end. *)
StripLeading(path) == IF path # <<>> /\ Head(path) = "/" THEN Tail(path) ELSE path
StripTrailing(path) ==
    IF path # <<>> /\ path[Len(path)] = "/" THEN SubSeq(path, 1, Len(path) - 1) ELSE path
BasePath(path) == StripTrailing(StripLeading(path))

-----------------------------------------------------------------------------
(* Panics: what a step of main() finds missing *)

(* did:iota:rms needs a known DID and fragment. *)
SecretsPanic(c) == "iota_rms" \in Enabled(c.did_methods) /\ ~c.issuer_did

(* HolderServices and VerificationServices ask for the preferred method.   *)
ServicesPanic(c) == Preferred(c.did_methods) = {}

StoresPanic(c) == c.event_store = "postgres" /\ ~c.connection_string

(* startup_commands is evaluated before the first of them is executed.     *)
CommandsPanic(c) == c.url = None \/ c.credential_configurations = <<>>

RouterPanic(c) == c.base_path # None /\ BasePath(c.base_path) = <<>>

(* get_preferred_signing_algorithm *)
NoAlgorithm(c) == Preferred(c.signing_algorithms_supported) = {}

(* create_did_configuration_resource: the header and the signature of a    *)
(* did:web document's linkage credential name the preferred algorithm.     *)
LinkagePanic(c) == NoAlgorithm(c)

(* A did:web document is produced for the preferred algorithm.  Domain     *)
(* linkage expects the document.                                           *)
DocumentsPanic(c) ==
    LET document == "web" \in Enabled(c.did_methods) IN
    \/ document /\ NoAlgorithm(c)
    \/ c.domain_linkage_enabled /\ (~document \/ LinkagePanic(c))

Panics(c) ==
    CASE phase = "secrets"    -> SecretsPanic(c)
      [] phase = "services"   -> ServicesPanic(c)
      [] phase = "publishers" -> c.http = None
      [] phase = "stores"     -> StoresPanic(c)
      [] phase = "commands"   -> CommandsPanic(c)
      [] phase = "router"     -> RouterPanic(c)
      [] phase = "documents"  -> DocumentsPanic(c)
      [] OTHER                -> FALSE

-----------------------------------------------------------------------------
(* The server configuration: aggregate and view of SERVER-CONFIG-001 *)

(* What AddCredentialConfiguration makes of the first configuration. *)
Supported(c) ==
    [id         |-> Head(c.credential_configurations),
     methods    |-> Enabled(c.did_methods),
     algorithms |-> Enabled(c.signing_algorithms_supported)]

UnsupportedAlgorithm(c) == "RS256" \in Enabled(c.signing_algorithms_supported)

NewServerConfig == [url |-> None, configuration |-> None]
EmptyStore == [aggregate |-> NewServerConfig, view |-> None]

(* InitializeServerMetadata carries metadata without configurations. *)
ApplyServerConfig(s, e, c) ==
    IF e = "ServerMetadataInitialized"
    THEN [url |-> c.url, configuration |-> None]
    ELSE [s EXCEPT !.configuration = Supported(c)]

(* Mutant: new metadata keeps the configurations that were there. *)
UpdateServerViewKeeps(row, e, c) ==
    LET s == IF row = None THEN NewServerConfig ELSE row IN
    IF e = "ServerMetadataInitialized" THEN [s EXCEPT !.url = c.url]
    ELSE IF s.url = None THEN s ELSE [s EXCEPT !.configuration = Supported(c)]

(* Mutant: a configuration is only added to metadata that has none. *)
UpdateServerViewOnce(row, e, c) ==
    LET s == IF row = None THEN NewServerConfig ELSE row IN
    IF e = "ServerMetadataInitialized"
    THEN [url |-> c.url, configuration |-> None]
    ELSE IF s.url # None THEN s ELSE [s EXCEPT !.configuration = Supported(c)]

(* ServerConfigView::update: without metadata a configuration has no place *)
(* to go to.                                                               *)
UpdateServerView(row, e, c) ==
    LET s == IF row = None THEN NewServerConfig ELSE row IN
    IF e = "CredentialConfigurationAdded" /\ s.url = None
    THEN s ELSE ApplyServerConfig(s, e, c)

(* GET /.well-known/openid-credential-issuer: 200 with the metadata. *)
OpenidCredentialIssuer(row) ==
    IF row = None THEN [status |-> 404] ELSE
    IF row.url = None THEN [status |-> 500] ELSE [status |-> 200, body |-> row]

(* GET /.well-known/oauth-authorization-server: default metadata if the    *)
(* row has none yet.                                                       *)
OauthAuthorizationServer(row) ==
    IF row = None THEN [status |-> 404] ELSE [status |-> 200, issuer |-> row.url]

-----------------------------------------------------------------------------
Init ==
    /\ publishers = NoPublishers
    /\ events = <<>>
    /\ owed = [t \in Handlers |-> Nothing]
    /\ phase = "down"
    /\ config = None
    /\ todo = <<>>
    /\ stores = [type \in {"in_memory", "postgres"} |-> EmptyStore]
    /\ flawed = FALSE
    /\ renewed = FALSE
    /\ behind = {}
    /\ boots = 0
    /\ requests = 0
    /\ faults = 0

Fault == faults < MaxFaults /\ faults' = faults + 1

(* ApplicationConfiguration::new *)
Boot ==
    /\ phase = "down"
    /\ boots < MaxBoots
    /\ boots' = boots + 1
    /\ config' \in Configs
    /\ phase' = "secrets"
    /\ UNCHANGED <<publishing, todo, stores, history, requests, faults>>

(* A step of main() that changes nothing outside. *)
After == [secrets |-> "services", services |-> "publishers", stores |-> "commands",
          router |-> "documents", documents |-> "mark", mark |-> "bind", bind |-> "listening"]

Pass ==
    /\ phase \in DOMAIN After
    /\ ~Panics(config)
    /\ phase' = After[phase]
    /\ UNCHANGED <<publishing, config, todo, stores, history, counters>>

LoadPublishers ==
    /\ phase = "publishers"
    /\ ~Panics(config)
    /\ publishers' = Partition(Load(config.http))
    /\ phase' = "stores"
    /\ UNCHANGED <<events, owed, config, todo, stores, history, counters>>

(* Mutant: the configuration is added first. *)
StartupCommandsReversed == <<"CredentialConfigurationAdded", "ServerMetadataInitialized">>

(* Startup commands, named for the events they emit. *)
StartupCommands == <<"ServerMetadataInitialized", "CredentialConfigurationAdded">>

PrepareCommands ==
    /\ phase = "commands"
    /\ ~Panics(config)
    /\ todo' = StartupCommands
    /\ phase' = "initialize"
    /\ UNCHANGED <<publishing, config, stores, history, counters>>

(* initialize() takes the next command: `todo' keeps it until its dispatch *)
(* is over.                                                                *)
Ready == phase = "initialize" /\ todo # <<>> /\ Idle(Main)

HandlePanics == todo[1] = "CredentialConfigurationAdded" /\ UnsupportedAlgorithm(config)

Execute ==
    /\ Ready
    /\ ~HandlePanics
    /\ CommitBatch(Main, config.http, "server_config", <<Head(todo)>>)
    /\ stores' = [stores EXCEPT ![config.event_store].aggregate =
            ApplyServerConfig(@, Head(todo), config)]
    /\ UNCHANGED <<phase, config, todo, history, counters>>

(* The store cannot be reached or refuses: a warning, and the next one.    *)
(* If the load fails already, a command is spared the panic of its handle. *)
CommandFails ==
    /\ Ready
    /\ config.event_store = "postgres"
    /\ Fault
    /\ todo' = Tail(todo)
    /\ flawed' = TRUE
    /\ UNCHANGED <<publishing, phase, config, stores, renewed, behind, boots, requests>>

(* The command is done when the last query of its dispatch is. *)
NextCommand == IF Idle(Main)' THEN todo' = Tail(todo) ELSE UNCHANGED todo

ShowServerConfig ==
    LET type == config.event_store
        metadata == Head(todo) = "ServerMetadataInitialized"
    IN
    /\ AtQuery(Main, "view")
    /\ RunQuery(Main)
    /\ stores' = [stores EXCEPT ![type].view = UpdateServerView(@, Head(todo), config)]
    /\ renewed' = (renewed \/ metadata)
    /\ behind' = IF metadata THEN behind \ {type} ELSE behind
    /\ NextCommand
    /\ UNCHANGED <<phase, config, flawed, counters>>

ShowFails ==
    /\ AtQuery(Main, "view")
    /\ config.event_store = "postgres"
    /\ Fault
    /\ RunQuery(Main)
    /\ flawed' = TRUE
    /\ behind' = behind \union {"postgres"}
    /\ NextCommand
    /\ UNCHANGED <<phase, config, stores, renewed, boots, requests>>

Announce ==
    /\ Publish(Main)
    /\ NextCommand
    /\ UNCHANGED <<phase, config, stores, history, counters>>

Initialized ==
    /\ phase = "initialize"
    /\ todo = <<>>
    /\ phase' = "router"
    /\ UNCHANGED <<publishing, config, todo, stores, history, counters>>

-----------------------------------------------------------------------------
(* Serving *)

Serve(t) ==
    /\ phase = "listening"
    /\ t # Main
    /\ requests < MaxRequests
    /\ requests' = requests + 1
    /\ \E b \in Batches : CommitBatch(t, config.http, b.aggregate, b.events)
    /\ UNCHANGED <<phase, config, todo, stores, history, boots, faults>>

Dispatch(t) ==
    /\ t # Main
    /\ RunQuery(t) \/ Publish(t)
    /\ UNCHANGED <<phase, config, todo, stores, history, counters>>

Receive(n) == Deliver(n) /\ UNCHANGED <<phase, config, todo, stores, history, counters>>

PostFails(n) ==
    /\ Fault
    /\ SendFails(n)
    /\ UNCHANGED <<phase, config, todo, stores, history, boots, requests>>

Cancel(t) ==
    /\ t # Main
    /\ ~Idle(t)
    /\ Fault
    /\ CutShort({t}, {})
    /\ UNCHANGED <<publishers, phase, config, todo, stores, history, boots, requests>>

-----------------------------------------------------------------------------
(* The end of a run: tasks and posts under way end with it, and what the   *)
(* in-memory store held is gone.                                           *)
End ==
    /\ CutShort(Handlers, DOMAIN events)
    /\ publishers' = NoPublishers
    /\ phase' = "down"
    /\ config' = None
    /\ todo' = <<>>
    /\ stores' = [stores EXCEPT !["in_memory"] = EmptyStore]
    /\ flawed' = FALSE
    /\ renewed' = FALSE
    /\ behind' = (behind \ {"in_memory"}) \union
            (IF AtQuery(Main, "view") THEN {config.event_store} \ {"in_memory"} ELSE {})
    /\ UNCHANGED <<boots, requests>>

(* main() panics; the executor does not resume it. *)
Panic ==
    /\ phase # "down"
    /\ Panics(config) \/ (Ready /\ HandlePanics)
    /\ End
    /\ UNCHANGED faults

(* A kill, a failed `.unwrap()' on something outside (stronghold, pool,    *)
(* did:web document) or an `Err' of the file system or of bind.            *)
Crash ==
    /\ phase # "down"
    /\ Fault
    /\ End

Proceed ==
    Pass \/ LoadPublishers \/ PrepareCommands \/ Execute \/ ShowServerConfig \/ Announce
      \/ Initialized \/ Panic

Next ==
    \/ Boot \/ Proceed \/ CommandFails \/ ShowFails \/ Crash
    \/ \E t \in Handlers : Serve(t) \/ Dispatch(t) \/ Cancel(t)
    \/ \E n \in DOMAIN events : Receive(n) \/ PostFails(n)

Spec == Init /\ [][Next]_vars

(* tokio runs every task that is ready; a target receives a post or the    *)
(* connection fails.                                                       *)
FairSpec ==
    /\ Spec
    /\ WF_vars(Proceed)
    /\ \A t \in Handlers : WF_vars(Dispatch(t))
    /\ WF_vars(\E n \in DOMAIN events : Receive(n))

-----------------------------------------------------------------------------
(* Properties *)

Phases == DOMAIN After \union {"down", "publishers", "commands", "initialize", "listening"}

ServerConfig ==
    [url : Urls \union {None},
     configuration : {None} \union
        [id : Ids, methods : SUBSET SupportedDidMethod, algorithms : SUBSET Algorithms]]

ASSUME NoneIsNoServerConfig == \A s \in ServerConfig : s # None

(* Every variable keeps its type; a process that is down holds nothing.    *)
TypeOK ==
    /\ PublishingTypeOK
    /\ phase \in Phases
    /\ config \in Configs \union {None}
    /\ \A type \in DOMAIN stores :
        stores[type].aggregate \in ServerConfig /\ stores[type].view \in ServerConfig \union {None}
    /\ todo \in {<<>>, Tail(StartupCommands), StartupCommands}
    /\ behind \subseteq DOMAIN stores
    /\ {flawed, renewed} \subseteq BOOLEAN
    /\ {boots, requests, faults} \subseteq Nat
    /\ phase = "down" =>
        /\ config = None /\ publishers = NoPublishers
        /\ \A t \in Handlers : Idle(t)
        /\ \A n \in DOMAIN events : events[n].flying = 0

Row == stores[config.event_store].view

(* While the server listens, its documents show the URL and the credential *)
(* configuration of this run, whatever earlier runs left in the store and  *)
(* wherever they were cut short, unless a startup command or the update of *)
(* its view failed.                                                        *)
ServesCurrentConfig ==
    phase = "listening" /\ ~flawed =>
        LET current == [url |-> config.url, configuration |-> Supported(config)] IN
        /\ OpenidCredentialIssuer(Row) = [status |-> 200, body |-> current]
        /\ OauthAuthorizationServer(Row) = [status |-> 200, issuer |-> config.url]

(* Once a run has shown its metadata, the configurations of earlier runs   *)
(* are gone: also if AddCredentialConfiguration fails then, the issuer     *)
(* offers what this run configured or nothing.                             *)
RenewedDropsOld ==
    renewed =>
        /\ Row.url = config.url
        /\ Row.configuration \in {None, Supported(config)}

(* Once there is metadata, aggregate and view agree, over restarts too,    *)
(* except while an event is on its way to the view or after one was lost.  *)
ViewMatchesAggregate ==
    \A type \in DOMAIN stores :
        LET s == stores[type]
            underway == phase # "down" /\ config.event_store = type /\ AtQuery(Main, "view")
        IN  type \notin behind /\ ~underway /\ OpenidCredentialIssuer(s.view).status = 200
              => s.view = s.aggregate

(* What is asked for by the name that is also its event_type reaches the   *)
(* target, unless a crash, cancellation or failed post loses it: in every  *)
(* behaviour nothing is outstanding again and again, and so at its end.    *)
EventuallyPosted ==
    []<>(\A n \in DOMAIN events :
            events[n].wanted /\ TypeIsName(events[n])
                => events[n].received > 0 \/ events[n].lost)
=============================================================================
