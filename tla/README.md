# Verification of ssi-agent

TLA+ specifications of the core of [ssi-agent](../src), an agent that issues,
holds and verifies credentials over OpenID4VCI and OpenID4VP, together with the
TLC instances that check them and TLAPS proofs of what matters most. Every
definition is translated from the Rust source; `PROJECT.json` names the lines
each one stands for.

## The system

The agent is one process: an axum HTTP server whose handlers run as tokio tasks
on several threads. Everything it remembers lives in event-sourced aggregates
(crate `cqrs_es`): a command loads an aggregate by folding its log, decides,
appends the events it decided on, and hands them to *queries*, which maintain
views. Endpoints execute commands and read the views. There is no lock: two
handlers may work on one aggregate or one view at the same time, and a handler
may be dropped at any await when its client disconnects.

| part | state | operations | talks to |
|---|---|---|---|
| **event store and pipeline** (`agent_store`, `agent_shared/src/{handlers,generic_query,custom_queries}.rs`) | the `events` table or `MemStore`; view rows; one row per list of all instances; lookup rows | `command_handler`, `query_handler`, `GenericQuery`, `ListAllQuery`, lookup queries | every aggregate; Postgres |
| **issuance offers** (`agent_issuance/src/offer`, REST `issuance/offers`, `credential_issuer/token.rs`) | pre-authorized code, access token, credential ids, subject, offer URL, last response | create, add credentials, form URL, send, token, verify request, response | credentials, wallets |
| **issuance credentials** (`agent_issuance/src/credential`, REST `issuance/credentials.rs`, `credential_issuer/credential.rs`) | data, signature | create, create signed, sign | offers, secret manager |
| **holder** (`agent_holder`, REST `holder/`) | received offers with status, token, credentials; stored credentials | receive, accept, request, reject, add | foreign issuers |
| **verification** (`agent_verification`, REST `verification/`) | authorization requests, connections | create, sign, verify response | foreign wallets |
| **server configuration** (`agent_issuance/src/server_config`, `startup_commands.rs`) | issuer metadata, credential configurations | initialize, add configuration | startup |
| **event publisher** (`agent_event_publisher_http`) | target URL and event filter | one HTTP POST per event | external receivers |
| **secret manager** (`agent_secret_manager`) | keys | sign, verify | all of the above |
| **configuration** (`agent_shared/src/config.rs`) | read once | – | all of the above |
| **well-known documents** (`agent_shared/src/domain_linkage`, REST `well_known/`) | none | compute documents | – |

### What is hard here

* *Interleavings.* Load, decide, commit, load a view, store a view are separate
  awaits. Two dispatches on one aggregate overwrite each other's view; two
  dispatches on **different** aggregates overwrite each other's list of all
  instances, which is a single row.
* *Stale reads.* Endpoints decide on views that lag behind the log, or read the
  effect of their own command back from a view another handler writes too.
* *Crash, cancellation, partial failure.* Queries are dispatched only by the
  handler that committed. If it is cut short, or a view update fails (`.ok()`),
  nothing repeats the dispatch.
* *Time.* The credential endpoint polls a view until a timeout.
* *Ignored errors.* The credential endpoint builds three error responses and
  drops them; a startup command that fails is logged and the next one runs.
* *Shared identity.* Every wallet's response is written to one connection, since
  its id is the verifier's own DID; and that DID may change with a restart.
* *Startup in steps.* What the configuration lacks panics in the step of
  `main()` that needs it, after earlier steps have changed a store that stays.
* *Effects outside.* The holder redeems a code and fetches a credential while
  it decides, before anything is committed.

### What makes each part correct

* *Pipeline*: commands take effect one after the other on the current log
  (Postgres); a view shows committed events, none twice, and exactly the log when
  nothing overlapped or failed (dispatches that interleave may drop events of a
  view, and apply others in another order than the log's); commands return;
  lookups lead to aggregates that exist.
* *Issuance*: a credential is signed only for a subject that proved possession
  of its key for an offer the credential belongs to; an answer never carries
  what belongs to another offer; a signature is final; codes and tokens that
  left the agent can be used; every request is answered.
* *Holder*: the states of an offer follow their order; a stored credential came
  from the issuer of the offer it is stored under; a successful acceptance
  stores a credential and shows it, unless a database error is dropped on the way.
* *Verification*: a published request leads to a signed object of the request
  that is stored; nothing is signed that has been replaced; whatever a connection
  holds came with a response to a request that named it.
* *Publisher*: nothing is posted but what the configuration names, nothing twice,
  and only after the views; what it names by the event's `event_type` is posted
  and arrives unless a fault lost it. Two of the names a configuration may list
  are no event's `event_type` (see the run `publisher_claim`).
* *Startup*: an agent that listens shows this run's configuration, and nothing of
  an earlier one; aggregate and view of the configuration agree over restarts.

## Modules

| module | models |
|---|---|
| `ViewRepository` | a view row with its version, and `update_view` of both backends: Postgres inserts when the copy was absent (refused if the row appeared meanwhile) and otherwise updates **without** comparing versions; the in-memory store overwrites |
| `EventLog` | abstract: one command at a time extends a log by its whole batch |
| `CqrsPipeline` | a command from load to the last query, for the offer of the issuer, which has the longest chain of queries: view, list of all, code lookup, token lookup |
| `Issuance` | the five REST endpoints of the issuer over its two aggregates |
| `Holder` | the three REST endpoints of the holder that change state, over its two aggregates |
| `Verification` | the verifier's endpoints over authorization requests and the shared connection, with a DID that may change when the process restarts |
| `EventPublisher` | which events the HTTP publishers are configured for, where they stand in the chain of queries, and the posts they spawn |
| `Startup` | extends `EventPublisher`: `main()` from boot to serving over several runs with different configurations, the startup commands, the server configuration, the metadata endpoints, and handlers that commit events |
| `MC_*` | instances for TLC: symmetry, and the configurations of `Startup` |
| `CqrsPipelineProofs`, `ViewProofs` | proofs about the pipeline: types, log and refinement; views, list and lookups |
| `IssuanceProofs`, `OwnershipProofs` | proofs about the issuer: types; what it signs, lists and answers |
| `HolderProofs` | proofs about the holder |
| `VerificationProofs`, `ServedProofs` | proofs about the verifier: types, connection, signatures; what is served |
| `StartupProofs` | proofs about publishers and startup |

### How they correspond to the code

**CqrsPipeline.** `log` is the events table, `view`, `all` and `index` the view
tables. A handler `t` runs `LoadAggregate`, then `Commit` (or `Decline` when
`handle` returned an error or nothing, or `CommitConflict` when the primary key
refuses the batch), then `LoadView`/`StoreView` (`GenericQuery`, all events of
the batch in one store), `LoadAll`/`StoreAll` once per event (`ListAllQuery`
loops), `IndexCode`, `IndexToken`. What an event says is abstracted to the
command it came from, its place in the batch and whether it creates;
`MemRepository` and the two Postgres tables differ only through `Store`.
`ViewUpdateFails` is an error of any view access on Postgres: the dispatch goes
on with the next query. `Cancel` is a dropped handler future, `Crash` a restart.
`raced`, `racedAll` and `faulted` are history: where dispatches overlapped and
where a fault hit. They are what the exact-view properties are relative to.

**Issuance.** An endpoint is a sequence of commands and queries; `pc[t]` names
the one the handler is at, `Successor` the one that follows, and `Return` maps a
failed command to 500 except in the three places (`IgnoresError`) where the code
builds the response but does not return it. `Outcomes` is `Aggregate::handle`:
what a command may turn into in a state. An aggregate is the fold of its log
with the length as version, so that a stale commit is `seen.version #
version`. Random strings are numbers drawn in order (0 is the empty string);
one number stands for the code and the token of an offer, which are drawn
together. `credential_ids` is kept as at most one id because each
`AddCredentials` of the endpoint **replaces** the list by one id.
A signature that fails is stored as `null` (`SignCredential` turns the error
into a value): the aggregate then counts as signed and the view reads
`None`. On Postgres any access may fail: a load or commit ends the request with
an error (`StoreFails`), a view or lookup that cannot be written is printed and
the command has succeeded (`ViewUpdateFails`, with the credentials whose view
missed an event in the history `unshown`), and a query that fails is an error,
except in `POST /v0/offers`, which takes it for an absent offer (`QueryFails`).

**Holder.** As in Issuance, with one more step between load and commit: the
decision exchanges messages with the issuer, so `DecideAccept` and
`DecideRequest` record in `granted` and `issued` what the issuer handed out even
if the commit is refused later. `AcceptCredentialOffer` emits two events that are
committed and applied as one batch. `Sizes` are the numbers of credential
configurations an offer names: none yields an empty list, one a credential, more
an error. Rejecting does not look whether the offer exists, so
`PostReject` takes any id. Database errors are as in Issuance: `StoreFails` ends
the request, `ViewUpdateFails` drops an update of the offer's view and
`ShowFails` one of the credential's view, which the history `hidden` records.

**Verification.** The command step is that of Issuance (`Load`, `Commit`,
`Decline`, `Conflict`, `LoadView`, `StoreView`), shared by both aggregates:
`Key(t)` is the request's id, or for a response the connection's. Creating a
request is two commands, `create` and `sign`; the handler then reads back the
form URL, not the signature (`ReadForm`). The two events of a creation are one
batch, so the form URL is there exactly when the request is. What a request asks
is abstracted to the number of the HTTP request that created it and its
client_id; a token to the number of the response that carried it; a signature to
what it is over. Any command may be declined, also the creation, whose request may
fail to build. A restart in memory forgets the requests and with them
`answered`; `PublishedStaysServable` is therefore about Postgres there.
`redirect` finds the request by the response's state, and uses
nothing of it but the client_id (`FindRequest`). `asked`, `posted`, `answered`
and `disturbed` are history.

**EventPublisher.** Events have the names the code gives them, because a
property is about names: `EventTypes` maps each variant to the `event_type()`
the filter is compared with, `Configurable` to the names the configuration
parses. `Load` drops a disabled publisher and an empty filter, `Chain` appends
the publishers to the queries of an aggregate. An event is `wanted` when the
configuration lists its variant's name, while `Matches` compares the list with
`event_type()`; `TypeIsName` says where the two agree. `Publish` spawns one post per
matching event and waits for none; posts arrive in any order (`Deliver`) or
not at all (`SendFails`); an event records which queries were tried on it.

**Startup.** `phase` is where `main()` is; `Panics` lists what each step unwraps
or expects; `Execute`, `ShowServerConfig` and `Announce` are a startup command's
commit, its view and its publishers, and `CommandFails` the warning of
`initialize`, possible also when the command's `handle` would have panicked, since
its load may fail first. `End` is the end of a run by panic or crash: Postgres keeps what
is stored, the in-memory store does not. `flawed`, `renewed` and `behind` are
history.

## Runs

The passing runs take between forty seconds and four minutes (0.4 to 3.5 million
states). `CHECK_DEADLOCK FALSE` is set throughout:
requests are bounded, and a server without requests stands still.

| run | asks |
|---|---|
| `pipeline_postgres` | 2 aggregates, 2 handlers, 2 commands of up to 2 events, 2 faults, under fairness: `DecidedOnLog` (an event's number is its place in the log), `ViewsShowCommitted` (views hold committed events only, none twice), `ViewExact`, `AllExact` (equal to the log unless the history says why not), `LookupsFollowCreation`, the refinement `SerialLog` (the log implements `EventLog`), `CommandsReturn` (also when a view cannot be updated), `EventuallyVisible` |
| `list_all_claim` | violated: the comment says the struct "lists all the instances"; two dispatches find the shared row absent, the second INSERT is refused and its error dropped, so one instance stays unlisted |
| `publisher_claim` | violated: the publisher's README lists `TokenResponseReceived` among the events that can be published; configured, committed and dispatched without a fault, it is not posted |
| `issuance_postgres` | 1 offer, 2 wallets, 2 handlers, 5 requests (a full flow and any other request): `SignedForProver`, `AnswersFromOwnOffer`, and the action property `SignatureFinal` |
| `issuance_two_offers` | Postgres, 2 offers, 2 credentials, 2 wallets, 6 requests, one fault: `AnswersFromOwnOffer` (nothing crosses offers), `ListedCredentialsExist` (an offer lists an id without a view only when the update of that view failed) |
| `issuance_restart` | in-memory store under fairness, a restart or cancellation at any await while wallets keep codes and tokens: `KeysResolve`, `EveryRequestAnswered` (polling ends), `CodesBecomeUsable` |
| `invalid_proof_claim` | violated: a request whose proof does not verify is answered with a credential once another request has verified one |
| `created_once_claim` | violated: "Create an offer if it does not exist yet" creates it twice |
| `holder_postgres` | 2 offers, 2 handlers, 4 requests, 1 fault: `StoredFromOwnOffer`, `TokenBehindCredential`, `AcceptedNotRejected`, `AcceptStores` (stored, and shown unless the update of its view failed), and the action property `StatusOrder` |
| `holder_in_memory` | the in-memory store under fairness: `EveryRequestAnswered`, `ReceivedGetsStored` |
| `verification` | Postgres, 1 request id, 2 DIDs, 2 handlers, 4 requests, 1 fault: `PublishedStaysServable`, `AnsweredIsCurrent`, `ConnectionExplained`, and the action property `SignsCurrent` |
| `startup` | 3 runs of the process, 11 configurations, 1 request, 2 faults, under fairness: `ServesCurrentConfig`, `RenewedDropsOld`, `ViewMatchesAggregate`, `PostedAsConfigured`, `PostedLast`, `EventuallyPosted` |

**Bounds.** `Tasks`: the pipeline's properties relate two dispatches, so two
handlers show every overlap. With `MaxCmds = 2` one command of two events and one
more, on the same aggregate or another one, are enough to lose, repeat or
reorder an event of a view; what more commands do, and what the
in-memory store makes of an overlap, is left to the proofs, which hold for both. `MaxFaults
= 2` lets a view update fail in both dispatches, or a failed one be followed by a
crash. `MaxBatch = 2` makes a batch more than one event, which is
what the loop of `ListAllQuery` and the refinement need. A complete issuance
takes four requests (credential, offer, token, credential request), so five add
any disturbance and six allow a second offer; `MaxPolls` is how many polls fit in
the timeout. A complete acceptance takes two requests, so four allow a competing
acceptance and a rejection. `MaxFaults = 1` puts a crash, cancellation or
database error at any point. The numbers a random draw may take are bounded by the
requests. A request of the verifier that is created, created again and answered
by two wallets takes four HTTP requests; a second id adds nothing, since requests
only meet through the connection they share. The runs under fairness are smaller
(3 requests in `issuance_restart`, which is one short of a complete issuance: the
poll that times out and the code that becomes usable are there). Three runs of
the process let one run leave something behind, a second one fail on it and a
third one serve; eight of the configurations panic, each in another step, and two
faults cut short a startup command and a later one.

**Fairness.** Weak fairness of `Proceed(t)` for each handler: tokio polls every
task that is ready, the poll timer fires, and stores and remote issuers answer
or fail. Clients (`Request`), `Crash`, `Cancel` and database errors get none. In
`Startup` the steps of `main()`, the dispatches and the receipt of posts are
fair; boots, requests and faults are not.
The HTTP client of the holder has no timeout of its own; that a foreign issuer
answers or its connection fails is an assumption.

## Proofs

Every safety property that a passing run checks is also a theorem, and so is the
refinement `SerialLog`. The theorems hold for all values of the constants that
satisfy the named assumptions, hence for any number of aggregates, handlers,
requests and faults:

* pipeline: `StoreAssumption`, `MaxBatchAssumption`, `BoundAssumption`,
  `NoneAssumption`;
* issuer: `StoreAssumption`, `IssuanceBounds`, `IssuanceNone`, `SubjectsAreDids`
  (a wallet's DID is not one of the two words that stand for a failed and for a
  foreign signature), `NoneIsNoEndpoint`;
* holder: `StoreAssumption`, `HolderBounds`, `HolderSizes`, `HolderNone`;
* verifier: `StoreAssumption`, `VerificationBounds`, `VerificationNames`;
* startup: `StartupConfigs`, `StartupMain`, `StartupBounds`, `StartupBatches` (an
  endpoint's batch has events of one aggregate, not of the server configuration),
  `NoneIsNoFilter`, `NoneIsNoServerConfig`.

The assumptions about `None` say that an option's absence is none of the values
it may have. None of the properties is inductive as it stands; what each
needs besides is the argument why it holds.

Pipeline:

* `CqrsPipelineProofs!TypeCorrect`: `Spec => []TypeOK`, from the inductive
  `TypeInv`, which adds that a handler that does not dispatch stands before the
  first event (`AtFirst`): without it a commit could start a loop outside its
  batch.
* `DecidedOnLogHolds`: `Spec => []DecidedOnLog`, from `DecidedInv`, which adds
  `BaseReached`: the sequence a command was loaded at is one its log has
  reached. The heart is `NoConflictMeansCurrent`: if the primary key lets a
  batch in, the command was loaded at the end of the log, because every number
  up to the end is taken.
* `LogIsSerial`: on Postgres `Spec => SerialLog`, the refinement of `EventLog`.
  `SerialInv` adds that a command under way has emitted nothing yet, that no two
  handlers run the same command and that the log holds no number that was not
  issued; hence a commit maps to `Execute` and every other step to a stutter.
* `ViewExactHolds`: `Spec => []ViewExact`. `ViewInv` adds what a dispatch in
  progress has: on an aggregate that is not raced at most one handler dispatches
  (`OneAtATime`), and the row, or the copy it holds of it, is the log without
  that handler's batch (`InProgress`).
* `LookupsFollow`: `Spec => []LookupsFollowCreation`. `LookupInv` adds that what
  is being dispatched has been committed, that a row leads to a creation in the
  log, and that a creation without its row is still owed by a handler that
  has not reached the lookup query yet (`NothingForgotten`).
* `AllExactHolds`: `Spec => []AllExact`, on both stores. While no two dispatches
  have overlapped anywhere, one handler at most dispatches (`OneAnywhere`); the
  shared row is then the log except for that handler's aggregate, where it
  lacks the rest of the batch from the handler's position on (`Lacks`, `Listing`).
* `ViewsShow`: `Spec => []ViewsShowCommitted`, on both stores and with no
  condition on overlaps or faults. A row is written from a copy that may be
  stale, so `ShownInv` speaks of rows and copies alike (`ListsCommitted`); none
  has what its handler has yet to write there (`Unseen`), since the
  commands of different handlers differ (`OwnCmds`) and what is dispatched is
  committed and numbered by its place (`BatchOwn`).

Issuer:

* `IssuanceProofs!TypeCorrect`: `Spec => []TypeOK`; `TypeInv` adds what a command
  carries in each phase (`Executing`) and which locals a handler has at each
  place of its endpoint (`Equipped`); `Follows` bounds where it goes next.
* `SignedForProverHolds`, `ListedExist`, `HandedKeysResolve` (`OwnershipProofs`):
  `SignedForProver`, `ListedCredentialsExist`, `KeysResolve`, on both stores and
  from one invariant. `OwnInv` says that there is a set of drawn keys, each for
  one offer (`Drawn`), such that every row, copy, loaded aggregate, event and
  local of offer *o* has only keys drawn for *o*, credentials added to *o* whose
  view exists or is `unshown`, and subjects verified for *o* (`OwnRows`, `OwnTasks`). Since those
  sets only grow (`OwnGrows`), stale copies do no harm. Without a fault each
  drawn key is in both lookups or held by the handler about to write it
  (`Resolving`). The set is quantified because the aggregate forgets the keys
  of its earlier creations while the lookups do not.
* `AnswersOwn`: `Spec => []AnswersFromOwnOffer`. `RedeemInv` adds that a credential
  is added to one offer, by the request that created it (`OneOffer`), and that
  from the token lookup on a handler works for an offer its access token was
  handed out for (`Answering`).
* `SignaturesFinal`: on Postgres `Spec => SignatureFinal`. `SeenInv` says that a
  loaded credential of the stored version is the stored one; a commit that is
  not refused was therefore decided on a credential without a signature.

Holder:

* `HolderProofs!TypeCorrect`: `Spec => []TypeOK`; `TypeInv` adds what a command
  carries in each phase (`ExecOK`) and that what is shown next is stored.
* `OwnCredentials`: `Spec => []StoredFromOwnOffer`, on both
  stores. A handler stores what it finds in a row that others write from stale
  copies, so `WalletInv` follows tokens and credentials through every place that
  holds one: log, row, decided state, event, copy, locals, wallet. What the
  issuer handed out only grows (`Monotone`), which keeps all of them genuine.
* `TokenStays`, `AcceptanceStays` and `StatusInOrder`:
  `TokenBehindCredential`, `AcceptedNotRejected` and the action property
  `StatusOrder`, all from `OrderInv`. It says that a decided state with the
  offer's version *is* the offer's state (`Current`) and that the event about to
  be committed was allowed by the decided state (`Allowed`); `CommitAllowed`
  concludes that every commit that is not refused was allowed by the state it
  changes. `StaysAccepted` carries an acceptance from its commit to its answer.
* `AcceptanceStores`: `Spec => []AcceptStores`, on both stores. The handler stores
  what it reads back from the view, so `FulfilInv` relates the two: the size of
  an offer is known once and for all, so what a handler was told of it stays true
  until the answer (`Fulfils`, `ReceivedOnce`), what is stored and not about to be shown is shown
  or `hidden` (`Kept`), and the view of an undisturbed
  offer lacks at most the event of the one handler that dispatches on it
  (`InSync`).

Verifier:

* `VerificationProofs!TypeCorrect`: `Spec => []TypeOK`; `TypeInv` adds what a
  command carries in each phase, and of which aggregate's kind it is (`ExecOK`):
  requests and connections go through the same actions.
* `Explains`: `Spec => []ConnectionExplained`, on both stores. `ExplainInv`
  follows a response from the wallet to the row: a handler that looks for a
  request carries a posted response, the request it finds was created under
  that id with that client_id (`Named`), and so is what it emits and the copy of
  the row it writes back (`TaskExplained`). All of it only grows
  (`ByGrows`, `TaskGrows`), so that a request created again changes nothing.
* `Signs`: `Spec => SignsCurrent`. `SeenOK` says that a loaded aggregate of the
  stored version is the stored one; a commit that is not refused therefore
  signs the request it is stored beside.
* `PublishedServable` (`ServedProofs`): `Spec => []PublishedStaysServable`.
  `RowsInv` says that an undisturbed request has one dispatcher at most
  (`Alone`), whose event is all that separates row and aggregate (`Lagging`,
  `Current`), and that a row once signed stays so (`SignedRows`).
* `AnswersCurrent`: `Spec => []AnsweredIsCurrent`, from all of the above and
  `AnswerInv`: creations have different numbers (`Numbered`), and one that has
  its signature finds it over its own request as long as it is the one stored
  (`SignedGood`), in the aggregate at once and in the row when it is undisturbed.

Publishers and startup (`StartupProofs`), all from `PublishingInv /\ RunOK`:

* `PublishingInv` is about events, over all runs: a publisher is the last query
  of its chain (`Chained`), what a handler owes is an event with exactly the
  queries of its chain tried that it does not owe (`Due`), no two handlers owe the
  same event, an event is posted once at most and only when it is wanted (`Told`),
  and what nobody owes any more has been posted, if it is wanted and its type is
  its name, or is lost (`Done`). `TypesAndNames` is the fact about the names that
  the filter's soundness rests on: an `event_type` that can be listed is the name of
  the variant it belongs to.
* `RunOK` is about the run: what each phase of `main()` has established
  (`BootOK`), that only the startup task dispatches before the server listens
  (`TasksOK`), how far the view of this run's store has come after each startup
  command (`ShownOK`), and how far each store's view is from its aggregate, the
  stores of earlier runs included (`AgreeOK`).
* `PostsAsAsked` (`PostedAsConfigured`) and `PostsComeLast` (`PostedLast`) follow
  from the first, `ServesCurrent` (`ServesCurrentConfig`), `DropsOldConfigs`
  (`RenewedDropsOld`) and `ViewAgrees` (`ViewMatchesAggregate`) from the
  second, `TypeCorrect` from both. Either needs the other: the queries the startup task
  still owes tell which startup command it is at.

Only model-checked are the liveness properties, which depend on fairness and
`ENABLED` and are beyond the prover: `CommandsReturn` and `EventuallyVisible` of the
pipeline, `EveryRequestAnswered` and `CodesBecomeUsable` of the issuer,
`EveryRequestAnswered` and `ReceivedGetsStored` of the holder, `EventuallyPosted`
of the publishers. No module declares a `RECURSIVE` operator.

## Observations

The violated runs are listed with their evidence in `PROJECT.json`. Reading the
code beside the models also showed, without a run of its own:

* `POST /v0/credentials` with `isSigned` creates and adds the credential, then
  answers 500, since the unsigned data it wants to answer with is absent.
* Adding a second credential to an offer replaces the first.
* `POST /v0/offers` may answer 200 with an empty URL: it reads the view back.
* A failed signature is final (`null`), so the credential can never be obtained.
* `reject` accepts an id no offer has, and a rejected offer can be accepted.
* An acceptance answered with 200 may have stored nothing when another dispatch
  on the offer overlapped (`AcceptStores` names exactly that condition).
* All wallets share one connection: a token is overwritten by the next wallet's,
  and two responses at once conflict on Postgres, which answers one with 500.
* `VerifyAuthorizationResponse` is given the authorization request and ignores
  it: a response is not compared with what was asked.
* A request whose creation is repeated under the same state keeps serving the
  earlier signed object while the new one is signed, and for good if that fails.
* Besides the name of `publisher_claim`, `ServerMetadataInitialized` can be
  configured and is no event's type either; `CredentialOfferSent` cannot be
  configured, and the publisher's README lists `ServerMetadataLoaded`, which the
  configuration does not accept.
* On Postgres an update of `CredentialView` or `HolderCredentialView` that fails is
  printed and dropped: an offer then lists a credential that has no view, and an
  acceptance answered with 200 a credential the holder does not show
  (`ListedCredentialsExist` and `AcceptStores` name exactly that condition).
* An unsupported signing algorithm, an empty base path or a missing did:web
  document panics after the metadata in Postgres was replaced and published.
* When initializing the metadata fails and adding the configuration succeeds,
  on an empty store, the OAuth metadata is served with defaults while the issuer
  metadata is answered with 500.
* `/tmp/unicore/accept_requests` is written before the address is bound and is
  never removed.

## Not modelled

Requests that are malformed or name an unknown configuration (answered at once,
no state changes); the JSON of credentials, metadata, offers and presentation
definitions; panics of `.unwrap()` on malformed credential data; display, logos,
cache and logging settings; the text of the did:web and linkage documents, which
is computed once. Server configuration is static while the server serves, so
`Issuance` reads it as given. The secret manager's keys sit behind one mutex and
have no protocol of their own: its work is an outcome (success or failure) of the
commands that use it, and the DID it derives is what `Verification` lets change.
The shared list of all instances is not repeated in `Issuance`, `Holder` and
`Verification`, which read no such row. The endpoints that list offers or credentials
return rows of `ListAllQuery`, which `CqrsPipeline` models.

Two hazards have no property: that adding credentials replaces those an offer
had, of which the code does not say whether it is meant, and the file that marks
readiness, which no code of the repository reads.

## Plan

Done: pipeline, issuer, holder, verifier, publishers and startup, each with its
runs and with a proof of every safety property of its runs. Left: a composition
in which the holder of this agent redeems an offer of its own issuer, with the
theorem that what it stores was signed for the holder's own subject.
