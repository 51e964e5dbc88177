# A verification of http-dragonfly

http-dragonfly is an HTTP relay. A listener accepts a request, sends copies of it
to its targets, and answers with one of their responses, chosen by a *strategy*,
or with one it makes up. This directory holds TLA+ models of the parts where its
behaviour is hard to test, what TLC checks of them on small instances, and what
TLAPS proves of them for all instances. Paths such as `handler.rs` are relative
to the crate's `src/`.

## Inventory

| part | state | operations | interacts with | what makes it correct |
|---|---|---|---|---|
| startup and shutdown: `lib.rs`, `main.rs` | the list of spawned loops | configure, warm credentials, bind each listener, start the health check, join | everything; `?` and `expect` end the process | a clean exit cuts nobody off; a signal ends the process |
| accept loop: `service_loop` in `lib.rs`, `health_check.rs` | socket, JoinSet of connections, signal streams | accept, see a signal, drain, stop | one task per connection | healthy means that every listener is listening, or has seen a signal |
| signals: `signal.rs` | four streams per loop | install, wait | the loops | every loop sees the signal it was there for |
| request handler: `handler.rs` | the local variables of one call, the spawned requests | check the method, read the body, select the targets, build, sign and spawn, collect, apply `on_error`, select the response | the client, the targets, both caches | the right targets are queried, each result stays with its target, the answer is one the strategy permits, and it comes |
| response selection: `config/response.rs` | the map of responses | find_first, select, override, error response | the handler | as above |
| listener and target configuration: `config/listener.rs`, `config/target.rs` | constant after startup | validate | the handler trusts what validation has checked | what the handler unwraps is there |
| conditions: `config/target.rs` | compiled jq filter | run on a request | the handler | |
| https client cache: `config/target.rs` | process-wide map under a `std` RwLock | look up, create, insert | all requests | a client seen is there; waste is bounded; no call hangs |
| credential cache: `aws_auth/cache.rs` | one entry under a `tokio` RwLock | look up, refresh | all signed requests, the provider | one fetch at a time, and only when due; nothing expired is served; every waiter is served |
| provider registry and warming: `aws_auth/mod.rs` | the SDK configuration, a process-wide map under a `std` RwLock | look up, build, insert; warm at startup | credential cache, startup | one cache per identity, for main and all requests; nothing is served before all are warm |
| signer: `aws_auth/signer.rs` | none | region, credentials, signature | registry, credential cache | the SDK configuration is there when it signs |
| header transformations: `config/headers.rs` | none | add, update, drop | listener, target, override | the list as a whole means what it declares |
| context: `context.rs` | a chain of maps | get, iterate, derive | templates, filters | filters and templates see the same values, those of the right target |
| configuration file: `config.rs` | none | read, expand, deserialise | startup, templates | what is expanded at startup and what per request |
| command line: `cli.rs` | none | parse | startup | |

What is hard here: requests to targets run as tasks of their own and settle in
any order; the client may leave at any await, which drops the handler but not
the tasks; peers stall, where timeouts end with the head of a message; vectors
filled by different loops are matched by position; an error path is an `expect`
that is safe because of a check in another module; locks are held across
network calls or poisoned by panics; instants are read before an await and used
after it; templates are expanded twice, at startup and per request, under two orders of precedence;
listeners start one by one and can fail after the first serves.
`PROJECT.json` lists these hazards line by line.

## Modules

| module | models |
|---|---|
| `ListenerConfig` | listeners and targets as far as the handler branches on them, and their validation |
| `RelayTypes` | requests, results of targets, answers |
| `RequestHandler` | one call of `RequestHandler::handle`, its spawned tasks, its client |
| `RelayContract` | what a listener owes one request: the abstract specification |
| `CredentialCache` | `RefreshingCredentials::get_or_refresh`, its lock and time |
| `ClientCache` | `TargetConfig::get_https_client` and its lock |
| `ServiceLoop` | `run`, the accept loops, the health check, signals |
| `SharedCredentials` | the credentials of one identity to whoever asks: the abstract specification of CredentialCache and Signing |
| `Signing` | `init`, `warm`, `provider_for` and `sign_request`, over the caches of all providers |
| `Context` | the chain of maps, `get`, `iter`, and the expansion of templates |
| `Headers` | header maps, transformations, and what a list of them declares |
| `Rewriting` | the text of one exchange: loading the file, the headers and bodies sent, the override |
| `MC...` | the finite sets on which TLC runs |
| `...Proofs` | theorems with their proofs |

`RequestHandler` extends `RelayTypes`, which extends `ListenerConfig`;
`RelayContract` extends `RelayTypes` and is instantiated in `RequestHandler` with
the refinement mapping. `Rewriting` extends `Headers`, which extends `Context`.
`CredentialCache` and `Signing` both instantiate `SharedCredentials`: the first
shows that one cache, with its lock and its two lookups, is an abstract cache to
the outside; the second uses nothing else of a cache and shows that all caches of
one identity together are again a single abstract one. The https client cache and
the service loop are modules of their own. RequestHandler sees them through what they can do to a request: signing can
succeed, fail or stall (CredentialCache), an https client can be had or its
request panics (ClientCache), the client can disconnect, and the handler can be
dropped (ServiceLoop). What Rewriting says of text, RequestHandler has as whether
a header can be built.

### RequestHandler

`pc` and `pos` are the statement and the loop iteration that `handle` is in; the
other variables have the names of its local variables. Between two awaits `handle`
runs alone, yet its loops are stepped one iteration at a time, because spawned
tasks run on other threads and settle in between, and because a panic or a `?` in
an iteration leaves the effects of the ones before.

- `accepted`, `body`: RejectMethod, AcceptMethod, ReadRequestBody, RequestPanics.
- `conditions`: SelectTarget, or RouteTarget and RouteAmbiguous under
  conditional_routing; FilterPanics when a header is not text, or when routing
  meets a target without condition, which validation rules out.
- `dispatch`: SignAndSpawn, SignFails, BuildFails (the `?`s), DispatchPanics.
- SettleTask is the spawned task: a response, a connect error, another error, or
  the target's timeout. It goes on after the handler is gone.
- `collect`, `reading`: CollectSigningError, CollectError, CollectHead,
  ReadTargetBody, TargetBodyFails.
- `preprocess`: Preprocess inserts a response or a dropped one into `responses`.
- `select`: Select and the select_* functions. The order of a HashMap is a
  nondeterministic choice of the first id.
- Disconnect drops the handler at any of its awaits.

A body, a header or a template is abstracted to whether it is well formed. A
filter is a truth value for each request and target. `failed_status_regex` is
the set of statuses it matches, or no regex at all. What follows a status is
checked where the code checks it, when a response is built.

### RelayContract

It has no loops, vectors or maps: the set of eligible targets follows from the
configuration and the request; each is queried, or refused by signing, in order;
outcomes arrive; a reply is permitted if it is the response of a target that the
strategy prefers, or the override or the no-targets response when it prefers none.
The mapping takes `spawned` to `queried`, signing failures to `refused`, and all
ends without an answer to `abandoned`. That the handler does not end so without
need is the subject of other properties: NoSelfInflictedPanic, PanicsHaveCauses,
EveryStepProgresses, EndsUnlessStalled.

### CredentialCache

The lock of tokio is fair: `ahead` has, for each waiting caller, those in front of
it. `now` is the local of that name, `clock` the real time; `start`, `fetched_at`
and `at` are history variables. Cancel is a dropped future, at each of its awaits.

To SharedCredentials a cached entry is none, fresh or due, and the caller that
holds the write guard is the fetcher.

### Signing

Main goes through `init` (SkipInit, or LoadSdk and then Warm for one identity after
the other, Serve when all have been warmed); requests come with a signing target (Sign).
Both go through `provider_for`: Lookup under the read lock, then Insert, which
builds outside the lock and looks again under the write lock, where a provider that
is there already wins. In the program it never is: main alone builds providers,
one after the other, before anything is served (ServingWarm), so that the second
look of `mod.rs:132` guards against a race that the startup rules out. A provider
is told by its identity and its builder, so that two providers of one identity are
different. ServeCached, BeginFetch,
FetchSucceeds and FetchFails are what CredentialCache does to the outside; Age and
Cancel come at any time. Loading the SDK configuration is a library's.

### Context, Headers and Rewriting

A map is a function, a context the sequence of the maps of its chain. Text is cut
down to one reference or none: `${var}`, `${var:-text}` or a text; values have the
same form, because what a client or the environment provides may look like a
reference. Get asks the own map first, Collected is the map that a filter is given,
made by collecting the iterator, in which the root wins. Expand is
`env_with_context_no_errors`. Two header names that differ in `-` and `_` make one
variable; which of them it takes is a choice, as the order of a header map is.

Rewriting loads a file (Load expands each template once, with the root context),
then handles one request: Accept drops Host and makes the request's context,
TransformHeaders applies one transformation of the current list or
TransformPanics, ListenerDone keeps the result, BeginTarget clones it for each
target, SendTarget adds a Host where none is left, Relay, ReplyForDropped and MakeUp
begin the response with the context that their callers use, Override ends it.

`Declared`, in Headers, is the reference definition of a list: it says of one
header what the list leaves of it from the last drop, the first add after it and
the last update after that, with no loop. It is not code, and is what the
properties compare the loop with.

### ClientCache

A read section is one step, the write section two, with the creation between
them. A panic between them poisons the lock. A caller may call again, as the next
request does.

### ServiceLoop

Loop 0 is the health check. `conns` is the unfinished part of a JoinSet. The
process is killed by a signal only until the first stream is installed. A failed
`accept` changes nothing and is left out, and the four signals are one.

## Runs

| run | states | checks |
|---|---|---|
| Routing | 1.0 M | RoutedToOne, AnswerAfterAllSettled, NoSelfInflictedPanic, PanicsHaveCauses, ImplementsContract, EveryStepProgresses, EndsUnlessStalled |
| Strategies | 1.9 M | TypeOK, ResponsesAttributed, PanicsHaveCauses, ImplementsContract |
| CredentialCache | 475 k | TypeOK, SingleFlight, ServedValidAtStart, FetchOnlyWhenDue, ErrorOnlyWhenExpired, LockPassesOn, ImplementsShared, WaitersServed |
| Signing | 67 k | TypeOK, ServingWarm, SdkSetBeforeSigning, ImplementsShared |
| Rewriting | 556 k | TypeOK, SentAsDeclared, ReplyAsDeclared, FilterAgreesWithTemplates, OnlyReferredIsSent, TransformPanicsHaveCauses |
| ClientCache | 23 k | TypeOK, SeenStaysCached, CreationsBounded, CallsAdvance, CallsEnd |
| ServiceLoop | 10 k | TypeOK, CleanExitCutsNobody, HealthyMeansListening, ShutdownOnlyAdvances, SignalEndsProcess |
| TargetErrors, ListenerTimeout, StaleCredentials, PoisonedLock, Defaults | | a violation each, see Findings |

**Routing** takes every list of up to three targets over absent, default and
filter conditions, valid or not, duplicate ids included, and every valuation of
the filters; validation (`ListenerValid` in Init) decides which get through.
Three targets are the least with which a default, a match and a second match
meet in every order. **Strategies** takes every strategy over two targets that
are signed or not, with every `on_error`, an error status that no response can
have, present, missing and dangling selectors, overrides, and responses that are
ok or failed. Two targets give a strategy its two choices, and both `responses`
and the result vectors an order to confuse. **CredentialCache** has a caller that
fetches, one that waits and one that arrives late; three instants (`MaxTime` is 2)
hold a fetch, a half-life, an expiry and a slow failure. The callers are not made
symmetric, because the run checks liveness. **Signing** has two identities, the
default and a role, which are enough for one to fail to warm with the other warm,
and three requests beside main, so that one can fetch and be cancelled while two wait
for the same provider or one of the other identity; every set of signing targets, with and without a region.
**Rewriting** has two targets, so that one can spoil what the other is sent, and two
families of files: every list of up to two transformations of the listener with up to one of a
target, and every template in a body with overrides of up to two; drops, an
update after an add and an add after a drop fit into these, longer lists are the
subject of the proofs. Five environments define nothing, a token, a token that no
header can hold, a token that is itself a reference to a variable of the request,
or a variable that a request has too. A header or a variable
whose value is empty does not occur. **ClientCache** has three callers, two keys.
**ServiceLoop** has two listeners, so that one can fail after another serves, and
two signals.

Every property has a mutant in `PROJECT.json`: an operator beside the one it
changes, marked `Mutant` in the module, under which TLC finds the property
violated.

Deadlock is checked in every run; a request that has ended and a process that
has exited stutter explicitly (Terminated, Exited).

### Fairness

- The tokio runtime polls a future that can proceed: weak fairness of the
  handler's own steps, of the loops and of `run`.
- The timeout around each spawned request fires: weak fairness of SettleTask.
- The lock queue is served: weak fairness of UseLock for each caller. That the
  queue is FIFO is in the state, not in the fairness.
- Threads that hold or wait for the `std` lock are scheduled.
- No fairness where a peer decides: request bodies, bodies of targets, the
  credential provider, the closing of a connection, signals, disconnects. The
  liveness properties state instead what they need of the peers.

What they need is what they do not show. EndsUnlessStalled allows a request to stay
where a client, a target or a provider stalls it, and counts one that ends without
an answer as ended; EveryStepProgresses says nothing of a request that takes no
step. WaitersServed assumes that no fetch lasts for ever. SignalEndsProcess starts
when every loop has seen a signal or is about to, and assumes that connections are
closed: a signal during startup, which the loops without streams miss, is not its
subject, nor is a client that keeps its connection. HealthyMeansListening says what
a healthy answer is worth after such a signal: a listener that saw it may be gone.

## Proofs

The theorems hold for all values of the constants that satisfy the named
assumptions: any targets, listeners, requests and statuses; any callers, lifetimes
and time bound; any identities and requests that sign; any configurations,
environments and messages; any number of listeners.

- **CredentialCache.** TypeOK, SingleFlight, ServedValidAtStart, FetchOnlyWhenDue
  and ErrorOnlyWhenExpired. The inductive invariant `IInv` adds that the write
  guard and the fetch come and go together (which excludes two fetches), that the
  entry is one a past fetch stored, with the `refresh_at` that RefreshAt gives it
  (so that a hit before `refresh_at` is a hit before expiry, lemma HitIsUsable, on
  lemma RefreshAtBounds), that `start =< now =< clock` for each call, and that a
  running call has no result yet. CacheImplementsShared: each step is one of
  SharedCredentials or a stutter. A step of the clock ages the entry at most, and
  never makes a due one fresh; a cancelled caller ends the fetch only if it is the
  one with the guard. LockNeverStalls: `ahead` orders the callers that
  wait strictly (`QueueInv`), and each step of the queue keeps that order, joining
  at its end or leaving it; the callers are finitely many, so some set of those in
  front is empty, and its caller is first. That is what WaitersServed needs of the
  lock besides fairness.
- **Signing.** TypeOK, ServingWarm, SdkSetBeforeSigning and the refinement of
  SharedCredentials for every identity. The invariant says that whoever provides or
  fetches has the provider which is registered (`HoldsRegistered`), that the
  providers of two identities differ (`RegisteredApart`), that a loser's provider
  was never fetched from (`OnlyRegisteredUsed`), that the fetcher of a provider is
  the caller that awaits that fetch (`FetchesForCaller`), and that what main has
  taken from its list is warm or what it is at (`WarmInTurn`). The fetcher of an
  identity is then unique, and the mapping, which chooses it, well defined.
- **ClientCache.** TypeOK, SeenStaysCached and CreationsBounded. The count is not
  inductive alone: `MissesCounted` says that the clients created for a key and the
  callers that have missed on it and not yet created one are at most the callers,
  and `CachedOnceCreated` that no one misses once a client exists. CallsComeBackOnce:
  `StepsLeft` of a call falls with each of its steps, and no other call's step
  raises it, because an entry stays cached once it is there.
- **RequestHandler.** TypeOK, RoutedToOne, ResponsesAttributed,
  AnswerAfterAllSettled and NoSelfInflictedPanic, for any listeners that
  validation accepts, any requests and any number of targets. None of them is
  inductive alone; they share one invariant, `IInv`, whose parts follow the
  phases of the handler. `SelectionInOrder`: `targets` is strictly increasing, so
  its entries are distinct, and with validation their ids (lemma
  TargetsDistinct). `DispatchInStep`: the loop has dispatched exactly the targets
  before its position, each with its id. `ResultsInStep`: a collected result is
  the outcome of its own target and cannot change, since a task settles once.
  `ResponsesInStep`: each result seen has left its response, which no later one
  replaces because ids are distinct. `RoutingInStep`: of the targets seen so far,
  the routed one is the only match, or a default where nothing matches.
  `EndsInStep`: at most one of an answer and a panic, and an answer only where all
  tasks have settled. Most steps that end a request are alike; lemma StepCases
  folds them into `Ending`, and the lemmas on the select functions show that none
  of them meets a missing response. PanicsAreCaused adds `PresentBuildable`, that
  every response in the map has a status a response can have, so that a status
  panics a select function only where an override or `on_error` configures one.
  RequestsAreFinite: `Remaining`, the tasks that have not settled and the stages
  and positions the handler has before it, is a natural number and falls with
  each step (lemmas NextPosition, NextStage, StepMoves).
- **RelayContract.** HandlerImplementsContract: RequestHandler implements it. `RInv`
  adds to the invariant above what only the contract needs: that the loop of the
  conditions misses no target it has to take, so that with it done the eligible
  targets are the selected ones (EligibleAreChosen); that a request beyond the
  check of its method was allowed; and that `responses` has no id but those of
  selected targets. Then each id of the map is one candidate of the contract, with
  its status, or one that was dropped (Responding); a name that is given to a
  select function stands for a set of targets (StandsFor), and the select functions,
  one after the other, are shown to answer from the set that the strategy prefers.
- **Headers.** TransformAsDeclared: if the header map is what the first k
  transformations declare, then after one more round of the loop it is what the
  first k + 1 declare; an empty list declares nothing (lemma NothingDeclared). It needs that the first add
  and the last update in a longer list are the old ones, or the new transformation.
- **Rewriting.** TypeOK, SentAsDeclared, ReplyAsDeclared and
  FilterAgreesWithTemplates. The invariant says of each stage which context is
  current, and that `work` is what the first `pos - 1` transformations of the
  current list declare, where the theorem and the lemma above are the step and the start.
  SecretsStay, the theorem of OnlyReferredIsSent: of each variable of the environment
  which the file does not refer to, and whose value is nowhere else, the contexts
  hold the value under its own name only, and neither header maps nor messages
  hold it (`NothingTold`). Nothing that is expanded refers to it: not a template as
  written (`Referred`), and not what loading made of one, since a value of the
  environment may bring in a reference at that point and only then.
  TransformPanicsAreCaused follows what a transformation can be given to write
  through the two expansions: the variables of the contexts that a list refers to
  are harmless as long as their sources are, of which the chosen response is one
  that is added late (lemma ReplyKeepsCauses).
- **ServiceLoop.** TypeOK, CleanExitCutsNobody and HealthyMeansListening, from the
  order in which loops are bound, that connections are open only where a
  loop runs, that the process ends once, and that loops wind down only because of a
  signal and are cut off only when main returns (`EndsHaveCauses`). ShutdownAdvances needs that a signal
  is pending only where its stream is installed (`PendingInstalled`), so that all
  loops are bound by the time that all of them have one.

Every invariant that a run checks, and every action property, is a theorem. Only
model-checked: the liveness properties (EndsUnlessStalled, WaitersServed, CallsEnd,
SignalEndsProcess), since fairness and ENABLED are beyond the prover. The part of
each that needs no fairness is proved: that each step of a request, and of a
call for a client, lessens what remains (EveryStepProgresses, CallsAdvance), that
the lock always has somebody to go on (LockPassesOn), and that a shutdown is never undone (ShutdownOnlyAdvances).

## Findings

- **StaleNeverExpired** (`aws_auth/cache.rs:84`). A failed refresh serves the cached
  credentials if they were unexpired *before* the refresh was awaited. If the
  provider takes long to fail they are expired when served, where the test
  `errors_once_stale_credentials_truly_expire` wants an error.
- **TargetErrorsHandled** (`handler.rs:249`). A target that breaks off its body
  panics the request. `on_error`, which the manual promises for any case in which
  a response cannot be had, is not consulted.
- **ListenerTimeoutBoundsBody** (`handler.rs:76`). The listener's timeout, which the
  manual describes as covering headers and body, covers the headers only.
- **LockNeverPoisoned** (`config/target.rs:177`). A CA file that cannot be read panics
  the first request that needs it, under the write guard of the process-wide
  cache; afterwards each request of each listener panics on the poisoned lock.

- **DefaultsYieldToRequest** (`config.rs:69`). The text of the whole file is expanded at
  startup, when no request is there: `${CTX_REQUEST_QUERY:-}`, as the manual has it
  in its example of a body, is replaced by its default and never sees a query.

Divergences seen in the code that need no run: a missing AWS region is an error of
each request (`aws_auth/signer.rs:26`), where the manual says that startup fails
(`README.md:523`); `README.md:208` names `CTX_APPLICATION_NAME`, the code
`CTX_APP_NAME` (`context.rs:9`); a body that is overridden keeps the
`content-length` of the response, because it is removed from a header map that was
copied before (`config/response.rs:140`), as the manual warns (`README.md:663`) and
ReplyAsDeclared has it.

## Not modelled

- Cryptography, TLS, jq, YAML, regular expressions and hyper itself: libraries. What
  they can answer is enumerated.
- Text beyond one reference: a template with several references or with text around
  them; empty texts; URL templates; the headers that a signature adds; log lines,
  with the `unwrap`s in the arguments of `debug!` (`config/headers.rs:155` and 171),
  which panic on an old value that is not ASCII while debug logging is on.
- The jq program of a filter: it is a truth value for each request and target. Of its
  input the variables are modelled.
- The command line beyond whether there is a health check port, and the YAML of
  durations, addresses and regions: parsed by libraries, without state.
- A clock that goes backwards: SystemTime may be set back, and then the bounds on
  instants do not hold. The model's clock only advances.
- Memory: the JoinSet that is not reaped before shutdown (`lib.rs:106`).

## Plan

Done: RequestHandler with RelayContract and the refinement between them;
CredentialCache and Signing with SharedCredentials; ClientCache; ServiceLoop; Context,
Headers and Rewriting; the proofs above.

Left, in this order:

1. Templates with several references, as sequences of pieces, in Context.
2. Several requests over one ClientCache inside RequestHandler, with the poisoned
   lock as the cause of the https client panics.
