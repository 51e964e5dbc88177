------------------------------- MODULE Signing -------------------------------
(***************************************************************************)
(* Where a signed request gets its credentials from: init, warm and        *)
(* provider_for (aws_auth/mod.rs) and sign_request (aws_auth/signer.rs),   *)
(* over the credential caches, one for each provider that has been built.  *)
(* Of a cache only what CredentialCache is shown to implement is kept: see *)
(* SharedCredentials.                                                      *)
(*                                                                         *)
(* Processes: main, which warms the credentials before any listener is     *)
(* bound, and the requests that sign.                                      *)
(***************************************************************************)
CONSTANTS
  Identities, \* keys of CREDENTIALS: the default identity and role ARNs
  Default,    \* the key None
  Requests,   \* requests that sign at the same time
  Main,       \* the task that runs init
  None        \* no provider, no caller, no identity

ASSUME SigningAssumption ==
  /\ Default \in Identities
  /\ Main \notin Requests
  /\ None \notin Identities /\ None \notin Requests \cup {Main}
  /\ None \notin Identities \X (Requests \cup {Main})

Option(S) == {None} \cup S
Callers == Requests \cup {Main}

\* A provider is told by its identity and by who has built it.
Providers == Identities \X Callers

\* AwsSigV4Config: whose credentials, and whether `region` is configured
Targets == [identity : Identities, region : BOOLEAN]

VARIABLES
  targets,    \* the signing targets of all listeners, fixed
  sdk_region, \* whether the SDK resolves a region, fixed
  phase,      \* where the process is
  sdk,        \* whether SDK_CONFIG is set
  todo,       \* identities init has not warmed yet
  registry,   \* CREDENTIALS: the provider of each identity
  entry,      \* the age of what each provider has cached
  fetcher,    \* on whose behalf each provider fetches
  pc,         \* where each caller is
  identity,   \* the identity each caller asks for
  provider    \* the provider each caller has been given

fixed == <<targets, sdk_region>>
process == <<phase, sdk, todo>>
caches == <<entry, fetcher>>
callers == <<pc, identity, provider>>
vars == <<fixed, process, registry, caches, callers>>

Entries == {"none", "fresh", "due"}
Ended == {"done", "failed", "no_region", "panicked"}
Running == {"lookup", "build", "provide", "fetch"}

Init ==
  /\ targets \in SUBSET Targets
  /\ sdk_region \in BOOLEAN
  /\ phase = "start" /\ sdk = FALSE
  /\ todo = {}
  /\ registry = [i \in Identities |-> None]
  /\ entry = [p \in Providers |-> "none"]
  /\ fetcher = [p \in Providers |-> None]
  /\ pc = [c \in Callers |-> "idle"]
  /\ identity = [c \in Callers |-> None]
  /\ provider = [c \in Callers |-> None]

Goto(c, label) == pc' = [pc EXCEPT ![c] = label]

-----------------------------------------------------------------------------
(* init and warm                                                            *)

Required == {t.identity : t \in targets}

\* Mutant: a target without a role is taken for one that does not sign.
SkipInitWithoutRoles ==
  /\ phase = "start" /\ Required \subseteq {Default}
  /\ phase' = "serving"
  /\ UNCHANGED <<fixed, sdk, todo, registry, caches, callers>>

SkipInit ==
  /\ phase = "start" /\ targets = {}
  /\ phase' = "serving"
  /\ UNCHANGED <<fixed, sdk, todo, registry, caches, callers>>

LoadSdk ==
  /\ phase = "start" /\ targets # {}
  /\ phase' = "warming"
  /\ sdk' = TRUE
  /\ todo' = Required
  /\ UNCHANGED <<fixed, registry, caches, callers>>

\* The default identity comes first, the roles in the order of a HashSet.
Warm(i) ==
  /\ phase = "warming" /\ pc[Main] \in {"idle", "done"}
  /\ i \in todo /\ (Default \in todo => i = Default)
  /\ todo' = todo \ {i}
  /\ Goto(Main, "lookup")
  /\ identity' = [identity EXCEPT ![Main] = i]
  /\ UNCHANGED <<fixed, phase, sdk, registry, caches, provider>>

\* Mutant: the roles are warmed only if the default identity is not.
ServeAfterDefault ==
  /\ phase = "warming" /\ pc[Main] = "done"
  /\ todo = {} \/ identity[Main] = Default
  /\ phase' = "serving"
  /\ UNCHANGED <<fixed, sdk, todo, registry, caches, callers>>

Serve ==
  /\ phase = "warming" /\ pc[Main] = "done" /\ todo = {}
  /\ phase' = "serving"
  /\ UNCHANGED <<fixed, sdk, todo, registry, caches, callers>>

\* The error leaves run() before any listener is bound.
WarmFails ==
  /\ phase = "warming" /\ pc[Main] = "failed"
  /\ phase' = "failed"
  /\ UNCHANGED <<fixed, sdk, todo, registry, caches, callers>>

-----------------------------------------------------------------------------
(* sign_request up to its first await                                       *)

HasRegion(t) == t.region \/ sdk_region

Sign(c, t) ==
  /\ phase = "serving" /\ pc[c] \in Ended \cup {"idle"}
  /\ Goto(c, IF ~sdk THEN "panicked" ELSE IF HasRegion(t) THEN "lookup" ELSE "no_region")
  /\ identity' = [identity EXCEPT ![c] = t.identity]
  /\ provider' = [provider EXCEPT ![c] = None]
  /\ UNCHANGED <<fixed, process, registry, caches>>

-----------------------------------------------------------------------------
(* provider_for                                                             *)

Lookup(c) ==
  /\ pc[c] = "lookup"
  /\ provider' = [provider EXCEPT ![c] = registry[identity[c]]]
  /\ Goto(c, IF registry[identity[c]] = None THEN "build" ELSE "provide")
  /\ UNCHANGED <<fixed, process, registry, caches, identity>>

\* Mutant: the provider is built and used, but not registered.
InsertForgotten(c) ==
  /\ pc[c] = "build"
  /\ provider' = [provider EXCEPT ![c] = <<identity[c], c>>]
  /\ Goto(c, "provide")
  /\ UNCHANGED <<fixed, process, registry, caches, identity>>

\* Built without the lock; the first to take it wins (entry().or_insert()).
Insert(c) ==
  /\ pc[c] = "build"
  /\ LET i == identity[c]
         winner == IF registry[i] = None THEN <<i, c>> ELSE registry[i]
     IN  /\ registry' = [registry EXCEPT ![i] = winner]
         /\ provider' = [provider EXCEPT ![c] = winner]
  /\ Goto(c, "provide")
  /\ UNCHANGED <<fixed, process, caches, identity>>

-----------------------------------------------------------------------------
(* provide_credentials on the caller's provider                             *)

\* Whether the entry is fresh is judged by when the call began.
ServeCached(c) ==
  /\ pc[c] = "provide" /\ fetcher[provider[c]] = None
  /\ entry[provider[c]] # "none"
  /\ Goto(c, "done")
  /\ UNCHANGED <<fixed, process, registry, caches, identity, provider>>

BeginFetch(c) ==
  /\ pc[c] = "provide" /\ fetcher[provider[c]] = None
  /\ entry[provider[c]] # "fresh"
  /\ fetcher' = [fetcher EXCEPT ![provider[c]] = c]
  /\ Goto(c, "fetch")
  /\ UNCHANGED <<fixed, process, registry, entry, identity, provider>>

FetchSucceeds(c) ==
  /\ pc[c] = "fetch"
  /\ fetcher' = [fetcher EXCEPT ![provider[c]] = None]
  /\ \E age \in {"fresh", "due"} : entry' = [entry EXCEPT ![provider[c]] = age]
  /\ Goto(c, "done")
  /\ UNCHANGED <<fixed, process, registry, identity, provider>>

\* Mutant: the failure itself is cached.
FetchFailsCaching(c) ==
  /\ pc[c] = "fetch"
  /\ fetcher' = [fetcher EXCEPT ![provider[c]] = None]
  /\ entry' = [entry EXCEPT ![provider[c]] = "failed"]
  /\ Goto(c, "failed")
  /\ UNCHANGED <<fixed, process, registry, identity, provider>>

\* Credentials that are due may still be valid, and then they are served.
FetchFails(c) ==
  /\ pc[c] = "fetch"
  /\ fetcher' = [fetcher EXCEPT ![provider[c]] = None]
  /\ \/ Goto(c, "failed")
     \/ entry[provider[c]] = "due" /\ Goto(c, "done")
  /\ UNCHANGED <<fixed, process, registry, entry, identity, provider>>

Age(p) ==
  /\ entry[p] = "fresh"
  /\ entry' = [entry EXCEPT ![p] = "due"]
  /\ UNCHANGED <<fixed, process, registry, fetcher, callers>>

\* The awaits of a caller; building the default provider has none.
Awaits(c) == {"provide", "fetch"} \cup (IF identity[c] = Default THEN {} ELSE {"build"})

\* A request is dropped at an await.
Cancel(c) ==
  /\ pc[c] \in Awaits(c)
  /\ Goto(c, "idle")
  /\ fetcher' = IF pc[c] = "fetch" THEN [fetcher EXCEPT ![provider[c]] = None] ELSE fetcher
  /\ identity' = [identity EXCEPT ![c] = None]
  /\ provider' = [provider EXCEPT ![c] = None]
  /\ UNCHANGED <<fixed, process, registry, entry>>

-----------------------------------------------------------------------------
Startup == SkipInit \/ LoadSdk \/ (\E i \in Identities : Warm(i)) \/ Serve \/ WarmFails

ProviderFor(c) == Lookup(c) \/ Insert(c)

Provide(c) == ServeCached(c) \/ BeginFetch(c) \/ FetchSucceeds(c) \/ FetchFails(c)

\* Nothing signs, or nothing runs any more.
Quiet == (phase = "failed" \/ (phase = "serving" /\ targets = {})) /\ UNCHANGED vars

Next ==
  \/ Startup
  \/ \E c \in Callers : ProviderFor(c) \/ Provide(c)
  \/ \E c \in Requests : Cancel(c) \/ \E t \in targets : Sign(c, t)
  \/ \E p \in Providers : Age(p)
  \/ Quiet

Spec == Init /\ [][Next]_vars

-----------------------------------------------------------------------------
(* Type correctness of the statics, the caches and the callers.             *)
TypeOK ==
  /\ targets \subseteq Targets
  /\ sdk_region \in BOOLEAN
  /\ phase \in {"start", "warming", "serving", "failed"}
  /\ sdk \in BOOLEAN
  /\ todo \subseteq Identities
  /\ registry \in [Identities -> Option(Providers)]
  /\ entry \in [Providers -> Entries]
  /\ fetcher \in [Providers -> Option(Callers)]
  /\ pc \in [Callers -> {"idle"} \cup Running \cup Ended]
  /\ identity \in [Callers -> Option(Identities)]
  /\ provider \in [Callers -> Option(Providers)]

\* Whoever fetches for an identity, from whichever of its providers
FetchersOf(i) == {c \in Callers : pc[c] = "fetch" /\ identity[c] = i}

Identity(i) == INSTANCE SharedCredentials WITH
  entry <- IF registry[i] = None THEN "none" ELSE entry[registry[i]],
  fetcher <- IF FetchersOf(i) = {} THEN None ELSE CHOOSE c \in FetchersOf(i) : TRUE

(* README.md:541 to 545 and mod.rs:132: all targets of one identity share   *)
(* one cache, from the warming at startup to the last request.  What is     *)
(* fetched for an identity, by main or by any number of requests and from   *)
(* whichever provider each of them was given, is what a single cache would  *)
(* fetch, through failures and cancellations.  This is                      *)
(* \A i \in Identities : Identity(i)!Spec in the form that TLC checks.      *)
ImplementsShared ==
  /\ \A i \in Identities : Identity(i)!Init
  /\ [][\A i \in Identities : [Identity(i)!Next]_(Identity(i)!vars)]_vars

(* A process that serves has warmed every identity its targets use: each    *)
(* has a provider that has fetched, so no request builds one, and only      *)
(* main was ever the first to ask.                                          *)
ServingWarm ==
  phase = "serving" =>
    /\ \A i \in Required : registry[i] # None /\ entry[registry[i]] # "none"
    /\ \A c \in Requests : pc[c] # "build"

(* signer.rs:22, "AWS SDK must be initialized before signing a request":    *)
(* init decides from the whole configuration whether to set it, in another  *)
(* module, and no request may come before it has.                           *)
SdkSetBeforeSigning == \A c \in Callers : pc[c] # "panicked"
=============================================================================
