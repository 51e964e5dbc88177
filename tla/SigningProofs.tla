---------------------------- MODULE SigningProofs ----------------------------
(***************************************************************************)
(* Proofs about Signing, for any identities and any requests.              *)
(***************************************************************************)
EXTENDS Signing, TLAPS

-----------------------------------------------------------------------------
(* The strengthening that makes the properties inductive.                   *)

\* A caller that is under way asks for an identity, and what it has been
\* given is the provider of that identity.
HoldsRegistered ==
  \A c \in Callers :
    /\ pc[c] \in Running => identity[c] \in Identities
    /\ pc[c] \in {"provide", "fetch"} =>
         registry[identity[c]] # None /\ provider[c] = registry[identity[c]]

\* The providers of different identities are different.
RegisteredApart == \A i \in Identities : registry[i] # None => registry[i][1] = i

\* The losers of provider_for are never fetched from.
OnlyRegisteredUsed ==
  \A p \in Providers : registry[p[1]] # p => entry[p] = "none"

\* A provider fetches for whoever is in its fetch.
FetchesForCaller ==
  \A c \in Callers : \A p \in Providers :
    fetcher[p] = c <=> pc[c] = "fetch" /\ provider[c] = p

\* Requests sign, for targets of the configuration, once the process serves.
RequestsServed ==
  \A c \in Requests :
    /\ phase # "serving" => pc[c] = "idle"
    /\ pc[c] \in Running => identity[c] \in Required

\* Main warms before that, and with the SDK configuration set.
MainWarms ==
  /\ phase \in {"start", "serving"} => pc[Main] \in {"idle", "done"}
  /\ phase = "warming" => sdk
  /\ phase = "serving" /\ targets # {} => sdk

IsWarm(i) == registry[i] # None /\ entry[registry[i]] # "none"

\* What main has taken from its list is warm, or is what it is at.
WarmInTurn ==
  phase = "warming" =>
    \A i \in Required \ todo :
      IsWarm(i) \/ (identity[Main] = i /\ pc[Main] \in Running \cup {"failed"})

IInv ==
  /\ TypeOK
  /\ HoldsRegistered
  /\ RegisteredApart
  /\ OnlyRegisteredUsed
  /\ FetchesForCaller
  /\ RequestsServed
  /\ MainWarms
  /\ WarmInTurn
  /\ ServingWarm
  /\ SdkSetBeforeSigning

LEMMA InvInitial == Init => IInv
<1> SUFFICES ASSUME Init PROVE IInv
  OBVIOUS
<1> USE DEF Init
<1>1. TypeOK
  BY DEF TypeOK, Option, Running, Ended, Entries
<1>2. HoldsRegistered /\ RegisteredApart /\ SdkSetBeforeSigning
  BY DEF HoldsRegistered, RegisteredApart, SdkSetBeforeSigning, Running
<1>5. OnlyRegisteredUsed
  BY DEF OnlyRegisteredUsed
<1>3. FetchesForCaller
  BY SigningAssumption DEF FetchesForCaller, Callers
<1>4. RequestsServed /\ MainWarms /\ WarmInTurn /\ ServingWarm
  BY DEF RequestsServed, MainWarms, WarmInTurn, ServingWarm, Callers, Running
<1> QED
  BY <1>1, <1>2, <1>3, <1>4, <1>5 DEF IInv

-----------------------------------------------------------------------------
LEMMA TypePreserved == IInv /\ [Next]_vars => TypeOK'
<1> SUFFICES ASSUME IInv, [Next]_vars
             PROVE  TypeOK'
  OBVIOUS
<1> USE DEF IInv, TypeOK, fixed, process, caches, callers
<1>1. CASE Startup
  <2>1. Required \subseteq Identities
    BY DEF Required, Targets
  <2>2. CASE SkipInit \/ LoadSdk \/ Serve \/ WarmFails
    BY <2>1, <2>2 DEF SkipInit, LoadSdk, Serve, WarmFails
  <2>3. ASSUME NEW i \in Identities, Warm(i) PROVE TypeOK'
    BY <2>3 DEF Warm, Goto, Running, Option
  <2> QED
    BY <1>1, <2>2, <2>3 DEF Startup
<1>2. ASSUME NEW c \in Callers, Lookup(c) PROVE TypeOK'
  BY <1>2 DEF Lookup, Goto, HoldsRegistered, Running, Option
<1>3. ASSUME NEW c \in Callers, Insert(c) PROVE TypeOK'
  <2>1. identity[c] \in Identities
    BY <1>3 DEF Insert, HoldsRegistered, Running
  <2>2. <<identity[c], c>> \in Providers
    BY <2>1 DEF Providers
  <2> QED
    BY <1>3, <2>1, <2>2 DEF Insert, Goto, Running, Option
<1>4. ASSUME NEW c \in Callers, Provide(c) PROVE TypeOK'
  <2>1. provider[c] \in Providers
    BY <1>4 DEF Provide, ServeCached, BeginFetch, FetchSucceeds, FetchFails, HoldsRegistered,
                Running, Option
  <2> QED
    BY <1>4, <2>1 DEF Provide, ServeCached, BeginFetch, FetchSucceeds, FetchFails, Goto, Running,
                Ended, Option, Entries
<1>5. ASSUME NEW c \in Requests, Cancel(c) PROVE TypeOK'
  BY <1>5 DEF Cancel, Awaits, Goto, Option, Callers
<1>6. ASSUME NEW c \in Requests, NEW t \in targets, Sign(c, t) PROVE TypeOK'
  BY <1>6 DEF Sign, Goto, Option, Callers, Running, Ended, Targets
<1>7. ASSUME NEW p \in Providers, Age(p) PROVE TypeOK'
  BY <1>7 DEF Age, Entries
<1>8. CASE UNCHANGED vars
  BY <1>8 DEF vars
<1> QED
  BY <1>1, <1>2, <1>3, <1>4, <1>5, <1>6, <1>7, <1>8 DEF Next, ProviderFor, Quiet

LEMMA InvPreserved == IInv /\ [Next]_vars => IInv'
<1> SUFFICES ASSUME IInv, [Next]_vars
             PROVE  IInv'
  OBVIOUS
<1> USE DEF IInv
<1>0. TypeOK'
  BY TypePreserved
<1>a. Main \in Callers /\ Requests \subseteq Callers /\ Main \notin Requests
  BY SigningAssumption DEF Callers
<1>b. None \notin Callers
  BY SigningAssumption DEF Callers
<1>1. CASE SkipInit \/ LoadSdk \/ Serve \/ WarmFails
  <2> USE <1>1, <1>a DEF SkipInit, LoadSdk, Serve, WarmFails, fixed, caches, callers
  <2>0. UNCHANGED <<targets, sdk_region, registry, entry, fetcher, pc, identity, provider>>
    OBVIOUS
  <2>1. HoldsRegistered' /\ RegisteredApart' /\ OnlyRegisteredUsed' /\ FetchesForCaller'
        /\ SdkSetBeforeSigning'
    BY <2>0 DEF HoldsRegistered, RegisteredApart, OnlyRegisteredUsed, FetchesForCaller,
                SdkSetBeforeSigning
  <2>2. Required' = Required
    BY <2>0 DEF Required
  <2>3. RequestsServed'
    BY <2>0, <2>2 DEF RequestsServed, Running
  <2>4. MainWarms'
    BY <2>0 DEF MainWarms, TypeOK
  <2>5. WarmInTurn'
    BY <2>0, <2>2 DEF WarmInTurn, MainWarms, IsWarm
  <2>6. ServingWarm'
    <3>1. \A i \in Required \ todo : phase = "warming" /\ pc[Main] = "done" => IsWarm(i)
      BY DEF WarmInTurn, Running
    <3>2. targets = {} => Required = {}
      BY DEF Required
    <3>3. phase # "serving" => \A c \in Requests : pc[c] = "idle"
      BY DEF RequestsServed
    <3> QED
      BY <2>0, <2>2, <3>1, <3>2, <3>3 DEF ServingWarm, IsWarm
  <2> QED
    BY <1>0, <2>1, <2>3, <2>4, <2>5, <2>6
<1>2. ASSUME NEW i \in Identities, Warm(i) PROVE IInv'
  <2> USE <1>2, <1>a DEF Warm, Goto, fixed, caches
  <2>0. /\ UNCHANGED <<targets, sdk_region, phase, sdk, registry, entry, fetcher, provider>>
        /\ pc' = [pc EXCEPT ![Main] = "lookup"] /\ identity' = [identity EXCEPT ![Main] = i]
        /\ pc[Main] \in {"idle", "done"} /\ todo' = todo \ {i}
        /\ phase = "warming"
    OBVIOUS
  <2>1. HoldsRegistered'
    BY <2>0 DEF HoldsRegistered, TypeOK
  <2>2. RegisteredApart' /\ OnlyRegisteredUsed' /\ SdkSetBeforeSigning'
    BY <2>0 DEF RegisteredApart, OnlyRegisteredUsed, SdkSetBeforeSigning, TypeOK
  <2>3. FetchesForCaller'
    BY <2>0 DEF FetchesForCaller, TypeOK
  <2>4. RequestsServed' /\ MainWarms'
    BY <2>0 DEF RequestsServed, MainWarms, TypeOK, Required
  <2>5. WarmInTurn'
    <3>1. \A j \in Required \ todo : IsWarm(j)
      BY <2>0 DEF WarmInTurn, Running
    <3> QED
      BY <2>0, <3>1 DEF WarmInTurn, IsWarm, Required, Running, TypeOK
  <2>6. ServingWarm'
    BY <2>0 DEF ServingWarm
  <2> QED
    BY <1>0, <2>1, <2>2, <2>3, <2>4, <2>5, <2>6
<1>3. ASSUME NEW c \in Callers, Lookup(c) PROVE IInv'
  <2>0. /\ UNCHANGED <<targets, sdk_region, phase, sdk, todo, registry, entry, fetcher, identity>>
        /\ pc[c] = "lookup"
        /\ pc' = [pc EXCEPT ![c] = IF registry[identity[c]] = None THEN "build" ELSE "provide"]
        /\ provider' = [provider EXCEPT ![c] = registry[identity[c]]]
    BY <1>3 DEF Lookup, Goto, fixed, process, caches
  <2>1. HoldsRegistered'
    BY <2>0 DEF HoldsRegistered, TypeOK, Running
  <2>2. RegisteredApart' /\ OnlyRegisteredUsed' /\ SdkSetBeforeSigning'
    BY <2>0 DEF RegisteredApart, OnlyRegisteredUsed, SdkSetBeforeSigning, TypeOK
  <2>3. FetchesForCaller'
    BY <2>0 DEF FetchesForCaller, TypeOK
  <2>4. RequestsServed' /\ MainWarms'
    BY <1>a, <2>0 DEF RequestsServed, MainWarms, TypeOK, Required, Running
  <2>5. WarmInTurn'
    BY <1>a, <2>0 DEF WarmInTurn, IsWarm, Required, Running, TypeOK
  <2>6. ServingWarm'
    BY <1>a, <2>0 DEF ServingWarm, RequestsServed, Required, Running, TypeOK
  <2> QED
    BY <1>0, <2>1, <2>2, <2>3, <2>4, <2>5, <2>6
<1>4. ASSUME NEW c \in Callers, Insert(c) PROVE IInv'
  <2> DEFINE i == identity[c]
             winner == IF registry[i] = None THEN <<i, c>> ELSE registry[i]
  <2>0. /\ UNCHANGED <<targets, sdk_region, phase, sdk, todo, entry, fetcher, identity>>
        /\ pc[c] = "build"
        /\ pc' = [pc EXCEPT ![c] = "provide"]
        /\ provider' = [provider EXCEPT ![c] = winner]
        /\ registry' = [registry EXCEPT ![i] = winner]
    BY <1>4 DEF Insert, Goto, fixed, process, caches
  <2>1. i \in Identities
    BY <2>0 DEF HoldsRegistered, Running
  <2>2. winner # None /\ winner[1] = i /\ winner \in Providers
    BY <2>1, SigningAssumption DEF RegisteredApart, TypeOK, Option, Providers, Callers
  <2> HIDE DEF winner
  <2>3. registry[i] # None => winner = registry[i]
    BY DEF winner
  <2>4. HoldsRegistered'
    BY <2>0, <2>1, <2>2, <2>3 DEF HoldsRegistered, TypeOK, Running
  <2>5. RegisteredApart' /\ SdkSetBeforeSigning'
    BY <2>0, <2>1, <2>2 DEF RegisteredApart, SdkSetBeforeSigning, TypeOK
  <2>11. OnlyRegisteredUsed'
    <3> SUFFICES ASSUME NEW p \in Providers, registry'[p[1]] # p PROVE entry[p] = "none"
      BY <2>0 DEF OnlyRegisteredUsed
    <3>1. CASE p[1] = i
      <4>1. registry'[i] = winner
        BY <2>0, <2>1 DEF TypeOK
      <4>2. registry[i] # p
        BY <2>3, <3>1, <4>1, SigningAssumption DEF Providers, Callers
      <4> QED
        BY <3>1, <4>2 DEF OnlyRegisteredUsed
    <3>2. CASE p[1] # i
      BY <2>0, <3>2 DEF OnlyRegisteredUsed, TypeOK, Providers
    <3> QED
      BY <3>1, <3>2
  <2>6. FetchesForCaller'
    BY <2>0 DEF FetchesForCaller, TypeOK
  <2>7. RequestsServed' /\ MainWarms'
    BY <1>a, <2>0 DEF RequestsServed, MainWarms, TypeOK, Required, Running
  <2>8. \A j \in Identities : IsWarm(j) => IsWarm(j)'
    BY <2>0, <2>1, <2>3 DEF IsWarm, TypeOK
  <2>9. WarmInTurn'
    BY <1>a, <2>0, <2>8 DEF WarmInTurn, Required, Targets, Running, TypeOK
  <2>10. ServingWarm'
    BY <1>a, <2>0, <2>8 DEF ServingWarm, IsWarm, Required, Targets, TypeOK
  <2> QED
    BY <1>0, <2>4, <2>5, <2>6, <2>7, <2>9, <2>10, <2>11
<1>5. ASSUME NEW c \in Callers, ServeCached(c) PROVE IInv'
  <2>0. /\ UNCHANGED <<targets, sdk_region, phase, sdk, todo, registry, entry, fetcher,
                       identity, provider>>
        /\ pc[c] = "provide" /\ pc' = [pc EXCEPT ![c] = "done"]
        /\ entry[provider[c]] # "none"
    BY <1>5 DEF ServeCached, Goto, fixed, process, caches
  <2>1. IsWarm(identity[c])
    BY <2>0 DEF HoldsRegistered, IsWarm
  <2>2. HoldsRegistered'
    BY <2>0 DEF HoldsRegistered, TypeOK, Running
  <2>3. RegisteredApart' /\ OnlyRegisteredUsed' /\ SdkSetBeforeSigning'
    BY <2>0 DEF RegisteredApart, OnlyRegisteredUsed, SdkSetBeforeSigning, TypeOK
  <2>4. FetchesForCaller'
    BY <2>0 DEF FetchesForCaller, TypeOK
  <2>5. RequestsServed' /\ MainWarms'
    BY <1>a, <2>0 DEF RequestsServed, MainWarms, TypeOK, Required, Running
  <2>6. WarmInTurn'
    BY <1>a, <2>0, <2>1 DEF WarmInTurn, IsWarm, Required, Running, TypeOK
  <2>7. ServingWarm'
    BY <1>a, <2>0 DEF ServingWarm, Required, TypeOK
  <2> QED
    BY <1>0, <2>2, <2>3, <2>4, <2>5, <2>6, <2>7
<1>6. ASSUME NEW c \in Callers, BeginFetch(c) PROVE IInv'
  <2>0. /\ UNCHANGED <<targets, sdk_region, phase, sdk, todo, registry, entry, identity, provider>>
        /\ pc[c] = "provide" /\ pc' = [pc EXCEPT ![c] = "fetch"]
        /\ fetcher[provider[c]] = None /\ fetcher' = [fetcher EXCEPT ![provider[c]] = c]
    BY <1>6 DEF BeginFetch, Goto, fixed, process
  <2>1. HoldsRegistered'
    BY <2>0 DEF HoldsRegistered, TypeOK, Running
  <2>2. RegisteredApart' /\ OnlyRegisteredUsed' /\ SdkSetBeforeSigning'
    BY <2>0 DEF RegisteredApart, OnlyRegisteredUsed, SdkSetBeforeSigning, TypeOK
  <2>3. FetchesForCaller'
    <3>1. provider[c] \in Providers
      BY <2>0 DEF HoldsRegistered, Running, TypeOK, Option
    <3>2. \A d \in Callers : ~(pc[d] = "fetch" /\ provider[d] = provider[c])
      BY <1>b, <2>0, <3>1 DEF FetchesForCaller
    <3> QED
      BY <2>0, <3>1, <3>2 DEF FetchesForCaller, TypeOK
  <2>4. RequestsServed' /\ MainWarms'
    BY <1>a, <2>0 DEF RequestsServed, MainWarms, TypeOK, Required, Running
  <2>5. WarmInTurn'
    BY <1>a, <2>0 DEF WarmInTurn, IsWarm, Required, Running, TypeOK
  <2>6. ServingWarm'
    BY <1>a, <2>0 DEF ServingWarm, Required, TypeOK
  <2> QED
    BY <1>0, <2>1, <2>2, <2>3, <2>4, <2>5, <2>6
<1>7. ASSUME NEW c \in Callers, FetchSucceeds(c) \/ FetchFails(c) PROVE IInv'
  <2>0. /\ UNCHANGED <<targets, sdk_region, phase, sdk, todo, registry, identity, provider>>
        /\ pc[c] = "fetch" /\ fetcher' = [fetcher EXCEPT ![provider[c]] = None]
        /\ entry' = entry \/ \E age \in {"fresh", "due"} : entry' = [entry EXCEPT ![provider[c]] = age]
        /\ \/ pc' = [pc EXCEPT ![c] = "failed"]
           \/ pc' = [pc EXCEPT ![c] = "done"] /\ entry'[provider[c]] # "none"
    <3>1. provider[c] \in Providers
      BY <1>7 DEF FetchSucceeds, FetchFails, HoldsRegistered, Running, TypeOK, Option
    <3> QED
      BY <1>7, <3>1 DEF FetchSucceeds, FetchFails, Goto, fixed, process, TypeOK
  <2>1. provider[c] \in Providers
    BY <2>0 DEF HoldsRegistered, Running, TypeOK, Option
  <2>2. pc' \in [Callers -> {"idle"} \cup Running \cup Ended] /\ pc'[c] \in {"done", "failed"}
        /\ \A d \in Callers \ {c} : pc'[d] = pc[d]
    BY <1>0, <2>0 DEF TypeOK
  <2>3. HoldsRegistered'
    BY <2>0, <2>2 DEF HoldsRegistered, Running
  <2>4. RegisteredApart' /\ SdkSetBeforeSigning'
    BY <2>0, <2>2 DEF RegisteredApart, SdkSetBeforeSigning
  <2>11. OnlyRegisteredUsed'
    <3>1. registry[provider[c][1]] = provider[c]
      BY <2>0, <2>1 DEF HoldsRegistered, RegisteredApart, Running
    <3> QED
      BY <2>0, <2>1, <3>1 DEF OnlyRegisteredUsed, TypeOK
  <2>5. FetchesForCaller'
    <3>1. fetcher[provider[c]] = c
      BY <2>0, <2>1 DEF FetchesForCaller
    <3>2. \A d \in Callers \ {c} : ~(pc[d] = "fetch" /\ provider[d] = provider[c])
      BY <2>1, <3>1 DEF FetchesForCaller
    <3> QED
      BY <1>b, <2>0, <2>1, <2>2, <3>2 DEF FetchesForCaller, TypeOK
  <2>6. RequestsServed' /\ MainWarms'
    BY <1>a, <2>0, <2>2 DEF RequestsServed, MainWarms, Required, Running
  <2>7. \A j \in Identities : IsWarm(j) => IsWarm(j)'
    BY <2>0, <2>1 DEF IsWarm, TypeOK, Option
  <2>8. pc'[c] = "done" => IsWarm(identity[c])'
    BY <2>0, <2>2 DEF IsWarm, HoldsRegistered
  <2>9. WarmInTurn'
    <3> SUFFICES ASSUME phase = "warming", NEW j \in Required \ todo
                 PROVE  IsWarm(j)' \/ (identity[Main] = j /\ pc'[Main] \in Running \cup {"failed"})
      BY <2>0 DEF WarmInTurn, Required
    <3>1. j \in Identities
      BY DEF Required, Targets, TypeOK
    <3>2. CASE c = Main
      BY <2>0, <2>2, <2>7, <2>8, <3>1, <3>2 DEF WarmInTurn
    <3>3. CASE c # Main
      BY <1>a, <2>2, <2>7, <3>1, <3>3 DEF WarmInTurn
    <3> QED
      BY <3>2, <3>3
  <2>10. ServingWarm'
    BY <1>a, <2>0, <2>2, <2>7 DEF ServingWarm, IsWarm, Required, Targets, TypeOK
  <2> QED
    BY <1>0, <2>3, <2>4, <2>5, <2>6, <2>9, <2>10, <2>11
<1>8. ASSUME NEW p \in Providers, Age(p) PROVE IInv'
  <2>0. /\ UNCHANGED <<targets, sdk_region, phase, sdk, todo, registry, fetcher, pc, identity, provider>>
        /\ entry' = [entry EXCEPT ![p] = "due"]
    BY <1>8 DEF Age, fixed, process, callers
  <2>1. HoldsRegistered' /\ RegisteredApart' /\ FetchesForCaller' /\ SdkSetBeforeSigning'
    BY <2>0 DEF HoldsRegistered, RegisteredApart, FetchesForCaller, SdkSetBeforeSigning
  <2>5. OnlyRegisteredUsed'
    <3>1. registry[p[1]] = p
      BY <1>8 DEF Age, OnlyRegisteredUsed
    <3> QED
      BY <2>0, <3>1 DEF OnlyRegisteredUsed, TypeOK
  <2>2. RequestsServed' /\ MainWarms'
    BY <2>0 DEF RequestsServed, MainWarms, Required
  <2>3. \A j \in Identities : IsWarm(j) => IsWarm(j)'
    BY <2>0 DEF IsWarm, TypeOK, Option
  <2>4. WarmInTurn' /\ ServingWarm'
    BY <2>0, <2>3 DEF WarmInTurn, ServingWarm, IsWarm, Required, Targets, TypeOK
  <2> QED
    BY <1>0, <2>1, <2>2, <2>4, <2>5
<1>9. ASSUME NEW c \in Requests, Cancel(c) PROVE IInv'
  <2>0. /\ UNCHANGED <<targets, sdk_region, phase, sdk, todo, registry, entry>>
        /\ pc[c] \in {"build", "provide", "fetch"}
        /\ pc' = [pc EXCEPT ![c] = "idle"] /\ identity' = [identity EXCEPT ![c] = None]
        /\ provider' = [provider EXCEPT ![c] = None]
        /\ fetcher' = IF pc[c] = "fetch" THEN [fetcher EXCEPT ![provider[c]] = None] ELSE fetcher
    BY <1>9 DEF Cancel, Awaits, Goto, fixed, process
  <2>1. HoldsRegistered'
    BY <1>a, <2>0 DEF HoldsRegistered, TypeOK, Running
  <2>2. RegisteredApart' /\ OnlyRegisteredUsed' /\ SdkSetBeforeSigning'
    BY <1>a, <2>0 DEF RegisteredApart, OnlyRegisteredUsed, SdkSetBeforeSigning, TypeOK
  <2>3. FetchesForCaller'
    <3>1. CASE pc[c] = "fetch"
      <4>1. provider[c] \in Providers
        BY <1>a, <3>1 DEF HoldsRegistered, Running, TypeOK, Option
      <4>2. \A d \in Callers \ {c} : ~(pc[d] = "fetch" /\ provider[d] = provider[c])
        BY <1>a, <3>1, <4>1 DEF FetchesForCaller
      <4> QED
        BY <1>a, <1>b, <2>0, <3>1, <4>1, <4>2 DEF FetchesForCaller, TypeOK
    <3>2. CASE pc[c] # "fetch"
      BY <1>a, <2>0, <3>2 DEF FetchesForCaller, TypeOK
    <3> QED
      BY <3>1, <3>2
  <2>4. RequestsServed' /\ MainWarms'
    BY <1>a, <2>0 DEF RequestsServed, MainWarms, TypeOK, Required, Running
  <2>5. WarmInTurn'
    BY <1>a, <2>0 DEF WarmInTurn, IsWarm, Required, TypeOK
  <2>6. ServingWarm'
    BY <1>a, <2>0 DEF ServingWarm, Required, TypeOK
  <2> QED
    BY <1>0, <2>1, <2>2, <2>3, <2>4, <2>5, <2>6
<1>10. ASSUME NEW c \in Requests, NEW t \in targets, Sign(c, t) PROVE IInv'
  <2>0. /\ UNCHANGED <<targets, sdk_region, phase, sdk, todo, registry, entry, fetcher>>
        /\ phase = "serving" /\ pc[c] \in Ended \cup {"idle"}
        /\ pc' = [pc EXCEPT ![c] = IF ~sdk THEN "panicked" ELSE IF HasRegion(t) THEN "lookup" ELSE "no_region"]
        /\ identity' = [identity EXCEPT ![c] = t.identity]
        /\ provider' = [provider EXCEPT ![c] = None]
    BY <1>10 DEF Sign, Goto, fixed, process, caches
  <2>1. sdk
    BY <2>0 DEF MainWarms
  <2>2. pc'[c] \in {"lookup", "no_region"} /\ \A d \in Callers \ {c} : pc'[d] = pc[d]
    BY <1>a, <2>0, <2>1 DEF TypeOK
  <2>3. t.identity \in Required /\ t.identity \in Identities
    BY DEF Required, TypeOK, Targets
  <2>4. HoldsRegistered'
    BY <1>a, <2>0, <2>2, <2>3 DEF HoldsRegistered, TypeOK
  <2>5. RegisteredApart' /\ OnlyRegisteredUsed' /\ SdkSetBeforeSigning'
    BY <1>a, <2>0, <2>2 DEF RegisteredApart, OnlyRegisteredUsed, SdkSetBeforeSigning
  <2>6. FetchesForCaller'
    BY <1>a, <2>0, <2>2 DEF FetchesForCaller, TypeOK, Ended
  <2>7. RequestsServed' /\ MainWarms'
    BY <1>a, <2>0, <2>2, <2>3 DEF RequestsServed, MainWarms, TypeOK, Required
  <2>8. WarmInTurn'
    BY <2>0 DEF WarmInTurn
  <2>9. ServingWarm'
    BY <1>a, <2>0, <2>2 DEF ServingWarm, Required
  <2> QED
    BY <1>0, <2>4, <2>5, <2>6, <2>7, <2>8, <2>9
<1>11. CASE UNCHANGED vars
  <2>1. UNCHANGED <<targets, sdk_region, phase, sdk, todo, registry, entry, fetcher, pc,
                    identity, provider>>
    BY <1>11 DEF vars, fixed, process, caches, callers
  <2> QED
    BY <1>0, <2>1 DEF HoldsRegistered, RegisteredApart, OnlyRegisteredUsed, FetchesForCaller,
                      RequestsServed, MainWarms,
                      WarmInTurn, ServingWarm, SdkSetBeforeSigning, IsWarm, Required
<1> QED
  BY <1>1, <1>2, <1>3, <1>4, <1>5, <1>6, <1>7, <1>8, <1>9, <1>10, <1>11
     DEF Next, Startup, ProviderFor, Provide, Quiet

THEOREM Invariance == Spec => []IInv
BY InvInitial, InvPreserved, PTL DEF Spec

(* TypeOK, the type invariant the run checks, for every instance.           *)
THEOREM TypeCorrect == Spec => []TypeOK
<1>1. IInv => TypeOK
  BY DEF IInv
<1> QED
  BY <1>1, Invariance, PTL

(* ServingWarm: a process that serves has fetched for every identity of its *)
(* targets, and no request builds a provider.                               *)
THEOREM ServesWarm == Spec => []ServingWarm
<1>1. IInv => ServingWarm
  BY DEF IInv
<1> QED
  BY <1>1, Invariance, PTL

(* SdkSetBeforeSigning: no request meets the expect on SDK_CONFIG.          *)
THEOREM SdkIsSet == Spec => []SdkSetBeforeSigning
<1>1. IInv => SdkSetBeforeSigning
  BY DEF IInv
<1> QED
  BY <1>1, Invariance, PTL

-----------------------------------------------------------------------------
(* The providers of one identity, taken together, are one shared cache.     *)

AbstractEntry(i) == IF registry[i] = None THEN "none" ELSE entry[registry[i]]
AbstractFetcher(i) == IF registry[i] = None THEN None ELSE fetcher[registry[i]]

\* Whoever fetches for an identity does so from its registered provider.
LEMMA FetcherIsRegistered ==
  ASSUME IInv, NEW i \in Identities
  PROVE  AbstractFetcher(i) =
           IF FetchersOf(i) = {} THEN None ELSE CHOOSE c \in FetchersOf(i) : TRUE
<1> USE DEF IInv
<1>1. ASSUME NEW c \in FetchersOf(i)
      PROVE  registry[i] # None /\ fetcher[registry[i]] = c
  <2>1. c \in Callers /\ pc[c] = "fetch" /\ identity[c] = i
    BY DEF FetchersOf
  <2>2. registry[i] # None /\ provider[c] = registry[i]
    BY <2>1 DEF HoldsRegistered
  <2>3. registry[i] \in Providers
    BY <2>2 DEF TypeOK, Option
  <2> QED
    BY <2>1, <2>2, <2>3 DEF FetchesForCaller
<1>2. CASE FetchersOf(i) # {}
  <2>1. (CHOOSE c \in FetchersOf(i) : TRUE) \in FetchersOf(i)
    BY <1>2
  <2> QED
    BY <1>1, <1>2, <2>1 DEF AbstractFetcher
<1>3. CASE FetchersOf(i) = {}
  <2> SUFFICES ASSUME registry[i] # None PROVE fetcher[registry[i]] = None
    BY <1>3 DEF AbstractFetcher
  <2>1. registry[i] \in Providers /\ registry[i][1] = i
    BY DEF TypeOK, Option, RegisteredApart
  <2>2. SUFFICES ASSUME fetcher[registry[i]] # None PROVE FALSE
    OBVIOUS
  <2>3. fetcher[registry[i]] \in Callers
    BY <2>1, <2>2 DEF TypeOK, Option
  <2> DEFINE c == fetcher[registry[i]]
  <2>4. pc[c] = "fetch" /\ provider[c] = registry[i]
    BY <2>1, <2>3 DEF FetchesForCaller
  <2>5. identity[c] \in Identities /\ registry[identity[c]] = registry[i]
    BY <2>3, <2>4 DEF HoldsRegistered, Running
  <2>6. identity[c] = i
    BY <2>1, <2>5 DEF RegisteredApart
  <2> QED
    BY <1>3, <2>3, <2>4, <2>6 DEF FetchersOf
<1> QED
  BY <1>2, <1>3

\* The steps of SharedCredentials on what the providers of i hold together
Stays(i) == AbstractEntry(i)' = AbstractEntry(i) /\ AbstractFetcher(i)' = AbstractFetcher(i)

Begins(i) ==
  \E c \in Callers :
    /\ AbstractFetcher(i) = None /\ AbstractEntry(i) # "fresh"
    /\ AbstractFetcher(i)' = c /\ AbstractEntry(i)' = AbstractEntry(i)

Finishes(i) ==
  /\ AbstractFetcher(i) # None /\ AbstractFetcher(i)' = None
  /\ AbstractEntry(i)' \in {"fresh", "due"} \/ AbstractEntry(i)' = AbstractEntry(i)

Ages(i) ==
  /\ AbstractEntry(i) = "fresh" /\ AbstractEntry(i)' = "due"
  /\ AbstractFetcher(i)' = AbstractFetcher(i)

SharedStep(i) == Stays(i) \/ Begins(i) \/ Finishes(i) \/ Ages(i)

\* A caller in provide_credentials is at the registered provider.
LEMMA CallerAtRegistered ==
  ASSUME IInv, NEW c \in Callers, pc[c] \in {"provide", "fetch"}
  PROVE  /\ identity[c] \in Identities /\ registry[identity[c]] # None
         /\ provider[c] = registry[identity[c]] /\ provider[c] \in Providers
         /\ \A j \in Identities \ {identity[c]} : registry[j] # provider[c]
         /\ pc[c] = "fetch" => fetcher[provider[c]] = c
<1> USE DEF IInv
<1>1. /\ identity[c] \in Identities /\ registry[identity[c]] # None
      /\ provider[c] = registry[identity[c]]
  BY DEF HoldsRegistered, Running
<1>2. provider[c] \in Providers
  BY <1>1 DEF TypeOK, Option
<1>3. \A j \in Identities \ {identity[c]} : registry[j] # provider[c]
  BY <1>1 DEF RegisteredApart
<1>4. pc[c] = "fetch" => fetcher[provider[c]] = c
  BY <1>2 DEF FetchesForCaller
<1> QED
  BY <1>1, <1>2, <1>3, <1>4

LEMMA StepImplements ==
  ASSUME IInv, [Next]_vars, NEW i \in Identities
  PROVE  SharedStep(i)
<1> USE DEF IInv
<1>b. None \notin Callers
  BY SigningAssumption DEF Callers
<1>1. ASSUME UNCHANGED <<registry, entry, fetcher>> PROVE SharedStep(i)
  BY <1>1 DEF SharedStep, Stays, AbstractEntry, AbstractFetcher
<1>2. CASE Startup \/ Quiet \/ UNCHANGED vars
  <2>1. UNCHANGED <<registry, entry, fetcher>>
    BY <1>2 DEF Startup, SkipInit, LoadSdk, Warm, Serve, WarmFails, Quiet, vars, caches
  <2> QED
    BY <1>1, <2>1
<1>3. ASSUME NEW c \in Callers, Lookup(c) \/ ServeCached(c) PROVE SharedStep(i)
  BY <1>1, <1>3 DEF Lookup, ServeCached, caches
<1>4. ASSUME NEW c \in Requests, NEW t \in targets, Sign(c, t) PROVE SharedStep(i)
  BY <1>1, <1>4 DEF Sign, caches
<1>5. ASSUME NEW c \in Callers, Insert(c) PROVE SharedStep(i)
  <2>1. pc[c] = "build" /\ identity[c] \in Identities /\ UNCHANGED <<entry, fetcher>>
    BY <1>5 DEF Insert, HoldsRegistered, Running, caches
  <2> DEFINE k == identity[c]
             new == <<k, c>>
  <2>2. registry' = [registry EXCEPT ![k] = IF registry[k] = None THEN new ELSE registry[k]]
    BY <1>5 DEF Insert
  <2>3. CASE i # k \/ registry[k] # None
    BY <2>1, <2>2, <2>3 DEF SharedStep, Stays, AbstractEntry, AbstractFetcher, TypeOK
  <2>4. CASE i = k /\ registry[k] = None
    <3>1. new \in Providers /\ new[1] = k /\ new # None
      BY <2>1, SigningAssumption DEF Providers, Callers
    <3>2. registry'[i] = new
      BY <2>2, <2>4 DEF TypeOK
    <3>3. entry[new] = "none"
      BY <2>4, <3>1 DEF OnlyRegisteredUsed
    <3>4. fetcher[new] = None
      <4>1. SUFFICES ASSUME fetcher[new] # None PROVE FALSE
        OBVIOUS
      <4>2. fetcher[new] \in Callers
        BY <3>1, <4>1 DEF TypeOK, Option
      <4>3. pc[fetcher[new]] = "fetch" /\ provider[fetcher[new]] = new
        BY <3>1, <4>2 DEF FetchesForCaller
      <4>4. registry[identity[fetcher[new]]] = new /\ identity[fetcher[new]] \in Identities
        BY <4>2, <4>3 DEF HoldsRegistered, Running
      <4>5. identity[fetcher[new]] = k
        BY <3>1, <4>4 DEF RegisteredApart
      <4> QED
        BY <2>4, <3>1, <4>4, <4>5
    <3> QED
      BY <2>1, <2>4, <3>1, <3>2, <3>3, <3>4 DEF SharedStep, Stays, AbstractEntry, AbstractFetcher
  <2> QED
    BY <2>3, <2>4
<1>6. ASSUME NEW c \in Callers, BeginFetch(c) PROVE SharedStep(i)
  <2>1. /\ pc[c] = "provide" /\ UNCHANGED <<registry, entry>>
        /\ fetcher[provider[c]] = None /\ entry[provider[c]] # "fresh"
        /\ fetcher' = [fetcher EXCEPT ![provider[c]] = c]
    BY <1>6 DEF BeginFetch
  <2>2. /\ identity[c] \in Identities /\ registry[identity[c]] # None
        /\ provider[c] = registry[identity[c]] /\ provider[c] \in Providers
        /\ \A j \in Identities \ {identity[c]} : registry[j] # provider[c]
    BY <2>1, CallerAtRegistered
  <2>3. CASE i = identity[c]
    <3>1. Begins(i)
      BY <2>1, <2>2, <2>3 DEF Begins, AbstractEntry, AbstractFetcher, TypeOK
    <3> QED
      BY <3>1 DEF SharedStep
  <2>4. CASE i # identity[c]
    BY <2>1, <2>2, <2>4 DEF SharedStep, Stays, AbstractEntry, AbstractFetcher, TypeOK, Option
  <2> QED
    BY <2>3, <2>4
<1>7. ASSUME NEW c \in Callers, pc[c] = "fetch", registry' = registry,
             fetcher' = [fetcher EXCEPT ![provider[c]] = None],
             \/ entry' = entry
             \/ \E age \in {"fresh", "due"} : entry' = [entry EXCEPT ![provider[c]] = age]
      PROVE  SharedStep(i)
  <2>2. /\ identity[c] \in Identities /\ registry[identity[c]] # None
        /\ provider[c] = registry[identity[c]] /\ provider[c] \in Providers
        /\ \A j \in Identities \ {identity[c]} : registry[j] # provider[c]
        /\ fetcher[provider[c]] = c
    BY <1>7, CallerAtRegistered
  <2>3. CASE i = identity[c]
    <3>1. AbstractFetcher(i) # None /\ AbstractFetcher(i)' = None
      BY <1>7, <1>b, <2>2, <2>3 DEF AbstractFetcher, TypeOK
    <3>2. AbstractEntry(i)' \in {"fresh", "due"} \/ AbstractEntry(i)' = AbstractEntry(i)
      BY <1>7, <2>2, <2>3 DEF AbstractEntry, TypeOK
    <3> QED
      BY <3>1, <3>2 DEF SharedStep, Finishes
  <2>4. CASE i # identity[c]
    BY <1>7, <2>2, <2>4 DEF SharedStep, Stays, AbstractEntry, AbstractFetcher, TypeOK, Option
  <2> QED
    BY <2>3, <2>4
<1>8. ASSUME NEW c \in Callers, FetchSucceeds(c) \/ FetchFails(c) PROVE SharedStep(i)
  BY <1>7, <1>8 DEF FetchSucceeds, FetchFails
<1>9. ASSUME NEW c \in Requests, Cancel(c) PROVE SharedStep(i)
  <2>1. CASE pc[c] = "fetch"
    BY <1>7, <1>9, <2>1 DEF Cancel, Awaits, Callers
  <2>2. CASE pc[c] # "fetch"
    BY <1>1, <1>9, <2>2 DEF Cancel
  <2> QED
    BY <2>1, <2>2
<1>10. ASSUME NEW p \in Providers, Age(p) PROVE SharedStep(i)
  <2>1. entry[p] = "fresh" /\ entry' = [entry EXCEPT ![p] = "due"] /\ UNCHANGED <<registry, fetcher>>
    BY <1>10 DEF Age
  <2>2. CASE registry[i] = p
    BY <2>1, <2>2 DEF SharedStep, Stays, Ages, AbstractEntry, AbstractFetcher, TypeOK
  <2>3. CASE registry[i] # p
    BY <2>1, <2>3 DEF SharedStep, Stays, AbstractEntry, AbstractFetcher, TypeOK, Option
  <2> QED
    BY <2>2, <2>3
<1> QED
  BY <1>2, <1>3, <1>4, <1>5, <1>6, <1>8, <1>9, <1>10 DEF Next, ProviderFor, Provide

\* The fetcher as Identity(i) is given it
FirstFetcher(i) == IF FetchersOf(i) = {} THEN None ELSE CHOOSE c \in FetchersOf(i) : TRUE

LEMMA AbstractFetcherIsFirst ==
  IInv => \A i \in Identities : AbstractFetcher(i) = FirstFetcher(i)
BY FetcherIsRegistered DEF FirstFetcher

LEMMA AbstractFetcherStaysFirst ==
  (IInv => \A i \in Identities : AbstractFetcher(i) = FirstFetcher(i))'
BY AbstractFetcherIsFirst, PTL

LEMMA SharedStepIsOne ==
  ASSUME IInv, IInv', NEW i \in Identities, SharedStep(i)
  PROVE  [Identity(i)!Next]_(Identity(i)!vars)
<1>1. AbstractFetcher(i) = FirstFetcher(i)
  BY AbstractFetcherIsFirst
<1>2. AbstractFetcher(i)' = FirstFetcher(i)'
  BY AbstractFetcherStaysFirst
<1>3. CASE Stays(i)
  <2>1. FirstFetcher(i)' = FirstFetcher(i) /\ AbstractEntry(i)' = AbstractEntry(i)
    BY <1>1, <1>2, <1>3 DEF Stays
  <2> QED
    BY <2>1 DEF FirstFetcher, AbstractEntry, Identity!vars
<1>4. CASE Begins(i)
  BY <1>1, <1>2, <1>4
     DEF Begins, FirstFetcher, AbstractEntry, Identity!Next, Identity!BeginFetch
<1>5. CASE Finishes(i)
  BY <1>1, <1>2, <1>5
     DEF Finishes, FirstFetcher, AbstractEntry, Identity!Next, Identity!FetchSucceeds, Identity!FetchEnds
<1>6. CASE Ages(i)
  <2>1. FirstFetcher(i)' = FirstFetcher(i)
    BY <1>1, <1>2, <1>6 DEF Ages
  <2> QED
    BY <1>6, <2>1 DEF Ages, FirstFetcher, AbstractEntry, Identity!Next, Identity!Age
<1> QED
  BY <1>3, <1>4, <1>5, <1>6 DEF SharedStep

(* ImplementsShared: for every identity, the fetches of all its providers   *)
(* together are those of one shared cache.                                  *)
THEOREM SigningImplementsShared == Spec => ImplementsShared
<1>1. Init => \A i \in Identities : Identity(i)!Init
  <2> SUFFICES ASSUME Init, NEW i \in Identities PROVE Identity(i)!Init
    OBVIOUS
  <2>1. registry[i] = None /\ FetchersOf(i) = {}
    BY DEF Init, FetchersOf
  <2> QED
    BY <2>1 DEF Identity!Init
<1>2. IInv /\ IInv' /\ [Next]_vars =>
        \A i \in Identities : [Identity(i)!Next]_(Identity(i)!vars)
  BY StepImplements, SharedStepIsOne
<1> QED
  BY <1>1, <1>2, Invariance, PTL DEF Spec, ImplementsShared
=============================================================================
