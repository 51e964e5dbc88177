----------------------- MODULE CredentialCacheProofs -----------------------
(***************************************************************************)
(* Proofs about CredentialCache, for any callers, lifetimes and MaxTime.   *)
(***************************************************************************)
EXTENDS CredentialCache, FiniteSetTheorems, TLAPS

-----------------------------------------------------------------------------
(* The instant at which a credential is refreshed lies within its life, or  *)
(* is the instant of the fetch when it had none left.                       *)
LEMMA RefreshAtBounds ==
  ASSUME NEW t \in Int, NEW e \in Int
  PROVE  /\ RefreshAt(e, t) \in Int
         /\ RefreshAt(e, t) >= t
         /\ RefreshAt(e, t) > t => RefreshAt(e, t) =< e
<1>1. e # None
  BY CacheAssumption
<1>2. CASE e > t
  <2>1. /\ (e - t) \div 2 \in Int
        /\ (e - t) \div 2 >= 0
        /\ (e - t) \div 2 =< e - t
    BY <1>2, SMT
  <2> HIDE CacheAssumption
  <2>2. RefreshAt(e, t) = t + (e - t) \div 2
    BY <1>1, <1>2 DEF RefreshAt
  <2> QED
    BY <2>1, <2>2, SMT
<1>3. CASE ~(e > t)
  <2>1. RefreshAt(e, t) = t
    BY <1>1, <1>3 DEF RefreshAt
  <2> QED
    BY <2>1, SMT
<1> QED
  BY <1>2, <1>3

LEMMA TypePreserved == TypeOK /\ [Next]_vars => TypeOK'
<1> SUFFICES ASSUME TypeOK, [Next]_vars
             PROVE  TypeOK'
  OBVIOUS
<1> USE DEF TypeOK, Option
<1>1. CASE Tick
  BY <1>1, CacheAssumption DEF Tick, Instants
<1>2. ASSUME NEW c \in Callers, Start(c) PROVE TypeOK'
  BY <1>2 DEF Start, Goto, Join, Queued
<1>3. ASSUME NEW c \in Callers, ReadHit(c) PROVE TypeOK'
  BY <1>3 DEF ReadHit, Return, Goto, Leave, Served, Results, Hit, CachedEntry
<1>4. ASSUME NEW c \in Callers, ReadMiss(c) PROVE TypeOK'
  BY <1>4 DEF ReadMiss, Goto, Requeue, Queued
<1>5. ASSUME NEW c \in Callers, WriteHit(c) PROVE TypeOK'
  BY <1>5 DEF WriteHit, Return, Goto, Leave, Served, Results, Hit, CachedEntry
<1>6. ASSUME NEW c \in Callers, BeginFetch(c) PROVE TypeOK'
  BY <1>6 DEF BeginFetch, Goto, Leave
<1>7. ASSUME NEW c \in Callers, FetchSucceeds(c) PROVE TypeOK'
  <2>1. PICK e \in {None} \cup {clock + d : d \in Lifetimes} :
          LET creds == [expires_at |-> e, fetched_at |-> clock]
          IN  /\ cache' = [credentials |-> creds, refresh_at |-> RefreshAt(e, clock)]
              /\ Return(c, [kind |-> "fetched", credentials |-> creds, at |-> clock])
    BY <1>7 DEF FetchSucceeds
  <2>2. e \in {None} \cup Int
    BY CacheAssumption DEF Instants
  <2>3. RefreshAt(e, clock) \in {None} \cup Int
    BY <2>2, RefreshAtBounds, CacheAssumption DEF RefreshAt, Instants
  <2>4. [expires_at |-> e, fetched_at |-> clock] \in Credentials
    BY <2>2 DEF Credentials
  <2> QED
    BY <1>7, <2>1, <2>3, <2>4 DEF FetchSucceeds, Return, Goto, CachedEntry, Results
<1>8. ASSUME NEW c \in Callers, FetchFails(c) PROVE TypeOK'
  BY <1>8 DEF FetchFails, Return, Goto, Served, Results, CachedEntry
<1>9. ASSUME NEW c \in Callers, Cancel(c) PROVE TypeOK'
  BY <1>9 DEF Cancel, Goto, Leave
<1>10. CASE UNCHANGED vars
  BY <1>10 DEF vars
<1> QED
  BY <1>1, <1>2, <1>3, <1>4, <1>5, <1>6, <1>7, <1>8, <1>9, <1>10 DEF Next, UseLock

(* TypeOK, the type invariant the run checks, for every instance.           *)
THEOREM TypeCorrect == Spec => []TypeOK
<1>1. Init => TypeOK
  BY CacheAssumption DEF Init, TypeOK, Option, Instants
<1> QED
  BY <1>1, TypePreserved, PTL DEF Spec

-----------------------------------------------------------------------------
(* The strengthening that makes the safety properties inductive.            *)

\* The write guard and the fetch come and go together.
GuardHeldByFetch == \A c \in Callers : pc[c] = "fetch" <=> writer = c

\* The cached entry is one that a successful fetch of the past stored.
EntryFromFetch ==
  cache # None =>
    /\ cache.credentials.fetched_at =< clock
    /\ cache.refresh_at = RefreshAt(cache.credentials.expires_at,
                                    cache.credentials.fetched_at)

\* The local instants of a call lie between its beginning and the present.
CallsInThePast == \A c \in Callers : start[c] =< now[c] /\ now[c] =< clock

\* While a call runs there is no result that it could be mistaken for.
NoResultYet ==
  \A c \in Callers : pc[c] \in {"read", "write", "fetch"} => result[c] = None

IInv ==
  /\ TypeOK
  /\ GuardHeldByFetch
  /\ EntryFromFetch
  /\ CallsInThePast
  /\ NoResultYet
  /\ ServedValidAtStart

(* What a hit serves is unexpired at the instant of the lookup, or younger  *)
(* than that instant.                                                       *)
LEMMA HitIsUsable ==
  ASSUME TypeOK, EntryFromFetch, NEW t \in Instants, Hit(t)
  PROVE  \/ Unexpired(cache.credentials, t)
         \/ cache.credentials.fetched_at > t
<1> DEFINE e == cache.credentials.expires_at
           f == cache.credentials.fetched_at
<1>1. /\ cache # None
      /\ cache \in CachedEntry
      /\ e \in Option(Int)
      /\ f \in Int
      /\ t \in Int
  BY DEF TypeOK, Hit, Option, CachedEntry, Credentials, Instants
<1>2. CASE e = None
  BY <1>2 DEF Unexpired
<1>3. CASE e # None
  <2>1. e \in Int
    BY <1>1, <1>3 DEF Option
  <2>2. /\ cache.refresh_at = RefreshAt(e, f)
        /\ RefreshAt(e, f) \in Int
        /\ RefreshAt(e, f) >= f
        /\ RefreshAt(e, f) > f => RefreshAt(e, f) =< e
    BY <1>1, <2>1, RefreshAtBounds DEF EntryFromFetch
  <2>3. t < RefreshAt(e, f)
    BY <2>2, CacheAssumption DEF Hit, IsFresh
  <2>4. t < e \/ f > t
    <3> HIDE DEF e, f
    <3> QED
      BY <1>1, <2>1, <2>2, <2>3
  <2> QED
    BY <2>4 DEF Unexpired
<1> QED
  BY <1>2, <1>3

LEMMA InvInitial == Init => IInv
<1> SUFFICES ASSUME Init PROVE IInv
  OBVIOUS
<1>1. TypeOK
  BY CacheAssumption DEF Init, TypeOK, Option, Instants
<1>2. GuardHeldByFetch
  BY CacheAssumption DEF Init, GuardHeldByFetch
<1>3. EntryFromFetch /\ CallsInThePast /\ NoResultYet /\ ServedValidAtStart
  BY DEF Init, EntryFromFetch, CallsInThePast, NoResultYet, ServedValidAtStart
<1> QED
  BY <1>1, <1>2, <1>3 DEF IInv

\* A hit leaves the entry and the lock as they are; only the caller moves.
LEMMA HitPreserves ==
  ASSUME IInv, TypeOK', NEW c \in Callers, pc[c] \in {"read", "write"},
         NEW t \in Instants, Hit(t), start[c] =< t, t =< clock,
         Return(c, Served("cached")), now' = [now EXCEPT ![c] = t],
         UNCHANGED <<clock, cache, writer, start>>
  PROVE  IInv'
<1>1. GuardHeldByFetch'
  BY DEF IInv, GuardHeldByFetch, Return, Goto, TypeOK
<1>2. EntryFromFetch'
  BY DEF IInv, EntryFromFetch
<1>3. CallsInThePast'
  BY DEF IInv, CallsInThePast, TypeOK
<1>4. NoResultYet'
  BY DEF IInv, NoResultYet, Return, Goto, TypeOK
<1>5. ServedValidAtStart'
  <2>1. cache \in CachedEntry /\ start[c] \in Int /\ t \in Int
        /\ cache.credentials.expires_at \in Option(Int)
        /\ cache.credentials.fetched_at \in Int
    BY DEF IInv, TypeOK, Hit, Option, CachedEntry, Credentials, Instants
  <2>2. Unexpired(cache.credentials, t) \/ cache.credentials.fetched_at > t
    BY HitIsUsable DEF IInv
  <2>3. \/ Unexpired(cache.credentials, start[c])
        \/ cache.credentials.fetched_at >= start[c]
    BY <2>1, <2>2 DEF Unexpired, Option
  <2>4. result' = [result EXCEPT ![c] = Served("cached")]
    BY DEF Return
  <2> QED
    BY <2>3, <2>4 DEF IInv, ServedValidAtStart, TypeOK, Served, Unexpired
<1> QED
  BY <1>1, <1>2, <1>3, <1>4, <1>5 DEF IInv

LEMMA InvPreserved == IInv /\ [Next]_vars => IInv'
<1> SUFFICES ASSUME IInv, [Next]_vars
             PROVE  IInv'
  OBVIOUS
<1> USE DEF IInv
<1>0. TypeOK'
  BY TypePreserved
<1>1. CASE Tick
  <2>1. GuardHeldByFetch'
    BY <1>1 DEF Tick, GuardHeldByFetch
  <2>2. EntryFromFetch'
    BY <1>1 DEF Tick, EntryFromFetch, TypeOK, Option, CachedEntry, Credentials, Instants
  <2>3. CallsInThePast'
    BY <1>1 DEF Tick, CallsInThePast, TypeOK, Instants
  <2>4. NoResultYet' /\ ServedValidAtStart'
    BY <1>1 DEF Tick, NoResultYet, ServedValidAtStart
  <2> QED
    BY <1>0, <2>1, <2>2, <2>3, <2>4
<1>2. ASSUME NEW c \in Callers, Start(c) PROVE IInv'
  <2>1. GuardHeldByFetch'
    BY <1>2 DEF Start, Goto, GuardHeldByFetch, TypeOK
  <2>2. EntryFromFetch'
    BY <1>2 DEF Start, EntryFromFetch
  <2>3. CallsInThePast'
    BY <1>2 DEF Start, CallsInThePast, TypeOK, Instants
  <2>4. NoResultYet' /\ ServedValidAtStart'
    BY <1>2 DEF Start, Goto, NoResultYet, ServedValidAtStart, TypeOK
  <2> QED
    BY <1>0, <2>1, <2>2, <2>3, <2>4
<1>3. ASSUME NEW c \in Callers, ReadHit(c) PROVE IInv'
  <2>1. now' = [now EXCEPT ![c] = now[c]]
    BY <1>3 DEF ReadHit, TypeOK
  <2>2. start[c] =< now[c] /\ now[c] =< clock /\ now[c] \in Instants
    BY DEF CallsInThePast, TypeOK
  <2> QED
    BY <1>0, <1>3, <2>1, <2>2, HitPreserves DEF ReadHit
<1>4. ASSUME NEW c \in Callers, ReadMiss(c) PROVE IInv'
  <2>1. GuardHeldByFetch'
    BY <1>4 DEF ReadMiss, Goto, GuardHeldByFetch, TypeOK
  <2>2. EntryFromFetch' /\ CallsInThePast' /\ ServedValidAtStart'
    BY <1>4 DEF ReadMiss, EntryFromFetch, CallsInThePast, ServedValidAtStart
  <2>3. NoResultYet'
    BY <1>4 DEF ReadMiss, Goto, NoResultYet, TypeOK
  <2> QED
    BY <1>0, <2>1, <2>2, <2>3
<1>5. ASSUME NEW c \in Callers, WriteHit(c) PROVE IInv'
  <2>1. start[c] =< clock /\ clock \in Instants /\ clock =< clock
    BY DEF CallsInThePast, TypeOK, Instants
  <2> QED
    BY <1>0, <1>5, <2>1, HitPreserves DEF WriteHit
<1>6. ASSUME NEW c \in Callers, BeginFetch(c) PROVE IInv'
  <2>1. GuardHeldByFetch'
    BY <1>6, CacheAssumption DEF BeginFetch, IsFirst, Goto, GuardHeldByFetch, TypeOK
  <2>2. EntryFromFetch' /\ ServedValidAtStart'
    BY <1>6 DEF BeginFetch, EntryFromFetch, ServedValidAtStart
  <2>3. CallsInThePast'
    BY <1>6 DEF BeginFetch, CallsInThePast, TypeOK, Instants
  <2>4. NoResultYet'
    BY <1>6 DEF BeginFetch, Goto, NoResultYet, TypeOK
  <2> QED
    BY <1>0, <2>1, <2>2, <2>3, <2>4
<1>7. ASSUME NEW c \in Callers, FetchSucceeds(c) PROVE IInv'
  <2>1. PICK e \in {None} \cup {clock + d : d \in Lifetimes} :
          LET creds == [expires_at |-> e, fetched_at |-> clock]
          IN  /\ cache' = [credentials |-> creds, refresh_at |-> RefreshAt(e, clock)]
              /\ Return(c, [kind |-> "fetched", credentials |-> creds, at |-> clock])
    BY <1>7 DEF FetchSucceeds
  <2>2. GuardHeldByFetch'
    BY <1>7, <2>1, CacheAssumption DEF FetchSucceeds, Return, Goto, GuardHeldByFetch, TypeOK
  <2>3. EntryFromFetch'
    BY <1>7, <2>1 DEF FetchSucceeds, EntryFromFetch, RefreshAt, TypeOK, Instants
  <2>4. CallsInThePast'
    BY <1>7 DEF FetchSucceeds, CallsInThePast
  <2>5. NoResultYet'
    BY <2>1 DEF Return, Goto, NoResultYet, TypeOK
  <2>6. ServedValidAtStart'
    <3>1. clock >= start[c]
      BY DEF CallsInThePast, TypeOK, Instants
    <3> QED
      BY <1>7, <2>1, <3>1 DEF FetchSucceeds, Return, ServedValidAtStart, TypeOK, Unexpired
  <2> QED
    BY <1>0, <2>2, <2>3, <2>4, <2>5, <2>6
<1>8. ASSUME NEW c \in Callers, FetchFails(c) PROVE IInv'
  <2>1. GuardHeldByFetch'
    BY <1>8, CacheAssumption DEF FetchFails, Return, Goto, GuardHeldByFetch, TypeOK
  <2>2. EntryFromFetch' /\ CallsInThePast'
    BY <1>8 DEF FetchFails, EntryFromFetch, CallsInThePast
  <2>3. NoResultYet'
    BY <1>8 DEF FetchFails, Return, Goto, NoResultYet, TypeOK
  <2>4. ServedValidAtStart'
    <3>1. start[c] =< now[c] /\ start[c] \in Int /\ now[c] \in Int
      BY DEF CallsInThePast, TypeOK, Instants
    <3>2. CASE cache # None /\ Unexpired(cache.credentials, now[c])
      <4>1. cache.credentials.expires_at \in Option(Int)
        BY <3>2 DEF TypeOK, Option, CachedEntry, Credentials
      <4>2. Unexpired(cache.credentials, start[c])
        BY <3>1, <3>2, <4>1 DEF Unexpired, Option
      <4> QED
        BY <1>8, <3>2, <4>2
           DEF FetchFails, Return, Served, ServedValidAtStart, TypeOK, Unexpired
    <3>3. CASE ~(cache # None /\ Unexpired(cache.credentials, now[c]))
      BY <1>8, <3>3 DEF FetchFails, Return, ServedValidAtStart, TypeOK
    <3> QED
      BY <3>2, <3>3
  <2> QED
    BY <1>0, <2>1, <2>2, <2>3, <2>4
<1>9. ASSUME NEW c \in Callers, Cancel(c) PROVE IInv'
  <2>1. GuardHeldByFetch'
    BY <1>9, CacheAssumption DEF Cancel, Queueing, Goto, GuardHeldByFetch, TypeOK
  <2>2. EntryFromFetch' /\ CallsInThePast' /\ ServedValidAtStart'
    BY <1>9 DEF Cancel, EntryFromFetch, CallsInThePast, ServedValidAtStart
  <2>3. NoResultYet'
    BY <1>9 DEF Cancel, Goto, NoResultYet, TypeOK
  <2> QED
    BY <1>0, <2>1, <2>2, <2>3
<1>10. CASE UNCHANGED vars
  BY <1>0, <1>10 DEF vars, GuardHeldByFetch, EntryFromFetch, CallsInThePast,
                     NoResultYet, ServedValidAtStart
<1> QED
  BY <1>1, <1>2, <1>3, <1>4, <1>5, <1>6, <1>7, <1>8, <1>9, <1>10 DEF Next, UseLock

THEOREM Invariance == Spec => []IInv
BY InvInitial, InvPreserved, PTL DEF Spec

-----------------------------------------------------------------------------
(* SingleFlight: never two fetches at once.                                 *)
THEOREM FetchesExclude == Spec => []SingleFlight
<1>1. IInv => SingleFlight
  BY DEF IInv, GuardHeldByFetch, SingleFlight
<1> QED
  BY <1>1, Invariance, PTL

(* ServedValidAtStart: what a call hands out was valid when the call began, *)
(* or was fetched since.                                                    *)
THEOREM ServedUsable == Spec => []ServedValidAtStart
<1>1. IInv => ServedValidAtStart
  BY DEF IInv
<1> QED
  BY <1>1, Invariance, PTL

(* FetchOnlyWhenDue: no fetch begins while the cache holds credentials in   *)
(* the first half of their life, or while another fetch runs.               *)
THEOREM FetchesAreDue == Spec => FetchOnlyWhenDue
<1> DEFINE Due == \A c \in Callers :
             pc[c] # "fetch" /\ pc'[c] = "fetch" =>
               /\ cache # None => cache.refresh_at # None /\ cache.refresh_at =< clock
               /\ \A d \in Callers : pc[d] # "fetch"
<1>1. IInv /\ [Next]_vars => [Due]_vars
  <2> SUFFICES ASSUME IInv, Next, NEW c \in Callers, pc[c] # "fetch", pc'[c] = "fetch"
               PROVE  /\ cache # None => cache.refresh_at # None /\ cache.refresh_at =< clock
                      /\ \A d \in Callers : pc[d] # "fetch"
    OBVIOUS
  <2>1. PICK d \in Callers : BeginFetch(d)
    BY DEF Next, UseLock, Tick, Start, ReadHit, ReadMiss, WriteHit, FetchSucceeds,
           FetchFails, Cancel, Return, Goto, IInv, TypeOK
  <2>2. \A x \in Callers : pc[x] # "fetch"
    BY <2>1, CacheAssumption DEF BeginFetch, IsFirst, IInv, GuardHeldByFetch
  <2>3. cache # None => cache.refresh_at # None /\ ~(clock < cache.refresh_at)
    BY <2>1 DEF BeginFetch, Hit, IsFresh
  <2>4. cache # None => clock \in Int /\ cache.refresh_at \in Option(Int)
    BY DEF IInv, TypeOK, Option, CachedEntry, Instants
  <2> QED
    BY <2>2, <2>3, <2>4 DEF Option
<1> QED
  BY <1>1, Invariance, PTL DEF Spec, FetchOnlyWhenDue

(* ErrorOnlyWhenExpired: a refresh that fails is an error for the caller    *)
(* only if the cached credentials, if any, have expired when it answers.    *)
THEOREM ErrorsAreFinal == Spec => ErrorOnlyWhenExpired
<1> DEFINE Final == \A c \in Callers :
             pc[c] = "fetch" /\ result'[c] # None /\ result'[c].kind = "error" =>
               cache = None \/ ~Unexpired(cache.credentials, clock)
<1>1. IInv /\ [Next]_vars => [Final]_vars
  <2> SUFFICES ASSUME IInv, Next, NEW c \in Callers, pc[c] = "fetch",
                      result'[c] # None, result'[c].kind = "error", cache # None
               PROVE  ~Unexpired(cache.credentials, clock)
    OBVIOUS
  <2>1. result[c] = None
    BY DEF IInv, NoResultYet
  <2>2. FetchFails(c)
    BY <2>1 DEF Next, UseLock, Tick, Start, ReadHit, ReadMiss, WriteHit, BeginFetch,
                FetchSucceeds, FetchFails, Cancel, Return, Goto, IInv, TypeOK
  <2>3. ~Unexpired(cache.credentials, now[c])
    BY <2>2 DEF FetchFails, Return, Served, IInv, TypeOK
  <2>4. now[c] =< clock /\ now[c] \in Int /\ clock \in Int
        /\ cache.credentials.expires_at \in Option(Int)
    BY DEF IInv, CallsInThePast, TypeOK, Option, CachedEntry, Credentials, Instants
  <2> QED
    BY <2>3, <2>4 DEF Unexpired, Option
<1> QED
  BY <1>1, Invariance, PTL DEF Spec, ErrorOnlyWhenExpired

-----------------------------------------------------------------------------
(* The queue of the lock.                                                   *)

\* Whoever is in front of a caller waits itself, behind fewer.
Ordered ==
  \A c \in Callers :
    /\ ahead[c] \subseteq Queued \ {c}
    /\ \A d \in ahead[c] : ahead[d] \subseteq ahead[c]

\* Calls come one at a time, so that only finitely many can wait.
QueueInv == TypeOK /\ Ordered /\ IsFiniteSet(Queued)

(* Among finitely many who wait, one has nobody in front.                   *)
LEMMA SomebodyIsFirst ==
  ASSUME QueueInv, Queued # {}
  PROVE  \E c \in Queued : ahead[c] = {}
<1> DEFINE Fronts == {ahead[c] : c \in Queued}
<1>1. Fronts # {} /\ Fronts \subseteq FiniteSubsetsOf(Queued)
  BY FS_Subset DEF QueueInv, Ordered, FiniteSubsetsOf, Queued
<1>2. PICK s \in Fronts : \A t \in Fronts : <<t, s>> \notin StrictSubsetOrdering(Queued)
  BY <1>1, FS_StrictSubsetOrderingWellFounded, WFMin
<1>3. PICK c \in Queued : s = ahead[c]
  BY <1>2
<1>4. ASSUME NEW d \in ahead[c] PROVE FALSE
  <2>1. /\ d \in Queued
        /\ ahead[d] \subseteq ahead[c]
        /\ ahead[d] # ahead[c]
        /\ ahead[d] \in SUBSET Queued /\ ahead[c] \in SUBSET Queued
    BY <1>3, <1>4 DEF QueueInv, Ordered, Queued
  <2>2. <<ahead[d], s>> \in StrictSubsetOrdering(Queued)
    BY <1>3, <2>1 DEF StrictSubsetOrdering
  <2> QED
    BY <1>2, <2>1, <2>2
<1> QED
  BY <1>4

LEMMA QueueInvInitial == Init => QueueInv
<1> SUFFICES ASSUME Init PROVE QueueInv
  OBVIOUS
<1>1. TypeOK
  BY InvInitial DEF IInv
<1>2. Queued = {}
  BY DEF Init, Queued, Queueing
<1> QED
  BY <1>1, <1>2, FS_EmptySet DEF Init, QueueInv, Ordered

\* A caller that leaves the queue leaves no trace in it.
LEMMA LeaveKeepsOrder ==
  ASSUME QueueInv, NEW c \in Callers, NEW label, label \notin Queueing,
         Goto(c, label), Leave(c)
  PROVE  Ordered' /\ Queued' = Queued \ {c}
<1>1. Queued' = Queued \ {c}
  BY DEF QueueInv, TypeOK, Goto, Queued
<1>2. \A d \in Callers : ahead'[d] = IF d = c THEN {} ELSE ahead[d] \ {c}
  BY DEF Leave
<1>3. \A d \in Callers : ahead[d] \subseteq Callers
  BY DEF QueueInv, TypeOK
<1>4. Ordered'
  <2> SUFFICES ASSUME NEW x \in Callers
               PROVE  /\ ahead'[x] \subseteq Queued' \ {x}
                      /\ \A y \in ahead'[x] : ahead'[y] \subseteq ahead'[x]
    BY DEF Ordered
  <2>1. /\ ahead[x] \subseteq Queued \ {x}
        /\ \A y \in ahead[x] : y \in Callers /\ ahead[y] \subseteq ahead[x]
    BY <1>3 DEF QueueInv, Ordered
  <2> QED
    BY <1>1, <1>2, <2>1
<1> QED
  BY <1>1, <1>4

LEMMA QueueInvPreserved == QueueInv /\ [Next]_vars => QueueInv'
<1> SUFFICES ASSUME QueueInv, [Next]_vars
             PROVE  Ordered' /\ IsFiniteSet(Queued')
  BY TypePreserved DEF QueueInv
<1>1. \A c : IsFiniteSet(Queued \cup {c}) /\ IsFiniteSet(Queued \ {c})
  BY FS_AddElement, FS_RemoveElement DEF QueueInv
<1>2. ASSUME NEW c \in Callers, Start(c) PROVE Ordered' /\ IsFiniteSet(Queued')
  <2>1. Queued' = Queued \cup {c} /\ c \notin Queued
    BY <1>2 DEF Start, Goto, Queued, Queueing, QueueInv, TypeOK
  <2>2. \A d \in Callers : ahead'[d] = IF d = c THEN Queued ELSE ahead[d]
    BY <1>2 DEF Start, Join, QueueInv, TypeOK
  <2>3. \A d \in Callers : ahead[d] \subseteq Queued
    BY DEF QueueInv, Ordered
  <2>4. Ordered'
    <3>1. Queued \subseteq Callers
      BY DEF Queued
    <3> QED
      BY <2>1, <2>2, <2>3, <3>1 DEF QueueInv, Ordered
  <2> QED
    BY <1>1, <2>1, <2>4
<1>3. ASSUME NEW c \in Callers, ReadMiss(c) PROVE Ordered' /\ IsFiniteSet(Queued')
  <2>1. Queued' = Queued /\ c \in Queued
    BY <1>3 DEF ReadMiss, Goto, Queued, Queueing, QueueInv, TypeOK
  <2>2. \A d \in Callers : ahead'[d] = IF d = c THEN Queued \ {c} ELSE ahead[d] \ {c}
    BY <1>3 DEF ReadMiss, Requeue
  <2>3. \A d \in Callers : ahead[d] \subseteq Queued
    BY DEF QueueInv, Ordered
  <2>4. Ordered'
    <3> SUFFICES ASSUME NEW x \in Callers
                 PROVE  /\ ahead'[x] \subseteq Queued' \ {x}
                        /\ \A y \in ahead'[x] : ahead'[y] \subseteq ahead'[x]
      BY DEF Ordered
    <3>1. Queued \subseteq Callers
      BY DEF Queued
    <3>2. /\ ahead[x] \subseteq Queued \ {x}
          /\ \A y \in ahead[x] : ahead[y] \subseteq ahead[x]
      BY DEF QueueInv, Ordered
    <3> QED
      BY <2>1, <2>2, <2>3, <3>1, <3>2
  <2> QED
    BY <2>1, <2>4 DEF QueueInv
<1>4. ASSUME NEW c \in Callers, ReadHit(c) \/ WriteHit(c) \/ BeginFetch(c) \/ Cancel(c)
      PROVE  Ordered' /\ IsFiniteSet(Queued')
  <2>1. PICK label \in {"done", "fetch", "idle"} : Goto(c, label)
    BY <1>4 DEF ReadHit, WriteHit, BeginFetch, Cancel, Return
  <2>2. Leave(c) /\ label \notin Queueing
    BY <1>4, <2>1 DEF ReadHit, WriteHit, BeginFetch, Cancel, Queueing
  <2> QED
    BY <1>1, <2>1, <2>2, LeaveKeepsOrder
<1>5. ASSUME NEW c \in Callers, FetchSucceeds(c) \/ FetchFails(c)
      PROVE  Ordered' /\ IsFiniteSet(Queued')
  <2>1. pc[c] = "fetch" /\ Goto(c, "done") /\ ahead' = ahead
    BY <1>5 DEF FetchSucceeds, FetchFails, Return
  <2>2. Queued' = Queued
    BY <2>1 DEF Goto, Queued, Queueing, QueueInv, TypeOK
  <2> QED
    BY <2>1, <2>2 DEF QueueInv, Ordered
<1>6. CASE Tick \/ UNCHANGED vars
  <2>1. Queued' = Queued /\ ahead' = ahead
    BY <1>6 DEF Tick, vars, Queued
  <2> QED
    BY <2>1 DEF QueueInv, Ordered
<1> QED
  BY <1>2, <1>3, <1>4, <1>5, <1>6 DEF Next, UseLock

THEOREM QueueInvariance == Spec => []QueueInv
BY QueueInvInitial, QueueInvPreserved, PTL DEF Spec

(* LockPassesOn: whenever nobody fetches and somebody waits, somebody can   *)
(* take the lock, however many callers there are: waiting is never mutual.  *)
THEOREM LockNeverStalls == Spec => []LockPassesOn
<1>1. QueueInv => LockPassesOn
  BY SomebodyIsFirst DEF LockPassesOn, IsFirst
<1> QED
  BY <1>1, QueueInvariance, PTL

-----------------------------------------------------------------------------
(* ImplementsShared: the cache implements the shared credentials of one     *)
(* identity.  A step of the caller that fetches is a step of the fetch, a   *)
(* Tick may age the entry, and whatever the lock's queue does is a stutter. *)
LEMMA StepImplements == IInv /\ [Next]_vars => [Shared!Next]_(Shared!vars)
<1> DEFINE Entry == IF cache = None THEN "none" ELSE IF IsFresh(cache, clock) THEN "fresh" ELSE "due"
<1> SUFFICES ASSUME IInv, [Next]_vars
             PROVE  Shared!Next \/ (UNCHANGED writer /\ Entry' = Entry)
  BY DEF Shared!vars
<1>1. CASE Tick
  <2>1. UNCHANGED <<writer, cache>> /\ clock' = clock + 1
    BY <1>1 DEF Tick
  <2>2. CASE cache = None
    BY <2>1, <2>2
  <2>3. CASE cache # None /\ IsFresh(cache, clock) /\ ~IsFresh(cache, clock')
    BY <2>1, <2>3 DEF Shared!Next, Shared!Age
  <2>4. CASE cache # None /\ ~IsFresh(cache, clock)
    <3>1. cache.refresh_at \in Int /\ clock \in Int /\ ~(clock < cache.refresh_at)
      BY <2>4 DEF IsFresh, IInv, TypeOK, Option, CachedEntry, Instants
    <3>2. ~IsFresh(cache, clock')
      BY <2>1, <3>1, CacheAssumption DEF IsFresh
    <3> QED
      BY <2>1, <2>4, <3>2
  <2> QED
    BY <2>1, <2>2, <2>3, <2>4
<1>2. ASSUME NEW c \in Callers, BeginFetch(c) PROVE Shared!Next
  <2>1. writer = None /\ writer' = c /\ UNCHANGED <<cache, clock>> /\ ~Hit(clock)
    BY <1>2 DEF BeginFetch, IsFirst
  <2>2. Entry # "fresh" /\ Entry' = Entry
    BY <2>1 DEF Hit
  <2> QED
    BY <2>1, <2>2 DEF Shared!Next, Shared!BeginFetch
<1>3. ASSUME NEW c \in Callers, FetchSucceeds(c) PROVE Shared!Next
  <2>1. writer = c /\ writer' = None
    BY <1>3 DEF FetchSucceeds, IInv, GuardHeldByFetch
  <2>2. writer # None
    BY <2>1, CacheAssumption
  <2>3. cache' # None
    <3>1. cache' \in CachedEntry
      <4>1. PICK e \in {None} \cup {clock + d : d \in Lifetimes} :
              cache' = [credentials |-> [expires_at |-> e, fetched_at |-> clock],
                        refresh_at |-> RefreshAt(e, clock)]
        BY <1>3 DEF FetchSucceeds
      <4>2. clock \in Instants /\ clock \in Int /\ e \in Option(Int)
        BY CacheAssumption DEF IInv, TypeOK, Instants, Option
      <4>3. RefreshAt(e, clock) \in Option(Int)
        BY <4>2, RefreshAtBounds DEF RefreshAt, Option
      <4> QED
        BY <4>1, <4>2, <4>3 DEF CachedEntry, Credentials
    <3> QED
      BY <3>1, NoEntryAssumption
  <2>4. Entry' \in {"fresh", "due"}
    BY <2>3
  <2> QED
    BY <2>1, <2>2, <2>4 DEF Shared!Next, Shared!FetchSucceeds
<1>4. ASSUME NEW c \in Callers, FetchFails(c) PROVE Shared!Next
  <2>1. writer = c /\ writer' = None /\ UNCHANGED <<cache, clock>>
    BY <1>4 DEF FetchFails, IInv, GuardHeldByFetch
  <2> QED
    BY <2>1, CacheAssumption DEF Shared!Next, Shared!FetchEnds
<1>5. ASSUME NEW c \in Callers, Cancel(c)
      PROVE  Shared!Next \/ (UNCHANGED writer /\ Entry' = Entry)
  <2>1. UNCHANGED <<cache, clock>> /\ writer' = (IF writer = c THEN None ELSE writer)
    BY <1>5 DEF Cancel
  <2> QED
    BY <2>1, CacheAssumption DEF Shared!Next, Shared!FetchEnds
<1>6. ASSUME NEW c \in Callers, Start(c) \/ ReadHit(c) \/ ReadMiss(c) \/ WriteHit(c)
      PROVE  UNCHANGED writer /\ Entry' = Entry
  BY <1>6 DEF Start, ReadHit, ReadMiss, WriteHit
<1>7. CASE UNCHANGED vars
  BY <1>7 DEF vars
<1> QED
  BY <1>1, <1>2, <1>3, <1>4, <1>5, <1>6, <1>7 DEF Next, UseLock

THEOREM CacheImplementsShared == Spec => ImplementsShared
<1>1. Init => Shared!Init
  BY DEF Init, Shared!Init
<1> QED
  BY <1>1, StepImplements, Invariance, PTL DEF Spec, ImplementsShared, Shared!Spec
=============================================================================
