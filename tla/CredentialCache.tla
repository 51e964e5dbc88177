--------------------------- MODULE CredentialCache ---------------------------
(***************************************************************************)
(* RefreshingCredentials::get_or_refresh (aws_auth/cache.rs): one cached   *)
(* set of AWS credentials, shared by every request that signs with the     *)
(* same role, behind a tokio RwLock.                                       *)
(*                                                                         *)
(* The lock is fair: whoever asks waits for all who asked before.  A read  *)
(* section has no await inside it, so taking the lock, looking and letting *)
(* it go are one step; a write section lasts as long as a fetch.           *)
(***************************************************************************)
EXTENDS Integers

CONSTANTS
  Callers,    \* tasks that ask for the credentials, each one call at a time
  Lifetimes,  \* by how much fetched credentials can outlive the answer
  MaxTime,    \* bound: the clock stops here
  None        \* no value: no entry, no expiry, no result

ASSUME CacheAssumption ==
  /\ Lifetimes \subseteq Int
  /\ MaxTime \in Nat
  /\ None \notin Int /\ None \notin Callers

Option(S) == {None} \cup S
Instants == 0 .. MaxTime

\* The credentials: when they expire, and (history) when they were fetched.
Credentials == [expires_at : Option(Int), fetched_at : Instants]

CachedEntry == [credentials : Credentials, refresh_at : Option(Int)]

ASSUME NoEntryAssumption == None \notin CachedEntry

(* What a call returns: the credentials, and at what time; "stale" when a   *)
(* refresh failed.  An error has no credentials.                            *)
Results ==
  [kind : {"cached", "fetched", "stale"}, credentials : Credentials, at : Instants]
  \cup [kind : {"error"}, credentials : {None}, at : Instants]

VARIABLES
  clock,  \* SystemTime::now()
  cache,  \* the Option<CachedEntry> under the lock
  writer, \* who holds the write lock, None if nobody does
  ahead,  \* for each caller in the lock's queue, who is in front of it
  pc,     \* where each caller is
  now,    \* the local `now` of each call
  start,  \* (history) when each call began
  result  \* what the last call returned, None if there is none

vars == <<clock, cache, writer, ahead, pc, now, start, result>>

Queueing == {"read", "write"}
Queued == {c \in Callers : pc[c] \in Queueing}

-----------------------------------------------------------------------------
(* The queue of the lock.                                                   *)

IsFirst(c) == ahead[c] = {} /\ writer = None

Leave(c) == ahead' = [d \in Callers |-> IF d = c THEN {} ELSE ahead[d] \ {c}]

Join(c) == ahead' = [ahead EXCEPT ![c] = Queued]

\* Mutant: the read guard lives on while the write lock is asked for.
RequeueHoldingRead(c) == ahead' = [ahead EXCEPT ![c] = Queued \ {c}]

Requeue(c) ==
  ahead' = [d \in Callers |-> IF d = c THEN Queued \ {c} ELSE ahead[d] \ {c}]

Goto(c, label) == pc' = [pc EXCEPT ![c] = label]

Return(c, r) == Goto(c, "done") /\ result' = [result EXCEPT ![c] = r]

-----------------------------------------------------------------------------
\* is_none_or(|refresh_at| t < refresh_at): still in the first half of its life
IsFresh(entry, t) == entry.refresh_at # None => t < entry.refresh_at
Unexpired(creds, t) == creds.expires_at # None => t < creds.expires_at

Hit(t) == cache # None /\ IsFresh(cache, t)

RefreshAt(expires_at, t) ==
  IF expires_at = None THEN None
  ELSE IF expires_at > t THEN t + (expires_at - t) \div 2
  ELSE t

Served(kind) == [kind |-> kind, credentials |-> cache.credentials, at |-> clock]

Init ==
  /\ clock = 0
  /\ cache = None
  /\ writer = None
  /\ ahead = [c \in Callers |-> {}]
  /\ pc = [c \in Callers |-> "idle"]
  /\ now = [c \in Callers |-> 0]
  /\ start = [c \in Callers |-> 0]
  /\ result = [c \in Callers |-> None]

\* `now` is read before the lock is asked for.
Start(c) ==
  /\ pc[c] \in {"idle", "done"}
  /\ Goto(c, "read")
  /\ now' = [now EXCEPT ![c] = clock]
  /\ start' = [start EXCEPT ![c] = clock]
  /\ Join(c)
  /\ result' = [result EXCEPT ![c] = None]
  /\ UNCHANGED <<clock, cache, writer>>

ReadHit(c) ==
  /\ pc[c] = "read" /\ IsFirst(c)
  /\ Hit(now[c])
  /\ Return(c, Served("cached"))
  /\ Leave(c)
  /\ UNCHANGED <<clock, cache, writer, now, start>>

ReadMiss(c) ==
  /\ pc[c] = "read" /\ IsFirst(c)
  /\ ~Hit(now[c])
  /\ Goto(c, "write")
  /\ Requeue(c)
  /\ UNCHANGED <<clock, cache, writer, now, start, result>>

\* The double check, under the write lock and with a new `now`.
WriteHit(c) ==
  /\ pc[c] = "write" /\ IsFirst(c)
  /\ Hit(clock)
  /\ Return(c, Served("cached"))
  /\ Leave(c)
  /\ now' = [now EXCEPT ![c] = clock]
  /\ UNCHANGED <<clock, cache, writer, start>>

\* Mutant: the guard is dropped before the fetch is awaited.
BeginFetchUnlocked(c) ==
  /\ pc[c] = "write" /\ IsFirst(c)
  /\ ~Hit(clock)
  /\ Goto(c, "fetch")
  /\ Leave(c)
  /\ now' = [now EXCEPT ![c] = clock]
  /\ UNCHANGED <<clock, cache, writer, start, result>>

\* Mutant: no double check after the write lock is taken.
BeginFetchUnchecked(c) ==
  /\ pc[c] = "write" /\ IsFirst(c)
  /\ Goto(c, "fetch")
  /\ writer' = c
  /\ Leave(c)
  /\ now' = [now EXCEPT ![c] = clock]
  /\ UNCHANGED <<clock, cache, start, result>>

BeginFetch(c) ==
  /\ pc[c] = "write" /\ IsFirst(c)
  /\ ~Hit(clock)
  /\ Goto(c, "fetch")
  /\ writer' = c
  /\ Leave(c)
  /\ now' = [now EXCEPT ![c] = clock]
  /\ UNCHANGED <<clock, cache, start, result>>

FetchSucceeds(c) ==
  /\ pc[c] = "fetch"
  /\ \E expires_at \in {None} \cup {clock + d : d \in Lifetimes} :
       LET creds == [expires_at |-> expires_at, fetched_at |-> clock] IN
       /\ cache' = [credentials |-> creds, refresh_at |-> RefreshAt(expires_at, clock)]
       /\ Return(c, [kind |-> "fetched", credentials |-> creds, at |-> clock])
  /\ writer' = None
  /\ UNCHANGED <<clock, ahead, now, start>>

\* Mutant: the failure itself is cached.
FetchFailsCachingIt(c) ==
  /\ pc[c] = "fetch"
  /\ cache' = [credentials |-> None, refresh_at |-> clock]
  /\ Return(c, [kind |-> "error", credentials |-> None, at |-> clock])
  /\ writer' = None
  /\ UNCHANGED <<clock, ahead, now, start>>

\* Mutant: cached credentials are served whatever their age.
FetchFailsIgnoringExpiry(c) ==
  /\ pc[c] = "fetch"
  /\ IF cache # None
     THEN Return(c, Served("stale"))
     ELSE Return(c, [kind |-> "error", credentials |-> None, at |-> clock])
  /\ writer' = None
  /\ UNCHANGED <<clock, cache, ahead, now, start>>

\* Mutant: a failed refresh drops what was cached.
FetchFailsClearing(c) ==
  /\ pc[c] = "fetch"
  /\ cache' = None
  /\ Return(c, [kind |-> "error", credentials |-> None, at |-> clock])
  /\ writer' = None
  /\ UNCHANGED <<clock, ahead, now, start>>

\* Mutant: refresh_at stands in for expires_at.
FetchFailsOnceDue(c) ==
  /\ pc[c] = "fetch"
  /\ IF cache # None /\ IsFresh(cache, now[c])
     THEN Return(c, Served("stale"))
     ELSE Return(c, [kind |-> "error", credentials |-> None, at |-> clock])
  /\ writer' = None
  /\ UNCHANGED <<clock, cache, ahead, now, start>>

\* The `now` of the double check decides, however long the fetch took.
FetchFails(c) ==
  /\ pc[c] = "fetch"
  /\ IF cache # None /\ Unexpired(cache.credentials, now[c])
     THEN Return(c, Served("stale"))
     ELSE Return(c, [kind |-> "error", credentials |-> None, at |-> clock])
  /\ writer' = None
  /\ UNCHANGED <<clock, cache, ahead, now, start>>

\* The future is dropped at one of its awaits: the client of the request left.
Cancel(c) ==
  /\ pc[c] \in Queueing \cup {"fetch"}
  /\ Goto(c, "idle")
  /\ Leave(c)
  /\ writer' = IF writer = c THEN None ELSE writer
  /\ UNCHANGED <<clock, cache, now, start, result>>

Tick ==
  /\ clock < MaxTime
  /\ clock' = clock + 1
  /\ UNCHANGED <<cache, writer, ahead, pc, now, start, result>>

UseLock(c) == ReadHit(c) \/ ReadMiss(c) \/ WriteHit(c) \/ BeginFetch(c)

Next ==
  \/ Tick
  \/ \E c \in Callers : \/ Start(c) \/ UseLock(c)
                        \/ FetchSucceeds(c) \/ FetchFails(c) \/ Cancel(c)

(* The runtime polls whoever holds the lock's next permit.  Nothing bounds  *)
(* a fetch: when the provider answers is not assumed.                       *)
Fairness == \A c \in Callers : WF_vars(UseLock(c))

Spec == Init /\ [][Next]_vars /\ Fairness

-----------------------------------------------------------------------------
(* Type correctness of the cache, the lock and the callers.                 *)
TypeOK ==
  /\ clock \in Instants
  /\ cache \in Option(CachedEntry)
  /\ writer \in Option(Callers)
  /\ ahead \in [Callers -> SUBSET Callers]
  /\ pc \in [Callers -> {"idle", "read", "write", "fetch", "done"}]
  /\ now \in [Callers -> Instants]
  /\ start \in [Callers -> Instants]
  /\ result \in [Callers -> Option(Results)]

(* cache.rs:230, "20 concurrent refreshers should collapse into a single    *)
(* real fetch": never two fetches at once, and none begins while the cache  *)
(* holds credentials in the first half of their life.                       *)
SingleFlight == \A c, d \in Callers : pc[c] = "fetch" /\ pc[d] = "fetch" => c = d

FetchOnlyWhenDue ==
  [][\A c \in Callers :
       pc[c] # "fetch" /\ pc'[c] = "fetch" =>
         /\ cache # None => cache.refresh_at # None /\ cache.refresh_at =< clock
         /\ \A d \in Callers : pc[d] # "fetch"]_vars

(* Credentials handed out were valid when the call began, or were fetched   *)
(* since: the staleness of `now` is bounded by the call itself.             *)
ServedValidAtStart ==
  \A c \in Callers :
    result[c] # None /\ result[c].kind # "error" =>
      LET creds == result[c].credentials
      IN  Unexpired(creds, start[c]) \/ creds.fetched_at >= start[c]

(* A call fails only when nothing usable is left: a failed refresh does not *)
(* turn down credentials that are still valid when it answers.              *)
ErrorOnlyWhenExpired ==
  [][\A c \in Callers :
       pc[c] = "fetch" /\ result'[c] # None /\ result'[c].kind = "error" =>
         cache = None \/ ~Unexpired(cache.credentials, clock)]_vars

(* The cache implements what is promised of shared credentials: in terms of *)
(* the entry's age and of who fetches, it does nothing the contract of one  *)
(* identity does not allow.                                                 *)
Shared == INSTANCE SharedCredentials WITH
  entry <- IF cache = None THEN "none" ELSE IF IsFresh(cache, clock) THEN "fresh" ELSE "due",
  fetcher <- writer

ImplementsShared == Shared!Spec

(* The lock always passes on: when nobody fetches and somebody waits, one   *)
(* of those who wait can take it, in whatever order calls have come, missed *)
(* and queued again for the write lock, or been cancelled in the queue.     *)
LockPassesOn == writer = None /\ Queued # {} => \E c \in Queued : IsFirst(c)

(* If no fetch lasts forever, whoever waits for the lock gets it, however   *)
(* many calls come and go meanwhile.                                        *)
WaitersServed ==
  []<>(writer = None) => \A c \in Callers : pc[c] \in Queueing ~> pc[c] \notin Queueing

(* cache.rs:258 and 268, the test errors_once_stale_credentials_truly_expire *)
(* ("past real expiry too"): stale credentials are not served once expired. *)
StaleNeverExpired ==
  \A c \in Callers :
    result[c] # None /\ result[c].kind = "stale" =>
      Unexpired(result[c].credentials, result[c].at)
=============================================================================
