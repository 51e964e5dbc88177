----------------------------- MODULE ClientCache -----------------------------
(***************************************************************************)
(* TargetConfig::get_https_client (config/target.rs): the process-wide     *)
(* cache of https clients, one per timeout and TLS configuration, behind a *)
(* std RwLock.  Whoever panics while holding the write lock poisons it.    *)
(*                                                                         *)
(* A caller is a request being dispatched.  A read guard lives within one  *)
(* expression, so each read is one step; the write guard lives as long as  *)
(* a client takes to build, which may read a CA file.                      *)
(***************************************************************************)
EXTENDS Integers, FiniteSets

CONSTANTS
  Callers, \* requests dispatched at once
  Keys,    \* the (timeout, TLS configuration) pairs of the targets
  None     \* no client, no key, no holder

ASSUME CallersFinite == IsFiniteSet(Callers)
ASSUME NoneAssumption == None \notin Nat /\ None \notin Keys /\ None \notin Callers

Option(S) == {None} \cup S

VARIABLES
  cache,    \* CACHE: the client of each key, numbered by its creation
  poisoned, \* the lock's poison flag
  holder,   \* who holds the write guard, None if nobody does
  created,  \* (history) how many clients have been created for each key
  pc,       \* where each caller is
  key,      \* the key each caller asks for
  fault     \* what a caller's last call panicked on

vars == <<cache, poisoned, holder, created, pc, key, fault>>

Running == {"lookup", "take", "insert", "creating"}
Faults == {"none", "lock", "missing", "create"}

-----------------------------------------------------------------------------
Init ==
  /\ cache = [k \in Keys |-> None]
  /\ poisoned = FALSE
  /\ holder = None
  /\ created = [k \in Keys |-> 0]
  /\ pc = [c \in Callers |-> "idle"]
  /\ key = [c \in Callers |-> None]
  /\ fault = [c \in Callers |-> "none"]

Goto(c, label) == pc' = [pc EXCEPT ![c] = label]

Panic(c, what) == Goto(c, "panicked") /\ fault' = [fault EXCEPT ![c] = what]

Cached(k) == cache[k] # None

\* The lock can be taken: what it protects is intact.
Enter(c, label) == pc[c] = label /\ holder = None /\ ~poisoned

Call(c) ==
  /\ pc[c] \in {"idle", "done", "panicked"}
  /\ Goto(c, "lookup")
  /\ \E k \in Keys : key' = [key EXCEPT ![c] = k]
  /\ fault' = [fault EXCEPT ![c] = "none"]
  /\ UNCHANGED <<cache, poisoned, holder, created>>

Lookup(c) ==
  /\ Enter(c, "lookup")
  /\ Goto(c, IF Cached(key[c]) THEN "take" ELSE "insert")
  /\ UNCHANGED <<cache, poisoned, holder, created, key, fault>>

\* The second read: the entry seen by the first one is expected to be there.
Take(c) ==
  /\ Enter(c, "take")
  /\ IF Cached(key[c]) THEN Goto(c, "done") /\ UNCHANGED fault
                       ELSE Panic(c, "missing")
  /\ UNCHANGED <<cache, poisoned, holder, created, key>>

BeginCreate(c) ==
  /\ Enter(c, "insert")
  /\ holder' = c
  /\ Goto(c, "creating")
  /\ UNCHANGED <<cache, poisoned, created, key, fault>>

\* Mutant: the new client is used but not kept.
CreateWithoutInsert(c) ==
  /\ pc[c] = "creating"
  /\ created' = [created EXCEPT ![key[c]] = @ + 1]
  /\ holder' = None
  /\ Goto(c, "lookup")
  /\ UNCHANGED <<cache, poisoned, key, fault>>

\* Insert without a second look, then start over.
Create(c) ==
  /\ pc[c] = "creating"
  /\ created' = [created EXCEPT ![key[c]] = @ + 1]
  /\ cache' = [cache EXCEPT ![key[c]] = created[key[c]] + 1]
  /\ holder' = None
  /\ Goto(c, "lookup")
  /\ UNCHANGED <<poisoned, key, fault>>

\* Mutant: the error is handed to the caller.
CreateReturnsError(c) ==
  /\ pc[c] = "creating"
  /\ Goto(c, "failed")
  /\ holder' = None
  /\ UNCHANGED <<cache, poisoned, created, key, fault>>

\* Mutant: what could not be built is removed.
CreateFailsEvicting(c) ==
  /\ pc[c] = "creating"
  /\ Panic(c, "create")
  /\ cache' = [cache EXCEPT ![key[c]] = None]
  /\ poisoned' = TRUE
  /\ holder' = None
  /\ UNCHANGED <<created, key>>

\* The CA file is missing or holds no certificate: a panic under the guard.
CreateFails(c) ==
  /\ pc[c] = "creating"
  /\ Panic(c, "create")
  /\ poisoned' = TRUE
  /\ holder' = None
  /\ UNCHANGED <<cache, created, key>>

\* Mutant: a poisoned lock is tried again.
LockFailsRetrying(c) ==
  /\ pc[c] \in Running \ {"creating"} /\ holder = None /\ poisoned
  /\ Goto(c, "lookup")
  /\ UNCHANGED <<cache, poisoned, holder, created, key, fault>>

LockFails(c) ==
  /\ pc[c] \in Running \ {"creating"} /\ holder = None /\ poisoned
  /\ Panic(c, "lock")
  /\ UNCHANGED <<cache, poisoned, holder, created, key>>

Proceed(c) == \/ Lookup(c) \/ Take(c) \/ BeginCreate(c)
              \/ Create(c) \/ CreateFails(c) \/ LockFails(c)

Next == \E c \in Callers : Call(c) \/ Proceed(c)

(* The operating system schedules every thread, and building a client takes *)
(* a bounded time.  Which waiting thread a freed lock goes to is open.      *)
Fairness == \A c \in Callers : WF_vars(Proceed(c))

Spec == Init /\ [][Next]_vars /\ Fairness

-----------------------------------------------------------------------------
(* Type correctness of the cache, its lock and the callers.                 *)
TypeOK ==
  /\ cache \in [Keys -> Option(Nat)]
  /\ poisoned \in BOOLEAN
  /\ holder \in Option(Callers)
  /\ created \in [Keys -> Nat]
  /\ pc \in [Callers -> Running \cup {"idle", "done", "panicked"}]
  /\ key \in [Callers -> Option(Keys)]
  /\ fault \in [Callers -> Faults]

(* The two reads of a hit take the lock separately (target.rs:157 and 164): *)
(* nothing that runs between them takes the entry away, so the `expect` of  *)
(* target.rs:169 holds.                                                     *)
SeenStaysCached == \A c \in Callers : pc[c] = "take" => Cached(key[c])

(* Only one caller builds a client at a time, and it holds the guard.       *)
CreateUnderGuard == \A c \in Callers : pc[c] = "creating" <=> holder = c

(* Callers that miss at the same time each build a client and replace the   *)
(* one before, with its connection pool.  The waste is bounded: a key never *)
(* costs more clients than there are requests dispatched at once.           *)
CreationsBounded == \A k \in Keys : created[k] =< Cardinality(Callers)

\* How many steps a call has left at most.
StepsLeft(c) ==
  CASE pc[c] = "lookup"   -> IF Cached(key[c]) THEN 2 ELSE 5
    [] pc[c] = "insert"   -> 4
    [] pc[c] = "creating" -> 3
    [] pc[c] = "take"     -> 1
    [] OTHER              -> 0

(* After a miss the function calls itself (target.rs:181).  It does so at   *)
(* most once: the call that comes back from building a client finds it, and *)
(* what other callers insert or fail to build never sends it round again.   *)
CallsAdvance ==
  [][\A c \in Callers :
       pc[c] \in Running =>
         IF pc'[c] = pc[c] THEN StepsLeft(c)' =< StepsLeft(c)
                           ELSE StepsLeft(c)' < StepsLeft(c)]_vars

(* A call never hangs on the lock: it returns a client or panics, whatever  *)
(* the other callers do.                                                    *)
CallsEnd == \A c \in Callers : pc[c] \in Running ~> pc[c] \notin Running

(* target.rs:159, 166 and 175: `.expect("unable to lock cache, looks like a *)
(* BUG")` takes it that the lock is never poisoned.                         *)
LockNeverPoisoned == \A c \in Callers : fault[c] # "lock"
=============================================================================
