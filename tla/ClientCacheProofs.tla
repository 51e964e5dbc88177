-------------------------- MODULE ClientCacheProofs --------------------------
(***************************************************************************)
(* Proofs about ClientCache, for any finite number of callers and any keys. *)
(***************************************************************************)
EXTENDS ClientCache, FiniteSetTheorems, TLAPS

(* Callers that have missed on k and have yet to add a client for it.       *)
Pending(k) == {c \in Callers : pc[c] \in {"insert", "creating"} /\ key[c] = k}

\* A caller past Call knows its key.
KeyChosen == \A c \in Callers : pc[c] \in Running => key[c] \in Keys

\* The cache holds a client of a key once one has been created.
CachedOnceCreated == \A k \in Keys : created[k] = 0 <=> ~Cached(k)

(* The clients of a key that were and that may yet be created are paid for  *)
(* by distinct callers, until the key is cached and no one misses any more. *)
MissesCounted ==
  \A k \in Keys : created[k] + Cardinality(Pending(k)) =< Cardinality(Callers)

IInv ==
  /\ TypeOK
  /\ KeyChosen
  /\ CreateUnderGuard
  /\ SeenStaysCached
  /\ CachedOnceCreated
  /\ MissesCounted

-----------------------------------------------------------------------------
LEMMA TypePreserved == TypeOK /\ KeyChosen /\ [Next]_vars => TypeOK' /\ KeyChosen'
<1> SUFFICES ASSUME TypeOK, KeyChosen, [Next]_vars
             PROVE  TypeOK' /\ KeyChosen'
  OBVIOUS
<1> USE DEF TypeOK, KeyChosen, Option, Goto, Panic, Running, Faults
<1>1. ASSUME NEW c \in Callers, Call(c) PROVE TypeOK' /\ KeyChosen'
  BY <1>1 DEF Call
<1>2. ASSUME NEW c \in Callers, Lookup(c) PROVE TypeOK' /\ KeyChosen'
  BY <1>2 DEF Lookup, Enter
<1>3. ASSUME NEW c \in Callers, Take(c) PROVE TypeOK' /\ KeyChosen'
  BY <1>3 DEF Take, Enter
<1>4. ASSUME NEW c \in Callers, BeginCreate(c) PROVE TypeOK' /\ KeyChosen'
  BY <1>4 DEF BeginCreate, Enter
<1>5. ASSUME NEW c \in Callers, Create(c) PROVE TypeOK' /\ KeyChosen'
  BY <1>5 DEF Create
<1>6. ASSUME NEW c \in Callers, CreateFails(c) PROVE TypeOK' /\ KeyChosen'
  BY <1>6 DEF CreateFails
<1>7. ASSUME NEW c \in Callers, LockFails(c) PROVE TypeOK' /\ KeyChosen'
  BY <1>7 DEF LockFails
<1>8. CASE UNCHANGED vars
  BY <1>8 DEF vars
<1> QED
  BY <1>1, <1>2, <1>3, <1>4, <1>5, <1>6, <1>7, <1>8 DEF Next, Proceed

LEMMA InvInitial == Init => IInv
<1> SUFFICES ASSUME Init PROVE IInv
  OBVIOUS
<1>1. TypeOK /\ KeyChosen
  BY DEF Init, TypeOK, KeyChosen, Option, Running, Faults
<1>2. CreateUnderGuard /\ SeenStaysCached /\ CachedOnceCreated
  BY NoneAssumption DEF Init, CreateUnderGuard, SeenStaysCached, CachedOnceCreated, Cached
<1>3. MissesCounted
  <2> SUFFICES ASSUME NEW k \in Keys
               PROVE  created[k] + Cardinality(Pending(k)) =< Cardinality(Callers)
    BY DEF MissesCounted
  <2>1. Pending(k) = {}
    BY DEF Init, Pending
  <2> QED
    BY <2>1, FS_EmptySet, FS_CardinalityType, CallersFinite DEF Init
<1> QED
  BY <1>1, <1>2, <1>3 DEF IInv

\* Pending(k) is finite, and a smaller set of callers has a smaller count.
LEMMA PendingCount ==
  ASSUME NEW k
  PROVE  /\ IsFiniteSet(Pending(k))
         /\ Cardinality(Pending(k)) \in Nat
         /\ Cardinality(Pending(k)) =< Cardinality(Callers)
         /\ Cardinality(Callers) \in Nat
BY CallersFinite, FS_Subset, FS_CardinalityType DEF Pending

LEMMA PendingCountPrimed ==
  ASSUME NEW k
  PROVE  /\ IsFiniteSet(Pending(k)')
         /\ Cardinality(Pending(k)') \in Nat
         /\ Cardinality(Pending(k)') =< Cardinality(Callers)
BY CallersFinite, FS_Subset, FS_CardinalityType DEF Pending

\* A step that creates no client and adds no miss keeps the count.
LEMMA NoNewMiss ==
  ASSUME IInv, created' = created, \A k \in Keys : Pending(k)' \subseteq Pending(k)
  PROVE  MissesCounted'
<1> SUFFICES ASSUME NEW k \in Keys
             PROVE  created[k] + Cardinality(Pending(k)') =< Cardinality(Callers)
  BY DEF MissesCounted
<1>1. Cardinality(Pending(k)') =< Cardinality(Pending(k))
  BY PendingCount, FS_Subset
<1>2. created[k] + Cardinality(Pending(k)) =< Cardinality(Callers)
  BY DEF IInv, MissesCounted
<1>3. created[k] \in Nat
  BY DEF IInv, TypeOK
<1> QED
  BY <1>1, <1>2, <1>3, PendingCount, PendingCountPrimed

\* The other conjuncts, which say what the cache and its guard hold.
LEMMA RestPreserved ==
  ASSUME IInv, [Next]_vars
  PROVE  CreateUnderGuard' /\ SeenStaysCached' /\ CachedOnceCreated'
<1> USE DEF IInv, TypeOK, Goto, Panic, Cached, Enter
<1>1. ASSUME NEW c \in Callers, Call(c)
      PROVE  CreateUnderGuard' /\ SeenStaysCached' /\ CachedOnceCreated'
  BY <1>1 DEF Call, CreateUnderGuard, SeenStaysCached, CachedOnceCreated
<1>2. ASSUME NEW c \in Callers, Lookup(c)
      PROVE  CreateUnderGuard' /\ SeenStaysCached' /\ CachedOnceCreated'
  BY <1>2 DEF Lookup, CreateUnderGuard, SeenStaysCached, CachedOnceCreated
<1>3. ASSUME NEW c \in Callers, Take(c)
      PROVE  CreateUnderGuard' /\ SeenStaysCached' /\ CachedOnceCreated'
  BY <1>3 DEF Take, CreateUnderGuard, SeenStaysCached, CachedOnceCreated
<1>4. ASSUME NEW c \in Callers, BeginCreate(c)
      PROVE  CreateUnderGuard' /\ SeenStaysCached' /\ CachedOnceCreated'
  BY <1>4, NoneAssumption
     DEF BeginCreate, CreateUnderGuard, SeenStaysCached, CachedOnceCreated
<1>5. ASSUME NEW c \in Callers, Create(c)
      PROVE  CreateUnderGuard' /\ SeenStaysCached' /\ CachedOnceCreated'
  <2>1. key[c] \in Keys /\ created[key[c]] \in Nat
    BY <1>5 DEF Create, KeyChosen, Running
  <2>2. created[key[c]] + 1 # None /\ created[key[c]] + 1 # 0
    BY <2>1, NoneAssumption
  <2>3. CreateUnderGuard'
    BY <1>5, NoneAssumption DEF Create, CreateUnderGuard
  <2>4. SeenStaysCached'
    BY <1>5, <2>1, <2>2 DEF Create, SeenStaysCached, KeyChosen, Running
  <2>5. CachedOnceCreated'
    BY <1>5, <2>1, <2>2 DEF Create, CachedOnceCreated
  <2> QED
    BY <2>3, <2>4, <2>5
<1>6. ASSUME NEW c \in Callers, CreateFails(c)
      PROVE  CreateUnderGuard' /\ SeenStaysCached' /\ CachedOnceCreated'
  BY <1>6, NoneAssumption
     DEF CreateFails, CreateUnderGuard, SeenStaysCached, CachedOnceCreated
<1>7. ASSUME NEW c \in Callers, LockFails(c)
      PROVE  CreateUnderGuard' /\ SeenStaysCached' /\ CachedOnceCreated'
  BY <1>7 DEF LockFails, CreateUnderGuard, SeenStaysCached, CachedOnceCreated
<1>8. CASE UNCHANGED vars
  BY <1>8 DEF vars, CreateUnderGuard, SeenStaysCached, CachedOnceCreated
<1> QED
  BY <1>1, <1>2, <1>3, <1>4, <1>5, <1>6, <1>7, <1>8 DEF Next, Proceed

LEMMA CountPreserved ==
  ASSUME IInv, [Next]_vars
  PROVE  MissesCounted'
<1> USE DEF IInv, TypeOK, Goto, Panic, Enter
<1>1. ASSUME NEW c \in Callers, Call(c) PROVE MissesCounted'
  <2>1. created' = created /\ \A k \in Keys : Pending(k)' \subseteq Pending(k)
    BY <1>1 DEF Call, Pending
  <2> QED
    BY <2>1, NoNewMiss
<1>2. ASSUME NEW c \in Callers, Lookup(c) PROVE MissesCounted'
  <2> SUFFICES ASSUME NEW k \in Keys
               PROVE  created[k] + Cardinality(Pending(k)') =< Cardinality(Callers)
    BY <1>2 DEF Lookup, MissesCounted
  <2>1. CASE k = key[c] /\ ~Cached(k)
    <3>1. created[k] = 0
      BY <2>1 DEF CachedOnceCreated
    <3> QED
      BY <3>1, PendingCountPrimed
  <2>2. CASE ~(k = key[c] /\ ~Cached(k))
    <3>1. Pending(k)' \subseteq Pending(k)
      BY <1>2, <2>2 DEF Lookup, Pending
    <3>2. Cardinality(Pending(k)') =< Cardinality(Pending(k))
      BY <3>1, PendingCount, FS_Subset
    <3>3. created[k] + Cardinality(Pending(k)) =< Cardinality(Callers)
          /\ created[k] \in Nat
      BY DEF MissesCounted
    <3> QED
      BY <3>2, <3>3, PendingCount, PendingCountPrimed
  <2> QED
    BY <2>1, <2>2
<1>3. ASSUME NEW c \in Callers, Take(c) PROVE MissesCounted'
  <2>1. created' = created /\ \A k \in Keys : Pending(k)' \subseteq Pending(k)
    BY <1>3 DEF Take, Pending
  <2> QED
    BY <2>1, NoNewMiss
<1>4. ASSUME NEW c \in Callers, BeginCreate(c) PROVE MissesCounted'
  <2>1. created' = created /\ \A k \in Keys : Pending(k)' \subseteq Pending(k)
    BY <1>4 DEF BeginCreate, Pending
  <2> QED
    BY <2>1, NoNewMiss
<1>5. ASSUME NEW c \in Callers, Create(c) PROVE MissesCounted'
  <2> SUFFICES ASSUME NEW k \in Keys
               PROVE  created'[k] + Cardinality(Pending(k)') =< Cardinality(Callers)
    BY DEF MissesCounted
  <2>1. created[k] + Cardinality(Pending(k)) =< Cardinality(Callers)
        /\ created[k] \in Nat
    BY DEF MissesCounted
  <2>2. Pending(k)' = Pending(k) \ {c}
    BY <1>5 DEF Create, Pending
  <2>3. Cardinality(Pending(k)') =
          IF c \in Pending(k) THEN Cardinality(Pending(k)) - 1
                             ELSE Cardinality(Pending(k))
    BY <2>2, PendingCount, FS_RemoveElement
  <2>4. CASE k = key[c]
    <3>1. c \in Pending(k) /\ created'[k] = created[k] + 1
      BY <1>5, <2>4 DEF Create, Pending
    <3> QED
      BY <2>1, <2>3, <3>1, PendingCount
  <2>5. CASE k # key[c]
    <3>1. c \notin Pending(k) /\ created'[k] = created[k]
      BY <1>5, <2>5 DEF Create, Pending
    <3> QED
      BY <2>1, <2>3, <3>1
  <2> QED
    BY <2>4, <2>5
<1>6. ASSUME NEW c \in Callers, CreateFails(c) PROVE MissesCounted'
  <2>1. created' = created /\ \A k \in Keys : Pending(k)' \subseteq Pending(k)
    BY <1>6 DEF CreateFails, Pending
  <2> QED
    BY <2>1, NoNewMiss
<1>7. ASSUME NEW c \in Callers, LockFails(c) PROVE MissesCounted'
  <2>1. created' = created /\ \A k \in Keys : Pending(k)' \subseteq Pending(k)
    BY <1>7 DEF LockFails, Pending
  <2> QED
    BY <2>1, NoNewMiss
<1>8. CASE UNCHANGED vars
  <2>1. created' = created /\ \A k \in Keys : Pending(k)' \subseteq Pending(k)
    BY <1>8 DEF vars, Pending
  <2> QED
    BY <2>1, NoNewMiss
<1> QED
  BY <1>1, <1>2, <1>3, <1>4, <1>5, <1>6, <1>7, <1>8 DEF Next, Proceed

THEOREM Invariance == Spec => []IInv
<1>1. IInv /\ [Next]_vars => IInv'
  BY TypePreserved, RestPreserved, CountPreserved DEF IInv
<1> QED
  BY InvInitial, <1>1, PTL DEF Spec

-----------------------------------------------------------------------------
(* TypeOK, the type invariant the run checks, for every instance.           *)
THEOREM TypeCorrect == Spec => []TypeOK
<1>1. IInv => TypeOK
  BY DEF IInv
<1> QED
  BY <1>1, Invariance, PTL

(* SeenStaysCached: the entry one read has seen is there for the next one,  *)
(* and so the `expect` of target.rs:169 never fails.                        *)
THEOREM HitsLast == Spec => []SeenStaysCached
<1>1. IInv => SeenStaysCached
  BY DEF IInv
<1> QED
  BY <1>1, Invariance, PTL

(* CreationsBounded: however calls interleave, a key costs no more clients  *)
(* than there are callers.                                                  *)
THEOREM WasteBounded == Spec => []CreationsBounded
<1>1. IInv => CreationsBounded
  <2> SUFFICES ASSUME IInv, NEW k \in Keys PROVE created[k] =< Cardinality(Callers)
    BY DEF CreationsBounded
  <2>1. created[k] + Cardinality(Pending(k)) =< Cardinality(Callers)
        /\ created[k] \in Nat
    BY DEF IInv, TypeOK, MissesCounted
  <2> QED
    BY <2>1, PendingCount
<1> QED
  BY <1>1, Invariance, PTL
-----------------------------------------------------------------------------
\* What is cached stays so, whoever inserts or fails meanwhile.
LEMMA CachedLasts ==
  ASSUME IInv, [Next]_vars, NEW k \in Keys, Cached(k)
  PROVE  Cached(k)'
<1>1. CASE cache' = cache
  BY <1>1 DEF Cached
<1>2. ASSUME NEW c \in Callers, Create(c) PROVE Cached(k)'
  <2>1. key[c] \in Keys /\ created[key[c]] + 1 \in Nat
    BY <1>2 DEF Create, IInv, TypeOK, KeyChosen, Running
  <2>2. created[key[c]] + 1 # None
    BY <2>1, NoneAssumption
  <2> QED
    BY <1>2, <2>1, <2>2 DEF Create, Cached, IInv, TypeOK
<1> QED
  BY <1>1, <1>2
     DEF Next, Proceed, Call, Lookup, Take, BeginCreate, CreateFails, LockFails, vars

LEMMA OthersKeepTheirSteps ==
  ASSUME IInv, [Next]_vars, NEW c \in Callers, pc[c] \in Running,
         pc'[c] = pc[c], key'[c] = key[c]
  PROVE  StepsLeft(c)' =< StepsLeft(c)
<1>1. key[c] \in Keys
  BY DEF IInv, KeyChosen
<1>2. Cached(key[c]) => Cached(key[c])'
  BY <1>1, CachedLasts
<1> QED
  BY <1>2 DEF StepsLeft, Cached, Running

LEMMA StepsLeftFall ==
  ASSUME IInv, Next, NEW c \in Callers, pc[c] \in Running
  PROVE  IF pc'[c] = pc[c] THEN StepsLeft(c)' =< StepsLeft(c)
                           ELSE StepsLeft(c)' < StepsLeft(c)
<1> USE DEF Goto, Panic, Enter
<1>1. pc \in [Callers -> Running \cup {"idle", "done", "panicked"}]
      /\ key \in [Callers -> Option(Keys)] /\ key[c] \in Keys
  BY DEF IInv, TypeOK, KeyChosen
<1>2. ASSUME NEW d \in Callers, Call(d) \/ Proceed(d), d # c
      PROVE  pc'[c] = pc[c] /\ key'[c] = key[c]
  BY <1>1, <1>2 DEF Call, Proceed, Lookup, Take, BeginCreate, Create, CreateFails, LockFails
<1>3. ASSUME pc'[c] = pc[c], key'[c] = key[c]
      PROVE  StepsLeft(c)' =< StepsLeft(c)
  BY <1>3, OthersKeepTheirSteps
<1>4. ~Call(c)
  BY DEF Call, Running
<1>5. ASSUME Lookup(c) PROVE pc'[c] # pc[c] /\ StepsLeft(c)' < StepsLeft(c)
  BY <1>1, <1>5 DEF Lookup, StepsLeft
<1>6. ASSUME Take(c) PROVE pc'[c] # pc[c] /\ StepsLeft(c)' < StepsLeft(c)
  BY <1>1, <1>6 DEF Take, StepsLeft
<1>7. ASSUME BeginCreate(c) PROVE pc'[c] # pc[c] /\ StepsLeft(c)' < StepsLeft(c)
  BY <1>1, <1>7 DEF BeginCreate, StepsLeft
<1>8. ASSUME Create(c) PROVE pc'[c] # pc[c] /\ StepsLeft(c)' < StepsLeft(c)
  <2>1. created[key[c]] + 1 \in Nat
    BY <1>1 DEF IInv, TypeOK
  <2>2. created[key[c]] + 1 # None
    BY <2>1, NoneAssumption
  <2>3. cache'[key[c]] # None /\ key' = key /\ pc'[c] = "lookup" /\ pc[c] = "creating"
    BY <1>1, <1>8, <2>2 DEF Create, IInv, TypeOK
  <2> QED
    BY <2>3 DEF StepsLeft, Cached
<1>9. ASSUME CreateFails(c) PROVE pc'[c] # pc[c] /\ StepsLeft(c)' < StepsLeft(c)
  BY <1>1, <1>9 DEF CreateFails, StepsLeft
<1>10. ASSUME LockFails(c) PROVE pc'[c] # pc[c] /\ StepsLeft(c)' < StepsLeft(c)
  BY <1>1, <1>10 DEF LockFails, StepsLeft, Running
<1>11. PICK d \in Callers : Call(d) \/ Proceed(d)
  BY DEF Next
<1>12. CASE d # c
  BY <1>2, <1>3, <1>11, <1>12
<1>13. CASE d = c
  BY <1>4, <1>5, <1>6, <1>7, <1>8, <1>9, <1>10, <1>11, <1>13 DEF Proceed
<1> QED
  BY <1>12, <1>13

(* CallsAdvance: each step of a call brings its end nearer and no step of   *)
(* another caller puts it off, so that a call that misses comes back at     *)
(* most once and takes five steps at most, with any callers and keys.       *)
THEOREM CallsComeBackOnce == Spec => CallsAdvance
<1> DEFINE Advance ==
      \A c \in Callers :
        pc[c] \in Running =>
          IF pc'[c] = pc[c] THEN StepsLeft(c)' =< StepsLeft(c)
                            ELSE StepsLeft(c)' < StepsLeft(c)
<1>1. IInv /\ [Next]_vars => [Advance]_vars
  BY StepsLeftFall
<1> QED
  BY <1>1, Invariance, PTL DEF Spec, CallsAdvance
=============================================================================
