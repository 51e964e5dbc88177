---------------------------- MODULE HeadersProofs ----------------------------
(***************************************************************************)
(* Proofs about Headers: for every list of transformations and every       *)
(* header map, going through the list leaves what the list declares.       *)
(***************************************************************************)
EXTENDS Headers, WellFoundedInduction, TLAPS

-----------------------------------------------------------------------------
(* Least and greatest numbers                                               *)

LEMMA Least ==
  ASSUME NEW S \in SUBSET Nat, S # {}
  PROVE  \E m \in S : \A k \in S : m =< k
<1> DEFINE R == OpToRel(<, Nat)
<1>1. IsWellFoundedOn(R, Nat)
  BY NatLessThanWellFounded
<1>2. PICK m \in S : \A k \in S : ~(<<k, m>> \in R)
  BY <1>1, WFMin
<1>3. \A k \in S : ~(k < m)
  BY <1>2 DEF OpToRel
<1> QED
  BY <1>3

LEMMA MinIsLeast ==
  ASSUME NEW S \in SUBSET Nat, S # {}
  PROVE  Min(S) \in S /\ \A k \in S : Min(S) =< k
BY Least DEF Min

\* A number after all others of the set does not change the least one ...
LEMMA MinOfMore ==
  ASSUME NEW S \in SUBSET Nat, S # {}, NEW m \in Nat, \A k \in S : k < m
  PROVE  Min(S \cup {m}) = Min(S)
<1>1. Min(S) \in S /\ \A k \in S : Min(S) =< k
  BY MinIsLeast
<1>2. Min(S \cup {m}) \in S \cup {m} /\ \A k \in S \cup {m} : Min(S \cup {m}) =< k
  <2>1. S \cup {m} \in SUBSET Nat /\ S \cup {m} # {}
    OBVIOUS
  <2> QED
    BY <2>1, MinIsLeast
<1>3. Min(S) \in Nat /\ Min(S \cup {m}) \in Nat
  BY <1>1, <1>2
<1>4. Min(S \cup {m}) # m
  BY <1>1, <1>2, <1>3
<1> QED
  BY <1>1, <1>2, <1>3, <1>4

\* ... and is the greatest one.
LEMMA MaxOfMore ==
  ASSUME NEW S \in SUBSET Nat, NEW m \in Nat, \A k \in S : k < m
  PROVE  Max(S \cup {m}) = m
<1>1. \A x \in S \cup {m} : (\A y \in S \cup {m} : x >= y) => x = m
  OBVIOUS
<1>2. \A y \in S \cup {m} : m >= y
  OBVIOUS
<1> QED
  BY <1>1, <1>2 DEF Max

-----------------------------------------------------------------------------
(* One transformation more                                                  *)

LEMMA DropsStep ==
  ASSUME NEW list, NEW k \in Nat, NEW n
  PROVE  Drops(list, k + 1, n) =
           IF list[k + 1].action = "drop" /\ list[k + 1].name \in {n, "*"}
           THEN Drops(list, k, n) \cup {k + 1} ELSE Drops(list, k, n)
<1>1. 1 .. k + 1 = (1 .. k) \cup {k + 1}
  OBVIOUS
<1> QED
  BY <1>1 DEF Drops

\* A drop of n leaves nothing that is later.
LEMMA LaterThanDrop ==
  ASSUME NEW list, NEW k \in Nat, NEW n, NEW i, NEW action,
         k + 1 \in Drops(list, k + 1, n)
  PROVE  Later(list, k + 1, n, i, action) = {}
BY DEF Later

LEMMA LaterStep ==
  ASSUME NEW list, NEW k \in Nat, NEW n, NEW i \in 0 .. k, NEW action,
         k + 1 \notin Drops(list, k + 1, n)
  PROVE  Later(list, k + 1, n, i, action) =
           IF list[k + 1].action = action /\ list[k + 1].name = n
           THEN Later(list, k, n, i, action) \cup {k + 1} ELSE Later(list, k, n, i, action)
<1>1. Drops(list, k + 1, n) = Drops(list, k, n) /\ Drops(list, k, n) \subseteq 1 .. k
  <2>1. Drops(list, k, n) \subseteq 1 .. k
    BY DEF Drops
  <2> QED
    BY <2>1, DropsStep
<1>2. 1 .. k + 1 = (1 .. k) \cup {k + 1}
  OBVIOUS
<1>3. \A d \in Drops(list, k, n) \cup {i} : k + 1 > d
  BY <1>1
<1>4. \A j : j \in Later(list, k + 1, n, i, action) <=>
              \/ j \in Later(list, k, n, i, action)
              \/ j = k + 1 /\ list[k + 1].action = action /\ list[k + 1].name = n
  BY <1>1, <1>2, <1>3 DEF Later
<1> QED
  BY <1>4

\* What k transformations leave is absent exactly if nothing has made it.
LEMMA DeclaredAbsent ==
  ASSUME NEW list, NEW k \in Nat, NEW n, NEW values, NEW ctx
  PROVE  Declared(list, k, n, values, ctx) = Absent <=>
           ~Kept(list, k, n, values) /\ Adds(list, k, n) = {}
<1>1. \A x : <<x>> # Absent
  BY DEF Absent
<1>2. Kept(list, k, n, values) => values # Absent
  BY DEF Kept
<1> QED
  BY <1>1, <1>2 DEF Declared

\* The transformation that the next one does or does not follow
LEMMA OriginInRange ==
  ASSUME NEW list, NEW k \in Nat, NEW n, NEW values,
         Kept(list, k, n, values) \/ Adds(list, k, n) # {}
  PROVE  Origin(list, k, n, values) \in 0 .. k
<1>1. Adds(list, k, n) \in SUBSET Nat /\ Adds(list, k, n) \subseteq 1 .. k
  BY DEF Adds, Later
<1>2. CASE Kept(list, k, n, values)
  BY <1>2 DEF Origin
<1>3. CASE ~Kept(list, k, n, values)
  <2>1. Min(Adds(list, k, n)) \in Adds(list, k, n)
    BY <1>1, <1>3, MinIsLeast
  <2> QED
    BY <1>1, <1>3, <2>1 DEF Origin
<1> QED
  BY <1>2, <1>3

LEMMA DeclaredStep ==
  ASSUME NEW list, NEW k \in Nat, NEW n, NEW values, NEW ctx
  PROVE  LET t == list[k + 1]
             before == Declared(list, k, n, values, ctx)
         IN  Declared(list, k + 1, n, values, ctx) =
               IF t.action = "drop" /\ t.name \in {n, "*"} THEN Absent
               ELSE IF t.name = n /\ t.action = (IF before = Absent THEN "add" ELSE "update")
               THEN <<Expand(t.value, ctx)>>
               ELSE before
<1> DEFINE t == list[k + 1]
           before == Declared(list, k, n, values, ctx)
           after == Declared(list, k + 1, n, values, ctx)
           Dropped == t.action = "drop" /\ t.name \in {n, "*"}
           Does(action) == t.action = action /\ t.name = n
<1> HIDE DEF t, before, after
<1>1. CASE Dropped
  <2>1. k + 1 \in Drops(list, k + 1, n)
    BY <1>1, DropsStep DEF t
  <2>2. Adds(list, k + 1, n) = {} /\ ~Kept(list, k + 1, n, values)
    BY <2>1, LaterThanDrop DEF Adds, Kept
  <2>3. after = Absent
    BY <2>2, DeclaredAbsent DEF after
  <2> QED
    BY <1>1, <2>3 DEF t, after
<1>2. CASE ~Dropped
  <2> DEFINE adds == Adds(list, k, n)
             kept == Kept(list, k, n, values)
             origin == Origin(list, k, n, values)
             updates == Updates(list, k, n, values)
  <2>1. Drops(list, k + 1, n) = Drops(list, k, n) /\ k + 1 \notin Drops(list, k + 1, n)
    <3>1. k + 1 \notin Drops(list, k, n)
      BY DEF Drops
    <3>2. Drops(list, k + 1, n) = Drops(list, k, n)
      BY <1>2, DropsStep DEF t
    <3> QED
      BY <3>1, <3>2
  <2>2. Kept(list, k + 1, n, values) = kept
    BY <2>1 DEF Kept
  <2>3. Adds(list, k + 1, n) = IF Does("add") THEN adds \cup {k + 1} ELSE adds
    BY <2>1, LaterStep DEF Adds, t
  <2>4. adds \in SUBSET Nat /\ \A j \in adds : j < k + 1
    BY DEF Adds, Later
  <2>5. CASE before = Absent
    <3>1. ~kept /\ adds = {}
      BY <2>5, DeclaredAbsent DEF before
    <3>2. CASE Does("add")
      <4>1. Adds(list, k + 1, n) = {k + 1}
        BY <2>3, <3>1, <3>2
      <4>2. Min({k + 1}) = k + 1
        BY DEF Min
      <4>3. Later(list, k + 1, n, k + 1, "update") = {}
        BY DEF Later
      <4>4. Updates(list, k + 1, n, values) = {}
        BY <2>2, <3>1, <4>1, <4>2, <4>3 DEF Updates, Origin
      <4>5. after = <<Expand(list[k + 1].value, ctx)>>
        BY <2>2, <3>1, <4>1, <4>2, <4>4 DEF Declared, after
      <4> QED
        BY <1>2, <2>5, <3>2, <4>5 DEF t, after, before
    <3>3. CASE ~Does("add")
      <4>1. after = Absent
        BY <2>2, <2>3, <3>1, <3>3, DeclaredAbsent DEF after
      <4> QED
        BY <1>2, <2>5, <3>3, <4>1 DEF t, after, before
    <3> QED
      BY <3>2, <3>3
  <2>6. CASE before # Absent
    <3>1. kept \/ adds # {}
      BY <2>6, DeclaredAbsent DEF before
    <3>2. ~kept => Min(Adds(list, k + 1, n)) = Min(adds)
      BY <2>3, <2>4, <3>1, MinOfMore
    <3>3. Origin(list, k + 1, n, values) = origin /\ origin \in 0 .. k
      BY <2>2, <3>1, <3>2, OriginInRange DEF Origin
    <3>4. Updates(list, k + 1, n, values) =
            IF Does("update") THEN updates \cup {k + 1} ELSE updates
      BY <2>1, <3>3, LaterStep DEF Updates, t
    <3>5. kept \/ Adds(list, k + 1, n) # {}
      BY <2>3, <3>1
    <3>6. CASE Does("update")
      <4>1. updates \in SUBSET Nat /\ \A j \in updates : j < k + 1
        BY DEF Updates, Later
      <4>2. ASSUME NEW S \in SUBSET Nat, \A j \in S : j < k + 1 PROVE Max(S \cup {k + 1}) = k + 1
        <5>1. k + 1 \in Nat
          OBVIOUS
        <5> QED
          BY <4>2, <5>1, MaxOfMore
      <4>3. after = <<Expand(list[k + 1].value, ctx)>>
        BY <2>2, <3>4, <3>5, <3>6, <4>1, <4>2 DEF Declared, after
      <4> QED
        BY <1>2, <2>6, <3>6, <4>3 DEF t, after, before
    <3>7. CASE ~Does("update")
      <4>1. after = before
        BY <2>2, <3>1, <3>2, <3>4, <3>5, <3>7 DEF Declared, after, before
      <4> QED
        BY <1>2, <2>6, <3>7, <4>1 DEF t, after, before
    <3> QED
      BY <3>6, <3>7
  <2> QED
    BY <2>5, <2>6
<1> QED
  BY <1>1, <1>2

LEMMA ApplyStep ==
  ASSUME NEW headers, IsHeaderMap(headers), NEW n \in HeaderNames, NEW t \in Transform, NEW ctx
  PROVE  Values(Apply(t, headers, ctx), n) =
           IF t.action = "drop" /\ t.name \in {n, "*"} THEN Absent
           ELSE IF t.name = n /\ t.action = (IF Values(headers, n) = Absent THEN "add" ELSE "update")
           THEN <<Expand(t.value, ctx)>>
           ELSE Values(headers, n)
<1>1. Values(headers, n) = Absent <=> n \notin DOMAIN headers
  BY DEF Values, Absent, IsHeaderMap
<1>2. CASE t.action = "drop"
  BY <1>2 DEF Apply, Without, Values
<1>3. CASE t.action # "drop" /\ Writes(t, headers)
  BY <1>1, <1>3 DEF Apply, Writes, InsertHeader, Values, Transform
<1>4. CASE t.action # "drop" /\ ~Writes(t, headers)
  BY <1>1, <1>4 DEF Apply, Writes, Transform
<1> QED
  BY <1>2, <1>3, <1>4

(* What the loop of transform makes of a header one transformation after    *)
(* the other is what Declared reads off the list at once.                   *)
THEOREM TransformAsDeclared ==
  ASSUME NEW list \in Seq(Transform), NEW k \in Nat, k + 1 \in DOMAIN list,
         NEW headers, IsHeaderMap(headers), NEW n \in HeaderNames, NEW values, NEW ctx,
         Values(headers, n) = Declared(list, k, n, values, ctx)
  PROVE  Values(Apply(list[k + 1], headers, ctx), n) = Declared(list, k + 1, n, values, ctx)
<1>1. list[k + 1] \in Transform
  OBVIOUS
<1>2. Values(Apply(list[k + 1], headers, ctx), n) =
        IF list[k + 1].action = "drop" /\ list[k + 1].name \in {n, "*"} THEN Absent
        ELSE IF list[k + 1].name = n
                /\ list[k + 1].action = (IF Values(headers, n) = Absent THEN "add" ELSE "update")
        THEN <<Expand(list[k + 1].value, ctx)>>
        ELSE Values(headers, n)
  BY <1>1, ApplyStep
<1> QED
  BY <1>2, DeclaredStep

(* Before its first transformation, a list declares what there is.          *)
LEMMA NothingDeclared ==
  ASSUME NEW list, NEW n, NEW values, NEW ctx
  PROVE  Declared(list, 0, n, values, ctx) = values
<1>1. \A i, action : Later(list, 0, n, i, action) = {}
  BY DEF Later
<1>2. Drops(list, 0, n) = {}
  BY DEF Drops
<1> QED
  BY <1>1, <1>2 DEF Declared, Adds, Updates, Kept
=============================================================================
