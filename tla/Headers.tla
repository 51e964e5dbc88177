------------------------------- MODULE Headers -------------------------------
(***************************************************************************)
(* Header maps and their transformations (config/headers.rs).  A header    *)
(* map is a function from the names it holds to their values, in order.    *)
(***************************************************************************)
EXTENDS Context, FiniteSetsExt

CONSTANTS
  BadNames, \* configured names that are no header names
  BadTexts  \* texts that no header can hold, such as one with a line break

ASSUME HeadersAssumption ==
  /\ BadNames \cap HeaderNames = {}
  /\ {"host", "content-length", "*"} \subseteq HeaderNames
  /\ BadTexts \subseteq Texts

(* HeaderTransform, as written: whether it has a value is for the action to *)
(* say.  "*" is a header name like any other, except to drop.               *)
Transform ==
  [action : {"add", "update", "drop"}, name : HeaderNames \cup BadNames,
   value : Option(Template)]

\* HeaderTransform::deserialize
TransformValid(t) == t.action = "drop" <=> t.value = None

Absent == << >>
Values(headers, n) == IF n \in DOMAIN headers THEN headers[n] ELSE Absent

IsHeaderMap(h) ==
  /\ DOMAIN h \subseteq HeaderNames
  /\ \A n \in DOMAIN h : h[n] \in Seq(Template) /\ h[n] # << >>

NoHeaders == [n \in {} |-> << >>]

\* Mutant: the values are removed, and their name is not.
WithoutValues(headers, names) ==
  [n \in DOMAIN headers |-> IF n \in names THEN << >> ELSE headers[n]]

Without(headers, names) == [n \in DOMAIN headers \ names |-> headers[n]]

\* HeaderMap::insert replaces all values of the name.
InsertHeader(headers, n, value) ==
  [m \in DOMAIN headers \cup {n} |-> IF m = n THEN <<value>> ELSE headers[m]]

-----------------------------------------------------------------------------
\* Whether a transformation writes a value; only then is it expanded.
Writes(t, headers) ==
  \/ t.action = "add" /\ t.name \notin DOMAIN headers
  \/ t.action = "update" /\ t.name \in DOMAIN headers

\* Mutant: update unwraps the value it replaces, where there may be none.
PanicsWithoutOld(t, headers, ctx) ==
  \/ t.action = "update" /\ t.name \notin DOMAIN headers
  \/ Writes(t, headers) /\ (t.name \in BadNames \/ Expand(t.value, ctx).text \in BadTexts)

\* The unwraps on HeaderName::from_bytes and HeaderValue::from_str.
Panics(t, headers, ctx) ==
  Writes(t, headers) /\ (t.name \in BadNames \/ Expand(t.value, ctx).text \in BadTexts)

\* One round of the loop in `transform`.
Apply(t, headers, ctx) ==
  CASE t.action = "drop" -> Without(headers, IF t.name = "*" THEN HeaderNames ELSE {t.name})
    [] t.action # "drop" /\ Writes(t, headers) ->
         InsertHeader(headers, t.name, Expand(t.value, ctx))
    [] OTHER -> headers

-----------------------------------------------------------------------------
(* What the first k transformations of a list leave of header n, read off   *)
(* the list at once, where the code goes through it: nothing before the     *)
(* last drop counts; a header that is absent then is made by the first add; *)
(* the last update after that decides its value.                            *)
Drops(list, k, n) == {i \in 1 .. k : list[i].action = "drop" /\ list[i].name \in {n, "*"}}

\* What is done to n after the drops and after i
Later(list, k, n, i, action) ==
  {j \in 1 .. k : /\ list[j].action = action /\ list[j].name = n
                  /\ \A d \in Drops(list, k, n) \cup {i} : j > d}

Adds(list, k, n) == Later(list, k, n, 0, "add")
Kept(list, k, n, values) == Drops(list, k, n) = {} /\ values # Absent

\* The transformation that n exists by, 0 if it did before the list
Origin(list, k, n, values) == IF Kept(list, k, n, values) THEN 0 ELSE Min(Adds(list, k, n))

Updates(list, k, n, values) == Later(list, k, n, Origin(list, k, n, values), "update")

Declared(list, k, n, values, ctx) ==
  LET updates == Updates(list, k, n, values)
      kept == Kept(list, k, n, values)
  IN  IF ~kept /\ Adds(list, k, n) = {} THEN Absent
      ELSE IF updates # {} THEN <<Expand(list[Max(updates)].value, ctx)>>
      ELSE IF kept THEN values
      ELSE <<Expand(list[Min(Adds(list, k, n))].value, ctx)>>
=============================================================================
