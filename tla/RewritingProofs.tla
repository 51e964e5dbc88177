--------------------------- MODULE RewritingProofs ---------------------------
(***************************************************************************)
(* Proofs about Rewriting, for any configuration, environment, requests    *)
(* and responses.                                                          *)
(***************************************************************************)
EXTENDS Rewriting, HeadersProofs, SequenceTheorems

-----------------------------------------------------------------------------
(* Maps, contexts and templates                                             *)

Maps == UNION {[D -> Template] : D \in SUBSET Variables}

LEMMA LiteralTyped == ASSUME NEW text \in Texts PROVE Literal(text) \in Template
BY ContextAssumption DEF Literal, Template, Option

LEMMA MapsAreMaps == ASSUME NEW m \in Maps PROVE IsMap(m)
BY DEF Maps, IsMap

LEMMA OverTyped ==
  ASSUME NEW own, NEW map, IsMap(own), IsMap(map)
  PROVE  Over(own, map) \in Maps
<1>1. Over(own, map) \in [DOMAIN own \cup DOMAIN map -> Template]
  BY DEF Over, IsMap
<1>2. DOMAIN own \cup DOMAIN map \in SUBSET Variables
  BY DEF IsMap
<1> QED
  BY <1>1, <1>2 DEF Maps

LEMMA AppMapTyped == IsMap(AppMap)
<1>1. DOMAIN AppMap \subseteq Variables
  BY ContextAssumption DEF AppMap, AppVariables
<1>2. AppMap["CTX_APP_NAME"] \in Template /\ AppMap["CTX_APP_VERSION"] \in Template
  BY ContextAssumption, LiteralTyped DEF AppMap
<1> QED
  BY <1>1, <1>2 DEF IsMap, AppMap

LEMMA TargetMapTyped ==
  ASSUME NEW target, target.id \in Texts, target.host \in Texts
  PROVE  TargetMap(target) \in Maps /\ DOMAIN TargetMap(target) = TargetVariables
<1>1. DOMAIN TargetMap(target) = TargetVariables
  BY DEF TargetMap, TargetVariables
<1>2. TargetMap(target) \in [TargetVariables -> Template]
  BY LiteralTyped DEF TargetMap, TargetVariables
<1> QED
  BY <1>1, <1>2, ContextAssumption DEF Maps

LEMMA HeaderMapsTyped ==
  ASSUME NEW variable \in [HeaderNames -> Variables], NEW headers, IsHeaderMap(headers),
         NEW own \in HeaderMaps(variable, headers)
  PROVE  own \in Maps /\ \A v \in DOMAIN own : \E n \in HeaderNames : v = variable[n]
<1> DEFINE D == {variable[n] : n \in DOMAIN headers}
<1>1. own \in [D -> {headers[n][Len(headers[n])] : n \in DOMAIN headers}]
  BY DEF HeaderMaps
<1>2. ASSUME NEW n \in DOMAIN headers PROVE headers[n][Len(headers[n])] \in Template
  <2>1. headers[n] \in Seq(Template) /\ headers[n] # << >>
    BY DEF IsHeaderMap
  <2>2. Len(headers[n]) \in 1 .. Len(headers[n])
    BY <2>1, EmptySeq
  <2> QED
    BY <2>1, <2>2, ElementOfSeq
<1>3. DOMAIN headers \subseteq HeaderNames
  BY DEF IsHeaderMap
<1>4. own \in [D -> Template] /\ D \in SUBSET Variables
  BY <1>1, <1>2, <1>3
<1> QED
  BY <1>1, <1>3, <1>4 DEF Maps

LEMMA RequestMapsTyped ==
  ASSUME NEW r \in Requests, NEW own \in RequestMaps(r)
  PROVE  own \in Maps
<1>1. IsMap(r.parts) /\ IsHeaderMap(r.headers)
  BY RewritingAssumption
<1>2. PICK o \in HeaderMaps(RequestHeaderVariable, r.headers) : own = Over(o, r.parts)
  BY DEF RequestMaps
<1> QED
  BY <1>1, <1>2, ContextAssumption, HeaderMapsTyped, MapsAreMaps, OverTyped

LEMMA ResponseMapsTyped ==
  ASSUME NEW r \in Responses, NEW own \in ResponseMaps(r)
  PROVE  own \in Maps /\ DOMAIN own \cap TargetVariables = {}
<1>1. r.status \in Texts /\ IsHeaderMap(r.headers)
  BY RewritingAssumption
<1> DEFINE status == [CTX_RESPONSE_STATUS |-> Literal(r.status)]
<1>2. PICK o \in HeaderMaps(ResponseHeaderVariable, r.headers) : own = Over(o, status)
  BY DEF ResponseMaps
<1>3. DOMAIN status = {"CTX_RESPONSE_STATUS"} /\ IsMap(status)
  BY <1>1, ContextAssumption, LiteralTyped DEF IsMap
<1>4. o \in Maps /\ \A v \in DOMAIN o : \E n \in HeaderNames : v = ResponseHeaderVariable[n]
  BY <1>1, ContextAssumption, HeaderMapsTyped
<1>5. DOMAIN o \cap TargetVariables = {}
  BY <1>4, ContextAssumption
<1>6. own \in Maps
  BY <1>2, <1>3, <1>4, MapsAreMaps, OverTyped
<1>7. DOMAIN own = DOMAIN o \cup {"CTX_RESPONSE_STATUS"}
  BY <1>2, <1>3 DEF Over
<1> QED
  BY <1>5, <1>6, <1>7 DEF TargetVariables

-----------------------------------------------------------------------------
\* `get` finds the nearest definition, whichever it is.
LEMMA GetNearest ==
  ASSUME NEW c \in Seq(Maps), NEW v, NEW i \in 1 .. Len(c), v \in DOMAIN c[i],
         \A j \in i + 1 .. Len(c) : v \notin DOMAIN c[j]
  PROVE  Get(c, v) = c[i][v]
<1>1. Len(c) \in Nat /\ DOMAIN c = 1 .. Len(c)
  BY LenProperties
<1>2. v \in Names(c)
  BY <1>1 DEF Names
<1>3. \A k \in DOMAIN c :
        v \in DOMAIN c[k] /\ (\A j \in k + 1 .. Len(c) : v \notin DOMAIN c[j]) => k = i
  <2> SUFFICES ASSUME NEW k \in DOMAIN c, v \in DOMAIN c[k],
                      \A j \in k + 1 .. Len(c) : v \notin DOMAIN c[j], k # i
               PROVE  FALSE
    OBVIOUS
  <2>1. k \in i + 1 .. Len(c) \/ i \in k + 1 .. Len(c)
    BY <1>1
  <2> QED
    BY <2>1
<1> QED
  BY <1>1, <1>2, <1>3 DEF Get

\* Whatever `get` finds is defined by some map of the chain.
LEMMA GetDefined ==
  ASSUME NEW c \in Seq(Maps), NEW v, v \in Names(c)
  PROVE  \E i \in DOMAIN c : v \in DOMAIN c[i] /\ Get(c, v) = c[i][v]
<1>1. Len(c) \in Nat /\ DOMAIN c = 1 .. Len(c)
  BY LenProperties
<1> DEFINE S == {Len(c) - i : i \in {k \in DOMAIN c : v \in DOMAIN c[k]}}
<1>2. S \in SUBSET Nat /\ S # {}
  BY <1>1 DEF Names
<1>3. PICK m \in S : \A k \in S : m =< k
  BY <1>2, Least
<1>4. PICK i \in DOMAIN c : v \in DOMAIN c[i] /\ m = Len(c) - i
  BY <1>3
<1>5. \A j \in i + 1 .. Len(c) : v \notin DOMAIN c[j]
  <2> SUFFICES ASSUME NEW j \in i + 1 .. Len(c), v \in DOMAIN c[j] PROVE FALSE
    OBVIOUS
  <2>1. j \in DOMAIN c /\ Len(c) - j \in S
    BY <1>1, <1>4
  <2>2. m =< Len(c) - j
    BY <1>3, <2>1
  <2>3. i \in Nat /\ j \in Nat /\ i < j /\ Len(c) \in Nat
    BY <1>1
  <2> QED
    BY <1>4, <2>2, <2>3
<1>6. Get(c, v) = c[i][v]
  BY <1>1, <1>4, <1>5, GetNearest
<1> QED
  BY <1>4, <1>6

LEMMA GetTyped ==
  ASSUME NEW c \in Seq(Maps), NEW v
  PROVE  Get(c, v) \in Option(Template)
<1>1. Len(c) \in Nat /\ DOMAIN c = 1 .. Len(c) /\ \A i \in DOMAIN c : c[i] \in Maps
  BY LenProperties, ElementOfSeq
<1>2. CASE v \notin Names(c)
  BY <1>2 DEF Get, Option
<1>3. CASE v \in Names(c)
  <2>1. PICK i \in DOMAIN c : v \in DOMAIN c[i] /\ Get(c, v) = c[i][v]
    BY <1>3, GetDefined
  <2> QED
    BY <1>1, <2>1, MapsAreMaps DEF IsMap, Option
<1> QED
  BY <1>2, <1>3

LEMMA ExpandTyped ==
  ASSUME NEW c \in Seq(Maps), NEW t \in Template
  PROVE  Expand(t, c) \in Template
<1>1. t.var # None => Get(c, t.var) \in Option(Template)
  BY GetTyped
<1>2. t.text # None => Literal(t.text) \in Template
  BY LiteralTyped DEF Template, Option
<1> QED
  BY <1>1, <1>2 DEF Expand, Option

LEMMA WithTyped ==
  ASSUME NEW c \in Seq(Maps), NEW own \in Maps
  PROVE  /\ With(c, own) \in Seq(Maps) /\ Len(With(c, own)) = Len(c) + 1
         /\ \A i \in 1 .. Len(c) : With(c, own)[i] = c[i]
         /\ With(c, own)[Len(c) + 1] = own
BY DEF With

\* The request's context is the first two maps of the chain.
LEMMA PrefixTyped ==
  ASSUME NEW c \in Seq(Maps), Len(c) >= 2
  PROVE  /\ SubSeq(c, 1, 2) \in Seq(Maps) /\ Len(SubSeq(c, 1, 2)) = 2
         /\ SubSeq(c, 1, 2)[1] = c[1] /\ SubSeq(c, 1, 2)[2] = c[2]
<1>1. Len(c) \in Nat /\ \A i \in 1 .. Len(c) : c[i] \in Maps
  BY LenProperties, ElementOfSeq
<1>2. \A i \in 1 .. 2 : c[i] \in Maps
  BY <1>1
<1>3. /\ SubSeq(c, 1, 2) \in Seq(Maps)
      /\ Len(SubSeq(c, 1, 2)) = IF 1 <= 2 THEN 2 - 1 + 1 ELSE 0
      /\ \A i \in 1 .. 2 - 1 + 1 : SubSeq(c, 1, 2)[i] = c[1 + i - 1]
  BY <1>2, SubSeqProperties
<1>4. SubSeq(c, 1, 2)[1] = c[1 + 1 - 1] /\ SubSeq(c, 1, 2)[2] = c[1 + 2 - 1]
  BY <1>3
<1> QED
  BY <1>3, <1>4

LEMMA PrefixEqual ==
  ASSUME NEW c \in Seq(Maps), NEW d \in Seq(Maps), Len(c) >= 2, Len(d) >= 2,
         c[1] = d[1], c[2] = d[2]
  PROVE  SubSeq(c, 1, 2) = SubSeq(d, 1, 2)
<1>1. \A i \in 1 .. 2 : SubSeq(c, 1, 2)[i] = SubSeq(d, 1, 2)[i]
  <2>1. \A i \in 1 .. 2 : i = 1 \/ i = 2
    OBVIOUS
  <2> QED
    BY <2>1, PrefixTyped
<1> QED
  BY <1>1, PrefixTyped, SeqEqual

\* It stays what it is when maps of a target and of its response are added.
LEMMA PrefixKept ==
  ASSUME NEW c \in Seq(Maps), Len(c) >= 2, NEW own \in Maps
  PROVE  LET d == With(SubSeq(c, 1, 2), own)
         IN  /\ d \in Seq(Maps) /\ Len(d) = 3 /\ SubSeq(d, 1, 2) = SubSeq(c, 1, 2)
             /\ d[1] = c[1] /\ d[3] = own
             /\ \A more \in Maps :
                  /\ With(d, more) \in Seq(Maps) /\ Len(With(d, more)) = 4
                  /\ SubSeq(With(d, more), 1, 2) = SubSeq(c, 1, 2)
                  /\ With(d, more)[1] = c[1] /\ With(d, more)[3] = own /\ With(d, more)[4] = more
<1> DEFINE b == SubSeq(c, 1, 2)
           d == With(b, own)
<1>1. b \in Seq(Maps) /\ Len(b) = 2 /\ b[1] = c[1] /\ b[2] = c[2]
  BY PrefixTyped
<1> HIDE DEF b
<1>2. d \in Seq(Maps) /\ Len(d) = 3 /\ d[1] = c[1] /\ d[2] = c[2] /\ d[3] = own
  <2>1. /\ d \in Seq(Maps) /\ Len(d) = Len(b) + 1
        /\ \A i \in 1 .. Len(b) : d[i] = b[i]
        /\ d[Len(b) + 1] = own
    BY <1>1, WithTyped
  <2> HIDE DEF d
  <2>2. d[1] = b[1] /\ d[2] = b[2]
    BY <1>1, <2>1
  <2>3. Len(d) = 3 /\ d[3] = own
    BY <1>1, <2>1
  <2> QED
    BY <1>1, <2>1, <2>2, <2>3
<1> HIDE DEF d
<1>3. SubSeq(d, 1, 2) = SubSeq(c, 1, 2)
  BY <1>2, PrefixEqual
<1>4. ASSUME NEW more \in Maps
      PROVE  /\ With(d, more) \in Seq(Maps) /\ Len(With(d, more)) = 4
             /\ With(d, more)[1] = c[1] /\ With(d, more)[2] = c[2]
             /\ With(d, more)[3] = own /\ With(d, more)[4] = more
  <2> DEFINE e == With(d, more)
  <2>1. /\ e \in Seq(Maps) /\ Len(e) = Len(d) + 1
        /\ \A i \in 1 .. Len(d) : e[i] = d[i]
        /\ e[Len(d) + 1] = more
    BY <1>2, WithTyped
  <2> HIDE DEF e
  <2>2. Len(e) = 4 /\ e[1] = d[1] /\ e[2] = d[2] /\ e[3] = d[3] /\ e[4] = more
    BY <1>2, <2>1
  <2> QED
    BY <1>2, <2>1, <2>2 DEF e
<1>5. ASSUME NEW more \in Maps PROVE SubSeq(With(d, more), 1, 2) = SubSeq(c, 1, 2)
  BY <1>4, PrefixEqual
<1> QED
  BY <1>2, <1>3, <1>4, <1>5 DEF d, b

-----------------------------------------------------------------------------
(* Lists of transformations                                                 *)

ValidConfig(f) == \A list \in Lists(f) : \A i \in DOMAIN list : TransformValid(list[i])

LEMMA BodyExpanded ==
  ASSUME NEW c \in Seq(Maps), NEW body \in Bodies
  PROVE  ExpandedBody(body, c) \in Bodies /\ (ExpandedBody(body, c) = None <=> body = None)
BY ExpandTyped, ContextAssumption DEF ExpandedBody, Bodies, Option

LEMMA ListExpanded ==
  ASSUME NEW c \in Seq(Maps), NEW list \in Seq(Transform)
  PROVE  /\ ExpandedList(list, c) \in Seq(Transform)
         /\ (\A i \in DOMAIN list : TransformValid(list[i])) =>
              \A i \in DOMAIN ExpandedList(list, c) : TransformValid(ExpandedList(list, c)[i])
<1> DEFINE E(i) == [list[i] EXCEPT !.value = ExpandedBody(@, c)]
<1>1. Len(list) \in Nat /\ DOMAIN list = 1 .. Len(list)
  BY LenProperties
<1>2. ASSUME NEW i \in 1 .. Len(list)
      PROVE  E(i) \in Transform /\ (TransformValid(list[i]) => TransformValid(E(i)))
  <2>1. list[i] \in Transform
    BY ElementOfSeq
  <2>2. list[i].value \in Bodies
    BY <2>1 DEF Transform, Bodies
  <2>3. /\ ExpandedBody(list[i].value, c) \in Bodies
        /\ ExpandedBody(list[i].value, c) = None <=> list[i].value = None
    BY <2>2, BodyExpanded
  <2>4. E(i) \in Transform /\ E(i).action = list[i].action
        /\ E(i).value = ExpandedBody(list[i].value, c)
    BY <2>1, <2>3 DEF Transform, Bodies
  <2> QED
    BY <2>3, <2>4 DEF TransformValid
<1> HIDE DEF E
<1>3. ExpandedList(list, c) = [i \in 1 .. Len(list) |-> E(i)]
  BY <1>1 DEF ExpandedList, E
<1>4. ExpandedList(list, c) \in Seq(Transform)
  BY <1>1, <1>2, <1>3
<1> QED
  BY <1>1, <1>2, <1>3, <1>4

LEMMA LoadedTyped ==
  ASSUME NEW c \in Seq(Maps), NEW f \in Configurations, ValidConfig(f)
  PROVE  /\ Loaded(f, c) \in Configurations /\ ValidConfig(Loaded(f, c))
         /\ Loaded(f, c) # None
<1> DEFINE g == Loaded(f, c)
           T == [id : Texts, host : Texts, headers : Seq(Transform), body : Bodies]
           G(i) == [f.targets[i] EXCEPT !.headers = ExpandedList(@, c), !.body = ExpandedBody(@, c)]
<1>1. /\ f.listener \in Seq(Transform) /\ f.targets \in Seq(T) /\ f.override \in Option(Overrides)
      /\ \A i \in DOMAIN f.listener : TransformValid(f.listener[i])
      /\ \A i \in DOMAIN f.targets : \A j \in DOMAIN f.targets[i].headers :
           TransformValid(f.targets[i].headers[j])
      /\ f.override # None =>
           \A i \in DOMAIN f.override.headers : TransformValid(f.override.headers[i])
  BY DEF Configurations, ValidConfig, Lists
<1>2. /\ g.listener \in Seq(Transform)
      /\ \A i \in DOMAIN g.listener : TransformValid(g.listener[i])
  BY <1>1, ListExpanded DEF Loaded
<1>3. ASSUME NEW i \in 1 .. Len(f.targets)
      PROVE  G(i) \in T /\ \A j \in DOMAIN G(i).headers : TransformValid(G(i).headers[j])
  <2>1. f.targets[i] \in T /\ i \in DOMAIN f.targets
    BY <1>1, ElementOfSeq, LenProperties
  <2>2. /\ ExpandedList(f.targets[i].headers, c) \in Seq(Transform)
        /\ \A j \in DOMAIN ExpandedList(f.targets[i].headers, c) :
             TransformValid(ExpandedList(f.targets[i].headers, c)[j])
    BY <1>1, <2>1, ListExpanded
  <2>3. ExpandedBody(f.targets[i].body, c) \in Bodies
    BY <2>1, BodyExpanded
  <2> QED
    BY <2>1, <2>2, <2>3
<1>4. /\ g.targets \in Seq(T)
      /\ \A i \in DOMAIN g.targets : \A j \in DOMAIN g.targets[i].headers :
           TransformValid(g.targets[i].headers[j])
  <2>1. Len(f.targets) \in Nat /\ DOMAIN f.targets = 1 .. Len(f.targets)
    BY <1>1, LenProperties
  <2> HIDE DEF G, T
  <2>2. g.targets = [i \in 1 .. Len(f.targets) |-> G(i)]
    BY <2>1 DEF Loaded, G
  <2>3. g.targets \in Seq(T)
    BY <1>3, <2>1, <2>2
  <2> QED
    BY <1>3, <2>1, <2>2, <2>3
<1>5. /\ g.override \in Option(Overrides)
      /\ g.override # None =>
           \A i \in DOMAIN g.override.headers : TransformValid(g.override.headers[i])
  <2>1. CASE f.override = None
    BY <2>1 DEF Loaded, Option
  <2>2. CASE f.override # None
    <3>1. f.override \in Overrides
      BY <1>1, <2>2 DEF Option
    <3>2. f.override.headers \in Seq(Transform) /\ f.override.body \in Bodies
      BY <3>1 DEF Overrides
    <3>3. g.override = [headers |-> ExpandedList(f.override.headers, c),
                        body |-> ExpandedBody(f.override.body, c)]
      BY <2>2 DEF Loaded
    <3>4. ExpandedBody(f.override.body, c) \in Bodies
      BY <3>2, BodyExpanded
    <3>5. /\ ExpandedList(f.override.headers, c) \in Seq(Transform)
          /\ \A i \in DOMAIN ExpandedList(f.override.headers, c) :
               TransformValid(ExpandedList(f.override.headers, c)[i])
      BY <1>1, <2>2, <3>2, ListExpanded
    <3>6. g.override \in Overrides
      BY <3>3, <3>4, <3>5 DEF Overrides
    <3> QED
      BY <3>3, <3>5, <3>6 DEF Option
  <2> QED
    BY <2>1, <2>2
<1>6. g = [listener |-> g.listener, targets |-> g.targets, override |-> g.override]
  BY DEF Loaded
<1> HIDE DEF g
<1>7. g \in Configurations
  BY <1>2, <1>4, <1>5, <1>6 DEF Configurations
<1>8. ValidConfig(g)
  BY <1>2, <1>4, <1>5 DEF ValidConfig, Lists
<1> QED
  BY <1>7, <1>8, RewritingAssumption DEF g

LEMMA ApplyTyped ==
  ASSUME NEW headers, IsHeaderMap(headers), NEW t \in Transform, TransformValid(t),
         NEW c \in Seq(Maps), ~Panics(t, headers, c)
  PROVE  IsHeaderMap(Apply(t, headers, c))
<1>1. CASE t.action = "drop"
  BY <1>1 DEF Apply, Without, IsHeaderMap
<1>2. CASE t.action # "drop" /\ Writes(t, headers)
  <2>1. t.name \in HeaderNames
    BY <1>2 DEF Panics, Transform
  <2>2. t.value \in Template
    BY <1>2 DEF TransformValid, Transform, Option
  <2>3. Expand(t.value, c) \in Template
    BY <2>2, ExpandTyped
  <2>4. <<Expand(t.value, c)>> \in Seq(Template) /\ <<Expand(t.value, c)>> # << >>
    BY <2>3
  <2>5. Apply(t, headers, c) = InsertHeader(headers, t.name, Expand(t.value, c))
    BY <1>2 DEF Apply
  <2> QED
    BY <2>1, <2>4, <2>5 DEF InsertHeader, IsHeaderMap
<1>3. CASE t.action # "drop" /\ ~Writes(t, headers)
  BY <1>3 DEF Apply
<1> QED
  BY <1>1, <1>2, <1>3

-----------------------------------------------------------------------------
(* The strengthening that makes the properties inductive.                   *)

IsMessage(m) == IsHeaderMap(m.headers) /\ m.body \in Bodies
IsSequence(s) == s \in Seq({s[i] : i \in DOMAIN s})
Early == {"start", "accept", "refused"}

Fixed == file \in Files /\ env \in Environments /\ req \in Requests

Loading ==
  /\ stage \in Stages \cup Ends
  /\ config = None <=> stage \in {"start", "refused"}
  /\ config # None => config \in Configurations /\ ValidConfig(config)

\* The environment's map comes first, then the request's, and then, while a
\* target is dealt with, its own.
Chain ==
  /\ ctx \in Seq(Maps)
  /\ stage \in Early => ctx = Root(env)
  /\ stage \notin Early => Len(ctx) >= 2 /\ ctx[1] = Over(env, AppMap)
  /\ stage = "listener" => Len(ctx) = 2
  /\ stage = "target" => ctx = With(RequestContext, TargetMap(config.targets[Len(sent) + 1]))

Progress ==
  /\ pos \in Nat \ {0}
  /\ Transforming => pos =< Len(List) + 1
  /\ IsSequence(sent)
  /\ stage \in Early \cup {"listener"} => sent = << >> /\ origin = 0
  /\ config # None => Len(sent) =< Len(config.targets) /\ origin \in 0 .. Len(config.targets)
  /\ stage = "target" => Len(sent) < Len(config.targets)
  /\ stage = "override" => config.override # None
  /\ reply # None => stage = "replied"

Messages ==
  /\ IsHeaderMap(work) /\ IsHeaderMap(base)
  /\ IsMessage(resp) /\ (reply # None => IsMessage(reply))
  /\ \A i \in DOMAIN sent : IsMessage(sent[i])

\* What the transformations so far declare of the map that is being made.
WorkAsDeclared ==
  \A n \in HeaderNames :
    /\ stage = "listener" =>
         Values(work, n) = Declared(config.listener, pos - 1, n,
                                    Values(Without(req.headers, {"host"}), n), RequestContext)
    /\ stage \in {"dispatch", "target"} => Values(base, n) = ListenerHeader(n)
    /\ stage = "target" =>
         Values(work, n) = Declared(config.targets[Len(sent) + 1].headers, pos - 1, n,
                                    Values(base, n), ctx)
    /\ stage = "override" =>
         Values(work, n) = Declared(config.override.headers, pos - 1, n,
                                    Values(resp.headers, n), ctx)

\* The variables of a target are those of the one the response belongs to.
TargetOfReply ==
  stage \in {"override", "replied"} =>
    \A v \in TargetVariables :
      Get(ctx, v) = IF origin = 0 THEN Get(RequestContext, v)
                    ELSE TargetMap(config.targets[origin])[v]

IInv ==
  /\ Fixed /\ Loading /\ Chain /\ Progress /\ Messages
  /\ WorkAsDeclared /\ TargetOfReply
  /\ SentAsDeclared /\ ReplyAsDeclared

-----------------------------------------------------------------------------
LEMMA AppendIsSequence ==
  ASSUME NEW s, IsSequence(s), NEW m
  PROVE  /\ IsSequence(Append(s, m)) /\ Len(Append(s, m)) = Len(s) + 1
         /\ \A i \in 1 .. Len(s) : Append(s, m)[i] = s[i]
         /\ Append(s, m)[Len(s) + 1] = m
         /\ DOMAIN Append(s, m) = 1 .. Len(s) + 1
<1> DEFINE S == {s[i] : i \in DOMAIN s} \cup {m}
           t == Append(s, m)
<1>1. s \in Seq(S) /\ m \in S
  BY SeqMonotonic DEF IsSequence
<1> HIDE DEF S
<1>2. /\ t \in Seq(S) /\ Len(t) = Len(s) + 1
      /\ \A i \in 1 .. Len(s) : t[i] = s[i]
      /\ t[Len(s) + 1] = m
  BY <1>1
<1> HIDE DEF t
<1>3. Len(t) \in Nat /\ DOMAIN t = 1 .. Len(t) /\ t \in [1 .. Len(t) -> S]
  BY <1>2, LenProperties
<1>4. t \in Seq({t[i] : i \in DOMAIN t})
  BY <1>3
<1> QED
  BY <1>2, <1>3, <1>4 DEF IsSequence, t

LEMMA SequenceDomain == ASSUME NEW s, IsSequence(s) PROVE Len(s) \in Nat /\ DOMAIN s = 1 .. Len(s)
BY LenProperties DEF IsSequence

LEMMA EmptyIsSequence == IsSequence(<< >>)
BY DEF IsSequence

LEMMA NoHeadersTyped == IsHeaderMap(NoHeaders)
BY DEF IsHeaderMap, NoHeaders

LEMMA WithoutTyped ==
  ASSUME NEW headers, IsHeaderMap(headers), NEW names
  PROVE  IsHeaderMap(Without(headers, names))
BY DEF IsHeaderMap, Without

LEMMA RootTyped ==
  ASSUME NEW e \in Environments
  PROVE  Root(e) \in Seq(Maps) /\ Len(Root(e)) = 1 /\ Root(e)[1] = Over(e, AppMap)
<1>1. Over(e, AppMap) \in Maps
  BY RewritingAssumption, AppMapTyped, OverTyped
<1> QED
  BY <1>1 DEF Root

LEMMA InvInitial == Init => IInv
<1> SUFFICES ASSUME Init PROVE IInv
  OBVIOUS
<1> USE DEF Init
<1>1. Fixed /\ Loading /\ WorkAsDeclared /\ TargetOfReply /\ ReplyAsDeclared
  BY DEF Fixed, Loading, Stages, WorkAsDeclared, TargetOfReply, ReplyAsDeclared
<1>2. Chain
  BY RootTyped DEF Chain, Early
<1>3. Progress
  BY EmptyIsSequence DEF Progress, Transforming, Early
<1>4. Messages
  BY NoHeadersTyped DEF Messages, IsMessage, Empty, Bodies, Option
<1>5. SentAsDeclared
  BY DEF SentAsDeclared
<1> QED
  BY <1>1, <1>2, <1>3, <1>4, <1>5 DEF IInv

-----------------------------------------------------------------------------
(* Loading and accepting                                                    *)

\* What has been sent is judged by what does not change any more.
LEMMA SentKept ==
  ASSUME SentAsDeclared, UNCHANGED <<req, config, sent>>, RequestContext' = RequestContext
  PROVE  SentAsDeclared'
BY DEF SentAsDeclared, ListenerHeader

LEMMA NothingSent == ASSUME sent = << >> PROVE SentAsDeclared
BY DEF SentAsDeclared

LEMMA LoadPreserves == IInv /\ Load => IInv'
<1> SUFFICES ASSUME IInv, Load PROVE IInv'
  OBVIOUS
<1> USE DEF IInv
<1>1. /\ UNCHANGED <<file, env, req, ctx, work, pos, base, sent, origin, resp, reply>>
      /\ stage = "start" /\ stage' \in {"accept", "refused"}
      /\ IF stage' = "accept" THEN ValidConfig(file) /\ config' = Loaded(file, ctx) ELSE config' = None
  BY DEF Load, fixed, ValidConfig, Loading
<1>2. Fixed' /\ Messages'
  BY <1>1 DEF Fixed, Messages, IsMessage
<1>3. Loading'
  <2>1. file \in Configurations /\ ctx \in Seq(Maps)
    BY RewritingAssumption DEF Fixed, Chain
  <2> QED
    BY <1>1, <2>1, LoadedTyped DEF Loading, Stages, Ends
<1>4. Chain'
  BY <1>1 DEF Chain, Early
<1>5. sent = << >> /\ origin = 0 /\ reply = None
  BY <1>1 DEF Progress, Early
<1>6. Progress'
  <2>1. config' # None => config'.targets \in Seq([id : Texts, host : Texts, headers : Seq(Transform), body : Bodies])
    BY <1>3 DEF Loading, Configurations
  <2>2. config' # None => Len(config'.targets) \in Nat
    BY <2>1, LenProperties
  <2> QED
    BY <1>1, <1>5, <2>2 DEF Progress, Transforming, Early
<1>7. WorkAsDeclared' /\ TargetOfReply' /\ ReplyAsDeclared' /\ SentAsDeclared'
  <2>1. sent' = << >> /\ reply' = None
    BY <1>1, <1>5
  <2> QED
    BY <1>1, <2>1 DEF WorkAsDeclared, TargetOfReply, ReplyAsDeclared, SentAsDeclared
<1> QED
  BY <1>2, <1>3, <1>4, <1>6, <1>7

LEMMA AcceptPreserves == IInv /\ Accept => IInv'
<1> SUFFICES ASSUME IInv, Accept PROVE IInv'
  OBVIOUS
<1> USE DEF IInv
<1>1. /\ UNCHANGED <<file, env, req, config, base, sent, origin, resp, reply>>
      /\ stage = "accept" /\ stage' = "listener" /\ pos' = 1
      /\ work' = Without(req.headers, {"host"})
  BY DEF Accept, fixed
<1>2. PICK own \in RequestMaps(req) : ctx' = With(ctx, own)
  BY DEF Accept
<1>3. Fixed' /\ Loading'
  BY <1>1 DEF Fixed, Loading, Stages
<1>4. Chain' /\ ctx' \in Seq(Maps) /\ Len(ctx') = 2
  <2>1. own \in Maps
    BY RequestMapsTyped DEF Fixed
  <2>2. ctx \in Seq(Maps) /\ Len(ctx) = 1 /\ ctx[1] = Over(env, AppMap)
    BY <1>1, RootTyped DEF Chain, Early, Fixed
  <2>3. /\ ctx' \in Seq(Maps) /\ Len(ctx') = Len(ctx) + 1
        /\ \A i \in 1 .. Len(ctx) : ctx'[i] = ctx[i]
    BY <1>2, <2>1, <2>2, WithTyped
  <2>4. Len(ctx') = 2 /\ ctx'[1] = ctx[1]
    BY <2>2, <2>3
  <2> QED
    BY <1>1, <2>2, <2>3, <2>4 DEF Chain, Early
<1>5. config \in Configurations /\ config.listener \in Seq(Transform)
  BY <1>1 DEF Loading, Configurations
<1>6. Progress'
  <2>1. Len(config.listener) \in Nat
    BY <1>5, LenProperties
  <2>2. List' = config.listener
    BY <1>1 DEF List
  <2> QED
    BY <1>1, <2>1, <2>2 DEF Progress, Transforming, Early
<1>7. Messages'
  BY <1>1, WithoutTyped, RewritingAssumption DEF Messages, IsMessage, Fixed
<1>8. WorkAsDeclared'
  BY <1>1, NothingDeclared DEF WorkAsDeclared
<1>9. reply' = None /\ sent' = << >>
  BY <1>1 DEF Progress, Early
<1>10. TargetOfReply' /\ ReplyAsDeclared' /\ SentAsDeclared'
  BY <1>1, <1>9 DEF TargetOfReply, ReplyAsDeclared, SentAsDeclared
<1> QED
  BY <1>3, <1>4, <1>6, <1>7, <1>8, <1>10

-----------------------------------------------------------------------------
(* Transforming                                                             *)

LEMMA ListTyped ==
  ASSUME IInv, Transforming
  PROVE  /\ List \in Seq(Transform) /\ Len(List) \in Nat /\ DOMAIN List = 1 .. Len(List)
         /\ \A i \in DOMAIN List : TransformValid(List[i])
         /\ List \in Lists(config)
<1> USE DEF IInv
<1>1. stage \in {"listener", "target", "override"}
  BY DEF Transforming
<1>2. config \in Configurations /\ ValidConfig(config)
  BY <1>1 DEF Loading
<1>3. List \in Seq(Transform) /\ List \in Lists(config)
  <2>1. CASE stage = "listener"
    BY <1>2, <2>1 DEF List, Lists, Configurations
  <2>2. CASE stage = "target"
    <3>1. config.targets \in Seq([id : Texts, host : Texts, headers : Seq(Transform), body : Bodies])
      BY <1>2 DEF Configurations
    <3>2. Len(sent) \in Nat /\ Len(sent) < Len(config.targets)
      BY <2>2, SequenceDomain DEF Progress
    <3>3. Len(sent) + 1 \in 1 .. Len(config.targets) /\ DOMAIN config.targets = 1 .. Len(config.targets)
      BY <3>1, <3>2, LenProperties
    <3>4. config.targets[Len(sent) + 1] \in [id : Texts, host : Texts, headers : Seq(Transform), body : Bodies]
      BY <3>1, <3>3, ElementOfSeq
    <3> QED
      BY <2>2, <3>3, <3>4 DEF List, Lists
  <2>3. CASE stage = "override"
    <3>1. config.override \in Overrides
      BY <1>2, <2>3 DEF Progress, Configurations, Option
    <3> QED
      BY <2>3, <3>1, RewritingAssumption DEF List, Lists, Overrides
  <2> QED
    BY <1>1, <2>1, <2>2, <2>3
<1> QED
  BY <1>2, <1>3, LenProperties DEF ValidConfig

LEMMA TransformPreserves == IInv /\ TransformHeaders => IInv'
<1> SUFFICES ASSUME IInv, TransformHeaders PROVE IInv'
  OBVIOUS
<1> USE DEF IInv
<1>1. /\ UNCHANGED <<file, env, req, config, stage, ctx, base, sent, origin, resp, reply>>
      /\ Transforming /\ pos =< Len(List) /\ ~Panics(List[pos], work, ctx)
      /\ work' = Apply(List[pos], work, ctx) /\ pos' = pos + 1
  BY DEF TransformHeaders, fixed
<1>2. /\ List \in Seq(Transform) /\ Len(List) \in Nat /\ DOMAIN List = 1 .. Len(List)
      /\ \A i \in DOMAIN List : TransformValid(List[i])
  BY <1>1, ListTyped
<1>3. pos \in 1 .. Len(List) /\ pos - 1 \in Nat /\ pos - 1 + 1 = pos /\ pos' - 1 = pos
  BY <1>1, <1>2 DEF Progress
<1>4. List[pos] \in Transform
  BY <1>2, <1>3, ElementOfSeq
<1>5. Fixed' /\ Loading' /\ Chain'
  BY <1>1 DEF Fixed, Loading, Chain, RequestContext
<1>6. List' = List
  BY <1>1 DEF List
<1>7. Progress'
  BY <1>1, <1>2, <1>3, <1>6 DEF Progress, Transforming
<1>8. Messages'
  BY <1>1, <1>2, <1>3, <1>4, ApplyTyped DEF Messages, IsMessage, Chain
<1>9. ASSUME NEW n \in HeaderNames, NEW values, NEW c,
             Values(work, n) = Declared(List, pos - 1, n, values, c), c = ctx
      PROVE  Values(work', n) = Declared(List, pos' - 1, n, values, c)
  <2>1. Values(Apply(List[pos - 1 + 1], work, c), n) = Declared(List, pos - 1 + 1, n, values, c)
    <3>1. pos - 1 + 1 \in DOMAIN List /\ IsHeaderMap(work)
      BY <1>2, <1>3 DEF Messages
    <3> QED
      BY <1>2, <1>3, <1>9, <3>1, TransformAsDeclared
  <2> QED
    BY <1>1, <1>3, <1>9, <2>1
<1>10. WorkAsDeclared'
  <2> SUFFICES ASSUME NEW n \in HeaderNames
      PROVE  /\ stage' = "listener" =>
                  Values(work', n) = Declared(config'.listener, pos' - 1, n,
                                       Values(Without(req'.headers, {"host"}), n), RequestContext')
             /\ stage' \in {"dispatch", "target"} => Values(base', n) = ListenerHeader(n)'
             /\ stage' = "target" =>
                  Values(work', n) = Declared(config'.targets[Len(sent') + 1].headers, pos' - 1, n,
                                       Values(base', n), ctx')
             /\ stage' = "override" =>
                  Values(work', n) = Declared(config'.override.headers, pos' - 1, n,
                                       Values(resp'.headers, n), ctx')
    BY DEF WorkAsDeclared
  <2>1. ListenerHeader(n)' = ListenerHeader(n) /\ RequestContext' = RequestContext
    BY <1>1 DEF ListenerHeader, RequestContext
  <2>2. CASE stage = "listener"
    <3>1. RequestContext = ctx /\ List = config.listener
      BY <2>2, SubSeqFull DEF Chain, RequestContext, List
    <3> QED
      BY <1>1, <1>9, <2>1, <2>2, <3>1 DEF WorkAsDeclared
  <2>3. CASE stage = "target"
    <3>1. List = config.targets[Len(sent) + 1].headers
      BY <2>3 DEF List
    <3> QED
      BY <1>1, <1>9, <2>1, <2>3, <3>1 DEF WorkAsDeclared
  <2>4. CASE stage = "override"
    <3>1. List = config.override.headers
      BY <2>4 DEF List
    <3> QED
      BY <1>1, <1>9, <2>4, <3>1 DEF WorkAsDeclared
  <2> QED
    BY <1>1, <2>2, <2>3, <2>4 DEF Transforming
<1>11. reply' = None
  BY <1>1 DEF Progress, Transforming
<1>12. SentAsDeclared'
  BY <1>1, SentKept DEF RequestContext
<1>13. TargetOfReply' /\ ReplyAsDeclared'
  BY <1>1, <1>11 DEF TargetOfReply, ReplyAsDeclared, RequestContext
<1> QED
  BY <1>5, <1>7, <1>8, <1>10, <1>12, <1>13

LEMMA PanicPreserves == IInv /\ TransformPanics => IInv'
<1> SUFFICES ASSUME IInv, TransformPanics PROVE IInv'
  OBVIOUS
<1> USE DEF IInv
<1>1. /\ UNCHANGED <<file, env, req, config, ctx, work, pos, base, sent, origin, resp, reply>>
      /\ stage \in {"listener", "target", "override"} /\ stage' = "panicked"
  BY DEF TransformPanics, fixed, Transforming
<1>2. reply' = None
  BY <1>1 DEF Progress
<1>3. Fixed' /\ Loading' /\ Chain' /\ Messages'
  BY <1>1 DEF Fixed, Loading, Stages, Ends, Chain, Early, Messages, IsMessage
<1>4. Progress'
  BY <1>1, <1>2 DEF Progress, Transforming, Early, Loading
<1>5. SentAsDeclared'
  BY <1>1, SentKept DEF RequestContext
<1>6. WorkAsDeclared' /\ TargetOfReply' /\ ReplyAsDeclared'
  BY <1>1, <1>2 DEF WorkAsDeclared, TargetOfReply, ReplyAsDeclared
<1> QED
  BY <1>3, <1>4, <1>5, <1>6

-----------------------------------------------------------------------------
(* The requests to the targets                                              *)

Target == [id : Texts, host : Texts, headers : Seq(Transform), body : Bodies]

LEMMA TargetTyped ==
  ASSUME IInv, config # None, NEW i \in 1 .. Len(config.targets)
  PROVE  config.targets[i] \in Target /\ TargetMap(config.targets[i]) \in Maps
<1>1. config.targets \in Seq(Target)
  BY DEF IInv, Loading, Configurations, Target
<1>2. config.targets[i] \in Target
  BY <1>1, ElementOfSeq
<1> QED
  BY <1>2, TargetMapTyped DEF Target

LEMMA TargetsCounted ==
  ASSUME IInv, config # None
  PROVE  /\ Len(config.targets) \in Nat /\ DOMAIN config.targets = 1 .. Len(config.targets)
         /\ Len(sent) \in Nat /\ DOMAIN sent = 1 .. Len(sent)
         /\ origin \in 0 .. Len(config.targets)
<1>1. config.targets \in Seq(Target)
  BY DEF IInv, Loading, Configurations, Target
<1>2. Len(config.targets) \in Nat /\ DOMAIN config.targets = 1 .. Len(config.targets)
  BY <1>1, LenProperties
<1> QED
  BY <1>2, SequenceDomain DEF IInv, Progress

LEMMA AllDone ==
  ASSUME IInv, ListDone
  PROVE  pos - 1 = Len(List)
<1>1. Transforming /\ pos > Len(List)
  BY DEF ListDone
<1>2. Len(List) \in Nat /\ pos \in Nat /\ pos =< Len(List) + 1
  BY <1>1, ListTyped DEF IInv, Progress
<1> QED
  BY <1>1, <1>2

LEMMA ListenerDonePreserves == IInv /\ ListenerDone => IInv'
<1> SUFFICES ASSUME IInv, ListenerDone PROVE IInv'
  OBVIOUS
<1> USE DEF IInv
<1>1. /\ UNCHANGED <<file, env, req, config, ctx, work, pos, sent, origin, resp, reply>>
      /\ stage = "listener" /\ ListDone /\ base' = work /\ stage' = "dispatch"
  BY DEF ListenerDone, fixed
<1>2. Fixed' /\ Loading' /\ Chain' /\ Messages'
  BY <1>1 DEF Fixed, Loading, Stages, Chain, Early, Messages, IsMessage
<1>3. Progress'
  BY <1>1 DEF Progress, Transforming, Early
<1>4. RequestContext' = RequestContext /\ reply' = None
  BY <1>1 DEF RequestContext, Progress
<1>5. pos - 1 = Len(config.listener)
  BY <1>1, AllDone DEF List
<1>6. WorkAsDeclared'
  <2>1. ASSUME NEW n \in HeaderNames PROVE Values(base', n) = ListenerHeader(n)'
    BY <1>1, <1>4, <1>5 DEF WorkAsDeclared, ListenerHeader
  <2> QED
    BY <1>1, <2>1 DEF WorkAsDeclared
<1>7. SentAsDeclared'
  BY <1>1, <1>4, SentKept
<1>8. TargetOfReply' /\ ReplyAsDeclared'
  BY <1>1, <1>4 DEF TargetOfReply, ReplyAsDeclared
<1> QED
  BY <1>2, <1>3, <1>6, <1>7, <1>8

LEMMA BeginTargetPreserves == IInv /\ BeginTarget => IInv'
<1> SUFFICES ASSUME IInv, BeginTarget PROVE IInv'
  OBVIOUS
<1> USE DEF IInv
<1> DEFINE target == config.targets[Len(sent) + 1]
<1>1. /\ UNCHANGED <<file, env, req, config, base, sent, origin, resp, reply>>
      /\ stage = "dispatch" /\ Len(sent) < Len(config.targets)
      /\ ctx' = With(RequestContext, TargetMap(target))
      /\ work' = base /\ stage' = "target" /\ pos' = 1
  BY DEF BeginTarget, fixed
<1>2. config # None /\ reply = None
  BY <1>1 DEF Loading, Progress
<1>3. Len(sent) + 1 \in 1 .. Len(config.targets)
  BY <1>1, <1>2, TargetsCounted
<1>4. target \in Target /\ TargetMap(target) \in Maps
  BY <1>2, <1>3, TargetTyped
<1> HIDE DEF target
<1>5. /\ ctx' \in Seq(Maps) /\ Len(ctx') = 3 /\ RequestContext' = RequestContext
      /\ ctx'[1] = ctx[1]
  <2>1. ctx \in Seq(Maps) /\ Len(ctx) >= 2
    BY <1>1 DEF Chain, Early
  <2> QED
    BY <1>1, <1>4, <2>1, PrefixKept DEF RequestContext
<1>6. Fixed' /\ Loading' /\ Messages'
  BY <1>1 DEF Fixed, Loading, Stages, Messages, IsMessage
<1>7. Chain'
  BY <1>1, <1>5 DEF Chain, Early, target
<1>8. Progress'
  <2>1. List' = target.headers
    BY <1>1 DEF List, target
  <2>2. Len(target.headers) \in Nat
    BY <1>4, LenProperties DEF Target
  <2> QED
    BY <1>1, <1>2, <2>1, <2>2 DEF Progress, Transforming, Early
<1>9. WorkAsDeclared'
  <2> SUFFICES ASSUME NEW n \in HeaderNames
               PROVE  /\ Values(base', n) = ListenerHeader(n)'
                      /\ Values(work', n) = Declared(config'.targets[Len(sent') + 1].headers, pos' - 1, n,
                                                     Values(base', n), ctx')
    BY <1>1 DEF WorkAsDeclared
  <2>1. Values(base', n) = ListenerHeader(n)'
    BY <1>1, <1>5 DEF WorkAsDeclared, ListenerHeader
  <2> QED
    BY <1>1, <2>1, NothingDeclared
<1>10. SentAsDeclared'
  BY <1>1, <1>5, SentKept
<1>11. TargetOfReply' /\ ReplyAsDeclared'
  BY <1>1, <1>2 DEF TargetOfReply, ReplyAsDeclared
<1> QED
  BY <1>6, <1>7, <1>8, <1>9, <1>10, <1>11

LEMMA SendTargetPreserves == IInv /\ SendTarget => IInv'
<1> SUFFICES ASSUME IInv, SendTarget PROVE IInv'
  OBVIOUS
<1> USE DEF IInv
<1> DEFINE target == config.targets[Len(sent) + 1]
           headers == IF "host" \in DOMAIN work THEN work
                      ELSE InsertHeader(work, "host", Literal(target.host))
           body == IF target.body = None THEN req.body ELSE Expand(target.body, ctx)
           message == [headers |-> headers, body |-> body]
<1>1. /\ UNCHANGED <<file, env, req, config, ctx, work, pos, base, origin, resp, reply>>
      /\ stage = "target" /\ ListDone /\ stage' = "dispatch"
      /\ sent' = Append(sent, message)
  BY DEF SendTarget, fixed
<1>2. config # None /\ reply = None /\ RequestContext' = RequestContext
  BY <1>1 DEF Loading, Progress, RequestContext
<1>3. Len(sent) \in Nat /\ Len(sent) + 1 \in 1 .. Len(config.targets) /\ Len(config.targets) \in Nat
  BY <1>1, <1>2, TargetsCounted DEF Progress
<1>4. target \in Target
  BY <1>2, <1>3, TargetTyped
<1>5. pos - 1 = Len(target.headers)
  BY <1>1, AllDone DEF List
<1>6. IsMessage(message)
  <2>1. target.host \in Texts /\ target.body \in Bodies
    BY <1>4 DEF Target
  <2>2. <<Literal(target.host)>> \in Seq(Template) /\ <<Literal(target.host)>> # << >>
    BY <2>1, LiteralTyped
  <2>3. IsHeaderMap(headers)
    BY <2>2, HeadersAssumption DEF Messages, IsHeaderMap, InsertHeader
  <2>4. body \in Bodies
    BY <2>1, ExpandTyped, RewritingAssumption DEF Chain, Fixed, Bodies, Option
  <2> QED
    BY <2>3, <2>4 DEF IsMessage
<1>7. ASSUME NEW n \in HeaderNames
      PROVE  LET declared == Declared(target.headers, Len(target.headers), n, ListenerHeader(n),
                                      With(RequestContext, TargetMap(target)))
             IN  Values(headers, n) =
                   IF n = "host" /\ declared = Absent THEN <<Literal(target.host)>> ELSE declared
  <2>1. Values(work, n) = Declared(target.headers, Len(target.headers), n, ListenerHeader(n),
                                   With(RequestContext, TargetMap(target)))
    BY <1>1, <1>5 DEF WorkAsDeclared, Chain
  <2>2. Values(headers, n) =
          IF n = "host" /\ Values(work, n) = Absent THEN <<Literal(target.host)>> ELSE Values(work, n)
    BY DEF Values, InsertHeader, Absent, Messages, IsHeaderMap
  <2> QED
    BY <2>1, <2>2
<1> HIDE DEF message
<1>8. /\ IsSequence(sent') /\ Len(sent') = Len(sent) + 1 /\ DOMAIN sent' = 1 .. Len(sent) + 1
      /\ \A i \in 1 .. Len(sent) : sent'[i] = sent[i]
      /\ sent'[Len(sent) + 1] = message
  BY <1>1, AppendIsSequence DEF Progress
<1>9. DOMAIN sent = 1 .. Len(sent)
  BY SequenceDomain DEF Progress
<1>10. Fixed' /\ Loading' /\ Chain'
  BY <1>1, <1>2 DEF Fixed, Loading, Stages, Chain, Early
<1>11. Progress'
  BY <1>1, <1>2, <1>3, <1>8 DEF Progress, Transforming, Early
<1>12. Messages'
  BY <1>1, <1>3, <1>6, <1>8, <1>9 DEF Messages, IsMessage
<1>13. WorkAsDeclared'
  BY <1>1, <1>2 DEF WorkAsDeclared, ListenerHeader
<1>14. SentAsDeclared'
  <2> SUFFICES ASSUME NEW i \in DOMAIN sent', NEW n \in HeaderNames
      PROVE  LET t == config.targets[i]
                 declared == Declared(t.headers, Len(t.headers), n, ListenerHeader(n),
                                      With(RequestContext, TargetMap(t)))
             IN  Values(sent'[i].headers, n) =
                   IF n = "host" /\ declared = Absent THEN <<Literal(t.host)>> ELSE declared
    BY <1>1, <1>2 DEF SentAsDeclared, ListenerHeader
  <2>1. CASE i \in 1 .. Len(sent)
    BY <1>8, <1>9, <2>1 DEF SentAsDeclared
  <2>2. CASE i = Len(sent) + 1
    <3>1. sent'[i].headers = headers
      BY <1>8, <2>2 DEF message
    <3> QED
      BY <1>7, <2>2, <3>1
  <2> QED
    BY <1>3, <1>8, <2>1, <2>2
<1>15. TargetOfReply' /\ ReplyAsDeclared'
  BY <1>1, <1>2 DEF TargetOfReply, ReplyAsDeclared
<1> QED
  BY <1>10, <1>11, <1>12, <1>13, <1>14, <1>15

-----------------------------------------------------------------------------
(* The response                                                             *)

\* BeginReply, whichever context its caller gives the override.
LEMMA ReplyBegins ==
  ASSUME IInv, NEW i \in 0 .. Len(config.targets), NEW r, IsMessage(r),
         r = [headers |-> r.headers, body |-> r.body], BeginReply(i, r),
         ctx' \in Seq(Maps), Len(ctx') >= 2, ctx'[1] = ctx[1], RequestContext' = RequestContext,
         \A v \in TargetVariables :
           Get(ctx', v) = IF i = 0 THEN Get(RequestContext, v) ELSE TargetMap(config.targets[i])[v]
  PROVE  IInv'
<1> USE DEF IInv
<1>1. /\ UNCHANGED <<file, env, req, config, base, sent>> /\ stage = "dispatch"
      /\ origin' = i /\ resp' = r /\ work' = r.headers /\ pos' = 1
      /\ \/ config.override = None /\ reply' = r /\ stage' = "replied"
         \/ config.override # None /\ reply' = reply /\ stage' = "override"
  BY DEF BeginReply, fixed
<1>2. config # None /\ reply = None
  BY <1>1 DEF Loading, Progress
<1>3. Fixed' /\ Loading'
  BY <1>1, <1>2 DEF Fixed, Loading, Stages, Ends
<1>4. Chain'
  BY <1>1 DEF Chain, Early
<1>5. Progress'
  <2>1. stage' = "override" => List' = config.override.headers
    BY <1>1 DEF List
  <2>2. stage' = "override" => Len(config.override.headers) \in Nat
    <3>1. config.override # None => config.override \in Overrides
      BY <1>2 DEF Loading, Configurations, Option
    <3> QED
      BY <1>1, <3>1, LenProperties DEF Overrides
  <2> QED
    BY <1>1, <1>2, <2>1, <2>2 DEF Progress, Transforming, Early
<1>6. Messages'
  BY <1>1, <1>2 DEF Messages, IsMessage
<1>7. WorkAsDeclared'
  BY <1>1, NothingDeclared DEF WorkAsDeclared
<1>8. SentAsDeclared'
  BY <1>1, SentKept
<1>9. TargetOfReply' /\ ReplyAsDeclared'
  <2>1. \A v \in TargetVariables :
          Get(ctx', v) = IF origin' = 0 THEN Get(RequestContext', v)
                         ELSE TargetMap(config'.targets[origin'])[v]
    BY <1>1
  <2> QED
    BY <1>1, <1>2, <2>1 DEF TargetOfReply, ReplyAsDeclared
<1> QED
  BY <1>3, <1>4, <1>5, <1>6, <1>7, <1>8, <1>9

LEMMA EmptyTyped == IsMessage(Empty) /\ Empty = [headers |-> Empty.headers, body |-> Empty.body]
BY NoHeadersTyped DEF Empty, IsMessage, Bodies, Option

LEMMA MakeUpPreserves == IInv /\ MakeUp => IInv'
<1> SUFFICES ASSUME IInv, MakeUp PROVE IInv'
  OBVIOUS
<1>1. BeginReply(0, Empty) /\ ctx' = RequestContext /\ stage = "dispatch"
  BY DEF MakeUp, BeginReply
<1>2. ctx \in Seq(Maps) /\ Len(ctx) >= 2
  BY <1>1 DEF IInv, Chain, Early
<1>3. ctx' \in Seq(Maps) /\ Len(ctx') = 2 /\ ctx'[1] = ctx[1] /\ ctx'[2] = ctx[2]
  BY <1>1, <1>2, PrefixTyped DEF RequestContext
<1>4. RequestContext' = RequestContext
  BY <1>2, <1>3, PrefixEqual DEF RequestContext
<1>5. 0 \in 0 .. Len(config.targets)
  BY <1>1, TargetsCounted DEF IInv, Loading
<1>6. \A v \in TargetVariables : Get(ctx', v) = Get(RequestContext, v)
  BY <1>1
<1> QED
  BY <1>1, <1>3, <1>4, <1>5, <1>6, EmptyTyped, ReplyBegins

\* The chain of the request, of a target and, it may be, of its response.
LEMMA TargetChain ==
  ASSUME IInv, stage = "dispatch", NEW i \in DOMAIN config.targets
  PROVE  LET d == With(RequestContext, TargetMap(config.targets[i]))
         IN  /\ d \in Seq(Maps) /\ Len(d) >= 2 /\ d[1] = ctx[1]
             /\ SubSeq(d, 1, 2) = RequestContext
             /\ \A v \in TargetVariables : Get(d, v) = TargetMap(config.targets[i])[v]
             /\ \A own \in Maps :
                  LET e == With(d, own)
                  IN  /\ e \in Seq(Maps) /\ Len(e) >= 2 /\ e[1] = ctx[1]
                      /\ SubSeq(e, 1, 2) = RequestContext
                      /\ DOMAIN own \cap TargetVariables = {} =>
                           \A v \in TargetVariables : Get(e, v) = TargetMap(config.targets[i])[v]
<1> DEFINE m == TargetMap(config.targets[i])
           d == With(RequestContext, m)
<1>1. config # None /\ ctx \in Seq(Maps) /\ Len(ctx) >= 2
  BY DEF IInv, Loading, Chain, Early
<1>2. m \in Maps /\ DOMAIN m = TargetVariables /\ i \in 1 .. Len(config.targets)
  BY <1>1, TargetTyped, TargetsCounted, TargetMapTyped DEF Target
<1> HIDE DEF m
<1>3. /\ d \in Seq(Maps) /\ Len(d) = 3 /\ SubSeq(d, 1, 2) = RequestContext
      /\ d[1] = ctx[1] /\ d[3] = m
  BY <1>1, <1>2, PrefixKept DEF RequestContext
<1>4. ASSUME NEW own \in Maps
      PROVE  /\ With(d, own) \in Seq(Maps) /\ Len(With(d, own)) = 4
             /\ SubSeq(With(d, own), 1, 2) = RequestContext
             /\ With(d, own)[1] = ctx[1] /\ With(d, own)[3] = m /\ With(d, own)[4] = own
  BY <1>1, <1>2, PrefixKept DEF RequestContext
<1> HIDE DEF d
<1>5. ASSUME NEW v \in TargetVariables PROVE Get(d, v) = m[v]
  <2>1. 3 \in 1 .. Len(d) /\ v \in DOMAIN d[3] /\ \A j \in 3 + 1 .. Len(d) : v \notin DOMAIN d[j]
    BY <1>2, <1>3
  <2> QED
    BY <1>3, <2>1, GetNearest
<1>6. ASSUME NEW own \in Maps, DOMAIN own \cap TargetVariables = {}, NEW v \in TargetVariables
      PROVE  Get(With(d, own), v) = m[v]
  <2> DEFINE e == With(d, own)
  <2>1. e \in Seq(Maps) /\ Len(e) = 4 /\ e[3] = m /\ e[4] = own
    BY <1>4
  <2> HIDE DEF e
  <2>2. 3 \in 1 .. Len(e) /\ v \in DOMAIN e[3]
    BY <1>2, <2>1
  <2>3. \A j \in 3 + 1 .. Len(e) : v \notin DOMAIN e[j]
    <3>1. \A j \in 3 + 1 .. Len(e) : j = 4
      BY <2>1
    <3> QED
      BY <1>6, <2>1, <3>1
  <2>4. Get(e, v) = e[3][v]
    BY <2>1, <2>2, <2>3, GetNearest
  <2> QED
    BY <2>1, <2>4 DEF e
<1>7. ASSUME NEW own \in Maps
      PROVE  /\ With(d, own) \in Seq(Maps) /\ Len(With(d, own)) >= 2 /\ With(d, own)[1] = ctx[1]
             /\ SubSeq(With(d, own), 1, 2) = RequestContext
  BY <1>4
<1>8. d \in Seq(Maps) /\ Len(d) >= 2 /\ d[1] = ctx[1] /\ SubSeq(d, 1, 2) = RequestContext
  BY <1>3
<1>9. \A own \in Maps :
        LET e == With(d, own)
        IN  /\ e \in Seq(Maps) /\ Len(e) >= 2 /\ e[1] = ctx[1]
            /\ SubSeq(e, 1, 2) = RequestContext
            /\ DOMAIN own \cap TargetVariables = {} =>
                 \A v \in TargetVariables : Get(e, v) = m[v]
  BY <1>6, <1>7
<1> QED
  BY <1>5, <1>8, <1>9, Zenon DEF d, m

LEMMA ReplyForDroppedPreserves ==
  ASSUME IInv, NEW i \in DOMAIN config.targets, ReplyForDropped(i) PROVE IInv'
<1> DEFINE d == With(RequestContext, TargetMap(config.targets[i]))
<1>1. BeginReply(i, Empty) /\ ctx' = d /\ stage = "dispatch"
  BY DEF ReplyForDropped, BeginReply
<1>2. /\ d \in Seq(Maps) /\ Len(d) >= 2 /\ d[1] = ctx[1] /\ SubSeq(d, 1, 2) = RequestContext
      /\ \A v \in TargetVariables : Get(d, v) = TargetMap(config.targets[i])[v]
  BY <1>1, TargetChain
<1> HIDE DEF d
<1>3. i \in 0 .. Len(config.targets) /\ i # 0
  BY <1>1, TargetsCounted DEF IInv, Loading
<1>4. RequestContext' = RequestContext
  BY <1>1, <1>2 DEF RequestContext
<1> QED
  BY <1>1, <1>2, <1>3, <1>4, EmptyTyped, ReplyBegins

LEMMA RelayPreserves ==
  ASSUME IInv, NEW i \in DOMAIN config.targets, NEW r \in Responses, Relay(i, r) PROVE IInv'
<1> DEFINE d == With(RequestContext, TargetMap(config.targets[i]))
           m == [headers |-> r.headers, body |-> r.body]
<1>1. BeginReply(i, m) /\ stage = "dispatch"
  BY DEF Relay, BeginReply
<1>2. PICK own \in ResponseMaps(r) : ctx' = With(d, own)
  BY DEF Relay
<1>3. own \in Maps /\ DOMAIN own \cap TargetVariables = {}
  BY ResponseMapsTyped
<1> DEFINE e == With(d, own)
<1>4. /\ e \in Seq(Maps) /\ Len(e) >= 2 /\ e[1] = ctx[1] /\ SubSeq(e, 1, 2) = RequestContext
      /\ \A v \in TargetVariables : Get(e, v) = TargetMap(config.targets[i])[v]
  BY <1>1, <1>3, TargetChain
<1>5. ctx' = e
  BY <1>2
<1>6. IsMessage(m) /\ m = [headers |-> m.headers, body |-> m.body]
  BY RewritingAssumption DEF IsMessage
<1> HIDE DEF e, d, m
<1>7. i \in 0 .. Len(config.targets) /\ i # 0
  BY <1>1, TargetsCounted DEF IInv, Loading
<1>8. RequestContext' = RequestContext
  BY <1>4, <1>5 DEF RequestContext
<1> QED
  BY <1>1, <1>4, <1>5, <1>6, <1>7, <1>8, ReplyBegins

LEMMA OverridePreserves == IInv /\ Override => IInv'
<1> SUFFICES ASSUME IInv, Override PROVE IInv'
  OBVIOUS
<1> USE DEF IInv
<1>1. /\ UNCHANGED <<file, env, req, config, ctx, work, pos, base, sent, origin, resp>>
      /\ stage = "override" /\ ListDone /\ stage' = "replied"
      /\ reply'.headers = work
      /\ reply'.body = IF config.override.body = None THEN resp.body
                       ELSE Expand(config.override.body, ctx)
  BY DEF Override, fixed
<1>2. config # None /\ config.override # None /\ RequestContext' = RequestContext
  BY <1>1 DEF Loading, Progress, RequestContext
<1>3. pos - 1 = Len(config.override.headers)
  BY <1>1, AllDone DEF List
<1>4. Fixed' /\ Loading' /\ Chain'
  BY <1>1 DEF Fixed, Loading, Stages, Ends, Chain, Early
<1>5. Progress'
  BY <1>1, <1>2 DEF Progress, Transforming, Early
<1>6. Messages'
  <2>1. config.override \in Overrides
    BY <1>2 DEF Loading, Configurations, Option
  <2>2. config.override.body # None => config.override.body \in Template
    BY <2>1 DEF Overrides, Bodies, Option
  <2>3. config.override.body # None => Expand(config.override.body, ctx) \in Bodies
    BY <2>2, ExpandTyped DEF Chain, Bodies, Option
  <2> QED
    BY <1>1, <2>3 DEF Messages, IsMessage
<1>7. WorkAsDeclared' /\ TargetOfReply'
  BY <1>1, <1>2 DEF WorkAsDeclared, TargetOfReply
<1>8. SentAsDeclared'
  BY <1>1, <1>2, SentKept
<1>9. ReplyAsDeclared'
  BY <1>1, <1>2, <1>3 DEF ReplyAsDeclared, WorkAsDeclared, TargetOfReply
<1> QED
  BY <1>4, <1>5, <1>6, <1>7, <1>8, <1>9

-----------------------------------------------------------------------------
LEMMA InvPreserved == IInv /\ [Next]_vars => IInv'
<1> SUFFICES ASSUME IInv, [Next]_vars PROVE IInv'
  OBVIOUS
<1>1. CASE Load
  BY <1>1, LoadPreserves
<1>2. CASE TransformHeaders \/ TransformPanics
  BY <1>2, TransformPreserves, PanicPreserves
<1>3. CASE Request
  BY <1>3, AcceptPreserves, ListenerDonePreserves, BeginTargetPreserves, SendTargetPreserves DEF Request
<1>4. CASE Response
  <2>1. ASSUME NEW i \in DOMAIN config.targets, NEW r \in Responses, Relay(i, r) PROVE IInv'
    BY <2>1, RelayPreserves
  <2>2. ASSUME NEW i \in DOMAIN config.targets, ReplyForDropped(i) PROVE IInv'
    BY <2>2, ReplyForDroppedPreserves
  <2> QED
    BY <1>4, <2>1, <2>2, MakeUpPreserves, OverridePreserves DEF Response
<1>5. CASE UNCHANGED vars
  <2>1. UNCHANGED <<file, env, req, config, stage, ctx, work, pos, base, sent, origin, resp, reply>>
    BY <1>5 DEF vars, fixed
  <2>2. RequestContext' = RequestContext /\ List' = List /\ \A n : ListenerHeader(n)' = ListenerHeader(n)
    BY <2>1 DEF RequestContext, List, ListenerHeader
  <2>3. Fixed' /\ Loading' /\ Chain' /\ Progress' /\ Messages'
    BY <2>1, <2>2 DEF IInv, Fixed, Loading, Chain, Progress, Transforming, Messages, IsMessage
  <2>4. WorkAsDeclared' /\ TargetOfReply' /\ ReplyAsDeclared'
    BY <2>1, <2>2 DEF IInv, WorkAsDeclared, TargetOfReply, ReplyAsDeclared
  <2>5. SentAsDeclared'
    BY <2>1, <2>2, SentKept DEF IInv
  <2> QED
    BY <2>3, <2>4, <2>5 DEF IInv
<1> QED
  BY <1>1, <1>2, <1>3, <1>4, <1>5 DEF Next, Terminated

THEOREM Invariance == Spec => []IInv
BY InvInitial, InvPreserved, PTL DEF Spec

(* TypeOK, the type invariant the run checks, for every instance.           *)
THEOREM TypeCorrect == Spec => []TypeOK
<1>1. IInv => TypeOK
  <2> SUFFICES ASSUME IInv PROVE TypeOK
    OBVIOUS
  <2>1. \A i \in DOMAIN ctx : IsMap(ctx[i])
    BY LenProperties, ElementOfSeq, MapsAreMaps DEF IInv, Chain
  <2>2. \A m \in {sent[i] : i \in DOMAIN sent} \cup {resp} \cup ({reply} \ {None}) : IsMessage(m)
    BY DEF IInv, Messages
  <2> QED
    BY <2>1, <2>2 DEF TypeOK, IInv, Loading, Progress, Messages, IsMessage
<1> QED
  BY <1>1, Invariance, PTL

(* SentAsDeclared: whatever the lists, a target is sent what its own list   *)
(* makes of what the listener's makes of the client's headers.              *)
THEOREM TargetsAreSentAsDeclared == Spec => []SentAsDeclared
<1>1. IInv => SentAsDeclared
  BY DEF IInv
<1> QED
  BY <1>1, Invariance, PTL

(* ReplyAsDeclared: an override works on the response that was chosen, with *)
(* the variables of the target that it belongs to.                          *)
THEOREM OverrideIsAsDeclared == Spec => []ReplyAsDeclared
<1>1. IInv => ReplyAsDeclared
  BY DEF IInv
<1> QED
  BY <1>1, Invariance, PTL

\* What the environment and the program define, and what the request does
LEMMA RequestChain ==
  ASSUME IInv, stage = "listener"
  PROVE  /\ ctx \in Seq(Maps) /\ Len(ctx) = 2 /\ DOMAIN ctx = 1 .. 2
         /\ ctx[1] = Over(env, AppMap) /\ ctx[1] \in Maps /\ ctx[2] \in Maps
         /\ Root(env) \in Seq(Maps) /\ Len(Root(env)) = 1 /\ DOMAIN Root(env) = 1 .. 1
         /\ Root(env)[1] = ctx[1]
<1>1. ctx \in Seq(Maps) /\ Len(ctx) = 2 /\ ctx[1] = Over(env, AppMap)
  BY DEF IInv, Chain, Early
<1>2. DOMAIN ctx = 1 .. 2 /\ ctx[1] \in Maps /\ ctx[2] \in Maps
  <2>1. DOMAIN ctx = 1 .. Len(ctx) /\ \A i \in 1 .. Len(ctx) : ctx[i] \in Maps
    BY <1>1, LenProperties, ElementOfSeq
  <2> QED
    BY <1>1, <2>1
<1>3. Root(env) \in Seq(Maps) /\ Len(Root(env)) = 1 /\ Root(env)[1] = Over(env, AppMap)
  BY RootTyped DEF IInv, Fixed
<1>4. DOMAIN Root(env) = 1 .. 1
  BY <1>3, LenProperties
<1> QED
  BY <1>1, <1>2, <1>3, <1>4

(* FilterAgreesWithTemplates: although `iter` and `get` go through a        *)
(* context in opposite directions, a filter and a template that name the    *)
(* same variable agree, because the file has been expanded before.          *)
THEOREM FiltersAgree == Spec => []FilterAgreesWithTemplates
<1>1. IInv => FilterAgreesWithTemplates
  <2> SUFFICES ASSUME IInv, stage = "listener", NEW v \in Names(ctx),
                      v \in DOMAIN env => env[v].var = None
               PROVE  Collected(ctx)[v] = Expand(Expand(Reference(v), Root(env)), ctx)
    BY DEF FilterAgreesWithTemplates
  <2>1. /\ ctx \in Seq(Maps) /\ Len(ctx) = 2 /\ DOMAIN ctx = 1 .. 2
        /\ ctx[1] = Over(env, AppMap) /\ ctx[1] \in Maps /\ ctx[2] \in Maps
        /\ Root(env) \in Seq(Maps) /\ Len(Root(env)) = 1 /\ DOMAIN Root(env) = 1 .. 1
        /\ Root(env)[1] = ctx[1]
    BY RequestChain
  <2>2. \A i : i \in DOMAIN ctx <=> i = 1 \/ i = 2
    BY <2>1
  <2>3. Reference(v).var = v /\ Reference(v).text = None
    BY DEF Reference
  <2>4. v \in Variables /\ v # None /\ (v \in DOMAIN ctx[1] \/ v \in DOMAIN ctx[2])
    <3>1. v \in DOMAIN ctx[1] \/ v \in DOMAIN ctx[2]
      BY <2>2 DEF Names
    <3>2. DOMAIN ctx[1] \subseteq Variables /\ DOMAIN ctx[2] \subseteq Variables
      BY <2>1, MapsAreMaps DEF IsMap
    <3> QED
      BY <3>1, <3>2, ContextAssumption
  <2>5. CASE v \in DOMAIN ctx[1]
    <3> DEFINE value == ctx[1][v]
    <3>1. value \in Template /\ value # None
      BY <2>1, <2>5, MapsAreMaps, ContextAssumption DEF IsMap
    <3>2. Collected(ctx)[v] = value
      <4>1. \A i \in DOMAIN ctx :
              v \in DOMAIN ctx[i] /\ (\A j \in 1 .. i - 1 : v \notin DOMAIN ctx[j]) <=> i = 1
        <5>1. \A i \in DOMAIN ctx : (\A j \in 1 .. i - 1 : v \notin DOMAIN ctx[j]) <=> i = 1
          BY <2>2, <2>5
        <5> QED
          BY <2>5, <5>1
      <4>2. (CHOOSE i \in DOMAIN ctx :
               v \in DOMAIN ctx[i] /\ \A j \in 1 .. i - 1 : v \notin DOMAIN ctx[j]) = 1
        BY <2>2, <4>1
      <4> QED
        BY <4>2 DEF Collected
    <3>3. Get(Root(env), v) = value
      <4>1. 1 \in 1 .. Len(Root(env)) /\ v \in DOMAIN Root(env)[1]
            /\ \A j \in 1 + 1 .. Len(Root(env)) : v \notin DOMAIN Root(env)[j]
        BY <2>1, <2>5
      <4>2. Get(Root(env), v) = Root(env)[1][v]
        BY <2>1, <4>1, GetNearest
      <4> QED
        BY <2>1, <4>2
    <3>4. Expand(Reference(v), Root(env)) = value
      BY <2>3, <2>4, <3>1, <3>3 DEF Expand
    <3>5. value.var = None
      <4>1. v \in DOMAIN env => value = env[v]
        BY <2>1, <2>5 DEF Over
      <4>2. v \notin DOMAIN env => v \in DOMAIN AppMap /\ value = AppMap[v]
        BY <2>1, <2>5 DEF Over
      <4>3. \A x \in DOMAIN AppMap : AppMap[x].var = None
        BY DEF AppMap, Literal
      <4> QED
        BY <4>1, <4>2, <4>3
    <3> HIDE DEF value
    <3>6. value.text # None /\ Literal(value.text) = value
      BY <3>1, <3>5 DEF Template, Literal
    <3>7. Expand(value, ctx) = value
      BY <3>5, <3>6 DEF Expand
    <3> QED
      BY <3>2, <3>4, <3>7
  <2>6. CASE v \notin DOMAIN ctx[1]
    <3>1. v \in DOMAIN ctx[2]
      BY <2>4, <2>6
    <3>2. Collected(ctx)[v] = ctx[2][v]
      <4>1. \A i \in DOMAIN ctx :
              v \in DOMAIN ctx[i] /\ (\A j \in 1 .. i - 1 : v \notin DOMAIN ctx[j]) <=> i = 2
        <5>1. \A j \in 1 .. 2 - 1 : v \notin DOMAIN ctx[j]
          BY <2>6
        <5> QED
          BY <2>2, <2>6, <3>1, <5>1
      <4>2. (CHOOSE i \in DOMAIN ctx :
               v \in DOMAIN ctx[i] /\ \A j \in 1 .. i - 1 : v \notin DOMAIN ctx[j]) = 2
        BY <2>2, <4>1
      <4> QED
        BY <4>2 DEF Collected
    <3>3. Get(Root(env), v) = None
      <4>1. v \notin Names(Root(env))
        BY <2>1, <2>6 DEF Names
      <4> QED
        BY <4>1 DEF Get
    <3>4. Expand(Reference(v), Root(env)) = Reference(v)
      BY <2>3, <3>3 DEF Expand
    <3>5. Get(ctx, v) = ctx[2][v]
      <4>1. 2 \in 1 .. Len(ctx) /\ \A j \in 2 + 1 .. Len(ctx) : v \notin DOMAIN ctx[j]
        BY <2>1
      <4> QED
        BY <2>1, <3>1, <4>1, GetNearest
    <3>6. ctx[2][v] # None
      BY <2>1, <3>1, MapsAreMaps, ContextAssumption DEF IsMap
    <3>7. Expand(Reference(v), ctx) = ctx[2][v]
      BY <2>3, <2>4, <3>5, <3>6 DEF Expand
    <3> QED
      BY <3>2, <3>4, <3>7
  <2> QED
    BY <2>5, <2>6
<1> QED
  BY <1>1, Invariance, PTL
-----------------------------------------------------------------------------
(* What the environment holds.  For one variable v of it which the file     *)
(* does not refer to, and whose value can be had nowhere else: each         *)
(* variable and message stays clear of that value.                          *)

Secret(v) == v \in DOMAIN env \ Referred /\ env[v] \notin Elsewhere(v)

\* A template that v cannot come out of, whatever it is expanded to
ClearTemplate(t, v) == t # env[v] /\ t.var # v /\ Literal(t.text) # env[v]

ClearMap(map, v) == \A w \in DOMAIN map \ {v} : map[w] # env[v]
ClearContext(c, v) == \A i \in DOMAIN c : ClearMap(c[i], v)
ClearHeaders(headers, v) == env[v] \notin HeaderValues(headers)
ClearMessage(m, v) == env[v] \notin Contents(m)

NothingTold(v) ==
  /\ ClearContext(ctx, v)
  /\ ClearHeaders(work, v) /\ ClearHeaders(base, v)
  /\ ClearMessage(resp, v) /\ (reply # None => ClearMessage(reply, v))
  /\ \A i \in DOMAIN sent : ClearMessage(sent[i], v)

AsLoaded == config # None => config = Loaded(file, Root(env))

SecretsKept == AsLoaded /\ \A v \in DOMAIN env : Secret(v) => NothingTold(v)

\* The sources of text, one by one.
LEMMA SecretApart ==
  ASSUME Fixed, NEW v \in DOMAIN env, Secret(v)
  PROVE  /\ env[v] \in Template /\ env[v] # None /\ v \in Variables
         /\ \A t \in Templates(file) : ClearTemplate(t, v)
         /\ \A w \in DOMAIN env \ {v} : env[w] # env[v] /\ Literal(env[w].text) # env[v]
         /\ \A t \in Templates(file) : t.var \in DOMAIN env => env[t.var].var # v
         /\ \A w \in DOMAIN AppMap : AppMap[w] # env[v]
         /\ \A w \in DOMAIN req.parts : req.parts[w] # env[v]
         /\ \A m \in Responses \cup {req} : ClearMessage(m, v)
         /\ \A i \in DOMAIN file.targets :
              Literal(file.targets[i].id) # env[v] /\ Literal(file.targets[i].host) # env[v]
         /\ \A r \in Responses : Literal(r.status) # env[v]
<1>1. v \notin Referred /\ env[v] \notin Elsewhere(v)
  BY DEF Secret
<1>2. env[v] \in Template /\ env[v] # None /\ v \in Variables
  BY RewritingAssumption, ContextAssumption DEF Fixed, IsMap
<1>3. \A t \in Templates(file) : t.var # v /\ (t.var \in DOMAIN env => env[t.var].var # v)
  BY <1>1 DEF Referred, ReferredIn
<1>4. \A t \in Templates(file) : t # env[v] /\ Literal(t.text) # env[v]
  BY <1>1 DEF Elsewhere
<1>5. \A w \in DOMAIN env \ {v} : env[w] # env[v] /\ Literal(env[w].text) # env[v]
  BY <1>1 DEF Elsewhere
<1>6. /\ \A w \in DOMAIN AppMap : AppMap[w] # env[v]
      /\ \A w \in DOMAIN req.parts : req.parts[w] # env[v]
  BY <1>1 DEF Elsewhere
<1>7. \A m \in Responses \cup {req} : ClearMessage(m, v)
  BY <1>1 DEF Elsewhere, ClearMessage
<1>8. /\ \A i \in DOMAIN file.targets :
           Literal(file.targets[i].id) # env[v] /\ Literal(file.targets[i].host) # env[v]
      /\ \A r \in Responses : Literal(r.status) # env[v]
  BY <1>1 DEF Elsewhere
<1> QED
  BY <1>2, <1>3, <1>4, <1>5, <1>6, <1>7, <1>8 DEF ClearTemplate

LEMMA ExpandClear ==
  ASSUME NEW c \in Seq(Maps), NEW v, ClearContext(c, v), NEW t, ClearTemplate(t, v)
  PROVE  Expand(t, c) # env[v]
<1>1. CASE t.var # None /\ t.var \in Names(c)
  <2>1. PICK i \in DOMAIN c : t.var \in DOMAIN c[i] /\ Get(c, t.var) = c[i][t.var]
    BY <1>1, GetDefined
  <2>2. Get(c, t.var) # env[v]
    BY <2>1 DEF ClearContext, ClearMap, ClearTemplate
  <2> QED
    BY <2>2 DEF Expand, ClearTemplate
<1>2. CASE t.var = None \/ t.var \notin Names(c)
  BY <1>2 DEF Expand, Get, ClearTemplate
<1> QED
  BY <1>1, <1>2

LEMMA InTemplates ==
  ASSUME NEW f, NEW t
  PROVE  t \in Templates(f) <=>
           /\ t # None
           /\ \/ \E i \in DOMAIN f.targets : t = f.targets[i].body
              \/ f.override # None /\ t = f.override.body
              \/ \E list \in Lists(f) : \E i \in DOMAIN list : t = list[i].value
BY DEF Templates, ListTemplates

LEMMA InLists ==
  ASSUME NEW f, NEW list
  PROVE  list \in Lists(f) <=>
           \/ list = f.listener
           \/ \E i \in DOMAIN f.targets : list = f.targets[i].headers
           \/ f.override # None /\ list = f.override.headers
BY DEF Lists

LEMMA TemplatesTyped ==
  ASSUME NEW f \in Configurations, NEW t \in Templates(f) PROVE t \in Template
<1>1. /\ f.listener \in Seq(Transform) /\ f.targets \in Seq(Target)
      /\ f.override # None => f.override \in Overrides
  BY DEF Configurations, Target, Option
<1>2. \A i \in DOMAIN f.targets : f.targets[i] \in Target
  BY <1>1, LenProperties, ElementOfSeq
<1>3. \A list \in Lists(f) : list \in Seq(Transform)
  BY <1>1, <1>2, InLists DEF Target, Overrides
<1>4. \A list \in Lists(f) : \A i \in DOMAIN list : list[i] \in Transform
  BY <1>3, LenProperties, ElementOfSeq
<1> QED
  BY <1>1, <1>2, <1>4, InTemplates DEF Target, Overrides, Bodies, Transform, Option

\* What is loaded has the lists of the file, each template of them expanded.
LEMMA ListsLoaded ==
  ASSUME NEW f \in Configurations, NEW c, NEW list \in Lists(Loaded(f, c))
  PROVE  \E l \in Lists(f) :
           /\ DOMAIN list = DOMAIN l
           /\ \A i \in DOMAIN l : /\ l[i] \in Transform
                                 /\ list[i].action = l[i].action /\ list[i].name = l[i].name
                                 /\ list[i].value = ExpandedBody(l[i].value, c)
<1> DEFINE g == Loaded(f, c)
<1>1. /\ f.listener \in Seq(Transform) /\ f.targets \in Seq(Target)
      /\ f.override # None => f.override \in Overrides
  BY DEF Configurations, Target, Option
<1>2. \A i \in DOMAIN f.targets : f.targets[i] \in Target
  BY <1>1, LenProperties, ElementOfSeq
<1>3. /\ g.listener = ExpandedList(f.listener, c)
      /\ DOMAIN g.targets = DOMAIN f.targets
      /\ \A i \in DOMAIN f.targets : g.targets[i].headers = ExpandedList(f.targets[i].headers, c)
      /\ f.override = None => g.override = None
      /\ f.override # None => g.override.headers = ExpandedList(f.override.headers, c)
  BY <1>2 DEF Loaded, Target
<1>4. PICK l \in Lists(f) : list = ExpandedList(l, c)
  <2>1. CASE list = g.listener
    BY <1>3, <2>1, InLists
  <2>2. CASE \E i \in DOMAIN g.targets : list = g.targets[i].headers
    BY <1>3, <2>2, InLists
  <2>3. CASE g.override # None /\ list = g.override.headers
    BY <1>3, <2>3, InLists
  <2> QED
    BY <2>1, <2>2, <2>3, InLists
<1>5. l \in Seq(Transform)
  BY <1>1, <1>2, InLists DEF Target, Overrides
<1>6. \A i \in DOMAIN l : l[i] \in Transform
  BY <1>5, LenProperties, ElementOfSeq
<1> QED
  BY <1>4, <1>6 DEF ExpandedList, Transform

\* Each template of what is loaded is one of the file, expanded.
LEMMA TemplatesLoaded ==
  ASSUME NEW f \in Configurations, NEW c, NEW t \in Templates(Loaded(f, c))
  PROVE  \E u \in Templates(f) : t = Expand(u, c)
<1> DEFINE g == Loaded(f, c)
<1>1. f.targets \in Seq(Target) /\ (f.override # None => f.override \in Overrides)
  BY DEF Configurations, Target, Option
<1>2. \A i \in DOMAIN f.targets : f.targets[i] \in Target
  BY <1>1, LenProperties, ElementOfSeq
<1>3. /\ DOMAIN g.targets = DOMAIN f.targets
      /\ \A i \in DOMAIN f.targets : g.targets[i].body = ExpandedBody(f.targets[i].body, c)
      /\ f.override = None => g.override = None
      /\ f.override # None => g.override.body = ExpandedBody(f.override.body, c)
  BY <1>2 DEF Loaded, Target
<1>4. t # None /\ \E body : t = ExpandedBody(body, c) /\ (body = None \/ body \in Templates(f))
  <2>1. CASE \E i \in DOMAIN g.targets : t = g.targets[i].body
    BY <1>3, <2>1, InTemplates
  <2>2. CASE g.override # None /\ t = g.override.body
    BY <1>3, <2>2, InTemplates
  <2>3. CASE \E list \in Lists(g) : \E i \in DOMAIN list : t = list[i].value
    <3>1. \E l \in Lists(f) : \E i \in DOMAIN l : t = ExpandedBody(l[i].value, c)
      BY <2>3, ListsLoaded
    <3> QED
      BY <3>1, InTemplates
  <2>4. t # None
    BY InTemplates
  <2> HIDE DEF g
  <2>5. t \in Templates(g)
    BY DEF g
  <2> QED
    BY <2>1, <2>2, <2>3, <2>4, <2>5, InTemplates
<1> QED
  BY <1>4 DEF ExpandedBody

\* What loading can make of a template.
LEMMA ExpandedAtLoad ==
  ASSUME Fixed, NEW u
  PROVE  LET t == Expand(u, Root(env))
         IN  \/ t = u
             \/ u.text # None /\ t = Literal(u.text)
             \/ u.var \in DOMAIN env /\ t = env[u.var]
             \/ u.var \in DOMAIN AppMap /\ t = AppMap[u.var]
<1>1. Root(env) \in Seq(Maps) /\ DOMAIN Root(env) = {1} /\ Root(env)[1] = Over(env, AppMap)
  BY RootTyped, LenProperties DEF Fixed
<1>2. CASE u.var # None /\ u.var \in Names(Root(env))
  <2>1. PICK i \in DOMAIN Root(env) :
          u.var \in DOMAIN Root(env)[i] /\ Get(Root(env), u.var) = Root(env)[i][u.var]
    BY <1>1, <1>2, GetDefined
  <2>2. u.var \in DOMAIN Over(env, AppMap) /\ Get(Root(env), u.var) = Over(env, AppMap)[u.var]
    BY <1>1, <2>1
  <2>3. \/ u.var \in DOMAIN env /\ Get(Root(env), u.var) = env[u.var]
        \/ u.var \in DOMAIN AppMap /\ Get(Root(env), u.var) = AppMap[u.var]
    BY <2>2 DEF Over
  <2> QED
    BY <2>3 DEF Expand
<1>3. CASE u.var = None \/ u.var \notin Names(Root(env))
  BY <1>3 DEF Expand, Get
<1> QED
  BY <1>2, <1>3

LEMMA LoadTellsNothing ==
  ASSUME Fixed, NEW v \in DOMAIN env, Secret(v), NEW t \in Templates(Loaded(file, Root(env)))
  PROVE  ClearTemplate(t, v)
<1>1. file \in Configurations /\ IsMap(env)
  BY RewritingAssumption DEF Fixed
<1>2. PICK u \in Templates(file) : t = Expand(u, Root(env))
  BY <1>1, TemplatesLoaded
<1>3. ClearTemplate(u, v) /\ (u.var \in DOMAIN env => env[u.var].var # v)
  BY SecretApart
<1>5. \/ t = u
      \/ t = Literal(u.text)
      \/ u.var \in DOMAIN env /\ t = env[u.var]
      \/ u.var \in DOMAIN AppMap /\ t = AppMap[u.var]
  BY <1>2, ExpandedAtLoad
<1>6. v # None
  BY SecretApart, ContextAssumption
<1>7. CASE t = u
  BY <1>3, <1>7
<1>8. CASE t = Literal(u.text)
  BY <1>3, <1>6, <1>8 DEF ClearTemplate, Literal
<1>9. CASE u.var \in DOMAIN env /\ t = env[u.var]
  BY <1>3, <1>9, SecretApart DEF ClearTemplate
<1>10. CASE u.var \in DOMAIN AppMap /\ t = AppMap[u.var]
  <2>1. t # env[v] /\ t.var = None /\ Literal(t.text) = t
    BY <1>10, SecretApart DEF AppMap, Literal
  <2> QED
    BY <1>6, <2>1 DEF ClearTemplate
<1> QED
  BY <1>5, <1>7, <1>8, <1>9, <1>10

LEMMA RootClear ==
  ASSUME Fixed, NEW v \in DOMAIN env, Secret(v)
  PROVE  ClearContext(Root(env), v)
<1>1. DOMAIN Root(env) = {1} /\ Root(env)[1] = Over(env, AppMap)
  BY RootTyped, LenProperties DEF Fixed
<1>2. ClearMap(Over(env, AppMap), v)
  BY SecretApart DEF ClearMap, Over
<1> QED
  BY <1>1, <1>2 DEF ClearContext

\* The variable of a header holds one of its values.
LEMMA HeaderMapValues ==
  ASSUME NEW variable, NEW headers, IsHeaderMap(headers), NEW own \in HeaderMaps(variable, headers)
  PROVE  \A w \in DOMAIN own : own[w] \in HeaderValues(headers)
<1>1. ASSUME NEW n \in DOMAIN headers PROVE headers[n][Len(headers[n])] \in HeaderValues(headers)
  <2>1. headers[n] \in Seq(Template) /\ headers[n] # << >>
    BY DEF IsHeaderMap
  <2>2. Len(headers[n]) \in DOMAIN headers[n]
    BY <2>1, EmptySeq, LenProperties
  <2> QED
    BY <2>2 DEF HeaderValues
<1> QED
  BY <1>1 DEF HeaderMaps

LEMMA HeaderMapClear ==
  ASSUME NEW v, NEW variable, NEW headers, IsHeaderMap(headers), ClearHeaders(headers, v),
         NEW own \in HeaderMaps(variable, headers)
  PROVE  \A w \in DOMAIN own : own[w] # env[v]
BY HeaderMapValues DEF ClearHeaders

LEMMA OverClear ==
  ASSUME NEW v, NEW own, NEW map, ClearMap(own, v), ClearMap(map, v)
  PROVE  ClearMap(Over(own, map), v)
BY DEF ClearMap, Over

LEMMA RequestMapClear ==
  ASSUME Fixed, NEW v \in DOMAIN env, Secret(v), NEW own \in RequestMaps(req)
  PROVE  ClearMap(own, v)
<1>1. PICK o \in HeaderMaps(RequestHeaderVariable, req.headers) : own = Over(o, req.parts)
  BY DEF RequestMaps
<1>2. IsHeaderMap(req.headers) /\ ClearHeaders(req.headers, v)
  BY SecretApart, RewritingAssumption DEF Fixed, ClearMessage, Contents, ClearHeaders
<1>3. ClearMap(o, v)
  BY <1>2, HeaderMapClear DEF ClearMap
<1>4. ClearMap(req.parts, v)
  BY SecretApart DEF ClearMap
<1> QED
  BY <1>1, <1>3, <1>4, OverClear

LEMMA ResponseMapClear ==
  ASSUME Fixed, NEW v \in DOMAIN env, Secret(v), NEW r \in Responses, NEW own \in ResponseMaps(r)
  PROVE  ClearMap(own, v)
<1> DEFINE status == [CTX_RESPONSE_STATUS |-> Literal(r.status)]
<1>1. PICK o \in HeaderMaps(ResponseHeaderVariable, r.headers) : own = Over(o, status)
  BY DEF ResponseMaps
<1>2. IsHeaderMap(r.headers) /\ ClearHeaders(r.headers, v)
  BY SecretApart, RewritingAssumption DEF ClearMessage, Contents, ClearHeaders
<1>3. ClearMap(o, v)
  BY <1>2, HeaderMapClear DEF ClearMap
<1>4. ClearMap(status, v)
  BY SecretApart DEF ClearMap
<1> QED
  BY <1>1, <1>3, <1>4, OverClear

\* Targets keep their ids and hosts, which are no templates, when loaded.
LEMMA TargetKept ==
  ASSUME Fixed, AsLoaded, config # None, NEW i \in DOMAIN config.targets
  PROVE  /\ i \in DOMAIN file.targets
         /\ config.targets[i].id = file.targets[i].id
         /\ config.targets[i].host = file.targets[i].host
<1>1. file.targets \in Seq(Target)
  BY RewritingAssumption DEF Fixed, Configurations, Target
<1> DEFINE T(k) == [file.targets[k] EXCEPT !.headers = ExpandedList(@, Root(env)),
                                           !.body = ExpandedBody(@, Root(env))]
<1>2. config.targets = [k \in DOMAIN file.targets |-> T(k)]
  <2>1. config = Loaded(file, Root(env))
    BY DEF AsLoaded
  <2>2. Loaded(file, Root(env)).targets = [k \in DOMAIN file.targets |-> T(k)]
    BY DEF Loaded
  <2> QED
    BY <2>1, <2>2
<1>3. i \in DOMAIN file.targets /\ config.targets[i] = T(i)
  <2> HIDE DEF T
  <2> QED
    BY <1>2
<1>4. file.targets[i] \in Target
  BY <1>1, <1>3, LenProperties, ElementOfSeq
<1> QED
  BY <1>3, <1>4 DEF Target

LEMMA TargetMapClear ==
  ASSUME Fixed, AsLoaded, config # None, NEW v \in DOMAIN env, Secret(v),
         NEW i \in DOMAIN config.targets
  PROVE  /\ ClearMap(TargetMap(config.targets[i]), v)
         /\ Literal(config.targets[i].host) # env[v]
BY TargetKept, SecretApart DEF ClearMap, TargetMap

LEMMA WithClear ==
  ASSUME NEW v, NEW c \in Seq(Maps), ClearContext(c, v), NEW own \in Maps, ClearMap(own, v)
  PROVE  ClearContext(With(c, own), v)
<1> DEFINE d == With(c, own)
<1>1. /\ d \in Seq(Maps) /\ Len(d) = Len(c) + 1
      /\ \A i \in 1 .. Len(c) : d[i] = c[i]
      /\ d[Len(c) + 1] = own
  BY WithTyped
<1> HIDE DEF d
<1>2. Len(c) \in Nat /\ DOMAIN c = 1 .. Len(c) /\ DOMAIN d = 1 .. Len(c) + 1
  BY <1>1, LenProperties
<1>3. ASSUME NEW i \in DOMAIN d PROVE ClearMap(d[i], v)
  <2>1. CASE i \in 1 .. Len(c)
    BY <1>1, <1>2, <2>1 DEF ClearContext
  <2>2. CASE i = Len(c) + 1
    BY <1>1, <2>2
  <2> QED
    BY <1>2, <1>3, <2>1, <2>2
<1> QED
  BY <1>3 DEF ClearContext, d

LEMMA PrefixClear ==
  ASSUME NEW v, NEW c \in Seq(Maps), Len(c) >= 2, ClearContext(c, v)
  PROVE  ClearContext(SubSeq(c, 1, 2), v)
<1>1. /\ SubSeq(c, 1, 2) \in Seq(Maps) /\ Len(SubSeq(c, 1, 2)) = 2
      /\ SubSeq(c, 1, 2)[1] = c[1] /\ SubSeq(c, 1, 2)[2] = c[2]
  BY PrefixTyped
<1>2. DOMAIN SubSeq(c, 1, 2) = 1 .. 2 /\ DOMAIN c = 1 .. Len(c) /\ Len(c) \in Nat
  BY <1>1, LenProperties
<1>3. 1 \in DOMAIN c /\ 2 \in DOMAIN c
  BY <1>2
<1>4. \A i \in 1 .. 2 : i = 1 \/ i = 2
  OBVIOUS
<1> QED
  BY <1>1, <1>2, <1>3, <1>4 DEF ClearContext

LEMMA WithoutClear ==
  ASSUME NEW v, NEW headers, ClearHeaders(headers, v), NEW names
  PROVE  ClearHeaders(Without(headers, names), v)
BY DEF Without, ClearHeaders, HeaderValues

LEMMA InsertClear ==
  ASSUME NEW v, NEW headers, ClearHeaders(headers, v), NEW n, NEW value, value # env[v]
  PROVE  ClearHeaders(InsertHeader(headers, n, value), v)
<1> DEFINE h == InsertHeader(headers, n, value)
<1>1. DOMAIN h = DOMAIN headers \cup {n}
  BY DEF InsertHeader
<1>2. ASSUME NEW m \in DOMAIN h, NEW i \in DOMAIN h[m] PROVE h[m][i] # env[v]
  <2>1. CASE m = n
    <3>1. h[m] = <<value>> /\ i = 1
      BY <1>2, <2>1 DEF InsertHeader
    <3> QED
      BY <3>1
  <2>2. CASE m # n
    BY <1>1, <1>2, <2>2 DEF InsertHeader, ClearHeaders, HeaderValues
  <2> QED
    BY <2>1, <2>2
<1> QED
  BY <1>2 DEF ClearHeaders, HeaderValues

\* What a list writes is clear, if the context is.
LEMMA ApplyClear ==
  ASSUME NEW v, NEW c \in Seq(Maps), ClearContext(c, v), NEW headers, ClearHeaders(headers, v),
         NEW t, t.value = None \/ ClearTemplate(t.value, v), TransformValid(t)
  PROVE  ClearHeaders(Apply(t, headers, c), v)
<1>1. CASE t.action = "drop"
  BY <1>1, WithoutClear DEF Apply
<1>2. CASE t.action # "drop" /\ Writes(t, headers)
  <2>1. Expand(t.value, c) # env[v]
    BY <1>2, ExpandClear DEF TransformValid
  <2>2. Apply(t, headers, c) = InsertHeader(headers, t.name, Expand(t.value, c))
    BY <1>2 DEF Apply
  <2> QED
    BY <2>1, <2>2, InsertClear
<1>3. CASE t.action # "drop" /\ ~Writes(t, headers)
  BY <1>3 DEF Apply
<1> QED
  BY <1>1, <1>2, <1>3

-----------------------------------------------------------------------------
\* At the start there is but the environment and what the program defines.
LEMMA SecretsInitial == Init => SecretsKept
<1> SUFFICES ASSUME Init PROVE SecretsKept
  OBVIOUS
<1>1. Fixed /\ AsLoaded
  BY DEF Init, Fixed, AsLoaded
<1>2. ASSUME NEW v \in DOMAIN env, Secret(v) PROVE NothingTold(v)
  <2>1. env[v] # None
    BY <1>1, <1>2, SecretApart
  <2>2. ClearContext(ctx, v)
    BY <1>1, <1>2, RootClear DEF Init
  <2>3. ClearHeaders(work, v) /\ ClearHeaders(base, v) /\ ClearMessage(resp, v)
    BY <2>1 DEF Init, Empty, NoHeaders, ClearHeaders, ClearMessage, Contents, HeaderValues
  <2> QED
    BY <2>2, <2>3 DEF Init, NothingTold
<1> QED
  BY <1>1, <1>2 DEF SecretsKept

LEMMA LoadKeepsSecrets ==
  ASSUME IInv, SecretsKept, Load, NEW v \in DOMAIN env, Secret(v)
  PROVE  NothingTold(v)'
<1>1. UNCHANGED <<file, env, req, ctx, work, pos, base, sent, origin, resp, reply>>
  BY DEF Load, fixed
<1> QED
  BY <1>1 DEF SecretsKept, NothingTold, ClearContext, ClearMap, ClearHeaders, ClearMessage

LEMMA AcceptKeepsSecrets ==
  ASSUME IInv, SecretsKept, Accept, NEW v \in DOMAIN env, Secret(v)
  PROVE  NothingTold(v)'
<1> USE DEF IInv
<1>1. /\ UNCHANGED <<file, env, req, config, base, sent, origin, resp, reply>>
      /\ work' = Without(req.headers, {"host"})
  BY DEF Accept, fixed
<1>2. PICK own \in RequestMaps(req) : ctx' = With(ctx, own)
  BY DEF Accept
<1>3. NothingTold(v)
  BY DEF SecretsKept
<1>4. ClearContext(ctx', v)
  <2>1. own \in Maps /\ ClearMap(own, v)
    BY RequestMapsTyped, RequestMapClear DEF Fixed
  <2> QED
    BY <1>2, <1>3, <2>1, WithClear DEF NothingTold, Chain
<1>5. ClearHeaders(work', v)
  BY <1>1, SecretApart, WithoutClear DEF ClearMessage, Contents, ClearHeaders
<1> QED
  BY <1>1, <1>3, <1>4, <1>5 DEF NothingTold, ClearContext, ClearMap, ClearHeaders, ClearMessage

LEMMA TransformKeepsSecrets ==
  ASSUME IInv, SecretsKept, TransformHeaders, NEW v \in DOMAIN env, Secret(v)
  PROVE  NothingTold(v)'
<1> USE DEF IInv
<1>1. /\ UNCHANGED <<file, env, req, config, ctx, base, sent, resp, reply>>
      /\ Transforming /\ pos =< Len(List) /\ work' = Apply(List[pos], work, ctx)
  BY DEF TransformHeaders, fixed
<1>2. /\ List \in Lists(config) /\ DOMAIN List = 1 .. Len(List) /\ Len(List) \in Nat
      /\ \A i \in DOMAIN List : TransformValid(List[i])
  BY <1>1, ListTyped
<1>3. pos \in DOMAIN List
  BY <1>1, <1>2 DEF Progress
<1>4. config # None
  BY <1>1 DEF Transforming, Loading
<1>5. List[pos].value = None \/ ClearTemplate(List[pos].value, v)
  <2>1. List[pos].value # None => List[pos].value \in Templates(config)
    BY <1>2, <1>3, InTemplates
  <2> QED
    BY <1>4, <2>1, LoadTellsNothing DEF SecretsKept, AsLoaded
<1>6. NothingTold(v)
  BY DEF SecretsKept
<1>7. ClearHeaders(work', v)
  BY <1>1, <1>2, <1>3, <1>5, <1>6, ApplyClear DEF NothingTold, Chain
<1> QED
  BY <1>1, <1>6, <1>7 DEF NothingTold, ClearContext, ClearMap, ClearHeaders, ClearMessage

LEMMA RestKeepsSecrets ==
  ASSUME IInv, SecretsKept, NEW v \in DOMAIN env, Secret(v),
         TransformPanics \/ ListenerDone \/ UNCHANGED vars
  PROVE  NothingTold(v)'
<1>1. UNCHANGED <<file, env, req, ctx, work, sent, resp, reply>> /\ base' \in {base, work}
  BY DEF TransformPanics, ListenerDone, vars, fixed
<1> QED
  BY <1>1 DEF SecretsKept, NothingTold, ClearContext, ClearMap, ClearHeaders, ClearMessage

LEMMA BeginTargetKeepsSecrets ==
  ASSUME IInv, SecretsKept, BeginTarget, NEW v \in DOMAIN env, Secret(v)
  PROVE  NothingTold(v)'
<1> USE DEF IInv
<1> DEFINE map == TargetMap(config.targets[Len(sent) + 1])
<1>1. /\ UNCHANGED <<file, env, req, config, base, sent, origin, resp, reply>>
      /\ stage = "dispatch" /\ Len(sent) < Len(config.targets)
      /\ ctx' = With(RequestContext, map) /\ work' = base
  BY DEF BeginTarget, fixed
<1>2. config # None /\ Len(sent) + 1 \in 1 .. Len(config.targets)
      /\ DOMAIN config.targets = 1 .. Len(config.targets)
  BY <1>1, TargetsCounted DEF Loading
<1>3. NothingTold(v) /\ AsLoaded
  BY DEF SecretsKept
<1>4. map \in Maps /\ ClearMap(map, v)
  BY <1>2, <1>3, TargetTyped, TargetMapClear
<1>5. ctx \in Seq(Maps) /\ Len(ctx) >= 2
  BY <1>1 DEF Chain, Early
<1>6. RequestContext \in Seq(Maps) /\ ClearContext(RequestContext, v)
  BY <1>3, <1>5, PrefixTyped, PrefixClear DEF RequestContext, NothingTold
<1> HIDE DEF map
<1>7. ClearContext(ctx', v)
  BY <1>1, <1>4, <1>6, WithClear
<1> QED
  BY <1>1, <1>3, <1>7 DEF NothingTold, ClearContext, ClearMap, ClearHeaders, ClearMessage

LEMMA SendTargetKeepsSecrets ==
  ASSUME IInv, SecretsKept, SendTarget, NEW v \in DOMAIN env, Secret(v)
  PROVE  NothingTold(v)'
<1> USE DEF IInv
<1> DEFINE target == config.targets[Len(sent) + 1]
           headers == IF "host" \in DOMAIN work THEN work
                      ELSE InsertHeader(work, "host", Literal(target.host))
           body == IF target.body = None THEN req.body ELSE Expand(target.body, ctx)
           message == [headers |-> headers, body |-> body]
<1>1. /\ UNCHANGED <<file, env, req, config, ctx, work, base, resp, reply>>
      /\ stage = "target" /\ sent' = Append(sent, message)
  BY DEF SendTarget, fixed
<1>2. config # None /\ Len(sent) \in Nat /\ Len(sent) + 1 \in 1 .. Len(config.targets)
      /\ DOMAIN config.targets = 1 .. Len(config.targets)
  BY <1>1, TargetsCounted DEF Loading, Progress
<1>3. NothingTold(v) /\ AsLoaded
  BY DEF SecretsKept
<1>4. Literal(target.host) # env[v]
  BY <1>2, <1>3, TargetMapClear
<1>5. ClearHeaders(headers, v)
  BY <1>3, <1>4, InsertClear DEF NothingTold
<1>6. body # env[v]
  <2>1. CASE target.body = None
    BY <2>1, SecretApart DEF ClearMessage, Contents
  <2>2. CASE target.body # None
    <3>1. target.body \in Templates(config)
      BY <1>2, <2>2, InTemplates
    <3>2. ClearTemplate(target.body, v)
      BY <1>2, <1>3, <3>1, LoadTellsNothing DEF AsLoaded
    <3> QED
      BY <1>3, <2>2, <3>2, ExpandClear DEF NothingTold, Chain
  <2> QED
    BY <2>1, <2>2
<1>7. ClearMessage(message, v)
  BY <1>5, <1>6 DEF ClearMessage, Contents, ClearHeaders
<1> HIDE DEF message
<1>8. \A i \in DOMAIN sent' : ClearMessage(sent'[i], v)
  <2>1. /\ DOMAIN sent' = 1 .. Len(sent) + 1 /\ DOMAIN sent = 1 .. Len(sent)
        /\ \A i \in 1 .. Len(sent) : sent'[i] = sent[i]
        /\ sent'[Len(sent) + 1] = message
    BY <1>1, AppendIsSequence, SequenceDomain DEF Progress
  <2>2. \A i \in DOMAIN sent' : i \in DOMAIN sent \/ i = Len(sent) + 1
    BY <1>2, <2>1
  <2> QED
    BY <1>3, <1>7, <2>1, <2>2 DEF NothingTold
<1> QED
  BY <1>1, <1>3, <1>8 DEF NothingTold, ClearContext, ClearMap, ClearHeaders, ClearMessage

LEMMA ReplyKeepsSecrets ==
  ASSUME SecretsKept, NEW v \in DOMAIN env, Secret(v), NEW i, NEW r, BeginReply(i, r),
         ClearMessage(r, v), ClearContext(ctx', v)
  PROVE  NothingTold(v)'
<1>1. UNCHANGED <<file, env, req, config, base, sent>>
      /\ resp' = r /\ work' = r.headers /\ reply' \in {r, reply}
  BY DEF BeginReply, fixed
<1>2. NothingTold(v) /\ ClearHeaders(r.headers, v)
  BY DEF SecretsKept, ClearMessage, Contents, ClearHeaders
<1> QED
  BY <1>1, <1>2 DEF NothingTold, ClearContext, ClearMap, ClearHeaders, ClearMessage

LEMMA ResponseKeepsSecrets ==
  ASSUME IInv, SecretsKept, Response, NEW v \in DOMAIN env, Secret(v)
  PROVE  NothingTold(v)'
<1> USE DEF IInv
<1>1. NothingTold(v) /\ AsLoaded /\ env[v] # None
  BY SecretApart DEF SecretsKept
<1>2. ClearMessage(Empty, v)
  BY <1>1 DEF Empty, NoHeaders, ClearMessage, Contents, HeaderValues
<1>3. ASSUME stage = "dispatch"
      PROVE  /\ config # None /\ DOMAIN config.targets = 1 .. Len(config.targets)
             /\ RequestContext \in Seq(Maps) /\ ClearContext(RequestContext, v)
  <2>1. config # None /\ ctx \in Seq(Maps) /\ Len(ctx) >= 2
    BY <1>3 DEF Loading, Chain, Early
  <2> QED
    BY <1>1, <2>1, TargetsCounted, PrefixTyped, PrefixClear DEF RequestContext, NothingTold
<1>4. ASSUME stage = "dispatch", NEW i \in DOMAIN config.targets
      PROVE  LET c == With(RequestContext, TargetMap(config.targets[i]))
             IN  c \in Seq(Maps) /\ ClearContext(c, v)
  <2>1. TargetMap(config.targets[i]) \in Maps /\ ClearMap(TargetMap(config.targets[i]), v)
    BY <1>1, <1>3, <1>4, TargetTyped, TargetMapClear
  <2> QED
    BY <1>3, <1>4, <2>1, WithTyped, WithClear
<1>5. CASE MakeUp
  BY <1>2, <1>3, <1>5, ReplyKeepsSecrets DEF MakeUp, BeginReply
<1>6. ASSUME stage = "dispatch", NEW i \in DOMAIN config.targets, ReplyForDropped(i)
      PROVE  NothingTold(v)'
  BY <1>2, <1>4, <1>6, ReplyKeepsSecrets DEF ReplyForDropped
<1>7. ASSUME stage = "dispatch", NEW i \in DOMAIN config.targets, NEW r \in Responses, Relay(i, r)
      PROVE  NothingTold(v)'
  <2>1. PICK own \in ResponseMaps(r) :
          ctx' = With(With(RequestContext, TargetMap(config.targets[i])), own)
    BY <1>7 DEF Relay
  <2>2. own \in Maps /\ ClearMap(own, v)
    BY ResponseMapsTyped, ResponseMapClear
  <2>3. ClearContext(ctx', v)
    BY <1>4, <1>7, <2>1, <2>2, WithClear
  <2>4. ClearMessage([headers |-> r.headers, body |-> r.body], v)
    BY SecretApart DEF ClearMessage, Contents
  <2> QED
    BY <1>7, <2>3, <2>4, ReplyKeepsSecrets DEF Relay
<1>8. CASE Override
  <2>1. /\ UNCHANGED <<file, env, req, config, ctx, work, base, sent, resp>> /\ stage = "override"
        /\ reply' = [headers |-> work,
                     body |-> IF config.override.body = None THEN resp.body
                              ELSE Expand(config.override.body, ctx)]
    BY <1>8 DEF Override, fixed
  <2>2. reply'.body # env[v]
    <3>1. CASE config.override.body = None
      BY <1>1, <2>1, <3>1 DEF NothingTold, ClearMessage, Contents
    <3>2. CASE config.override.body # None
      <4>1. config # None /\ config.override # None
        BY <2>1 DEF Loading, Progress
      <4>2. config.override.body \in Templates(config)
        BY <3>2, <4>1, InTemplates
      <4>3. ClearTemplate(config.override.body, v)
        BY <1>1, <4>1, <4>2, LoadTellsNothing DEF AsLoaded
      <4> QED
        BY <1>1, <2>1, <3>2, <4>3, ExpandClear DEF NothingTold, Chain
    <3> QED
      BY <3>1, <3>2
  <2>3. ClearMessage(reply', v)
    BY <1>1, <2>1, <2>2 DEF NothingTold, ClearMessage, Contents, ClearHeaders
  <2> QED
    BY <1>1, <2>1, <2>3 DEF NothingTold, ClearContext, ClearMap, ClearHeaders, ClearMessage
<1> QED
  BY <1>5, <1>6, <1>7, <1>8 DEF Response

LEMMA SecretsPreserved == IInv /\ SecretsKept /\ [Next]_vars => SecretsKept'
<1> SUFFICES ASSUME IInv, SecretsKept, [Next]_vars PROVE SecretsKept'
  OBVIOUS
<1>1. UNCHANGED <<file, env, req>>
  BY DEF Next, vars, fixed, Load, TransformHeaders, TransformPanics, Request, Accept, ListenerDone,
         BeginTarget, SendTarget, Response, MakeUp, ReplyForDropped, Relay, BeginReply, Override,
         Terminated
<1>2. AsLoaded'
  <2>1. CASE Load
    <3>1. config = None /\ ctx = Root(env)
      BY <2>1 DEF Load, IInv, Loading, Chain, Early
    <3> QED
      BY <1>1, <2>1, <3>1 DEF Load, AsLoaded, Root, Over
  <2>2. CASE ~Load
    <3>1. config' = config
      BY <2>2 DEF Next, vars, fixed, TransformHeaders, TransformPanics, Request, Accept, ListenerDone,
             BeginTarget, SendTarget, Response, MakeUp, ReplyForDropped, Relay, BeginReply, Override,
             Terminated
    <3> QED
      BY <1>1, <3>1 DEF SecretsKept, AsLoaded, Root, Over
  <2> QED
    BY <2>1, <2>2
<1>3. ASSUME NEW v \in DOMAIN env, Secret(v) PROVE NothingTold(v)'
  BY <1>3, LoadKeepsSecrets, TransformKeepsSecrets, RestKeepsSecrets, AcceptKeepsSecrets,
     BeginTargetKeepsSecrets, SendTargetKeepsSecrets, ResponseKeepsSecrets
     DEF Next, Request, Terminated
<1>4. \A v : Secret(v)' => Secret(v)
  BY <1>1 DEF Secret, Referred, ReferredIn, Elsewhere
<1> QED
  BY <1>1, <1>2, <1>3, <1>4 DEF SecretsKept

(* OnlyReferredIsSent: what a client or a target sends is not expanded, so  *)
(* nothing that they send, and no number of expansions, gets a value out of *)
(* the environment that the file does not refer to.                         *)
THEOREM SecretsStay == Spec => []OnlyReferredIsSent
<1>1. IInv /\ SecretsKept => OnlyReferredIsSent
  BY DEF SecretsKept, NothingTold, Secret, ClearMessage, OnlyReferredIsSent
<1> QED
  BY <1>1, InvInitial, InvPreserved, SecretsInitial, SecretsPreserved, PTL DEF Spec

-----------------------------------------------------------------------------
(* TransformPanicsHaveCauses.  As long as all that a transformation can be  *)
(* given to write is harmless, so are the variables of the context that a   *)
(* list refers to; others may hold anything, since no list looks at them.   *)

Harmless == \A t \in Writable : t.text \notin BadTexts

HarmlessMap(m) == \A w \in ReferredIn(ListTemplates(file)) \cap DOMAIN m : m[w].text \notin BadTexts
HarmlessContext(c) == \A i \in DOMAIN c : HarmlessMap(c[i])

CausesKept ==
  /\ stage \in Stages \ {"override"} => resp = Empty
  /\ Harmless => HarmlessContext(ctx)
  /\ TransformPanicsHaveCauses

\* The sources of what can be written, one by one.
LEMMA WritableParts ==
  ASSUME Harmless
  PROVE  /\ \A t \in ListTemplates(file) : t.text \notin BadTexts
         /\ HarmlessMap(env) /\ HarmlessMap(AppMap) /\ HarmlessMap(req.parts)
         /\ \A i \in DOMAIN file.targets : HarmlessMap(TargetMap(file.targets[i]))
         /\ \A r \in Responses : HarmlessMap([CTX_RESPONSE_STATUS |-> Literal(r.status)])
         /\ \A t \in HeaderValues(req.headers) \cup HeaderValues(resp.headers) : t.text \notin BadTexts
<1> DEFINE maps == {env, AppMap, req.parts} \cup {TargetMap(file.targets[i]) : i \in DOMAIN file.targets}
                     \cup {[CTX_RESPONSE_STATUS |-> Literal(r.status)] : r \in Responses}
           referred == ReferredIn(ListTemplates(file))
<1>1. Writable = ListTemplates(file) \cup (UNION {{m[w] : w \in referred \cap DOMAIN m} : m \in maps})
                   \cup HeaderValues(req.headers) \cup HeaderValues(resp.headers)
  BY DEF Writable
<1>2. ASSUME NEW m \in maps PROVE HarmlessMap(m)
  <2> HIDE DEF maps
  <2>1. \A w \in referred \cap DOMAIN m : m[w] \in Writable
    BY <1>1
  <2> QED
    BY <2>1 DEF Harmless, HarmlessMap
<1>3. \A t \in ListTemplates(file) \cup HeaderValues(req.headers) \cup HeaderValues(resp.headers) :
        t.text \notin BadTexts
  BY <1>1 DEF Harmless
<1> QED
  BY <1>2, <1>3

LEMMA LoadedHarmless ==
  ASSUME Fixed, Harmless, NEW u \in ListTemplates(file)
  PROVE  LET t == Expand(u, Root(env))
         IN  /\ t.text \notin BadTexts
             /\ t.var = None \/ t.var \in ReferredIn(ListTemplates(file))
<1> DEFINE t == Expand(u, Root(env))
<1>1. /\ u.text \notin BadTexts /\ u.var \in ReferredIn(ListTemplates(file))
      /\ u.var \in DOMAIN env => env[u.var].var \in ReferredIn(ListTemplates(file))
  BY WritableParts DEF ReferredIn
<1>2. HarmlessMap(env) /\ HarmlessMap(AppMap)
  BY WritableParts
<1>3. CASE t = u
  BY <1>1, <1>3
<1>4. CASE t = Literal(u.text)
  BY <1>1, <1>4 DEF Literal
<1>5. CASE u.var \in DOMAIN env /\ t = env[u.var]
  BY <1>1, <1>2, <1>5 DEF HarmlessMap
<1>6. CASE u.var \in DOMAIN AppMap /\ t = AppMap[u.var]
  <2>1. t.var = None
    BY <1>6 DEF AppMap, Literal
  <2> QED
    BY <1>1, <1>2, <1>6, <2>1 DEF HarmlessMap
<1> QED
  BY <1>3, <1>4, <1>5, <1>6, ExpandedAtLoad

LEMMA ExpandHarmless ==
  ASSUME NEW c \in Seq(Maps), HarmlessContext(c), NEW t, t.text \notin BadTexts,
         t.var = None \/ t.var \in ReferredIn(ListTemplates(file))
  PROVE  Expand(t, c).text \notin BadTexts
<1>1. CASE t.var # None /\ t.var \in Names(c)
  <2>1. PICK i \in DOMAIN c : t.var \in DOMAIN c[i] /\ Get(c, t.var) = c[i][t.var]
    BY <1>1, GetDefined
  <2>2. Get(c, t.var).text \notin BadTexts
    BY <1>1, <2>1 DEF HarmlessContext, HarmlessMap
  <2> QED
    BY <1>1, <2>2 DEF Expand, Literal
<1>2. CASE t.var = None \/ t.var \notin Names(c)
  BY <1>2 DEF Expand, Get, Literal
<1> QED
  BY <1>1, <1>2

LEMMA OverHarmless ==
  ASSUME NEW own, NEW map, HarmlessMap(own), HarmlessMap(map) PROVE HarmlessMap(Over(own, map))
BY DEF HarmlessMap, Over

LEMMA WithHarmless ==
  ASSUME NEW c \in Seq(Maps), HarmlessContext(c), NEW own \in Maps, HarmlessMap(own)
  PROVE  HarmlessContext(With(c, own))
<1>1. /\ With(c, own) \in Seq(Maps) /\ Len(With(c, own)) = Len(c) + 1
      /\ \A i \in 1 .. Len(c) : With(c, own)[i] = c[i]
      /\ With(c, own)[Len(c) + 1] = own
  BY WithTyped
<1>2. /\ Len(c) \in Nat /\ DOMAIN c = 1 .. Len(c)
      /\ \A i \in DOMAIN With(c, own) : i \in 1 .. Len(c) \/ i = Len(c) + 1
  BY <1>1, LenProperties
<1> QED
  BY <1>1, <1>2 DEF HarmlessContext

LEMMA PrefixHarmless ==
  ASSUME NEW c \in Seq(Maps), Len(c) >= 2, HarmlessContext(c)
  PROVE  HarmlessContext(SubSeq(c, 1, 2))
<1>1. /\ SubSeq(c, 1, 2) \in Seq(Maps) /\ Len(SubSeq(c, 1, 2)) = 2
      /\ SubSeq(c, 1, 2)[1] = c[1] /\ SubSeq(c, 1, 2)[2] = c[2]
  BY PrefixTyped
<1>2. 1 \in DOMAIN c /\ 2 \in DOMAIN c /\ \A i \in DOMAIN SubSeq(c, 1, 2) : i = 1 \/ i = 2
  BY <1>1, LenProperties
<1> QED
  BY <1>1, <1>2 DEF HarmlessContext

LEMMA RequestMapHarmless ==
  ASSUME Fixed, Harmless, NEW own \in RequestMaps(req) PROVE HarmlessMap(own)
<1>1. PICK o \in HeaderMaps(RequestHeaderVariable, req.headers) : own = Over(o, req.parts)
  BY DEF RequestMaps
<1>2. IsHeaderMap(req.headers)
  BY RewritingAssumption DEF Fixed
<1>3. HarmlessMap(o) /\ HarmlessMap(req.parts)
  BY <1>2, HeaderMapValues, WritableParts DEF HarmlessMap
<1> QED
  BY <1>1, <1>3, OverHarmless

\* resp.headers are those of the response that has been chosen.
LEMMA ResponseMapHarmless ==
  ASSUME NEW r \in Responses, NEW own \in ResponseMaps(r), HarmlessMap([CTX_RESPONSE_STATUS |-> Literal(r.status)]),
         \A t \in HeaderValues(r.headers) : t.text \notin BadTexts
  PROVE  HarmlessMap(own)
<1> DEFINE status == [CTX_RESPONSE_STATUS |-> Literal(r.status)]
<1>1. PICK o \in HeaderMaps(ResponseHeaderVariable, r.headers) : own = Over(o, status)
  BY DEF ResponseMaps
<1>2. HarmlessMap(o)
  BY HeaderMapValues, RewritingAssumption DEF HarmlessMap
<1> QED
  BY <1>1, <1>2, OverHarmless

\* A transformation that panics does so over what the file says.
LEMMA PanicHasCause ==
  ASSUME IInv, AsLoaded, CausesKept, TransformPanics
  PROVE  TransformPanicsHaveCauses'
<1> USE DEF IInv
<1>1. /\ UNCHANGED <<file, env, req, resp>>
      /\ Transforming /\ pos =< Len(List) /\ Panics(List[pos], work, ctx)
  BY DEF TransformPanics, fixed
<1>2. /\ List \in Lists(config) /\ pos \in DOMAIN List /\ TransformValid(List[pos])
      /\ config = Loaded(file, Root(env)) /\ file \in Configurations
  BY <1>1, ListTyped, RewritingAssumption DEF Progress, Fixed, Transforming, Loading, AsLoaded
<1>3. PICK l \in Lists(file) :
        /\ pos \in DOMAIN l /\ l[pos] \in Transform
        /\ List[pos].action = l[pos].action /\ List[pos].name = l[pos].name
        /\ List[pos].value = ExpandedBody(l[pos].value, Root(env))
  BY <1>2, ListsLoaded
<1>4. Writes(List[pos], work)
      /\ (List[pos].name \in BadNames \/ Expand(List[pos].value, ctx).text \in BadTexts)
  BY <1>1 DEF Panics
<1>5. CASE List[pos].name \in BadNames
  <2>1. List[pos].name \notin DOMAIN work
    BY <1>5, HeadersAssumption DEF Messages, IsHeaderMap
  <2>2. l[pos].action = "add" /\ l[pos].name \in BadNames
    BY <1>3, <1>4, <1>5, <2>1 DEF Writes
  <2> QED
    BY <1>1, <1>3, <2>2 DEF TransformPanicsHaveCauses
<1>6. CASE Expand(List[pos].value, ctx).text \in BadTexts
  <2> SUFFICES ASSUME Harmless PROVE FALSE
    BY <1>1 DEF TransformPanicsHaveCauses, Harmless, Writable, ReferredIn
  <2>1. List[pos].value # None /\ l[pos].value # None
    BY <1>2, <1>3, <1>4 DEF TransformValid, Writes, ExpandedBody
  <2>2. l[pos].value \in ListTemplates(file) /\ List[pos].value = Expand(l[pos].value, Root(env))
    BY <1>3, <2>1 DEF ListTemplates, ExpandedBody
  <2>3. /\ List[pos].value.text \notin BadTexts
        /\ List[pos].value.var = None \/ List[pos].value.var \in ReferredIn(ListTemplates(file))
    BY <2>2, LoadedHarmless
  <2>4. ctx \in Seq(Maps) /\ HarmlessContext(ctx)
    BY DEF CausesKept, Chain
  <2> QED
    BY <1>6, <2>3, <2>4, ExpandHarmless
<1> QED
  BY <1>4, <1>5, <1>6

\* The response that is chosen adds to what can be written.
LEMMA ReplyKeepsCauses ==
  ASSUME CausesKept, NEW i, NEW r, BeginReply(i, r),
         (Harmless /\ \A t \in HeaderValues(r.headers) : t.text \notin BadTexts) => HarmlessContext(ctx')
  PROVE  CausesKept'
<1>1. /\ UNCHANGED <<file, env, req>> /\ stage = "dispatch" /\ resp' = r
      /\ stage' \in {"replied", "override"}
  BY DEF BeginReply, fixed
<1>2. HeaderValues(resp.headers) = {}
  BY <1>1 DEF CausesKept, Stages, Empty, NoHeaders, HeaderValues
<1>3. Harmless' => Harmless /\ \A t \in HeaderValues(r.headers) : t.text \notin BadTexts
  BY <1>1, <1>2 DEF Harmless, Writable, ReferredIn
<1>4. Harmless' => HarmlessContext(ctx)'
  BY <1>1, <1>3 DEF HarmlessContext, HarmlessMap, ReferredIn
<1> QED
  BY <1>1, <1>4 DEF CausesKept, TransformPanicsHaveCauses, Stages

LEMMA CausesInitial == Init => CausesKept
<1> SUFFICES ASSUME Init PROVE CausesKept
  OBVIOUS
<1>1. Fixed
  BY DEF Init, Fixed
<1>2. DOMAIN Root(env) = {1} /\ Root(env)[1] = Over(env, AppMap)
  BY <1>1, RootTyped, LenProperties DEF Fixed
<1>3. Harmless => HarmlessContext(ctx)
  BY <1>2, WritableParts, OverHarmless DEF Init, HarmlessContext
<1> QED
  BY <1>3 DEF Init, CausesKept, TransformPanicsHaveCauses

LEMMA CausesPreserved == IInv /\ SecretsKept /\ CausesKept /\ [Next]_vars => CausesKept'
<1> SUFFICES ASSUME IInv, AsLoaded, CausesKept, [Next]_vars PROVE CausesKept'
  BY DEF SecretsKept
<1> USE DEF IInv
<1>1. ASSUME UNCHANGED <<file, env, req, resp, ctx>>, stage' # "panicked" \/ stage' = stage,
             stage' \in Stages \ {"override"} => stage \in Stages \ {"override"}
      PROVE  CausesKept'
  BY <1>1 DEF CausesKept, TransformPanicsHaveCauses, Harmless, Writable, ReferredIn, HarmlessContext, HarmlessMap
<1>2. ASSUME UNCHANGED <<file, env, req, resp>>, stage \in {"accept", "dispatch"},
             stage' \in {"listener", "target"}, Harmless => HarmlessContext(ctx')
      PROVE  CausesKept'
  BY <1>2 DEF CausesKept, TransformPanicsHaveCauses, Harmless, Writable, ReferredIn, HarmlessContext, HarmlessMap, Stages
<1>3. CASE Load \/ TransformHeaders \/ ListenerDone \/ SendTarget \/ Override \/ UNCHANGED vars
  BY <1>1, <1>3 DEF Load, TransformHeaders, ListenerDone, SendTarget, Override, Transforming, Stages, vars, fixed
<1>4. CASE TransformPanics
  <2>1. UNCHANGED <<file, env, req, resp, ctx>> /\ stage' = "panicked"
    BY <1>4 DEF TransformPanics, fixed
  <2> QED
    BY <1>4, <2>1, PanicHasCause DEF CausesKept, Harmless, Writable, ReferredIn, HarmlessContext, HarmlessMap, Stages
<1>5. CASE Accept
  <2>1. /\ UNCHANGED <<file, env, req, resp>> /\ stage = "accept" /\ stage' = "listener"
        /\ \E own \in RequestMaps(req) : ctx' = With(ctx, own)
    BY <1>5 DEF Accept, fixed
  <2>2. PICK own \in RequestMaps(req) : ctx' = With(ctx, own)
    BY <2>1
  <2>3. Harmless => HarmlessContext(ctx')
    BY <2>2, RequestMapsTyped, RequestMapHarmless, WithHarmless DEF CausesKept, Fixed, Chain
  <2> QED
    BY <1>2, <2>1, <2>3
<1>6. ASSUME stage = "dispatch"
      PROVE  /\ config # None /\ DOMAIN config.targets = 1 .. Len(config.targets)
             /\ RequestContext \in Seq(Maps) /\ (Harmless => HarmlessContext(RequestContext))
  <2>1. config # None /\ ctx \in Seq(Maps) /\ Len(ctx) >= 2
    BY <1>6 DEF Loading, Chain, Early
  <2> QED
    BY <2>1, TargetsCounted, PrefixTyped, PrefixHarmless DEF RequestContext, CausesKept
<1>7. ASSUME stage = "dispatch", NEW i \in DOMAIN config.targets
      PROVE  LET c == With(RequestContext, TargetMap(config.targets[i]))
             IN  c \in Seq(Maps) /\ (Harmless => HarmlessContext(c))
  <2>1. TargetMap(config.targets[i]) \in Maps
    BY <1>6, <1>7, TargetTyped
  <2>2. \E k \in DOMAIN file.targets : TargetMap(config.targets[i]) = TargetMap(file.targets[k])
    BY <1>6, <1>7, TargetKept DEF TargetMap
  <2> QED
    BY <1>6, <1>7, <2>1, <2>2, WithTyped, WithHarmless, WritableParts
<1>8. CASE BeginTarget
  <2>1. /\ UNCHANGED <<file, env, req, resp>> /\ stage = "dispatch" /\ stage' = "target"
        /\ Len(sent) < Len(config.targets)
        /\ ctx' = With(RequestContext, TargetMap(config.targets[Len(sent) + 1]))
    BY <1>8 DEF BeginTarget, fixed
  <2>2. Len(sent) + 1 \in DOMAIN config.targets
    BY <1>6, <2>1, TargetsCounted
  <2> QED
    BY <1>2, <1>7, <2>1, <2>2
<1>9. CASE MakeUp
  BY <1>6, <1>9, ReplyKeepsCauses DEF MakeUp, BeginReply
<1>10. ASSUME stage = "dispatch", NEW i \in DOMAIN config.targets, ReplyForDropped(i)
       PROVE  CausesKept'
  BY <1>7, <1>10, ReplyKeepsCauses DEF ReplyForDropped
<1>11. ASSUME stage = "dispatch", NEW i \in DOMAIN config.targets, NEW r \in Responses, Relay(i, r)
       PROVE  CausesKept'
  <2> DEFINE message == [headers |-> r.headers, body |-> r.body]
  <2>1. PICK own \in ResponseMaps(r) :
          ctx' = With(With(RequestContext, TargetMap(config.targets[i])), own)
    BY <1>11 DEF Relay
  <2>2. own \in Maps
    BY ResponseMapsTyped
  <2>3. ASSUME Harmless, \A t \in HeaderValues(r.headers) : t.text \notin BadTexts
        PROVE  HarmlessContext(ctx')
    <3>1. HarmlessMap(own)
      BY <2>3, WritableParts, ResponseMapHarmless
    <3> QED
      BY <1>7, <1>11, <2>1, <2>2, <2>3, <3>1, WithHarmless
  <2>4. message.headers = r.headers /\ BeginReply(i, message)
    BY <1>11 DEF Relay
  <2> HIDE DEF message
  <2> QED
    BY <2>3, <2>4, ReplyKeepsCauses
<1> QED
  BY <1>3, <1>4, <1>5, <1>8, <1>9, <1>10, <1>11 DEF Next, Request, Response, Terminated

(* TransformPanicsHaveCauses: whatever is sent, transformed and expanded,   *)
(* in lists of any length, the unwraps of a transformation are reached only *)
(* with a name or a text that the configuration let in.                     *)
THEOREM TransformPanicsAreCaused == Spec => []TransformPanicsHaveCauses
<1>1. CausesKept => TransformPanicsHaveCauses
  BY DEF CausesKept
<1> QED
  BY <1>1, InvInitial, InvPreserved, SecretsInitial, SecretsPreserved, CausesInitial, CausesPreserved,
     PTL DEF Spec
=============================================================================
