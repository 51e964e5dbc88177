------------------------------- MODULE Context -------------------------------
(***************************************************************************)
(* Variables and templates: the chain of maps of context.rs, and what      *)
(* shellexpand makes of a template with it.                                *)
(*                                                                         *)
(* A map is a function from the names it defines.  A context is the        *)
(* sequence of the maps of its chain, the root first and its own last.     *)
(***************************************************************************)
EXTENDS Naturals, Sequences

CONSTANTS
  Variables,              \* the names of variables that occur
  Texts,                  \* text without references, never empty
  HeaderNames,            \* the names of headers that occur
  RequestHeaderVariable,  \* CTX_REQUEST_HEADERS_<NAME>: upper case, - as _
  ResponseHeaderVariable, \* CTX_RESPONSE_HEADERS_<NAME>
  None                    \* no variable, no text, no value

Option(S) == {None} \cup S

AppVariables == {"CTX_APP_NAME", "CTX_APP_VERSION"}
TargetVariables == {"CTX_TARGET_ID", "CTX_TARGET_HOST"}

\* Every request defines these; host and query only if its URI has them.
RequestVariables == {"CTX_LISTENER_NAME", "CTX_REQUEST_SOURCE_IP",
                     "CTX_REQUEST_METHOD", "CTX_REQUEST_PATH"}
OptionalVariables == {"CTX_REQUEST_HOST", "CTX_REQUEST_QUERY"}

(* A template, cut down to one reference or none: a text, ${var} or         *)
(* ${var:-text}.  Values are of this form too, since a text that a client   *)
(* or the environment provides may look like a reference.                   *)
Template == [var : Option(Variables), text : Option(Texts)] \ {[var |-> None, text |-> None]}

Literal(text) == [var |-> None, text |-> text]
Reference(v) == [var |-> v, text |-> None]

ASSUME ContextAssumption ==
  /\ AppVariables \cup TargetVariables \cup RequestVariables \cup OptionalVariables
       \cup {"CTX_RESPONSE_STATUS"} \subseteq Variables
  /\ RequestHeaderVariable \in [HeaderNames -> Variables]
  /\ ResponseHeaderVariable \in [HeaderNames -> Variables \ TargetVariables]
  /\ None \notin Variables /\ None \notin Texts /\ None \notin Template
  /\ {"http-dragonfly", "version"} \subseteq Texts

IsMap(m) == DOMAIN m \subseteq Variables /\ \A v \in DOMAIN m : m[v] \in Template

\* A map extended by another, whose definitions come first.
Over(own, map) ==
  [v \in DOMAIN own \cup DOMAIN map |-> IF v \in DOMAIN own THEN own[v] ELSE map[v]]

-----------------------------------------------------------------------------
Names(ctx) == UNION {DOMAIN ctx[i] : i \in DOMAIN ctx}

\* The own map is asked first, then the parent.
Get(ctx, v) ==
  IF v \notin Names(ctx) THEN None
  ELSE LET nearest == CHOOSE i \in DOMAIN ctx :
             v \in DOMAIN ctx[i] /\ \A j \in i + 1 .. Len(ctx) : v \notin DOMAIN ctx[j]
       IN  ctx[nearest][v]

\* Mutant: the map made for filters keeps the value that `get` finds.
CollectedNearest(ctx) == [v \in Names(ctx) |-> Get(ctx, v)]

(* `iter` yields the own variables, then the parent's, so that a HashMap    *)
(* collected from it keeps the value nearest to the root.                   *)
Collected(ctx) ==
  [v \in Names(ctx) |->
     LET farthest == CHOOSE i \in DOMAIN ctx :
           v \in DOMAIN ctx[i] /\ \A j \in 1 .. i - 1 : v \notin DOMAIN ctx[j]
     IN  ctx[farthest][v]]

With(ctx, own) == Append(ctx, own)

-----------------------------------------------------------------------------
\* The environment is filtered by the mask; it may define any name.
AppMap == [CTX_APP_NAME |-> Literal("http-dragonfly"), CTX_APP_VERSION |-> Literal("version")]

Root(environment) == <<Over(environment, AppMap)>>

(* One variable per header: the last value of the name.  Of names that      *)
(* differ in - and _ only, whichever comes last in the map.                 *)
HeaderMaps(variable, headers) ==
  {own \in [{variable[n] : n \in DOMAIN headers} ->
              {headers[n][Len(headers[n])] : n \in DOMAIN headers}] :
     \A v \in DOMAIN own : \E n \in DOMAIN headers :
       v = variable[n] /\ own[v] = headers[n][Len(headers[n])]}

\* with_request
RequestMaps(req) == {Over(own, req.parts) : own \in HeaderMaps(RequestHeaderVariable, req.headers)}

\* with_target
TargetMap(target) ==
  [CTX_TARGET_ID |-> Literal(target.id), CTX_TARGET_HOST |-> Literal(target.host)]

\* with_response
ResponseMaps(resp) ==
  {Over(own, [CTX_RESPONSE_STATUS |-> Literal(resp.status)]) :
     own \in HeaderMaps(ResponseHeaderVariable, resp.headers)}

-----------------------------------------------------------------------------
\* Mutant: what a variable stands for is expanded once more.
ExpandTwice(t, ctx) ==
  LET value == IF t.var = None THEN None ELSE Get(ctx, t.var)
      again == IF value = None \/ value.var = None THEN None ELSE Get(ctx, value.var)
  IN  IF again # None THEN again
      ELSE IF value # None THEN value
      ELSE IF t.text # None THEN Literal(t.text) ELSE t

(* env_with_context_no_errors: a reference that nothing defines becomes its *)
(* default, or stays as it is.  The result is not looked at again.          *)
Expand(t, ctx) ==
  LET value == IF t.var = None THEN None ELSE Get(ctx, t.var)
  IN  IF value # None THEN value
      ELSE IF t.text # None THEN Literal(t.text) ELSE t
=============================================================================
