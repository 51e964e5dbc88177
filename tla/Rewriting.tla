------------------------------ MODULE Rewriting ------------------------------
(***************************************************************************)
(* What becomes of the text of one exchange: the configuration file, with  *)
(* its templates expanded as a whole at startup (config.rs), the headers   *)
(* and bodies sent to the targets (handler.rs), and the override of the    *)
(* response (config/response.rs).                                          *)
(*                                                                         *)
(* The targets are the selected ones, each of which is sent its request;   *)
(* which ones these are, and whose response is relayed, is RequestHandler. *)
(***************************************************************************)
EXTENDS Headers

CONSTANTS
  Files,        \* configurations as written
  Environments, \* what the mask lets through of the environment
  Requests,     \* requests of clients
  Responses     \* responses: of targets, or made up for a failed one

\* A body is a text, which may look like a reference; None is the empty one.
Bodies == Option(Template)

Overrides == [headers : Seq(Transform), body : Bodies]

Configurations ==
  [listener : Seq(Transform),
   targets : Seq([id : Texts, host : Texts, headers : Seq(Transform), body : Bodies]),
   override : Option(Overrides)]

ASSUME RewritingAssumption ==
  /\ \A file \in Files : file \in Configurations
  /\ \A env \in Environments : IsMap(env)
  /\ \A req \in Requests : IsMap(req.parts) /\ IsHeaderMap(req.headers) /\ req.body \in Bodies
  /\ \A resp \in Responses :
       resp.status \in Texts /\ IsHeaderMap(resp.headers) /\ resp.body \in Bodies
  /\ None \notin Configurations /\ None \notin Overrides

VARIABLES
  file,   \* the configuration as written, fixed
  env,    \* the environment, fixed
  req,    \* the client's request, fixed
  config, \* the configuration as loaded
  stage,  \* what is going on
  ctx,    \* the context templates are expanded with
  work,   \* the header map being transformed
  pos,    \* the next transformation of the list
  base,   \* the listener's headers, which each target's are cloned from
  sent,   \* what the targets so far were sent
  origin, \* the target the response belongs to, 0 if it is none's
  resp,   \* the response before the override
  reply   \* the response to the client

fixed == <<file, env, req>>
vars == <<fixed, config, stage, ctx, work, pos, base, sent, origin, resp, reply>>

Stages == {"start", "accept", "listener", "dispatch", "target", "override"}
Ends == {"refused", "panicked", "replied"}

Empty == [headers |-> NoHeaders, body |-> None]

Init ==
  /\ file \in Files /\ env \in Environments /\ req \in Requests
  /\ config = None /\ stage = "start" /\ ctx = Root(env)
  /\ work = NoHeaders /\ pos = 1 /\ base = NoHeaders
  /\ sent = << >> /\ origin = 0 /\ resp = Empty /\ reply = None

-----------------------------------------------------------------------------
(* Loading                                                                  *)

Lists(f) ==
  {f.listener} \cup {f.targets[i].headers : i \in DOMAIN f.targets}
    \cup (IF f.override = None THEN {} ELSE {f.override.headers})

ExpandedBody(body, c) == IF body = None THEN None ELSE Expand(body, c)

ExpandedList(list, c) ==
  [i \in DOMAIN list |-> [list[i] EXCEPT !.value = ExpandedBody(@, c)]]

(* from_reader expands the text of the whole file before it is parsed, and  *)
(* so each template in it: once here, and once more when it is used.        *)
Loaded(f, c) ==
  [listener |-> ExpandedList(f.listener, c),
   targets |-> [i \in DOMAIN f.targets |->
     [f.targets[i] EXCEPT !.headers = ExpandedList(@, c), !.body = ExpandedBody(@, c)]],
   override |->
     IF f.override = None THEN None
     ELSE [headers |-> ExpandedList(f.override.headers, c),
           body |-> ExpandedBody(f.override.body, c)]]

Load ==
  /\ stage = "start"
  /\ IF \A list \in Lists(file) : \A i \in DOMAIN list : TransformValid(list[i])
     THEN config' = Loaded(file, ctx) /\ stage' = "accept"
     ELSE config' = config /\ stage' = "refused"
  /\ UNCHANGED <<fixed, ctx, work, pos, base, sent, origin, resp, reply>>

-----------------------------------------------------------------------------
(* The transformations of a list, one after the other                       *)

List ==
  CASE stage = "listener" -> config.listener
    [] stage = "target" -> config.targets[Len(sent) + 1].headers
    [] stage = "override" -> config.override.headers

Transforming == stage \in {"listener", "target", "override"}
ListDone == Transforming /\ pos > Len(List)

TransformHeaders ==
  /\ Transforming /\ pos =< Len(List)
  /\ ~Panics(List[pos], work, ctx)
  /\ work' = Apply(List[pos], work, ctx)
  /\ pos' = pos + 1
  /\ UNCHANGED <<fixed, config, stage, ctx, base, sent, origin, resp, reply>>

TransformPanics ==
  /\ Transforming /\ pos =< Len(List)
  /\ Panics(List[pos], work, ctx)
  /\ stage' = "panicked"
  /\ UNCHANGED <<fixed, config, ctx, work, pos, base, sent, origin, resp, reply>>

-----------------------------------------------------------------------------
(* The requests to the targets                                              *)

Accept ==
  /\ stage = "accept"
  /\ \E own \in RequestMaps(req) : ctx' = With(ctx, own)
  /\ work' = Without(req.headers, {"host"})
  /\ stage' = "listener" /\ pos' = 1
  /\ UNCHANGED <<fixed, config, base, sent, origin, resp, reply>>

ListenerDone ==
  /\ stage = "listener" /\ ListDone
  /\ base' = work
  /\ stage' = "dispatch"
  /\ UNCHANGED <<fixed, config, ctx, work, pos, sent, origin, resp, reply>>

\* The request's context: the root and its own map.
RequestContext == SubSeq(ctx, 1, 2)

\* Mutant: the targets share one header map.
BeginTargetWithoutClone ==
  /\ stage = "dispatch" /\ Len(sent) < Len(config.targets)
  /\ ctx' = With(RequestContext, TargetMap(config.targets[Len(sent) + 1]))
  /\ stage' = "target" /\ pos' = 1
  /\ UNCHANGED <<fixed, config, work, base, sent, origin, resp, reply>>

BeginTarget ==
  /\ stage = "dispatch" /\ Len(sent) < Len(config.targets)
  /\ ctx' = With(RequestContext, TargetMap(config.targets[Len(sent) + 1]))
  /\ work' = base
  /\ stage' = "target" /\ pos' = 1
  /\ UNCHANGED <<fixed, config, base, sent, origin, resp, reply>>

SendTarget ==
  /\ stage = "target" /\ ListDone
  /\ LET target == config.targets[Len(sent) + 1]
         headers == IF "host" \in DOMAIN work THEN work
                    ELSE InsertHeader(work, "host", Literal(target.host))
         body == IF target.body = None THEN req.body ELSE Expand(target.body, ctx)
     IN  sent' = Append(sent, [headers |-> headers, body |-> body])
  /\ stage' = "dispatch"
  /\ UNCHANGED <<fixed, config, ctx, work, pos, base, origin, resp, reply>>

-----------------------------------------------------------------------------
(* The response, and its override                                           *)

BeginReply(i, response) ==
  /\ stage = "dispatch" /\ Len(sent) = Len(config.targets)
  /\ origin' = i
  /\ resp' = response
  /\ work' = response.headers
  /\ pos' = 1
  /\ IF config.override = None
     THEN reply' = response /\ stage' = "replied"
     ELSE reply' = reply /\ stage' = "override"
  /\ UNCHANGED <<fixed, config, base, sent>>

\* Mutant: the variables of the response are added to the request's.
RelayWithoutTarget(i, r) ==
  /\ BeginReply(i, [headers |-> r.headers, body |-> r.body])
  /\ \E own \in ResponseMaps(r) : ctx' = With(RequestContext, own)

\* The response of target i, or the one made up from its error.
Relay(i, r) ==
  /\ BeginReply(i, [headers |-> r.headers, body |-> r.body])
  /\ \E own \in ResponseMaps(r) :
       ctx' = With(With(RequestContext, TargetMap(config.targets[i])), own)

\* Target i was preferred, and its error dropped.
ReplyForDropped(i) ==
  /\ BeginReply(i, Empty)
  /\ ctx' = With(RequestContext, TargetMap(config.targets[i]))

\* No target's response is used: override_empty_response, no_target_response.
MakeUp == BeginReply(0, Empty) /\ ctx' = RequestContext

(* With a body template the code removes content-length from a header map   *)
(* that has been copied to the response before: too late to have an effect. *)
Override ==
  /\ stage = "override" /\ ListDone
  /\ reply' = [headers |-> work,
               body |-> IF config.override.body = None THEN resp.body
                        ELSE Expand(config.override.body, ctx)]
  /\ stage' = "replied"
  /\ UNCHANGED <<fixed, config, ctx, work, pos, base, sent, origin, resp>>

-----------------------------------------------------------------------------
Terminated == stage \in Ends /\ UNCHANGED vars

Request == Accept \/ ListenerDone \/ BeginTarget \/ SendTarget

Response ==
  \/ MakeUp
  \/ /\ stage = "dispatch"
     /\ \E i \in DOMAIN config.targets : ReplyForDropped(i) \/ \E r \in Responses : Relay(i, r)
  \/ Override

Next == Load \/ TransformHeaders \/ TransformPanics \/ Request \/ Response \/ Terminated

Spec == Init /\ [][Next]_vars

-----------------------------------------------------------------------------
(* Type correctness.                                                        *)
TypeOK ==
  /\ stage \in Stages \cup Ends
  /\ config = None <=> stage \in {"start", "refused"}
  /\ \A i \in DOMAIN ctx : IsMap(ctx[i])
  /\ IsHeaderMap(work) /\ IsHeaderMap(base)
  /\ pos \in Nat \ {0}
  /\ \A m \in {sent[i] : i \in DOMAIN sent} \cup {resp} \cup ({reply} \ {None}) :
       IsHeaderMap(m.headers) /\ m.body \in Bodies
  /\ config # None => Len(sent) =< Len(config.targets) /\ origin \in 0 .. Len(config.targets)

\* The client's headers but for Host, as the listener declares them.
ListenerHeader(n) ==
  Declared(config.listener, Len(config.listener), n,
           Values(Without(req.headers, {"host"}), n), RequestContext)

(* README.md:397 to 400 and 466: what a target is sent is what its own      *)
(* list makes of what the listener's list makes of the client's headers.    *)
(* No target sees what another's list did, and the client's Host goes to    *)
(* none: a target that no transformation gives a Host gets its own.         *)
SentAsDeclared ==
  \A i \in DOMAIN sent : \A n \in HeaderNames :
    LET target == config.targets[i]
        declared == Declared(target.headers, Len(target.headers), n, ListenerHeader(n),
                             With(RequestContext, TargetMap(target)))
    IN  Values(sent[i].headers, n) =
          IF n = "host" /\ declared = Absent THEN <<Literal(target.host)>> ELSE declared

(* README.md:240 and 655: an override works on the response that was        *)
(* chosen, its list declares the headers, and the variables of a target     *)
(* are those of the target that the response belongs to, if there is one.   *)
(* So a body that is overridden leaves the content-length of the response   *)
(* as it was unless the list drops it, as README.md:663 warns.              *)
ReplyAsDeclared ==
  reply # None =>
    /\ config.override # None =>
         LET list == config.override.headers
         IN  \A n \in HeaderNames : Values(reply.headers, n) =
               Declared(list, Len(list), n, Values(resp.headers, n), ctx)
    /\ \A v \in TargetVariables :
         Get(ctx, v) = IF origin = 0 THEN Get(RequestContext, v)
                       ELSE TargetMap(config.targets[origin])[v]

(* A filter and a template that refer to the same variable of a request     *)
(* agree on it.  Filters are given a map collected from the iterator, where *)
(* the environment overrides the request; templates ask `get`, where it     *)
(* does not, but they have met the environment before, when the file was    *)
(* loaded.  The one exception is a value of the environment that looks like *)
(* a reference itself.                                                      *)
FilterAgreesWithTemplates ==
  stage = "listener" =>
    \A v \in Names(ctx) :
      LET configured == Expand(Reference(v), Root(env))
      IN  (v \in DOMAIN env => env[v].var = None) => Collected(ctx)[v] = Expand(configured, ctx)

\* The templates of a configuration: those of its lists, and the bodies.
ListTemplates(f) == (UNION {{list[i].value : i \in DOMAIN list} : list \in Lists(f)}) \ {None}

Templates(f) ==
  LET bodies == {f.targets[i].body : i \in DOMAIN f.targets}
                  \cup (IF f.override = None THEN {} ELSE {f.override.body})
  IN  ListTemplates(f) \cup (bodies \ {None})

(* What templates refer to, at once or by way of a value of the environment *)
(* that is a reference itself: that one is expanded when it is used.        *)
ReferredIn(templates) ==
  LET direct == {t.var : t \in templates}
  IN  direct \cup {env[w].var : w \in direct \cap DOMAIN env}

Referred == ReferredIn(Templates(file))

HeaderValues(headers) == UNION {{headers[n][i] : i \in DOMAIN headers[n]} : n \in DOMAIN headers}
Contents(message) == {message.body} \cup HeaderValues(message.headers)

\* What there is to be sent but for variable v of the environment.
Elsewhere(v) ==
  LET given == Templates(file) \cup {env[w] : w \in DOMAIN env \ {v}}
                 \cup {AppMap[w] : w \in DOMAIN AppMap} \cup {req.parts[w] : w \in DOMAIN req.parts}
                 \cup UNION {Contents(m) : m \in Responses \cup {req}}
      texts == {t.text : t \in Templates(file) \cup {env[w] : w \in DOMAIN env \ {v}}}
                 \cup {file.targets[i].id : i \in DOMAIN file.targets}
                 \cup {file.targets[i].host : i \in DOMAIN file.targets}
                 \cup {r.status : r \in Responses}
  IN  given \cup {Literal(text) : text \in texts}

(* Texts that clients and targets send are no templates: what only the      *)
(* environment holds is sent to no one unless the file refers to it.        *)
OnlyReferredIsSent ==
  \A v \in DOMAIN env \ Referred :
    env[v] \notin Elsewhere(v) =>
      \A m \in {sent[i] : i \in DOMAIN sent} \cup ({reply} \ {None}) : env[v] \notin Contents(m)

(* What a transformation can be given to write: what the lists of the file  *)
(* say and refer to, and what the peers send as headers.  resp is that of   *)
(* the response which has been chosen, and empty before.                    *)
Writable ==
  LET referred == ReferredIn(ListTemplates(file))
      maps == {env, AppMap, req.parts} \cup {TargetMap(file.targets[i]) : i \in DOMAIN file.targets}
                \cup {[CTX_RESPONSE_STATUS |-> Literal(r.status)] : r \in Responses}
  IN  ListTemplates(file) \cup (UNION {{m[w] : w \in referred \cap DOMAIN m} : m \in maps})
        \cup HeaderValues(req.headers) \cup HeaderValues(resp.headers)

(* The unwraps of a transformation (headers.rs:139, 141, 149, 150) panic    *)
(* only if the lists add a header under a name that is none, or what they   *)
(* refer to holds a text that no header can: neither a body nor a variable  *)
(* that no list refers to, nor a header or a name that is missing, ends a   *)
(* request.                                                                 *)
TransformPanicsHaveCauses ==
  stage = "panicked" =>
    \/ \E list \in Lists(file) : \E i \in DOMAIN list :
         list[i].action = "add" /\ list[i].name \in BadNames
    \/ \E t \in Writable : t.text \in BadTexts

\* ${VARIABLE:-default}
WithDefault(template) == template # None /\ template.var # None /\ template.text # None

(* README.md:247, 596 and 597: the request context applies to each request, *)
(* and "${CTX_REQUEST_QUERY:-}" in a body stands for the query, if there is *)
(* one.  But the default has taken its place when the file was loaded.      *)
DefaultsYieldToRequest ==
  \A i \in DOMAIN sent :
    LET template == file.targets[i].body
    IN  WithDefault(template) /\ template.var \in DOMAIN req.parts \ Names(Root(env)) =>
          sent[i].body = req.parts[template.var]
=============================================================================
