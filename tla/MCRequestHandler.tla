-------------------------- MODULE MCRequestHandler --------------------------
(***************************************************************************)
(* The sets of listeners and requests on which TLC checks RequestHandler.  *)
(***************************************************************************)
EXTENDS RequestHandler

MCTargetIds == {"t1", "t2", "t3"}
MCHttpMethods == {"GET"}
MCStatuses == {99, 200, 201, 404, 500, 502, 504, 555}

PlainTarget(id, condition) ==
  [id |-> id, url |-> "valid", condition |-> condition, on_error |-> "propagate",
   error_status |-> None, aws_sigv4 |-> "absent"]

PlainListener(strategy, tgts) ==
  [strategy |-> strategy, methods |-> None, targets |-> tgts,
   target_selector |-> None, failing |-> {404, 500, 502, 504},
   no_targets_status |-> 500, override |-> None]

Overrides(status) == {None, [status |-> None], [status |-> status]}

AnyRequest == [method : Methods, holds : [Positions -> BOOLEAN], text_headers : BOOLEAN]

-----------------------------------------------------------------------------
(* Routing: every way to give up to three targets a condition, valid or     *)
(* not, with every valuation of the filters.                                *)

ConditionLists == UNION {[1 .. n -> Conditions] : n \in 0 .. 3}

RoutingConfigs ==
  {[PlainListener(s, [i \in DOMAIN c |-> PlainTarget(<<"t1", "t2", "t3">>[i], c[i])])
      EXCEPT !.methods = m, !.no_targets_status = n] :
     s \in {"conditional_routing", "ok_then_failed"}, c \in ConditionLists,
     <<m, n>> \in {<<None, 500>>, <<{"GET"}, 99>>}}
  \cup
  {PlainListener("ok_then_failed", <<PlainTarget("t1", "absent"), PlainTarget("t1", "filter")>>)}

\* What else can end or stall a request: signing, the regex, an override.
EndingConfigs ==
  {[PlainListener("ok_then_failed", <<[PlainTarget("t1", "filter") EXCEPT !.aws_sigv4 = a]>>)
      EXCEPT !.failing = f, !.override = o] :
     a \in {"absent", "valid"}, f \in {None, {404, 500, 502, 504}}, o \in Overrides(99)}

MCConfigs == RoutingConfigs \cup EndingConfigs

-----------------------------------------------------------------------------
(* Strategies: two targets under every strategy, with every on_error, signed *)
(* or not, that pass validation or fail it, and every selector.             *)

ErrorHandlings == {<<"propagate", None>>, <<"status", 555>>, <<"status", 99>>,
                   <<"drop", None>>, <<"drop", 555>>}

StrategyTargets(id, condition) ==
  {[PlainTarget(id, condition) EXCEPT !.on_error = e[1], !.error_status = e[2],
                                      !.aws_sigv4 = a] :
     e \in ErrorHandlings, a \in {"absent", "valid"}}

StrategyConfigs ==
  {[PlainListener(s, <<t, u>>) EXCEPT !.target_selector = x, !.override = o] :
     s \in Strategies \ {"conditional_routing"}, x \in {None, "t2", "t3"},
     t \in StrategyTargets("t1", "absent"), u \in StrategyTargets("t2", "filter"),
     o \in Overrides(201)}
  \cup
  {[PlainListener("conditional_routing", <<t, u>>) EXCEPT !.override = o] :
     t \in StrategyTargets("t1", "filter"), u \in StrategyTargets("t2", "default"),
     o \in Overrides(201)}

StrategyRequests ==
  {r \in AnyRequest : r.method = "GET" /\ r.text_headers /\ r.holds[1]}

-----------------------------------------------------------------------------
(* Small: a listener per concern, for single questions.    *)

SmallConfigs ==
  {[PlainListener(s, <<t, u>>) EXCEPT !.failing = f, !.override = o] :
     s \in {"ok_then_failed", "always_override"},
     t \in StrategyTargets("t1", "absent"), u \in {PlainTarget("t2", "filter")},
     f \in {None, {404, 500, 502, 504}}, o \in Overrides(99)}
=============================================================================
