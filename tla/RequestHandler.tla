--------------------------- MODULE RequestHandler ---------------------------
(***************************************************************************)
(* One request through RequestHandler::handle (handler.rs) and the         *)
(* response selection it calls (config/response.rs).                       *)
(*                                                                         *)
(* Processes: the handler, which is the future the connection task polls;  *)
(* one spawned task per dispatched target, which runs on when the handler  *)
(* is gone; and the client, which can go away at any await point of the    *)
(* handler.  The loops of the handler are stepped one iteration at a time. *)
(***************************************************************************)
EXTENDS RelayTypes, FiniteSets

CONSTANTS
  Configs,  \* the listener configurations considered
  Requests  \* the requests considered

ASSUME HandlerAssumption ==
  /\ Configs \subseteq Listener
  /\ \A l \in Configs : Len(l.targets) =< MaxTargets
  /\ Requests \subseteq Request

\* TargetDispatch: the queue entry of a target
DispatchKinds == {"spawned", "signing_failed"}

\* The panics the handler's own code can raise; "none" means none was raised.
Faults == {"none", "request_body", "target_body", "header_text", "condition",
           "header_transform", "uri_host", "https_client", "regex",
           "expect_response", "status"}

VARIABLES
  cfg,             \* the listener's configuration, fixed
  req,             \* the request, fixed
  pc,              \* where the handler is
  pos,             \* position of the loop the handler is in
  targets,         \* handler.rs `targets`: the positions selected so far
  target_requests, \* handler.rs `target_requests`: dispatched targets, in order
  target_ids,      \* handler.rs `target_ids` (and `target_ctx`, pushed with it)
  spawned,         \* positions whose request a task has been spawned for
  outcome,         \* the result of each spawned task, None while it runs
  results,         \* handler.rs `results`, in dispatch order
  responses,       \* handler.rs `responses`: id -> status, None if dropped
  answer,          \* the response returned, None if there is none
  fault            \* the panic that ended the handler

vars == <<cfg, req, pc, pos, targets, target_requests, target_ids, spawned,
          outcome, results, responses, answer, fault>>

inputs == <<cfg, req>>
dispatched == <<target_requests, target_ids, spawned>>
collected == <<results, responses>>

\* "failed" is an Err returned through `?`; "cancelled" a future dropped.
Ended == {"answered", "failed", "panicked", "cancelled"}
PcStates == {"accepted", "body", "conditions", "dispatch", "collect",
             "reading", "preprocess", "select"} \cup Ended

-----------------------------------------------------------------------------
Goto(label) == pc' = label /\ pos' = pos
Advance == pos' = pos + 1 /\ pc' = pc
Begin(label) == pc' = label /\ pos' = 1

Panic(what) ==
  /\ fault' = what
  /\ Goto("panicked")
  /\ UNCHANGED answer

\* An http::Error leaves the handler: hyper closes the connection.
Fail == Goto("failed") /\ UNCHANGED <<fault, answer>>

\* StatusCode's range: a Response builder refuses any other value.
ValidStatus(status) == status \in 100 .. 999

Return(a) ==
  /\ answer' = a
  /\ Goto("answered")
  /\ UNCHANGED fault

(* override_response, then the return.  A header transformation panics on a *)
(* name or an expanded value no header can have, the builder on a status.   *)
Respond(kind, from, ctx, status) ==
  LET a == [kind |-> kind, from |-> from, ctx |-> ctx, status |-> status]
      final == IF cfg.override.status = None THEN status ELSE cfg.override.status
  IN  IF cfg.override = None THEN Return(a)
      ELSE \/ Panic("header_transform")
           \/ IF ValidStatus(final) THEN Return([a EXCEPT !.status = final])
              ELSE Panic("status")

Init ==
  /\ cfg \in Configs /\ ListenerValid(cfg)
  /\ req \in Requests
  /\ pc = "accepted" /\ pos = 1
  /\ targets = << >> /\ target_requests = << >> /\ target_ids = << >>
  /\ spawned = {}
  /\ outcome = [p \in Positions |-> None]
  /\ results = << >>
  /\ responses = [id \in {} |-> None]
  /\ answer = None
  /\ fault = "none"

-----------------------------------------------------------------------------
(* The request: method check, body.                                         *)

RejectMethod ==
  /\ pc = "accepted"
  /\ ~MethodAllowed(cfg, req.method)
  /\ Return([kind |-> "not_allowed", from |-> None, ctx |-> None, status |-> 405])
  /\ UNCHANGED <<inputs, targets, dispatched, outcome, collected>>

AcceptMethod ==
  /\ pc = "accepted"
  /\ MethodAllowed(cfg, req.method)
  /\ Goto("body")
  /\ UNCHANGED <<inputs, targets, dispatched, outcome, collected, answer, fault>>

\* The client sends the body at its own pace: no timeout covers this await.
ReadRequestBody ==
  /\ pc = "body"
  /\ Begin("conditions")
  /\ UNCHANGED <<inputs, targets, dispatched, outcome, collected, answer, fault>>

\* The body breaks off, or a header transformation of the listener panics.
RequestPanics ==
  /\ pc = "body"
  /\ \/ Panic("request_body")
     \/ Panic("header_transform")
  /\ UNCHANGED <<inputs, targets, dispatched, outcome, collected>>

-----------------------------------------------------------------------------
(* The loop over the configured targets that decides which are queried.     *)

Evaluating == pc = "conditions" /\ pos \in DOMAIN cfg.targets
Routing == cfg.strategy = "conditional_routing"
Considered == cfg.targets[pos]
HasFilter == Considered.condition = "filter"

\* check_condition turns every header value into text before the filter runs.
FilterPanics ==
  /\ Evaluating
  /\ \/ HasFilter /\ ~req.text_headers /\ Panic("header_text")
     \/ Routing /\ Considered.condition = "absent" /\ Panic("condition")
  /\ UNCHANGED <<inputs, targets, dispatched, outcome, collected>>

FilterRuns == HasFilter => req.text_headers

\* Mutant: a default target stands in only while nothing else is selected.
SelectTargetDefaultLast ==
  /\ Evaluating /\ ~Routing /\ FilterRuns
  /\ targets' = IF (HasFilter => req.holds[pos]) /\ (IsDefault(Considered) => targets = << >>)
                THEN Append(targets, pos) ELSE targets
  /\ Advance
  /\ UNCHANGED <<inputs, dispatched, outcome, collected, answer, fault>>

SelectTarget ==
  /\ Evaluating /\ ~Routing /\ FilterRuns
  /\ targets' = IF HasFilter => req.holds[pos] THEN Append(targets, pos)
                ELSE targets
  /\ Advance
  /\ UNCHANGED <<inputs, dispatched, outcome, collected, answer, fault>>

\* Mutant: the last filter that holds wins.
AlwaysReplaceable == Routing

Replaceable == targets # << >> => IsDefault(cfg.targets[targets[1]])

RouteTarget ==
  /\ Evaluating /\ Routing /\ FilterRuns
  /\ \/ /\ IsDefault(Considered)
        /\ targets' = IF targets = << >> THEN <<pos>> ELSE targets
     \/ /\ HasFilter /\ ~req.holds[pos]
        /\ UNCHANGED targets
     \/ /\ HasFilter /\ req.holds[pos] /\ Replaceable
        /\ targets' = <<pos>>
  /\ Advance
  /\ UNCHANGED <<inputs, dispatched, outcome, collected, answer, fault>>

RouteAmbiguous ==
  /\ Evaluating /\ Routing /\ FilterRuns
  /\ HasFilter /\ req.holds[pos] /\ ~Replaceable
  /\ IF ValidStatus(cfg.no_targets_status)
     THEN Respond("no_target", None, None, cfg.no_targets_status)
     ELSE Fail
  /\ UNCHANGED <<inputs, targets, dispatched, outcome, collected>>

BeginDispatch ==
  /\ pc = "conditions" /\ pos = Len(cfg.targets) + 1
  /\ Begin("dispatch")
  /\ UNCHANGED <<inputs, targets, dispatched, outcome, collected, answer, fault>>

-----------------------------------------------------------------------------
(* The loop over the selected targets that builds, signs and spawns.        *)

Dispatching == pc = "dispatch" /\ pos \in DOMAIN targets
Selected == cfg.targets[targets[pos]]
Signed == Selected.aws_sigv4 # "absent"

\* Mutant: the ids are filled from the other end than the requests.
EnqueueIdInFront(kind) ==
  /\ target_requests' = Append(target_requests, kind)
  /\ target_ids' = <<Selected.id>> \o target_ids
  /\ Advance

Enqueue(kind) ==
  /\ target_requests' = Append(target_requests, kind)
  /\ target_ids' = Append(target_ids, Selected.id)
  /\ Advance

\* The expanded URL or a header value does not parse: `?` leaves the handler,
\* and the targets before this one have been sent their requests.
BuildFails ==
  /\ Dispatching
  /\ Fail
  /\ UNCHANGED <<inputs, targets, dispatched, outcome, collected>>

\* A header transformation of the target; a URL without a host; an https
\* client that cannot be had (ClientCache).
DispatchPanics ==
  /\ Dispatching
  /\ \/ Panic("header_transform")
     \/ Panic("uri_host")
     \/ Panic("https_client")
  /\ UNCHANGED <<inputs, targets, dispatched, outcome, collected>>

SignAndSpawn ==
  /\ Dispatching
  /\ Enqueue("spawned")
  /\ spawned' = spawned \cup {targets[pos]}
  /\ UNCHANGED <<inputs, targets, outcome, collected, answer, fault>>

SignFails ==
  /\ Dispatching /\ Signed
  /\ Enqueue("signing_failed")
  /\ UNCHANGED <<inputs, targets, spawned, outcome, collected, answer, fault>>

\* Mutant: the position of the previous loop is kept.
BeginCollectWithoutReset ==
  /\ pc = "dispatch" /\ pos = Len(targets) + 1
  /\ Goto("collect")
  /\ UNCHANGED <<inputs, targets, dispatched, outcome, collected, answer, fault>>

BeginCollect ==
  /\ pc = "dispatch" /\ pos = Len(targets) + 1
  /\ Begin("collect")
  /\ UNCHANGED <<inputs, targets, dispatched, outcome, collected, answer, fault>>

(* A spawned task: the request under the target's timeout.  It is not tied  *)
(* to the handler, which may have ended before it.                          *)
SettleTask(p) ==
  /\ p \in spawned /\ outcome[p] = None
  /\ \E r \in TaskResults : outcome' = [outcome EXCEPT ![p] = r]
  /\ UNCHANGED <<inputs, pc, pos, targets, dispatched, collected, answer, fault>>

-----------------------------------------------------------------------------
(* The loop over the dispatched targets that collects, in dispatch order.   *)

Collecting == pc = "collect" /\ pos \in DOMAIN target_requests
Awaited == outcome[targets[pos]]

CollectSigningError ==
  /\ Collecting /\ target_requests[pos] = "signing_failed"
  /\ results' = Append(results, Failure("signing_error"))
  /\ Advance
  /\ UNCHANGED <<inputs, targets, dispatched, outcome, responses, answer, fault>>

\* Mutant: a timeout is retried, without a limit.
CollectErrorRetryingTimeouts ==
  /\ Collecting /\ target_requests[pos] = "spawned"
  /\ Awaited # None /\ Awaited.kind # "ok"
  /\ IF Awaited.kind = "timeout"
     THEN outcome' = [outcome EXCEPT ![targets[pos]] = None] /\ UNCHANGED <<results, pc, pos>>
     ELSE results' = Append(results, Awaited) /\ Advance /\ UNCHANGED outcome
  /\ UNCHANGED <<inputs, targets, dispatched, responses, answer, fault>>

CollectError ==
  /\ Collecting /\ target_requests[pos] = "spawned"
  /\ Awaited # None /\ Awaited.kind # "ok"
  /\ results' = Append(results, Awaited)
  /\ Advance
  /\ UNCHANGED <<inputs, targets, dispatched, outcome, responses, answer, fault>>

CollectHead ==
  /\ Collecting /\ target_requests[pos] = "spawned"
  /\ Awaited # None /\ Awaited.kind = "ok"
  /\ Goto("reading")
  /\ UNCHANGED <<inputs, targets, dispatched, outcome, collected, answer, fault>>

\* Mutant: the position is advanced for the head and for the body.
ReadTargetBodyTwice ==
  /\ pc = "reading"
  /\ results' = Append(results, Awaited)
  /\ pos' = pos + 2 /\ pc' = "collect"
  /\ UNCHANGED <<inputs, targets, dispatched, outcome, responses, answer, fault>>

\* The target sends its body at its own pace: its timeout ended with the head.
ReadTargetBody ==
  /\ pc = "reading"
  /\ results' = Append(results, Awaited)
  /\ pos' = pos + 1 /\ pc' = "collect"
  /\ UNCHANGED <<inputs, targets, dispatched, outcome, responses, answer, fault>>

TargetBodyFails ==
  /\ pc = "reading"
  /\ Panic("target_body")
  /\ UNCHANGED <<inputs, targets, dispatched, outcome, collected>>

BeginPreprocess ==
  /\ pc = "collect" /\ pos = Len(target_requests) + 1
  /\ Begin("preprocess")
  /\ UNCHANGED <<inputs, targets, dispatched, outcome, collected, answer, fault>>

-----------------------------------------------------------------------------
(* The loop over the results that applies on_error.                         *)

\* Mutant: an error that is not of the network has no status.
ErrorStatusOfNetwork(kind) ==
  CASE kind = "connect_error" -> 502
    [] kind = "timeout" -> 504
    [] OTHER -> 0

\* error_response without an error_status
ErrorStatus(kind) ==
  CASE kind = "connect_error" -> 502
    [] kind = "timeout" -> 504
    [] OTHER -> 500

\* What a result leaves in `responses` for target t; None if it is dropped.
Preprocessed(t, r) ==
  CASE r.kind = "ok" -> r.status
    [] r.kind # "ok" /\ t.on_error = "propagate" -> ErrorStatus(r.kind)
    [] r.kind # "ok" /\ t.on_error = "status" -> t.error_status
    [] r.kind # "ok" /\ t.on_error = "drop" -> None

Preprocess ==
  /\ pc = "preprocess" /\ pos \in DOMAIN results
  /\ LET id == target_ids[pos]
         status == Preprocessed(cfg.targets[targets[pos]], results[pos])
     IN  IF results[pos].kind = "ok" \/ status = None \/ ValidStatus(status)
         THEN /\ responses' = [i \in DOMAIN responses \cup {id} |->
                                 IF i = id THEN status ELSE responses[i]]
              /\ Advance
              /\ UNCHANGED <<answer, fault>>
         ELSE Panic("status") /\ UNCHANGED responses
  /\ UNCHANGED <<inputs, targets, dispatched, outcome, results>>

BeginSelect ==
  /\ pc = "preprocess" /\ pos = Len(results) + 1
  /\ Goto("select")
  /\ UNCHANGED <<inputs, targets, dispatched, outcome, collected, answer, fault>>

-----------------------------------------------------------------------------
(* The strategy: find_first_response and the select_* functions.            *)

Present == {id \in DOMAIN responses : responses[id] # None}
FailedIds == {id \in Present : responses[id] \in cfg.failing}
OkIds == Present \ FailedIds

\* find_first_response walks a HashMap: which id comes first is arbitrary.
FirstOf(ids) == IF ids = {} THEN {None} ELSE ids

Relay(id) == Respond("target", id, id, responses[id])

\* The callers in select_* unwrap its error.
NoTarget(ctx) ==
  IF ValidStatus(cfg.no_targets_status)
  THEN Respond("no_target", None, ctx, cfg.no_targets_status)
  ELSE Panic("status")

SelectOrError(id) ==
  \/ id \notin DOMAIN responses /\ NoTarget(None)
  \/ id \in DOMAIN responses \ Present /\ NoTarget(id)
  \/ id \in Present /\ Relay(id)

SelectOrOverride(id) ==
  \/ id \notin DOMAIN responses /\ Respond("override", None, None, 200)
  \/ id \in DOMAIN responses \ Present /\ Panic("expect_response")
  \/ id \in Present /\ Relay(id)

\* Mutant: a response of the second choice is relayed even if there is a first.
SelectFromTwoSecondFirst(first, second) ==
  \/ second \notin DOMAIN responses /\ SelectOrError(first)
  \/ second \in DOMAIN responses /\ SelectOrError(second)

SelectFromTwo(first, second) ==
  \/ first \notin DOMAIN responses /\ SelectOrError(second)
  \/ first \in DOMAIN responses \ Present /\ Panic("expect_response")
  \/ first \in Present /\ Relay(first)

ConditionalTargetId ==
  IF targets = << >> THEN None ELSE cfg.targets[targets[1]].id

Strategy(ok, failed) ==
  LET selector == cfg.target_selector IN
  CASE cfg.strategy = "always_override" -> Respond("override", None, None, 200)
    [] cfg.strategy = "ok_then_override" -> SelectOrOverride(ok)
    [] cfg.strategy = "failed_then_override" -> SelectOrOverride(failed)
    [] cfg.strategy = "ok_then_target_id" -> SelectFromTwo(ok, selector)
    [] cfg.strategy = "failed_then_target_id" -> SelectFromTwo(failed, selector)
    [] cfg.strategy = "ok_then_failed" -> SelectFromTwo(ok, failed)
    [] cfg.strategy = "failed_then_ok" -> SelectFromTwo(failed, ok)
    [] cfg.strategy = "always_target_id" -> SelectOrError(selector)
    [] cfg.strategy = "conditional_routing" -> SelectOrError(ConditionalTargetId)

\* The regex is compiled here, for every request: validation never does.
Select ==
  /\ pc = "select"
  /\ IF cfg.failing = None THEN Panic("regex")
     ELSE \E ok \in FirstOf(OkIds), failed \in FirstOf(FailedIds) :
            Strategy(ok, failed)
  /\ UNCHANGED <<inputs, targets, dispatched, outcome, collected>>

-----------------------------------------------------------------------------
\* Where the handler may be suspended, and so dropped by its connection task.
AtAwait ==
  \/ pc \in {"body", "reading"}
  \/ Dispatching /\ Signed
  \/ Collecting /\ target_requests[pos] = "spawned"

Disconnect ==
  /\ AtAwait
  /\ Goto("cancelled")
  /\ UNCHANGED <<inputs, targets, dispatched, outcome, collected, answer, fault>>

Settled == \A p \in spawned : outcome[p] # None

\* A request ends: stuttering there keeps every other stop a deadlock.
Terminated == pc \in Ended /\ Settled /\ UNCHANGED vars

Prepare == RejectMethod \/ AcceptMethod \/ FilterPanics \/ SelectTarget \/
           RouteTarget \/ RouteAmbiguous \/ BeginDispatch
Dispatch == BuildFails \/ DispatchPanics \/ SignAndSpawn \/ SignFails
Conclude == BeginCollect \/ CollectSigningError \/ CollectError \/ CollectHead \/
            BeginPreprocess \/ Preprocess \/ BeginSelect \/ Select
Peers == ReadRequestBody \/ RequestPanics \/ ReadTargetBody \/ TargetBodyFails

Next ==
  \/ Prepare \/ Dispatch \/ Conclude \/ Peers \/ Disconnect
  \/ \E p \in Positions : SettleTask(p)
  \/ Terminated

(* Fairness is what the runtime gives: the handler is polled while it can   *)
(* run, and every task's timeout fires.  Bodies and credentials come from   *)
(* peers, so those steps, and Disconnect, are not fair.                     *)
Fairness ==
  /\ WF_vars(Prepare \/ Conclude \/ (Dispatch /\ ~Signed))
  /\ \A p \in Positions : WF_vars(SettleTask(p))

Spec == Init /\ [][Next]_vars /\ Fairness

-----------------------------------------------------------------------------
(* Properties.                                                              *)

(* Type correctness of the handler's local variables and of the tasks.      *)
TypeOK ==
  /\ cfg \in Listener /\ ListenerValid(cfg) /\ Len(cfg.targets) =< MaxTargets
  /\ req \in Request
  /\ pc \in PcStates
  /\ pos \in 1 .. MaxTargets + 1
  /\ targets \in Seq(Positions)
  /\ target_requests \in Seq(DispatchKinds)
  /\ target_ids \in Seq(TargetIds)
  /\ spawned \subseteq Positions
  /\ outcome \in [Positions -> Option(TaskResults)]
  /\ results \in Seq(ResponseResults)
  /\ DOMAIN responses \subseteq TargetIds
  /\ \A id \in DOMAIN responses : responses[id] \in Option(Nat)
  /\ answer \in Option(Answers)
  /\ fault \in Faults

Matches(p) == cfg.targets[p].condition = "filter" /\ req.holds[p]

(* conditional_routing queries a single target: one whose filter holds when *)
(* no other target's does, or the default when no filter holds at all.  The *)
(* loop of handler.rs:109 sees the targets one by one, in any order.        *)
RoutedToOne ==
  Routing => \A p \in spawned :
    /\ Matches(p) \/ IsDefault(cfg.targets[p])
    /\ \A q \in DOMAIN cfg.targets \ {p} : q \notin spawned /\ ~Matches(q)

(* The results, ids and targets of handler.rs are vectors filled by three   *)
(* loops and matched by position (`target_ids[pos]`, `targets[pos]`): every *)
(* response stands under the id of the very target it came from, or whose   *)
(* on_error made it, and no response is lost to another with the same id.   *)
ResponsesAttributed ==
  \A i \in DOMAIN results :
    LET p == targets[i]
        id == cfg.targets[p].id
        r == IF p \in spawned THEN outcome[p] ELSE Failure("signing_error")
    IN  /\ results[i] = r
        /\ pc = "select" \/ (pc = "preprocess" /\ i < pos) =>
             id \in DOMAIN responses /\ responses[id] = Preprocessed(cfg.targets[p], r)

(* A response that depends on the targets leaves only when every request    *)
(* that was spawned has settled: no answer overtakes a running query.       *)
AnswerAfterAllSettled == answer # None => Settled

(* The `unwrap` of handler.rs:113 and the `expect`s on a chosen response of *)
(* response.rs:253 and 286 rely on validation and on find_first_response:   *)
(* no listener that passed validation reaches them.                         *)
NoSelfInflictedPanic == fault \notin {"condition", "expect_response"}

\* The statuses the configuration gives; validation looks at none of them.
ConfiguredStatuses ==
  {cfg.no_targets_status}
  \cup {cfg.targets[p].error_status : p \in DOMAIN cfg.targets}
  \cup (IF cfg.override = None THEN {} ELSE {cfg.override.status})

(* The panics that are left to a listener that passed validation have their *)
(* cause in what it configures or in the request, never in what targets     *)
(* answer: a header value that is no text ends the request before any       *)
(* target is sent one; a regex that does not compile, after every target    *)
(* has been queried and has settled; a status no response can have, only if *)
(* one is configured, whatever the override and on_error make of it.        *)
PanicsHaveCauses ==
  /\ fault = "header_text" => ~req.text_headers /\ spawned = {}
  /\ fault = "regex" => cfg.failing = None /\ Settled /\ Len(results) = Len(targets)
  /\ fault = "status" =>
       \E status \in ConfiguredStatuses \ {None} : ~ValidStatus(status)

(* What is left of a request: the tasks to settle, the stages to go through *)
(* and the positions of the present loop.                                   *)
Stage == [accepted |-> 7, body |-> 6, conditions |-> 5, dispatch |-> 4,
          collect |-> 3, reading |-> 3, preprocess |-> 2, select |-> 1]

StepsLeft(label, p) ==
  IF label \in Ended THEN 0
  ELSE Stage[label] * (2 * MaxTargets + 4) - 2 * p - (IF label = "reading" THEN 1 ELSE 0)

Unsettled == {p \in Positions : outcome[p] = None}

Remaining == Cardinality(Unsettled) + StepsLeft(pc, pos)

(* No step is taken twice: whatever the client, the targets and the tasks   *)
(* do, each step uses up something of a bounded amount, so that no loop of  *)
(* the handler turns for ever and only a stalled peer keeps it from ending. *)
EveryStepProgresses == [][0 =< Remaining' /\ Remaining' < Remaining]_vars

(* The handler achieves what the contract of a listener demands.            *)
Contract == INSTANCE RelayContract WITH
  phase <- IF pc = "answered" THEN "answered"
           ELSE IF pc \in Ended THEN "abandoned" ELSE "open",
  queried <- spawned,
  refused <- {targets[i] : i \in {j \in DOMAIN target_requests :
                                    target_requests[j] = "signing_failed"}}

ImplementsContract == Contract!Spec

(* A request comes to an end unless a peer stalls it: from some point on    *)
(* the handler waits for the client's body, a target's body or credentials. *)
Stalled == pc \in {"body", "reading"} \/ (Dispatching /\ Signed)
EndsUnlessStalled == <>(pc \in Ended) \/ <>[]Stalled

(* README.md:457, targets.on_error: the action is taken on "any error like  *)
(* request timeout, network error, application problems or any other cases  *)
(* when getting response (even unsuccessful) is impossible".                *)
TargetErrorsHandled == fault # "target_body"

(* README.md:331, listener timeout: "an interval between accepting incoming *)
(* connection and getting request's data like headers and/or body", after   *)
(* which the "connection will be dropped without a response".               *)
ListenerTimeoutBoundsBody == pc = "body" ~> pc # "body"
=============================================================================
