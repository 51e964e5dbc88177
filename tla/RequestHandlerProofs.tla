------------------------ MODULE RequestHandlerProofs ------------------------
(***************************************************************************)
(* Proofs about RequestHandler, for any listeners, requests and number of  *)
(* targets.                                                                *)
(***************************************************************************)
EXTENDS RequestHandler, FiniteSetTheorems, TLAPS

-----------------------------------------------------------------------------
(* The inductive invariant: what the vectors of the handler hold in each    *)
(* phase, and how they fit each other.                                      *)

Choosing == {"accepted", "body", "conditions"}
Collected == {"preprocess", "select"}
Dispatched == {"collect", "reading"} \cup Collected

\* The configured targets seen so far are selected in their order.
SelectionInOrder ==
  /\ \A i \in DOMAIN targets : targets[i] \in DOMAIN cfg.targets
  /\ \A i, j \in DOMAIN targets : i < j => targets[i] < targets[j]
  /\ Len(targets) =< Len(cfg.targets)
  /\ pc \in {"accepted", "body"} => targets = << >>
  /\ pc = "conditions" =>
       /\ pos =< Len(cfg.targets) + 1
       /\ Len(targets) < pos
       /\ \A i \in DOMAIN targets : targets[i] < pos

\* Each selected target is dispatched once, with its id, or not yet.
DispatchInStep ==
  /\ pc \in Choosing => target_requests = << >> /\ spawned = {}
  /\ Len(target_ids) = Len(target_requests)
  /\ Len(target_requests) =< Len(targets)
  /\ pc = "dispatch" => Len(target_requests) = pos - 1
  /\ pc \in Dispatched => Len(target_requests) = Len(targets)
  /\ \A i \in DOMAIN target_requests :
       /\ target_ids[i] = cfg.targets[targets[i]].id
       /\ target_requests[i] = "spawned" <=> targets[i] \in spawned
  /\ \A p \in spawned : \E i \in DOMAIN target_requests : targets[i] = p

\* The result of a dispatched target is its own outcome, which stays.
ResultOf(i) ==
  IF target_requests[i] = "spawned" THEN outcome[targets[i]] ELSE Failure("signing_error")

ResultsInStep ==
  /\ pc \in Choosing \cup {"dispatch"} => results = << >>
  /\ Len(results) =< Len(target_requests)
  /\ pc \in {"collect", "reading"} => Len(results) = pos - 1
  /\ pc = "reading" =>
       /\ pos \in DOMAIN target_requests
       /\ target_requests[pos] = "spawned"
       /\ Awaited # None
  /\ pc \in Collected => Len(results) = Len(target_requests)
  /\ \A i \in DOMAIN results :
       /\ results[i] = ResultOf(i)
       /\ target_requests[i] = "spawned" => outcome[targets[i]] # None

\* The results seen so far have each left their response.
ResponseLeft(i) ==
  LET t == cfg.targets[targets[i]]
  IN  t.id \in DOMAIN responses /\ responses[t.id] = Preprocessed(t, results[i])

ResponsesInStep ==
  /\ pc = "preprocess" => pos =< Len(results) + 1
  /\ pc = "preprocess" => \A i \in DOMAIN results : i < pos => ResponseLeft(i)
  /\ pc = "select" => \A i \in DOMAIN results : ResponseLeft(i)

\* An answer or a panic is an end, and an answer comes after all outcomes.
EndsInStep ==
  /\ answer # None => pc = "answered"
  /\ fault # "none" => pc = "panicked"
  /\ pc \in Collected \cup {"answered"} => Settled
  /\ NoSelfInflictedPanic

\* Of the targets below n, the one routed to has no rival.
RoutedBelow(n) ==
  /\ Len(targets) =< 1
  /\ \A i \in DOMAIN targets : Matches(targets[i]) \/ IsDefault(cfg.targets[targets[i]])
  /\ \A q \in DOMAIN cfg.targets :
       q < n /\ Matches(q) => \E i \in DOMAIN targets : targets[i] = q

RoutingInStep ==
  Routing =>
    /\ pc \in {"accepted", "body"} => RoutedBelow(1)
    /\ pc = "conditions" => RoutedBelow(pos)
    /\ pc \in Dispatched \cup {"dispatch"} \/ spawned # {} =>
         RoutedBelow(Len(cfg.targets) + 1)

IInv ==
  /\ TypeOK
  /\ SelectionInOrder
  /\ DispatchInStep
  /\ ResultsInStep
  /\ ResponsesInStep
  /\ EndsInStep
  /\ RoutingInStep

-----------------------------------------------------------------------------
(* Most ways to end a request change nothing but how it ends.               *)
Quits ==
  /\ pc' \in Ended
  /\ UNCHANGED <<inputs, pos, targets, dispatched, outcome, collected>>

\* What is known of an end whichever step made it.
ProperEnd ==
  /\ answer' \in Option(Answers)
  /\ fault' \in Faults \ {"condition", "expect_response"}
  /\ answer' # None => pc' = "answered"
  /\ fault' # "none" => pc' = "panicked"

\* override_response, on a response that can be built from, ends properly.
LEMMA RespondEnds ==
  ASSUME TypeOK, answer = None, fault = "none",
         NEW kind \in {"no_target", "override", "target"},
         NEW from \in Option(TargetIds), NEW ctx \in Option(TargetIds),
         NEW status \in Nat, Respond(kind, from, ctx, status)
  PROVE  pc' \in {"answered", "panicked"} /\ pos' = pos /\ ProperEnd
<1> DEFINE a == [kind |-> kind, from |-> from, ctx |-> ctx, status |-> status]
           final == IF cfg.override.status = None THEN status ELSE cfg.override.status
<1>1. a \in Answers
  BY DEF Answers
<1>2. CASE cfg.override = None
  BY <1>1, <1>2 DEF Respond, Return, Goto, ProperEnd, Option, Faults
<1>3. CASE cfg.override # None
  <2>1. cfg.override.status \in Option(Nat)
    BY <1>3, NoneAssumption DEF TypeOK, Listener, Option
  <2>2. final \in Nat
    BY <2>1 DEF Option
  <2>3. [a EXCEPT !.status = final] \in Answers
    BY <2>2 DEF Answers
  <2>4. \/ Panic("header_transform")
        \/ Return([a EXCEPT !.status = final])
        \/ Panic("status")
    BY <1>3 DEF Respond
  <2> HIDE DEF final, a
  <2> QED
    BY <2>3, <2>4 DEF Return, Panic, Goto, ProperEnd, Option, Faults
<1> QED
  BY <1>2, <1>3

LEMMA NoTargetEnds ==
  ASSUME TypeOK, answer = None, fault = "none",
         NEW ctx \in Option(TargetIds), NoTarget(ctx)
  PROVE  pc' \in {"answered", "panicked"} /\ pos' = pos /\ ProperEnd
<1>1. cfg.no_targets_status \in Nat /\ None \in Option(TargetIds)
  BY NoneAssumption DEF TypeOK, Listener, Option
<1>2. CASE ValidStatus(cfg.no_targets_status)
  BY <1>1, <1>2, RespondEnds DEF NoTarget
<1>3. CASE ~ValidStatus(cfg.no_targets_status)
  BY <1>3 DEF NoTarget, Panic, Goto, ProperEnd, Faults, Option
<1> QED
  BY <1>2, <1>3

LEMMA RelayEnds ==
  ASSUME TypeOK, answer = None, fault = "none", NEW id \in Present, Relay(id)
  PROVE  pc' \in {"answered", "panicked"} /\ pos' = pos /\ ProperEnd
<1>1. responses[id] \in Nat /\ id \in Option(TargetIds)
  BY DEF Present, TypeOK, Option
<1> QED
  BY <1>1, RespondEnds DEF Relay

LEMMA SelectOrErrorEnds ==
  ASSUME TypeOK, answer = None, fault = "none", NEW id, SelectOrError(id)
  PROVE  pc' \in {"answered", "panicked"} /\ pos' = pos /\ ProperEnd
<1>1. None \in Option(TargetIds) /\ DOMAIN responses \subseteq Option(TargetIds)
  BY DEF TypeOK, Option
<1> QED
  BY <1>1, NoTargetEnds, RelayEnds DEF SelectOrError

LEMMA SelectOrOverrideEnds ==
  ASSUME TypeOK, answer = None, fault = "none",
         NEW id \in Present \cup {None}, SelectOrOverride(id)
  PROVE  pc' \in {"answered", "panicked"} /\ pos' = pos /\ ProperEnd
<1>1. None \notin DOMAIN responses /\ None \in Option(TargetIds) /\ 200 \in Nat
  BY NoneAssumption DEF TypeOK, Option
<1>2. id \notin DOMAIN responses \ Present
  BY <1>1
<1>3. CASE id \notin DOMAIN responses /\ Respond("override", None, None, 200)
  BY <1>1, <1>3, RespondEnds
<1>4. CASE id \in Present /\ Relay(id)
  BY <1>4, RelayEnds
<1> QED
  BY <1>2, <1>3, <1>4 DEF SelectOrOverride

LEMMA SelectFromTwoEnds ==
  ASSUME TypeOK, answer = None, fault = "none",
         NEW first \in Present \cup {None}, NEW second, SelectFromTwo(first, second)
  PROVE  pc' \in {"answered", "panicked"} /\ pos' = pos /\ ProperEnd
<1>1. None \notin DOMAIN responses
  BY NoneAssumption DEF TypeOK
<1>2. first \notin DOMAIN responses \ Present
  BY <1>1
<1> QED
  BY <1>2, SelectOrErrorEnds, RelayEnds DEF SelectFromTwo

\* What find_first_response chooses is a response, or nothing.
LEMMA FirstIsPresent ==
  ASSUME NEW id, id \in FirstOf(OkIds) \/ id \in FirstOf(FailedIds)
  PROVE  id \in Present \cup {None}
BY DEF FirstOf, OkIds, FailedIds

LEMMA SelectEnds ==
  ASSUME TypeOK, answer = None, fault = "none", Select
  PROVE  Quits /\ ProperEnd /\ pc' \in {"answered", "panicked"}
<1>1. UNCHANGED <<inputs, targets, dispatched, outcome, collected>>
  BY DEF Select
<1>2. CASE cfg.failing = None
  <2>1. Panic("regex")
    BY <1>2 DEF Select
  <2> QED
    BY <1>1, <2>1 DEF Panic, Goto, Quits, ProperEnd, Ended, Faults, Option
<1>3. CASE cfg.failing # None
  <2>1. PICK ok \in FirstOf(OkIds), failed \in FirstOf(FailedIds) : Strategy(ok, failed)
    BY <1>3 DEF Select
  <2>2. ok \in Present \cup {None} /\ failed \in Present \cup {None}
    BY <2>1, FirstIsPresent
  <2>3. cfg.strategy \in Strategies /\ None \in Option(TargetIds) /\ 200 \in Nat
    BY DEF TypeOK, Listener, Option
  <2> DEFINE s == cfg.target_selector
  <2>4. \/ Respond("override", None, None, 200)
        \/ SelectOrOverride(ok)
        \/ SelectOrOverride(failed)
        \/ SelectFromTwo(ok, s)
        \/ SelectFromTwo(failed, s)
        \/ SelectFromTwo(ok, failed)
        \/ SelectFromTwo(failed, ok)
        \/ SelectOrError(s)
        \/ SelectOrError(ConditionalTargetId)
    BY <2>1, <2>3 DEF Strategy, Strategies, TargetIdStrategies
  <2>5. pc' \in {"answered", "panicked"} /\ pos' = pos /\ ProperEnd
    BY <2>2, <2>3, <2>4, RespondEnds, SelectOrOverrideEnds, SelectFromTwoEnds,
       SelectOrErrorEnds
  <2> QED
    BY <1>1, <2>5 DEF Quits, Ended
<1> QED
  BY <1>2, <1>3

-----------------------------------------------------------------------------
(* Every step is one of these: an end, or one that moves the handler on.    *)

Ending ==
  /\ Quits
  /\ ProperEnd
  /\ pc' = "answered" => pc \in {"accepted", "conditions", "select"}

Inserting == Preprocess /\ Advance /\ UNCHANGED <<answer, fault>>

LEMMA Running ==
  ASSUME IInv, pc \notin {"answered", "panicked"}
  PROVE  answer = None /\ fault = "none"
BY DEF IInv, EndsInStep

LEMMA PanicEnds ==
  ASSUME IInv, pc \notin Ended, NEW what \in Faults \ {"none", "condition", "expect_response"},
         Panic(what), UNCHANGED <<inputs, targets, dispatched, outcome, collected>>
  PROVE  Ending
BY Running DEF Panic, Goto, Ending, Quits, ProperEnd, Ended, Faults, Option

LEMMA FailEnds ==
  ASSUME IInv, pc \notin Ended, Goto("failed") \/ Goto("cancelled"),
         UNCHANGED <<answer, fault, inputs, targets, dispatched, outcome, collected>>
  PROVE  Ending
BY Running DEF Goto, Ending, Quits, ProperEnd, Ended, Faults, Option

LEMMA PrepareEnds ==
  ASSUME IInv, RejectMethod \/ RequestPanics \/ FilterPanics \/ RouteAmbiguous
  PROVE  Ending
<1> USE DEF Ended
<1>1. CASE RejectMethod
  <2>1. [kind |-> "not_allowed", from |-> None, ctx |-> None, status |-> 405] \in Answers
    BY DEF Answers, Option
  <2> QED
    BY <1>1, <2>1, Running
       DEF RejectMethod, Return, Goto, Ending, Quits, ProperEnd, Option, Faults
<1>2. CASE RequestPanics
  <2>1. pc \notin Ended
    BY <1>2 DEF RequestPanics
  <2>2. UNCHANGED <<inputs, targets, dispatched, outcome, collected>>
        /\ (Panic("request_body") \/ Panic("header_transform"))
    BY <1>2 DEF RequestPanics
  <2> QED
    BY <2>1, <2>2, PanicEnds DEF Faults
<1>3. CASE FilterPanics
  <2>1. pc \notin Ended
    BY <1>3 DEF FilterPanics, Evaluating
  <2>2. ~(Routing /\ Considered.condition = "absent")
    BY <1>3 DEF FilterPanics, Evaluating, Routing, Considered, IInv, TypeOK,
                ListenerValid, StrategyValid
  <2>3. Panic("header_text")
    BY <1>3, <2>2 DEF FilterPanics
  <2>4. UNCHANGED <<inputs, targets, dispatched, outcome, collected>>
    BY <1>3 DEF FilterPanics
  <2> QED
    BY <2>1, <2>3, <2>4, PanicEnds DEF Faults
<1>4. CASE RouteAmbiguous
  <2>1. pc = "conditions"
    BY <1>4 DEF RouteAmbiguous, Evaluating
  <2>2. UNCHANGED <<inputs, targets, dispatched, outcome, collected>>
    BY <1>4 DEF RouteAmbiguous
  <2>3. CASE ValidStatus(cfg.no_targets_status)
    <3>1. Respond("no_target", None, None, cfg.no_targets_status)
      BY <1>4, <2>3 DEF RouteAmbiguous
    <3>2. cfg.no_targets_status \in Nat /\ None \in Option(TargetIds) /\ TypeOK
      BY NoneAssumption DEF IInv, TypeOK, Listener, Option
    <3>3. answer = None /\ fault = "none"
      BY <2>1, Running
    <3>4. pc' \in {"answered", "panicked"} /\ pos' = pos /\ ProperEnd
      BY <3>1, <3>2, <3>3, RespondEnds
    <3> QED
      BY <2>1, <2>2, <3>4 DEF Ending, Quits
  <2>4. CASE ~ValidStatus(cfg.no_targets_status)
    BY <1>4, <2>1, <2>2, <2>4, FailEnds DEF RouteAmbiguous, Fail
  <2> QED
    BY <2>3, <2>4
<1> QED
  BY <1>1, <1>2, <1>3, <1>4

LEMMA RelayingEnds ==
  ASSUME IInv, BuildFails \/ DispatchPanics \/ TargetBodyFails \/ Select \/ Disconnect
  PROVE  Ending
<1> USE DEF Ended
<1>1. CASE BuildFails
  BY <1>1, FailEnds DEF BuildFails, Dispatching, Fail
<1>2. CASE DispatchPanics
  <2>1. pc \notin Ended
    BY <1>2 DEF DispatchPanics, Dispatching
  <2>2. UNCHANGED <<inputs, targets, dispatched, outcome, collected>>
        /\ (Panic("header_transform") \/ Panic("uri_host") \/ Panic("https_client"))
    BY <1>2 DEF DispatchPanics
  <2> QED
    BY <2>1, <2>2, PanicEnds DEF Faults
<1>3. CASE TargetBodyFails
  BY <1>3, PanicEnds DEF TargetBodyFails, Faults
<1>4. CASE Select
  <2>1. answer = None /\ fault = "none" /\ pc = "select" /\ TypeOK
    BY <1>4, Running DEF Select, IInv
  <2>2. Quits /\ ProperEnd
    BY <1>4, <2>1, SelectEnds
  <2> QED
    BY <2>1, <2>2 DEF Ending
<1>5. CASE Disconnect
  BY <1>5, FailEnds DEF Disconnect, AtAwait, Dispatching, Collecting
<1> QED
  BY <1>1, <1>2, <1>3, <1>4, <1>5

LEMMA StepCases ==
  ASSUME IInv, [Next]_vars
  PROVE  \/ Ending
         \/ AcceptMethod \/ ReadRequestBody
         \/ SelectTarget \/ RouteTarget \/ BeginDispatch
         \/ SignAndSpawn \/ SignFails \/ BeginCollect
         \/ \E p \in Positions : SettleTask(p)
         \/ CollectSigningError \/ CollectError \/ CollectHead
         \/ ReadTargetBody \/ BeginPreprocess
         \/ Inserting \/ BeginSelect
         \/ UNCHANGED vars
<1>1. CASE Preprocess
  <2>1. pc \notin Ended
    BY <1>1 DEF Preprocess, Ended
  <2>2. CASE Panic("status") /\ UNCHANGED responses
    BY <1>1, <2>1, <2>2, PanicEnds DEF Preprocess, Faults, collected
  <2> QED
    BY <1>1, <2>2 DEF Preprocess, Inserting
<1> QED
  BY <1>1, PrepareEnds, RelayingEnds
     DEF Next, Prepare, Dispatch, Conclude, Peers, Terminated

-----------------------------------------------------------------------------
\* Appending to a sequence keeps its elements and adds one.
LEMMA Appended ==
  ASSUME NEW S, NEW s \in Seq(S), NEW e \in S
  PROVE  /\ Append(s, e) \in Seq(S)
         /\ Len(s) \in Nat /\ DOMAIN s = 1 .. Len(s)
         /\ Len(Append(s, e)) = Len(s) + 1
         /\ DOMAIN Append(s, e) = 1 .. Len(s) + 1
         /\ \A i \in 1 .. Len(s) : Append(s, e)[i] = s[i]
         /\ Append(s, e)[Len(s) + 1] = e
OBVIOUS

LEMMA Alone ==
  ASSUME NEW S, NEW e \in S
  PROVE  <<e>> \in Seq(S) /\ Len(<<e>>) = 1 /\ DOMAIN <<e>> = 1 .. 1 /\ <<e>>[1] = e
OBVIOUS

\* The bounds and lengths that the vectors share.
LEMMA Lengths ==
  ASSUME IInv
  PROVE  /\ MaxTargets \in Nat
         /\ Len(cfg.targets) \in Nat /\ DOMAIN cfg.targets = 1 .. Len(cfg.targets)
         /\ Len(cfg.targets) =< MaxTargets
         /\ Len(targets) \in Nat /\ DOMAIN targets = 1 .. Len(targets)
         /\ Len(targets) =< Len(cfg.targets)
         /\ Len(target_requests) \in Nat
         /\ DOMAIN target_requests = 1 .. Len(target_requests)
         /\ Len(target_requests) =< Len(targets)
         /\ Len(target_ids) = Len(target_requests)
         /\ DOMAIN target_ids = 1 .. Len(target_requests)
         /\ Len(results) \in Nat /\ DOMAIN results = 1 .. Len(results)
         /\ Len(results) =< Len(target_requests)
         /\ pos \in Nat \ {0}
<1>1. cfg.targets \in Seq(Target) /\ Len(cfg.targets) =< MaxTargets
  BY DEF IInv, TypeOK, Listener
<1>2. /\ targets \in Seq(Positions)
      /\ target_requests \in Seq(DispatchKinds)
      /\ target_ids \in Seq(TargetIds)
      /\ results \in Seq(ResponseResults)
      /\ pos \in 1 .. MaxTargets + 1
  BY DEF IInv, TypeOK
<1>3. /\ Len(targets) =< Len(cfg.targets)
      /\ Len(target_requests) =< Len(targets)
      /\ Len(target_ids) = Len(target_requests)
      /\ Len(results) =< Len(target_requests)
  BY DEF IInv, SelectionInOrder, DispatchInStep, ResultsInStep
<1>4. MaxTargets \in Nat
  BY RelayAssumption
<1> QED
  BY <1>1, <1>2, <1>3, <1>4

LEMMA ConfiguredTarget ==
  ASSUME IInv, NEW p \in DOMAIN cfg.targets
  PROVE  /\ p \in Positions
         /\ cfg.targets[p] \in Target
         /\ cfg.targets[p].id \in TargetIds
         /\ cfg.targets[p].on_error \in OnErrorActions
         /\ cfg.targets[p].error_status \in Option(Nat)
<1>1. cfg.targets \in Seq(Target) /\ p \in 1 .. Len(cfg.targets)
  BY Lengths DEF IInv, TypeOK, Listener
<1>2. cfg.targets[p] \in Target
  BY <1>1
<1>3. p \in Positions
  BY <1>1, Lengths DEF Positions
<1> QED
  BY <1>2, <1>3, NoneAssumption DEF Target, Option

LEMMA SelectedTarget ==
  ASSUME IInv, NEW i \in DOMAIN targets
  PROVE  targets[i] \in DOMAIN cfg.targets
BY DEF IInv, SelectionInOrder

\* What becomes of a result is a status, or None.
LEMMA PreprocessedStatus ==
  ASSUME NEW t, t.on_error \in OnErrorActions, t.error_status \in Option(Nat),
         NEW r \in ResponseResults
  PROVE  Preprocessed(t, r) \in Option(Nat)
<1>1. r \in {Success(s) : s \in TargetStatuses} \cup {Failure(k) : k \in FailureKinds}
  BY DEF ResponseResults, TaskResults, FailureKinds
<1>2. ASSUME NEW s \in TargetStatuses, r = Success(s)
      PROVE  Preprocessed(t, r) \in Option(Nat)
  <2>1. r.kind = "ok" /\ r.status = s /\ s \in Nat
    BY <1>2, RelayAssumption DEF Success
  <2> QED
    BY <2>1 DEF Preprocessed, Option
<1>3. ASSUME NEW k \in FailureKinds, r = Failure(k)
      PROVE  Preprocessed(t, r) \in Option(Nat)
  <2>1. r.kind = k /\ r.kind # "ok"
    BY <1>3 DEF Failure, FailureKinds
  <2>2. ErrorStatus(k) \in Nat
    BY DEF ErrorStatus
  <2>3. CASE t.on_error = "propagate"
    BY <2>1, <2>2, <2>3 DEF Preprocessed, Option
  <2>4. CASE t.on_error = "status"
    BY <2>1, <2>4 DEF Preprocessed
  <2>5. CASE t.on_error = "drop"
    BY <2>1, <2>5 DEF Preprocessed, Option
  <2> QED
    BY <2>3, <2>4, <2>5 DEF OnErrorActions
<1> QED
  BY <1>1, <1>2, <1>3

LEMMA TypePreserved ==
  ASSUME IInv, [Next]_vars
  PROVE  TypeOK'
<1>0. TypeOK
  BY DEF IInv
<1> USE <1>0, Lengths DEF TypeOK
<1>1. CASE Ending
  BY <1>1 DEF Ending, Quits, ProperEnd, inputs, dispatched, collected, Ended, PcStates
<1>2. CASE AcceptMethod
  BY <1>2 DEF AcceptMethod, Goto, inputs, dispatched, collected, PcStates
<1>3. CASE ReadRequestBody
  BY <1>3 DEF ReadRequestBody, Begin, inputs, dispatched, collected, PcStates
<1>4. CASE SelectTarget
  <2>1. pos \in Positions /\ pos' = pos + 1 /\ pos' \in 1 .. MaxTargets + 1
    BY <1>4 DEF SelectTarget, Evaluating, Advance, Positions
  <2>2. targets' \in Seq(Positions)
    BY <1>4, <2>1, Appended DEF SelectTarget
  <2> QED
    BY <1>4, <2>1, <2>2 DEF SelectTarget, Advance, inputs, dispatched, collected
<1>5. CASE RouteTarget
  <2>1. pos \in Positions /\ pos' = pos + 1 /\ pos' \in 1 .. MaxTargets + 1
    BY <1>5 DEF RouteTarget, Evaluating, Advance, Positions
  <2>2. targets' = targets \/ targets' = <<pos>>
    BY <1>5 DEF RouteTarget
  <2>3. targets' \in Seq(Positions)
    <3>1. <<pos>> \in Seq(Positions)
      BY <2>1, Alone, Zenon
    <3> QED
      BY <2>2, <3>1
  <2> QED
    BY <1>5, <2>1, <2>3 DEF RouteTarget, Advance, inputs, dispatched, collected
<1>6. CASE BeginDispatch
  BY <1>6 DEF BeginDispatch, Begin, inputs, dispatched, collected, PcStates
<1>7. ASSUME Dispatching, NEW kind \in DispatchKinds, Enqueue(kind),
             spawned' = spawned \/ spawned' = spawned \cup {targets[pos]},
             UNCHANGED <<inputs, targets, outcome, collected, answer, fault>>
      PROVE  TypeOK'
  <2>1. pos' = pos + 1 /\ pos' \in 1 .. MaxTargets + 1 /\ pc' = pc
    BY <1>7 DEF Dispatching, Enqueue, Advance
  <2>2. targets[pos] \in DOMAIN cfg.targets
    BY <1>7, SelectedTarget DEF Dispatching
  <2>3. Selected.id \in TargetIds /\ targets[pos] \in Positions
    BY <2>2, ConfiguredTarget DEF Selected
  <2>4. target_requests' \in Seq(DispatchKinds) /\ target_ids' \in Seq(TargetIds)
    BY <1>7, <2>3, Appended DEF Enqueue
  <2> QED
    BY <1>7, <2>1, <2>3, <2>4 DEF inputs, collected
<1>8. CASE SignAndSpawn
  BY <1>7, <1>8 DEF SignAndSpawn, DispatchKinds
<1>9. CASE SignFails
  BY <1>7, <1>9 DEF SignFails, DispatchKinds
<1>10. CASE BeginCollect
  BY <1>10 DEF BeginCollect, Begin, inputs, dispatched, collected, PcStates
<1>11. ASSUME NEW p \in Positions, SettleTask(p) PROVE TypeOK'
  BY <1>11 DEF SettleTask, inputs, dispatched, collected, Option
<1>12. ASSUME pos \in DOMAIN target_requests, NEW r \in ResponseResults,
              results' = Append(results, r), pos' = pos + 1, pc' = "collect",
              UNCHANGED <<inputs, targets, dispatched, outcome, responses, answer, fault>>
       PROVE  TypeOK'
  <2>1. pos' \in 1 .. MaxTargets + 1
    BY <1>12
  <2>2. results' \in Seq(ResponseResults)
    BY <1>12, Appended
  <2> QED
    BY <1>12, <2>1, <2>2 DEF inputs, dispatched, PcStates
<1>13. CASE CollectSigningError
  BY <1>12, <1>13 DEF CollectSigningError, Collecting, Advance, ResponseResults
<1>14. pos \in DOMAIN target_requests /\ Awaited # None => Awaited \in ResponseResults
  <2> SUFFICES ASSUME pos \in DOMAIN target_requests, Awaited # None
               PROVE  Awaited \in ResponseResults
    OBVIOUS
  <2>1. targets[pos] \in DOMAIN cfg.targets
    BY SelectedTarget
  <2>2. targets[pos] \in Positions
    BY <2>1, ConfiguredTarget
  <2> QED
    BY <2>2 DEF Awaited, ResponseResults, Option
<1>15. CASE CollectError
  BY <1>12, <1>14, <1>15 DEF CollectError, Collecting, Advance
<1>16. CASE CollectHead
  BY <1>16 DEF CollectHead, Goto, inputs, dispatched, collected, PcStates
<1>17. CASE ReadTargetBody
  <2>1. pos \in DOMAIN target_requests /\ Awaited # None
    BY <1>17 DEF ReadTargetBody, IInv, ResultsInStep
  <2> QED
    BY <1>12, <1>14, <1>17, <2>1 DEF ReadTargetBody
<1>18. CASE BeginPreprocess
  BY <1>18 DEF BeginPreprocess, Begin, inputs, dispatched, collected, PcStates
<1>19. CASE Inserting
  <2>1. pos \in DOMAIN results /\ pos' = pos + 1 /\ pos' \in 1 .. MaxTargets + 1 /\ pc' = pc
    BY <1>19 DEF Inserting, Preprocess, Advance
  <2>2. targets[pos] \in DOMAIN cfg.targets
    BY <2>1, SelectedTarget
  <2>3. results[pos] \in ResponseResults /\ target_ids[pos] \in TargetIds
    BY <2>1
  <2> DEFINE status == Preprocessed(cfg.targets[targets[pos]], results[pos])
  <2>4. status \in Option(Nat)
    BY <2>2, <2>3, ConfiguredTarget, PreprocessedStatus
  <2>5. responses' = [i \in DOMAIN responses \cup {target_ids[pos]} |->
                        IF i = target_ids[pos] THEN status ELSE responses[i]]
    BY <1>19 DEF Inserting, Preprocess, Advance, Panic, Goto
  <2>6. /\ DOMAIN responses' \subseteq TargetIds
        /\ \A id \in DOMAIN responses' : responses'[id] \in Option(Nat)
    <3> HIDE DEF status
    <3> QED
      BY <2>3, <2>4, <2>5
  <2> QED
    BY <1>19, <2>1, <2>6 DEF Inserting, Preprocess, inputs, dispatched
<1>20. CASE BeginSelect
  BY <1>20 DEF BeginSelect, Goto, inputs, dispatched, collected, PcStates
<1>21. CASE UNCHANGED vars
  BY <1>21 DEF vars
<1> QED
  BY <1>1, <1>2, <1>3, <1>4, <1>5, <1>6, <1>8, <1>9, <1>10, <1>11, <1>13, <1>15,
     <1>16, <1>17, <1>18, <1>19, <1>20, <1>21, StepCases

-----------------------------------------------------------------------------
LEMMA SelectionPreserved ==
  ASSUME IInv, [Next]_vars, TypeOK'
  PROVE  SelectionInOrder'
<1>0. SelectionInOrder /\ TypeOK
  BY DEF IInv
<1> USE Lengths
<1>1. CASE UNCHANGED <<cfg, targets>> /\ pc' \notin Choosing
  BY <1>0, <1>1 DEF SelectionInOrder, Choosing
<1>2. CASE Ending
  BY <1>1, <1>2 DEF Ending, Quits, inputs, Ended, Choosing
<1>3. CASE AcceptMethod
  BY <1>0, <1>3 DEF AcceptMethod, Goto, inputs, SelectionInOrder
<1>4. CASE ReadRequestBody
  BY <1>0, <1>4 DEF ReadRequestBody, Begin, inputs, SelectionInOrder
<1>5. CASE SelectTarget
  <2>1. /\ pos \in 1 .. Len(cfg.targets) /\ pos' = pos + 1 /\ pc' = pc /\ pc = "conditions"
        /\ cfg' = cfg
    BY <1>5 DEF SelectTarget, Evaluating, Advance, inputs
  <2>2. /\ Len(targets) < pos
        /\ \A i \in DOMAIN targets : targets[i] < pos
    BY <1>0, <2>1 DEF SelectionInOrder
  <2>3. CASE targets' = targets
    BY <1>0, <2>1, <2>2, <2>3 DEF SelectionInOrder, TypeOK
  <2>4. CASE targets' = Append(targets, pos)
    <3>1. targets \in Seq(Positions) /\ pos \in Positions
      BY <1>0, <2>1 DEF TypeOK, Positions
    <3>2. /\ Len(targets') = Len(targets) + 1
          /\ DOMAIN targets' = 1 .. Len(targets) + 1
          /\ \A i \in 1 .. Len(targets) : targets'[i] = targets[i]
          /\ targets'[Len(targets) + 1] = pos
      BY <2>4, <3>1, Appended
    <3>3. \A i \in DOMAIN targets' : targets'[i] \in DOMAIN cfg.targets /\ targets'[i] < pos'
      BY <1>0, <2>1, <2>2, <3>2 DEF SelectionInOrder
    <3>4. \A i, j \in DOMAIN targets' : i < j => targets'[i] < targets'[j]
      BY <1>0, <2>2, <3>2 DEF SelectionInOrder
    <3> QED
      BY <2>1, <2>2, <3>2, <3>3, <3>4 DEF SelectionInOrder
  <2> QED
    BY <1>5, <2>3, <2>4 DEF SelectTarget
<1>6. CASE RouteTarget
  <2>1. /\ pos \in 1 .. Len(cfg.targets) /\ pos' = pos + 1 /\ pc' = pc /\ pc = "conditions"
        /\ cfg' = cfg
    BY <1>6 DEF RouteTarget, Evaluating, Advance, inputs
  <2>2. /\ Len(targets) < pos
        /\ \A i \in DOMAIN targets : targets[i] < pos
    BY <1>0, <2>1 DEF SelectionInOrder
  <2>3. CASE targets' = targets
    BY <1>0, <2>1, <2>2, <2>3 DEF SelectionInOrder, TypeOK
  <2>4. CASE targets' = <<pos>>
    <3>1. Len(targets') = 1 /\ DOMAIN targets' = 1 .. 1 /\ targets'[1] = pos
      BY <2>1, <2>4, Alone
    <3> QED
      BY <2>1, <2>2, <3>1 DEF SelectionInOrder
  <2> QED
    BY <1>6, <2>3, <2>4 DEF RouteTarget
<1>7. CASE BeginDispatch
  BY <1>1, <1>7 DEF BeginDispatch, Begin, inputs, Choosing
<1>8. CASE SignAndSpawn \/ SignFails
  BY <1>1, <1>8 DEF SignAndSpawn, SignFails, Dispatching, Enqueue, Advance, inputs, Choosing
<1>9. CASE BeginCollect \/ CollectHead \/ BeginPreprocess \/ BeginSelect
  BY <1>1, <1>9 DEF BeginCollect, CollectHead, BeginPreprocess, BeginSelect, Begin, Goto,
                    inputs, Choosing
<1>10. ASSUME NEW p \in Positions, SettleTask(p) PROVE SelectionInOrder'
  BY <1>0, <1>10 DEF SettleTask, inputs, SelectionInOrder
<1>11. CASE CollectSigningError \/ CollectError \/ ReadTargetBody
  BY <1>1, <1>11 DEF CollectSigningError, CollectError, ReadTargetBody, Collecting, Advance,
                     inputs, Choosing
<1>12. CASE Inserting
  BY <1>1, <1>12 DEF Inserting, Preprocess, Advance, inputs, Choosing
<1>13. CASE UNCHANGED vars
  BY <1>0, <1>13 DEF vars, SelectionInOrder
<1> QED
  BY <1>2, <1>3, <1>4, <1>5, <1>6, <1>7, <1>8, <1>9, <1>10, <1>11, <1>12, <1>13, StepCases

\* Distinct entries of `targets` are distinct targets, with distinct ids.
LEMMA TargetsDistinct ==
  ASSUME IInv, NEW i \in DOMAIN targets, NEW j \in DOMAIN targets, i # j
  PROVE  /\ targets[i] # targets[j]
         /\ cfg.targets[targets[i]].id # cfg.targets[targets[j]].id
<1>1. targets[i] # targets[j]
  <2>1. i \in Int /\ j \in Int
    BY Lengths
  <2>2. targets[i] \in Int /\ targets[j] \in Int
    BY SelectedTarget, Lengths
  <2>3. CASE i < j
    BY <2>2, <2>3 DEF IInv, SelectionInOrder
  <2>4. CASE j < i
    BY <2>2, <2>4 DEF IInv, SelectionInOrder
  <2> QED
    BY <2>1, <2>3, <2>4
<1>2. targets[i] \in DOMAIN cfg.targets /\ targets[j] \in DOMAIN cfg.targets
  BY SelectedTarget
<1>3. TargetsValid(cfg.targets)
  BY DEF IInv, TypeOK, ListenerValid
<1> QED
  BY <1>1, <1>2, <1>3 DEF TargetsValid

LEMMA DispatchPreserved ==
  ASSUME IInv, [Next]_vars, TypeOK'
  PROVE  DispatchInStep'
<1>0. DispatchInStep /\ TypeOK
  BY DEF IInv
<1> USE Lengths
<1>1. CASE Ending
  BY <1>0, <1>1 DEF Ending, Quits, inputs, dispatched, Ended, Choosing, Dispatched, Collected,
                    DispatchInStep
<1>2. CASE AcceptMethod \/ ReadRequestBody
  BY <1>0, <1>2 DEF AcceptMethod, ReadRequestBody, Goto, Begin, inputs, dispatched, Choosing,
                    Dispatched, Collected, DispatchInStep
<1>3. CASE SelectTarget \/ RouteTarget
  <2>1. /\ pc = "conditions" /\ pc' = pc
        /\ UNCHANGED <<cfg, target_requests, target_ids, spawned>>
    BY <1>3 DEF SelectTarget, RouteTarget, Evaluating, Advance, inputs, dispatched
  <2>2. target_requests = << >> /\ spawned = {} /\ Len(target_ids) = 0
    BY <1>0, <2>1 DEF DispatchInStep, Choosing
  <2>3. Len(targets') \in Nat
    BY DEF TypeOK
  <2> QED
    BY <2>1, <2>2, <2>3 DEF DispatchInStep, Dispatched, Collected
<1>4. CASE BeginDispatch
  BY <1>0, <1>4 DEF BeginDispatch, Begin, inputs, dispatched, Choosing, Dispatched, Collected,
                    DispatchInStep
<1>5. ASSUME Dispatching, NEW kind \in DispatchKinds, Enqueue(kind),
             spawned' = IF kind = "spawned" THEN spawned \cup {targets[pos]} ELSE spawned,
             UNCHANGED <<inputs, targets>>
      PROVE  DispatchInStep'
  <2>1. /\ pc = "dispatch" /\ pc' = pc /\ pos' = pos + 1 /\ pos \in 1 .. Len(targets)
        /\ UNCHANGED <<cfg, targets>>
    BY <1>5 DEF Dispatching, Enqueue, Advance, inputs
  <2>2. Len(target_requests) = pos - 1
    BY <1>0, <2>1 DEF DispatchInStep
  <2>3. Selected.id \in TargetIds
    BY <2>1, SelectedTarget, ConfiguredTarget DEF Selected
  <2>4. /\ Len(target_requests') = pos /\ DOMAIN target_requests' = 1 .. pos
        /\ \A i \in 1 .. pos - 1 : target_requests'[i] = target_requests[i]
        /\ target_requests'[pos] = kind
    BY <1>0, <1>5, <2>2, Appended DEF TypeOK, Enqueue
  <2>5. /\ Len(target_ids') = pos
        /\ \A i \in 1 .. pos - 1 : target_ids'[i] = target_ids[i]
        /\ target_ids'[pos] = Selected.id
    BY <1>0, <1>5, <2>2, <2>3, Appended DEF TypeOK, Enqueue
  <2>6. \A i \in 1 .. pos - 1 : targets[i] # targets[pos]
    BY <2>1, TargetsDistinct
  <2>7. targets[pos] \notin spawned
    BY <1>0, <2>1, <2>2, <2>6 DEF DispatchInStep
  <2>8. \A i \in 1 .. pos :
          /\ target_ids'[i] = cfg.targets[targets[i]].id
          /\ target_requests'[i] = "spawned" <=> targets[i] \in spawned'
    <3> SUFFICES ASSUME NEW i \in 1 .. pos
                 PROVE  /\ target_ids'[i] = cfg.targets[targets[i]].id
                        /\ target_requests'[i] = "spawned" <=> targets[i] \in spawned'
      OBVIOUS
    <3>1. CASE i = pos
      BY <1>5, <2>4, <2>5, <2>7, <3>1 DEF Selected
    <3>2. CASE i \in 1 .. pos - 1
      BY <1>0, <1>5, <2>2, <2>4, <2>5, <2>6, <3>2 DEF DispatchInStep
    <3> QED
      BY <2>1, <3>1, <3>2
  <2>9. \A p \in spawned' : \E i \in 1 .. pos : targets[i] = p
    BY <1>0, <1>5, <2>1, <2>2 DEF DispatchInStep
  <2> QED
    BY <2>1, <2>4, <2>5, <2>8, <2>9 DEF DispatchInStep, Choosing, Dispatched, Collected
<1>6. CASE SignAndSpawn
  BY <1>5, <1>6 DEF SignAndSpawn, DispatchKinds
<1>7. CASE SignFails
  BY <1>5, <1>7 DEF SignFails, DispatchKinds
<1>8. CASE BeginCollect
  <2>1. pc = "dispatch" /\ pos = Len(targets) + 1
    BY <1>8 DEF BeginCollect
  <2>2. Len(target_requests) = pos - 1
    BY <1>0, <2>1 DEF DispatchInStep
  <2>3. Len(target_requests) = Len(targets)
    BY <2>1, <2>2
  <2> QED
    BY <1>0, <1>8, <2>3 DEF BeginCollect, Begin, inputs, dispatched, Choosing, Dispatched,
                            Collected, DispatchInStep
<1>9. ASSUME NEW p \in Positions, SettleTask(p) PROVE DispatchInStep'
  BY <1>0, <1>9 DEF SettleTask, inputs, dispatched, DispatchInStep
<1>10. CASE UNCHANGED <<cfg, targets, target_requests, target_ids, spawned>>
            /\ pc \in Dispatched /\ pc' \in Dispatched
  BY <1>0, <1>10 DEF Choosing, Dispatched, Collected, DispatchInStep
<1>11. CASE CollectHead \/ BeginPreprocess \/ BeginSelect
  BY <1>10, <1>11 DEF CollectHead, BeginPreprocess, BeginSelect, Collecting, Begin, Goto,
                      inputs, dispatched, Dispatched, Collected
<1>12. CASE CollectSigningError \/ CollectError \/ ReadTargetBody
  BY <1>10, <1>12 DEF CollectSigningError, CollectError, ReadTargetBody, Collecting, Advance,
                      inputs, dispatched, Dispatched
<1>13. CASE Inserting
  BY <1>10, <1>13 DEF Inserting, Preprocess, Advance, inputs, dispatched, Dispatched, Collected
<1>14. CASE UNCHANGED vars
  BY <1>0, <1>14 DEF vars, DispatchInStep
<1> QED
  BY <1>1, <1>2, <1>3, <1>4, <1>6, <1>7, <1>8, <1>9, <1>11, <1>12, <1>13, <1>14, StepCases

-----------------------------------------------------------------------------
LEMMA ResultsPreserved ==
  ASSUME IInv, [Next]_vars, TypeOK'
  PROVE  ResultsInStep'
<1>0. ResultsInStep /\ DispatchInStep /\ TypeOK
  BY DEF IInv
<1> USE Lengths
<1>1. CASE UNCHANGED <<targets, target_requests, outcome, results>>
           /\ pc' \in Ended \cup {"preprocess", "select"}
           /\ (pc' \in Collected => Len(results) = Len(target_requests))
  BY <1>0, <1>1 DEF ResultsInStep, ResultOf, Choosing, Collected, Ended
<1>2. CASE Ending
  BY <1>1, <1>2 DEF Ending, Quits, dispatched, collected, Ended, Collected
<1>3. CASE results = << >> /\ UNCHANGED results /\ Len(target_requests') \in Nat
           /\ (pc' \in Choosing \cup {"dispatch"} \/ (pc' = "collect" /\ pos' = 1))
  BY <1>3 DEF ResultsInStep, Choosing, Collected
<1>4. pc \in Choosing \cup {"dispatch"} => results = << >>
  BY <1>0 DEF ResultsInStep
<1>5. Len(target_requests') \in Nat
  BY DEF TypeOK
<1>6. CASE AcceptMethod \/ ReadRequestBody \/ BeginDispatch
  BY <1>3, <1>4, <1>5, <1>6 DEF AcceptMethod, ReadRequestBody, BeginDispatch, Goto, Begin,
                                Choosing, collected
<1>7. CASE SelectTarget \/ RouteTarget
  BY <1>3, <1>4, <1>5, <1>7 DEF SelectTarget, RouteTarget, Evaluating, Advance, Choosing,
                                collected
<1>8. CASE SignAndSpawn \/ SignFails
  BY <1>3, <1>4, <1>5, <1>8 DEF SignAndSpawn, SignFails, Dispatching, Enqueue, Advance,
                                collected
<1>9. CASE BeginCollect
  BY <1>3, <1>4, <1>5, <1>9 DEF BeginCollect, Begin, collected
<1>10. ASSUME NEW p \in Positions, SettleTask(p) PROVE ResultsInStep'
  <2>1. /\ outcome[p] = None
        /\ UNCHANGED <<pc, pos, targets, target_requests, results>>
        /\ \A q \in Positions \ {p} : outcome'[q] = outcome[q]
    BY <1>0, <1>10 DEF SettleTask, dispatched, collected, TypeOK
  <2>2. \A i \in DOMAIN targets : targets[i] \in Positions
    BY SelectedTarget, ConfiguredTarget
  <2>3. \A i \in DOMAIN target_requests :
          outcome[targets[i]] # None => outcome'[targets[i]] = outcome[targets[i]]
    BY <2>1, <2>2
  <2>4. \A i \in DOMAIN results :
          /\ results[i] = ResultOf(i)'
          /\ target_requests[i] = "spawned" => outcome'[targets[i]] # None
    <3> SUFFICES ASSUME NEW i \in DOMAIN results
                 PROVE  /\ results[i] = ResultOf(i)'
                        /\ target_requests[i] = "spawned" => outcome'[targets[i]] # None
      OBVIOUS
    <3>1. /\ results[i] = ResultOf(i)
          /\ target_requests[i] = "spawned" => outcome[targets[i]] # None
      BY <1>0 DEF ResultsInStep
    <3>2. i \in DOMAIN target_requests
      OBVIOUS
    <3>3. target_requests[i] = "spawned" => outcome'[targets[i]] = outcome[targets[i]]
      BY <2>3, <3>1, <3>2
    <3> QED
      BY <2>1, <3>1, <3>3 DEF ResultOf
  <2>5. pc = "reading" => Awaited' # None
    BY <1>0, <2>1, <2>3 DEF ResultsInStep, Awaited
  <2> QED
    BY <1>0, <2>1, <2>4, <2>5 DEF ResultsInStep
<1>11. ASSUME pc \in {"collect", "reading"}, pos \in DOMAIN target_requests,
              NEW r \in ResponseResults, results' = Append(results, r),
              r = ResultOf(pos), target_requests[pos] = "spawned" => r # None,
              pos' = pos + 1, pc' = "collect",
              UNCHANGED <<targets, target_requests, outcome>>
       PROVE  ResultsInStep'
  <2>1. Len(results) = pos - 1 /\ results \in Seq(ResponseResults)
    BY <1>0, <1>11 DEF ResultsInStep, TypeOK
  <2>2. /\ Len(results') = pos /\ DOMAIN results' = 1 .. pos
        /\ \A i \in 1 .. pos - 1 : results'[i] = results[i]
        /\ results'[pos] = r
    BY <1>11, <2>1, Appended
  <2>3. \A i \in DOMAIN target_requests : ResultOf(i)' = ResultOf(i)
    BY <1>11 DEF ResultOf
  <2>4. \A i \in 1 .. pos :
          /\ results'[i] = ResultOf(i)
          /\ target_requests[i] = "spawned" => outcome[targets[i]] # None
    <3> SUFFICES ASSUME NEW i \in 1 .. pos
                 PROVE  /\ results'[i] = ResultOf(i)
                        /\ target_requests[i] = "spawned" => outcome[targets[i]] # None
      OBVIOUS
    <3>1. CASE i = pos
      BY <1>11, <2>2, <3>1 DEF ResultOf
    <3>2. CASE i \in 1 .. pos - 1
      BY <1>0, <2>1, <2>2, <3>2 DEF ResultsInStep
    <3> QED
      BY <3>1, <3>2
  <2> QED
    BY <1>11, <2>2, <2>3, <2>4 DEF ResultsInStep, Choosing, Collected
<1>12. CASE CollectSigningError
  <2>1. target_requests[pos] = "signing_failed" /\ pos \in DOMAIN target_requests
        /\ pc = "collect"
    BY <1>12 DEF CollectSigningError, Collecting
  <2> QED
    BY <1>11, <1>12, <2>1 DEF CollectSigningError, Advance, ResponseResults, ResultOf, dispatched
<1>13. ASSUME pos \in DOMAIN target_requests, target_requests[pos] = "spawned", Awaited # None
       PROVE  Awaited = ResultOf(pos) /\ Awaited \in ResponseResults
  <2>1. targets[pos] \in Positions
    BY <1>13, SelectedTarget, ConfiguredTarget
  <2> QED
    BY <1>0, <1>13, <2>1 DEF Awaited, ResultOf, TypeOK, Option, ResponseResults
<1>14. CASE CollectError
  BY <1>11, <1>13, <1>14 DEF CollectError, Collecting, Advance, dispatched
<1>15. CASE ReadTargetBody
  <2>1. pos \in DOMAIN target_requests /\ target_requests[pos] = "spawned" /\ Awaited # None
    BY <1>0, <1>15 DEF ReadTargetBody, ResultsInStep
  <2> QED
    BY <1>11, <1>13, <1>15, <2>1 DEF ReadTargetBody, dispatched
<1>16. CASE CollectHead
  BY <1>0, <1>16 DEF CollectHead, Collecting, Goto, dispatched, collected, ResultsInStep,
                     ResultOf, Awaited, Choosing, Collected
<1>17. CASE BeginPreprocess
  <2>1. pc = "collect" /\ pos = Len(target_requests) + 1
    BY <1>17 DEF BeginPreprocess
  <2>2. Len(results) = pos - 1
    BY <1>0, <2>1 DEF ResultsInStep
  <2>3. Len(results) = Len(target_requests)
    BY <2>1, <2>2
  <2> QED
    BY <1>1, <1>17, <2>3 DEF BeginPreprocess, Begin, dispatched, collected
<1>18. CASE Inserting \/ BeginSelect
  <2>1. pc = "preprocess" /\ pc' \in Collected
    BY <1>18 DEF Inserting, Preprocess, Advance, BeginSelect, Goto, Collected
  <2>2. Len(results) = Len(target_requests)
    BY <1>0, <2>1 DEF ResultsInStep, Collected
  <2> QED
    BY <1>1, <1>18, <2>1, <2>2 DEF Inserting, Preprocess, BeginSelect, dispatched, collected,
                                   Collected
<1>19. CASE UNCHANGED vars
  BY <1>0, <1>19 DEF vars, ResultsInStep, ResultOf, Awaited
<1> QED
  BY <1>2, <1>6, <1>7, <1>8, <1>9, <1>10, <1>12, <1>14, <1>15, <1>16, <1>17, <1>18, <1>19,
     StepCases

LEMMA ResponsesPreserved ==
  ASSUME IInv, [Next]_vars, TypeOK'
  PROVE  ResponsesInStep'
<1>0. ResponsesInStep /\ DispatchInStep /\ TypeOK
  BY DEF IInv
<1> USE Lengths
<1>1. CASE pc' \notin {"preprocess", "select"}
  BY <1>1 DEF ResponsesInStep
<1>2. CASE UNCHANGED <<cfg, targets, results, responses, pc, pos>>
  BY <1>0, <1>2 DEF ResponsesInStep, ResponseLeft
<1>3. ASSUME NEW p \in Positions, SettleTask(p) PROVE ResponsesInStep'
  BY <1>2, <1>3 DEF SettleTask, inputs, collected
<1>4. CASE BeginPreprocess
  BY <1>4 DEF BeginPreprocess, Begin, collected, ResponsesInStep
<1>5. CASE Inserting
  <2>1. /\ pc = "preprocess" /\ pos \in DOMAIN results
        /\ pos' = pos + 1 /\ pc' = pc
        /\ UNCHANGED <<cfg, targets, results>>
    BY <1>5 DEF Inserting, Preprocess, Advance, inputs
  <2> DEFINE id == target_ids[pos]
             status == Preprocessed(cfg.targets[targets[pos]], results[pos])
  <2>2. id = cfg.targets[targets[pos]].id
    <3>1. pos \in DOMAIN target_requests
      BY <2>1
    <3> QED
      BY <1>0, <3>1 DEF DispatchInStep
  <2>3. responses' = [i \in DOMAIN responses \cup {id} |->
                        IF i = id THEN status ELSE responses[i]]
    BY <1>5 DEF Inserting, Preprocess, Advance, Panic, Goto
  <2>4. ASSUME NEW i \in DOMAIN results, i = pos
        PROVE  ResponseLeft(i)'
    <3>1. id \in DOMAIN responses' /\ responses'[id] = status
      BY <2>3
    <3> QED
      BY <2>1, <2>2, <2>4, <3>1 DEF ResponseLeft
  <2>5. ASSUME NEW i \in DOMAIN results, i < pos
        PROVE  ResponseLeft(i)'
    <3>1. ResponseLeft(i)
      BY <1>0, <2>1, <2>5 DEF ResponsesInStep
    <3>2. cfg.targets[targets[i]].id # id
      BY <2>1, <2>2, <2>5, TargetsDistinct
    <3> HIDE DEF status, id
    <3>3. cfg.targets[targets[i]].id \in DOMAIN responses'
          /\ responses'[cfg.targets[targets[i]].id] = responses[cfg.targets[targets[i]].id]
      BY <2>3, <3>1, <3>2 DEF ResponseLeft
    <3> QED
      BY <2>1, <3>1, <3>3 DEF ResponseLeft
  <2>6. \A i \in DOMAIN results : i < pos + 1 => ResponseLeft(i)'
    <3>1. \A i \in DOMAIN results : i < pos + 1 => i < pos \/ i = pos
      OBVIOUS
    <3> QED
      BY <2>4, <2>5, <3>1
  <2> QED
    BY <2>1, <2>6 DEF ResponsesInStep
<1>6. CASE BeginSelect
  <2>1. /\ pc = "preprocess" /\ pos = Len(results) + 1 /\ pc' = "select"
        /\ UNCHANGED <<cfg, targets, results, responses>>
    BY <1>6 DEF BeginSelect, Goto, inputs, collected
  <2>2. \A i \in DOMAIN results : ResponseLeft(i)
    BY <1>0, <2>1 DEF ResponsesInStep
  <2> QED
    BY <2>1, <2>2 DEF ResponsesInStep, ResponseLeft
<1>7. CASE Ending
  BY <1>1, <1>7 DEF Ending, Quits, Ended
<1>8. CASE AcceptMethod \/ ReadRequestBody \/ SelectTarget \/ RouteTarget \/ BeginDispatch
  BY <1>1, <1>8 DEF AcceptMethod, ReadRequestBody, SelectTarget, RouteTarget, BeginDispatch,
                    Evaluating, Goto, Begin, Advance
<1>9. CASE SignAndSpawn \/ SignFails \/ BeginCollect
  BY <1>1, <1>9 DEF SignAndSpawn, SignFails, BeginCollect, Dispatching, Enqueue, Begin, Advance
<1>10. CASE CollectSigningError \/ CollectError \/ CollectHead \/ ReadTargetBody
  BY <1>1, <1>10 DEF CollectSigningError, CollectError, CollectHead, ReadTargetBody,
                     Collecting, Goto, Advance
<1>11. CASE UNCHANGED vars
  BY <1>2, <1>11 DEF vars
<1> QED
  BY <1>3, <1>4, <1>5, <1>6, <1>7, <1>8, <1>9, <1>10, <1>11, StepCases

LEMMA EndsPreserved ==
  ASSUME IInv, [Next]_vars, TypeOK'
  PROVE  EndsInStep'
<1>0. EndsInStep /\ DispatchInStep /\ ResultsInStep /\ TypeOK
  BY DEF IInv
<1> USE Lengths
<1>1. CASE Ending
  <2>1. ProperEnd /\ pc' \in Ended /\ UNCHANGED <<spawned, outcome>>
    BY <1>1 DEF Ending, Quits, dispatched
  <2>2. CASE pc' = "answered"
    <3>1. pc \in {"accepted", "conditions", "select"}
      BY <1>1, <2>2 DEF Ending
    <3>2. Settled
      BY <1>0, <3>1 DEF EndsInStep, DispatchInStep, Choosing, Collected, Settled
    <3> QED
      BY <2>1, <2>2, <3>2 DEF EndsInStep, ProperEnd, Settled, NoSelfInflictedPanic
  <2>3. CASE pc' # "answered"
    BY <2>1, <2>3 DEF EndsInStep, ProperEnd, NoSelfInflictedPanic, Ended, Collected
  <2> QED
    BY <2>2, <2>3
<1>2. ASSUME pc \notin {"answered", "panicked"}, pc' \notin {"answered", "panicked"},
             pc' \in Collected => Settled', UNCHANGED <<answer, fault>>
      PROVE  EndsInStep'
  BY <1>2, Running DEF EndsInStep, NoSelfInflictedPanic
<1>3. CASE AcceptMethod \/ ReadRequestBody \/ SelectTarget \/ RouteTarget \/ BeginDispatch
  BY <1>2, <1>3 DEF AcceptMethod, ReadRequestBody, SelectTarget, RouteTarget, BeginDispatch,
                    Evaluating, Goto, Begin, Advance, Collected
<1>4. CASE SignAndSpawn \/ SignFails \/ BeginCollect
  BY <1>2, <1>4 DEF SignAndSpawn, SignFails, BeginCollect, Dispatching, Enqueue, Begin,
                    Advance, Collected
<1>5. CASE CollectSigningError \/ CollectError \/ CollectHead \/ ReadTargetBody
  BY <1>2, <1>5 DEF CollectSigningError, CollectError, CollectHead, ReadTargetBody,
                    Collecting, Goto, Advance, Collected
<1>6. ASSUME NEW p \in Positions, SettleTask(p) PROVE EndsInStep'
  <2>1. ~Settled /\ UNCHANGED <<pc, answer, fault>>
    BY <1>6 DEF SettleTask, Settled
  <2> QED
    BY <1>0, <2>1 DEF EndsInStep, NoSelfInflictedPanic
<1>7. CASE BeginPreprocess
  <2>1. pc = "collect" /\ pos = Len(target_requests) + 1
    BY <1>7 DEF BeginPreprocess
  <2>2. Len(results) = pos - 1
    BY <1>0, <2>1 DEF ResultsInStep
  <2>3. DOMAIN results = DOMAIN target_requests
    BY <2>1, <2>2
  <2>4. ASSUME NEW p \in spawned PROVE outcome[p] # None
    <3>1. PICK i \in DOMAIN target_requests : targets[i] = p
      BY <1>0 DEF DispatchInStep
    <3>2. target_requests[i] = "spawned"
      BY <1>0, <3>1 DEF DispatchInStep
    <3> QED
      BY <1>0, <2>3, <3>1, <3>2 DEF ResultsInStep
  <2>5. Settled'
    BY <1>7, <2>4 DEF BeginPreprocess, dispatched, Settled
  <2> QED
    BY <1>2, <1>7, <2>5 DEF BeginPreprocess, Begin
<1>8. CASE Inserting \/ BeginSelect
  <2>1. pc = "preprocess" /\ pc' \in Collected /\ UNCHANGED <<spawned, outcome, answer, fault>>
    BY <1>8 DEF Inserting, Preprocess, Advance, BeginSelect, Goto, Collected, dispatched
  <2>2. Settled'
    BY <1>0, <2>1 DEF EndsInStep, Collected, Settled
  <2> QED
    BY <1>2, <2>1, <2>2 DEF Collected
<1>9. CASE UNCHANGED vars
  BY <1>0, <1>9 DEF vars, EndsInStep, Settled, NoSelfInflictedPanic
<1> QED
  BY <1>1, <1>3, <1>4, <1>5, <1>6, <1>7, <1>8, <1>9, StepCases

\* A default target has no filter to hold.
LEMMA DefaultMatchesNot ==
  ASSUME NEW p, IsDefault(cfg.targets[p])
  PROVE  ~Matches(p)
BY DEF IsDefault, Matches

LEMMA RoutingPreserved ==
  ASSUME IInv, [Next]_vars, TypeOK'
  PROVE  RoutingInStep'
<1>0. RoutingInStep /\ SelectionInOrder /\ DispatchInStep /\ TypeOK
  BY DEF IInv
<1> USE Lengths
<1>1. ASSUME UNCHANGED <<inputs, targets>>
      PROVE  /\ Routing' = Routing
             /\ Len(cfg'.targets) = Len(cfg.targets)
             /\ \A n : RoutedBelow(n)' = RoutedBelow(n)
  BY <1>1 DEF inputs, Routing, RoutedBelow, Matches
<1>2. ASSUME UNCHANGED <<inputs, targets>>, pc' \notin Choosing,
             pc' \in Dispatched \cup {"dispatch"} \/ spawned' # {} =>
               pc \in Dispatched \cup {"dispatch"} \/ spawned # {}
      PROVE  RoutingInStep'
  BY <1>0, <1>1, <1>2 DEF RoutingInStep, Choosing
<1>3. CASE Ending
  BY <1>2, <1>3 DEF Ending, Quits, Ended, Choosing, Dispatched, Collected, dispatched
<1>4. CASE AcceptMethod \/ ReadRequestBody
  <2>1. UNCHANGED <<inputs, targets, spawned>> /\ spawned = {} /\ pc \in {"accepted", "body"}
    BY <1>0, <1>4 DEF AcceptMethod, ReadRequestBody, dispatched, DispatchInStep, Choosing
  <2>2. pc' = "body" \/ (pc' = "conditions" /\ pos' = 1)
    BY <1>4 DEF AcceptMethod, ReadRequestBody, Goto, Begin
  <2>3. Routing => RoutedBelow(1)
    BY <1>0, <2>1 DEF RoutingInStep
  <2>4. Routing' => RoutedBelow(1)'
    BY <1>1, <2>1, <2>3
  <2> QED
    BY <2>1, <2>2, <2>4 DEF RoutingInStep, Dispatched, Collected, RoutedBelow
<1>5. CASE SelectTarget
  <2>1. ~Routing'
    BY <1>5 DEF SelectTarget, Routing, inputs
  <2> QED
    BY <2>1 DEF RoutingInStep
<1>6. CASE RouteTarget
  <2>1. /\ pc = "conditions" /\ pos \in DOMAIN cfg.targets /\ Routing
        /\ pc' = pc /\ pos' = pos + 1
        /\ UNCHANGED <<cfg, req, spawned>> /\ spawned = {}
    BY <1>0, <1>6 DEF RouteTarget, Evaluating, Advance, inputs, dispatched, DispatchInStep,
                      Choosing
  <2>2. /\ Len(targets) =< 1
        /\ \A i \in DOMAIN targets : Matches(targets[i]) \/ IsDefault(cfg.targets[targets[i]])
        /\ \A q \in DOMAIN cfg.targets :
             q < pos /\ Matches(q) => \E i \in DOMAIN targets : targets[i] = q
    BY <1>0, <2>1 DEF RoutingInStep, RoutedBelow
  <2>3. \A q : Matches(q)' = Matches(q)
    BY <2>1 DEF Matches
  <2>4. \A q \in DOMAIN cfg.targets : q < pos + 1 => q < pos \/ q = pos
    BY <2>1
  <2>5. /\ Len(<<pos>>) = 1 /\ DOMAIN <<pos>> = 1 .. 1 /\ <<pos>>[1] = pos
    BY <2>1, Alone
  <2>6. targets = << >> => \A q \in DOMAIN cfg.targets : q < pos => ~Matches(q)
    BY <2>2
  <2> SUFFICES /\ Len(targets') =< 1
               /\ \A i \in DOMAIN targets' :
                    Matches(targets'[i]) \/ IsDefault(cfg.targets[targets'[i]])
               /\ \A q \in DOMAIN cfg.targets :
                    q < pos + 1 /\ Matches(q) => \E i \in DOMAIN targets' : targets'[i] = q
    BY <2>1, <2>3 DEF RoutingInStep, RoutedBelow, Dispatched, Collected
  <2>7. CASE IsDefault(Considered)
    <3>1. ~Matches(pos)
      BY <2>7, DefaultMatchesNot DEF Considered
    <3>2. targets' = IF targets = << >> THEN <<pos>> ELSE targets
      BY <1>6, <2>7 DEF RouteTarget, HasFilter, IsDefault
    <3>3. CASE targets = << >>
      BY <2>4, <2>5, <2>6, <2>7, <3>1, <3>2, <3>3 DEF Considered
    <3>4. CASE targets # << >>
      BY <2>2, <2>4, <3>1, <3>2, <3>4
    <3> QED
      BY <3>3, <3>4
  <2>8. CASE HasFilter /\ ~req.holds[pos] /\ UNCHANGED targets
    <3>1. ~Matches(pos)
      BY <2>8 DEF Matches
    <3> QED
      BY <2>2, <2>4, <2>8, <3>1
  <2>9. CASE HasFilter /\ req.holds[pos] /\ Replaceable /\ targets' = <<pos>>
    <3>1. Matches(pos)
      BY <2>9 DEF HasFilter, Considered, Matches
    <3>2. \A q \in DOMAIN cfg.targets : q < pos => ~Matches(q)
      <4> SUFFICES ASSUME NEW q \in DOMAIN cfg.targets, q < pos, Matches(q)
                   PROVE  FALSE
        OBVIOUS
      <4>1. PICK i \in DOMAIN targets : targets[i] = q
        BY <2>2
      <4>2. i = 1 /\ targets # << >>
        BY <2>2, <4>1
      <4>3. IsDefault(cfg.targets[q])
        BY <2>9, <4>1, <4>2 DEF Replaceable
      <4> QED
        BY <4>3, DefaultMatchesNot
    <3> QED
      BY <2>4, <2>5, <2>9, <3>1, <3>2
  <2> QED
    BY <1>6, <2>7, <2>8, <2>9 DEF RouteTarget
<1>7. CASE BeginDispatch
  <2>1. /\ pc = "conditions" /\ pos = Len(cfg.targets) + 1 /\ pc' = "dispatch"
        /\ UNCHANGED <<inputs, targets>>
    BY <1>7 DEF BeginDispatch, Begin
  <2>2. Routing => RoutedBelow(Len(cfg.targets) + 1)
    BY <1>0, <2>1 DEF RoutingInStep
  <2>3. Routing' => RoutedBelow(Len(cfg.targets) + 1)'
    BY <2>1, <2>2 DEF inputs, Routing, RoutedBelow, Matches
  <2> QED
    BY <2>1, <2>3 DEF RoutingInStep, Choosing
<1>8. CASE SignAndSpawn \/ SignFails \/ BeginCollect
  <2>1. pc = "dispatch" /\ pc' \notin Choosing /\ UNCHANGED <<inputs, targets>>
    BY <1>8 DEF SignAndSpawn, SignFails, BeginCollect, Dispatching, Enqueue, Begin, Advance,
                Choosing
  <2> QED
    BY <1>2, <2>1
<1>9. ASSUME NEW p \in Positions, SettleTask(p) PROVE RoutingInStep'
  BY <1>0, <1>9 DEF SettleTask, inputs, dispatched, RoutingInStep, Routing, RoutedBelow, Matches
<1>10. CASE CollectSigningError \/ CollectError \/ CollectHead \/ ReadTargetBody
            \/ BeginPreprocess
  <2>1. pc \in Dispatched /\ pc' \notin Choosing /\ UNCHANGED <<inputs, targets>>
    BY <1>10 DEF CollectSigningError, CollectError, CollectHead, ReadTargetBody,
                 BeginPreprocess, Collecting, Goto, Begin, Advance, Choosing, Dispatched
  <2> QED
    BY <1>2, <2>1
<1>11. CASE Inserting \/ BeginSelect
  <2>1. pc \in Dispatched /\ pc' \notin Choosing /\ UNCHANGED <<inputs, targets>>
    BY <1>11 DEF Inserting, Preprocess, BeginSelect, Goto, Advance, Choosing, Dispatched,
                 Collected
  <2> QED
    BY <1>2, <2>1
<1>12. CASE UNCHANGED vars
  BY <1>0, <1>12 DEF vars, RoutingInStep, Routing, RoutedBelow, Matches
<1> QED
  BY <1>3, <1>4, <1>5, <1>6, <1>7, <1>8, <1>9, <1>10, <1>11, <1>12, StepCases

-----------------------------------------------------------------------------
LEMMA InvInitial ==
  ASSUME Init
  PROVE  IInv
<1>1. /\ cfg \in Listener /\ Len(cfg.targets) =< MaxTargets /\ ListenerValid(cfg)
      /\ req \in Request
      /\ cfg.targets \in Seq(Target)
  BY HandlerAssumption DEF Init, Listener
<1>2. Len(cfg.targets) \in Nat /\ MaxTargets \in Nat
  BY <1>1, RelayAssumption
<1>3. TypeOK
  BY <1>1, <1>2 DEF Init, TypeOK, PcStates, Option, Faults
<1>4. SelectionInOrder /\ DispatchInStep /\ ResultsInStep /\ ResponsesInStep
  BY <1>2 DEF Init, SelectionInOrder, DispatchInStep, ResultsInStep, ResponsesInStep,
              Choosing, Dispatched, Collected
<1>5. EndsInStep
  BY DEF Init, EndsInStep, NoSelfInflictedPanic, Collected
<1>6. RoutingInStep
  BY <1>2 DEF Init, RoutingInStep, RoutedBelow, Dispatched, Collected
<1> QED
  BY <1>3, <1>4, <1>5, <1>6 DEF IInv

LEMMA InvStep ==
  ASSUME IInv, [Next]_vars
  PROVE  IInv'
<1>1. TypeOK'
  BY TypePreserved
<1> QED
  BY <1>1, SelectionPreserved, DispatchPreserved, ResultsPreserved, ResponsesPreserved,
     EndsPreserved, RoutingPreserved DEF IInv

(* The inductive invariant holds throughout.                                *)
THEOREM Invariance == Spec => []IInv
<1>1. Init => IInv
  BY InvInitial
<1>2. IInv /\ [Next]_vars => IInv'
  BY InvStep
<1> QED
  BY <1>1, <1>2, PTL DEF Spec

(* The vectors of the handler and the map of responses keep their types for *)
(* every listener that validation accepts and every number of targets.      *)
THEOREM TypeCorrect == Spec => []TypeOK
<1>1. IInv => TypeOK
  BY DEF IInv
<1> QED
  BY <1>1, Invariance, PTL

(* However many targets conditional_routing chooses from, and whatever      *)
(* filters hold, the loop of handler.rs:109 has at most one queried, and    *)
(* that one has no rival.                                                   *)
THEOREM RoutingIsUnique == Spec => []RoutedToOne
<1>1. ASSUME IInv PROVE RoutedToOne
  <2> SUFFICES ASSUME Routing, NEW p \in spawned
               PROVE  /\ Matches(p) \/ IsDefault(cfg.targets[p])
                      /\ \A q \in DOMAIN cfg.targets \ {p} : q \notin spawned /\ ~Matches(q)
    BY DEF RoutedToOne
  <2>1. RoutedBelow(Len(cfg.targets) + 1)
    BY <1>1 DEF IInv, RoutingInStep
  <2>2. \A q \in spawned : \E i \in DOMAIN targets : targets[i] = q
    BY <1>1, Lengths DEF IInv, DispatchInStep
  <2>3. \A i, j \in DOMAIN targets : i = j
    BY <1>1, <2>1, Lengths DEF RoutedBelow
  <2>4. PICK i \in DOMAIN targets : targets[i] = p
    BY <2>2
  <2>5. \A q \in DOMAIN cfg.targets : q < Len(cfg.targets) + 1
    BY <1>1, Lengths
  <2>6. \A q \in DOMAIN cfg.targets : Matches(q) => \E j \in DOMAIN targets : targets[j] = q
    BY <2>1, <2>5 DEF RoutedBelow
  <2> QED
    BY <2>1, <2>2, <2>3, <2>4, <2>6 DEF RoutedBelow
<1> QED
  BY <1>1, Invariance, PTL

(* The three vectors matched by position stay in step for any number of     *)
(* targets: no response is attributed to another target, and none replaces  *)
(* another, because validation refuses two targets with one id.             *)
THEOREM Attribution == Spec => []ResponsesAttributed
<1>1. ASSUME IInv PROVE ResponsesAttributed
  <2> SUFFICES ASSUME NEW i \in DOMAIN results
               PROVE  LET p == targets[i]
                          id == cfg.targets[p].id
                          r == IF p \in spawned THEN outcome[p]
                               ELSE Failure("signing_error")
                      IN  /\ results[i] = r
                          /\ pc = "select" \/ (pc = "preprocess" /\ i < pos) =>
                               /\ id \in DOMAIN responses
                               /\ responses[id] = Preprocessed(cfg.targets[p], r)
    BY DEF ResponsesAttributed
  <2>1. i \in DOMAIN target_requests
    BY <1>1, Lengths
  <2>2. target_requests[i] = "spawned" <=> targets[i] \in spawned
    BY <1>1, <2>1 DEF IInv, DispatchInStep
  <2>3. results[i] = ResultOf(i)
    BY <1>1 DEF IInv, ResultsInStep
  <2>4. pc = "select" \/ (pc = "preprocess" /\ i < pos) => ResponseLeft(i)
    BY <1>1 DEF IInv, ResponsesInStep
  <2> QED
    BY <2>2, <2>3, <2>4 DEF ResultOf, ResponseLeft
<1> QED
  BY <1>1, Invariance, PTL

(* No answer leaves while a spawned request runs, however many targets.     *)
THEOREM AnswersComeLast == Spec => []AnswerAfterAllSettled
<1>1. IInv => AnswerAfterAllSettled
  BY DEF IInv, EndsInStep, AnswerAfterAllSettled
<1> QED
  BY <1>1, Invariance, PTL

(* No listener that validation accepts reaches the `unwrap` of              *)
(* handler.rs:113 or the `expect`s of response.rs:253 and 286.              *)
THEOREM ExpectationsHold == Spec => []NoSelfInflictedPanic
<1>1. IInv => NoSelfInflictedPanic
  BY DEF IInv, EndsInStep
<1> QED
  BY <1>1, Invariance, PTL
-----------------------------------------------------------------------------
(* The panics and their causes.                                             *)

\* What can be relayed can be built from: a target sent it, or on_error did.
PresentBuildable == \A id \in Present : ValidStatus(responses[id])

CauseInv == IInv /\ PresentBuildable /\ PanicsHaveCauses

BadStatus == \E status \in ConfiguredStatuses \ {None} : ~ValidStatus(status)

\* A step that raises no panic which needs a cause, or one for a bad status.
Excused ==
  \/ fault' \in Faults \ {"header_text", "regex", "status"}
  \/ fault' = "status" /\ BadStatus

LEMMA PanicExcused ==
  ASSUME NEW what \in Faults \ {"header_text", "regex", "status"}, Panic(what)
  PROVE  Excused
BY DEF Panic, Excused

LEMMA RespondExcused ==
  ASSUME fault = "none", NEW kind, NEW from, NEW ctx,
         NEW status, ValidStatus(status), Respond(kind, from, ctx, status)
  PROVE  Excused
<1> DEFINE final == IF cfg.override.status = None THEN status ELSE cfg.override.status
<1>1. CASE fault' = fault
  BY <1>1 DEF Excused, Faults
<1>2. CASE Panic("header_transform")
  BY <1>2, PanicExcused DEF Faults
<1>3. CASE cfg.override # None /\ ~ValidStatus(final) /\ Panic("status")
  <2>1. cfg.override.status # None /\ ~ValidStatus(cfg.override.status)
    BY <1>3
  <2>2. cfg.override.status \in ConfiguredStatuses
    BY <1>3 DEF ConfiguredStatuses
  <2> QED
    BY <1>3, <2>1, <2>2 DEF Excused, BadStatus, Panic
<1> QED
  BY <1>1, <1>2, <1>3 DEF Respond, Return

LEMMA NoTargetExcused ==
  ASSUME TypeOK, fault = "none", NEW ctx, NoTarget(ctx)
  PROVE  Excused
<1>1. cfg.no_targets_status \in ConfiguredStatuses \ {None}
  BY NoneAssumption DEF ConfiguredStatuses, TypeOK, Listener
<1>2. CASE ValidStatus(cfg.no_targets_status)
  BY <1>2, RespondExcused DEF NoTarget
<1>3. CASE ~ValidStatus(cfg.no_targets_status)
  BY <1>1, <1>3 DEF NoTarget, Panic, Excused, BadStatus
<1> QED
  BY <1>2, <1>3

LEMMA RelayExcused ==
  ASSUME PresentBuildable, fault = "none", NEW id \in Present, Relay(id)
  PROVE  Excused
BY RespondExcused DEF PresentBuildable, Relay

\* Whatever is chosen, and by whichever strategy.
LEMMA StrategyExcused ==
  ASSUME TypeOK, PresentBuildable, fault = "none", NEW ok, NEW failed, Strategy(ok, failed)
  PROVE  Excused
<1>1. ASSUME Respond("override", None, None, 200) PROVE Excused
  BY <1>1, RespondExcused DEF ValidStatus
<1>2. ASSUME Panic("expect_response") PROVE Excused
  BY <1>2, PanicExcused DEF Faults
<1>3. ASSUME NEW id, SelectOrError(id) PROVE Excused
  BY <1>3, NoTargetExcused, RelayExcused DEF SelectOrError
<1>4. ASSUME NEW id, SelectOrOverride(id) PROVE Excused
  BY <1>1, <1>2, <1>4, RelayExcused DEF SelectOrOverride
<1>5. ASSUME NEW first, NEW second, SelectFromTwo(first, second) PROVE Excused
  BY <1>2, <1>3, <1>5, RelayExcused DEF SelectFromTwo
<1>6. cfg.strategy \in Strategies
  BY DEF TypeOK, Listener
<1> DEFINE s == cfg.target_selector
<1>7. \/ Respond("override", None, None, 200)
      \/ SelectOrOverride(ok) \/ SelectOrOverride(failed)
      \/ SelectFromTwo(ok, s) \/ SelectFromTwo(failed, s)
      \/ SelectFromTwo(ok, failed) \/ SelectFromTwo(failed, ok)
      \/ SelectOrError(s) \/ SelectOrError(ConditionalTargetId)
  BY <1>6 DEF Strategy, Strategies, TargetIdStrategies
<1> QED
  BY <1>1, <1>3, <1>4, <1>5, <1>7

\* The status that on_error gives a result is the target's, or a valid one.
LEMMA BadPreprocessed ==
  ASSUME NEW t, t.on_error \in OnErrorActions, NEW r, r.kind # "ok",
         Preprocessed(t, r) # None, ~ValidStatus(Preprocessed(t, r))
  PROVE  t.error_status # None /\ ~ValidStatus(t.error_status)
<1>1. CASE t.on_error = "propagate"
  <2>1. Preprocessed(t, r) = ErrorStatus(r.kind)
    BY <1>1 DEF Preprocessed
  <2>2. ErrorStatus(r.kind) \in {500, 502, 504}
    BY DEF ErrorStatus
  <2> QED
    BY <2>1, <2>2 DEF ValidStatus
<1>2. CASE t.on_error = "status"
  BY <1>2 DEF Preprocessed
<1>3. CASE t.on_error = "drop"
  BY <1>3 DEF Preprocessed
<1> QED
  BY <1>1, <1>2, <1>3 DEF OnErrorActions

LEMMA ExcusedCauses ==
  ASSUME Excused, cfg' = cfg
  PROVE  PanicsHaveCauses'
<1>1. BadStatus => (\E status \in ConfiguredStatuses \ {None} : ~ValidStatus(status))'
  BY DEF BadStatus, ConfiguredStatuses
<1> QED
  BY <1>1 DEF Excused, PanicsHaveCauses

\* What made a panic stays as it was.
LEMMA CausesLast ==
  ASSUME IInv, PanicsHaveCauses, [Next]_vars, fault # "none"
  PROVE  PanicsHaveCauses'
<1>1. pc = "panicked"
  BY DEF IInv, EndsInStep
<1>2. (\E p \in Positions : SettleTask(p)) \/ UNCHANGED vars
  BY <1>1 DEF Next, Prepare, Dispatch, Conclude, Peers, Terminated, Disconnect, RejectMethod,
     AcceptMethod, FilterPanics, SelectTarget, RouteTarget, RouteAmbiguous, BeginDispatch,
     BuildFails, DispatchPanics, SignAndSpawn, SignFails, BeginCollect, CollectSigningError,
     CollectError, CollectHead, BeginPreprocess, Preprocess, BeginSelect, Select,
     ReadRequestBody, RequestPanics, ReadTargetBody, TargetBodyFails, AtAwait, Evaluating,
     Dispatching, Collecting
<1>3. /\ UNCHANGED <<cfg, req, spawned, results, targets, fault>>
      /\ Settled => Settled'
  <2>1. CASE UNCHANGED vars
    BY <2>1 DEF vars, Settled
  <2>2. ASSUME NEW p \in Positions, SettleTask(p) 
      PROVE  UNCHANGED <<cfg, req, spawned, results, targets, fault>> /\ (Settled => Settled')
    <3>1. PICK r \in TaskResults : outcome' = [outcome EXCEPT ![p] = r]
      BY <2>2 DEF SettleTask
    <3>2. outcome[p] = None /\ p \in spawned
      BY <2>2 DEF SettleTask
    <3> QED
      BY <2>2, <3>1, <3>2 DEF SettleTask, inputs, dispatched, collected, Settled
  <2> QED
    BY <1>2, <2>1, <2>2
<1>4. BadStatus => (\E status \in ConfiguredStatuses \ {None} : ~ValidStatus(status))'
  BY <1>3 DEF BadStatus, ConfiguredStatuses
<1> QED
  BY <1>3, <1>4 DEF PanicsHaveCauses, BadStatus
LEMMA CausesPreserved ==
  ASSUME IInv, PresentBuildable, PanicsHaveCauses, [Next]_vars
  PROVE  PanicsHaveCauses'
<1>1. CASE fault # "none"
  BY <1>1, CausesLast
<1>2. CASE fault = "none"
  <2> USE <1>2
  <2>1. TypeOK /\ cfg' = cfg
    BY DEF IInv, Next, Prepare, Dispatch, Conclude, Peers, Terminated, Disconnect, RejectMethod,
     AcceptMethod, FilterPanics, SelectTarget, RouteTarget, RouteAmbiguous, BeginDispatch,
     BuildFails, DispatchPanics, SignAndSpawn, SignFails, BeginCollect, CollectSigningError,
     CollectError, CollectHead, BeginPreprocess, Preprocess, BeginSelect, Select,
     ReadRequestBody, RequestPanics, ReadTargetBody, TargetBodyFails, SettleTask, inputs, vars
  <2>2. CASE fault' = fault
    BY <2>1, <2>2, ExcusedCauses DEF Excused, Faults
  <2>3. CASE RequestPanics \/ DispatchPanics \/ TargetBodyFails
    <3>1. PICK what \in {"request_body", "header_transform", "uri_host", "https_client",
                         "target_body"} : Panic(what)
      BY <2>3 DEF RequestPanics, DispatchPanics, TargetBodyFails
    <3> QED
      BY <2>1, <3>1, PanicExcused, ExcusedCauses DEF Faults
  <2>4. CASE FilterPanics
    <3>1. spawned = {} /\ UNCHANGED <<req, spawned>>
      BY <2>4 DEF FilterPanics, Evaluating, IInv, DispatchInStep, Choosing, inputs, dispatched
    <3>2. CASE ~req.text_headers /\ Panic("header_text")
      BY <3>1, <3>2 DEF Panic, PanicsHaveCauses
    <3>3. CASE Panic("condition")
      BY <2>1, <3>3, PanicExcused, ExcusedCauses DEF Faults
    <3> QED
      BY <2>4, <3>2, <3>3 DEF FilterPanics
  <2>5. CASE RouteAmbiguous
    <3>1. CASE ValidStatus(cfg.no_targets_status)
      BY <2>1, <2>5, <3>1, RespondExcused, ExcusedCauses DEF RouteAmbiguous
    <3>2. CASE ~ValidStatus(cfg.no_targets_status)
      BY <2>2, <2>5, <3>2 DEF RouteAmbiguous, Fail
    <3> QED
      BY <3>1, <3>2
  <2>6. CASE Preprocess
    <3> DEFINE t == cfg.targets[targets[pos]]
               status == Preprocessed(t, results[pos])
    <3>1. CASE Panic("status") /\ results[pos].kind # "ok" /\ status # None /\ ~ValidStatus(status)
      <4>1. pos \in DOMAIN results /\ pos \in DOMAIN targets
        BY <2>6, Lengths DEF Preprocess
      <4>2. targets[pos] \in DOMAIN cfg.targets
        BY <4>1, SelectedTarget
      <4>3. t.error_status # None /\ ~ValidStatus(t.error_status)
        BY <3>1, <4>2, ConfiguredTarget, BadPreprocessed
      <4>4. t.error_status \in ConfiguredStatuses
        BY <4>2 DEF ConfiguredStatuses
      <4> QED
        BY <2>1, <3>1, <4>3, <4>4, ExcusedCauses DEF Panic, Excused, BadStatus
    <3> QED
      BY <2>2, <2>6, <3>1 DEF Preprocess
  <2>7. CASE Select
    <3>1. CASE cfg.failing = None
      <4>1. pc = "select" /\ UNCHANGED <<cfg, targets, spawned, outcome, results>>
        BY <2>7 DEF Select, inputs, dispatched, collected
      <4>2. Settled /\ Len(results) = Len(targets)
        BY <4>1 DEF IInv, EndsInStep, DispatchInStep, ResultsInStep, Dispatched, Collected
      <4>3. fault' = "regex"
        BY <2>7, <3>1 DEF Select, Panic
      <4> QED
        BY <3>1, <4>1, <4>2, <4>3 DEF PanicsHaveCauses, Settled
    <3>2. CASE cfg.failing # None
      BY <2>1, <2>7, <3>2, StrategyExcused, ExcusedCauses DEF Select
    <3> QED
      BY <3>1, <3>2
  <2>8. CASE RejectMethod \/ UNCHANGED vars
    BY <2>2, <2>8 DEF RejectMethod, Return, vars
  <2> QED
    BY <2>2, <2>3, <2>4, <2>5, <2>6, <2>7, <2>8
       DEF Next, Prepare, Dispatch, Conclude, Peers, Terminated, Disconnect,
           AcceptMethod, SelectTarget, RouteTarget, BeginDispatch,
           BuildFails, Fail, SignAndSpawn, SignFails, BeginCollect, CollectSigningError,
           CollectError, CollectHead, BeginPreprocess, BeginSelect,
           ReadRequestBody, ReadTargetBody, SettleTask
<1> QED
  BY <1>1, <1>2

LEMMA BuildablePreserved ==
  ASSUME IInv, PresentBuildable, [Next]_vars
  PROVE  PresentBuildable'
<1>1. CASE responses' = responses
  BY <1>1 DEF PresentBuildable, Present
<1>2. CASE Inserting
  <2> DEFINE t == cfg.targets[targets[pos]]
             r == results[pos]
             status == Preprocessed(t, r)
  <2>1. /\ pos \in DOMAIN results
        /\ r.kind = "ok" \/ status = None \/ ValidStatus(status)
        /\ DOMAIN responses' = DOMAIN responses \cup {target_ids[pos]}
        /\ \A id \in DOMAIN responses' :
              responses'[id] = IF id = target_ids[pos] THEN status ELSE responses[id]
    BY <1>2 DEF Inserting, Preprocess, Advance, Panic, Goto
  <2>2. r \in ResponseResults
    BY <2>1 DEF IInv, TypeOK
  <2>3. r.kind = "ok" => ValidStatus(status)
    <3> SUFFICES ASSUME r.kind = "ok" PROVE ValidStatus(status)
      OBVIOUS
    <3>1. PICK s \in TargetStatuses : r = Success(s)
      BY <2>2 DEF ResponseResults, TaskResults, Failure, FailureKinds
    <3>2. status = s
      BY <3>1 DEF Success, Preprocessed
    <3> QED
      BY <3>2, RelayAssumption DEF ValidStatus
  <2> QED
    BY <2>1, <2>3 DEF PresentBuildable, Present
<1>3. CASE Ending
  BY <1>1, <1>3 DEF Ending, Quits, collected
<1> QED
  BY <1>1, <1>2, <1>3, StepCases
     DEF AcceptMethod, ReadRequestBody, SelectTarget, RouteTarget, BeginDispatch, SignAndSpawn,
         SignFails, BeginCollect, SettleTask, CollectSigningError, CollectError, CollectHead,
         ReadTargetBody, BeginPreprocess, BeginSelect, collected, vars

(* PanicsHaveCauses: for every listener that validation accepts, what a     *)
(* target answers never panics the handler, and the panics of a header, of  *)
(* the regex and of a status are those of the request and the configuration.*)
THEOREM PanicsAreCaused == Spec => []PanicsHaveCauses
<1>1. Init => CauseInv
  BY InvInitial DEF Init, CauseInv, PresentBuildable, Present, PanicsHaveCauses
<1>2. CauseInv /\ [Next]_vars => CauseInv'
  BY InvStep, CausesPreserved, BuildablePreserved DEF CauseInv
<1>3. CauseInv => PanicsHaveCauses
  BY DEF CauseInv
<1> QED
  BY <1>1, <1>2, <1>3, PTL DEF Spec
-----------------------------------------------------------------------------
(* The steps of a request.                                                  *)

LEMMA StageValues ==
  /\ Stage["accepted"] = 7 /\ Stage["body"] = 6 /\ Stage["conditions"] = 5
  /\ Stage["dispatch"] = 4 /\ Stage["collect"] = 3 /\ Stage["reading"] = 3
  /\ Stage["preprocess"] = 2 /\ Stage["select"] = 1
BY DEF Stage

LEMMA StepsLeftBounds ==
  ASSUME NEW label \in PcStates, NEW p \in 1 .. MaxTargets + 1
  PROVE  /\ StepsLeft(label, p) \in Nat
         /\ label \in Ended => StepsLeft(label, p) = 0
         /\ label \notin Ended => StepsLeft(label, p) > 0
<1>1. CASE label \in Ended
  BY <1>1 DEF StepsLeft
<1>2. CASE label \notin Ended
  <2>1. MaxTargets \in Nat /\ p \in Nat /\ p =< MaxTargets + 1
    BY RelayAssumption
  <2>2. label \in {"accepted", "body", "conditions", "dispatch", "collect", "reading",
                   "preprocess", "select"}
    BY <1>2 DEF PcStates
  <2> QED
    BY <1>2, <2>1, <2>2, StageValues DEF StepsLeft
<1> QED
  BY <1>1, <1>2

\* The next position of a loop, and what a head leaves: its body.
LEMMA NextPosition ==
  ASSUME NEW p \in 1 .. MaxTargets + 1,
         NEW label \in {"conditions", "dispatch", "collect", "preprocess"}
  PROVE  /\ StepsLeft(label, p + 1) < StepsLeft(label, p)
         /\ StepsLeft("reading", p) < StepsLeft("collect", p)
         /\ StepsLeft("collect", p + 1) < StepsLeft("reading", p)
<1>1. MaxTargets \in Nat /\ p \in Nat /\ label \notin Ended
      /\ "collect" \notin Ended /\ "reading" \notin Ended
  BY RelayAssumption DEF Ended
<1> QED
  BY <1>1, StageValues DEF StepsLeft

\* The next stage, at whatever position it begins.
LEMMA NextStage ==
  ASSUME NEW label \in PcStates \ Ended, NEW next \in PcStates \ Ended,
         Stage[next] < Stage[label],
         NEW p \in 1 .. MaxTargets + 1, NEW q \in 1 .. MaxTargets + 1
  PROVE  StepsLeft(next, q) < StepsLeft(label, p)
<1>1. MaxTargets \in Nat /\ p \in Nat /\ p =< MaxTargets + 1
      /\ q \in Nat /\ q =< MaxTargets + 1 /\ 1 =< q
  BY RelayAssumption
<1> DEFINE Stages == {"accepted", "body", "conditions", "dispatch", "collect", "reading",
                      "preprocess", "select"}
<1>2. label \in Stages /\ next \in Stages
  BY DEF PcStates
<1>3. Stage[label] \in 1 .. 7 /\ Stage[next] \in 1 .. 7
  BY <1>2, StageValues
<1>4. PICK m \in 1 .. 7, n \in 1 .. 7 : m = Stage[label] /\ n = Stage[next] /\ n < m
  BY <1>3
<1>5. n * (2 * MaxTargets + 4) + (2 * MaxTargets + 4) =< m * (2 * MaxTargets + 4)
  <2>1. n \in {1, 2, 3, 4, 5, 6} /\ m \in {1, 2, 3, 4, 5, 6, 7}
    BY <1>4
  <2> QED
    BY <1>1, <1>4, <2>1
<1>6. StepsLeft(label, p) >= m * (2 * MaxTargets + 4) - 2 * p - 1
  BY <1>1, <1>4 DEF StepsLeft
<1>7. StepsLeft(next, q) =< n * (2 * MaxTargets + 4) - 2 * q
  BY <1>1, <1>4 DEF StepsLeft
<1>8. StepsLeft(label, p) \in Int /\ StepsLeft(next, q) \in Int
  BY StepsLeftBounds
<1> DEFINE M == m * (2 * MaxTargets + 4)
           N == n * (2 * MaxTargets + 4)
<1>9. M \in Int /\ N \in Int
  BY <1>1, <1>4
<1> HIDE DEF M, N
<1>10. N + (2 * MaxTargets + 4) =< M /\ StepsLeft(label, p) >= M - 2 * p - 1
       /\ StepsLeft(next, q) =< N - 2 * q
  BY <1>5, <1>6, <1>7 DEF M, N
<1> QED
  BY <1>1, <1>8, <1>9, <1>10

LEMMA UnsettledCount ==
  /\ IsFiniteSet(Unsettled) /\ Cardinality(Unsettled) \in Nat
  /\ IsFiniteSet(Unsettled') /\ Cardinality(Unsettled') \in Nat
<1>1. IsFiniteSet(Positions)
  BY RelayAssumption, FS_Interval DEF Positions
<1> QED
  BY <1>1, FS_Subset, FS_CardinalityType DEF Unsettled

\* A step of the handler brings its end nearer and leaves the tasks alone.
HandlerMoves == StepsLeft(pc', pos') < StepsLeft(pc, pos) /\ outcome' = outcome

LEMMA StepMoves ==
  ASSUME IInv, TypeOK', [Next]_vars
  PROVE  \/ HandlerMoves
         \/ \E p \in Positions : SettleTask(p)
         \/ UNCHANGED vars
<1>1. /\ pc \in PcStates /\ pos \in 1 .. MaxTargets + 1
      /\ pc' \in PcStates /\ pos' \in 1 .. MaxTargets + 1
  BY DEF IInv, TypeOK
<1>2. ASSUME Ending, pc \notin Ended PROVE HandlerMoves
  BY <1>1, <1>2, StepsLeftBounds DEF Ending, Quits, HandlerMoves
<1>3. CASE AcceptMethod \/ ReadRequestBody \/ BeginDispatch \/ BeginCollect
           \/ BeginPreprocess \/ BeginSelect
  <2>1. pc \notin Ended /\ pc' \notin Ended /\ Stage[pc'] < Stage[pc] /\ outcome' = outcome
    BY <1>3, StageValues
       DEF AcceptMethod, ReadRequestBody, BeginDispatch, BeginCollect, BeginPreprocess,
           BeginSelect, Goto, Begin, Ended
  <2> QED
    BY <1>1, <2>1, NextStage DEF HandlerMoves
<1>4. CASE SelectTarget \/ RouteTarget \/ SignAndSpawn \/ SignFails \/ CollectSigningError
           \/ CollectError \/ Inserting
  <2>1. /\ pc \in {"conditions", "dispatch", "collect", "preprocess"}
        /\ pc' = pc /\ pos' = pos + 1 /\ outcome' = outcome
    BY <1>4 DEF SelectTarget, RouteTarget, SignAndSpawn, SignFails, CollectSigningError,
                CollectError, Inserting, Preprocess, Evaluating, Dispatching, Collecting,
                Enqueue, Advance
  <2> QED
    BY <1>1, <2>1, NextPosition DEF HandlerMoves
<1>5. CASE CollectHead
  BY <1>1, <1>5, NextPosition DEF CollectHead, Collecting, Goto, HandlerMoves
<1>6. CASE ReadTargetBody
  BY <1>1, <1>6, NextPosition DEF ReadTargetBody, HandlerMoves
<1>7. CASE pc \in Ended
  BY <1>7 DEF Ended, Next, Prepare, Dispatch, Conclude, Peers, Terminated, Disconnect, RejectMethod,
     AcceptMethod, FilterPanics, SelectTarget, RouteTarget, RouteAmbiguous, BeginDispatch,
     BuildFails, DispatchPanics, SignAndSpawn, SignFails, BeginCollect, CollectSigningError,
     CollectError, CollectHead, BeginPreprocess, Preprocess, BeginSelect, Select,
     ReadRequestBody, RequestPanics, ReadTargetBody, TargetBodyFails, AtAwait, Evaluating,
     Dispatching, Collecting
<1> QED
  BY <1>2, <1>3, <1>4, <1>5, <1>6, <1>7, StepCases

(* EveryStepProgresses: with any number of targets, every step of a request *)
(* uses up some of what was left of it, so that a request takes a bounded   *)
(* number of steps and then has ended or waits for a peer.                  *)
THEOREM RequestsAreFinite == Spec => EveryStepProgresses
<1>1. IInv /\ [Next]_vars => [0 =< Remaining' /\ Remaining' < Remaining]_vars
  <2> SUFFICES ASSUME IInv, [Next]_vars, ~UNCHANGED vars
               PROVE  0 =< Remaining' /\ Remaining' < Remaining
    OBVIOUS
  <2>1. TypeOK /\ TypeOK'
    BY TypePreserved DEF IInv
  <2>2. StepsLeft(pc, pos) \in Nat /\ StepsLeft(pc', pos') \in Nat
    BY <2>1, StepsLeftBounds DEF TypeOK
  <2>3. Remaining' = Cardinality(Unsettled') + StepsLeft(pc', pos')
    BY DEF Remaining
  <2>4. CASE HandlerMoves
    <3>1. Unsettled' = Unsettled
      BY <2>4 DEF HandlerMoves, Unsettled
    <3> QED
      BY <2>2, <2>3, <2>4, <3>1, UnsettledCount DEF HandlerMoves, Remaining
  <2>5. ASSUME NEW p \in Positions, SettleTask(p)
        PROVE  0 =< Remaining' /\ Remaining' < Remaining
    <3>1. PICK r \in TaskResults : outcome' = [outcome EXCEPT ![p] = r]
      BY <2>5 DEF SettleTask
    <3>2. /\ outcome[p] = None
          /\ \A q \in Positions : outcome'[q] = IF q = p THEN r ELSE outcome[q]
          /\ pc' = pc /\ pos' = pos
      BY <2>1, <2>5, <3>1 DEF SettleTask, TypeOK
    <3>3. r # None
      BY NoResultAssumption
    <3>4. p \in Unsettled /\ Unsettled' = Unsettled \ {p}
      BY <3>2, <3>3 DEF Unsettled
    <3>5. Cardinality(Unsettled') = Cardinality(Unsettled) - 1
      BY <3>4, UnsettledCount, FS_RemoveElement
    <3> QED
      BY <2>2, <2>3, <3>2, <3>5, UnsettledCount DEF Remaining
  <2> QED
    BY <2>1, <2>4, <2>5, StepMoves
<1> QED
  BY <1>1, Invariance, PTL DEF Spec, EveryStepProgresses
=============================================================================
