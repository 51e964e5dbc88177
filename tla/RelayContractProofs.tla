------------------------ MODULE RelayContractProofs ------------------------
(***************************************************************************)
(* The proof that RequestHandler implements RelayContract: the loops,      *)
(* vectors and maps of the handler achieve what the contract says with     *)
(* sets, for any listeners, requests and number of targets.                *)
(***************************************************************************)
EXTENDS RequestHandlerProofs

-----------------------------------------------------------------------------
(* What the refinement needs beyond the inductive invariant: the loop of    *)
(* the conditions misses nobody, the method was allowed, and `responses`    *)
(* has no id but those of the selected targets.                             *)

Chosen == {targets[i] : i \in DOMAIN targets}
Takes(p) == cfg.targets[p].condition = "filter" => req.holds[p]
Id(p) == cfg.targets[p].id

\* Of the targets below n, everyone to be queried has been selected.
SelectedBelow(n) ==
  /\ ~Routing => Chosen = {p \in DOMAIN cfg.targets : p < n /\ Takes(p)}
  /\ Routing => \A p \in DOMAIN cfg.targets : p < n /\ IsDefault(cfg.targets[p]) => targets # << >>

SelectionComplete ==
  /\ pc = "conditions" => SelectedBelow(pos)
  /\ pc \in Dispatched \cup {"dispatch"} => SelectedBelow(Len(cfg.targets) + 1)

Admitted == pc \notin {"accepted"} \cup Ended => MethodAllowed(cfg, req.method)

ResponsesOfTargets ==
  /\ pc \in Choosing => DOMAIN responses = {}
  /\ pc \notin Ended => \A id \in DOMAIN responses : \E p \in Chosen : id = Id(p)

RInv == SelectionComplete /\ Admitted /\ ResponsesOfTargets

LEMMA RInvInitial ==
  ASSUME Init
  PROVE  RInv
BY DEF Init, RInv, SelectionComplete, Admitted, ResponsesOfTargets, Dispatched, Collected, Choosing

LEMMA SelectionCompletePreserved ==
  ASSUME IInv, RInv, [Next]_vars
  PROVE  SelectionComplete'
<1>0. SelectionComplete /\ SelectionInOrder /\ TypeOK
  BY DEF IInv, RInv
<1> USE Lengths
<1>1. ASSUME UNCHANGED <<inputs, targets>>
      PROVE  /\ Len(cfg'.targets) = Len(cfg.targets)
             /\ \A n : SelectedBelow(n)' = SelectedBelow(n)
  BY <1>1 DEF inputs, Routing, SelectedBelow, Chosen, Takes
<1>2. CASE /\ UNCHANGED <<inputs, targets>> /\ pc' # "conditions"
           /\ pc' \in Dispatched \cup {"dispatch"} => pc \in Dispatched \cup {"dispatch"}
  BY <1>0, <1>1, <1>2 DEF SelectionComplete
<1>3. CASE Ending
  BY <1>2, <1>3 DEF Ending, Quits, Ended, Dispatched, Collected
<1>4. CASE AcceptMethod
  BY <1>2, <1>4 DEF AcceptMethod, Goto, Dispatched, Collected
<1>5. CASE ReadRequestBody
  <2>1. targets' = << >> /\ pc' = "conditions" /\ pos' = 1 /\ cfg' = cfg
    BY <1>0, <1>5 DEF ReadRequestBody, Begin, inputs, SelectionInOrder
  <2> QED
    BY <2>1 DEF SelectionComplete, SelectedBelow, Chosen, Dispatched, Collected
<1>6. CASE SelectTarget
  <2>1. /\ pos \in 1 .. Len(cfg.targets) /\ pos' = pos + 1 /\ pc' = "conditions"
        /\ pc = "conditions" /\ UNCHANGED <<cfg, req>> /\ ~Routing /\ ~Routing'
    BY <1>6 DEF SelectTarget, Evaluating, Advance, inputs, Routing
  <2>2. Chosen = {p \in DOMAIN cfg.targets : p < pos /\ Takes(p)}
    BY <1>0, <2>1 DEF SelectionComplete, SelectedBelow
  <2>3. \A p : Takes(p)' = Takes(p)
    BY <2>1 DEF Takes
  <2>4. \A p \in DOMAIN cfg.targets : p < pos + 1 <=> p < pos \/ p = pos
    BY <2>1
  <2>5. CASE Takes(pos)
    <3>1. targets' = Append(targets, pos)
      BY <1>6, <2>5 DEF SelectTarget, HasFilter, Considered, Takes
    <3>2. targets \in Seq(Positions) /\ pos \in Positions
      BY <1>0, <2>1 DEF TypeOK, Positions
    <3>3. Chosen' = Chosen \cup {pos}
      BY <3>1, <3>2, Appended DEF Chosen
    <3> QED
      BY <2>1, <2>2, <2>3, <2>4, <2>5, <3>3 DEF SelectionComplete, SelectedBelow, Dispatched, Collected
  <2>6. CASE ~Takes(pos)
    <3>1. targets' = targets
      BY <1>6, <2>6 DEF SelectTarget, HasFilter, Considered, Takes
    <3>2. Chosen' = Chosen
      BY <3>1 DEF Chosen
    <3> QED
      BY <2>1, <2>2, <2>3, <2>4, <2>6, <3>2 DEF SelectionComplete, SelectedBelow, Dispatched, Collected
  <2> QED
    BY <2>5, <2>6
<1>7. CASE RouteTarget
  <2>1. /\ pos \in 1 .. Len(cfg.targets) /\ pos' = pos + 1 /\ pc' = "conditions"
        /\ pc = "conditions" /\ UNCHANGED <<cfg, req>> /\ Routing /\ Routing'
    BY <1>7 DEF RouteTarget, Evaluating, Advance, inputs, Routing
  <2>2. \A p \in DOMAIN cfg.targets : p < pos /\ IsDefault(cfg.targets[p]) => targets # << >>
    BY <1>0, <2>1 DEF SelectionComplete, SelectedBelow
  <2>3. \A p \in DOMAIN cfg.targets : p < pos + 1 <=> p < pos \/ p = pos
    BY <2>1
  <2>4. <<pos>> # << >>
    OBVIOUS
  <2>5. targets # << >> => targets' # << >>
    BY <1>7, <2>4 DEF RouteTarget
  <2>6. IsDefault(cfg.targets[pos]) => targets' # << >>
    BY <1>7, <2>4 DEF RouteTarget, IsDefault, HasFilter, Considered
  <2> QED
    BY <2>1, <2>2, <2>3, <2>5, <2>6 DEF SelectionComplete, SelectedBelow, Dispatched, Collected
<1>8. CASE BeginDispatch
  <2>1. /\ pc = "conditions" /\ pos = Len(cfg.targets) + 1 /\ pc' = "dispatch"
        /\ UNCHANGED <<inputs, targets>>
    BY <1>8 DEF BeginDispatch, Begin
  <2>2. SelectedBelow(Len(cfg.targets) + 1)
    BY <1>0, <2>1 DEF SelectionComplete
  <2>3. \A n : SelectedBelow(n)' = SelectedBelow(n)
    BY <1>1, <2>1
  <2> QED
    BY <1>1, <2>1, <2>2, <2>3 DEF SelectionComplete
<1>9. CASE SignAndSpawn \/ SignFails \/ BeginCollect
  BY <1>2, <1>9 DEF SignAndSpawn, SignFails, BeginCollect, Dispatching, Enqueue, Begin, Advance,
                    Dispatched, Collected
<1>10. ASSUME NEW p \in Positions, SettleTask(p) PROVE SelectionComplete'
  BY <1>0, <1>1, <1>10 DEF SettleTask, SelectionComplete
<1>11. CASE CollectSigningError \/ CollectError \/ CollectHead \/ ReadTargetBody
            \/ BeginPreprocess
  BY <1>2, <1>11 DEF CollectSigningError, CollectError, CollectHead, ReadTargetBody,
                 BeginPreprocess, Collecting, Goto, Begin, Advance, Dispatched
<1>12. CASE Inserting \/ BeginSelect
  BY <1>2, <1>12 DEF Inserting, Preprocess, BeginSelect, Goto, Advance, Dispatched, Collected
<1>13. CASE UNCHANGED vars
  BY <1>0, <1>1, <1>13 DEF vars, inputs, SelectionComplete
<1> QED
  BY <1>3, <1>4, <1>5, <1>6, <1>7, <1>8, <1>9, <1>10, <1>11, <1>12, <1>13, StepCases

\* A request that goes beyond its method check has passed it.
LEMMA AdmittedPreserved ==
  ASSUME IInv, RInv, [Next]_vars
  PROVE  Admitted'
<1>0. Admitted
  BY DEF RInv
<1>1. CASE UNCHANGED inputs /\ (pc' \in {"accepted"} \cup Ended \/ pc \notin {"accepted"} \cup Ended)
  BY <1>0, <1>1 DEF Admitted, inputs
<1>2. CASE Ending
  BY <1>1, <1>2 DEF Ending, Quits
<1>3. CASE AcceptMethod
  BY <1>3 DEF AcceptMethod, inputs, Admitted
<1>4. CASE ReadRequestBody \/ SelectTarget \/ RouteTarget \/ BeginDispatch
           \/ SignAndSpawn \/ SignFails \/ BeginCollect
  BY <1>1, <1>4 DEF ReadRequestBody, SelectTarget, RouteTarget, BeginDispatch, Evaluating,
                    SignAndSpawn, SignFails, BeginCollect, Dispatching, Ended
<1>5. ASSUME NEW p \in Positions, SettleTask(p) PROVE Admitted'
  BY <1>0, <1>5 DEF SettleTask, inputs, Admitted
<1>6. CASE CollectSigningError \/ CollectError \/ CollectHead \/ ReadTargetBody
           \/ BeginPreprocess
  BY <1>1, <1>6 DEF CollectSigningError, CollectError, CollectHead, ReadTargetBody,
                    BeginPreprocess, Collecting, Ended
<1>7. CASE Inserting \/ BeginSelect
  BY <1>1, <1>7 DEF Inserting, Preprocess, BeginSelect, Ended
<1>8. CASE UNCHANGED vars
  BY <1>0, <1>8 DEF vars, Admitted
<1> QED
  BY <1>2, <1>3, <1>4, <1>5, <1>6, <1>7, <1>8, StepCases

LEMMA ResponsesOfTargetsPreserved ==
  ASSUME IInv, RInv, [Next]_vars
  PROVE  ResponsesOfTargets'
<1>0. ResponsesOfTargets
  BY DEF RInv
<1> USE Lengths
<1>1. CASE pc' \in Ended
  BY <1>1 DEF ResponsesOfTargets, Choosing, Ended
<1>2. CASE /\ UNCHANGED <<inputs, targets, responses>> /\ pc \notin Ended
           /\ pc' \in Choosing => pc \in Choosing
  BY <1>0, <1>2 DEF inputs, ResponsesOfTargets, Chosen, Id
<1>3. CASE Ending
  BY <1>1, <1>3 DEF Ending, Quits
<1>4. CASE AcceptMethod \/ ReadRequestBody \/ BeginDispatch \/ SignAndSpawn \/ SignFails
           \/ BeginCollect
  BY <1>2, <1>4 DEF AcceptMethod, ReadRequestBody, BeginDispatch, SignAndSpawn, SignFails,
                    BeginCollect, Dispatching, Enqueue, Goto, Begin, Advance, collected, Ended,
                    Choosing
<1>5. CASE SelectTarget \/ RouteTarget
  <2>1. pc = "conditions" /\ UNCHANGED responses
    BY <1>5 DEF SelectTarget, RouteTarget, Evaluating, collected
  <2> QED
    BY <1>0, <2>1 DEF ResponsesOfTargets, Choosing
<1>6. ASSUME NEW p \in Positions, SettleTask(p) PROVE ResponsesOfTargets'
  BY <1>0, <1>6 DEF SettleTask, inputs, collected, ResponsesOfTargets, Chosen, Id
<1>7. CASE CollectSigningError \/ CollectError \/ CollectHead \/ ReadTargetBody
           \/ BeginPreprocess \/ BeginSelect
  BY <1>2, <1>7 DEF CollectSigningError, CollectError, CollectHead, ReadTargetBody,
                    BeginPreprocess, BeginSelect, Collecting, Goto, Begin, Advance, collected,
                    Ended, Choosing
<1>8. CASE Inserting
  <2>1. /\ pc = "preprocess" /\ pos \in DOMAIN results /\ UNCHANGED <<cfg, targets, pc>>
    BY <1>8 DEF Inserting, Preprocess, Advance, inputs
  <2>2. DOMAIN responses' = DOMAIN responses \cup {target_ids[pos]}
    BY <1>8 DEF Inserting, Preprocess, Advance, Panic, Goto
  <2>3. targets[pos] \in Chosen /\ target_ids[pos] = Id(targets[pos])
    BY <2>1 DEF IInv, DispatchInStep, Chosen, Id
  <2> QED
    BY <1>0, <2>1, <2>2, <2>3 DEF ResponsesOfTargets, Chosen, Id, Ended, Choosing
<1>9. CASE UNCHANGED vars
  BY <1>0, <1>9 DEF vars, ResponsesOfTargets, Chosen, Id
<1> QED
  BY <1>3, <1>4, <1>5, <1>6, <1>7, <1>8, <1>9, StepCases

LEMMA RInvariance == Spec => [](IInv /\ RInv)
<1>1. Init => RInv
  BY RInvInitial
<1>2. IInv /\ RInv /\ [Next]_vars => RInv'
  BY SelectionCompletePreserved, AdmittedPreserved, ResponsesOfTargetsPreserved DEF RInv
<1> QED
  BY <1>1, <1>2, Invariance, PTL DEF Spec

-----------------------------------------------------------------------------
(* The sets of the contract, read off the vectors of the handler.           *)

\* With the loop of the conditions done, exactly the eligible are selected.
LEMMA EligibleAreChosen ==
  ASSUME IInv, RInv, pc \in Dispatched \cup {"dispatch"}
  PROVE  Contract!Eligible = Chosen
<1> USE Lengths
<1> DEFINE n == Len(cfg.targets) + 1
<1>1. SelectedBelow(n)
  BY DEF RInv, SelectionComplete
<1>2. \A p \in DOMAIN cfg.targets : p < n
  OBVIOUS
<1>3. \A p \in DOMAIN cfg.targets : cfg.targets[p].condition \in {"absent", "default", "filter"}
  BY ConfiguredTarget DEF Target, Conditions
<1>4. Chosen \subseteq DOMAIN cfg.targets
  BY SelectedTarget DEF Chosen
<1>5. CASE ~Routing
  <2>1. Chosen = {p \in DOMAIN cfg.targets : Takes(p)}
    BY <1>1, <1>2, <1>5 DEF SelectedBelow
  <2>2. Contract!Eligible = Contract!Matching \cup Contract!With("default") \cup Contract!With("absent")
    BY <1>5 DEF Contract!Eligible, Contract!Routing, Routing
  <2> QED
    BY <1>3, <2>1, <2>2 DEF Contract!Matching, Contract!With, Takes
<1>6. CASE Routing
  <2>1. RoutedBelow(n)
    BY <1>6 DEF IInv, RoutingInStep
  <2>2. \A i, j \in DOMAIN targets : i = j
    BY <2>1 DEF RoutedBelow
  <2>3. \A p, q \in Chosen : p = q
    BY <2>2 DEF Chosen
  <2>4. Contract!Matching = {p \in DOMAIN cfg.targets : Matches(p)}
    BY DEF Contract!Matching, Contract!With, Matches
  <2>5. Contract!Matching \subseteq Chosen
    BY <1>2, <2>1, <2>4 DEF RoutedBelow, Chosen
  <2>6. ~Contract!Ambiguous
    BY <2>3, <2>5 DEF Contract!Ambiguous
  <2>7. CASE Contract!Matching # {}
    <3>1. Chosen = Contract!Matching
      BY <2>3, <2>5, <2>7
    <3> QED
      BY <1>6, <2>6, <2>7, <3>1 DEF Contract!Eligible, Contract!Routing, Routing
  <2>8. CASE Contract!Matching = {}
    <3>1. Contract!Eligible = Contract!With("default")
      BY <1>6, <2>6, <2>8 DEF Contract!Eligible, Contract!Routing, Routing
    <3>2. Chosen \subseteq Contract!With("default")
      BY <1>4, <2>1, <2>4, <2>8 DEF RoutedBelow, Chosen, Contract!With, IsDefault
    <3>3. Contract!With("default") # {} => Chosen # {}
      <4>1. Contract!With("default") # {} => targets # << >>
        BY <1>1, <1>2, <1>6 DEF SelectedBelow, Contract!With, IsDefault
      <4>2. targets # << >> => 1 \in DOMAIN targets
        BY DEF IInv, TypeOK
      <4> QED
        BY <4>1, <4>2 DEF Chosen
    <3>4. \A p, q \in Contract!With("default") : p = q
      <4>1. StrategyValid(cfg)
        BY DEF IInv, TypeOK, ListenerValid
      <4> QED
        BY <1>6, <4>1 DEF StrategyValid, Routing, Contract!With, IsDefault
    <3> QED
      BY <3>1, <3>2, <3>3, <3>4
  <2> QED
    BY <2>7, <2>8
<1> QED
  BY <1>5, <1>6

Refused == {targets[i] : i \in {j \in DOMAIN target_requests :
                                  target_requests[j] = "signing_failed"}}

\* A dispatched target was queried or refused, and never both.
LEMMA QueriedOrRefused ==
  ASSUME IInv, NEW i \in DOMAIN target_requests
  PROVE  /\ targets[i] \in Refused <=> target_requests[i] # "spawned"
         /\ targets[i] \in spawned <=> target_requests[i] = "spawned"
<1> USE Lengths
<1>1. \A j \in DOMAIN target_requests :
        target_requests[j] \in {"spawned", "signing_failed"}
  BY DEF IInv, TypeOK, DispatchKinds
<1>2. \A j \in DOMAIN target_requests : targets[j] = targets[i] => j = i
  BY TargetsDistinct
<1>3. targets[i] \in spawned <=> target_requests[i] = "spawned"
  BY DEF IInv, DispatchInStep
<1> QED
  BY <1>1, <1>2, <1>3 DEF Refused

\* What is queried or refused is what has been dispatched.
LEMMA Handled ==
  ASSUME IInv
  PROVE  spawned \cup Refused = {targets[i] : i \in DOMAIN target_requests}
<1>1. \A p \in spawned : \E i \in DOMAIN target_requests : targets[i] = p
  BY DEF IInv, DispatchInStep
<1>2. \A i \in DOMAIN target_requests : targets[i] \in spawned \cup Refused
  BY QueriedOrRefused
<1> QED
  BY <1>1, <1>2 DEF Refused

Phase == IF pc = "answered" THEN "answered" ELSE IF pc \in Ended THEN "abandoned" ELSE "open"

-----------------------------------------------------------------------------
(* The steps of the handler as steps of the contract.                       *)

\* The loop of the dispatch meets the eligible targets in their order.
LEMMA DispatchIsNext ==
  ASSUME IInv, RInv, Dispatching, NEW p, p = targets[pos]
  PROVE  Contract!IsNext(p)
<1> USE Lengths
<1>1. pc = "dispatch" /\ pos \in 1 .. Len(targets) /\ Len(target_requests) = pos - 1
  BY DEF Dispatching, IInv, DispatchInStep
<1>2. Contract!Eligible = Chosen
  BY <1>1, EligibleAreChosen
<1>3. MethodAllowed(cfg, req.method) /\ Phase = "open"
  BY <1>1 DEF RInv, Admitted, Ended, Phase
<1>4. spawned \cup Refused = {targets[i] : i \in 1 .. pos - 1}
  BY <1>1, Handled
<1>5. targets[pos] \notin spawned \cup Refused
  BY <1>1, <1>4, TargetsDistinct
<1>6. ASSUME NEW j \in DOMAIN targets, targets[j] < targets[pos]
      PROVE  targets[j] \in spawned \cup Refused
  <2>1. \A i \in DOMAIN targets : targets[i] \in Nat
    BY SelectedTarget
  <2>2. ~(pos < j)
    BY <1>1, <1>6, <2>1 DEF IInv, SelectionInOrder
  <2>3. j # pos
    BY <1>1, <1>6, <2>1
  <2> QED
    BY <1>1, <1>4, <2>2, <2>3
<1>7. targets[pos] \in Chosen
  BY <1>1 DEF Chosen
<1>8. \A q \in Chosen : q < targets[pos] => q \in spawned \cup Refused
  BY <1>6 DEF Chosen
<1> QED
  BY <1>2, <1>3, <1>5, <1>7, <1>8
     DEF Contract!IsNext, Contract!MethodAllowed, MethodAllowed, Refused, Phase

LEMMA SpawnQueries ==
  ASSUME IInv, RInv, SignAndSpawn, NEW p, p = targets[pos]
  PROVE  Contract!Query(p)
<1> USE Lengths
<1>1. Dispatching /\ UNCHANGED <<cfg, req, pc, outcome, answer, targets>>
      /\ target_requests' = Append(target_requests, "spawned")
      /\ spawned' = spawned \cup {targets[pos]}
  BY DEF SignAndSpawn, Enqueue, Advance, inputs
<1>2. target_requests \in Seq(DispatchKinds) /\ "spawned" \in DispatchKinds
  BY DEF IInv, TypeOK, DispatchKinds
<1>3. /\ DOMAIN target_requests' = 1 .. Len(target_requests) + 1
      /\ \A i \in 1 .. Len(target_requests) : target_requests'[i] = target_requests[i]
      /\ target_requests'[Len(target_requests) + 1] = "spawned"
  BY <1>1, <1>2, Appended
<1>4. {j \in DOMAIN target_requests' : target_requests'[j] = "signing_failed"}
        = {j \in DOMAIN target_requests : target_requests[j] = "signing_failed"}
  BY <1>3
<1>5. Refused' = Refused
  BY <1>1, <1>4 DEF Refused
<1>6. Phase' = Phase
  BY <1>1 DEF Phase
<1> QED
  BY <1>1, <1>5, <1>6, DispatchIsNext DEF Contract!Query, Phase, Refused

LEMMA SigningFailureRefuses ==
  ASSUME IInv, RInv, SignFails, NEW p, p = targets[pos]
  PROVE  Contract!Refuse(p)
<1> USE Lengths
<1>1. Dispatching /\ UNCHANGED <<cfg, req, pc, spawned, outcome, answer, targets>>
      /\ target_requests' = Append(target_requests, "signing_failed")
      /\ cfg.targets[targets[pos]].aws_sigv4 # "absent"
  BY DEF SignFails, Enqueue, Advance, inputs, Signed, Selected
<1>2. target_requests \in Seq(DispatchKinds) /\ "signing_failed" \in DispatchKinds
  BY DEF IInv, TypeOK, DispatchKinds
<1>3. /\ DOMAIN target_requests' = 1 .. Len(target_requests) + 1
      /\ \A i \in 1 .. Len(target_requests) : target_requests'[i] = target_requests[i]
      /\ target_requests'[Len(target_requests) + 1] = "signing_failed"
  BY <1>1, <1>2, Appended
<1>4. Len(target_requests) + 1 = pos
  BY <1>1 DEF Dispatching, IInv, DispatchInStep
<1>5. {j \in DOMAIN target_requests' : target_requests'[j] = "signing_failed"}
        = {j \in DOMAIN target_requests : target_requests[j] = "signing_failed"} \cup {pos}
  BY <1>3, <1>4
<1>6. Refused' = Refused \cup {targets[pos]}
  BY <1>1, <1>5 DEF Refused
<1>7. Phase' = Phase
  BY <1>1 DEF Phase
<1> QED
  BY <1>1, <1>6, <1>7, DispatchIsNext DEF Contract!Refuse, Phase, Refused

LEMMA TaskSettles ==
  ASSUME NEW p \in Positions, SettleTask(p)
  PROVE  Contract!Settle(p)
<1>1. UNCHANGED <<cfg, req, pc, spawned, targets, target_requests, answer>>
  BY DEF SettleTask, inputs, dispatched
<1> QED
  BY <1>1 DEF SettleTask, Contract!Settle, Contract!TaskResults, TaskResults,
              Contract!Success, Success, Contract!Failure, Failure, Contract!FailureKinds,
              FailureKinds, Phase, Refused

\* An end without an answer gives the request up.
LEMMA EndAbandons ==
  ASSUME IInv, Ending, pc \notin Ended, pc' # "answered"
  PROVE  Contract!Abandon
<1>1. UNCHANGED <<cfg, req, spawned, outcome, targets, target_requests>> /\ pc' \in Ended
  BY DEF Ending, Quits, inputs, dispatched
<1>2. answer' = answer
  BY Running DEF Ending, ProperEnd, Ended
<1> QED
  BY <1>1, <1>2 DEF Contract!Abandon, Ended

-----------------------------------------------------------------------------
(* What the selection of a response finds.                                  *)

LEMMA ResultOfTarget ==
  ASSUME IInv, pc = "select", NEW i \in DOMAIN targets
  PROVE  /\ results[i] \in ResponseResults
         /\ Contract!Resolved(targets[i])
         /\ Contract!Kind(targets[i]) = results[i].kind
         /\ results[i].kind = "ok" => outcome[targets[i]] = results[i]
<1> USE Lengths
<1>1. DOMAIN results = DOMAIN targets /\ DOMAIN target_requests = DOMAIN targets
  BY DEF IInv, DispatchInStep, ResultsInStep, Dispatched, Collected
<1>2. results[i] \in ResponseResults
  BY <1>1 DEF IInv, TypeOK
<1>3. /\ results[i] = ResultOf(i)
      /\ target_requests[i] = "spawned" => outcome[targets[i]] # None
  BY <1>1 DEF IInv, ResultsInStep
<1>4. CASE target_requests[i] = "spawned"
  <2>1. targets[i] \in spawned /\ targets[i] \notin Refused
    BY <1>1, <1>4, QueriedOrRefused
  <2>2. results[i] = outcome[targets[i]]
    BY <1>3, <1>4 DEF ResultOf
  <2> QED
    BY <1>2, <1>3, <1>4, <2>1, <2>2 DEF Contract!Resolved, Contract!Kind, Refused
<1>5. CASE target_requests[i] # "spawned"
  <2>1. targets[i] \in Refused
    BY <1>1, <1>5, QueriedOrRefused
  <2>2. results[i].kind = "signing_error"
    BY <1>3, <1>5 DEF ResultOf, Failure
  <2> QED
    BY <1>2, <2>1, <2>2 DEF Contract!Resolved, Contract!Kind, Refused
<1> QED
  BY <1>4, <1>5

LEMMA TargetsHaveStatuses ==
  ASSUME NEW s \in TargetStatuses
  PROVE  s # None
<1>1. s \in Nat
  BY RelayAssumption
<1> QED
  BY <1>1, NoneAssumption

\* The responses map has, for each selected target, what the contract says of it.
LEMMA ResponseOfTarget ==
  ASSUME IInv, RInv, pc = "select", NEW p \in Chosen
  PROVE  /\ Contract!Resolved(p)
         /\ Id(p) \in DOMAIN responses
         /\ p \in Contract!Dropped <=> responses[Id(p)] = None
         /\ p \notin Contract!Dropped => responses[Id(p)] = Contract!Status(p)
<1> USE Lengths
<1>1. PICK i \in DOMAIN targets : targets[i] = p
  BY DEF Chosen
<1>2. /\ results[i] \in ResponseResults
      /\ Contract!Resolved(p)
      /\ Contract!Kind(p) = results[i].kind
      /\ results[i].kind = "ok" => outcome[p] = results[i]
  BY <1>1, ResultOfTarget
<1>3. i \in DOMAIN results
  BY <1>1 DEF IInv, DispatchInStep, ResultsInStep, Dispatched, Collected
<1>4. Id(p) \in DOMAIN responses /\ responses[Id(p)] = Preprocessed(cfg.targets[p], results[i])
  BY <1>1, <1>3 DEF IInv, ResponsesInStep, ResponseLeft, Id
<1>5. p \in DOMAIN cfg.targets
  BY <1>1, SelectedTarget
<1>6. /\ cfg.targets[p].on_error \in {"propagate", "status", "drop"}
      /\ cfg.targets[p].error_status \in Option(Nat)
      /\ cfg.targets[p].on_error = "status" => cfg.targets[p].error_status # None
  BY <1>5, ConfiguredTarget DEF OnErrorActions, IInv, TypeOK, ListenerValid, TargetsValid,
                                TargetValid
<1>7. p \in Contract!Dropped <=> results[i].kind # "ok" /\ cfg.targets[p].on_error = "drop"
  <2>1. Contract!Eligible = Chosen
    BY EligibleAreChosen DEF Dispatched, Collected
  <2> QED
    BY <1>2, <2>1 DEF Contract!Dropped
<1>8. CASE results[i].kind = "ok"
  <2>1. results[i].status \in TargetStatuses
    BY <1>2, <1>8 DEF ResponseResults, TaskResults, Success, Failure, FailureKinds
  <2>2. results[i].status # None
    BY <2>1, TargetsHaveStatuses
  <2>3. Contract!Status(p) = results[i].status
    BY <1>2, <1>8 DEF Contract!Status
  <2> QED
    BY <1>2, <1>4, <1>7, <1>8, <2>2, <2>3 DEF Preprocessed
<1>9. CASE results[i].kind # "ok"
  <2>1. CASE cfg.targets[p].on_error = "propagate"
    <3>1. Contract!Status(p) = Contract!ErrorStatus(results[i].kind)
      BY <1>2, <1>9, <2>1 DEF Contract!Status
    <3>2. Contract!ErrorStatus(results[i].kind) = ErrorStatus(results[i].kind)
      BY DEF Contract!ErrorStatus, ErrorStatus
    <3>3. ErrorStatus(results[i].kind) # None
      BY NoneAssumption DEF ErrorStatus
    <3> QED
      BY <1>2, <1>4, <1>7, <1>9, <2>1, <3>1, <3>2, <3>3 DEF Preprocessed
  <2>2. CASE cfg.targets[p].on_error = "status"
    <3>1. Contract!Status(p) = cfg.targets[p].error_status
      BY <1>2, <1>9, <2>2 DEF Contract!Status
    <3> QED
      BY <1>2, <1>4, <1>6, <1>7, <1>9, <2>2, <3>1 DEF Preprocessed
  <2>3. CASE cfg.targets[p].on_error = "drop"
    BY <1>2, <1>4, <1>7, <1>9, <2>3 DEF Preprocessed
  <2> QED
    BY <1>6, <2>1, <2>2, <2>3
<1> QED
  BY <1>8, <1>9

\* The ids of the map are those of the selected targets, each of its own.
LEMMA Responding ==
  ASSUME IInv, RInv, pc = "select"
  PROVE  /\ Contract!Eligible = Chosen
         /\ \A p \in Chosen : Contract!Resolved(p) /\ Id(p) \in DOMAIN responses
         /\ \A id \in DOMAIN responses : \E p \in Chosen : id = Id(p)
         /\ \A p, q \in Chosen : Id(p) = Id(q) => p = q
         /\ \A p \in Chosen : Id(p) \in Present <=> p \in Contract!Candidates
         /\ \A p \in Contract!Candidates : responses[Id(p)] = Contract!Status(p)
         /\ Contract!Candidates \subseteq Chosen
<1>1. Contract!Eligible = Chosen
  BY EligibleAreChosen DEF Dispatched, Collected
<1>2. Contract!Candidates = Chosen \ Contract!Dropped
  BY <1>1 DEF Contract!Candidates
<1>3. \A id \in DOMAIN responses : \E p \in Chosen : id = Id(p)
  BY DEF RInv, ResponsesOfTargets, Ended
<1>4. \A p, q \in Chosen : Id(p) = Id(q) => p = q
  BY TargetsDistinct DEF Chosen, Id
<1> QED
  BY <1>1, <1>2, <1>3, <1>4, ResponseOfTarget DEF Present

-----------------------------------------------------------------------------
(* The answers that the strategies give are permitted.                      *)

Replied == pc' = "answered" => answer' \in Contract!Answers /\ Contract!Permitted(answer')

\* override_response answers with what it is given, but for the status.
LEMMA RespondAnswers ==
  ASSUME IInv, NEW kind \in {"no_target", "override", "target"},
         NEW from \in Option(TargetIds), NEW ctx \in Option(TargetIds),
         NEW status \in Nat, Respond(kind, from, ctx, status), pc' = "answered"
  PROVE  /\ answer' \in Contract!Answers
         /\ answer'.kind = kind /\ answer'.from = from /\ answer'.ctx = ctx
         /\ answer'.status = Contract!Overridden(status)
<1> DEFINE a == [kind |-> kind, from |-> from, ctx |-> ctx, status |-> status]
           final == IF cfg.override.status = None THEN status ELSE cfg.override.status
<1>1. CASE cfg.override = None
  <2>1. answer' = a
    BY <1>1 DEF Respond, Return
  <2>2. Contract!Overridden(status) = status
    BY <1>1 DEF Contract!Overridden
  <2> QED
    BY <2>1, <2>2 DEF Contract!Answers, Contract!Option, Option
<1>2. CASE cfg.override # None
  <2>1. cfg.override.status \in Option(Nat)
    BY <1>2, NoneAssumption DEF IInv, TypeOK, Listener, Option
  <2>2. final \in Nat /\ final = Contract!Overridden(status)
    BY <1>2, <2>1 DEF Option, Contract!Overridden
  <2>3. answer' = [a EXCEPT !.status = final]
    BY <1>2 DEF Respond, Return, Panic, Goto
  <2> HIDE DEF final
  <2>4. answer' = [kind |-> kind, from |-> from, ctx |-> ctx, status |-> final]
    BY <2>3
  <2> QED
    BY <2>2, <2>4 DEF Contract!Answers, Contract!Option, Option
<1> QED
  BY <1>1, <1>2

LEMMA RelayPermitted ==
  ASSUME IInv, RInv, pc = "select", NEW p \in Contract!Candidates,
         p \in Contract!Preferred, Relay(Id(p))
  PROVE  Replied
<1> SUFFICES ASSUME pc' = "answered"
             PROVE  answer' \in Contract!Answers /\ Contract!Permitted(answer')
  BY DEF Replied
<1>1. p \in Chosen /\ Id(p) \in Present /\ responses[Id(p)] = Contract!Status(p)
  BY Responding
<1>2. responses[Id(p)] \in Nat /\ Id(p) \in Option(TargetIds)
  BY <1>1 DEF Present, IInv, TypeOK, Option
<1>3. /\ answer' \in Contract!Answers
      /\ answer'.kind = "target" /\ answer'.from = Id(p) /\ answer'.ctx = Id(p)
      /\ answer'.status = Contract!Overridden(responses[Id(p)])
  BY <1>2, RespondAnswers DEF Relay
<1> QED
  BY <1>1, <1>3 DEF Contract!Permitted, Id

LEMMA NoTargetPermitted ==
  ASSUME IInv, RInv, pc = "select", Contract!Preferred = {}, ~Contract!Overrides,
         NEW ctx, ctx = None \/ \E p \in Contract!Dropped : ctx = Id(p),
         NoTarget(ctx)
  PROVE  Replied
<1> SUFFICES ASSUME pc' = "answered"
             PROVE  answer' \in Contract!Answers /\ Contract!Permitted(answer')
  BY DEF Replied
<1>1. cfg.no_targets_status \in Nat /\ None \in Option(TargetIds)
  BY NoneAssumption DEF IInv, TypeOK, Listener, Option
<1>2. Contract!Dropped \subseteq Chosen
  BY Responding DEF Contract!Dropped
<1>3. ctx \in Option(TargetIds)
  BY <1>2, Responding DEF IInv, TypeOK, Option
<1>4. Respond("no_target", None, ctx, cfg.no_targets_status)
  BY DEF NoTarget, Panic, Goto
<1>5. /\ answer' \in Contract!Answers
      /\ answer'.kind = "no_target" /\ answer'.ctx = ctx
      /\ answer'.status = Contract!Overridden(cfg.no_targets_status)
  BY <1>1, <1>3, <1>4, RespondAnswers
<1>6. ctx \in {None} \cup Contract!Ids([p \in Contract!Dropped |-> cfg.targets[p]])
  BY DEF Contract!Ids, Id
<1> QED
  BY <1>5, <1>6 DEF Contract!Permitted

LEMMA OverridePermitted ==
  ASSUME IInv, Contract!Preferred = {}, Contract!Overrides,
         Respond("override", None, None, 200)
  PROVE  Replied
<1> SUFFICES ASSUME pc' = "answered"
             PROVE  answer' \in Contract!Answers /\ Contract!Permitted(answer')
  BY DEF Replied
<1>1. None \in Option(TargetIds) /\ 200 \in Nat
  BY DEF Option
<1>2. /\ answer' \in Contract!Answers
      /\ answer'.kind = "override" /\ answer'.ctx = None
      /\ answer'.status = Contract!Overridden(200)
  BY <1>1, RespondAnswers
<1> QED
  BY <1>2 DEF Contract!Permitted

(* A name given to a select function stands for a set of targets: it is the *)
(* id of one that has a response, unless there is none.                     *)
StandsFor(id, S) ==
  /\ S \subseteq Contract!Candidates
  /\ id \in Present => \E p \in S : id = Id(p)
  /\ id \notin Present => S = {}

LEMMA SelectOrErrorPermitted ==
  ASSUME IInv, RInv, pc = "select", NEW id, NEW S, StandsFor(id, S),
         Contract!Preferred = S, ~Contract!Overrides, SelectOrError(id)
  PROVE  Replied
<1>1. CASE id \notin DOMAIN responses /\ NoTarget(None)
  BY <1>1, NoTargetPermitted DEF StandsFor, Present
<1>2. CASE id \in DOMAIN responses \ Present /\ NoTarget(id)
  <2>1. PICK p \in Chosen : id = Id(p)
    BY <1>2, Responding
  <2>2. p \in Contract!Dropped
    BY <1>2, <2>1, Responding DEF Contract!Candidates
  <2> QED
    BY <1>2, <2>1, <2>2, NoTargetPermitted DEF StandsFor
<1>3. CASE id \in Present /\ Relay(id)
  BY <1>3, RelayPermitted DEF StandsFor
<1> QED
  BY <1>1, <1>2, <1>3 DEF SelectOrError

LEMMA SelectOrOverridePermitted ==
  ASSUME IInv, RInv, pc = "select", NEW id, NEW S, StandsFor(id, S),
         Contract!Preferred = S, Contract!Overrides, SelectOrOverride(id)
  PROVE  Replied
<1>1. CASE id \notin DOMAIN responses /\ Respond("override", None, None, 200)
  BY <1>1, OverridePermitted DEF StandsFor, Present
<1>2. CASE Panic("expect_response")
  BY <1>2 DEF Panic, Goto, Replied
<1>3. CASE id \in Present /\ Relay(id)
  BY <1>3, RelayPermitted DEF StandsFor
<1> QED
  BY <1>1, <1>2, <1>3 DEF SelectOrOverride

LEMMA SelectFromTwoPermitted ==
  ASSUME IInv, RInv, pc = "select", NEW first, NEW second, NEW S, NEW T,
         StandsFor(first, S), StandsFor(second, T),
         Contract!Preferred = Contract!Prefer(S, T), ~Contract!Overrides,
         SelectFromTwo(first, second)
  PROVE  Replied
<1>1. CASE first \notin DOMAIN responses /\ SelectOrError(second)
  <2>1. S = {}
    BY <1>1 DEF StandsFor, Present
  <2>2. Contract!Preferred = T
    BY <2>1 DEF Contract!Prefer
  <2> QED
    BY <1>1, <2>2, SelectOrErrorPermitted
<1>2. CASE Panic("expect_response")
  BY <1>2 DEF Panic, Goto, Replied
<1>3. CASE first \in Present /\ Relay(first)
  <2>1. PICK p \in S : first = Id(p)
    BY <1>3 DEF StandsFor
  <2>2. Contract!Preferred = S
    BY <2>1 DEF Contract!Prefer
  <2> QED
    BY <1>3, <2>1, <2>2, RelayPermitted DEF StandsFor
<1> QED
  BY <1>1, <1>2, <1>3 DEF SelectFromTwo

LEMMA FirstStandsFor ==
  ASSUME IInv, RInv, pc = "select"
  PROVE  /\ \A ok \in FirstOf(OkIds) : StandsFor(ok, Contract!Succeeding)
         /\ \A failed \in FirstOf(FailedIds) : StandsFor(failed, Contract!Failing)
<1>1. None \notin Present
  BY NoneAssumption DEF Present, IInv, TypeOK
<1>2. \A id \in Present : \E p \in Contract!Candidates : id = Id(p)
  BY Responding DEF Present
<1>3. \A p \in Contract!Candidates :
        Id(p) \in Present /\ responses[Id(p)] = Contract!Status(p)
  BY Responding
<1>4. \A p \in Contract!Candidates : Id(p) \in FailedIds <=> p \in Contract!Failing
  BY <1>3 DEF FailedIds, Contract!Failing
<1>5. \A p \in Contract!Candidates : Id(p) \in OkIds <=> p \in Contract!Succeeding
  BY <1>3, <1>4 DEF OkIds, Contract!Succeeding
<1>6. Contract!Failing \subseteq Contract!Candidates /\ FailedIds \subseteq Present
  BY DEF Contract!Failing, FailedIds
<1>7. Contract!Succeeding \subseteq Contract!Candidates /\ OkIds \subseteq Present
  BY DEF Contract!Succeeding, OkIds
<1>8. ASSUME NEW ids, ids \subseteq Present, NEW S, S \subseteq Contract!Candidates,
             \A p \in Contract!Candidates : Id(p) \in ids <=> p \in S,
             NEW id \in FirstOf(ids)
      PROVE  StandsFor(id, S)
  <2>1. CASE ids = {}
    BY <1>1, <1>8, <2>1 DEF FirstOf, StandsFor
  <2>2. CASE ids # {}
    <3>1. id \in ids /\ id \in Present
      BY <1>8, <2>2 DEF FirstOf
    <3> QED
      BY <1>2, <1>8, <3>1 DEF StandsFor
  <2> QED
    BY <2>1, <2>2
<1> QED
  BY <1>4, <1>5, <1>6, <1>7, <1>8

LEMMA SelectorStandsFor ==
  ASSUME IInv, RInv, pc = "select"
  PROVE  StandsFor(cfg.target_selector, Contract!Named)
<1>1. Contract!Named = {p \in Contract!Candidates : Id(p) = cfg.target_selector}
  BY DEF Contract!Named, Id
<1>2. \A id \in Present : \E p \in Contract!Candidates : id = Id(p)
  BY Responding DEF Present
<1>3. \A p \in Contract!Candidates : Id(p) \in Present
  BY Responding
<1> QED
  BY <1>1, <1>2, <1>3 DEF StandsFor

\* conditional_routing has one target at most, and names it.
LEMMA RoutedStandsFor ==
  ASSUME IInv, RInv, pc = "select", Routing
  PROVE  StandsFor(ConditionalTargetId, Contract!Candidates)
<1> USE Lengths
<1>1. /\ Contract!Candidates \subseteq Chosen
      /\ \A p \in Chosen : Id(p) \in Present <=> p \in Contract!Candidates
  BY Responding
<1>2. CASE targets = << >>
  <2>1. Chosen = {} /\ ConditionalTargetId = None
    BY <1>2 DEF Chosen, ConditionalTargetId
  <2>2. None \notin Present
    BY NoneAssumption DEF Present, IInv, TypeOK
  <2> QED
    BY <1>1, <2>1, <2>2 DEF StandsFor
<1>3. CASE targets # << >>
  <2>1. Len(targets) =< 1
    BY DEF IInv, RoutingInStep, RoutedBelow, Dispatched, Collected
  <2>2. 1 \in DOMAIN targets /\ \A i \in DOMAIN targets : i = 1
    BY <1>3, <2>1 DEF IInv, TypeOK
  <2>3. Chosen = {targets[1]} /\ ConditionalTargetId = Id(targets[1])
    BY <1>3, <2>2 DEF Chosen, ConditionalTargetId, Id
  <2> QED
    BY <1>1, <2>3 DEF StandsFor
<1> QED
  BY <1>2, <1>3

LEMMA StrategyPermitted ==
  ASSUME IInv, RInv, pc = "select",
         NEW ok \in FirstOf(OkIds), NEW failed \in FirstOf(FailedIds), Strategy(ok, failed)
  PROVE  Replied
<1> DEFINE s == cfg.target_selector
<1>1. StandsFor(ok, Contract!Succeeding) /\ StandsFor(failed, Contract!Failing)
  BY FirstStandsFor
<1>2. StandsFor(s, Contract!Named)
  BY SelectorStandsFor
<1> HIDE DEF s
<1>3. CASE cfg.strategy = "always_override"
  BY <1>3, OverridePermitted DEF Strategy, Contract!Preferred, Contract!Overrides
<1>4. CASE cfg.strategy = "ok_then_override"
  BY <1>1, <1>4, SelectOrOverridePermitted DEF Strategy, Contract!Preferred, Contract!Overrides
<1>5. CASE cfg.strategy = "failed_then_override"
  BY <1>1, <1>5, SelectOrOverridePermitted DEF Strategy, Contract!Preferred, Contract!Overrides
<1>6. CASE cfg.strategy = "ok_then_target_id"
  BY <1>1, <1>2, <1>6, SelectFromTwoPermitted
     DEF Strategy, Contract!Preferred, Contract!Overrides, s
<1>7. CASE cfg.strategy = "failed_then_target_id"
  BY <1>1, <1>2, <1>7, SelectFromTwoPermitted
     DEF Strategy, Contract!Preferred, Contract!Overrides, s
<1>8. CASE cfg.strategy = "ok_then_failed"
  BY <1>1, <1>8, SelectFromTwoPermitted DEF Strategy, Contract!Preferred, Contract!Overrides
<1>9. CASE cfg.strategy = "failed_then_ok"
  BY <1>1, <1>9, SelectFromTwoPermitted DEF Strategy, Contract!Preferred, Contract!Overrides
<1>10. CASE cfg.strategy = "always_target_id"
  BY <1>2, <1>10, SelectOrErrorPermitted DEF Strategy, Contract!Preferred, Contract!Overrides, s
<1>11. CASE cfg.strategy = "conditional_routing"
  <2>1. StandsFor(ConditionalTargetId, Contract!Candidates)
    BY <1>11, RoutedStandsFor DEF Routing
  <2> QED
    BY <1>11, <2>1, SelectOrErrorPermitted DEF Strategy, Contract!Preferred, Contract!Overrides
<1> QED
  BY <1>3, <1>4, <1>5, <1>6, <1>7, <1>8, <1>9, <1>10, <1>11
     DEF IInv, TypeOK, Listener, Strategies, TargetIdStrategies

LEMMA SelectReplies ==
  ASSUME IInv, RInv, Select, pc' = "answered"
  PROVE  Contract!Reply
<1>1. pc = "select" /\ UNCHANGED <<cfg, req, spawned, outcome, targets, target_requests>>
  BY DEF Select, inputs, dispatched
<1>2. cfg.failing # None
  BY DEF Select, Panic, Goto
<1>3. PICK ok \in FirstOf(OkIds), failed \in FirstOf(FailedIds) : Strategy(ok, failed)
  BY <1>2 DEF Select
<1>4. answer' \in Contract!Answers /\ Contract!Permitted(answer')
  BY <1>1, <1>3, StrategyPermitted DEF Replied
<1>5. \A p \in Contract!Eligible : Contract!Resolved(p)
  BY <1>1, Responding
<1>6. Contract!MethodAllowed(cfg, req.method) /\ Phase = "open" /\ Phase' = "answered"
  BY <1>1 DEF RInv, Admitted, Contract!MethodAllowed, MethodAllowed, Phase, Ended
<1>7. Refused' = Refused
  BY <1>1 DEF Refused
<1> QED
  BY <1>1, <1>4, <1>5, <1>6, <1>7 DEF Contract!Reply, Phase, Refused

\* Two matching filters make nobody eligible.
LEMMA AmbiguityReplies ==
  ASSUME IInv, RInv, RouteAmbiguous, pc' = "answered"
  PROVE  Contract!Reply
<1> USE Lengths
<1>1. /\ pc = "conditions" /\ pos \in DOMAIN cfg.targets /\ Routing /\ Matches(pos)
      /\ targets # << >> /\ ~IsDefault(cfg.targets[targets[1]])
      /\ UNCHANGED <<cfg, req, spawned, outcome, targets, target_requests>>
  BY DEF RouteAmbiguous, Evaluating, HasFilter, Considered, Matches, Replaceable, inputs,
         dispatched
<1>2. 1 \in DOMAIN targets
  BY <1>1 DEF IInv, TypeOK
<1>3. /\ targets[1] \in DOMAIN cfg.targets /\ targets[1] < pos
      /\ Matches(targets[1])
  BY <1>1, <1>2, SelectedTarget DEF IInv, SelectionInOrder, RoutingInStep, RoutedBelow
<1>4. Contract!Ambiguous
  <2>1. pos \in Contract!Matching /\ targets[1] \in Contract!Matching
    BY <1>1, <1>3 DEF Contract!Matching, Contract!With, Matches
  <2>2. pos # targets[1]
    BY <1>3
  <2> QED
    BY <1>1, <2>1, <2>2 DEF Contract!Ambiguous, Contract!Routing, Routing
<1>5. Contract!Eligible = {}
  BY <1>1, <1>4 DEF Contract!Eligible, Contract!Routing, Routing
<1>6. Contract!Preferred = {} /\ ~Contract!Overrides
  <2>1. Contract!Candidates = {}
    BY <1>5 DEF Contract!Candidates
  <2> QED
    BY <1>1, <2>1 DEF Contract!Preferred, Contract!Overrides, Routing
<1>7. Respond("no_target", None, None, cfg.no_targets_status)
  BY DEF RouteAmbiguous, Fail, Goto
<1>8. cfg.no_targets_status \in Nat /\ None \in Option(TargetIds)
  BY NoneAssumption DEF IInv, TypeOK, Listener, Option
<1>9. /\ answer' \in Contract!Answers
      /\ answer'.kind = "no_target" /\ answer'.ctx = None
      /\ answer'.status = Contract!Overridden(cfg.no_targets_status)
  BY <1>7, <1>8, RespondAnswers
<1>10. Contract!Permitted(answer')
  BY <1>6, <1>9 DEF Contract!Permitted
<1>11. Contract!MethodAllowed(cfg, req.method) /\ Phase = "open" /\ Phase' = "answered"
  BY <1>1 DEF RInv, Admitted, Contract!MethodAllowed, MethodAllowed, Phase, Ended
<1>12. Refused' = Refused
  BY <1>1 DEF Refused
<1> QED
  BY <1>1, <1>5, <1>9, <1>10, <1>11, <1>12 DEF Contract!Reply, Phase, Refused

LEMMA RejectionAnswers ==
  ASSUME IInv, RejectMethod
  PROVE  Contract!RejectMethod
<1>1. /\ pc = "accepted" /\ pc' = "answered" /\ ~MethodAllowed(cfg, req.method)
      /\ answer' = [kind |-> "not_allowed", from |-> None, ctx |-> None, status |-> 405]
      /\ UNCHANGED <<cfg, req, spawned, outcome, targets, target_requests>>
  BY DEF RejectMethod, Return, Goto, inputs, dispatched
<1>2. Phase = "open" /\ Phase' = "answered" /\ Refused' = Refused
  BY <1>1 DEF Phase, Ended, Refused
<1> QED
  BY <1>1, <1>2 DEF Contract!RejectMethod, Contract!MethodAllowed, MethodAllowed, Phase, Refused

\* An answer comes from one of three steps.
LEMMA Answering ==
  ASSUME IInv, [Next]_vars, pc \notin Ended, pc' = "answered"
  PROVE  RejectMethod \/ RouteAmbiguous \/ Select
<1>1. ~(AcceptMethod \/ FilterPanics \/ BeginDispatch)
  BY DEF AcceptMethod, FilterPanics, BeginDispatch, Panic, Goto, Begin
<1>2. ~(SelectTarget \/ RouteTarget)
  BY DEF SelectTarget, RouteTarget, Advance, Ended
<1>3. ~Dispatch
  BY DEF Dispatch, BuildFails, DispatchPanics, SignAndSpawn, SignFails, Enqueue, Fail, Panic,
         Goto, Advance, Ended
<1>4. ~(BeginCollect \/ CollectSigningError \/ CollectError \/ CollectHead \/ BeginPreprocess)
  BY DEF BeginCollect, CollectSigningError, CollectError, CollectHead, BeginPreprocess, Begin,
         Goto, Advance, Ended
<1>5. ~(Preprocess \/ BeginSelect)
  BY DEF Preprocess, BeginSelect, Panic, Goto, Advance, Ended
<1>6. ~Peers
  BY DEF Peers, ReadRequestBody, RequestPanics, ReadTargetBody, TargetBodyFails, Begin, Panic,
         Goto
<1>7. ~(Disconnect \/ Terminated \/ UNCHANGED vars)
  BY DEF Disconnect, Terminated, vars, Goto, Ended
<1>8. \A p \in Positions : ~SettleTask(p)
  BY DEF SettleTask, Ended
<1> QED
  BY <1>1, <1>2, <1>3, <1>4, <1>5, <1>6, <1>7, <1>8 DEF Next, Prepare, Conclude

\* After the end only tasks go on.
LEMMA AfterEnd ==
  ASSUME [Next]_vars, pc \in Ended
  PROVE  (\E p \in Positions : SettleTask(p)) \/ UNCHANGED vars
<1> USE DEF Ended
<1>1. ~Prepare
  BY DEF Prepare, RejectMethod, AcceptMethod, FilterPanics, SelectTarget, RouteTarget,
         RouteAmbiguous, BeginDispatch, Evaluating
<1>2. ~Dispatch
  BY DEF Dispatch, BuildFails, DispatchPanics, SignAndSpawn, SignFails, Dispatching
<1>3. ~Conclude
  BY DEF Conclude, BeginCollect, CollectSigningError, CollectError, CollectHead,
         BeginPreprocess, Preprocess, BeginSelect, Select, Collecting
<1>4. ~Peers
  BY DEF Peers, ReadRequestBody, RequestPanics, ReadTargetBody, TargetBodyFails
<1>5. ~Disconnect
  BY DEF Disconnect, AtAwait, Dispatching, Collecting
<1> QED
  BY <1>1, <1>2, <1>3, <1>4, <1>5 DEF Next, Terminated

\* The contract does not see the rest.
LEMMA QuietSteps ==
  ASSUME IInv, pc \notin Ended,
         \/ AcceptMethod \/ ReadRequestBody \/ SelectTarget \/ RouteTarget \/ BeginDispatch
         \/ BeginCollect \/ CollectSigningError \/ CollectError \/ CollectHead
         \/ ReadTargetBody \/ BeginPreprocess \/ Inserting \/ BeginSelect
  PROVE  UNCHANGED Contract!vars
<1>1. /\ UNCHANGED <<cfg, req, spawned, outcome, target_requests, answer>>
      /\ pc' \notin Ended
      /\ UNCHANGED targets \/ pc = "conditions"
  <2>1. CASE AcceptMethod \/ ReadRequestBody \/ SelectTarget \/ RouteTarget \/ BeginDispatch
    BY <2>1 DEF AcceptMethod, ReadRequestBody, SelectTarget, RouteTarget, BeginDispatch,
                Evaluating, Begin, Goto, Advance, inputs, dispatched, Ended
  <2>2. CASE BeginCollect \/ CollectSigningError \/ CollectError \/ CollectHead
             \/ ReadTargetBody \/ BeginPreprocess
    BY <2>2 DEF BeginCollect, CollectSigningError, CollectError, CollectHead, ReadTargetBody,
                BeginPreprocess, Begin, Goto, Advance, inputs, dispatched, Ended
  <2>3. CASE Inserting \/ BeginSelect
    BY <2>3 DEF Inserting, Preprocess, BeginSelect, Goto, Advance, inputs, dispatched, Ended
  <2> QED
    BY <2>1, <2>2, <2>3
<1>2. Phase' = Phase
  BY <1>1 DEF Phase, Ended
<1>3. Refused' = Refused
  <2>1. CASE UNCHANGED targets
    BY <1>1, <2>1 DEF Refused
  <2>2. CASE pc = "conditions"
    BY <1>1, <2>2 DEF IInv, DispatchInStep, Choosing, Refused
  <2> QED
    BY <1>1, <2>1, <2>2
<1> QED
  BY <1>1, <1>2, <1>3 DEF Contract!vars, Phase, Refused

LEMMA StepImplements ==
  ASSUME IInv, RInv, [Next]_vars
  PROVE  [Contract!Next]_(Contract!vars)
<1> USE Lengths
<1>1. CASE pc \in Ended
  <2>1. CASE UNCHANGED vars
    BY <2>1 DEF vars, Contract!vars
  <2>2. ASSUME NEW p \in Positions, SettleTask(p) PROVE Contract!Next
    BY <2>2, TaskSettles DEF Contract!Next, Contract!Positions, Positions
  <2> QED
    BY <1>1, <2>1, <2>2, AfterEnd
<1>2. CASE pc \notin Ended
  <2>1. CASE Ending /\ pc' # "answered"
    BY <1>2, <2>1, EndAbandons DEF Contract!Next
  <2>2. CASE pc' = "answered"
    BY <1>2, <2>2, Answering, RejectionAnswers, AmbiguityReplies, SelectReplies
       DEF Contract!Next
  <2>3. CASE SignAndSpawn \/ SignFails
    <3>1. PICK p \in Contract!Positions : p = targets[pos]
      BY <2>3, SelectedTarget, ConfiguredTarget
         DEF SignAndSpawn, SignFails, Dispatching, Positions, Contract!Positions
    <3>2. Contract!Query(p) \/ Contract!Refuse(p)
      BY <2>3, <3>1, SpawnQueries, SigningFailureRefuses
    <3> QED
      BY <3>2 DEF Contract!Next
  <2>4. ASSUME NEW p \in Positions, SettleTask(p) PROVE Contract!Next
    BY <2>4, TaskSettles DEF Contract!Next, Contract!Positions, Positions
  <2>5. CASE UNCHANGED vars
    BY <2>5 DEF vars, Contract!vars
  <2> QED
    BY <1>2, <2>1, <2>2, <2>3, <2>4, <2>5, QuietSteps, StepCases
<1> QED
  BY <1>1, <1>2

(* ImplementsContract: whatever the listener, the request, the number of    *)
(* targets and the order in which they settle, the handler queries the      *)
(* eligible targets in their order and answers as its strategy permits.     *)
THEOREM HandlerImplementsContract == Spec => ImplementsContract
<1>1. Init => Contract!Init
  <2> SUFFICES ASSUME Init PROVE Contract!Init
    OBVIOUS
  <2>1. cfg \in Contract!Listener
    <3>1. cfg \in Listener
      BY HandlerAssumption DEF Init
    <3> QED
      BY <3>1 DEF Listener, Contract!Listener, Strategies, Contract!Strategies,
                  TargetIdStrategies, Contract!TargetIdStrategies, Option, Contract!Option,
                  Target, Contract!Target, Conditions, Contract!Conditions,
                  OnErrorActions, Contract!OnErrorActions
  <2>2. Contract!ListenerValid(cfg)
    BY DEF Init, ListenerValid, Contract!ListenerValid, TargetsValid, Contract!TargetsValid,
           TargetValid, Contract!TargetValid, StrategyValid, Contract!StrategyValid,
           IsDefault, Contract!IsDefault, Ids, Contract!Ids,
           TargetIdStrategies, Contract!TargetIdStrategies
  <2>3. req \in Contract!Request
    BY HandlerAssumption DEF Init, Request, Contract!Request, Methods, Contract!Methods,
                             Positions, Contract!Positions
  <2>4. Refused = {} /\ Phase = "open"
    BY DEF Init, Refused, Phase, Ended
  <2> QED
    BY <2>1, <2>2, <2>3, <2>4 DEF Init, Contract!Init, Refused, Phase, Positions,
                                  Contract!Positions
<1>2. IInv /\ RInv /\ [Next]_vars => [Contract!Next]_(Contract!vars)
  BY StepImplements
<1> QED
  BY <1>1, <1>2, RInvariance, PTL DEF Spec, ImplementsContract, Contract!Spec
============================================================================
