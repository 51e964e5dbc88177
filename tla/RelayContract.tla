---------------------------- MODULE RelayContract ----------------------------
(***************************************************************************)
(* What a listener owes one client request, with no loop, queue or map: it *)
(* queries the eligible targets in their configured order, and what it     *)
(* answers is one of the responses the strategy permits, given what every  *)
(* eligible target did.  It may also give up without an answer.            *)
(***************************************************************************)
EXTENDS RelayTypes

VARIABLES
  cfg, req, \* the listener's configuration and the request, fixed
  phase,    \* "open" until the request is "answered" or "abandoned"
  queried,  \* positions of the targets that were sent a request
  refused,  \* positions of the targets whose request could not be signed
  outcome,  \* what became of each queried target, None while unknown
  answer    \* the response sent to the client

vars == <<cfg, req, phase, queried, refused, outcome, answer>>

-----------------------------------------------------------------------------
(* Which targets are eligible.                                              *)

With(condition) == {p \in DOMAIN cfg.targets : cfg.targets[p].condition = condition}
Matching == {p \in With("filter") : req.holds[p]}
Routing == cfg.strategy = "conditional_routing"
Ambiguous == Routing /\ \E p, q \in Matching : p # q

Eligible ==
  IF ~Routing THEN Matching \cup With("default") \cup With("absent")
  ELSE IF Ambiguous THEN {}
  ELSE IF Matching # {} THEN Matching
  ELSE With("default")

-----------------------------------------------------------------------------
(* What each contributes to the answer.                                     *)

Resolved(p) == p \in refused \/ (p \in queried /\ outcome[p] # None)
Kind(p) == IF p \in refused THEN "signing_error" ELSE outcome[p].kind

ErrorStatus(kind) ==
  IF kind = "connect_error" THEN 502 ELSE IF kind = "timeout" THEN 504 ELSE 500

Dropped == {p \in Eligible : Kind(p) # "ok" /\ cfg.targets[p].on_error = "drop"}
Candidates == Eligible \ Dropped

Status(p) ==
  IF Kind(p) = "ok" THEN outcome[p].status
  ELSE IF cfg.targets[p].on_error = "status" THEN cfg.targets[p].error_status
  ELSE ErrorStatus(Kind(p))

Failing == {p \in Candidates : Status(p) \in cfg.failing}
Succeeding == Candidates \ Failing
Named == {p \in Candidates : cfg.targets[p].id = cfg.target_selector}

(* The targets whose response the strategy prefers: those of `first` if     *)
(* there are any, else those of `second`.                                   *)
Prefer(first, second) == IF first # {} THEN first ELSE second

Preferred ==
  CASE cfg.strategy = "ok_then_failed" -> Prefer(Succeeding, Failing)
    [] cfg.strategy = "failed_then_ok" -> Prefer(Failing, Succeeding)
    [] cfg.strategy = "ok_then_target_id" -> Prefer(Succeeding, Named)
    [] cfg.strategy = "failed_then_target_id" -> Prefer(Failing, Named)
    [] cfg.strategy = "ok_then_override" -> Succeeding
    [] cfg.strategy = "failed_then_override" -> Failing
    [] cfg.strategy = "always_target_id" -> Named
    [] cfg.strategy = "conditional_routing" -> Candidates
    [] cfg.strategy = "always_override" -> {}

Overrides ==
  cfg.strategy \in {"always_override", "ok_then_override", "failed_then_override"}

Overridden(status) ==
  IF cfg.override # None /\ cfg.override.status # None
  THEN cfg.override.status ELSE status

Permitted(a) ==
  \/ /\ a.kind = "target"
     /\ \E p \in Preferred : /\ a.from = cfg.targets[p].id /\ a.ctx = a.from
                             /\ a.status = Overridden(Status(p))
  \/ /\ a.kind = "override" /\ a.ctx = None
     /\ Overrides /\ Preferred = {}
     /\ a.status = Overridden(200)
  \/ /\ a.kind = "no_target"
     /\ a.ctx \in {None} \cup Ids([p \in Dropped |-> cfg.targets[p]])
     /\ ~Overrides /\ Preferred = {}
     /\ a.status = Overridden(cfg.no_targets_status)

-----------------------------------------------------------------------------
Init ==
  /\ cfg \in Listener /\ ListenerValid(cfg)
  /\ req \in Request
  /\ phase = "open"
  /\ queried = {} /\ refused = {}
  /\ outcome = [p \in Positions |-> None]
  /\ answer = None

IsNext(p) ==
  /\ phase = "open" /\ MethodAllowed(cfg, req.method)
  /\ p \in Eligible \ (queried \cup refused)
  /\ \A q \in Eligible : q < p => q \in queried \cup refused

Query(p) ==
  /\ IsNext(p)
  /\ queried' = queried \cup {p}
  /\ UNCHANGED <<cfg, req, phase, refused, outcome, answer>>

Refuse(p) ==
  /\ IsNext(p) /\ cfg.targets[p].aws_sigv4 # "absent"
  /\ refused' = refused \cup {p}
  /\ UNCHANGED <<cfg, req, phase, queried, outcome, answer>>

Settle(p) ==
  /\ p \in queried /\ outcome[p] = None
  /\ \E r \in TaskResults : outcome' = [outcome EXCEPT ![p] = r]
  /\ UNCHANGED <<cfg, req, phase, queried, refused, answer>>

RejectMethod ==
  /\ phase = "open" /\ ~MethodAllowed(cfg, req.method)
  /\ answer' = [kind |-> "not_allowed", from |-> None, ctx |-> None, status |-> 405]
  /\ phase' = "answered"
  /\ UNCHANGED <<cfg, req, queried, refused, outcome>>

Reply ==
  /\ phase = "open" /\ MethodAllowed(cfg, req.method)
  /\ \A p \in Eligible : Resolved(p)
  /\ answer' \in Answers /\ Permitted(answer')
  /\ phase' = "answered"
  /\ UNCHANGED <<cfg, req, queried, refused, outcome>>

Abandon ==
  /\ phase = "open"
  /\ phase' = "abandoned"
  /\ UNCHANGED <<cfg, req, queried, refused, outcome, answer>>

Next ==
  \/ \E p \in Positions : Query(p) \/ Refuse(p) \/ Settle(p)
  \/ RejectMethod \/ Reply \/ Abandon

Spec == Init /\ [][Next]_vars
=============================================================================
