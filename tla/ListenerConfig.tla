--------------------------- MODULE ListenerConfig ---------------------------
(***************************************************************************)
(* The part of a listener's configuration that decides how a request is    *)
(* relayed, and the validation it has passed before the process opens a    *)
(* socket (config/listener.rs, config/target.rs).  Optional fields are     *)
(* values of Option(S), with None for an absent one.                       *)
(***************************************************************************)
EXTENDS Integers, Sequences

CONSTANTS
  TargetIds,    \* what a target's `id` or the listener's `target_selector` can be
  HttpMethods,  \* the methods the configuration language knows
  Statuses,     \* the status codes that occur: configured, or sent by a target
  None          \* an absent option

Option(S) == {None} \cup S

ASSUME NoneAssumption ==
  /\ None \notin TargetIds
  /\ None \notin Nat
  /\ Statuses \subseteq Nat

TargetIdStrategies ==
  {"always_target_id", "ok_then_target_id", "failed_then_target_id"}

Strategies ==
  TargetIdStrategies \cup
  {"always_override", "ok_then_failed", "ok_then_override", "failed_then_ok",
   "failed_then_override", "conditional_routing"}

\* `condition` absent, the word `default`, or a jq filter
Conditions == {"absent", "default", "filter"}

OnErrorActions == {"propagate", "status", "drop"}

(* A target as the handler sees it; url and aws_sigv4 tell valid from       *)
(* malformed, because validation refuses malformed ones.                    *)
Target ==
  [id           : TargetIds,
   url          : {"valid", "malformed"},
   condition    : Conditions,
   on_error     : OnErrorActions,
   error_status : Option(Statuses),
   aws_sigv4    : {"absent", "valid", "malformed"}]

(* override keeps, of OverrideConfig, the status it may set.                *)
(* failing is the set of statuses that failed_status_regex matches, None    *)
(* if it is no regex; validation checks neither it nor the statuses.        *)
Listener ==
  [strategy          : Strategies,
   methods           : Option(SUBSET HttpMethods),
   targets           : Seq(Target),
   target_selector   : Option(TargetIds),
   failing           : Option(SUBSET Statuses),
   no_targets_status : Statuses,
   override          : Option([status : Option(Statuses)])]

-----------------------------------------------------------------------------
Ids(targets) == {targets[i].id : i \in DOMAIN targets}

TargetValid(t) ==
  /\ t.url = "valid"
  /\ t.on_error = "status" <=> t.error_status # None
  /\ t.aws_sigv4 # "malformed"

TargetsValid(targets) ==
  /\ targets # << >>
  /\ \A i \in DOMAIN targets : TargetValid(targets[i])
  /\ \A i, j \in DOMAIN targets : targets[i].id = targets[j].id => i = j

IsDefault(t) == t.condition = "default"

\* Mutant: conditions are not required.
StrategyValidWithoutConditions(l) ==
  /\ l.strategy = "conditional_routing" =>
       \A i, j \in DOMAIN l.targets :
         IsDefault(l.targets[i]) /\ IsDefault(l.targets[j]) => i = j
  /\ l.strategy \in TargetIdStrategies => l.target_selector \in Ids(l.targets)

StrategyValid(l) ==
  /\ l.strategy = "conditional_routing" =>
       /\ \A i \in DOMAIN l.targets : l.targets[i].condition # "absent"
       /\ \A i, j \in DOMAIN l.targets :
            IsDefault(l.targets[i]) /\ IsDefault(l.targets[j]) => i = j
  /\ l.strategy \in TargetIdStrategies => l.target_selector \in Ids(l.targets)

ListenerValid(l) == TargetsValid(l.targets) /\ StrategyValid(l)

\* No `methods` list lets everything through, unknown methods included.
MethodAllowed(l, method) == l.methods # None => method \in l.methods
=============================================================================
