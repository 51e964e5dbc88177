----------------------------- MODULE RelayTypes -----------------------------
(***************************************************************************)
(* What the relaying of one request is about: requests, what becomes of a  *)
(* target, and what the client is sent.  Shared by RequestHandler, which   *)
(* follows handler.rs, and RelayContract, which says what it must achieve. *)
(***************************************************************************)
EXTENDS ListenerConfig

CONSTANTS
  TargetStatuses, \* the statuses a target may answer with
  MaxTargets      \* bound: targets per listener

Positions == 1 .. MaxTargets

\* Unknown methods, such as TRACE, reach the handler too.
Methods == HttpMethods \cup {"unknown_method"}

(* A request: its method, which targets' filters it satisfies, and whether  *)
(* all of its header values are text.                                       *)
Request ==
  [method : Methods, holds : [Positions -> BOOLEAN], text_headers : BOOLEAN]

ASSUME RelayAssumption ==
  /\ MaxTargets \in Nat
  /\ TargetStatuses \subseteq Statuses \cap (100 .. 999)

-----------------------------------------------------------------------------
(* ResponseResult: what became of one target.  A connect failure and any    *)
(* other client error are both HyperError; on_error tells them apart.       *)
Failure(kind) == [kind |-> kind, status |-> None]
Success(status) == [kind |-> "ok", status |-> status]

FailureKinds == {"connect_error", "other_error", "timeout", "signing_error"}
TaskResults == {Success(s) : s \in TargetStatuses} \cup
               {Failure(k) : k \in FailureKinds \ {"signing_error"}}
ResponseResults == TaskResults \cup {Failure("signing_error")}

ASSUME NoResultAssumption == None \notin TaskResults

(* What the client is sent: `from` is the target whose response it is,      *)
(* `ctx` the target whose variables its override templates expand.          *)
Answers ==
  [kind   : {"not_allowed", "no_target", "override", "target"},
   from   : Option(TargetIds),
   ctx    : Option(TargetIds),
   status : Nat]

=============================================================================
