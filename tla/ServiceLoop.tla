----------------------------- MODULE ServiceLoop -----------------------------
(***************************************************************************)
(* The life of the process: run and service_loop (lib.rs), the health      *)
(* check's loop (health_check.rs) and their signal handlers (signal.rs).   *)
(*                                                                         *)
(* Processes: main; one accept loop per listener and one for the health    *)
(* check, each with the connection tasks of its JoinSet; the operator, who *)
(* sends signals.  What a connection carries is RequestHandler's subject.  *)
(***************************************************************************)
EXTENDS Integers

CONSTANTS
  NumListeners, \* listeners are bound one by one, in configured order
  Connections,  \* bound: connections open at once on one loop
  MaxSignals    \* bound: signals the operator sends

ASSUME ServiceAssumption ==
  /\ NumListeners \in Nat \ {0}
  /\ MaxSignals \in Nat

Listeners == 1 .. NumListeners
Health == 0
Loops == Listeners \cup {Health}

VARIABLES
  has_port, \* whether the command line gives a health check port, fixed
  main,     \* where run() is
  next,     \* the listener run() binds next
  loop,     \* the state of each accept loop
  pending,  \* loops whose SignalHandler holds a signal they have not seen
  conns,    \* open connections of each loop: the unfinished part of join_set
  signals,  \* signals sent so far
  exit,     \* how the process ended, "none" while it runs
  cut       \* (history) loops that had open connections when it ended

vars == <<has_port, main, next, loop, pending, conns, signals, exit, cut>>

LoopStates == {"unbound", "spawned", "serving", "draining", "stopped", "aborted"}
Exits == {"none", "ok", "error", "panic", "killed"}

(* tokio's signal streams exist: the health check's from the moment its     *)
(* port is bound, a listener's once its spawned loop is first polled.       *)
Installed ==
  {l \in Loops : loop[l] \in {"serving", "draining"} \/ (l = Health /\ loop[l] = "spawned")}

Init ==
  /\ has_port \in BOOLEAN
  /\ main = "configure"
  /\ next = 1
  /\ loop = [l \in Loops |-> "unbound"]
  /\ pending = {}
  /\ conns = [l \in Loops |-> {}]
  /\ signals = 0
  /\ exit = "none"
  /\ cut = {}

-----------------------------------------------------------------------------
\* main returns, panics or is killed: the runtime drops every task.
Exit(how) ==
  /\ main' = "exited" /\ exit' = how
  /\ loop' = [l \in Loops |-> IF loop[l] \in {"unbound", "stopped"} THEN loop[l]
                              ELSE "aborted"]
  /\ cut' = {l \in Loops : conns[l] # {}}
  /\ conns' = [l \in Loops |-> {}]
  /\ pending' = {}

\* AppConfig::new and aws_auth::init
Configure ==
  /\ main = "configure"
  /\ main' = "bind"
  /\ UNCHANGED <<has_port, next, loop, pending, conns, signals, exit, cut>>

\* Mutant: the loop over the listeners runs one too far.
BindPastTheEnd ==
  /\ main = "bind" /\ next =< NumListeners + 1
  /\ loop' = [loop EXCEPT ![next] = "spawned"]
  /\ next' = next + 1
  /\ UNCHANGED <<has_port, main, pending, conns, signals, exit, cut>>

Bind ==
  /\ main = "bind" /\ next \in Listeners
  /\ loop' = [loop EXCEPT ![next] = "spawned"]
  /\ next' = next + 1
  /\ UNCHANGED <<has_port, main, pending, conns, signals, exit, cut>>

\* `?` leaves run() while the loops bound before may be serving.
StartupFails ==
  /\ main = "configure" \/ (main = "bind" /\ next \in Listeners)
  /\ Exit("error")
  /\ UNCHANGED <<has_port, next, signals>>

\* Mutant: the health check does not wait for the listeners.
StartHealthCheckEarly ==
  /\ main = "bind" /\ has_port
  /\ loop' = [loop EXCEPT ![Health] = "spawned"]
  /\ UNCHANGED <<has_port, main, next, pending, conns, signals, exit, cut>>

StartHealthCheck ==
  /\ main = "bind" /\ next \notin Listeners /\ has_port
  /\ loop' = [loop EXCEPT ![Health] = "spawned"]
  /\ main' = "join"
  /\ UNCHANGED <<has_port, next, pending, conns, signals, exit, cut>>

HealthCheckFails ==
  /\ main = "bind" /\ next \notin Listeners /\ has_port
  /\ Exit("panic")
  /\ UNCHANGED <<has_port, next, signals>>

NoHealthCheck ==
  /\ main = "bind" /\ next \notin Listeners /\ ~has_port
  /\ main' = "join"
  /\ UNCHANGED <<has_port, next, loop, pending, conns, signals, exit, cut>>

\* A loop that run() spawns, once it has got past startup.
Started(l) == l \in Listeners \/ has_port

\* join_all
Join ==
  /\ main = "join"
  /\ \A l \in Loops : loop[l] = "stopped" \/ ~Started(l)
  /\ Exit("ok")
  /\ UNCHANGED <<has_port, next, signals>>

-----------------------------------------------------------------------------
(* A loop; its select! is biased, so a signal is seen before a connection.  *)

FirstPoll(l) ==
  /\ loop[l] = "spawned"
  /\ loop' = [loop EXCEPT ![l] = "serving"]
  /\ UNCHANGED <<has_port, main, next, pending, conns, signals, exit, cut>>

\* Mutant: the select! is not biased.
AcceptUnbiased(l) ==
  /\ loop[l] = "serving"
  /\ \E k \in Connections \ conns[l] : conns' = [conns EXCEPT ![l] = @ \cup {k}]
  /\ UNCHANGED <<has_port, main, next, loop, pending, signals, exit, cut>>

Accept(l) ==
  /\ loop[l] = "serving" /\ l \notin pending
  /\ \E k \in Connections \ conns[l] : conns' = [conns EXCEPT ![l] = @ \cup {k}]
  /\ UNCHANGED <<has_port, main, next, loop, pending, signals, exit, cut>>

CloseConnection(l) ==
  /\ \E k \in conns[l] : conns' = [conns EXCEPT ![l] = @ \ {k}]
  /\ UNCHANGED <<has_port, main, next, loop, pending, signals, exit, cut>>

\* Mutant: the loop ends on a signal only if it is idle.
SeeSignalIfIdle(l) ==
  /\ loop[l] = "serving" /\ l \in pending
  /\ loop' = IF conns[l] = {} THEN [loop EXCEPT ![l] = "draining"] ELSE loop
  /\ pending' = pending \ {l}
  /\ UNCHANGED <<has_port, main, next, conns, signals, exit, cut>>

SeeSignal(l) ==
  /\ loop[l] = "serving" /\ l \in pending
  /\ loop' = [loop EXCEPT ![l] = "draining"]
  /\ pending' = pending \ {l}
  /\ UNCHANGED <<has_port, main, next, conns, signals, exit, cut>>

\* Mutant: the JoinSet is dropped instead of joined.
StopAtOnce(l) ==
  /\ loop[l] = "draining"
  /\ loop' = [loop EXCEPT ![l] = "stopped"]
  /\ pending' = pending \ {l}
  /\ UNCHANGED <<has_port, main, next, conns, signals, exit, cut>>

Stop(l) ==
  /\ loop[l] = "draining" /\ conns[l] = {}
  /\ loop' = [loop EXCEPT ![l] = "stopped"]
  /\ pending' = pending \ {l}
  /\ UNCHANGED <<has_port, main, next, conns, signals, exit, cut>>

(* TERM, INT, QUIT and HUP are treated alike.  Once one stream exists the   *)
(* signal no longer kills the process, and only existing streams get it.    *)
Signal ==
  /\ main # "exited" /\ signals < MaxSignals
  /\ signals' = signals + 1
  /\ IF \A l \in Loops : loop[l] \in {"unbound", "spawned"} /\ l \notin Installed
     THEN Exit("killed")
     ELSE pending' = pending \cup Installed /\ UNCHANGED <<main, loop, conns, exit, cut>>
  /\ UNCHANGED <<has_port, next>>

Exited == main = "exited" /\ UNCHANGED vars

Startup == Configure \/ Bind \/ StartHealthCheck \/ NoHealthCheck

Run == Startup \/ StartupFails \/ HealthCheckFails \/ Join

LoopStep(l) == FirstPoll(l) \/ Accept(l) \/ CloseConnection(l) \/ SeeSignal(l) \/ Stop(l)

\* The health check's loop is written out in a module of its own.
HealthCheckStep == LoopStep(Health)

Next ==
  \/ Run
  \/ (\E l \in Listeners : LoopStep(l)) \/ HealthCheckStep
  \/ Signal \/ Exited

(* The runtime polls main and every loop that can proceed.  Nothing makes a *)
(* client close its connection, or the operator send a signal.              *)
Fairness ==
  /\ WF_vars(Startup \/ StartupFails \/ HealthCheckFails) /\ WF_vars(Join)
  /\ \A l \in Loops : WF_vars(FirstPoll(l) \/ SeeSignal(l) \/ Stop(l))

Spec == Init /\ [][Next]_vars /\ Fairness

-----------------------------------------------------------------------------
(* Type correctness of main, the loops and their connections.               *)
TypeOK ==
  /\ has_port \in BOOLEAN
  /\ main \in {"configure", "bind", "join", "exited"}
  /\ next \in 1 .. NumListeners + 1
  /\ loop \in [Loops -> LoopStates]
  /\ pending \subseteq Loops
  /\ conns \in [Loops -> SUBSET Connections]
  /\ signals \in 0 .. MaxSignals
  /\ exit \in Exits
  /\ cut \subseteq Loops

(* An orderly exit cuts nobody off: when run() returns Ok, every connection *)
(* that any loop accepted, the health check's included, has been served.    *)
CleanExitCutsNobody == exit = "ok" => cut = {}

(* The health check's port is opened last: while it answers and no signal   *)
(* has been sent, every listener of the configuration has its socket and    *)
(* its loop.  After a signal a listener may be gone, and may even be gone   *)
(* before the health check starts: one that is polled while later ones are  *)
(* bound sees the signal, and startup goes on without it.  Nothing else     *)
(* takes a listener away from under the health check.                       *)
HealthyMeansListening ==
  loop[Health] \in {"spawned", "serving"} =>
    \A l \in Listeners :
      loop[l] \in {"spawned", "serving"} \/ (loop[l] \in {"draining", "stopped"} /\ signals > 0)

(* Every loop has seen, or is about to see, a signal.                       *)
AllSignalled ==
  \A l \in Loops : Started(l) => l \in pending \/ loop[l] \in {"draining", "stopped"}

(* From then on the process only winds down: no loop accepts a connection   *)
(* or loses its signal, and no loop is added, whatever is sent meanwhile.   *)
ShutdownOnlyAdvances ==
  [][AllSignalled =>
       \/ main' = "exited"
       \/ AllSignalled' /\ \A l \in Loops : conns'[l] \subseteq conns[l]]_vars

(* A signal that finds every loop polled ends the process, if the clients   *)
(* let go of the connections that are open then.                            *)
SignalEndsProcess ==
  (\A l \in Loops : []<>(loop[l] = "draining" => conns[l] = {})) =>
    (AllSignalled ~> main = "exited")
=============================================================================
