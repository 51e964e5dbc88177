-------------------------- MODULE ServiceLoopProofs --------------------------
(***************************************************************************)
(* Proofs about ServiceLoop, for any number of listeners, connections and  *)
(* signals.  That a signal ends the process is liveness, and TLC's.        *)
(***************************************************************************)
EXTENDS ServiceLoop, TLAPS

-----------------------------------------------------------------------------
(* The strengthening that makes the properties inductive.                   *)

\* run() binds the listeners one by one and the health check's port last.
BoundInOrder ==
  /\ \A l \in Listeners : l < next <=> loop[l] # "unbound"
  /\ loop[Health] # "unbound" =>
       has_port /\ next \notin Listeners /\ main \in {"join", "exited"}

\* A loop leaves its JoinSet only once it is empty.
OpenWhileServed ==
  \A l \in Loops : conns[l] # {} => loop[l] \in {"serving", "draining"}

\* The process ends once.
EndsOnce == exit = "none" <=> main # "exited"

IInv ==
  /\ TypeOK
  /\ BoundInOrder
  /\ OpenWhileServed
  /\ EndsOnce
  /\ CleanExitCutsNobody

LEMMA InvInitial == Init => IInv
<1> SUFFICES ASSUME Init PROVE IInv
  OBVIOUS
<1> USE ServiceAssumption DEF Init
<1>1. TypeOK
  BY DEF TypeOK, LoopStates, Exits
<1>2. BoundInOrder
  BY DEF BoundInOrder, Listeners, Loops, Health
<1>3. OpenWhileServed /\ EndsOnce /\ CleanExitCutsNobody
  BY DEF OpenWhileServed, EndsOnce, CleanExitCutsNobody
<1> QED
  BY <1>1, <1>2, <1>3 DEF IInv

-----------------------------------------------------------------------------
\* What Exit does, whoever calls it.
LEMMA ExitPreserves ==
  ASSUME IInv, NEW how \in Exits \ {"none"}, Exit(how),
         UNCHANGED <<has_port, next>>, signals' \in 0 .. MaxSignals,
         how = "ok" => \A l \in Loops : conns[l] = {}
  PROVE  IInv'
<1> USE DEF IInv
<1>1. /\ \A l \in Loops : loop'[l] = IF loop[l] \in {"unbound", "stopped"} THEN loop[l] ELSE "aborted"
      /\ conns' = [l \in Loops |-> {}] /\ pending' = {}
      /\ main' = "exited" /\ exit' = how
      /\ cut' = {l \in Loops : conns[l] # {}}
  BY DEF Exit
<1>2. loop' \in [Loops -> LoopStates]
  BY DEF Exit, TypeOK, LoopStates
<1>3. TypeOK'
  BY <1>1, <1>2 DEF TypeOK
<1>4. BoundInOrder'
  BY <1>1 DEF BoundInOrder, Loops
<1>5. OpenWhileServed' /\ EndsOnce' /\ CleanExitCutsNobody'
  BY <1>1 DEF OpenWhileServed, EndsOnce, CleanExitCutsNobody, Exits
<1> QED
  BY <1>3, <1>4, <1>5

\* Steps of one loop: the process goes on, and no loop is bound or lost.
LEMMA LoopPreserves ==
  ASSUME IInv, NEW l \in Loops,
         FirstPoll(l) \/ Accept(l) \/ CloseConnection(l) \/ SeeSignal(l) \/ Stop(l)
  PROVE  IInv'
<1> USE DEF IInv
<1>1. UNCHANGED <<has_port, main, next, signals, exit, cut>>
  BY DEF FirstPoll, Accept, CloseConnection, SeeSignal, Stop
<1>2. EndsOnce' /\ CleanExitCutsNobody'
  BY <1>1 DEF EndsOnce, CleanExitCutsNobody
<1>3. CASE Accept(l) \/ CloseConnection(l)
  <2>1. UNCHANGED <<loop, pending>> /\ conns' \in [Loops -> SUBSET Connections]
    BY <1>3 DEF Accept, CloseConnection, TypeOK
  <2>2. \A k \in Loops : conns'[k] # {} => conns[k] # {} \/ loop[k] = "serving"
    BY <1>3 DEF Accept, CloseConnection, TypeOK
  <2>3. TypeOK' /\ BoundInOrder'
    BY <1>1, <2>1 DEF TypeOK, BoundInOrder
  <2>4. OpenWhileServed'
    BY <2>1, <2>2 DEF OpenWhileServed
  <2> QED
    BY <1>2, <2>3, <2>4
<1>4. CASE FirstPoll(l) \/ SeeSignal(l) \/ Stop(l)
  <2>1. /\ loop[l] # "unbound" /\ conns' = conns /\ pending' \subseteq pending
        /\ \E s \in {"serving", "draining", "stopped"} :
             /\ loop' = [loop EXCEPT ![l] = s]
             /\ s = "stopped" => conns[l] = {}
    BY <1>4 DEF FirstPoll, SeeSignal, Stop
  <2>2. TypeOK'
    BY <1>1, <2>1 DEF TypeOK, LoopStates
  <2>3. BoundInOrder'
    BY <1>1, <2>1 DEF BoundInOrder, TypeOK, Loops
  <2>4. OpenWhileServed'
    BY <2>1 DEF OpenWhileServed, TypeOK
  <2> QED
    BY <1>2, <2>2, <2>3, <2>4
<1> QED
  BY <1>3, <1>4

LEMMA InvPreserved == IInv /\ [Next]_vars => IInv'
<1> SUFFICES ASSUME IInv, [Next]_vars
             PROVE  IInv'
  OBVIOUS
<1> USE ServiceAssumption DEF IInv
<1>0. next \in Nat /\ signals \in 0 .. MaxSignals /\ Health \in Loops
      /\ Health \notin Listeners /\ Listeners \subseteq Loops
  BY DEF TypeOK, Loops, Listeners, Health
<1>1. CASE Configure \/ NoHealthCheck
  <2>1. /\ UNCHANGED <<has_port, next, loop, pending, conns, signals, exit, cut>>
        /\ main \in {"configure", "bind"} /\ main' \in {"bind", "join"}
    BY <1>1 DEF Configure, NoHealthCheck
  <2>2. TypeOK' /\ OpenWhileServed' /\ EndsOnce' /\ CleanExitCutsNobody'
    BY <2>1 DEF TypeOK, OpenWhileServed, EndsOnce, CleanExitCutsNobody
  <2>3. BoundInOrder'
    BY <2>1 DEF BoundInOrder
  <2> QED
    BY <2>2, <2>3
<1>2. CASE Bind
  <2>1. /\ UNCHANGED <<has_port, main, pending, conns, signals, exit, cut>>
        /\ next \in Listeners /\ next' = next + 1
        /\ loop' = [loop EXCEPT ![next] = "spawned"]
    BY <1>2 DEF Bind
  <2>2. loop[Health] = "unbound" /\ loop'[Health] = "unbound"
    BY <1>0, <2>1 DEF BoundInOrder, TypeOK
  <2>3. TypeOK'
    BY <1>0, <2>1 DEF TypeOK, Listeners, LoopStates
  <2>4. BoundInOrder'
    BY <1>0, <2>1, <2>2 DEF BoundInOrder, TypeOK, Listeners, Loops
  <2>5. OpenWhileServed'
    <3> SUFFICES ASSUME NEW l \in Loops, conns[l] # {}
                 PROVE  loop'[l] \in {"serving", "draining"}
      BY <2>1 DEF OpenWhileServed
    <3>1. l # next
      BY <1>0, <2>1 DEF OpenWhileServed, BoundInOrder
    <3> QED
      BY <2>1, <3>1 DEF OpenWhileServed, TypeOK
  <2>6. EndsOnce' /\ CleanExitCutsNobody'
    BY <2>1 DEF EndsOnce, CleanExitCutsNobody
  <2> QED
    BY <2>3, <2>4, <2>5, <2>6
<1>3. CASE StartHealthCheck
  <2>1. /\ UNCHANGED <<has_port, next, pending, conns, signals, exit, cut>>
        /\ next \notin Listeners /\ has_port /\ main # "exited" /\ main' = "join"
        /\ loop' = [loop EXCEPT ![Health] = "spawned"]
    BY <1>3 DEF StartHealthCheck
  <2>2. TypeOK' /\ EndsOnce' /\ CleanExitCutsNobody'
    BY <1>0, <2>1 DEF TypeOK, LoopStates, EndsOnce, CleanExitCutsNobody
  <2>3. BoundInOrder'
    BY <1>0, <2>1 DEF BoundInOrder, TypeOK
  <2>4. conns[Health] = {}
    BY <1>0, <1>3 DEF StartHealthCheck, BoundInOrder, OpenWhileServed
  <2>5. OpenWhileServed'
    BY <1>0, <2>1, <2>4 DEF OpenWhileServed, TypeOK
  <2> QED
    BY <2>2, <2>3, <2>5
<1>4. CASE StartupFails \/ HealthCheckFails
  BY <1>0, <1>4, ExitPreserves DEF StartupFails, HealthCheckFails, Exits
<1>5. CASE Join
  <2>1. ASSUME NEW l \in Loops PROVE conns[l] = {}
    BY <1>0, <1>5 DEF Join, Started, OpenWhileServed, BoundInOrder, Loops
  <2> QED
    BY <1>0, <1>5, <2>1, ExitPreserves DEF Join, Exits
<1>6. ASSUME NEW l \in Loops,
             FirstPoll(l) \/ Accept(l) \/ CloseConnection(l) \/ SeeSignal(l) \/ Stop(l)
      PROVE  IInv'
  BY <1>6, LoopPreserves
<1>7. CASE Signal
  <2>1. signals' \in 0 .. MaxSignals /\ UNCHANGED <<has_port, next>>
    BY <1>0, <1>7 DEF Signal
  <2>2. CASE Exit("killed")
    BY <2>1, <2>2, ExitPreserves DEF Exits
  <2>3. CASE pending' = pending \cup Installed /\ UNCHANGED <<main, loop, conns, exit, cut>>
    BY <2>1, <2>3
       DEF TypeOK, Installed, BoundInOrder, OpenWhileServed, EndsOnce, CleanExitCutsNobody
  <2> QED
    BY <1>7, <2>2, <2>3 DEF Signal
<1>8. CASE UNCHANGED vars
  BY <1>8 DEF vars, TypeOK, BoundInOrder, OpenWhileServed, EndsOnce, CleanExitCutsNobody
<1> QED
  BY <1>1, <1>2, <1>3, <1>4, <1>5, <1>6, <1>7, <1>8
     DEF Next, Run, Startup, LoopStep, HealthCheckStep, Exited, Loops

THEOREM Invariance == Spec => []IInv
BY InvInitial, InvPreserved, PTL DEF Spec

(* TypeOK, the type invariant the run checks, for every instance.           *)
THEOREM TypeCorrect == Spec => []TypeOK
<1>1. IInv => TypeOK
  BY DEF IInv
<1> QED
  BY <1>1, Invariance, PTL

(* CleanExitCutsNobody: run() returns Ok only when every connection that a  *)
(* loop has accepted is closed.                                             *)
THEOREM CleanExit == Spec => []CleanExitCutsNobody
<1>1. IInv => CleanExitCutsNobody
  BY DEF IInv
<1> QED
  BY <1>1, Invariance, PTL

-----------------------------------------------------------------------------
(* What the health check says of the listeners.                             *)

\* Loops wind down because of a signal, and are cut off when main returns.
EndsHaveCauses ==
  /\ pending # {} => signals > 0
  /\ \A l \in Loops :
       /\ loop[l] \in {"draining", "stopped"} => signals > 0
       /\ loop[l] = "aborted" => main = "exited"
       /\ main = "exited" => loop[l] \in {"unbound", "stopped", "aborted"}

LEMMA ExitHasCause ==
  ASSUME IInv, EndsHaveCauses, NEW how \in Exits, Exit(how),
         signals' \in Nat, signals' >= signals
  PROVE  EndsHaveCauses'
<1>1. /\ main' = "exited" /\ pending' = {}
      /\ \A l \in Loops :
           loop'[l] = IF loop[l] \in {"unbound", "stopped"} THEN loop[l] ELSE "aborted"
  BY DEF Exit
<1>2. signals \in Nat /\ signals' \in Nat /\ signals' >= signals
  BY ServiceAssumption DEF IInv, TypeOK
<1> QED
  BY <1>1, <1>2 DEF EndsHaveCauses

LEMMA CausesPreserved ==
  ASSUME IInv, EndsHaveCauses, [Next]_vars
  PROVE  EndsHaveCauses'
<1>0. TypeOK /\ signals \in Nat
  BY ServiceAssumption DEF IInv, TypeOK
<1>1. CASE StartupFails \/ HealthCheckFails \/ Join
  BY <1>0, <1>1, ExitHasCause DEF StartupFails, HealthCheckFails, Join, Exits
<1>2. CASE Startup
  <2>1. UNCHANGED <<pending, signals>> /\ main # "exited" /\ main' # "exited"
    BY <1>2 DEF Startup, Configure, Bind, StartHealthCheck, NoHealthCheck
  <2>2. loop' = loop \/ \E l \in Loops : loop' = [loop EXCEPT ![l] = "spawned"]
    BY <1>2 DEF Startup, Configure, Bind, StartHealthCheck, NoHealthCheck, Loops
  <2> QED
    BY <1>0, <2>1, <2>2 DEF EndsHaveCauses, TypeOK
<1>3. ASSUME NEW l \in Loops, LoopStep(l) PROVE EndsHaveCauses'
  <2>1. UNCHANGED <<main, signals>> /\ pending' \subseteq pending
    BY <1>3 DEF LoopStep, FirstPoll, Accept, CloseConnection, SeeSignal, Stop
  <2>2. \/ loop' = loop
        \/ loop[l] = "spawned" /\ loop' = [loop EXCEPT ![l] = "serving"]
        \/ /\ l \in pending \/ loop[l] = "draining"
           /\ loop[l] \in {"serving", "draining"}
           /\ \E s \in {"draining", "stopped"} : loop' = [loop EXCEPT ![l] = s]
    BY <1>3 DEF LoopStep, FirstPoll, Accept, CloseConnection, SeeSignal, Stop
  <2> QED
    BY <1>0, <2>1, <2>2 DEF EndsHaveCauses, TypeOK
<1>4. CASE Signal
  <2>1. signals' = signals + 1
    BY <1>4 DEF Signal
  <2>2. CASE Exit("killed")
    BY <1>0, <2>1, <2>2, ExitHasCause DEF Exits
  <2>3. CASE UNCHANGED <<main, loop>>
    BY <1>0, <2>1, <2>3 DEF EndsHaveCauses
  <2> QED
    BY <1>4, <2>2, <2>3 DEF Signal
<1>5. CASE UNCHANGED vars
  BY <1>5 DEF vars, EndsHaveCauses
<1> QED
  BY <1>1, <1>2, <1>3, <1>4, <1>5
     DEF Next, Run, HealthCheckStep, Exited, Loops

LEMMA CausesInvariance == Spec => [](IInv /\ EndsHaveCauses)
<1>1. Init => IInv /\ EndsHaveCauses
  BY InvInitial DEF Init, EndsHaveCauses
<1>2. IInv /\ EndsHaveCauses /\ [Next]_vars => (IInv /\ EndsHaveCauses)'
  BY InvPreserved, CausesPreserved
<1> QED
  BY <1>1, <1>2, PTL DEF Spec

(* HealthyMeansListening: while the health check answers, every listener of *)
(* the configuration is listening, however many there are, or has left      *)
(* because of a signal.                                                     *)
THEOREM HealthIsLast == Spec => []HealthyMeansListening
<1>1. IInv /\ EndsHaveCauses => HealthyMeansListening
  <2> SUFFICES ASSUME IInv, EndsHaveCauses, loop[Health] \in {"spawned", "serving"},
                      NEW l \in Listeners
               PROVE  \/ loop[l] \in {"spawned", "serving"}
                      \/ loop[l] \in {"draining", "stopped"} /\ signals > 0
    BY DEF HealthyMeansListening
  <2>1. next \notin Listeners /\ next \in 1 .. NumListeners + 1
    BY DEF IInv, BoundInOrder, TypeOK
  <2>2. l < next
    BY <2>1, ServiceAssumption DEF Listeners
  <2>3. loop[l] \in LoopStates \ {"unbound"}
    BY <2>2 DEF IInv, BoundInOrder, TypeOK, Loops
  <2>4. loop[l] # "aborted"
    BY DEF EndsHaveCauses, Loops
  <2> QED
    BY <2>3, <2>4 DEF EndsHaveCauses, Loops, LoopStates
<1> QED
  BY <1>1, CausesInvariance, PTL

-----------------------------------------------------------------------------
(* Shutting down.                                                           *)

\* Only a loop that has its signal streams can hold a signal.
PendingInstalled == pending \subseteq Installed

LEMMA PendingPreserved ==
  ASSUME IInv, PendingInstalled, [Next]_vars
  PROVE  PendingInstalled'
<1>0. TypeOK /\ pending \subseteq Loops
  BY DEF IInv, TypeOK
<1>1. CASE UNCHANGED <<loop, pending>> \/ pending' = {}
  BY <1>1 DEF PendingInstalled, Installed
<1>2. CASE Bind \/ StartHealthCheck
  <2>1. PICK b \in Loops : loop[b] = "unbound" /\ loop' = [loop EXCEPT ![b] = "spawned"]
    <3>1. CASE Bind
      <4>1. next \in Listeners /\ loop' = [loop EXCEPT ![next] = "spawned"]
        BY <3>1 DEF Bind
      <4>2. ~(next < next)
        BY ServiceAssumption DEF IInv, TypeOK
      <4> QED
        BY <4>1, <4>2 DEF IInv, BoundInOrder, Loops
    <3>2. CASE StartHealthCheck
      BY <3>2 DEF StartHealthCheck, IInv, BoundInOrder, Loops
    <3> QED
      BY <1>2, <3>1, <3>2
  <2>2. pending' = pending
    BY <1>2 DEF Bind, StartHealthCheck
  <2> QED
    BY <1>0, <2>1, <2>2 DEF PendingInstalled, Installed, TypeOK
<1>3. ASSUME NEW l \in Loops, FirstPoll(l) \/ SeeSignal(l) \/ Stop(l)
      PROVE  PendingInstalled'
  <2>1. /\ pending' = pending \/ pending' = pending \ {l}
        /\ \E s \in {"serving", "draining", "stopped"} :
             /\ loop' = [loop EXCEPT ![l] = s]
             /\ s = "stopped" => pending' = pending \ {l}
    BY <1>3 DEF FirstPoll, SeeSignal, Stop
  <2> QED
    BY <1>0, <2>1 DEF PendingInstalled, Installed, TypeOK
<1>4. CASE Signal
  BY <1>1, <1>4 DEF Signal, Exit, PendingInstalled, Installed
<1> QED
  BY <1>1, <1>2, <1>3, <1>4
     DEF Next, Run, LoopStep, HealthCheckStep, Loops, Startup, Configure, NoHealthCheck,
         StartupFails, HealthCheckFails, Join, Exit,
         Accept, CloseConnection, Exited, vars

THEOREM PendingInvariance == Spec => [](IInv /\ PendingInstalled)
<1>1. Init => IInv /\ PendingInstalled
  BY InvInitial DEF Init, PendingInstalled
<1>2. IInv /\ PendingInstalled /\ [Next]_vars => (IInv /\ PendingInstalled)'
  BY InvPreserved, PendingPreserved
<1> QED
  BY <1>1, <1>2, PTL DEF Spec

(* ShutdownOnlyAdvances: once every loop has its signal, any number of      *)
(* loops only serve the connections that are open, and keep their signal.   *)
THEOREM ShutdownAdvances == Spec => ShutdownOnlyAdvances
<1> DEFINE Advance ==
      AllSignalled => \/ main' = "exited"
                      \/ AllSignalled' /\ \A l \in Loops : conns'[l] \subseteq conns[l]
<1>1. IInv /\ PendingInstalled /\ [Next]_vars => [Advance]_vars
  <2> SUFFICES ASSUME IInv, PendingInstalled, Next, AllSignalled, main' # "exited"
               PROVE  AllSignalled' /\ \A l \in Loops : conns'[l] \subseteq conns[l]
    OBVIOUS
  <2>0. TypeOK
    BY DEF IInv
  <2>1. /\ \A l \in Listeners : loop[l] # "unbound"
        /\ has_port => loop[Health] # "unbound"
        /\ ~has_port => loop[Health] = "unbound"
    BY DEF AllSignalled, Started, PendingInstalled, Installed, Loops, IInv, BoundInOrder
  <2>2. next \notin Listeners /\ ~StartHealthCheck
    BY <2>1 DEF StartHealthCheck, IInv, BoundInOrder, Loops, Listeners, TypeOK
  <2>3. has_port' = has_port
    BY DEF Next, Run, LoopStep, HealthCheckStep, Loops, Startup, Configure, Bind,
           StartHealthCheck, NoHealthCheck, StartupFails,
           HealthCheckFails, Join, FirstPoll, Accept, CloseConnection, SeeSignal, Stop,
           Signal, Exited, vars
  <2>4. CASE UNCHANGED <<loop, pending, conns>>
    BY <2>3, <2>4 DEF AllSignalled, Started
  <2>5. ASSUME NEW l \in Loops, FirstPoll(l) \/ SeeSignal(l) \/ Stop(l)
        PROVE  AllSignalled' /\ conns' = conns
    <3>1. /\ conns' = conns
          /\ \A k \in Loops \ {l} : loop'[k] = loop[k] /\ (k \in pending' <=> k \in pending)
          /\ \/ loop[l] = "spawned" /\ pending' = pending
             \/ loop'[l] \in {"draining", "stopped"}
      BY <2>0, <2>5 DEF FirstPoll, SeeSignal, Stop, TypeOK
    <3> QED
      BY <2>3, <3>1 DEF AllSignalled, Started
  <2>6. ASSUME NEW l \in Loops, Accept(l) PROVE FALSE
    BY <2>1, <2>6 DEF Accept, AllSignalled, Started, Loops
  <2>7. ASSUME NEW l \in Loops, CloseConnection(l)
        PROVE  AllSignalled' /\ \A k \in Loops : conns'[k] \subseteq conns[k]
    BY <2>0, <2>3, <2>7 DEF CloseConnection, AllSignalled, Started, TypeOK
  <2>8. CASE Signal
    BY <2>3, <2>8 DEF Signal, Exit, AllSignalled, Started
  <2> QED
    BY <2>2, <2>4, <2>5, <2>6, <2>7, <2>8
       DEF Next, Run, LoopStep, HealthCheckStep, Loops, Startup, Configure, Bind,
           NoHealthCheck, StartupFails, HealthCheckFails,
           Join, Exit, Exited, vars
<1> QED
  BY <1>1, PendingInvariance, PTL DEF Spec, ShutdownOnlyAdvances
=============================================================================
