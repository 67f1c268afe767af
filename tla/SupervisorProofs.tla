--------------------------- MODULE SupervisorProofs ---------------------------
(***************************************************************************)
(* The supervisor never loses a server process, for any number of          *)
(* processes, orphans, crashes and restarts, and any timing.               *)
(***************************************************************************)
EXTENDS Supervisor, TLAPS

USE NoneAssumption

(* The counter of failures has room for none. *)
LEMMA FailuresRange == MaxFailures \in Nat \ {0} /\ 0 \in 0 .. MaxFailures
<1>1. MaxFailures \in 1 .. 17
  BY MaxFailuresAssumption
<1> QED BY <1>1

USE FailuresRange

(* The initial state satisfies the invariant. *)
LEMMA InitInv == Init => Inv
  BY DEF Init, Inv, TypeOK, OwnsItsServer, Steps, ProcStates, Running

(* No step of the supervisor, and nothing around it, breaks the invariant. *)
LEMMA NextInv == Inv /\ [Next]_vars => Inv'
<1> SUFFICES ASSUME Inv, [Next]_vars PROVE Inv'
  OBVIOUS
<1> USE DEF Inv, TypeOK, OwnsItsServer, Steps, ProcStates, Running, monitor
<1>1. CASE MonitorStep
  <2>1. ASSUME NEW s \in Slots, Spawn(s) PROVE Inv'
    BY <2>1 DEF Spawn
  <2>2. CASE SpawnFails
    BY <2>2 DEF SpawnFails, CountFailure
  <2>3. CASE WaitEnds
    BY <2>3 DEF WaitEnds, NotReady, CountFailure
  <2>4. CASE WaitGoesOn
    BY <2>4 DEF WaitGoesOn
  <2>5. CASE Connects
    BY <2>5 DEF Connects, Ready
  <2>6. CASE Refused
    BY <2>6 DEF Refused
  <2>7. CASE FindsDead
    BY <2>7 DEF FindsDead
  <2>8. CASE Terminate
    BY <2>8 DEF Terminate
  <2> QED
    BY <1>1, <2>1, <2>2, <2>3, <2>4, <2>5, <2>6, <2>7, <2>8 DEF MonitorStep
<1>2. CASE FindsAlive \/ UNCHANGED vars
  BY <1>2 DEF FindsAlive, vars
<1>3. CASE TimesOut
  BY <1>3 DEF TimesOut, NotReady, CountFailure
<1>4. CASE Surroundings
  <2>1. CASE Start
    BY <2>1 DEF Start
  <2>2. CASE Halt
    BY <2>2 DEF Halt
  <2>3. CASE Killed
    BY <2>3 DEF Killed
  <2>4. CASE Reinstall
    BY <2>4 DEF Reinstall
  <2>5. ASSUME NEW s \in Slots, Listen(s) PROVE Inv'
    BY <2>5 DEF Listen
  <2>6. ASSUME NEW s \in Slots, Exit(s) PROVE Inv'
    BY <2>6 DEF Exit
  <2> QED
    BY <1>4, <2>1, <2>2, <2>3, <2>4, <2>5, <2>6 DEF Surroundings
<1> HIDE DEF Inv
<1> QED BY <1>1, <1>2, <1>3, <1>4 DEF Next

(* The invariant holds in every reachable state. *)
THEOREM Invariant == Spec => []Inv
  BY InitInv, NextInv, PTL DEF Spec

(* Every server the daemon has started and not reaped is the one it holds. *)
THEOREM NoServerIsLost == Spec => []OwnsItsServer
<1>1. Inv => OwnsItsServer
  BY DEF Inv
<1> QED BY <1>1, Invariant, PTL

(* A running server is given up only by the end of the daemon: the monitor takes
   its child only after finding that it has exited. *)
THEOREM RunningServerIsKept == Spec => KeepsARunningServer
<1>1. Inv /\ [Next]_vars =>
        [child # None /\ Running(child) /\ child' # child => pc' = "down"]_vars
  <2> SUFFICES ASSUME Inv, Next, child # None, Running(child), child' # child
               PROVE  pc' = "down"
    BY DEF vars
  <2>1. CASE MonitorStep
    BY <2>1 DEF MonitorStep, Spawn, SpawnFails, WaitEnds, WaitGoesOn, Connects,
       Refused, FindsDead, Terminate, NotReady, Ready, Inv
  <2>2. CASE FindsAlive \/ TimesOut
    BY <2>2 DEF FindsAlive, TimesOut, NotReady, vars
  <2>3. CASE Surroundings
    BY <2>3 DEF Surroundings, Start, Halt, Killed, Reinstall, Listen, Exit
  <2> QED BY <2>1, <2>2, <2>3 DEF Next
<1> QED BY <1>1, Invariant, PTL DEF Spec, KeepsARunningServer

(* Backing off: while the server's files are missing, every start that fails is counted and
   none is forgotten, and at the last count the delay has come to its cap. *)
FailuresAddUp ==
  StaysMissing /\ StaysMissing' =>
    failures' = IF pc = "spawn" /\ pc' = "sleep" /\ failures < MaxFailures
                THEN failures + 1 ELSE failures

(* Nothing but a server that is ready, or a new daemon, ends the backing off. *)
THEOREM EveryFailureCounts == Spec => [][FailuresAddUp]_vars
<1>1. Inv /\ [Next]_vars => [FailuresAddUp]_vars
  <2> SUFFICES ASSUME Inv, Next, StaysMissing, StaysMissing'
               PROVE  failures' = IF pc = "spawn" /\ pc' = "sleep" /\ failures < MaxFailures
                                  THEN failures + 1 ELSE failures
    BY DEF vars, FailuresAddUp
  <2> USE DEF StaysMissing
  <2>1. CASE MonitorStep
    BY <2>1 DEF MonitorStep, Spawn, SpawnFails, CountFailure, WaitEnds, WaitGoesOn, Connects,
       Refused, FindsDead, Terminate, NotReady, Ready, Inv
  <2>2. CASE FindsAlive \/ TimesOut
    BY <2>2 DEF FindsAlive, TimesOut, NotReady, vars, monitor, Inv
  <2>3. CASE Surroundings
    BY <2>3 DEF Surroundings, Start, Halt, Killed, Reinstall, Listen, Exit, monitor
  <2> QED BY <2>1, <2>2, <2>3 DEF Next
<1> QED BY <1>1, Invariant, PTL DEF Spec

(* Where the count stops, the delay is the cap. *)
LEMMA LastDelayIsCap == Delay(MaxFailures) = Cap
<1>1. MaxFailures \in 1 .. 17 /\ Base * 2^(MaxFailures - 1) >= Cap /\ Base \in Nat /\ Cap \in Nat
  BY MaxFailuresAssumption, TimingAssumption
<1>2. Shift(MaxFailures) = MaxFailures - 1
  BY <1>1 DEF Shift
<1> QED BY <1>1, <1>2 DEF Delay
=============================================================================
