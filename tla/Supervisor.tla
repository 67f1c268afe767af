------------------------------ MODULE Supervisor ------------------------------
(***************************************************************************)
(* The supervisor of the STT server (crates/daemon/src/stt_server.rs): the *)
(* daemon starts the server and waits until its port accepts connections;  *)
(* a monitor thread then restarts it whenever it exits, backing off while  *)
(* restarts fail, until the daemon stops, which kills it.                  *)
(*                                                                         *)
(* The servers are processes of their own: they load, listen, and exit     *)
(* when they like.  They share one port with servers that an earlier       *)
(* daemon left behind when it was killed.                                  *)
(***************************************************************************)
EXTENDS Naturals

CONSTANTS
  Slots,           \* bound: the server processes there may be at one time
  None,            \* "no child"
  Base, Cap,       \* Timing.poll and Timing.backoff_cap, in seconds
  MaxFailures      \* bound: failures are counted up to here

ASSUME NoneAssumption == None \notin Slots
ASSUME TimingAssumption == Base \in Nat \ {0} /\ Cap \in Nat /\ Base <= Cap

\* Counting further would not change the delay.
ASSUME MaxFailuresAssumption ==
  MaxFailures \in 1 .. 17 /\ Base * 2^(MaxFailures - 1) >= Cap

VARIABLES
  pc,              \* where start, then the monitor thread, is
  booted,          \* start has returned: failures are the monitor's to handle
  child,           \* the server the supervisor owns
  failures,        \* Backoff.failures
  halt,            \* the daemon's shutdown flag or SttSupervisor.stop
  proc,            \* the server processes
  orphans,         \* those that no living daemon has started
  missing          \* the server binary or the model is not there

monitor == << pc, booted, failures >>
vars == << monitor, child, halt, proc, orphans, missing >>

\* wait_ready loops over wait (look at the halt and at the child) and connect.
Steps == {"down", "sleep", "spawn", "wait", "connect"}

\* A zombie has exited and is not reaped yet.
ProcStates == {"free", "loading", "listening", "zombie"}
Running(s) == proc[s] \in {"loading", "listening"}
Listened == \E s \in Slots : proc[s] = "listening"

Init ==
  /\ pc = "down" /\ booted = FALSE
  /\ child = None
  /\ failures = 0
  /\ halt = FALSE
  /\ proc = [s \in Slots |-> "free"]
  /\ orphans = {}
  /\ missing \in BOOLEAN

-----------------------------------------------------------------------------
(* Backoff.                                                                *)

\* delay: how long the monitor sleeps after so many failures in a row.
Shift(fails) == IF fails = 0 THEN 0 ELSE IF fails > 17 THEN 16 ELSE fails - 1
Delay(fails) ==
  IF Base * 2^Shift(fails) < Cap THEN Base * 2^Shift(fails) ELSE Cap

\* fail and reset, on the way back to sleep.
CountFailure ==
  failures' = IF failures < MaxFailures THEN failures + 1 ELSE failures

-----------------------------------------------------------------------------
(* start_with, restart and the monitor's loop.                             *)

\* The daemon starts; the spawn of its first server may fail.
Start ==
  /\ pc = "down"
  /\ pc' = "spawn" /\ booted' = FALSE /\ failures' = 0 /\ halt' = FALSE
  /\ UNCHANGED << child, proc, orphans, missing >>

Spawn(s) ==
  /\ pc = "spawn" /\ ~ missing /\ proc[s] = "free"
  /\ proc' = [proc EXCEPT ![s] = "loading"]
  /\ child' = s
  /\ pc' = "wait"
  /\ UNCHANGED << booted, failures, halt, orphans, missing >>

\* Mutant: a spawn that fails is tried again at the plain poll interval.
SpawnFailsUncounted ==
  /\ pc = "spawn" /\ missing
  /\ pc' = IF booted THEN "sleep" ELSE "down"
  /\ UNCHANGED << booted, failures, child, halt, proc, orphans, missing >>

\* The binary or the model is missing: start fails, the monitor backs off.
SpawnFails ==
  /\ pc = "spawn" /\ missing
  /\ IF booted THEN pc' = "sleep" /\ CountFailure
               ELSE pc' = "down" /\ UNCHANGED failures
  /\ UNCHANGED << booted, child, halt, proc, orphans, missing >>

\* wait_ready returns true.
Ready ==
  /\ pc' = "sleep" /\ booted' = TRUE /\ failures' = 0
  /\ UNCHANGED << child, proc >>

\* Mutant: restart keeps the child only if it became ready.
NotReadyForgets ==
  /\ IF booted THEN /\ pc' = "sleep" /\ CountFailure
                    /\ UNCHANGED proc
               ELSE /\ pc' = "down" /\ UNCHANGED failures
                    /\ proc' = [proc EXCEPT ![child] = "free"]
  /\ child' = None
  /\ UNCHANGED booted

\* wait_ready returns false: start kills and reaps its child and fails; restart
\* keeps it, and counts a failure unless it was a halt.
NotReady ==
  /\ IF booted
     THEN /\ pc' = "sleep"
          /\ IF halt THEN UNCHANGED failures ELSE CountFailure
          /\ UNCHANGED << child, proc >>
     ELSE /\ pc' = "down"
          /\ child' = None /\ proc' = [proc EXCEPT ![child] = "free"]
          /\ UNCHANGED failures
  /\ UNCHANGED booted

\* Mutant: a halt does not end the wait.
GivesUpOnExit == proc[child] = "zombie"

\* The wait returns early on a halt, or if the child has exited.
GivesUp == halt \/ proc[child] = "zombie"

WaitEnds ==
  /\ pc = "wait" /\ GivesUp
  /\ NotReady
  /\ UNCHANGED << halt, orphans, missing >>

WaitGoesOn ==
  /\ pc = "wait" /\ ~ GivesUp
  /\ pc' = "connect"
  /\ UNCHANGED << booted, child, failures, halt, proc, orphans, missing >>

\* Whoever listens on the port accepts the connection.
Connects ==
  /\ pc = "connect" /\ Listened
  /\ Ready
  /\ UNCHANGED << halt, orphans, missing >>

Refused ==
  /\ pc = "connect" /\ ~ Listened
  /\ pc' = "wait"
  /\ UNCHANGED << booted, child, failures, halt, proc, orphans, missing >>

\* ready_timeout has elapsed, or the host does not resolve.
TimesOut ==
  /\ pc = "wait"
  /\ NotReady
  /\ UNCHANGED << halt, orphans, missing >>

\* The delay is over and the child still runs.
FindsAlive ==
  /\ pc = "sleep" /\ ~ halt
  /\ child # None /\ Running(child)
  /\ UNCHANGED vars

\* Mutant: a child that does not listen yet passes for dead.
FindsDeaf ==
  /\ pc = "sleep" /\ ~ halt
  /\ child # None => proc[child] # "listening"
  /\ pc' = "spawn"
  /\ child' = None
  /\ proc' = [s \in Slots |-> IF s = child THEN "free" ELSE proc[s]]
  /\ UNCHANGED << booted, failures, halt, orphans, missing >>

\* Mutant: no child at all passes for alive.
FindsDeadChild ==
  /\ pc = "sleep" /\ ~ halt
  /\ child # None /\ ~ Running(child)
  /\ pc' = "spawn"
  /\ child' = None
  /\ proc' = [proc EXCEPT ![child] = "free"]
  /\ UNCHANGED << booted, failures, halt, orphans, missing >>

\* The delay is over and the child has exited, or there is none: it is reaped,
\* and a restart begins.
FindsDead ==
  /\ pc = "sleep" /\ ~ halt
  /\ child # None => ~ Running(child)
  /\ pc' = "spawn"
  /\ child' = None
  /\ proc' = [s \in Slots |-> IF s = child THEN "free" ELSE proc[s]]
  /\ UNCHANGED << booted, failures, halt, orphans, missing >>

\* A halt ends the sleep at once: the child is killed and reaped, the thread
\* joined, and the daemon ends.
Terminate ==
  /\ pc = "sleep" /\ halt
  /\ pc' = "down"
  /\ child' = None
  /\ proc' = [s \in Slots |-> IF s = child THEN "free" ELSE proc[s]]
  /\ UNCHANGED << booted, failures, halt, orphans, missing >>

-----------------------------------------------------------------------------
(* The surroundings.                                                       *)

\* SIGTERM or SIGINT, or serving has ended: from then on the daemon winds down.
Halt ==
  /\ pc # "down" /\ ~ halt
  /\ halt' = TRUE
  /\ UNCHANGED << monitor, child, proc, orphans, missing >>

\* The daemon is killed: its server runs on. (Bound: a slot is left for the next.)
Killed ==
  /\ pc # "down" /\ \E s \in Slots : proc[s] = "free"
  /\ pc' = "down"
  /\ child' = None
  /\ IF child # None /\ Running(child)
     THEN orphans' = orphans \cup {child} /\ UNCHANGED proc
     ELSE /\ proc' = [s \in Slots |-> IF s = child THEN "free" ELSE proc[s]]
          /\ UNCHANGED orphans
  /\ UNCHANGED << booted, failures, halt, missing >>

\* A server has loaded its model: it gets the port if that is free.
Listen(s) ==
  /\ proc[s] = "loading" /\ ~ Listened
  /\ proc' = [proc EXCEPT ![s] = "listening"]
  /\ UNCHANGED << monitor, child, halt, orphans, missing >>

\* A server exits: it crashed, or it could not get the port.
Exit(s) ==
  /\ Running(s)
  /\ proc' = [proc EXCEPT ![s] = IF s \in orphans THEN "free" ELSE "zombie"]
  /\ orphans' = orphans \ {s}
  /\ UNCHANGED << monitor, child, halt, missing >>

\* The user removes or installs the binary or the model.
Reinstall ==
  /\ missing' = ~ missing
  /\ UNCHANGED << monitor, child, halt, proc, orphans >>

-----------------------------------------------------------------------------
MonitorStep ==
  \/ \E s \in Slots : Spawn(s)
  \/ SpawnFails \/ WaitEnds \/ WaitGoesOn \/ Connects \/ Refused
  \/ FindsDead \/ Terminate

Surroundings ==
  \/ Start \/ Halt \/ Killed \/ Reinstall
  \/ \E s \in Slots : Listen(s) \/ Exit(s)

Next == MonitorStep \/ FindsAlive \/ TimesOut \/ Surroundings

Spec == Init /\ [][Next]_vars

\* The supervisor runs on; but nothing it promises waits for ready_timeout, and
\* no server need ever listen.
FairSpec == Spec /\ WF_vars(MonitorStep)

-----------------------------------------------------------------------------
TypeOK ==
  /\ pc \in Steps
  /\ booted \in BOOLEAN /\ halt \in BOOLEAN /\ missing \in BOOLEAN
  /\ child \in Slots \cup {None}
  /\ failures \in 0 .. MaxFailures
  /\ proc \in [Slots -> ProcStates]
  /\ orphans \in SUBSET Slots

\* Every server the daemon has started and not reaped is the one it holds: no
\* restart, aborted start or stop loses a server, or leaves a zombie; a daemon
\* that ended, unless it was killed, leaves none behind (stt_server.rs:14-15).
OwnsItsServer ==
  /\ \A s \in Slots : proc[s] # "free" /\ s \notin orphans => s = child
  /\ pc = "down" => child = None

\* A server that runs is not replaced, however long it takes to load and however
\* often its readiness was missed: only a stop, or a start that fails, ends it.
KeepsARunningServer ==
  [][child # None /\ Running(child) /\ child' # child => pc' = "down"]_vars

\* A server that exited is started again, also after restarts that failed because
\* its files were missing, as soon as they are there and unless the daemon ends
\* (stt_server.rs:10-14).
Serverless == booted /\ pc # "down" /\ (child = None \/ ~ Running(child))
RestartsADeadServer == Serverless ~> ~ Serverless \/ missing \/ halt

\* A missing binary is not retried every two seconds forever: the delay grows to
\* its cap (stt_server.rs:11-12).
StaysMissing == missing /\ child = None /\ booted /\ ~ halt /\ pc # "down"
AtCap == \E f \in 0 .. MaxFailures : failures = f /\ Delay(f) = Cap
BacksOff == <>[]StaysMissing => <>[]AtCap

\* A stop comes to its end, even in the middle of a restart, without waiting for
\* the ready timeout (stt_server.rs:98-99).
StopEnds == halt ~> pc = "down" \/ ~ halt

-----------------------------------------------------------------------------
(* Why the invariant holds.                                                *)

Inv ==
  /\ TypeOK
  /\ OwnsItsServer
  /\ \A s \in orphans : Running(s) /\ s # child
  /\ pc \in {"wait", "connect"} => child # None
  /\ pc = "spawn" => child = None
  /\ child # None => proc[child] # "free"
  /\ pc = "sleep" => booted
=============================================================================
