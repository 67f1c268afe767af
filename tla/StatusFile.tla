------------------------------ MODULE StatusFile ------------------------------
(***************************************************************************)
(* How the daemon publishes its state (crates/daemon/src/state.rs): any    *)
(* thread may write; the write and its publication to state.json happen    *)
(* under the `shared` lock; success and error arm a timer thread that      *)
(* reverts them to idle.  A publication goes through a temporary file and  *)
(* may fail at each step; the daemon may die at any point, and boots again *)
(* (crates/daemon/src/main.rs).                                            *)
(***************************************************************************)
EXTENDS Naturals

CONSTANTS
  Callers,         \* the threads that publish: socket, readers, clips
  NoThread,        \* "the shared lock is free"
  MaxWrites,       \* bound: publications by Callers in one run of the daemon
  MaxRuns          \* bound: how often the daemon is started

ASSUME CallersAssumption == "timer" \notin Callers
ASSUME NoThreadAssumption == NoThread \notin Callers \cup {"timer"}
ASSUME BoundsAssumption == MaxWrites \in Nat /\ MaxRuns \in Nat

States == {"idle", "recording", "transcribing", "success", "error"}
Flashes == {"success", "error"}

\* The timers hold the shared lock one at a time, so one name stands for all.
Threads == Callers \cup {"timer"}

\* A snapshot, marked with the run and the generation that wrote it.
Snapshots == [state : States, run : 1 .. MaxRuns, gen : Nat]

\* No file, and the empty one File::create leaves: the half-written one.
Absent == [state |-> "absent", run |-> 0, gen |-> 0]
Empty == [state |-> "half-written", run |-> 0, gen |-> 0]

VARIABLES
  phase,           \* the daemon's process: down, booting or serving
  run,             \* how often it was started
  memory,          \* Status.shared: the state served by the status command
  generation,      \* Status.generation
  lock,            \* the thread holding the `shared` lock
  step,            \* how far each thread's write has come
  snap,            \* what each thread is publishing
  reverts,         \* the generations sleeping timers were armed for
  tmp,             \* state.json.tmp
  file,            \* state.json
  missed           \* history: the last publication tried has failed

process == << phase, run >>
disk == << tmp, file, missed >>
vars == << process, memory, generation, lock, step, snap, reverts, disk >>

Steps == {"none", "create", "write", "rename", "arm"}

-----------------------------------------------------------------------------
Init ==
  /\ phase = "down" /\ run = 0
  /\ memory = "idle" /\ generation = 0
  /\ lock = NoThread
  /\ step = [t \in Threads |-> "none"]
  /\ snap = [t \in Threads |-> Absent]
  /\ reverts = {}
  /\ tmp = Absent /\ file = Absent
  /\ missed = FALSE

\* Mutant: writers do not wait for each other.
FreeIgnored == TRUE

\* The shared lock can be taken.
Free == lock = NoThread

\* Mutant: the meter's writes are throttled whatever was shown before.
ThrottledAlways(new, old) == new = "recording"

\* should_publish: only a recording over a recording may be held back (when too
\* little time has passed since the last one).
Throttled(new, old) == new = "recording" /\ old = "recording"

\* write_locked: bump the generation, replace the snapshot, and go on to publish
\* it under the lock, or drop it right away.
WriteLocked(t, state) ==
  /\ generation' = generation + 1
  /\ memory' = state
  /\ \/ /\ lock' = t
        /\ step' = [step EXCEPT ![t] = "create"]
        /\ snap' = [snap EXCEPT ![t] =
                      [state |-> state, run |-> run, gen |-> generation']]
     \/ /\ Throttled(state, memory)
        /\ UNCHANGED << lock, step, snap >>

-----------------------------------------------------------------------------
(* The daemon's process.                                                   *)

Start ==
  /\ phase = "down" /\ run < MaxRuns
  /\ phase' = "booting" /\ run' = run + 1
  /\ UNCHANGED << memory, generation, lock, step, snap, reverts, disk >>

\* The STT server is up: main publishes idle, and serves.
Boot(t) ==
  /\ phase = "booting" /\ t \in Callers
  /\ phase' = "serving"
  /\ WriteLocked(t, "idle")
  /\ UNCHANGED << run, reverts, disk >>

\* The process ends: killed, told to stop, or failed to boot. Nothing is
\* published on the way out, and the next one begins with a fresh memory.
Die ==
  /\ phase # "down"
  /\ phase' = "down"
  /\ memory' = "idle" /\ generation' = 0
  /\ lock' = NoThread
  /\ step' = [t \in Threads |-> "none"]
  /\ snap' = [t \in Threads |-> Absent]
  /\ reverts' = {}
  /\ UNCHANGED << run, disk >>

-----------------------------------------------------------------------------
(* A write by one of the callers: recording, transcribing, idle, success   *)
(* or error.                                                               *)

Write(t, state) ==
  /\ phase = "serving" /\ generation < MaxWrites
  /\ Free /\ step[t] = "none"
  /\ WriteLocked(t, state)
  /\ UNCHANGED << process, reverts, disk >>

\* publish, step by step: create the temporary file (truncating a left-over),
\* write and sync it, rename it over state.json.
CreateTmp(t) ==
  /\ step[t] = "create"
  /\ tmp' = Empty
  /\ step' = [step EXCEPT ![t] = "write"]
  /\ UNCHANGED << process, memory, generation, lock, snap, reverts, file, missed >>

WriteTmp(t) ==
  /\ step[t] = "write"
  /\ tmp' = snap[t]
  /\ step' = [step EXCEPT ![t] = "rename"]
  /\ UNCHANGED << process, memory, generation, lock, snap, reverts, file, missed >>

\* Mutant: the timer is not armed when the publication failed.
LeaveIfPublished(t, failed) ==
  /\ lock' = NoThread
  /\ missed' = failed
  /\ IF ~ failed /\ t \in Callers /\ snap[t].state \in Flashes
     THEN step' = [step EXCEPT ![t] = "arm"] /\ UNCHANGED snap
     ELSE step' = [step EXCEPT ![t] = "none"] /\ snap' = [snap EXCEPT ![t] = Absent]

\* The write is over and the lock is freed; success and error then arm a timer.
Leave(t, failed) ==
  /\ lock' = NoThread
  /\ missed' = failed
  /\ IF t \in Callers /\ snap[t].state \in Flashes
     THEN step' = [step EXCEPT ![t] = "arm"] /\ UNCHANGED snap
     ELSE step' = [step EXCEPT ![t] = "none"] /\ snap' = [snap EXCEPT ![t] = Absent]

Rename(t) ==
  /\ step[t] = "rename"
  /\ file' = tmp /\ tmp' = Absent
  /\ Leave(t, FALSE)
  /\ UNCHANGED << process, memory, generation, reverts >>

\* Any step of publish may fail: a warning is logged, state.json stays as it is.
PublishFails(t) ==
  /\ step[t] \in {"create", "write", "rename"}
  /\ Leave(t, TRUE)
  /\ UNCHANGED << process, memory, generation, reverts, tmp, file >>

\* revert_to_idle_after: after the lock was freed, a timer starts to sleep.
Arm(t) ==
  /\ step[t] = "arm"
  /\ reverts' = reverts \cup {snap[t].gen}
  /\ step' = [step EXCEPT ![t] = "none"]
  /\ snap' = [snap EXCEPT ![t] = Absent]
  /\ UNCHANGED << process, memory, generation, lock, disk >>

\* Mutant: the timer does not look at the generation.
RevertAny(g) ==
  /\ g \in reverts /\ Free /\ step["timer"] = "none"
  /\ reverts' = reverts \ {g}
  /\ WriteLocked("timer", "idle")
  /\ UNCHANGED << process, disk >>

\* FLASH later: idle, if nothing newer was written ...
Revert(g) ==
  /\ g \in reverts /\ Free /\ step["timer"] = "none"
  /\ generation = g
  /\ reverts' = reverts \ {g}
  /\ WriteLocked("timer", "idle")
  /\ UNCHANGED << process, disk >>

\* ... or else nothing.
RevertStale(g) ==
  /\ g \in reverts /\ Free /\ generation # g
  /\ reverts' = reverts \ {g}
  /\ UNCHANGED << process, memory, generation, lock, step, snap, disk >>

-----------------------------------------------------------------------------
Process == Start \/ Die \/ \E t \in Callers : Boot(t)

\* A thread that has begun a write runs on.
Continue(t) ==
  CreateTmp(t) \/ WriteTmp(t) \/ Rename(t) \/ PublishFails(t) \/ Arm(t)

Timer == \E g \in reverts : Revert(g) \/ RevertStale(g)

Next ==
  \/ Process \/ Timer
  \/ \E t \in Callers, state \in States : Write(t, state)
  \/ \E t \in Threads : Continue(t)

Spec == Init /\ [][Next]_vars

\* Threads run; when the daemon is started, stopped or killed is open.
Fairness ==
  /\ \A t \in Threads : WF_vars(Continue(t))
  /\ WF_vars(Timer)

-----------------------------------------------------------------------------
TypeOK ==
  /\ phase \in {"down", "booting", "serving"}
  /\ run \in 0 .. MaxRuns
  /\ memory \in States
  /\ generation \in Nat
  /\ lock \in Threads \cup {NoThread}
  /\ step \in [Threads -> Steps]
  /\ snap \in [Threads -> Snapshots \cup {Absent}]
  /\ reverts \in SUBSET Nat
  /\ tmp \in Snapshots \cup {Absent, Empty}
  /\ file \in Snapshots \cup {Absent, Empty}
  /\ missed \in BOOLEAN

\* "So the pill UI never reads a half-written file" (state.rs:3-4), although all
\* threads publish through the same temporary file, may fail at every step, and
\* a dying daemon leaves that file behind.
NeverHalfWritten == file.state # "half-written"

\* While nobody is publishing and the last publication did not fail, state.json
\* shows the state the status command answers: no transition is throttled away
\* (state.rs:162-163), and no older state lands on a newer one.
FileFollowsMemory ==
  phase = "serving" /\ lock = NoThread /\ ~ missed =>
    file.state = memory

\* An older snapshot never replaces a newer one on disk (state.rs:146-149), not
\* even one of an earlier run.
Newer(old, new) ==
  new.run > old.run \/ (new.run = old.run /\ new.gen > old.gen)
NeverGoesBack == [][file' # file => Newer(file, file')]_vars

\* A timer clears a success or an error and nothing else: a recording started
\* within the flash is not clobbered (state.rs:64-66).
RevertsOnlyFlashes ==
  [][lock' = "timer" /\ lock # "timer" => memory \in Flashes]_vars

\* While a success or an error is shown, the timer that clears it is armed or
\* about to be: also when its publication failed.
FlashIsArmed ==
  phase = "serving" /\ memory \in Flashes =>
    \/ generation \in reverts
    \/ \E t \in Callers : step[t] # "none" /\ snap[t].gen = generation

\* A flash does not stay, whatever fails.
FlashEnds == memory \in Flashes ~> memory \notin Flashes

-----------------------------------------------------------------------------
(* The abstract specification.                                             *)

\* A state is due while the thread that wrote it holds the lock.
Board == INSTANCE Publication
           WITH up <- phase # "down", due <- lock # NoThread, shown <- file, Nothing <- Absent,
                status <- [state |-> memory, run |-> run, gen |-> generation]

\* Whatever the threads, failures and restarts, state.json goes through whole states of
\* the daemon, each shown while it is the one the status command answers, and skips none
\* but meter ticks and failed attempts (state.rs:3-6, 146-149, 162-163).
PublishesInOrder == Board!Spec

-----------------------------------------------------------------------------
(* Why the invariants hold.                                                *)

\* The thread that publishes holds the lock; what it publishes is the memory.
LockInv ==
  /\ \A t \in Threads : step[t] \in {"create", "write", "rename"} <=> lock = t
  /\ step["timer"] # "arm"
  /\ lock \in Threads =>
       snap[lock] = [state |-> memory, run |-> run, gen |-> generation]
  /\ phase # "down" => run > 0
  /\ phase # "serving" => /\ lock = NoThread /\ reverts = {}
                          /\ \A t \in Threads : step[t] = "none"

\* What is about to be renamed is complete.
TmpInv == \A t \in Threads : step[t] = "rename" => tmp = snap[t]

\* What is on disk is no newer than what is in memory, and strictly older
\* while its successor is being published.
FileInv ==
  /\ file.run <= run
  /\ file.run = run /\ phase # "down" =>
       file.gen <= generation /\ (lock \in Threads => file.gen < generation)

\* A timer was armed, or is about to be, for a write that is not newer than the
\* memory; the one of the memory was a flash.
ArmInv ==
  /\ \A g \in reverts : g <= generation /\ (g = generation => memory \in Flashes)
  /\ \A t \in Callers : step[t] = "arm" =>
       /\ snap[t].gen <= generation
       /\ snap[t].gen = generation => memory \in Flashes

\* The parts together, with the safety invariants they support.
IInv ==
  /\ TypeOK
  /\ LockInv /\ TmpInv /\ FileInv /\ ArmInv
  /\ NeverHalfWritten /\ FileFollowsMemory /\ FlashIsArmed
=============================================================================
