--------------------------- MODULE StatusFileProofs ---------------------------
(***************************************************************************)
(* The state file is whole, follows the memory and never goes back, for    *)
(* any number of threads, writes and restarts.  The inductive invariant is *)
(* StatusFile.IInv; there is one lemma for each of its parts, with one     *)
(* step for each action.                                                   *)
(***************************************************************************)
EXTENDS StatusFile, TLAPS

USE CallersAssumption, NoThreadAssumption, BoundsAssumption

(* The state keeps its types. *)
LEMMA TypeStep == ASSUME IInv, [Next]_vars PROVE TypeOK'
<1> USE DEF Threads, process, disk, States, Flashes, Steps, Snapshots, Absent,
            Empty, LockInv, TypeOK
<1>0. /\ phase \in {"down", "booting", "serving"}
      /\ run \in 0 .. MaxRuns
      /\ memory \in States
      /\ generation \in Nat
      /\ lock \in Threads \cup {NoThread}
      /\ step \in [Threads -> Steps]
      /\ snap \in [Threads -> Snapshots \cup {Absent}]
      /\ reverts \in SUBSET Nat
      /\ tmp \in Snapshots \cup {Absent, Empty}
      /\ file \in Snapshots \cup {Absent, Empty}
      /\ missed \in BOOLEAN
      /\ LockInv
  BY DEF IInv, TypeOK
<1>1. CASE Start
  BY <1>0, <1>1 DEF Start
<1>2. CASE Die
  BY <1>0, <1>2 DEF Die
<1>3. ASSUME NEW t \in Callers, Boot(t) PROVE TypeOK'
  BY <1>0, <1>3 DEF Boot, WriteLocked
<1>4. ASSUME NEW t \in Callers, NEW state \in States, Write(t, state) PROVE TypeOK'
  BY <1>0, <1>4 DEF Write, WriteLocked, Free
<1>5. ASSUME NEW t \in Threads, CreateTmp(t) PROVE TypeOK'
  BY <1>0, <1>5 DEF CreateTmp
<1>6. ASSUME NEW t \in Threads, WriteTmp(t) PROVE TypeOK'
  BY <1>0, <1>6 DEF WriteTmp
<1>7. ASSUME NEW t \in Threads, Rename(t) PROVE TypeOK'
  BY <1>0, <1>7 DEF Rename, Leave
<1>8. ASSUME NEW t \in Threads, PublishFails(t) PROVE TypeOK'
  BY <1>0, <1>8 DEF PublishFails, Leave
<1>9. ASSUME NEW t \in Threads, Arm(t) PROVE TypeOK'
  <2>1. snap[t].gen \in Nat
    BY <1>0
  <2> QED
    BY <1>0, <1>9, <2>1, ZenonT(60) DEF Arm
<1>10. ASSUME NEW g \in reverts, Revert(g) PROVE TypeOK'
  BY <1>0, <1>10 DEF Revert, WriteLocked, Free
<1>11. ASSUME NEW g \in reverts, RevertStale(g) PROVE TypeOK'
  BY <1>0, <1>11 DEF RevertStale, Free
<1>12. CASE UNCHANGED vars
  BY <1>0, <1>12 DEF vars
<1> HIDE DEF TypeOK
<1> QED
  BY <1>1, <1>2, <1>3, <1>4, <1>5, <1>6, <1>7, <1>8, <1>9, <1>10, <1>11, <1>12
     DEF Next, Process, Continue, Timer

(* The shared lock is passed on with the write it protects. *)
LEMMA LockStep == ASSUME IInv, [Next]_vars PROVE LockInv'
<1> USE DEF Threads, process, disk, LockInv, Absent, Steps, Snapshots
<1>0. /\ phase \in {"down", "booting", "serving"}
      /\ run \in 0 .. MaxRuns
      /\ memory \in States
      /\ generation \in Nat
      /\ lock \in Threads \cup {NoThread}
      /\ step \in [Threads -> Steps]
      /\ snap \in [Threads -> Snapshots \cup {Absent}]
      /\ reverts \in SUBSET Nat
      /\ LockInv
  BY DEF IInv, TypeOK
<1>1. CASE Start
  BY <1>0, <1>1 DEF Start
<1>2. CASE Die
  BY <1>0, <1>2 DEF Die
<1>3. ASSUME NEW t \in Callers, Boot(t) PROVE LockInv'
  BY <1>0, <1>3 DEF Boot, WriteLocked
<1>4. ASSUME NEW t \in Callers, NEW state \in States, Write(t, state) PROVE LockInv'
  BY <1>0, <1>4 DEF Write, WriteLocked, Free
<1>5. ASSUME NEW t \in Threads, CreateTmp(t) PROVE LockInv'
  BY <1>0, <1>5 DEF CreateTmp
<1>6. ASSUME NEW t \in Threads, WriteTmp(t) PROVE LockInv'
  BY <1>0, <1>6 DEF WriteTmp
<1>7. ASSUME NEW t \in Threads, Rename(t) PROVE LockInv'
  BY <1>0, <1>7 DEF Rename, Leave
<1>8. ASSUME NEW t \in Threads, PublishFails(t) PROVE LockInv'
  BY <1>0, <1>8 DEF PublishFails, Leave
<1>9. ASSUME NEW t \in Threads, Arm(t) PROVE LockInv'
  BY <1>0, <1>9 DEF Arm
<1>10. ASSUME NEW g \in reverts, Revert(g) PROVE LockInv'
  BY <1>0, <1>10 DEF Revert, WriteLocked, Free
<1>11. ASSUME NEW g \in reverts, RevertStale(g) PROVE LockInv'
  BY <1>0, <1>11 DEF RevertStale, Free
<1>12. CASE UNCHANGED vars
  BY <1>0, <1>12 DEF vars
<1> HIDE DEF LockInv
<1> QED
  BY <1>1, <1>2, <1>3, <1>4, <1>5, <1>6, <1>7, <1>8, <1>9, <1>10, <1>11, <1>12
     DEF Next, Process, Continue, Timer

(* Only the holder of the shared lock touches the temporary file. *)
LEMMA TmpStep == ASSUME IInv, [Next]_vars PROVE TmpInv'
<1> USE DEF Threads, process, disk, LockInv, TmpInv, Steps
<1>0. /\ lock \in Threads \cup {NoThread}
      /\ step \in [Threads -> Steps]
      /\ snap \in [Threads -> Snapshots \cup {Absent}]
      /\ tmp \in Snapshots \cup {Absent, Empty}
      /\ LockInv /\ TmpInv
  BY DEF IInv, TypeOK
<1>1. CASE Start
  BY <1>0, <1>1 DEF Start
<1>2. CASE Die
  BY <1>0, <1>2 DEF Die
<1>3. ASSUME NEW t \in Callers, Boot(t) PROVE TmpInv'
  BY <1>0, <1>3 DEF Boot, WriteLocked
<1>4. ASSUME NEW t \in Callers, NEW state \in States, Write(t, state) PROVE TmpInv'
  BY <1>0, <1>4 DEF Write, WriteLocked, Free
<1>5. ASSUME NEW t \in Threads, CreateTmp(t) PROVE TmpInv'
  BY <1>0, <1>5 DEF CreateTmp
<1>6. ASSUME NEW t \in Threads, WriteTmp(t) PROVE TmpInv'
  BY <1>0, <1>6 DEF WriteTmp
<1>7. ASSUME NEW t \in Threads, Rename(t) PROVE TmpInv'
  BY <1>0, <1>7 DEF Rename, Leave
<1>8. ASSUME NEW t \in Threads, PublishFails(t) PROVE TmpInv'
  BY <1>0, <1>8 DEF PublishFails, Leave
<1>9. ASSUME NEW t \in Threads, Arm(t) PROVE TmpInv'
  BY <1>0, <1>9 DEF Arm
<1>10. ASSUME NEW g \in reverts, Revert(g) PROVE TmpInv'
  BY <1>0, <1>10 DEF Revert, WriteLocked, Free
<1>11. ASSUME NEW g \in reverts, RevertStale(g) PROVE TmpInv'
  BY <1>0, <1>11 DEF RevertStale, Free
<1>12. CASE UNCHANGED vars
  BY <1>0, <1>12 DEF vars
<1> HIDE DEF TmpInv
<1> QED
  BY <1>1, <1>2, <1>3, <1>4, <1>5, <1>6, <1>7, <1>8, <1>9, <1>10, <1>11, <1>12
     DEF Next, Process, Continue, Timer

(* What is renamed into place is the memory of this run, which is newer. *)
LEMMA FileStep == ASSUME IInv, [Next]_vars PROVE FileInv'
<1> USE DEF Threads, process, disk, LockInv, TmpInv, FileInv, Snapshots, Absent,
            Empty
<1>0. /\ phase \in {"down", "booting", "serving"}
      /\ run \in 0 .. MaxRuns
      /\ generation \in Nat
      /\ lock \in Threads \cup {NoThread}
      /\ step \in [Threads -> Steps]
      /\ snap \in [Threads -> Snapshots \cup {Absent}]
      /\ file \in Snapshots \cup {Absent, Empty}
      /\ tmp \in Snapshots \cup {Absent, Empty}
      /\ LockInv /\ TmpInv /\ FileInv
  BY DEF IInv, TypeOK
<1>1. CASE Start
  BY <1>0, <1>1 DEF Start
<1>2. CASE Die
  BY <1>0, <1>2 DEF Die
<1>3. ASSUME NEW t \in Callers, Boot(t) PROVE FileInv'
  BY <1>0, <1>3 DEF Boot, WriteLocked
<1>4. ASSUME NEW t \in Callers, NEW state \in States, Write(t, state) PROVE FileInv'
  BY <1>0, <1>4 DEF Write, WriteLocked, Free
<1>5. ASSUME NEW t \in Threads, CreateTmp(t) PROVE FileInv'
  BY <1>0, <1>5 DEF CreateTmp
<1>6. ASSUME NEW t \in Threads, WriteTmp(t) PROVE FileInv'
  BY <1>0, <1>6 DEF WriteTmp
<1>7. ASSUME NEW t \in Threads, Rename(t) PROVE FileInv'
  BY <1>0, <1>7 DEF Rename, Leave
<1>8. ASSUME NEW t \in Threads, PublishFails(t) PROVE FileInv'
  BY <1>0, <1>8 DEF PublishFails, Leave
<1>9. ASSUME NEW t \in Threads, Arm(t) PROVE FileInv'
  BY <1>0, <1>9 DEF Arm
<1>10. ASSUME NEW g \in reverts, Revert(g) PROVE FileInv'
  BY <1>0, <1>10 DEF Revert, WriteLocked, Free
<1>11. ASSUME NEW g \in reverts, RevertStale(g) PROVE FileInv'
  BY <1>0, <1>11 DEF RevertStale, Free
<1>12. CASE UNCHANGED vars
  BY <1>0, <1>12 DEF vars
<1> HIDE DEF FileInv
<1> QED
  BY <1>1, <1>2, <1>3, <1>4, <1>5, <1>6, <1>7, <1>8, <1>9, <1>10, <1>11, <1>12
     DEF Next, Process, Continue, Timer

(* A timer is armed with the generation of its own write. *)
LEMMA ArmStep == ASSUME IInv, [Next]_vars PROVE ArmInv'
<1> USE DEF Threads, process, disk, LockInv, ArmInv, Flashes, Snapshots, Absent
<1>0. /\ memory \in States
      /\ generation \in Nat
      /\ lock \in Threads \cup {NoThread}
      /\ step \in [Threads -> Steps]
      /\ snap \in [Threads -> Snapshots \cup {Absent}]
      /\ reverts \in SUBSET Nat
      /\ phase \in {"down", "booting", "serving"}
      /\ LockInv /\ ArmInv
  BY DEF IInv, TypeOK
<1>1. CASE Start
  BY <1>0, <1>1 DEF Start
<1>2. CASE Die
  BY <1>0, <1>2 DEF Die
<1>3. ASSUME NEW t \in Callers, Boot(t) PROVE ArmInv'
  BY <1>0, <1>3 DEF Boot, WriteLocked
<1>4. ASSUME NEW t \in Callers, NEW state \in States, Write(t, state) PROVE ArmInv'
  BY <1>0, <1>4 DEF Write, WriteLocked, Free
<1>5. ASSUME NEW t \in Threads, CreateTmp(t) PROVE ArmInv'
  BY <1>0, <1>5 DEF CreateTmp
<1>6. ASSUME NEW t \in Threads, WriteTmp(t) PROVE ArmInv'
  BY <1>0, <1>6 DEF WriteTmp
<1>7. ASSUME NEW t \in Threads, Rename(t) PROVE ArmInv'
  BY <1>0, <1>7 DEF Rename, Leave
<1>8. ASSUME NEW t \in Threads, PublishFails(t) PROVE ArmInv'
  BY <1>0, <1>8 DEF PublishFails, Leave
<1>9. ASSUME NEW t \in Threads, Arm(t) PROVE ArmInv'
  BY <1>0, <1>9 DEF Arm
<1>10. ASSUME NEW g \in reverts, Revert(g) PROVE ArmInv'
  BY <1>0, <1>10 DEF Revert, WriteLocked, Free
<1>11. ASSUME NEW g \in reverts, RevertStale(g) PROVE ArmInv'
  BY <1>0, <1>11 DEF RevertStale, Free
<1>12. CASE UNCHANGED vars
  BY <1>0, <1>12 DEF vars
<1> HIDE DEF ArmInv
<1> QED
  BY <1>1, <1>2, <1>3, <1>4, <1>5, <1>6, <1>7, <1>8, <1>9, <1>10, <1>11, <1>12
     DEF Next, Process, Continue, Timer

(* What is renamed into place is complete. *)
LEMMA WholeStep == ASSUME IInv, [Next]_vars PROVE NeverHalfWritten'
<1> USE DEF Threads, process, disk, LockInv, TmpInv, NeverHalfWritten, States,
            Threads
<1>0. /\ lock \in Threads \cup {NoThread}
      /\ step \in [Threads -> Steps]
      /\ snap \in [Threads -> Snapshots \cup {Absent}]
      /\ memory \in States
      /\ tmp \in Snapshots \cup {Absent, Empty}
      /\ file \in Snapshots \cup {Absent, Empty}
      /\ LockInv /\ TmpInv /\ NeverHalfWritten
  BY DEF IInv, TypeOK
<1>1. CASE Start
  BY <1>0, <1>1 DEF Start
<1>2. CASE Die
  BY <1>0, <1>2 DEF Die
<1>3. ASSUME NEW t \in Callers, Boot(t) PROVE NeverHalfWritten'
  BY <1>0, <1>3 DEF Boot, WriteLocked
<1>4. ASSUME NEW t \in Callers, NEW state \in States, Write(t, state) PROVE NeverHalfWritten'
  BY <1>0, <1>4 DEF Write, WriteLocked, Free
<1>5. ASSUME NEW t \in Threads, CreateTmp(t) PROVE NeverHalfWritten'
  BY <1>0, <1>5 DEF CreateTmp
<1>6. ASSUME NEW t \in Threads, WriteTmp(t) PROVE NeverHalfWritten'
  BY <1>0, <1>6 DEF WriteTmp
<1>7. ASSUME NEW t \in Threads, Rename(t) PROVE NeverHalfWritten'
  BY <1>0, <1>7 DEF Rename, Leave
<1>8. ASSUME NEW t \in Threads, PublishFails(t) PROVE NeverHalfWritten'
  BY <1>0, <1>8 DEF PublishFails, Leave
<1>9. ASSUME NEW t \in Threads, Arm(t) PROVE NeverHalfWritten'
  BY <1>0, <1>9 DEF Arm
<1>10. ASSUME NEW g \in reverts, Revert(g) PROVE NeverHalfWritten'
  BY <1>0, <1>10 DEF Revert, WriteLocked, Free
<1>11. ASSUME NEW g \in reverts, RevertStale(g) PROVE NeverHalfWritten'
  BY <1>0, <1>11 DEF RevertStale, Free
<1>12. CASE UNCHANGED vars
  BY <1>0, <1>12 DEF vars
<1> HIDE DEF NeverHalfWritten
<1> QED
  BY <1>1, <1>2, <1>3, <1>4, <1>5, <1>6, <1>7, <1>8, <1>9, <1>10, <1>11, <1>12
     DEF Next, Process, Continue, Timer

(* A write that is not published changes no state, or has failed. *)
LEMMA FollowStep == ASSUME IInv, [Next]_vars PROVE FileFollowsMemory'
<1> USE DEF Threads, process, disk, LockInv, TmpInv, FileFollowsMemory,
            Throttled
<1>0. /\ phase \in {"down", "booting", "serving"}
      /\ lock \in Threads \cup {NoThread}
      /\ step \in [Threads -> Steps]
      /\ snap \in [Threads -> Snapshots \cup {Absent}]
      /\ memory \in States
      /\ tmp \in Snapshots \cup {Absent, Empty}
      /\ file \in Snapshots \cup {Absent, Empty}
      /\ missed \in BOOLEAN
      /\ LockInv /\ TmpInv /\ FileFollowsMemory
  BY DEF IInv, TypeOK
<1>1. CASE Start
  BY <1>0, <1>1 DEF Start
<1>2. CASE Die
  BY <1>0, <1>2 DEF Die
<1>3. ASSUME NEW t \in Callers, Boot(t) PROVE FileFollowsMemory'
  BY <1>0, <1>3 DEF Boot, WriteLocked
<1>4. ASSUME NEW t \in Callers, NEW state \in States, Write(t, state) PROVE FileFollowsMemory'
  BY <1>0, <1>4 DEF Write, WriteLocked, Free
<1>5. ASSUME NEW t \in Threads, CreateTmp(t) PROVE FileFollowsMemory'
  BY <1>0, <1>5 DEF CreateTmp
<1>6. ASSUME NEW t \in Threads, WriteTmp(t) PROVE FileFollowsMemory'
  BY <1>0, <1>6 DEF WriteTmp
<1>7. ASSUME NEW t \in Threads, Rename(t) PROVE FileFollowsMemory'
  BY <1>0, <1>7 DEF Rename, Leave
<1>8. ASSUME NEW t \in Threads, PublishFails(t) PROVE FileFollowsMemory'
  BY <1>0, <1>8 DEF PublishFails, Leave
<1>9. ASSUME NEW t \in Threads, Arm(t) PROVE FileFollowsMemory'
  BY <1>0, <1>9 DEF Arm
<1>10. ASSUME NEW g \in reverts, Revert(g) PROVE FileFollowsMemory'
  BY <1>0, <1>10 DEF Revert, WriteLocked, Free
<1>11. ASSUME NEW g \in reverts, RevertStale(g) PROVE FileFollowsMemory'
  BY <1>0, <1>11 DEF RevertStale, Free
<1>12. CASE UNCHANGED vars
  BY <1>0, <1>12 DEF vars
<1> HIDE DEF FileFollowsMemory
<1> QED
  BY <1>1, <1>2, <1>3, <1>4, <1>5, <1>6, <1>7, <1>8, <1>9, <1>10, <1>11, <1>12
     DEF Next, Process, Continue, Timer

(* A write of a flash leaves an armed timer behind, published or not. *)
LEMMA FlashStep == ASSUME IInv, [Next]_vars PROVE FlashIsArmed'
<1> USE DEF Threads, process, disk, LockInv, ArmInv, FlashIsArmed, Flashes,
            Throttled
<1>0. /\ phase \in {"down", "booting", "serving"}
      /\ lock \in Threads \cup {NoThread}
      /\ step \in [Threads -> Steps]
      /\ snap \in [Threads -> Snapshots \cup {Absent}]
      /\ memory \in States
      /\ generation \in Nat
      /\ reverts \in SUBSET Nat
      /\ LockInv /\ ArmInv /\ FlashIsArmed
  BY DEF IInv, TypeOK
<1>1. CASE Start
  BY <1>0, <1>1 DEF Start
<1>2. CASE Die
  BY <1>0, <1>2 DEF Die
<1>3. ASSUME NEW t \in Callers, Boot(t) PROVE FlashIsArmed'
  BY <1>0, <1>3 DEF Boot, WriteLocked
<1>4. ASSUME NEW t \in Callers, NEW state \in States, Write(t, state) PROVE FlashIsArmed'
  BY <1>0, <1>4 DEF Write, WriteLocked, Free
<1>5. ASSUME NEW t \in Threads, CreateTmp(t) PROVE FlashIsArmed'
  BY <1>0, <1>5 DEF CreateTmp
<1>6. ASSUME NEW t \in Threads, WriteTmp(t) PROVE FlashIsArmed'
  BY <1>0, <1>6 DEF WriteTmp
<1>7. ASSUME NEW t \in Threads, Rename(t) PROVE FlashIsArmed'
  BY <1>0, <1>7 DEF Rename, Leave
<1>8. ASSUME NEW t \in Threads, PublishFails(t) PROVE FlashIsArmed'
  BY <1>0, <1>8 DEF PublishFails, Leave
<1>9. ASSUME NEW t \in Threads, Arm(t) PROVE FlashIsArmed'
  BY <1>0, <1>9 DEF Arm
<1>10. ASSUME NEW g \in reverts, Revert(g) PROVE FlashIsArmed'
  BY <1>0, <1>10 DEF Revert, WriteLocked, Free
<1>11. ASSUME NEW g \in reverts, RevertStale(g) PROVE FlashIsArmed'
  BY <1>0, <1>11 DEF RevertStale, Free
<1>12. CASE UNCHANGED vars
  BY <1>0, <1>12 DEF vars
<1> HIDE DEF FlashIsArmed
<1> QED
  BY <1>1, <1>2, <1>3, <1>4, <1>5, <1>6, <1>7, <1>8, <1>9, <1>10, <1>11, <1>12
     DEF Next, Process, Continue, Timer

-----------------------------------------------------------------------------
(* The initial state satisfies the inductive invariant. *)
LEMMA InitIInv == Init => IInv
<1> SUFFICES ASSUME Init PROVE IInv
  OBVIOUS
<1> USE DEF Init, Absent, Empty, Threads
<1>1. TypeOK
  <2>1. snap \in [Threads -> Snapshots \cup {Absent}] /\ step \in [Threads -> Steps]
    BY DEF Steps
  <2>2. file \in {Absent} /\ tmp \in {Absent} /\ run \in 0 .. MaxRuns
    OBVIOUS
  <2> QED BY <2>1, <2>2 DEF TypeOK, States
<1>2. LockInv /\ TmpInv /\ FileInv /\ ArmInv
  BY DEF LockInv, TmpInv, FileInv, ArmInv
<1>3. NeverHalfWritten /\ FileFollowsMemory /\ FlashIsArmed
  BY DEF NeverHalfWritten, FileFollowsMemory, FlashIsArmed
<1> QED BY <1>1, <1>2, <1>3 DEF IInv

(* No step of any thread, and no death of the daemon, leaves it. *)
LEMMA NextIInv == IInv /\ [Next]_vars => IInv'
<1> SUFFICES ASSUME IInv, [Next]_vars PROVE IInv'
  OBVIOUS
<1> QED
  BY TypeStep, LockStep, TmpStep, FileStep, ArmStep, WholeStep, FollowStep,
     FlashStep DEF IInv

(* The inductive invariant holds in every reachable state. *)
THEOREM Inductive == Spec => []IInv
  BY InitIInv, NextIInv, PTL DEF Spec

(* The state keeps its types: StatusFile.TypeOK. *)
THEOREM TypeCorrect == Spec => []TypeOK
<1>1. IInv => TypeOK
  BY DEF IInv
<1> QED BY <1>1, Inductive, PTL

(* The pill and the bar never read a half-written file. *)
THEOREM FileIsWhole == Spec => []NeverHalfWritten
<1>1. IInv => NeverHalfWritten
  BY DEF IInv
<1> QED BY <1>1, Inductive, PTL

(* Between publications the file shows what the status command answers, unless
   the last publication failed. *)
THEOREM FileShowsMemory == Spec => []FileFollowsMemory
<1>1. IInv => FileFollowsMemory
  BY DEF IInv
<1> QED BY <1>1, Inductive, PTL

(* A success or an error on display always has its timer. *)
THEOREM FlashHasTimer == Spec => []FlashIsArmed
<1>1. IInv => FlashIsArmed
  BY DEF IInv
<1> QED BY <1>1, Inductive, PTL

(* No older state lands on disk after a newer one: the only step that changes the
   file renames what the holder of the shared lock wrote, which is the memory. *)
THEOREM FileIsMonotonic == Spec => NeverGoesBack
<1>1. IInv /\ [Next]_vars => [file' # file => Newer(file, file')]_vars
  <2> SUFFICES ASSUME IInv, Next, file' # file PROVE Newer(file, file')
    BY DEF vars
  <2>1. PICK t \in Threads : Rename(t)
    BY DEF Next, Process, Timer, Continue, Start, Die, Boot, Write, CreateTmp,
       WriteTmp, PublishFails, Arm, Revert, RevertStale, disk
  <2>2. file' = snap[t] /\ lock = t /\ phase = "serving"
    BY <2>1 DEF Rename, IInv, LockInv, TmpInv
  <2>3. snap[t].run = run /\ snap[t].gen = generation
    BY <2>2 DEF IInv, LockInv
  <2> QED
    BY <2>2, <2>3 DEF IInv, TypeOK, FileInv, Newer, Snapshots, Absent, Empty
<1> QED BY <1>1, Inductive, PTL DEF Spec, NeverGoesBack

(* A timer clears a success or an error, never a newer recording. *)
THEOREM RevertIsOwn == Spec => RevertsOnlyFlashes
<1>1. IInv /\ [Next]_vars =>
        [lock' = "timer" /\ lock # "timer" => memory \in Flashes]_vars
  <2> SUFFICES ASSUME IInv, Next, lock' = "timer", lock # "timer"
               PROVE  memory \in Flashes
    BY DEF vars
  <2>1. PICK g \in reverts : Revert(g)
    BY DEF Next, Threads, IInv, LockInv, Process, Timer, Continue, Start, Die, Boot,
       Write, WriteLocked, CreateTmp, WriteTmp, Rename, PublishFails, Leave, Arm,
       RevertStale
  <2> QED BY <2>1 DEF Revert, IInv, ArmInv
<1> QED BY <1>1, Inductive, PTL DEF Spec, RevertsOnlyFlashes

-----------------------------------------------------------------------------
(* Refinement.  The record the abstract specification calls status, and what a write of
   the memory does to it: one change, due if it is going to be published. *)
Shown == [state |-> memory, run |-> run, gen |-> generation]

LEMMA WriteIsChange ==
  ASSUME IInv, NEW t \in Threads, NEW state \in States, phase # "down", lock = NoThread,
         WriteLocked(t, state), phase' # "down", UNCHANGED << run, file >>
  PROVE  Board!Change(state)
<1>1. Shown' = [state |-> state, run |-> Shown.run, gen |-> Shown.gen + 1]
  BY DEF Shown, WriteLocked
<1>2. \/ lock' # NoThread
      \/ state = "recording" /\ memory = "recording"
  BY DEF WriteLocked, Throttled, Threads
<1>3. Shown.state = memory
  BY DEF Shown
<1> QED BY <1>1, <1>2, <1>3 DEF Board!Change, Shown

(* The end of a publication settles it: the file is what it was, or the memory. *)
LEMMA LeaveIsSettle ==
  ASSUME IInv, NEW t \in Threads, Rename(t) \/ PublishFails(t)
  PROVE  Board!Settle
<1>1. lock = t /\ t # NoThread /\ lock' = NoThread
  BY DEF Rename, PublishFails, Leave, IInv, LockInv, Threads
<1>2. UNCHANGED << phase, Shown >>
  BY DEF Rename, PublishFails, process, Shown
<1>3. file' \in {Shown, file}
  <2>1. CASE Rename(t)
    BY <1>1, <2>1 DEF Rename, IInv, LockInv, TmpInv, Shown
  <2>2. CASE PublishFails(t)
    BY <2>2 DEF PublishFails
  <2> QED BY <2>1, <2>2
<1> QED BY <1>1, <1>2, <1>3 DEF Board!Settle, Shown

LEMMA StepIsPublication == ASSUME IInv, [Next]_vars PROVE [Board!Next]_(Board!boardVars)
<1> USE DEF Threads
<1>0. /\ phase # "serving" => lock = NoThread
      /\ \A t \in Threads : step[t] \in {"create", "write", "rename"} <=> lock = t
  BY DEF IInv, LockInv
<1>1. CASE Start
  <2>1. phase = "down" /\ phase' # "down" /\ UNCHANGED << lock, file >>
    BY <1>1 DEF Start, disk
  <2>2. Shown' = [Shown EXCEPT !.run = @ + 1]
    BY <1>1 DEF Start, Shown
  <2>3. Board!Begin
    BY <2>1, <2>2 DEF Board!Begin, Shown
  <2> QED BY <2>3 DEF Board!Next
<1>2. CASE Die
  <2>1. phase # "down" /\ phase' = "down" /\ lock' = NoThread /\ UNCHANGED file
    BY <1>2 DEF Die, disk
  <2>2. Shown' = [state |-> "idle", run |-> Shown.run, gen |-> 0]
    BY <1>2 DEF Die, Shown
  <2>3. Board!End
    BY <2>1, <2>2 DEF Board!End, Shown
  <2> QED BY <2>3 DEF Board!Next
<1>3. ASSUME NEW t \in Callers, Boot(t) PROVE Board!Next
  <2>1. Board!Change("idle")
    BY <1>0, <1>3, WriteIsChange DEF Boot, disk, States
  <2> QED BY <2>1 DEF Board!Next, States
<1>4. ASSUME NEW t \in Callers, NEW state \in States, Write(t, state) PROVE Board!Next
  <2>1. Board!Change(state)
    BY <1>4, WriteIsChange DEF Write, Free, process, disk
  <2> QED BY <2>1 DEF Board!Next
<1>5. ASSUME NEW g \in reverts, Revert(g) PROVE Board!Next
  <2>1. phase # "down"
    BY <1>5 DEF IInv, LockInv
  <2>2. Board!Change("idle")
    BY <1>5, <2>1, WriteIsChange DEF Revert, Free, process, disk, States
  <2> QED BY <2>2 DEF Board!Next, States
<1>6. ASSUME NEW t \in Threads, Rename(t) \/ PublishFails(t) PROVE Board!Next
  BY <1>6, LeaveIsSettle DEF Board!Next
<1>7. ASSUME UNCHANGED << phase, run, memory, generation, lock, file >>
      PROVE  UNCHANGED Board!boardVars
  BY <1>7 DEF Board!boardVars
<1>8. ASSUME NEW t \in Threads, CreateTmp(t) \/ WriteTmp(t) \/ Arm(t)
      PROVE  UNCHANGED Board!boardVars
  BY <1>7, <1>8 DEF CreateTmp, WriteTmp, Arm, process, disk
<1>9. ASSUME NEW g \in reverts, RevertStale(g) PROVE UNCHANGED Board!boardVars
  BY <1>7, <1>9 DEF RevertStale, process, disk
<1>10. CASE UNCHANGED vars
  BY <1>7, <1>10 DEF vars, process, disk
<1> QED
  BY <1>1, <1>2, <1>3, <1>4, <1>5, <1>6, <1>8, <1>9, <1>10
     DEF Next, Process, Continue, Timer

(* The publisher implements Publication: however its threads interleave and whatever
   fails, the file goes through the states of the daemon, whole, in order and one at a
   time, over any number of writes and runs. *)
THEOREM StatusFileIsPublication == Spec => PublishesInOrder
<1>1. Init => Board!Init
  BY DEF Init, Board!Init
<1>2. IInv /\ [Next]_vars => [Board!Next]_(Board!boardVars)
  BY StepIsPublication
<1> QED BY <1>1, <1>2, Inductive, PTL DEF Spec, PublishesInOrder, Board!Spec
=============================================================================
