---------------------------- MODULE SessionProofs ----------------------------
(***************************************************************************)
(* Session's safety properties hold for every number of recordings.  The   *)
(* inductive invariant is Session.IInv; there is one lemma for each of its *)
(* parts, with one step for each group of actions, split into the actions  *)
(* where the part is disturbed.  The last part is the refinement of        *)
(* Dictation.                                                              *)
(***************************************************************************)
EXTENDS Session, TLAPS

USE MaxRecordingsAssumption, TextsAssumption, NoIdAssumption
USE DEF lifecycle, capture, clip

(* The state keeps its types. *)
LEMMA TypeStep == ASSUME IInv, [Next]_vars PROVE TypeOK'
<1> USE DEF IInv, TypeOK, MaybeId, Ids, ServerSteps, StartSteps, Stages, States,
            Outcomes, ReaderStates, Flashes, Shown, Publish, Report, ServerInv
<1>1. CASE Command
  <2>1. CASE StartOverOverrun
    BY <2>1 DEF StartOverOverrun, At, Waiting
  <2>2. CASE StartFresh
    BY <2>2 DEF StartFresh, At, Waiting
  <2>3. CASE Stop
    BY <2>3 DEF Stop, At, Waiting
  <2>4. CASE CancelClips
    BY <2>4 DEF CancelClips, At, Waiting
  <2>5. CASE CancelRecording
    BY <2>5, SMTT(30) DEF CancelRecording, At, Waiting
  <2>6. QED
    BY <1>1, <2>1, <2>2, <2>3, <2>4, <2>5 DEF Command
<1>2. CASE ServerStep
  <2>1. CASE StartJoin
    BY <2>1 DEF StartJoin, At, Waiting
  <2>2. CASE StartOpened
    BY <2>2 DEF StartOpened, At, Waiting
  <2>3. CASE StartFailed
    BY <2>3, SMTT(30) DEF StartFailed, At, Waiting
  <2>4. CASE StartPublish
    BY <2>4 DEF StartPublish, At, Waiting
  <2>5. CASE StartProbe
    BY <2>5 DEF StartProbe, At, Waiting
  <2>6. CASE CancelJoin
    BY <2>6 DEF CancelJoin, At, Waiting
  <2>7. CASE CancelIdle
    BY <2>7 DEF CancelIdle, At, Waiting
  <2>8. QED
    BY <1>2, <2>1, <2>2, <2>3, <2>4, <2>5, <2>6, <2>7 DEF ServerStep
<1>3. CASE Revert
  BY <1>3 DEF Revert
<1>4. ASSUME NEW id \in Ids, ReaderStep(id) \/ ReaderCallback(id) PROVE TypeOK'
  <2>1. ASSUME NEW loud \in BOOLEAN, ReaderRms(id, loud) PROVE TypeOK'
    BY <2>1 DEF ReaderRms, At, Waiting
  <2>2. CASE ReaderOverrun(id)
    BY <2>2 DEF ReaderOverrun, At, Waiting
  <2>3. CASE ReaderTooLong(id)
    BY <2>3 DEF ReaderTooLong, At, Waiting
  <2>4. CASE ReaderSilence(id)
    BY <2>4 DEF ReaderSilence, At, Waiting
  <2>5. CASE ReaderSpawnsFinish(id)
    BY <2>5 DEF ReaderSpawnsFinish, At, Waiting
  <2>6. CASE ReaderEof(id)
    BY <2>6 DEF ReaderEof, At, Waiting
  <2>7. QED
    BY <1>4, <2>1, <2>2, <2>3, <2>4, <2>5, <2>6 DEF ReaderStep, ReaderCallback
<1>5. ASSUME NEW id \in Ids, FinishStep(id) PROVE TypeOK'
  <2>1. CASE AutoFinish(id)
    BY <2>1 DEF AutoFinish, At, Waiting
  <2>2. CASE AutoFinishLate(id)
    BY <2>2 DEF AutoFinishLate, At, Waiting
  <2>3. QED
    BY <1>5, <2>1, <2>2 DEF FinishStep
<1>6. ASSUME NEW id \in Ids, CloseStep(id) PROVE TypeOK'
  <2>1. CASE CloseBegin(id)
    BY <2>1 DEF CloseBegin, Answer, At, Waiting
  <2>2. CASE CloseDiscard(id)
    BY <2>2 DEF CloseDiscard, Answer, At, Waiting
  <2>3. ASSUME NEW long \in BOOLEAN, CloseFinish(id, long) PROVE TypeOK'
    BY <2>3 DEF CloseFinish, Answer, At, Waiting
  <2>4. CASE CloseEmpty(id)
    BY <2>4 DEF CloseEmpty, Answer, At, Waiting
  <2>5. CASE CloseFull(id)
    BY <2>5 DEF CloseFull, Answer, At, Waiting
  <2>6. QED
    BY <1>6, <2>1, <2>2, <2>3, <2>4, <2>5 DEF CloseStep
<1>7. ASSUME NEW id \in Ids, ClipStep(id) PROVE TypeOK'
  <2>1. CASE TranscribeFails(id)
    BY <2>1 DEF TranscribeFails
  <2>2. CASE FilterDrops(id)
    BY <2>2 DEF FilterDrops
  <2>3. CASE FilterAccepts(id)
    BY <2>3 DEF FilterAccepts
  <2>4. CASE DeliverLock(id)
    BY <2>4 DEF DeliverLock
  <2>5. CASE DeliverBegin(id)
    BY <2>5 DEF DeliverBegin
  <2>6. CASE DeliverCancelled(id)
    BY <2>6 DEF DeliverCancelled
  <2>7. CASE DeliverProcess(id)
    BY <2>7 DEF DeliverProcess
  <2>8. ASSUME NEW ok \in BOOLEAN, DeliverInject(id, ok) PROVE TypeOK'
    <3>1. Append(pasted, id) \in Seq(Ids) /\ pasted \in Seq(Ids)
      OBVIOUS
    <3>2. pasted' \in Seq(Ids)
      BY <2>8, <3>1 DEF DeliverInject, Injected
    <3>3. outcome' \in [Ids -> Outcomes]
      BY <2>8 DEF DeliverInject, Outcomes
    <3>4. QED BY <2>8, <3>2, <3>3 DEF DeliverInject
  <2>9. CASE ReportOutcome(id)
    BY <2>9 DEF ReportOutcome
  <2>10. QED
    BY <1>7, <2>1, <2>2, <2>3, <2>4, <2>5, <2>6, <2>7, <2>8, <2>9 DEF ClipStep
<1>8. CASE UNCHANGED vars
  BY <1>8 DEF vars
<1> HIDE DEF IInv, TypeOK
<1>9. QED
  BY <1>1, <1>2, <1>3, <1>4, <1>5, <1>6, <1>7, <1>8 DEF Next

(* The slot is filled by start only, and emptied before the socket thread or the
   auto-finish thread closes what was in it. *)
LEMMA SlotStep == ASSUME IInv, [Next]_vars PROVE SlotInv'
<1> USE DEF MaybeId, Ids, SlotInv, ServerInv
<1>0. /\ recording \in MaybeId
      /\ next_id \in 0 .. MaxRecordings
      /\ server \in [at : ServerSteps, id : MaybeId]
      /\ stage \in [Ids -> Stages]
      /\ SlotInv /\ ServerInv
  BY DEF IInv, TypeOK
<1>1. CASE Command
  BY <1>0, <1>1
     DEF Command, StartOverOverrun, StartFresh, Stop, CancelClips,
         CancelRecording, At, Waiting
<1>2. CASE ServerStep
  BY <1>0, <1>2
     DEF ServerStep, StartJoin, StartOpened, StartFailed, StartPublish,
         StartProbe, CancelJoin, CancelIdle, At, Waiting
<1>3. CASE Revert
  BY <1>0, <1>3 DEF Revert
<1>4. ASSUME NEW id \in Ids, ReaderStep(id) \/ ReaderCallback(id) PROVE SlotInv'
  BY <1>0, <1>4
     DEF ReaderStep, ReaderCallback, ReaderRms, ReaderOverrun, ReaderTooLong,
         ReaderSilence, ReaderSpawnsFinish, ReaderEof, At, Waiting
<1>5. ASSUME NEW id \in Ids, FinishStep(id) PROVE SlotInv'
  BY <1>0, <1>5 DEF FinishStep, AutoFinish, AutoFinishLate, At, Waiting
<1>6. ASSUME NEW id \in Ids, CloseStep(id) PROVE SlotInv'
  BY <1>0, <1>6
     DEF CloseStep, CloseBegin, CloseDiscard, CloseFinish, CloseEmpty,
         CloseFull, Answer, At, Waiting
<1>7. ASSUME NEW id \in Ids, ClipStep(id) PROVE SlotInv'
  BY <1>0, <1>7
     DEF ClipStep, TranscribeFails, FilterDrops, FilterAccepts, DeliverLock,
         DeliverBegin, DeliverCancelled, DeliverProcess, DeliverInject,
         ReportOutcome
<1>8. CASE UNCHANGED vars
  BY <1>0, <1>8 DEF vars
<1> HIDE DEF IInv, SlotInv
<1>9. QED
  BY <1>1, <1>2, <1>3, <1>4, <1>5, <1>6, <1>7, <1>8 DEF Next

(* Ids are handed out in order; only start gives a stage to a new one. *)
LEMMA FreshStep == ASSUME IInv, [Next]_vars PROVE FreshInv'
<1> USE DEF MaybeId, Ids, SlotInv, ServerInv, FreshInv, ReaderInv, DeliverInv,
            Alive
<1>0. /\ recording \in MaybeId
      /\ next_id \in 0 .. MaxRecordings
      /\ server \in [at : ServerSteps, id : MaybeId]
      /\ stage \in [Ids -> Stages]
      /\ reader \in [Ids -> ReaderStates]
      /\ auto_stopped \in [Ids -> BOOLEAN]
      /\ SlotInv /\ FreshInv /\ ServerInv /\ ReaderInv /\ DeliverInv
  BY DEF IInv, TypeOK
<1>1. CASE Command
  BY <1>0, <1>1
     DEF Command, StartOverOverrun, StartFresh, Stop, CancelClips,
         CancelRecording, At, Waiting
<1>2. CASE ServerStep
  <2>1. CASE StartJoin
    BY <1>0, <2>1, SMTT(30) DEF StartJoin, At, Waiting
  <2>2. CASE StartOpened
    BY <1>0, <2>2 DEF StartOpened, At, Waiting
  <2>3. CASE StartFailed
    BY <1>0, <2>3 DEF StartFailed, At, Waiting
  <2>4. CASE StartPublish
    BY <1>0, <2>4 DEF StartPublish, At, Waiting
  <2>5. CASE StartProbe
    BY <1>0, <2>5 DEF StartProbe, At, Waiting
  <2>6. CASE CancelJoin
    BY <1>0, <2>6 DEF CancelJoin, At, Waiting
  <2>7. CASE CancelIdle
    BY <1>0, <2>7 DEF CancelIdle, At, Waiting
  <2>8. QED
    BY <1>2, <2>1, <2>2, <2>3, <2>4, <2>5, <2>6, <2>7 DEF ServerStep
<1>3. CASE Revert
  BY <1>0, <1>3 DEF Revert
<1>4. ASSUME NEW id \in Ids, ReaderStep(id) \/ ReaderCallback(id) PROVE FreshInv'
  BY <1>0, <1>4
     DEF ReaderStep, ReaderCallback, ReaderRms, ReaderOverrun, ReaderTooLong,
         ReaderSilence, ReaderSpawnsFinish, ReaderEof, At, Waiting
<1>5. ASSUME NEW id \in Ids, FinishStep(id) PROVE FreshInv'
  BY <1>0, <1>5 DEF FinishStep, AutoFinish, AutoFinishLate, At, Waiting
<1>6. ASSUME NEW id \in Ids, CloseStep(id) PROVE FreshInv'
  <2>1. CASE CloseBegin(id)
    BY <1>0, <2>1 DEF CloseBegin, Answer, At, Waiting
  <2>2. CASE CloseDiscard(id)
    BY <1>0, <2>2 DEF CloseDiscard, Answer, At, Waiting
  <2>3. ASSUME NEW long \in BOOLEAN, CloseFinish(id, long) PROVE FreshInv'
    BY <1>0, <2>3 DEF CloseFinish, Answer, At, Waiting
  <2>4. CASE CloseEmpty(id)
    BY <1>0, <2>4 DEF CloseEmpty, Answer, At, Waiting
  <2>5. CASE CloseFull(id)
    BY <1>0, <2>5 DEF CloseFull, Answer, At, Waiting
  <2>6. QED
    BY <1>6, <2>1, <2>2, <2>3, <2>4, <2>5 DEF CloseStep
<1>7. ASSUME NEW id \in Ids, ClipStep(id) PROVE FreshInv'
  <2>1. CASE TranscribeFails(id)
    BY <1>0, <2>1 DEF TranscribeFails
  <2>2. CASE FilterDrops(id)
    BY <1>0, <2>2 DEF FilterDrops
  <2>3. CASE FilterAccepts(id)
    BY <1>0, <2>3 DEF FilterAccepts
  <2>4. CASE DeliverLock(id)
    BY <1>0, <2>4 DEF DeliverLock
  <2>5. CASE DeliverBegin(id)
    BY <1>0, <2>5 DEF DeliverBegin
  <2>6. CASE DeliverCancelled(id)
    BY <1>0, <2>6 DEF DeliverCancelled
  <2>7. CASE DeliverProcess(id)
    BY <1>0, <2>7 DEF DeliverProcess
  <2>8. ASSUME NEW ok \in BOOLEAN, DeliverInject(id, ok) PROVE FreshInv'
    BY <1>0, <2>8 DEF DeliverInject
  <2>9. CASE ReportOutcome(id)
    BY <1>0, <2>9 DEF ReportOutcome
  <2>10. QED
    BY <1>7, <2>1, <2>2, <2>3, <2>4, <2>5, <2>6, <2>7, <2>8, <2>9 DEF ClipStep
<1>8. CASE UNCHANGED vars
  BY <1>0, <1>8 DEF vars
<1> HIDE DEF IInv, FreshInv
<1>9. QED
  BY <1>1, <1>2, <1>3, <1>4, <1>5, <1>6, <1>7, <1>8 DEF Next

(* Nobody but the socket thread moves the recording it is busy with to another
   stage, except along the stages of the close it waits for. *)
LEMMA ServerInvStep == ASSUME IInv, [Next]_vars PROVE ServerInv'
<1> USE DEF MaybeId, Ids, SlotInv, FreshInv, ServerInv
<1>0. /\ recording \in MaybeId
      /\ next_id \in 0 .. MaxRecordings
      /\ server \in [at : ServerSteps, id : MaybeId]
      /\ stage \in [Ids -> Stages]
      /\ SlotInv /\ FreshInv /\ ServerInv
  BY DEF IInv, TypeOK
<1>1. CASE Command
  BY <1>0, <1>1
     DEF Command, StartOverOverrun, StartFresh, Stop, CancelClips,
         CancelRecording, At, Waiting
<1>2. CASE ServerStep
  <2>1. CASE StartJoin
    BY <1>0, <2>1 DEF StartJoin, At, Waiting
  <2>2. CASE StartOpened
    BY <1>0, <2>2 DEF StartOpened, At, Waiting
  <2>3. CASE StartFailed
    BY <1>0, <2>3 DEF StartFailed, At, Waiting
  <2>4. CASE StartPublish
    BY <1>0, <2>4 DEF StartPublish, At, Waiting
  <2>5. CASE StartProbe
    BY <1>0, <2>5 DEF StartProbe, At, Waiting
  <2>6. CASE CancelJoin
    BY <1>0, <2>6 DEF CancelJoin, At, Waiting
  <2>7. CASE CancelIdle
    BY <1>0, <2>7 DEF CancelIdle, At, Waiting
  <2>8. QED
    BY <1>2, <2>1, <2>2, <2>3, <2>4, <2>5, <2>6, <2>7 DEF ServerStep
<1>3. CASE Revert
  BY <1>0, <1>3 DEF Revert
<1>4. ASSUME NEW id \in Ids, ReaderStep(id) \/ ReaderCallback(id) PROVE ServerInv'
  BY <1>0, <1>4
     DEF ReaderStep, ReaderCallback, ReaderRms, ReaderOverrun, ReaderTooLong,
         ReaderSilence, ReaderSpawnsFinish, ReaderEof, At, Waiting
<1>5. ASSUME NEW id \in Ids, FinishStep(id) PROVE ServerInv'
  BY <1>0, <1>5 DEF FinishStep, AutoFinish, AutoFinishLate, At, Waiting
<1>6. ASSUME NEW id \in Ids, CloseStep(id) PROVE ServerInv'
  BY <1>0, <1>6
     DEF CloseStep, CloseBegin, CloseDiscard, CloseFinish, CloseEmpty,
         CloseFull, Answer, At, Waiting
<1>7. ASSUME NEW id \in Ids, ClipStep(id) PROVE ServerInv'
  BY <1>0, <1>7
     DEF ClipStep, TranscribeFails, FilterDrops, FilterAccepts, DeliverLock,
         DeliverBegin, DeliverCancelled, DeliverProcess, DeliverInject,
         ReportOutcome
<1>8. CASE UNCHANGED vars
  BY <1>0, <1>8 DEF vars
<1> HIDE DEF IInv, ServerInv
<1>9. QED
  BY <1>1, <1>2, <1>3, <1>4, <1>5, <1>6, <1>7, <1>8 DEF Next

(* A reader outlives its owner's interest only while somebody joins it. *)
LEMMA ReaderInvStep == ASSUME IInv, [Next]_vars PROVE ReaderInv'
<1> USE DEF MaybeId, Ids, SlotInv, FreshInv, ServerInv, ReaderInv, Alive
<1>0. /\ recording \in MaybeId
      /\ next_id \in 0 .. MaxRecordings
      /\ server \in [at : ServerSteps, id : MaybeId]
      /\ stage \in [Ids -> Stages]
      /\ reader \in [Ids -> ReaderStates]
      /\ auto_stopped \in [Ids -> BOOLEAN]
      /\ auto \in [Ids -> {"none", "waiting", "gone"}]
      /\ SlotInv /\ FreshInv /\ ServerInv /\ ReaderInv
  BY DEF IInv, TypeOK
<1>1. CASE Command
  <2>1. CASE StartOverOverrun
    BY <1>0, <2>1 DEF StartOverOverrun, At, Waiting
  <2>2. CASE StartFresh
    BY <1>0, <2>2 DEF StartFresh, At, Waiting
  <2>3. CASE Stop
    BY <1>0, <2>3 DEF Stop, At, Waiting
  <2>4. CASE CancelClips
    BY <1>0, <2>4 DEF CancelClips, At, Waiting
  <2>5. CASE CancelRecording
    BY <1>0, <2>5 DEF CancelRecording, At, Waiting
  <2>6. QED
    BY <1>1, <2>1, <2>2, <2>3, <2>4, <2>5 DEF Command
<1>2. CASE ServerStep
  BY <1>0, <1>2
     DEF ServerStep, StartJoin, StartOpened, StartFailed, StartPublish,
         StartProbe, CancelJoin, CancelIdle, At, Waiting
<1>3. CASE Revert
  BY <1>0, <1>3 DEF Revert
<1>4. ASSUME NEW id \in Ids, ReaderStep(id) \/ ReaderCallback(id) PROVE ReaderInv'
  <2>1. ASSUME NEW loud \in BOOLEAN, ReaderRms(id, loud) PROVE ReaderInv'
    BY <1>0, <2>1 DEF ReaderRms, At, Waiting
  <2>2. CASE ReaderOverrun(id)
    BY <1>0, <2>2 DEF ReaderOverrun, At, Waiting
  <2>3. CASE ReaderTooLong(id)
    BY <1>0, <2>3 DEF ReaderTooLong, At, Waiting
  <2>4. CASE ReaderSilence(id)
    BY <1>0, <2>4 DEF ReaderSilence, At, Waiting
  <2>5. CASE ReaderSpawnsFinish(id)
    BY <1>0, <2>5 DEF ReaderSpawnsFinish, At, Waiting
  <2>6. CASE ReaderEof(id)
    BY <1>0, <2>6 DEF ReaderEof, At, Waiting
  <2>7. QED
    BY <1>4, <2>1, <2>2, <2>3, <2>4, <2>5, <2>6 DEF ReaderStep, ReaderCallback
<1>5. ASSUME NEW id \in Ids, FinishStep(id) PROVE ReaderInv'
  <2>1. CASE AutoFinish(id)
    BY <1>0, <2>1 DEF AutoFinish, At, Waiting
  <2>2. CASE AutoFinishLate(id)
    BY <1>0, <2>2 DEF AutoFinishLate, At, Waiting
  <2>3. QED
    BY <1>5, <2>1, <2>2 DEF FinishStep
<1>6. ASSUME NEW id \in Ids, CloseStep(id) PROVE ReaderInv'
  <2>1. CASE CloseBegin(id)
    BY <1>0, <2>1 DEF CloseBegin, Answer, At, Waiting
  <2>2. CASE CloseDiscard(id)
    BY <1>0, <2>2 DEF CloseDiscard, Answer, At, Waiting
  <2>3. ASSUME NEW long \in BOOLEAN, CloseFinish(id, long) PROVE ReaderInv'
    BY <1>0, <2>3 DEF CloseFinish, Answer, At, Waiting
  <2>4. CASE CloseEmpty(id)
    BY <1>0, <2>4 DEF CloseEmpty, Answer, At, Waiting
  <2>5. CASE CloseFull(id)
    BY <1>0, <2>5 DEF CloseFull, Answer, At, Waiting
  <2>6. QED
    BY <1>6, <2>1, <2>2, <2>3, <2>4, <2>5 DEF CloseStep
<1>7. ASSUME NEW id \in Ids, ClipStep(id) PROVE ReaderInv'
  <2>1. CASE TranscribeFails(id)
    BY <1>0, <2>1, ZenonT(60) DEF TranscribeFails
  <2>2. CASE FilterDrops(id)
    BY <1>0, <2>2, ZenonT(60) DEF FilterDrops
  <2>3. CASE FilterAccepts(id)
    BY <1>0, <2>3 DEF FilterAccepts
  <2>4. CASE DeliverLock(id)
    BY <1>0, <2>4 DEF DeliverLock
  <2>5. CASE DeliverBegin(id)
    BY <1>0, <2>5 DEF DeliverBegin
  <2>6. CASE DeliverCancelled(id)
    BY <1>0, <2>6, SMTT(30) DEF DeliverCancelled
  <2>7. CASE DeliverProcess(id)
    BY <1>0, <2>7 DEF DeliverProcess
  <2>8. ASSUME NEW ok \in BOOLEAN, DeliverInject(id, ok) PROVE ReaderInv'
    BY <1>0, <2>8 DEF DeliverInject
  <2>9. CASE ReportOutcome(id)
    BY <1>0, <2>9 DEF ReportOutcome
  <2>10. QED
    BY <1>7, <2>1, <2>2, <2>3, <2>4, <2>5, <2>6, <2>7, <2>8, <2>9 DEF ClipStep
<1>8. CASE UNCHANGED vars
  BY <1>0, <1>8 DEF vars
<1> HIDE DEF IInv, ReaderInv
<1>9. QED
  BY <1>1, <1>2, <1>3, <1>4, <1>5, <1>6, <1>7, <1>8 DEF Next

(* A cancel covers the ids handed out so far, and empties the slot. *)
LEMMA CancelInvStep == ASSUME IInv, [Next]_vars PROVE CancelInv'
<1> USE DEF MaybeId, Ids, SlotInv, FreshInv, ServerInv, CancelInv, Cancelled
<1>0. /\ recording \in MaybeId
      /\ next_id \in 0 .. MaxRecordings
      /\ server \in [at : ServerSteps, id : MaybeId]
      /\ stage \in [Ids -> Stages]
      /\ cancelled_below \in 0 .. next_id
      /\ SlotInv /\ FreshInv /\ ServerInv /\ CancelInv
  BY DEF IInv, TypeOK
<1>1. CASE Command
  BY <1>0, <1>1
     DEF Command, StartOverOverrun, StartFresh, Stop, CancelClips,
         CancelRecording, At, Waiting
<1>2. CASE ServerStep
  BY <1>0, <1>2
     DEF ServerStep, StartJoin, StartOpened, StartFailed, StartPublish,
         StartProbe, CancelJoin, CancelIdle, At, Waiting
<1>3. CASE Revert
  BY <1>0, <1>3 DEF Revert
<1>4. ASSUME NEW id \in Ids, ReaderStep(id) \/ ReaderCallback(id) PROVE CancelInv'
  BY <1>0, <1>4
     DEF ReaderStep, ReaderCallback, ReaderRms, ReaderOverrun, ReaderTooLong,
         ReaderSilence, ReaderSpawnsFinish, ReaderEof, At, Waiting
<1>5. ASSUME NEW id \in Ids, FinishStep(id) PROVE CancelInv'
  BY <1>0, <1>5 DEF FinishStep, AutoFinish, AutoFinishLate, At, Waiting
<1>6. ASSUME NEW id \in Ids, CloseStep(id) PROVE CancelInv'
  <2>1. CASE CloseBegin(id)
    BY <1>0, <2>1 DEF CloseBegin, Answer, At, Waiting
  <2>2. CASE CloseDiscard(id)
    BY <1>0, <2>2 DEF CloseDiscard, Answer, At, Waiting
  <2>3. ASSUME NEW long \in BOOLEAN, CloseFinish(id, long) PROVE CancelInv'
    BY <1>0, <2>3 DEF CloseFinish, Answer, At, Waiting
  <2>4. CASE CloseEmpty(id)
    BY <1>0, <2>4 DEF CloseEmpty, Answer, At, Waiting
  <2>5. CASE CloseFull(id)
    BY <1>0, <2>5 DEF CloseFull, Answer, At, Waiting
  <2>6. QED
    BY <1>6, <2>1, <2>2, <2>3, <2>4, <2>5 DEF CloseStep
<1>7. ASSUME NEW id \in Ids, ClipStep(id) PROVE CancelInv'
  BY <1>0, <1>7
     DEF ClipStep, TranscribeFails, FilterDrops, FilterAccepts, DeliverLock,
         DeliverBegin, DeliverCancelled, DeliverProcess, DeliverInject,
         ReportOutcome
<1>8. CASE UNCHANGED vars
  BY <1>0, <1>8 DEF vars
<1> HIDE DEF IInv, CancelInv
<1>9. QED
  BY <1>1, <1>2, <1>3, <1>4, <1>5, <1>6, <1>7, <1>8 DEF Next

(* While start probes the window, only the new capture publishes. *)
LEMMA ProbeStep == ASSUME IInv, [Next]_vars PROVE ProbeInv'
<1> USE DEF MaybeId, Ids, SlotInv, FreshInv, ServerInv, ReaderInv, ProbeInv,
            Alive, LifecycleFree, StartSteps, Report, Publish, Shown, Flashes
<1>0. /\ recording \in MaybeId
      /\ next_id \in 0 .. MaxRecordings
      /\ server \in [at : ServerSteps, id : MaybeId]
      /\ stage \in [Ids -> Stages]
      /\ reader \in [Ids -> ReaderStates]
      /\ auto_stopped \in [Ids -> BOOLEAN]
      /\ status \in [state : States, by : MaybeId]
      /\ SlotInv /\ FreshInv /\ ServerInv /\ ReaderInv /\ ProbeInv
  BY DEF IInv, TypeOK
<1>1. CASE Command
  BY <1>0, <1>1
     DEF Command, StartOverOverrun, StartFresh, Stop, CancelClips,
         CancelRecording, At, Waiting
<1>2. CASE ServerStep
  BY <1>0, <1>2
     DEF ServerStep, StartJoin, StartOpened, StartFailed, StartPublish,
         StartProbe, CancelJoin, CancelIdle, At, Waiting
<1>3. CASE Revert
  BY <1>0, <1>3 DEF Revert
<1>4. ASSUME NEW id \in Ids, ReaderStep(id) \/ ReaderCallback(id) PROVE ProbeInv'
  <2>1. ASSUME NEW loud \in BOOLEAN, ReaderRms(id, loud) PROVE ProbeInv'
    BY <1>0, <2>1 DEF ReaderRms, At, Waiting
  <2>2. CASE ReaderOverrun(id)
    BY <1>0, <2>2 DEF ReaderOverrun, At, Waiting
  <2>3. CASE ReaderTooLong(id)
    BY <1>0, <2>3 DEF ReaderTooLong, At, Waiting
  <2>4. CASE ReaderSilence(id)
    BY <1>0, <2>4 DEF ReaderSilence, At, Waiting
  <2>5. CASE ReaderSpawnsFinish(id)
    BY <1>0, <2>5 DEF ReaderSpawnsFinish, At, Waiting
  <2>6. CASE ReaderEof(id)
    BY <1>0, <2>6 DEF ReaderEof, At, Waiting
  <2>7. QED
    BY <1>4, <2>1, <2>2, <2>3, <2>4, <2>5, <2>6 DEF ReaderStep, ReaderCallback
<1>5. ASSUME NEW id \in Ids, FinishStep(id) PROVE ProbeInv'
  BY <1>0, <1>5 DEF FinishStep, AutoFinish, AutoFinishLate, At, Waiting
<1>6. ASSUME NEW id \in Ids, CloseStep(id) PROVE ProbeInv'
  BY <1>0, <1>6
     DEF CloseStep, CloseBegin, CloseDiscard, CloseFinish, CloseEmpty,
         CloseFull, Answer, At, Waiting
<1>7. ASSUME NEW id \in Ids, ClipStep(id) PROVE ProbeInv'
  BY <1>0, <1>7
     DEF ClipStep, TranscribeFails, FilterDrops, FilterAccepts, DeliverLock,
         DeliverBegin, DeliverCancelled, DeliverProcess, DeliverInject,
         ReportOutcome
<1>8. CASE UNCHANGED vars
  BY <1>0, <1>8 DEF vars
<1> HIDE DEF IInv, ProbeInv
<1>9. QED
  BY <1>1, <1>2, <1>3, <1>4, <1>5, <1>6, <1>7, <1>8 DEF Next

(* inject_lock is taken on the way into delivery and freed on the way out. *)
LEMMA DeliverInvStep == ASSUME IInv, [Next]_vars PROVE DeliverInv'
<1> USE DEF MaybeId, Ids, SlotInv, FreshInv, ServerInv, DeliverInv, Delivering
<1>0. /\ recording \in MaybeId
      /\ next_id \in 0 .. MaxRecordings
      /\ server \in [at : ServerSteps, id : MaybeId]
      /\ stage \in [Ids -> Stages]
      /\ outcome \in [Ids -> Outcomes]
      /\ inject_lock \in MaybeId
      /\ SlotInv /\ FreshInv /\ ServerInv /\ DeliverInv
  BY DEF IInv, TypeOK
<1>1. CASE Command
  <2>1. CASE StartOverOverrun
    BY <1>0, <2>1 DEF StartOverOverrun, At, Waiting
  <2>2. CASE StartFresh
    BY <1>0, <2>2 DEF StartFresh, At, Waiting
  <2>3. CASE Stop
    BY <1>0, <2>3 DEF Stop, At, Waiting
  <2>4. CASE CancelClips
    BY <1>0, <2>4 DEF CancelClips, At, Waiting
  <2>5. CASE CancelRecording
    BY <1>0, <2>5, SMTT(30) DEF CancelRecording, At, Waiting
  <2>6. QED
    BY <1>1, <2>1, <2>2, <2>3, <2>4, <2>5 DEF Command
<1>2. CASE ServerStep
  <2>1. CASE StartJoin
    BY <1>0, <2>1 DEF StartJoin, At, Waiting
  <2>2. CASE StartOpened
    BY <1>0, <2>2 DEF StartOpened, At, Waiting
  <2>3. CASE StartFailed
    BY <1>0, <2>3, SMTT(30) DEF StartFailed, At, Waiting
  <2>4. CASE StartPublish
    BY <1>0, <2>4 DEF StartPublish, At, Waiting
  <2>5. CASE StartProbe
    BY <1>0, <2>5 DEF StartProbe, At, Waiting
  <2>6. CASE CancelJoin
    BY <1>0, <2>6 DEF CancelJoin, At, Waiting
  <2>7. CASE CancelIdle
    BY <1>0, <2>7 DEF CancelIdle, At, Waiting
  <2>8. QED
    BY <1>2, <2>1, <2>2, <2>3, <2>4, <2>5, <2>6, <2>7 DEF ServerStep
<1>3. CASE Revert
  BY <1>0, <1>3 DEF Revert
<1>4. ASSUME NEW id \in Ids, ReaderStep(id) \/ ReaderCallback(id) PROVE DeliverInv'
  BY <1>0, <1>4
     DEF ReaderStep, ReaderCallback, ReaderRms, ReaderOverrun, ReaderTooLong,
         ReaderSilence, ReaderSpawnsFinish, ReaderEof, At, Waiting
<1>5. ASSUME NEW id \in Ids, FinishStep(id) PROVE DeliverInv'
  <2>1. CASE AutoFinish(id)
    BY <1>0, <2>1 DEF AutoFinish, At, Waiting
  <2>2. CASE AutoFinishLate(id)
    BY <1>0, <2>2 DEF AutoFinishLate, At, Waiting
  <2>3. QED
    BY <1>5, <2>1, <2>2 DEF FinishStep
<1>6. ASSUME NEW id \in Ids, CloseStep(id) PROVE DeliverInv'
  <2>1. CASE CloseBegin(id)
    BY <1>0, <2>1 DEF CloseBegin, Answer, At, Waiting
  <2>2. CASE CloseDiscard(id)
    <3>1. CASE server = At("closing", id)
      BY <1>0, <2>2, <3>1, SMTT(30) DEF CloseDiscard, Answer, At, Waiting
    <3>2. CASE ~ (server = At("closing", id))
      BY <1>0, <2>2, <3>2, SMTT(30) DEF CloseDiscard, Answer, At, Waiting
    <3>3. QED BY <3>1, <3>2
  <2>3. ASSUME NEW long \in BOOLEAN, CloseFinish(id, long) PROVE DeliverInv'
    BY <1>0, <2>3 DEF CloseFinish, Answer, At, Waiting
  <2>4. CASE CloseEmpty(id)
    <3>1. CASE server = At("closing", id)
      BY <1>0, <2>4, <3>1, SMTT(30) DEF CloseEmpty, Answer, At, Waiting
    <3>2. CASE ~ (server = At("closing", id))
      BY <1>0, <2>4, <3>2, SMTT(30) DEF CloseEmpty, Answer, At, Waiting
    <3>3. QED BY <3>1, <3>2
  <2>5. CASE CloseFull(id)
    <3>1. CASE server = At("closing", id)
      BY <1>0, <2>5, <3>1, SMTT(30) DEF CloseFull, Answer, At, Waiting
    <3>2. CASE ~ (server = At("closing", id))
      BY <1>0, <2>5, <3>2, SMTT(30) DEF CloseFull, Answer, At, Waiting
    <3>3. QED BY <3>1, <3>2
  <2>6. QED
    BY <1>6, <2>1, <2>2, <2>3, <2>4, <2>5 DEF CloseStep
<1>7. ASSUME NEW id \in Ids, ClipStep(id) PROVE DeliverInv'
  <2>1. CASE TranscribeFails(id)
    BY <1>0, <2>1 DEF TranscribeFails
  <2>2. CASE FilterDrops(id)
    BY <1>0, <2>2 DEF FilterDrops
  <2>3. CASE FilterAccepts(id)
    BY <1>0, <2>3 DEF FilterAccepts
  <2>4. CASE DeliverLock(id)
    BY <1>0, <2>4 DEF DeliverLock
  <2>5. CASE DeliverBegin(id)
    BY <1>0, <2>5 DEF DeliverBegin
  <2>6. CASE DeliverCancelled(id)
    BY <1>0, <2>6 DEF DeliverCancelled
  <2>7. CASE DeliverProcess(id)
    BY <1>0, <2>7 DEF DeliverProcess
  <2>8. ASSUME NEW ok \in BOOLEAN, DeliverInject(id, ok) PROVE DeliverInv'
    <3>1. CASE ok
      BY <1>0, <2>8, <3>1 DEF DeliverInject
    <3>2. CASE ~ ok
      BY <1>0, <2>8, <3>2 DEF DeliverInject
    <3>3. QED BY <3>1, <3>2
  <2>9. CASE ReportOutcome(id)
    BY <1>0, <2>9 DEF ReportOutcome
  <2>10. QED
    BY <1>7, <2>1, <2>2, <2>3, <2>4, <2>5, <2>6, <2>7, <2>8, <2>9 DEF ClipStep
<1>8. CASE UNCHANGED vars
  BY <1>0, <1>8 DEF vars
<1> HIDE DEF IInv, DeliverInv
<1>9. QED
  BY <1>1, <1>2, <1>3, <1>4, <1>5, <1>6, <1>7, <1>8 DEF Next

(* Everything that publishes while a recording is live is that recording. *)
LEMMA ShownStep == ASSUME IInv, [Next]_vars PROVE LiveRecordingShown'
<1> USE DEF MaybeId, Ids, SlotInv, FreshInv, ServerInv, ReaderInv, ProbeInv,
            Alive, LiveRecordingShown, IsRecording, LifecycleFree, StartSteps,
            Report, Publish, Shown, Flashes
<1>0. /\ recording \in MaybeId
      /\ next_id \in 0 .. MaxRecordings
      /\ server \in [at : ServerSteps, id : MaybeId]
      /\ stage \in [Ids -> Stages]
      /\ reader \in [Ids -> ReaderStates]
      /\ auto_stopped \in [Ids -> BOOLEAN]
      /\ status \in [state : States, by : MaybeId]
      /\ SlotInv /\ FreshInv /\ ServerInv /\ ReaderInv /\ ProbeInv /\ LiveRecordingShown
  BY DEF IInv, TypeOK
<1>1. CASE Command
  BY <1>0, <1>1
     DEF Command, StartOverOverrun, StartFresh, Stop, CancelClips,
         CancelRecording, At, Waiting
<1>2. CASE ServerStep
  BY <1>0, <1>2
     DEF ServerStep, StartJoin, StartOpened, StartFailed, StartPublish,
         StartProbe, CancelJoin, CancelIdle, At, Waiting
<1>3. CASE Revert
  BY <1>0, <1>3 DEF Revert
<1>4. ASSUME NEW id \in Ids, ReaderStep(id) \/ ReaderCallback(id) PROVE LiveRecordingShown'
  <2>1. ASSUME NEW loud \in BOOLEAN, ReaderRms(id, loud) PROVE LiveRecordingShown'
    BY <1>0, <2>1 DEF ReaderRms, At, Waiting
  <2>2. CASE ReaderOverrun(id)
    BY <1>0, <2>2 DEF ReaderOverrun, At, Waiting
  <2>3. CASE ReaderTooLong(id)
    BY <1>0, <2>3 DEF ReaderTooLong, At, Waiting
  <2>4. CASE ReaderSilence(id)
    BY <1>0, <2>4 DEF ReaderSilence, At, Waiting
  <2>5. CASE ReaderSpawnsFinish(id)
    BY <1>0, <2>5 DEF ReaderSpawnsFinish, At, Waiting
  <2>6. CASE ReaderEof(id)
    BY <1>0, <2>6 DEF ReaderEof, At, Waiting
  <2>7. QED
    BY <1>4, <2>1, <2>2, <2>3, <2>4, <2>5, <2>6 DEF ReaderStep, ReaderCallback
<1>5. ASSUME NEW id \in Ids, FinishStep(id) PROVE LiveRecordingShown'
  BY <1>0, <1>5 DEF FinishStep, AutoFinish, AutoFinishLate, At, Waiting
<1>6. ASSUME NEW id \in Ids, CloseStep(id) PROVE LiveRecordingShown'
  BY <1>0, <1>6
     DEF CloseStep, CloseBegin, CloseDiscard, CloseFinish, CloseEmpty,
         CloseFull, Answer, At, Waiting
<1>7. ASSUME NEW id \in Ids, ClipStep(id) PROVE LiveRecordingShown'
  BY <1>0, <1>7
     DEF ClipStep, TranscribeFails, FilterDrops, FilterAccepts, DeliverLock,
         DeliverBegin, DeliverCancelled, DeliverProcess, DeliverInject,
         ReportOutcome
<1>8. CASE UNCHANGED vars
  BY <1>0, <1>8 DEF vars
<1> HIDE DEF IInv, LiveRecordingShown
<1>9. QED
  BY <1>1, <1>2, <1>3, <1>4, <1>5, <1>6, <1>7, <1>8 DEF Next

(* Whoever publishes is not cancelled, or a cancel is about to publish idle. *)
LEMMA CancelledStep == ASSUME IInv, [Next]_vars PROVE CancelledNotShown'
<1> USE DEF MaybeId, Ids, SlotInv, FreshInv, ServerInv, ReaderInv, CancelInv,
            CancelledNotShown, Cancelled, Alive, LifecycleFree, StartSteps,
            ServerSteps, Report, Publish, Shown, Flashes
<1>0. /\ recording \in MaybeId
      /\ next_id \in 0 .. MaxRecordings
      /\ server \in [at : ServerSteps, id : MaybeId]
      /\ stage \in [Ids -> Stages]
      /\ reader \in [Ids -> ReaderStates]
      /\ cancelled_below \in 0 .. next_id
      /\ status \in [state : States, by : MaybeId]
      /\ SlotInv /\ FreshInv /\ ServerInv /\ ReaderInv /\ CancelInv /\ CancelledNotShown
  BY DEF IInv, TypeOK
<1>1. CASE Command
  BY <1>0, <1>1
     DEF Command, StartOverOverrun, StartFresh, Stop, CancelClips,
         CancelRecording, At, Waiting
<1>2. CASE ServerStep
  BY <1>0, <1>2
     DEF ServerStep, StartJoin, StartOpened, StartFailed, StartPublish,
         StartProbe, CancelJoin, CancelIdle, At, Waiting
<1>3. CASE Revert
  BY <1>0, <1>3 DEF Revert
<1>4. ASSUME NEW id \in Ids, ReaderStep(id) \/ ReaderCallback(id) PROVE CancelledNotShown'
  <2>1. ASSUME NEW loud \in BOOLEAN, ReaderRms(id, loud) PROVE CancelledNotShown'
    BY <1>0, <2>1 DEF ReaderRms, At, Waiting
  <2>2. CASE ReaderOverrun(id)
    BY <1>0, <2>2 DEF ReaderOverrun, At, Waiting
  <2>3. CASE ReaderTooLong(id)
    BY <1>0, <2>3 DEF ReaderTooLong, At, Waiting
  <2>4. CASE ReaderSilence(id)
    BY <1>0, <2>4 DEF ReaderSilence, At, Waiting
  <2>5. CASE ReaderSpawnsFinish(id)
    BY <1>0, <2>5 DEF ReaderSpawnsFinish, At, Waiting
  <2>6. CASE ReaderEof(id)
    BY <1>0, <2>6 DEF ReaderEof, At, Waiting
  <2>7. QED
    BY <1>4, <2>1, <2>2, <2>3, <2>4, <2>5, <2>6 DEF ReaderStep, ReaderCallback
<1>5. ASSUME NEW id \in Ids, FinishStep(id) PROVE CancelledNotShown'
  BY <1>0, <1>5 DEF FinishStep, AutoFinish, AutoFinishLate, At, Waiting
<1>6. ASSUME NEW id \in Ids, CloseStep(id) PROVE CancelledNotShown'
  BY <1>0, <1>6
     DEF CloseStep, CloseBegin, CloseDiscard, CloseFinish, CloseEmpty,
         CloseFull, Answer, At, Waiting
<1>7. ASSUME NEW id \in Ids, ClipStep(id) PROVE CancelledNotShown'
  BY <1>0, <1>7
     DEF ClipStep, TranscribeFails, FilterDrops, FilterAccepts, DeliverLock,
         DeliverBegin, DeliverCancelled, DeliverProcess, DeliverInject,
         ReportOutcome
<1>8. CASE UNCHANGED vars
  BY <1>0, <1>8 DEF vars
<1> HIDE DEF IInv, CancelledNotShown
<1>9. QED
  BY <1>1, <1>2, <1>3, <1>4, <1>5, <1>6, <1>7, <1>8 DEF Next

(* Whoever shows something is not over without having taken it off. *)
LEMMA RestStep == ASSUME IInv, [Next]_vars PROVE RestInv'
<1> USE DEF MaybeId, Ids, SlotInv, FreshInv, ServerInv, ReaderInv, CancelInv,
            CancelledNotShown, LiveRecordingShown, RestInv, Cancelling,
            IsRecording, Cancelled, Alive, LifecycleFree, StartSteps,
            ServerSteps, Report, Publish, Shown, Flashes
<1>0. /\ recording \in MaybeId
      /\ next_id \in 0 .. MaxRecordings
      /\ server \in [at : ServerSteps, id : MaybeId]
      /\ stage \in [Ids -> Stages]
      /\ reader \in [Ids -> ReaderStates]
      /\ cancelled_below \in 0 .. next_id
      /\ status \in [state : States, by : MaybeId]
      /\ SlotInv /\ FreshInv /\ ServerInv /\ ReaderInv /\ CancelInv /\ CancelledNotShown
      /\ LiveRecordingShown /\ RestInv /\ auto_stopped \in [Ids -> BOOLEAN]
  BY DEF IInv, TypeOK
<1>1. CASE Command
  BY <1>0, <1>1
     DEF Command, StartOverOverrun, StartFresh, Stop, CancelClips,
         CancelRecording, At, Waiting
<1>2. CASE ServerStep
  BY <1>0, <1>2
     DEF ServerStep, StartJoin, StartOpened, StartFailed, StartPublish,
         StartProbe, CancelJoin, CancelIdle, At, Waiting
<1>3. CASE Revert
  BY <1>0, <1>3 DEF Revert
<1>4. ASSUME NEW id \in Ids, ReaderStep(id) \/ ReaderCallback(id) PROVE RestInv'
  <2>1. ASSUME NEW loud \in BOOLEAN, ReaderRms(id, loud) PROVE RestInv'
    BY <1>0, <2>1 DEF ReaderRms, At, Waiting
  <2>2. CASE ReaderOverrun(id)
    BY <1>0, <2>2 DEF ReaderOverrun, At, Waiting
  <2>3. CASE ReaderTooLong(id)
    BY <1>0, <2>3 DEF ReaderTooLong, At, Waiting
  <2>4. CASE ReaderSilence(id)
    BY <1>0, <2>4 DEF ReaderSilence, At, Waiting
  <2>5. CASE ReaderSpawnsFinish(id)
    BY <1>0, <2>5 DEF ReaderSpawnsFinish, At, Waiting
  <2>6. CASE ReaderEof(id)
    BY <1>0, <2>6 DEF ReaderEof, At, Waiting
  <2>7. QED
    BY <1>4, <2>1, <2>2, <2>3, <2>4, <2>5, <2>6 DEF ReaderStep, ReaderCallback
<1>5. ASSUME NEW id \in Ids, FinishStep(id) PROVE RestInv'
  BY <1>0, <1>5 DEF FinishStep, AutoFinish, AutoFinishLate, At, Waiting
<1>6. ASSUME NEW id \in Ids, CloseStep(id) PROVE RestInv'
  BY <1>0, <1>6
     DEF CloseStep, CloseBegin, CloseDiscard, CloseFinish, CloseEmpty,
         CloseFull, Answer, At, Waiting
<1>7. ASSUME NEW id \in Ids, ClipStep(id) PROVE RestInv'
  BY <1>0, <1>7
     DEF ClipStep, TranscribeFails, FilterDrops, FilterAccepts, DeliverLock,
         DeliverBegin, DeliverCancelled, DeliverProcess, DeliverInject,
         ReportOutcome
<1>8. CASE UNCHANGED vars
  BY <1>0, <1>8 DEF vars
<1> HIDE DEF IInv, RestInv
<1>9. QED
  BY <1>1, <1>2, <1>3, <1>4, <1>5, <1>6, <1>7, <1>8 DEF Next

(* A clip is pasted only by the step that gives it its outcome, and has none
   before it. *)
LEMMA PastedStep == ASSUME IInv, [Next]_vars PROVE PastedOnce'
<1> USE DEF IInv, TypeOK, MaybeId, Ids, DeliverInv, PastedOnce
<1>1. CASE UNCHANGED << outcome, pasted >>
  BY <1>1
<1>2. ASSUME NEW id \in Ids, stage[id] # "ended", stage[id] # "over",
             NEW new \in Outcomes \ {"none", "delivered"},
             outcome' = [outcome EXCEPT ![id] = new], UNCHANGED pasted
      PROVE  PastedOnce'
  <2>1. outcome[id] = "none" /\ \A i \in DOMAIN pasted : pasted[i] # id
    BY <1>2
  <2> QED BY <1>2, <2>1 DEF Outcomes
<1>3. ASSUME NEW id \in Ids, NEW ok \in BOOLEAN, DeliverInject(id, ok)
      PROVE  PastedOnce'
  <2>1. outcome[id] = "none" /\ \A i \in DOMAIN pasted : pasted[i] # id
    BY <1>3 DEF DeliverInject
  <2>2. /\ outcome' = [outcome EXCEPT ![id] = IF ok THEN "delivered" ELSE "inject_error"]
        /\ pasted' = Append(pasted, id) \/ (~ ok /\ pasted' = pasted)
    BY <1>3 DEF DeliverInject, Injected
  <2>3. CASE ~ ok /\ pasted' = pasted
    BY <1>2, <1>3, <2>2, <2>3 DEF DeliverInject, Outcomes
  <2>4. CASE pasted' = Append(pasted, id)
    <3>1. /\ outcome'[id] \in {"delivered", "inject_error"}
          /\ \A other \in Ids \ {id} : outcome'[other] = outcome[other]
      BY <2>2
    <3>2. /\ DOMAIN pasted' = DOMAIN pasted \cup {Len(pasted) + 1}
          /\ \A i \in DOMAIN pasted : pasted'[i] = pasted[i] /\ pasted[i] \in Ids
          /\ pasted'[Len(pasted) + 1] = id
          /\ Len(pasted) + 1 \notin DOMAIN pasted
      BY <2>4
    <3>3. \A i, j \in DOMAIN pasted' : pasted'[i] = pasted'[j] => i = j
      BY <2>1, <3>2
    <3>4. \A other \in Ids :
            outcome'[other] = "delivered" => \E i \in DOMAIN pasted' : pasted'[i] = other
      BY <2>1, <3>1, <3>2
    <3>5. \A i \in DOMAIN pasted' : outcome'[pasted'[i]] \in {"delivered", "inject_error"}
      BY <2>1, <3>1, <3>2
    <3> QED BY <3>3, <3>4, <3>5
  <2> QED BY <2>2, <2>3, <2>4
<1>4. CASE Command \/ ServerStep \/ Revert
  BY <1>1, <1>4 DEF Command, StartOverOverrun, StartFresh, Stop, CancelClips,
     CancelRecording, ServerStep, StartJoin, StartOpened, StartFailed,
     StartPublish, StartProbe, CancelJoin, CancelIdle, Revert
<1>5. ASSUME NEW id \in Ids, ReaderStep(id) \/ ReaderCallback(id) \/ FinishStep(id)
      PROVE  PastedOnce'
  BY <1>1, <1>5 DEF ReaderStep, ReaderCallback, ReaderRms, ReaderOverrun,
     ReaderTooLong, ReaderSilence, ReaderSpawnsFinish, ReaderEof, FinishStep,
     AutoFinish, AutoFinishLate
<1>6. ASSUME NEW id \in Ids, CloseStep(id) PROVE PastedOnce'
  BY <1>1, <1>6 DEF CloseStep, CloseBegin, CloseDiscard, CloseFinish, CloseEmpty,
     CloseFull
<1>7. ASSUME NEW id \in Ids, ClipStep(id) PROVE PastedOnce'
  <2>1. CASE TranscribeFails(id)
    BY <1>2, <2>1 DEF TranscribeFails, Outcomes
  <2>2. CASE FilterDrops(id)
    BY <1>2, <2>2 DEF FilterDrops, Outcomes
  <2>3. CASE FilterAccepts(id) \/ DeliverLock(id) \/ DeliverBegin(id)
             \/ DeliverProcess(id) \/ ReportOutcome(id)
    BY <1>1, <2>3 DEF FilterAccepts, DeliverLock, DeliverBegin, DeliverProcess,
       ReportOutcome
  <2>4. CASE DeliverCancelled(id)
    BY <1>2, <2>4 DEF DeliverCancelled, Outcomes
  <2> QED BY <1>3, <1>7, <2>1, <2>2, <2>3, <2>4 DEF ClipStep
<1>8. CASE UNCHANGED vars
  BY <1>1, <1>8 DEF vars
<1> HIDE DEF IInv, PastedOnce
<1> QED
  BY <1>4, <1>5, <1>6, <1>7, <1>8 DEF Next

-----------------------------------------------------------------------------
(* The initial state satisfies the inductive invariant. *)
LEMMA InitIInv == Init => IInv
<1> SUFFICES ASSUME Init PROVE IInv
  OBVIOUS
<1> USE DEF Init, Shown, Flashes, Waiting, At, MaybeId, Ids
<1>1. TypeOK
  BY DEF TypeOK, ServerSteps, StartSteps, ReaderStates, Stages, Outcomes, States
<1>2. SlotInv /\ FreshInv /\ ServerInv
  BY DEF SlotInv, FreshInv, ServerInv
<1>3. ReaderInv /\ CancelInv /\ ProbeInv /\ DeliverInv
  BY DEF ReaderInv, Alive, CancelInv, Cancelled, ProbeInv, DeliverInv, Delivering
<1>5. RestInv
  BY DEF RestInv
<1>4. LiveRecordingShown /\ CancelledNotShown /\ PastedOnce
  BY DEF LiveRecordingShown, IsRecording, CancelledNotShown, PastedOnce
<1> QED BY <1>1, <1>2, <1>3, <1>4, <1>5 DEF IInv

(* No step of any thread leaves it. *)
LEMMA NextIInv == IInv /\ [Next]_vars => IInv'
<1> SUFFICES ASSUME IInv, [Next]_vars PROVE IInv'
  OBVIOUS
<1> QED
  BY TypeStep, SlotStep, FreshStep, ServerInvStep, ReaderInvStep, CancelInvStep,
     ProbeStep, DeliverInvStep, RestStep, ShownStep, CancelledStep, PastedStep DEF IInv

(* The inductive invariant holds in every reachable state. *)
THEOREM Inductive == Spec => []IInv
  BY InitIInv, NextIInv, PTL DEF Spec

(* The state keeps its types: Session.TypeOK. *)
THEOREM TypeCorrect == Spec => []TypeOK
<1>1. IInv => TypeOK
  BY DEF IInv
<1> QED BY <1>1, Inductive, PTL

(* "Only one capture is live at a time": the reader of the recording in the slot
   and the one the socket thread is joining or opening are never both running,
   since the slot is filled only while the socket thread is idle. *)
THEOREM OneMicrophoneAtATime == Spec => []OneMicrophone
<1>1. IInv => OneMicrophone
  BY NoIdAssumption DEF IInv, TypeOK, SlotInv, ServerInv, ReaderInv, OneMicrophone,
     Waiting, At, Ids, MaybeId
<1> QED BY <1>1, Inductive, PTL

(* While a recording is capturing, what is published is that recording. *)
THEOREM LiveRecordingIsShown == Spec => []LiveRecordingShown
<1>1. IInv => LiveRecordingShown
  BY DEF IInv
<1> QED BY <1>1, Inductive, PTL

(* Post-processing and paste of two clips never overlap. *)
THEOREM OneDeliveryAtATime == Spec => []OneDelivery
<1>1. IInv => OneDelivery
  BY DEF IInv, DeliverInv, OneDelivery
<1> QED BY <1>1, Inductive, PTL

(* A clip is pasted at most once, even when its injection failed after it took effect;
   a delivered clip has been pasted, and no other is but one whose injection failed. *)
THEOREM ClipPastedOnce == Spec => []PastedOnce
<1>1. IInv => PastedOnce
  BY DEF IInv
<1> QED BY <1>1, Inductive, PTL

(* Once cancel has answered, nothing it cancelled is ever shown. *)
THEOREM CancelledIsNotShown == Spec => []CancelledNotShown
<1>1. IInv => CancelledNotShown
  BY DEF IInv
<1> QED BY <1>1, Inductive, PTL

(* At rest the published state is idle again, except after an overrun before start
   had published: nothing ends with its own report held back but the recording a
   newer one, or a cancel, has replaced on display. *)
THEOREM RestIsIdle == Spec => []RestShowsIdle
<1>1. IInv => RestShowsIdle
  BY DEF IInv, TypeOK, RestInv, RestShowsIdle, AtRest, Cancelling, Waiting, At,
     States, Flashes
<1> QED BY <1>1, Inductive, PTL

(* A late auto-finish never ends a newer recording. *)
THEOREM OnlyOwnSilence == Spec => OnlyOwnSilenceEnds
<1>1. IInv /\ [Next]_vars =>
        [recording # NoId /\ recording' # recording =>
           server' # server \/ auto'[recording] # auto[recording]]_vars
  <2> SUFFICES ASSUME IInv, Next, recording # NoId, recording' # recording
               PROVE  server' # server \/ auto'[recording] # auto[recording]
    BY DEF vars
  <2> USE DEF IInv, TypeOK, MaybeId, Ids, Waiting, At
  <2>1. CASE Command
    BY <2>1 DEF Command, StartOverOverrun, StartFresh, Stop, CancelClips,
       CancelRecording
  <2>2. CASE ServerStep \/ Revert
    BY <2>2 DEF ServerStep, StartJoin, StartOpened, StartFailed, StartPublish,
       StartProbe, CancelJoin, CancelIdle, Revert, lifecycle, SlotInv
  <2>3. ASSUME NEW id \in Ids, FinishStep(id)
        PROVE  auto'[recording] # auto[recording]
    BY <2>3 DEF FinishStep, AutoFinish, AutoFinishLate, lifecycle
  <2>4. ASSUME NEW id \in Ids, ReaderStep(id) \/ ReaderCallback(id)
        PROVE  FALSE
    BY <2>4 DEF ReaderStep, ReaderCallback, ReaderRms, ReaderOverrun,
       ReaderTooLong, ReaderSilence, ReaderSpawnsFinish, ReaderEof, lifecycle
  <2>5. ASSUME NEW id \in Ids, CloseStep(id) \/ ClipStep(id)
        PROVE  FALSE
    BY <2>5 DEF CloseStep, CloseBegin, CloseDiscard, CloseFinish, CloseEmpty,
       CloseFull, ClipStep, TranscribeFails, FilterDrops, FilterAccepts,
       DeliverLock, DeliverBegin, DeliverCancelled, DeliverProcess,
       DeliverInject, ReportOutcome, lifecycle
  <2> QED BY <2>1, <2>2, <2>3, <2>4, <2>5 DEF Next
<1> QED BY <1>1, Inductive, PTL DEF Spec, OnlyOwnSilenceEnds

-----------------------------------------------------------------------------
(* The session keeps the promise of Dictation, for every number of recordings: each of
   its steps is one step of Dictation or none, with Session.Fate as the refinement
   mapping and Session.IInv as the invariant.  What Dictation promises then holds of
   the session.  What Dictation sees of it: *)
Fates == [id \in Ids |-> Fate(id)]
Seen == << Fates, pasted >>

(* A step that leaves stages, outcomes, cancels and pastes alone is not seen. *)
LEMMA Unseen ==
  ASSUME UNCHANGED << stage, cancelled_below, outcome, pasted >>
  PROVE  UNCHANGED Seen
BY DEF Seen, Fates, Fate

(* A step of one recording changes the fate of that one at most. *)
LEMMA OthersKeepTheirFate ==
  ASSUME IInv, NEW id \in Ids, NEW s, NEW o, UNCHANGED cancelled_below,
         stage' = [stage EXCEPT ![id] = s], outcome' = [outcome EXCEPT ![id] = o]
  PROVE  /\ stage'[id] = s /\ outcome'[id] = o
         /\ \A j \in Ids \ {id} : Fate(j)' = Fate(j)
<1>1. stage \in [Ids -> Stages] /\ outcome \in [Ids -> Outcomes]
  BY DEF IInv, TypeOK
<1>2. \A j \in Ids \ {id} : stage'[j] = stage[j] /\ outcome'[j] = outcome[j]
  BY <1>1
<1>3. stage'[id] = s /\ outcome'[id] = o
  BY <1>1
<1> QED
  BY <1>2, <1>3 DEF Fate

LEMMA OneMoves ==
  ASSUME IInv, NEW id \in Ids, NEW s, UNCHANGED << cancelled_below, outcome >>,
         stage' = [stage EXCEPT ![id] = s]
  PROVE  /\ stage'[id] = s
         /\ \A j \in Ids \ {id} : Fate(j)' = Fate(j)
<1>1. outcome' = [outcome EXCEPT ![id] = outcome[id]]
  BY DEF IInv, TypeOK
<1> QED
  BY <1>1, OthersKeepTheirFate

(* What has not ended has no outcome. *)
LEMMA NoOutcomeYet ==
  ASSUME IInv, NEW id \in Ids, stage[id] \notin {"ended", "over"}
  PROVE  outcome[id] = "none"
BY DEF IInv, TypeOK, DeliverInv, Outcomes

(* The fate of one recording changes. *)
LEMMA OneBecomes ==
  ASSUME NEW id \in Ids, NEW new, Fate(id)' = new,
         \A j \in Ids \ {id} : Fate(j)' = Fate(j)
  PROVE  Promise!Becomes(id, new)
BY DEF Promise!Becomes, Ids

(* One recording moves to a stage that means the same. *)
LEMMA SameFate ==
  ASSUME NEW id \in Ids, Fate(id)' = Fate(id), \A j \in Ids \ {id} : Fate(j)' = Fate(j),
         pasted' = pasted
  PROVE  UNCHANGED Seen
BY DEF Seen, Fates, Ids

(* One recording is lost, or was already. *)
LEMMA LostOrGone ==
  ASSUME NEW id \in Ids, Fate(id) \in {"recording", "clip", "gone"},
         Fate(id)' = "gone", \A j \in Ids \ {id} : Fate(j)' = Fate(j), pasted' = pasted
  PROVE  Promise!Next \/ UNCHANGED Seen
<1>1. CASE Fate(id) = "gone"
  BY <1>1, SameFate
<1>2. CASE Fate(id) # "gone"
  <2>1. Promise!Lose(id)
    BY <1>2, OneBecomes DEF Promise!Lose
  <2> QED BY <2>1 DEF Promise!Next
<1> QED
  BY <1>1, <1>2

-----------------------------------------------------------------------------
(* Each group of actions, seen as Dictation sees it.                       *)

(* A cancel takes at one instant what has not begun to be delivered. *)
LEMMA CancelSeen ==
  ASSUME IInv, CancelClips \/ CancelRecording PROVE Promise!Cancel
<1>0. /\ recording \in MaybeId /\ next_id \in 0 .. MaxRecordings
      /\ server \in [at : ServerSteps, id : MaybeId] /\ stage \in [Ids -> Stages]
      /\ cancelled_below \in 0 .. next_id
      /\ SlotInv /\ FreshInv /\ ServerInv /\ CancelInv
  BY DEF IInv, TypeOK
<1>1. ASSUME NEW id \in Ids, cancelled_below' = next_id, stage'[id] = stage[id],
             outcome' = outcome, recording # id, server = Waiting
      PROVE  Fate(id)' = IF Fate(id) \in {"recording", "clip"} THEN "gone" ELSE Fate(id)
  <2>1. stage[id] \notin {"opening", "held"}
    BY <1>0, <1>1 DEF SlotInv, ServerInv, Waiting, At, Ids, MaybeId
  <2>2. CASE stage[id] = "unused"
    BY <1>1, <2>2 DEF Fate
  <2>3. CASE stage[id] # "unused"
    <3>1. id < next_id /\ id < cancelled_below'
      BY <1>0, <1>1, <2>3 DEF FreshInv, Ids
    <3> QED BY <1>1, <2>1, <2>3, <3>1 DEF Fate
  <2> QED BY <2>2, <2>3
<1>2. CASE CancelClips
  <2>1. \A id \in Ids :
          Fate(id)' = IF Fate(id) \in {"recording", "clip"} THEN "gone" ELSE Fate(id)
    BY <1>0, <1>1, <1>2 DEF CancelClips, Ids
  <2> QED BY <1>2, <2>1 DEF Promise!Cancel, CancelClips
<1>3. CASE CancelRecording
  <2>1. PICK held \in Ids : held = recording
    BY <1>0, <1>3 DEF CancelRecording, MaybeId
  <2>2. stage[held] = "held" /\ stage' = [stage EXCEPT ![held] = "discarding"]
        /\ UNCHANGED << outcome, pasted >> /\ cancelled_below' = next_id /\ server = Waiting
    BY <1>0, <1>3, <2>1 DEF CancelRecording, SlotInv
  <2>3. stage'[held] = "discarding" /\ \A id \in Ids \ {held} : stage'[id] = stage[id]
    BY <1>0, <2>2
  <2>4. outcome'[held] = "none"
    BY <2>2, NoOutcomeYet
  <2>5. Fate(held) = "recording" /\ Fate(held)' = "gone"
    BY <2>2, <2>3, <2>4 DEF Fate
  <2>6. \A id \in Ids :
          Fate(id)' = IF Fate(id) \in {"recording", "clip"} THEN "gone" ELSE Fate(id)
    BY <1>1, <2>1, <2>2, <2>3, <2>5
  <2> QED BY <2>2, <2>6 DEF Promise!Cancel
<1> QED
  BY <1>2, <1>3

LEMMA CommandSeen == ASSUME IInv, Command PROVE Promise!Next \/ UNCHANGED Seen
<1>0. /\ recording \in MaybeId /\ next_id \in 0 .. MaxRecordings
      /\ server \in [at : ServerSteps, id : MaybeId] /\ stage \in [Ids -> Stages]
      /\ cancelled_below \in 0 .. next_id
      /\ SlotInv /\ FreshInv /\ ServerInv /\ CancelInv
  BY DEF IInv, TypeOK
<1>1. ASSUME NEW id \in Ids, stage[id] = "held", stage' = [stage EXCEPT ![id] = "discarding"],
             UNCHANGED << cancelled_below, outcome, pasted >>
      PROVE  Promise!Next \/ UNCHANGED Seen
  <2>1. stage'[id] = "discarding" /\ \A j \in Ids \ {id} : Fate(j)' = Fate(j)
    BY <1>1, OneMoves
  <2>2. outcome'[id] = "none"
    BY <1>1, NoOutcomeYet
  <2>3. Fate(id) = "recording" /\ Fate(id)' = "gone"
    BY <1>1, <2>1, <2>2 DEF Fate
  <2> QED BY <1>1, <2>1, <2>3, LostOrGone
<1>2. CASE StartOverOverrun
  BY <1>0, <1>1, <1>2 DEF StartOverOverrun, SlotInv, MaybeId
<1>3. CASE StartFresh
  BY <1>3, Unseen DEF StartFresh
<1>4. CASE Stop
  <2>1. PICK id \in Ids : id = recording
    BY <1>0, <1>4 DEF Stop, MaybeId
  <2>2. /\ stage[id] = "held" /\ stage' = [stage EXCEPT ![id] = "taken"]
        /\ UNCHANGED << cancelled_below, outcome, pasted >>
    BY <1>0, <1>4, <2>1 DEF Stop, SlotInv
  <2>3. stage'[id] = "taken" /\ \A j \in Ids \ {id} : Fate(j)' = Fate(j)
    BY <2>2, OneMoves
  <2>4. ~(id < cancelled_below)
    BY <1>0, <2>2 DEF CancelInv, Ids
  <2>5. Fate(id) = "recording" /\ Fate(id)' = "clip"
    BY <2>2, <2>3, <2>4 DEF Fate
  <2>6. Promise!Finish(id)
    BY <2>2, <2>3, <2>5, OneBecomes DEF Promise!Finish
  <2> QED BY <2>6 DEF Promise!Next
<1>5. CASE CancelClips \/ CancelRecording
  BY <1>5, CancelSeen DEF Promise!Next
<1> QED
  BY <1>2, <1>3, <1>4, <1>5 DEF Command

LEMMA ServerStepSeen == ASSUME IInv, ServerStep PROVE Promise!Next \/ UNCHANGED Seen
<1>0. /\ recording \in MaybeId /\ next_id \in 0 .. MaxRecordings
      /\ server \in [at : ServerSteps, id : MaybeId] /\ stage \in [Ids -> Stages]
      /\ cancelled_below \in 0 .. next_id
      /\ SlotInv /\ FreshInv /\ ServerInv /\ CancelInv
  BY DEF IInv, TypeOK
<1>1. ASSUME NEW s \in {"opening", "over"}, server.at = "start_open",
             stage' = [stage EXCEPT ![next_id] = s],
             UNCHANGED << cancelled_below, outcome, pasted >>
      PROVE  Promise!Next
  <2>1. PICK id \in Ids : id = next_id
    BY <1>0, <1>1 DEF ServerInv, Ids
  <2>2. stage[id] = "unused"
    BY <1>0, <2>1 DEF FreshInv, Ids
  <2>3. stage'[id] = s /\ \A j \in Ids \ {id} : Fate(j)' = Fate(j)
    BY <1>1, <2>1, OneMoves
  <2>4. outcome'[id] = "none"
    BY <1>1, <2>2, NoOutcomeYet
  <2>5. Fate(id) = "unused" /\ Fate(id)' \in {"recording", "gone"}
    BY <2>2, <2>3, <2>4 DEF Fate
  <2>6. \A j \in Ids : Fate(j) # "recording"
    <3>1. \A j \in Ids : stage[j] \notin {"opening", "held"}
      BY <1>0, <1>1 DEF SlotInv, ServerInv, Waiting, At, Ids, MaybeId
    <3> QED BY <3>1 DEF Fate
  <2>7. \A j \in Ids : j < id => Fate(j) # "unused"
    <3>1. \A j \in Ids : j < id => stage[j] # "unused"
      BY <1>0, <2>1 DEF FreshInv, Ids
    <3> QED BY <3>1 DEF Fate
  <2>8. Promise!Begin(id)
    BY <1>1, <2>3, <2>5, <2>6, <2>7, OneBecomes DEF Promise!Begin
  <2> QED BY <2>8 DEF Promise!Next
<1>2. CASE StartOpened
  BY <1>1, <1>2 DEF StartOpened
<1>3. CASE StartFailed
  BY <1>1, <1>3 DEF StartFailed
<1>4. CASE StartJoin \/ CancelJoin
  <2>1. PICK id \in Ids : /\ stage[id] = "discarding" /\ stage' = [stage EXCEPT ![id] = "over"]
                          /\ UNCHANGED << cancelled_below, outcome, pasted >>
    BY <1>0, <1>4 DEF StartJoin, CancelJoin, ServerInv
  <2>2. stage'[id] = "over" /\ \A j \in Ids \ {id} : Fate(j)' = Fate(j)
    BY <2>1, OneMoves
  <2>3. outcome[id] = "none"
    BY <2>1, NoOutcomeYet
  <2>4. Fate(id)' = Fate(id)
    BY <2>1, <2>2, <2>3 DEF Fate
  <2> QED BY <2>1, <2>2, <2>4, SameFate
<1>5. CASE StartPublish \/ CancelIdle
  BY <1>5, Unseen DEF StartPublish, CancelIdle
<1>6. CASE StartProbe
  <2>1. PICK id \in Ids : /\ stage[id] = "opening" /\ stage' = [stage EXCEPT ![id] = "held"]
                          /\ UNCHANGED << cancelled_below, outcome, pasted >>
    BY <1>0, <1>6 DEF StartProbe, ServerInv
  <2>2. stage'[id] = "held" /\ \A j \in Ids \ {id} : Fate(j)' = Fate(j)
    BY <2>1, OneMoves
  <2>3. Fate(id)' = Fate(id)
    BY <2>1, <2>2 DEF Fate
  <2> QED BY <2>1, <2>2, <2>3, SameFate
<1> QED
  BY <1>2, <1>3, <1>4, <1>5, <1>6 DEF ServerStep

LEMMA FinishSeen ==
  ASSUME IInv, NEW id \in Ids, FinishStep(id) PROVE Promise!Next \/ UNCHANGED Seen
<1>1. CASE AutoFinish(id)
  <2>1. /\ stage[id] = "held" /\ stage' = [stage EXCEPT ![id] = "taken"]
        /\ UNCHANGED << cancelled_below, outcome, pasted >>
    BY <1>1 DEF AutoFinish, IInv, SlotInv
  <2>2. stage'[id] = "taken" /\ \A j \in Ids \ {id} : Fate(j)' = Fate(j)
    BY <2>1, OneMoves
  <2>3. ~(id < cancelled_below)
    BY <2>1 DEF IInv, TypeOK, CancelInv, Ids
  <2>4. Fate(id) = "recording" /\ Fate(id)' = "clip"
    BY <2>1, <2>2, <2>3 DEF Fate
  <2>5. Promise!Finish(id)
    BY <2>1, <2>2, <2>4, OneBecomes DEF Promise!Finish
  <2> QED BY <2>5 DEF Promise!Next
<1>2. CASE AutoFinishLate(id)
  BY <1>2, Unseen DEF AutoFinishLate
<1> QED
  BY <1>1, <1>2 DEF FinishStep

LEMMA CloseSeen ==
  ASSUME IInv, NEW id \in Ids, CloseStep(id) PROVE Promise!Next \/ UNCHANGED Seen
<1> DEFINE Taken == {"taken", "finishing", "full"}
<1>1. ASSUME NEW s \in Taken \cup {"transcribing"}, stage[id] \in Taken,
             stage' = [stage EXCEPT ![id] = s],
             UNCHANGED << cancelled_below, outcome, pasted >>
      PROVE  Promise!Next \/ UNCHANGED Seen
  <2>1. stage'[id] = s /\ \A j \in Ids \ {id} : Fate(j)' = Fate(j)
    BY <1>1, OneMoves
  <2>2. Fate(id)' = Fate(id)
    BY <1>1, <2>1 DEF Fate
  <2> QED BY <1>1, <2>1, <2>2, SameFate
<1>2. ASSUME NEW s \in {"discarding", "empty", "over"},
             stage[id] \in Taken \cup {"discarding", "empty"},
             stage' = [stage EXCEPT ![id] = s],
             UNCHANGED << cancelled_below, outcome, pasted >>
      PROVE  Promise!Next \/ UNCHANGED Seen
  <2>1. stage'[id] = s /\ \A j \in Ids \ {id} : Fate(j)' = Fate(j)
    BY <1>2, OneMoves
  <2>2. outcome[id] = "none"
    BY <1>2, NoOutcomeYet
  <2>3. Fate(id) \in {"clip", "gone"} /\ Fate(id)' = "gone"
    BY <1>2, <2>1, <2>2 DEF Fate
  <2> QED BY <1>2, <2>1, <2>3, LostOrGone
<1>3. CASE CloseBegin(id)
  <2>1. CASE auto_stopped[id]
    BY <1>2, <1>3, <2>1 DEF CloseBegin
  <2>2. CASE ~ auto_stopped[id]
    BY <1>1, <1>3, <2>2 DEF CloseBegin
  <2> QED BY <2>1, <2>2
<1>4. CASE CloseDiscard(id)
  BY <1>2, <1>4 DEF CloseDiscard
<1>5. ASSUME NEW long \in BOOLEAN, CloseFinish(id, long)
      PROVE  Promise!Next \/ UNCHANGED Seen
  <2>1. CASE long /\ speech_heard[id]
    BY <1>1, <1>5, <2>1 DEF CloseFinish
  <2>2. CASE ~ (long /\ speech_heard[id])
    BY <1>2, <1>5, <2>2 DEF CloseFinish
  <2> QED BY <2>1, <2>2
<1>6. CASE CloseEmpty(id)
  BY <1>2, <1>6 DEF CloseEmpty
<1>7. CASE CloseFull(id)
  <2>1. CASE Cancelled(id)
    BY <1>2, <1>7, <2>1 DEF CloseFull
  <2>2. CASE ~ Cancelled(id)
    BY <1>1, <1>7, <2>2 DEF CloseFull
  <2> QED BY <2>1, <2>2
<1> QED
  BY <1>3, <1>4, <1>5, <1>6, <1>7 DEF CloseStep

LEMMA ClipSeen ==
  ASSUME IInv, NEW id \in Ids, ClipStep(id) PROVE Promise!Next \/ UNCHANGED Seen
<1> DEFINE Flight == {"transcribing", "accepted", "checking"}
<1>0. /\ cancelled_below \in Nat /\ \A j \in Ids : j \in Nat
      /\ DeliverInv
  BY DEF IInv, TypeOK, Ids
<1>1. ASSUME NEW s \in Flight \cup {"injecting"}, stage[id] \in Flight \cup {"processing"},
             stage[id] = "processing" <=> s = "injecting",
             stage' = [stage EXCEPT ![id] = s],
             UNCHANGED << cancelled_below, outcome, pasted >>
      PROVE  UNCHANGED Seen
  <2>1. stage'[id] = s /\ \A j \in Ids \ {id} : Fate(j)' = Fate(j)
    BY <1>1, OneMoves
  <2>2. Fate(id)' = Fate(id)
    BY <1>1, <2>1 DEF Fate
  <2> QED BY <1>1, <2>1, <2>2, SameFate
<1>2. ASSUME NEW s \in {"ended", "over"}, NEW o \in Outcomes \ {"delivered", "inject_error"},
             stage[id] \in Flight,
             stage' = [stage EXCEPT ![id] = s], outcome' = [outcome EXCEPT ![id] = o],
             UNCHANGED << cancelled_below, pasted >>
      PROVE  Promise!Next \/ UNCHANGED Seen
  <2>1. stage'[id] = s /\ outcome'[id] = o /\ \A j \in Ids \ {id} : Fate(j)' = Fate(j)
    BY <1>2, OthersKeepTheirFate
  <2>2. Fate(id) \in {"clip", "gone"} /\ Fate(id)' = "gone"
    BY <1>2, <2>1 DEF Fate
  <2> QED BY <1>2, <2>1, <2>2, LostOrGone
<1>3. CASE TranscribeFails(id)
  BY <1>2, <1>3 DEF TranscribeFails, Outcomes
<1>4. CASE FilterDrops(id)
  BY <1>2, <1>4 DEF FilterDrops, Outcomes
<1>5. CASE FilterAccepts(id)
  BY <1>1, <1>5 DEF FilterAccepts
<1>6. CASE DeliverLock(id)
  BY <1>1, <1>6 DEF DeliverLock
<1>7. CASE DeliverBegin(id)
  <2>1. /\ stage[id] = "checking" /\ stage' = [stage EXCEPT ![id] = "processing"]
        /\ ~(id < cancelled_below) /\ UNCHANGED << cancelled_below, outcome, pasted >>
    BY <1>7 DEF DeliverBegin, Cancelled
  <2>2. stage'[id] = "processing" /\ \A j \in Ids \ {id} : Fate(j)' = Fate(j)
    BY <2>1, OneMoves
  <2>3. Fate(id) = "clip" /\ Fate(id)' = "committed"
    BY <2>1, <2>2 DEF Fate
  <2>4. \A j \in Ids : Fate(j) # "committed"
    <3>1. inject_lock = id
      BY <1>0, <2>1 DEF DeliverInv, Delivering
    <3>2. \A j \in Ids : stage[j] \notin {"processing", "injecting"}
      BY <1>0, <2>1, <3>1 DEF DeliverInv, Delivering
    <3> QED BY <3>2 DEF Fate
  <2>5. Promise!Commit(id)
    BY <2>1, <2>2, <2>3, <2>4, OneBecomes DEF Promise!Commit
  <2> QED BY <2>5 DEF Promise!Next
<1>8. CASE DeliverCancelled(id)
  BY <1>2, <1>8 DEF DeliverCancelled, Outcomes
<1>9. CASE DeliverProcess(id)
  BY <1>1, <1>9 DEF DeliverProcess
<1>10. ASSUME NEW ok \in BOOLEAN, DeliverInject(id, ok)
       PROVE  Promise!Next \/ UNCHANGED Seen
  <2>1. /\ stage[id] = "injecting" /\ stage' = [stage EXCEPT ![id] = "ended"]
        /\ outcome' = [outcome EXCEPT ![id] = IF ok THEN "delivered" ELSE "inject_error"]
        /\ pasted' = Append(pasted, id) \/ (~ ok /\ pasted' = pasted)
        /\ UNCHANGED cancelled_below
    BY <1>10 DEF DeliverInject, Injected
  <2>2. /\ stage'[id] = "ended"
        /\ outcome'[id] = IF ok THEN "delivered" ELSE "inject_error"
        /\ \A j \in Ids \ {id} : Fate(j)' = Fate(j)
    BY <2>1, OthersKeepTheirFate
  <2>3. Fate(id) = "committed" /\ Fate(id)' = IF ok THEN "delivered" ELSE "failed"
    BY <2>1, <2>2 DEF Fate
  <2>4. CASE ok
    <3>1. Promise!Deliver(id)
      BY <2>1, <2>2, <2>3, <2>4, OneBecomes DEF Promise!Deliver
    <3> QED BY <3>1 DEF Promise!Next
  <2>5. CASE ~ ok
    <3>1. Promise!Fail(id)
      BY <2>1, <2>2, <2>3, <2>5, OneBecomes DEF Promise!Fail
    <3> QED BY <3>1 DEF Promise!Next
  <2> QED BY <2>4, <2>5
<1>11. CASE ReportOutcome(id)
  <2>1. /\ stage[id] = "ended" /\ stage' = [stage EXCEPT ![id] = "over"]
        /\ UNCHANGED << cancelled_below, outcome, pasted >>
    BY <1>11 DEF ReportOutcome
  <2>2. stage'[id] = "over" /\ \A j \in Ids \ {id} : Fate(j)' = Fate(j)
    BY <2>1, OneMoves
  <2>3. Fate(id)' = Fate(id)
    BY <2>1, <2>2 DEF Fate
  <2> QED BY <2>1, <2>2, <2>3, SameFate
<1> QED
  BY <1>3, <1>4, <1>5, <1>6, <1>7, <1>8, <1>9, <1>10, <1>11 DEF ClipStep

-----------------------------------------------------------------------------
(* Every step of the session is one step of Dictation, or none. *)
LEMMA StepSeen == IInv /\ [Next]_vars => [Promise!Next]_Seen
<1> SUFFICES ASSUME IInv, [Next]_vars PROVE Promise!Next \/ UNCHANGED Seen
  OBVIOUS
<1>1. CASE Revert \/ UNCHANGED vars
  BY <1>1, Unseen DEF Revert, vars
<1>2. ASSUME NEW id \in Ids, ReaderStep(id) \/ ReaderCallback(id)
      PROVE  UNCHANGED Seen
  BY <1>2, Unseen DEF ReaderStep, ReaderCallback, ReaderRms, ReaderOverrun,
     ReaderTooLong, ReaderSilence, ReaderSpawnsFinish, ReaderEof
<1> QED
  BY <1>1, <1>2, CommandSeen, ServerStepSeen, FinishSeen, CloseSeen, ClipSeen DEF Next

(* The session implements Dictation (app.rs, module documentation): whatever the
   threads do, and however late a cancel is noticed, there is one order of begins,
   finishes, cancels, commits and pastes that explains it. *)
THEOREM SessionKeepsPromise == Spec => KeepsPromise
<1>1. Init => Promise!Init
  BY DEF Init, Promise!Init, Fate
<1> QED
  BY <1>1, StepSeen, Inductive, PTL DEF Spec, KeepsPromise, Promise!Spec, Seen, Fates

-----------------------------------------------------------------------------
(* What the promise is worth.                                              *)

(* In Dictation, what is gone never comes back. *)
LEMMA GoneStays ==
  ASSUME NEW id \in Ids, [Promise!Next]_Seen, Fate(id) = "gone"
  PROVE  Fate(id)' = "gone"
<1>1. CASE UNCHANGED Seen
  <2>1. Fates'[id] = Fates[id] /\ Fates[id] = Fate(id) /\ Fates'[id] = Fate(id)'
    BY <1>1 DEF Seen, Fates, Ids
  <2> QED BY <2>1
<1>2. ASSUME NEW j \in Ids, NEW new, Promise!Becomes(j, new), Fate(j) # "gone"
      PROVE  Fate(id)' = "gone"
  <2>1. Fates' = [Fates EXCEPT ![j] = new] /\ j # id
    BY <1>2 DEF Promise!Becomes, Fates
  <2>2. Fates'[id] = Fates[id] /\ Fates[id] = Fate(id) /\ Fates'[id] = Fate(id)'
    BY <2>1 DEF Fates, Ids
  <2> QED BY <2>2
<1>3. CASE Promise!Cancel
  <2>1. Fates'[id] = "gone" /\ Fates'[id] = Fate(id)'
    BY <1>3 DEF Promise!Cancel, Fates, Ids
  <2> QED BY <2>1
<1>4. ASSUME NEW j \in Ids,
             \/ Promise!Begin(j) \/ Promise!Finish(j) \/ Promise!Commit(j)
             \/ Promise!Deliver(j) \/ Promise!Fail(j) \/ Promise!Lose(j)
      PROVE  Fate(id)' = "gone"
  <2>1. Fate(j) # "gone" /\ \E new : Promise!Becomes(j, new)
    BY <1>4 DEF Promise!Begin, Promise!Finish, Promise!Commit, Promise!Deliver,
       Promise!Fail, Promise!Lose
  <2> QED BY <1>2, <2>1
<1> QED
  BY <1>1, <1>3, <1>4 DEF Promise!Next

(* What is gone has not been pasted. *)
LEMMA GoneIsUnpasted ==
  ASSUME IInv, NEW id \in Ids, Fate(id) = "gone"
  PROVE  \A i \in DOMAIN pasted : pasted[i] # id
<1>1. outcome[id] \notin {"delivered", "inject_error"}
  <2>1. CASE stage[id] \in {"ended", "over"}
    BY <2>1 DEF Fate
  <2>2. CASE stage[id] \notin {"ended", "over"}
    BY <2>2, NoOutcomeYet
  <2> QED BY <2>1, <2>2
<1> QED
  BY <1>1 DEF IInv, PastedOnce

(* What a cancel has taken is never pasted (app.rs cancel, deliver): a recording that
   was live, and a clip whose delivery had not begun, are gone from the instant the
   cancel holds the lifecycle lock, although their threads run on. *)
THEOREM GoneIsNeverPasted ==
  ASSUME NEW id \in Ids
  PROVE  Spec => [](Fate(id) = "gone" => [](\A i \in DOMAIN pasted : pasted[i] # id))
<1> DEFINE Gone == Fate(id) = "gone"
           Unpasted == \A i \in DOMAIN pasted : pasted[i] # id
<1>1. IInv /\ [Next]_vars => (Gone => Gone')
  BY StepSeen, GoneStays
<1>2. IInv => (Gone => Unpasted)
  BY GoneIsUnpasted
<1>3. Spec => [](Gone => []Unpasted)
  <2> HIDE DEF Gone, Unpasted
  <2> QED BY <1>1, <1>2, Inductive, PTL DEF Spec
<1> QED
  BY <1>3

(* A cancel takes what Dictation says it takes, all of it in its first step. *)
THEOREM CancelTakesAtOnce ==
  Spec => [][cancelled_below' # cancelled_below =>
               \A id \in Ids : Fate(id) \in {"recording", "clip"} => Fate(id)' = "gone"]_vars
<1>1. ASSUME IInv, [Next]_vars, cancelled_below' # cancelled_below,
             NEW id \in Ids, Fate(id) \in {"recording", "clip"}
      PROVE  Fate(id)' = "gone"
  <2>1. CancelClips \/ CancelRecording
    BY <1>1 DEF Next, Command, StartOverOverrun, StartFresh, Stop, ServerStep,
       StartJoin, StartOpened, StartFailed, StartPublish, StartProbe, CancelJoin,
       CancelIdle, Revert, ReaderStep, ReaderCallback, ReaderRms, ReaderOverrun,
       ReaderTooLong, ReaderSilence, ReaderSpawnsFinish, ReaderEof, FinishStep,
       AutoFinish, AutoFinishLate, CloseStep, CloseBegin, CloseDiscard, CloseFinish,
       CloseEmpty, CloseFull, ClipStep, TranscribeFails, FilterDrops, FilterAccepts,
       DeliverLock, DeliverBegin, DeliverCancelled, DeliverProcess, DeliverInject,
       ReportOutcome, vars
  <2>2. Promise!Cancel
    BY <1>1, <2>1, CancelSeen
  <2>3. Fates'[id] = "gone" /\ Fates'[id] = Fate(id)'
    BY <1>1, <2>2 DEF Promise!Cancel, Fates, Ids
  <2> QED BY <2>3
<1>2. IInv /\ [Next]_vars =>
        [cancelled_below' # cancelled_below =>
           \A id \in Ids : Fate(id) \in {"recording", "clip"} => Fate(id)' = "gone"]_vars
  BY <1>1
<1> QED
  BY <1>2, Inductive, PTL DEF Spec
=============================================================================
