------------------------------- MODULE Session -------------------------------
(***************************************************************************)
(* The dictation session of the daemon (crates/daemon/src/app.rs): the     *)
(* socket thread that runs the commands, the reader thread of each         *)
(* capture, the auto-finish thread a trailing silence spawns, the thread   *)
(* of each clip, and the timer that reverts a flashed state to idle.       *)
(*                                                                         *)
(* Steps are cut where another thread can get in: at each acquisition of   *)
(* the lifecycle lock or of inject_lock, at the join of a reader, at each  *)
(* publish that no lock orders, and around the slow calls (the window      *)
(* probe, transcription, post-processing, injection).                      *)
(***************************************************************************)
EXTENDS Naturals, Sequences, FiniteSets

CONSTANTS
  MaxRecordings,   \* bound: how many recordings are ever opened
  Texts,           \* what may become of a transcription, of AllTexts
  NoId             \* "no recording"

AllTexts == {"failed", "rejected", "accepted"}

ASSUME MaxRecordingsAssumption == MaxRecordings \in Nat \ {0}
ASSUME TextsAssumption == Texts \subseteq AllTexts
ASSUME NoIdAssumption == NoId \notin Nat

Ids == 0 .. MaxRecordings - 1
MaybeId == Ids \cup {NoId}

VARIABLES
  recording,        \* Lifecycle.recording: the id in the slot
  next_id,          \* Lifecycle.next_id
  cancelled_below,  \* Lifecycle.cancelled_below
  server,           \* what the socket thread is doing, and for which recording
  reader,           \* the reader thread of each capture
  stop,             \* Signals: the owner has asked the reader to stop
  auto_stopped,     \* Signals: the capture hit the duration cap
  speech_heard,     \* Signals: a window was above the silence threshold
  auto,             \* the auto-finish thread of each recording
  stage,            \* how far each recording, then its clip, has come
  outcome,          \* how each clip ended
  inject_lock,      \* the clip holding App.inject_lock
  status,           \* the published state, and on whose behalf
  log,              \* the transcript log's verdict on each clip
  pasted,           \* history: the clips pasted, in order
  notified          \* history: the recordings a notification was raised for

lifecycle == << recording, next_id, cancelled_below >>
capture == << reader, stop, auto_stopped, speech_heard, auto >>
clip == << outcome, inject_lock, log, pasted >>
vars == << lifecycle, server, capture, stage, clip, status, notified >>

-----------------------------------------------------------------------------
(* The vocabulary of the state.                                            *)

\* A recording is opened, held in the slot, taken out of it, joined to be
\* discarded or finished; its clip is transcribed, accepted, delivered in three
\* steps under inject_lock, and its outcome is reported.
Stages == {"unused", "opening", "held", "taken", "discarding", "finishing",
           "empty", "full", "transcribing", "accepted", "checking",
           "processing", "injecting", "ended", "over"}

Delivering == {"checking", "processing", "injecting"}

Outcomes == {"none", "delivered", "cancelled", "stt_error", "rejected",
             "inject_error"}

ReaderStates == {"off", "reading", "overrun", "silent", "ended"}
Alive(id) == reader[id] \in {"reading", "overrun", "silent"}

\* start holds the lifecycle lock in the first four of these.
StartSteps == {"start_join", "start_open", "start_publish", "start_probe"}
ServerSteps == StartSteps \cup {"idle", "closing", "cancel_join", "cancel_idle"}

At(step, id) == [at |-> step, id |-> id]
Waiting == At("idle", NoId)

States == {"idle", "recording", "transcribing", "success", "error"}
Flashes == {"success", "error"}

-----------------------------------------------------------------------------
(* What the handlers read.                                                 *)

\* Mutant: start lets the lock go while it probes the focused window.
LifecycleFreeWhileProbing ==
  server.at \notin StartSteps \ {"start_publish", "start_probe"}

\* The lifecycle lock is free: only start keeps it over several steps.
LifecycleFree == server.at \notin StartSteps

\* A recording is capturing right now: in the slot and not overrun.
IsRecording == recording # NoId /\ ~ auto_stopped[recording]

\* Mutant: the comparison is off by one.
CancelledOffByOne(id) == id + 1 < cancelled_below

\* Clip id was cancelled.
Cancelled(id) == id < cancelled_below

\* The state published for recording id.
Shown(state, id) == [state |-> state, by |-> id]

Publish(state, id) == status' = Shown(state, id)

\* report: nothing for a cancelled clip, nothing over a live recording.
Report(state, id) ==
  status' = IF Cancelled(id) \/ IsRecording THEN status ELSE Shown(state, id)

-----------------------------------------------------------------------------
Init ==
  /\ recording = NoId
  /\ next_id = 0
  /\ cancelled_below = 0
  /\ server = Waiting
  /\ reader = [id \in Ids |-> "off"]
  /\ stop = [id \in Ids |-> FALSE]
  /\ auto_stopped = [id \in Ids |-> FALSE]
  /\ speech_heard = [id \in Ids |-> FALSE]
  /\ auto = [id \in Ids |-> "none"]
  /\ stage = [id \in Ids |-> "unused"]
  /\ outcome = [id \in Ids |-> "none"]
  /\ inject_lock = NoId
  /\ status = Shown("idle", NoId)
  /\ log = [id \in Ids |-> "none"]
  /\ pasted = << >>
  /\ notified = {}

-----------------------------------------------------------------------------
(* start: one command, the lifecycle lock held from the first step to the  *)
(* last. A start while a recording is live answers "already recording" and *)
(* changes nothing; start, stop, cancel, status and ping all come from the *)
(* one socket thread, so each waits for server to be idle.                 *)

\* Mutant: the overrun capture is dropped without joining its reader.
StartOverOverrunNoJoin ==
  /\ server = Waiting /\ next_id < MaxRecordings
  /\ recording # NoId /\ auto_stopped[recording]
  /\ recording' = NoId
  /\ stage' = [stage EXCEPT ![recording] = "over"]
  /\ stop' = [stop EXCEPT ![recording] = TRUE]
  /\ server' = At("start_open", NoId)
  /\ UNCHANGED << next_id, cancelled_below, reader, auto_stopped, speech_heard,
                  auto, clip, status, notified >>

\* Tear down an overrun recording nobody reclaimed.
StartOverOverrun ==
  /\ server = Waiting /\ next_id < MaxRecordings
  /\ recording # NoId /\ auto_stopped[recording]
  /\ recording' = NoId
  /\ stage' = [stage EXCEPT ![recording] = "discarding"]
  /\ stop' = [stop EXCEPT ![recording] = TRUE]
  /\ server' = At("start_join", recording)
  /\ UNCHANGED << next_id, cancelled_below, reader, auto_stopped, speech_heard,
                  auto, clip, status, notified >>

StartJoin ==
  /\ server.at = "start_join" /\ reader[server.id] = "ended"
  /\ stage' = [stage EXCEPT ![server.id] = "over"]
  /\ server' = At("start_open", NoId)
  /\ UNCHANGED << lifecycle, capture, clip, status, notified >>

\* Mutant: the slot is not looked at.
StartFreshAnyway ==
  /\ server = Waiting /\ next_id < MaxRecordings
  /\ server' = At("start_open", NoId)
  /\ UNCHANGED << lifecycle, capture, stage, clip, status, notified >>

StartFresh ==
  /\ server = Waiting /\ next_id < MaxRecordings
  /\ recording = NoId
  /\ server' = At("start_open", NoId)
  /\ UNCHANGED << lifecycle, capture, stage, clip, status, notified >>

\* start_capture: the capture opens and its reader runs, or it fails; the id is
\* used up either way.
StartOpened ==
  /\ server.at = "start_open"
  /\ next_id' = next_id + 1
  /\ reader' = [reader EXCEPT ![next_id] = "reading"]
  /\ stage' = [stage EXCEPT ![next_id] = "opening"]
  /\ server' = At("start_publish", next_id)
  /\ UNCHANGED << recording, cancelled_below, stop, auto_stopped, speech_heard,
                  auto, clip, status, notified >>

StartFailed ==
  /\ server.at = "start_open"
  /\ next_id' = next_id + 1
  /\ stage' = [stage EXCEPT ![next_id] = "over"]
  /\ server' = Waiting
  /\ UNCHANGED << recording, cancelled_below, capture, clip, status, notified >>

StartPublish ==
  /\ server.at = "start_publish"
  /\ Publish("recording", server.id)
  /\ server' = At("start_probe", server.id)
  /\ UNCHANGED << lifecycle, capture, stage, clip, notified >>

\* The window probe answered: the recording goes into the slot, the lock is freed.
StartProbe ==
  /\ server.at = "start_probe"
  /\ recording' = server.id
  /\ stage' = [stage EXCEPT ![server.id] = "held"]
  /\ server' = Waiting
  /\ UNCHANGED << next_id, cancelled_below, capture, clip, status, notified >>

-----------------------------------------------------------------------------
(* The reader thread of a capture, as far as the session sees it. It looks *)
(* at its stop flag between chunks only, so all of this may still happen   *)
(* after the owner asked it to stop.                                       *)

\* One RMS window: the meter publishes without the lifecycle lock.
ReaderRms(id, loud) ==
  /\ reader[id] = "reading"
  /\ speech_heard' = [speech_heard EXCEPT ![id] = @ \/ loud]
  /\ Publish("recording", id)
  /\ UNCHANGED << lifecycle, server, reader, stop, auto_stopped, auto, stage,
                  clip, notified >>

\* max_samples reached: auto_stopped is raised, then on_too_long runs.
ReaderOverrun(id) ==
  /\ reader[id] = "reading"
  /\ reader' = [reader EXCEPT ![id] = "overrun"]
  /\ auto_stopped' = [auto_stopped EXCEPT ![id] = TRUE]
  /\ UNCHANGED << lifecycle, server, stop, speech_heard, auto, stage, clip,
                  status, notified >>

\* on_too_long: error and notification, neither under the lifecycle lock.
ReaderTooLong(id) ==
  /\ reader[id] = "overrun"
  /\ reader' = [reader EXCEPT ![id] = "ended"]
  /\ Publish("error", id)
  /\ notified' = notified \cup {id}
  /\ UNCHANGED << lifecycle, server, stop, auto_stopped, speech_heard, auto,
                  stage, clip >>

\* Enough silent windows after speech: the loop ends, then on_silence runs.
ReaderSilence(id) ==
  /\ reader[id] = "reading" /\ speech_heard[id]
  /\ reader' = [reader EXCEPT ![id] = "silent"]
  /\ UNCHANGED << lifecycle, server, stop, auto_stopped, speech_heard, auto,
                  stage, clip, status, notified >>

\* Mutant: on_silence finishes in the reader thread, which a close then joins.
ReaderFinishesItself(id) ==
  /\ reader[id] = "silent"
  /\ auto' = [auto EXCEPT ![id] = IF @ = "none" THEN "waiting" ELSE @]
  /\ reader' = [reader EXCEPT ![id] = IF stage[id] = "over" THEN "ended" ELSE @]
  /\ UNCHANGED << lifecycle, server, stop, auto_stopped, speech_heard, stage,
                  clip, status, notified >>

\* on_silence: the auto-finish thread is spawned.
ReaderSpawnsFinish(id) ==
  /\ reader[id] = "silent"
  /\ reader' = [reader EXCEPT ![id] = "ended"]
  /\ auto' = [auto EXCEPT ![id] = "waiting"]
  /\ UNCHANGED << lifecycle, server, stop, auto_stopped, speech_heard, stage,
                  clip, status, notified >>

\* The stop flag is seen, or pw-record closed its pipe on its own.
ReaderEof(id) ==
  /\ reader[id] = "reading"
  /\ reader' = [reader EXCEPT ![id] = "ended"]
  /\ UNCHANGED << lifecycle, server, stop, auto_stopped, speech_heard, auto,
                  stage, clip, status, notified >>

-----------------------------------------------------------------------------
(* stop and auto_finish: take the recording, close it, hand off its clip.  *)

\* A stop with an empty slot answers "not recording" and changes nothing.
Stop ==
  /\ server = Waiting /\ recording # NoId
  /\ recording' = NoId
  /\ stage' = [stage EXCEPT ![recording] = "taken"]
  /\ server' = At("closing", recording)
  /\ UNCHANGED << next_id, cancelled_below, capture, clip, status, notified >>

\* Mutant: auto_finish takes whatever recording is in the slot.
AutoFinishAny(id) ==
  /\ auto[id] = "waiting" /\ LifecycleFree
  /\ recording # NoId
  /\ auto' = [auto EXCEPT ![id] = "gone"]
  /\ recording' = NoId
  /\ stage' = [stage EXCEPT ![recording] = "taken"]
  /\ UNCHANGED << next_id, cancelled_below, server, reader, stop, auto_stopped,
                  speech_heard, clip, status, notified >>

\* auto_finish takes the recording it was spawned for ...
AutoFinish(id) ==
  /\ auto[id] = "waiting" /\ LifecycleFree
  /\ recording = id
  /\ auto' = [auto EXCEPT ![id] = "gone"]
  /\ recording' = NoId
  /\ stage' = [stage EXCEPT ![id] = "taken"]
  /\ UNCHANGED << next_id, cancelled_below, server, reader, stop, auto_stopped,
                  speech_heard, clip, status, notified >>

\* Mutant: auto_finish does not wait for the lifecycle lock.
AutoFinishTryLock(id) ==
  /\ auto[id] = "waiting"
  /\ recording # id
  /\ auto' = [auto EXCEPT ![id] = "gone"]
  /\ UNCHANGED << lifecycle, server, reader, stop, auto_stopped, speech_heard,
                  stage, clip, status, notified >>

\* ... or nothing: a stop or a cancel came first.
AutoFinishLate(id) ==
  /\ auto[id] = "waiting" /\ LifecycleFree
  /\ recording # id
  /\ auto' = [auto EXCEPT ![id] = "gone"]
  /\ UNCHANGED << lifecycle, server, reader, stop, auto_stopped, speech_heard,
                  stage, clip, status, notified >>

\* close: look at auto_stopped once, then tell the reader to stop.
CloseBegin(id) ==
  /\ stage[id] = "taken"
  /\ stage' = [stage EXCEPT ![id] = IF auto_stopped[id]
                                    THEN "discarding" ELSE "finishing"]
  /\ stop' = [stop EXCEPT ![id] = TRUE]
  /\ UNCHANGED << lifecycle, server, reader, auto_stopped, speech_heard, auto,
                  clip, status, notified >>

\* stop answers its client once the recording it closes is handed off.
Answer(id) ==
  server' = IF server = At("closing", id) THEN Waiting ELSE server

\* Capture::cancel: the reader is joined, the samples are dropped.
CloseDiscard(id) ==
  /\ stage[id] = "discarding" /\ reader[id] = "ended"
  /\ server.id = id => server.at = "closing"
  /\ stage' = [stage EXCEPT ![id] = "over"]
  /\ Answer(id)
  /\ UNCHANGED << lifecycle, capture, clip, status, notified >>

\* Mutant: finish returns without joining the reader.
CloseFinishNoJoin(id, long) ==
  /\ stage[id] = "finishing"
  /\ stage' = [stage EXCEPT ![id] =
                 IF long /\ speech_heard[id] THEN "full" ELSE "empty"]
  /\ UNCHANGED << lifecycle, server, capture, clip, status, notified >>

\* Capture::finish: the reader is joined; a short or speechless buffer is no clip.
CloseFinish(id, long) ==
  /\ stage[id] = "finishing" /\ reader[id] = "ended"
  /\ stage' = [stage EXCEPT ![id] =
                 IF long /\ speech_heard[id] THEN "full" ELSE "empty"]
  /\ UNCHANGED << lifecycle, server, capture, clip, status, notified >>

CloseEmpty(id) ==
  /\ stage[id] = "empty" /\ LifecycleFree
  /\ Report("idle", id)
  /\ stage' = [stage EXCEPT ![id] = "over"]
  /\ Answer(id)
  /\ UNCHANGED << lifecycle, capture, clip, notified >>

\* The clip goes on to its thread, unless a cancel came first.
CloseFull(id) ==
  /\ stage[id] = "full" /\ LifecycleFree
  /\ Report("transcribing", id)
  /\ stage' = [stage EXCEPT ![id] = IF Cancelled(id) THEN "over" ELSE "transcribing"]
  /\ Answer(id)
  /\ UNCHANGED << lifecycle, capture, clip, notified >>

-----------------------------------------------------------------------------
(* cancel: every id handed out so far is cancelled under the lock; the     *)
(* capture is joined and idle is published after it is released.           *)

\* The slot is empty: only clips are cancelled.
CancelClips ==
  /\ server = Waiting
  /\ recording = NoId
  /\ cancelled_below' = next_id
  /\ server' = At("cancel_idle", NoId)
  /\ UNCHANGED << recording, next_id, capture, stage, clip, status, notified >>

CancelRecording ==
  /\ server = Waiting
  /\ recording # NoId
  /\ cancelled_below' = next_id
  /\ recording' = NoId
  /\ stage' = [stage EXCEPT ![recording] = "discarding"]
  /\ stop' = [stop EXCEPT ![recording] = TRUE]
  /\ server' = At("cancel_join", recording)
  /\ UNCHANGED << next_id, reader, auto_stopped, speech_heard, auto, clip,
                  status, notified >>

CancelJoin ==
  /\ server.at = "cancel_join" /\ reader[server.id] = "ended"
  /\ stage' = [stage EXCEPT ![server.id] = "over"]
  /\ server' = At("cancel_idle", NoId)
  /\ UNCHANGED << lifecycle, capture, clip, status, notified >>

CancelIdle ==
  /\ server.at = "cancel_idle"
  /\ Publish("idle", NoId)
  /\ server' = Waiting
  /\ UNCHANGED << lifecycle, capture, stage, clip, notified >>

-----------------------------------------------------------------------------
(* process: the thread of one clip.                                        *)

\* transcribe: no answer, or one the filter drops or accepts; every answer is
\* logged before its clip goes on.
TranscribeFails(id) ==
  /\ stage[id] = "transcribing" /\ "failed" \in Texts
  /\ outcome' = [outcome EXCEPT ![id] = "stt_error"]
  /\ stage' = [stage EXCEPT ![id] = "ended"]
  /\ UNCHANGED << lifecycle, server, capture, inject_lock, log, pasted, status,
                  notified >>

FilterDrops(id) ==
  /\ stage[id] = "transcribing" /\ "rejected" \in Texts
  /\ log' = [log EXCEPT ![id] = "dropped"]
  /\ outcome' = [outcome EXCEPT ![id] = "rejected"]
  /\ stage' = [stage EXCEPT ![id] = "ended"]
  /\ UNCHANGED << lifecycle, server, capture, inject_lock, pasted, status,
                  notified >>

FilterAccepts(id) ==
  /\ stage[id] = "transcribing" /\ "accepted" \in Texts
  /\ log' = [log EXCEPT ![id] = "accepted"]
  /\ stage' = [stage EXCEPT ![id] = "accepted"]
  /\ UNCHANGED << lifecycle, server, capture, outcome, inject_lock, pasted,
                  status, notified >>

\* deliver: inject_lock first, the lifecycle lock under it. The mutex has no
\* queue: any waiting clip may get it.
DeliverLock(id) ==
  /\ stage[id] = "accepted" /\ inject_lock = NoId
  /\ inject_lock' = id
  /\ stage' = [stage EXCEPT ![id] = "checking"]
  /\ UNCHANGED << lifecycle, server, capture, outcome, log, pasted, status,
                  notified >>

\* Mutant: a clip that is cancelled while it waits its turn is not noticed.
DeliverBeginAnyway(id) ==
  /\ stage[id] = "checking" /\ LifecycleFree
  /\ stage' = [stage EXCEPT ![id] = "processing"]
  /\ UNCHANGED << lifecycle, server, capture, clip, status, notified >>

DeliverBegin(id) ==
  /\ stage[id] = "checking" /\ LifecycleFree
  /\ ~ Cancelled(id)
  /\ stage' = [stage EXCEPT ![id] = "processing"]
  /\ UNCHANGED << lifecycle, server, capture, clip, status, notified >>

DeliverCancelled(id) ==
  /\ stage[id] = "checking" /\ LifecycleFree
  /\ Cancelled(id)
  /\ outcome' = [outcome EXCEPT ![id] = "cancelled"]
  /\ stage' = [stage EXCEPT ![id] = "over"]
  /\ inject_lock' = NoId
  /\ UNCHANGED << lifecycle, server, capture, log, pasted, status, notified >>

\* Corrections, snippets and the AI workflow, under inject_lock.
DeliverProcess(id) ==
  /\ stage[id] = "processing"
  /\ stage' = [stage EXCEPT ![id] = "injecting"]
  /\ UNCHANGED << lifecycle, server, capture, clip, status, notified >>

\* The clips pasted after an injection of clip id. A failed one may have taken effect
\* too: the typing tool or the keystroke fails, or is killed at its deadline, after it
\* has done its work (Paste.KeysFail).
Injected(id, ok) == {Append(pasted, id)} \cup IF ok THEN {} ELSE {pasted}

\* Mutant: a failed injection is tried again.
DeliverInjectRetrying(id, ok) ==
  /\ stage[id] = "injecting"
  /\ pasted' \in Injected(id, ok)
  /\ outcome' = [outcome EXCEPT ![id] = IF ok THEN "delivered" ELSE @]
  /\ stage' = [stage EXCEPT ![id] = IF ok THEN "ended" ELSE @]
  /\ inject_lock' = IF ok THEN NoId ELSE id
  /\ UNCHANGED << lifecycle, server, capture, log, status, notified >>

DeliverInject(id, ok) ==
  /\ stage[id] = "injecting"
  /\ pasted' \in Injected(id, ok)
  /\ outcome' = [outcome EXCEPT ![id] = IF ok THEN "delivered" ELSE "inject_error"]
  /\ stage' = [stage EXCEPT ![id] = "ended"]
  /\ inject_lock' = NoId
  /\ UNCHANGED << lifecycle, server, capture, log, status, notified >>

\* Mutant: the report is decided before the lock is taken.
ReportUnlocked(id) ==
  /\ stage[id] = "ended"
  /\ status' = Shown(IF outcome[id] = "delivered" THEN "success" ELSE "error", id)
  /\ stage' = [stage EXCEPT ![id] = "over"]
  /\ UNCHANGED << lifecycle, server, capture, clip, notified >>

\* How the clip ended is published, unless it was cancelled meanwhile; a hard
\* failure that was reported raises a notification too.
ReportOutcome(id) ==
  /\ stage[id] = "ended" /\ LifecycleFree
  /\ Report(IF outcome[id] = "delivered" THEN "success" ELSE "error", id)
  /\ notified' = IF outcome[id] \in {"stt_error", "inject_error"} /\ ~ Cancelled(id)
                 THEN notified \cup {id} ELSE notified
  /\ stage' = [stage EXCEPT ![id] = "over"]
  /\ UNCHANGED << lifecycle, server, capture, clip >>

-----------------------------------------------------------------------------
(* The revert of a flash: success and error arm it, and it fires only     *)
(* while nothing newer was published, that is while the flash it was armed *)
(* for is still shown (StatusFile shows how generations ensure it).        *)

Revert ==
  /\ status.state \in Flashes
  /\ Publish("idle", NoId)
  /\ UNCHANGED << lifecycle, server, capture, stage, clip, notified >>

-----------------------------------------------------------------------------
Command == StartOverOverrun \/ StartFresh \/ Stop \/ CancelClips \/ CancelRecording

ServerStep ==
  \/ StartJoin \/ StartOpened \/ StartFailed \/ StartPublish \/ StartProbe
  \/ CancelJoin \/ CancelIdle

ReaderCallback(id) == ReaderTooLong(id) \/ ReaderSpawnsFinish(id)

ReaderStep(id) ==
  \/ \E loud \in BOOLEAN : ReaderRms(id, loud)
  \/ ReaderOverrun(id) \/ ReaderSilence(id) \/ ReaderEof(id)

FinishStep(id) == AutoFinish(id) \/ AutoFinishLate(id)

CloseStep(id) ==
  \/ CloseBegin(id) \/ CloseDiscard(id)
  \/ \E long \in BOOLEAN : CloseFinish(id, long)
  \/ CloseEmpty(id) \/ CloseFull(id)

ClipStep(id) ==
  \/ TranscribeFails(id) \/ FilterDrops(id) \/ FilterAccepts(id)
  \/ DeliverLock(id) \/ DeliverBegin(id) \/ DeliverCancelled(id) \/ DeliverProcess(id)
  \/ \E ok \in BOOLEAN : DeliverInject(id, ok)
  \/ ReportOutcome(id)

Next ==
  \/ Command \/ ServerStep \/ Revert
  \/ \E id \in Ids : \/ ReaderStep(id) \/ ReaderCallback(id)
                     \/ FinishStep(id) \/ CloseStep(id) \/ ClipStep(id)

\* Commands and what the microphone hears are the environment's. Every thread
\* runs on: the calls it makes are all bounded by a timeout, and a reader told to
\* stop reads the end of the pipe of the pw-record that was killed.
Fairness ==
  /\ WF_vars(ServerStep) /\ WF_vars(Revert)
  /\ \A id \in Ids :
       /\ WF_vars(ReaderCallback(id))
       /\ WF_vars(stop[id] /\ ReaderEof(id))
       /\ WF_vars(FinishStep(id))
       /\ WF_vars(CloseStep(id))
       /\ WF_vars(ClipStep(id))

Spec == Init /\ [][Next]_vars
FairSpec == Spec /\ Fairness

-----------------------------------------------------------------------------
(* Properties.                                                             *)

TypeOK ==
  /\ recording \in MaybeId
  /\ next_id \in 0 .. MaxRecordings
  /\ cancelled_below \in 0 .. next_id
  /\ server \in [at : ServerSteps, id : MaybeId]
  /\ reader \in [Ids -> ReaderStates]
  /\ stop \in [Ids -> BOOLEAN]
  /\ auto_stopped \in [Ids -> BOOLEAN]
  /\ speech_heard \in [Ids -> BOOLEAN]
  /\ auto \in [Ids -> {"none", "waiting", "gone"}]
  /\ stage \in [Ids -> Stages]
  /\ outcome \in [Ids -> Outcomes]
  /\ inject_lock \in MaybeId
  /\ status \in [state : States, by : MaybeId]
  /\ log \in [Ids -> {"none", "accepted", "dropped"}]
  /\ pasted \in Seq(Ids)
  /\ notified \in SUBSET Ids

\* "Only one capture is live at a time" (app.rs:15): no two reader threads, of
\* whatever recordings, run at once, although captures are joined outside the
\* lifecycle lock and an overrun capture outlives its recording.
OneMicrophone == \A i, j \in Ids : Alive(i) /\ Alive(j) => i = j

\* While a recording is capturing, what is published is that recording: no
\* older clip's outcome, no revert, no overrun or cancel of an earlier
\* recording ever shows over it (app.rs:17-18, 310-325).
LiveRecordingShown ==
  recording # NoId /\ ~ auto_stopped[recording] =>
    status = Shown("recording", recording)

\* inject_lock keeps post-processing and paste of two clips apart (app.rs:144-146).
OneDelivery ==
  \A i, j \in Ids : stage[i] \in Delivering /\ stage[j] \in Delivering => i = j

\* A clip is pasted at most once, also when its injection failed after it took effect;
\* a clip that ends as delivered has been pasted, and one that ends in any other way
\* than delivered or with a failed injection, or has not ended, has not (app.rs:380-430).
PastedOnce ==
  /\ \A i, j \in DOMAIN pasted : pasted[i] = pasted[j] => i = j
  /\ \A id \in Ids : outcome[id] = "delivered" => \E i \in DOMAIN pasted : pasted[i] = id
  /\ \A i \in DOMAIN pasted : outcome[pasted[i]] \in {"delivered", "inject_error"}

\* Once cancel has answered, nothing of what it cancelled is on display, and it
\* never shows again: neither from a clip thread nor from a close under way on
\* the auto-finish thread, nor from a reader (app.rs:104-106, 281-292, 310-325).
CancelledNotShown ==
  status.by # NoId /\ status.by < cancelled_below =>
    server.at \in {"cancel_join", "cancel_idle"}

\* A recording leaves its slot by a command or by its own trailing silence: an
\* auto-finish that comes late never ends a newer recording (app.rs:267-269).
OnlyOwnSilenceEnds ==
  [][recording # NoId /\ recording' # recording =>
       server' # server \/ auto'[recording] # auto[recording]]_vars

\* Everything is done: no command, no thread, no flash.
AtRest ==
  /\ server = Waiting /\ status.state \notin Flashes
  /\ \A id \in Ids : stage[id] \in {"unused", "over"}

\* When nothing is left to run, the published state has gone back to idle, however
\* the recordings overlapped and whichever reports were held back. (The exception
\* is a capture that overran before start had published "recording".)
RestShowsIdle ==
  AtRest => \/ status.state = "idle"
            \/ status.state = "recording" /\ auto_stopped[status.by]

\* The refinement mapping: where a recording of the session stands in Dictation.
Fate(id) ==
  CASE stage[id] = "unused" -> "unused"
    [] stage[id] \in {"opening", "held"} -> "recording"
    [] stage[id] \in {"taken", "finishing", "full", "transcribing", "accepted",
                      "checking"} -> IF id < cancelled_below THEN "gone" ELSE "clip"
    [] stage[id] \in {"processing", "injecting"} -> "committed"
    [] OTHER -> CASE outcome[id] = "delivered" -> "delivered"
                  [] outcome[id] = "inject_error" -> "failed"
                  [] OTHER -> "gone"

Promise == INSTANCE Dictation WITH fate <- [id \in Ids |-> Fate(id)]

\* The session keeps what Dictation promises: in particular a cancel, whose work
\* is spread over the clip threads that notice it, acts as if at one instant.
KeepsPromise == Promise!Spec

-----------------------------------------------------------------------------
(* Why the invariants hold: the inductive invariant of SessionProofs.      *)

\* The slot and the stage of the recording in it agree, and it is filled only
\* while the socket thread is idle: start fills it last, stop, cancel and the
\* start over an overrun empty it first.
SlotInv ==
  /\ \A id \in Ids : recording = id <=> stage[id] = "held"
  /\ server # Waiting => recording = NoId

\* Ids are handed out in order.
FreshInv ==
  /\ \A id \in Ids : id >= next_id <=> stage[id] = "unused"
  /\ \A id \in Ids : stage[id] = "unused" =>
       reader[id] = "off" /\ ~ auto_stopped[id]

\* What the socket thread works on.
ServerInv ==
  /\ server.at \in {"idle", "start_open", "cancel_idle"} => server.id = NoId
  /\ server.at \in {"start_join", "start_open"} => next_id < MaxRecordings
  /\ server.at \in {"start_join", "cancel_join"} =>
       server.id \in Ids /\ stage[server.id] = "discarding"
  /\ server.at \in {"start_publish", "start_probe"} =>
       server.id \in Ids /\ stage[server.id] = "opening"
  /\ server.at = "closing" =>
       /\ server.id \in Ids
       /\ stage[server.id] \in {"taken", "discarding", "finishing", "empty", "full"}
  /\ \A id \in Ids : stage[id] = "opening" => server.id = id

\* A running reader belongs to the recording in the slot or to the one the
\* socket thread is busy with; the auto-finish thread only meets ended readers.
ReaderInv ==
  /\ \A id \in Ids : Alive(id) => recording = id \/ server.id = id
  /\ \A id \in Ids : auto[id] # "none" => reader[id] = "ended"
  /\ \A id \in Ids : reader[id] = "overrun" => auto_stopped[id]
  /\ \A id \in Ids : Alive(id) =>
       stage[id] \in {"opening", "held", "taken", "discarding", "finishing"}

\* What has not been taken by a cancel: the recording being opened or held, and
\* the one a stop or a start over an overrun is joining.
CancelInv ==
  /\ \A id \in Ids : stage[id] \in {"opening", "held"} => id >= cancelled_below
  /\ server.at \in {"start_join", "closing"} => server.id >= cancelled_below

\* Before the window probe, the new recording is already shown.
ProbeInv ==
  server.at = "start_probe" /\ ~ auto_stopped[server.id] =>
    status = Shown("recording", server.id)

\* The holder of inject_lock is the clip being delivered; a clip has an outcome
\* only once its delivery is over.
DeliverInv ==
  /\ \A id \in Ids : stage[id] \in Delivering <=> inject_lock = id
  /\ \A id \in Ids : outcome[id] # "none" => stage[id] \in {"ended", "over"}

\* A cancel is under way that will publish idle.
Cancelling == server.at \in {"cancel_join", "cancel_idle"}

\* Whatever is on display, a step that takes it off is still to come: a recording is
\* shown until it is closed, a transcription until its clip has ended. What is
\* discarded unreported overran, or a cancel takes it off.
RestInv ==
  /\ \A id \in Ids : stage[id] = "discarding" =>
       auto_stopped[id] \/ server = At("cancel_join", id)
  /\ status.state = "recording" =>
       /\ status.by \in Ids
       /\ \/ stage[status.by] \in {"opening", "held", "taken", "discarding",
                                   "finishing", "empty", "full"}
          \/ auto_stopped[status.by] \/ Cancelling
  /\ status.state = "transcribing" =>
       /\ status.by \in Ids
       /\ \/ stage[status.by] \in {"transcribing", "accepted", "checking",
                                   "processing", "injecting", "ended"}
          \/ Cancelling

\* The parts together, with the safety invariants they support.
IInv ==
  /\ TypeOK
  /\ SlotInv /\ FreshInv /\ ServerInv /\ ReaderInv /\ CancelInv /\ ProbeInv
  /\ DeliverInv /\ RestInv
  /\ LiveRecordingShown /\ CancelledNotShown /\ PastedOnce

-----------------------------------------------------------------------------
(* What the documentation says and the code does not keep.                 *)

\* "paste one at a time, in order" (app.rs:16-17): a newer clip is never pasted
\* before an older one.
PastedInOrder == \A i, j \in DOMAIN pasted : i < j => pasted[i] < pasted[j]

\* "cancel discards the recording and every clip that has not started injecting"
\* (app.rs:18-19): an injection never begins for a cancelled clip.
CancelStopsInjection ==
  [][\A id \in Ids : stage[id] # "injecting" /\ stage'[id] = "injecting"
                     => id >= cancelled_below]_vars

-----------------------------------------------------------------------------
(* Liveness, under Fairness.                                               *)

\* A capture that ended on silence leaves the slot without any command.
SilenceEndsRecording ==
  \A id \in Ids : reader[id] = "silent" ~> stage[id] \notin {"opening", "held"}

\* Nobody waits for good. Every recording taken from its slot ends, whatever becomes of
\* its clip and of the ones around it, so no close waits on a reader that waits on it;
\* and the socket thread comes back from every command.
NothingWaitsForever ==
  /\ \A id \in Ids : stage[id] \notin {"unused", "opening", "held"} ~> stage[id] = "over"
  /\ server # Waiting ~> server = Waiting
=============================================================================
