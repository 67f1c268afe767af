--------------------------------- MODULE Bar ---------------------------------
(***************************************************************************)
(* The bar module (ui/omarchy/whispy.qml) that shows the state the daemon  *)
(* publishes: it watches state.json, holds a success or an error mark for  *)
(* a moment, and drops a recording that is not refreshed.  Time is left    *)
(* open: a hold or a silence may pass at any moment.                       *)
(***************************************************************************)
EXTENDS StatusFile

VARIABLES
  seen,            \* the contents of state.json last loaded
  dictationState,  \* what the bar shows
  hold             \* the hold timer is running

barVars == << seen, dictationState, hold >>
allVars == << vars, barVars >>

BarInit == Init /\ seen = Absent /\ dictationState = "idle" /\ hold = FALSE

\* Mutant: the hold timer of an earlier mark is not stopped.
ApplyKeepsHold(state, stale) ==
  /\ dictationState' = IF state = "recording" /\ stale THEN "idle" ELSE state
  /\ hold' = (state \in Flashes \/ hold)

\* apply: show the state, unless it is a recording that is too old; a mark
\* starts the hold timer, anything else stops it.
Apply(state, stale) ==
  /\ dictationState' = IF state = "recording" /\ stale THEN "idle" ELSE state
  /\ hold' = (state \in Flashes)

\* The watch fires. A half-read file would keep what is shown.
Reload(stale) ==
  /\ seen # file
  /\ seen' = file
  /\ IF file = Empty THEN UNCHANGED << dictationState, hold >>
                     ELSE Apply(file.state, stale)
  /\ UNCHANGED vars

HoldEnds ==
  /\ hold
  /\ hold' = FALSE /\ dictationState' = "idle"
  /\ UNCHANGED << vars, seen >>

\* Mutant: the ticker that drops a stale recording is missing.
NeverStale == FALSE /\ UNCHANGED allVars

\* The ticker finds that a recording has not been refreshed for too long.
GoesStale ==
  /\ dictationState = "recording"
  /\ dictationState' = "idle"
  /\ UNCHANGED << vars, seen, hold >>

BarStep == (\E stale \in BOOLEAN : Reload(stale)) \/ HoldEnds \/ GoesStale

BarNext == (Next /\ UNCHANGED barVars) \/ BarStep

BarSpec ==
  /\ BarInit /\ [][BarNext]_allVars
  /\ \A t \in Threads : WF_allVars(Continue(t) /\ UNCHANGED barVars)
  /\ WF_allVars(Timer /\ UNCHANGED barVars)
  /\ WF_allVars(\E stale \in BOOLEAN : Reload(stale))
  /\ WF_allVars(HoldEnds)
  /\ WF_allVars(GoesStale)

-----------------------------------------------------------------------------
\* Once the daemon writes no more, because it is idle, dead, or its last writes
\* failed, the bar comes to rest: no mark and no recording stays on it, and a
\* clip in transcription is still shown (whispy.qml:51-53, 159-161).
BarSettles ==
  <>[] /\ dictationState \notin Flashes \cup {"recording"}
       /\ file.state = "transcribing" =>
            dictationState = "transcribing"
=============================================================================
