-------------------------------- MODULE Settings --------------------------------
(***************************************************************************)
(* The settings screen (settings/): one thread that draws, handles a key,  *)
(* saves and restarts the service; a meter or a test dictation on the      *)
(* microphone; a thread that transcribes the test.                         *)
(***************************************************************************)
EXTENDS Machine

CONSTANTS
  Screen,          \* SETTINGS: the settings shown, in order
  OptionsOf        \* the values each of them offers

ASSUME ScreenAssumption == \A k \in 1 .. Len(Screen) : Screen[k] \in Keys /\ Len(OptionsOf[Screen[k]]) > 0

Shown == {Screen[k] : k \in 1 .. Len(Screen)}
Last == Len(Screen) + 1            \* the section after them, the history, is only looked at

VARIABLES
  window,          \* "closed", or what the screen's thread does next
  choices,         \* the values each setting offers on this screen
  chosen,          \* the value chosen for each setting
  section,         \* the focused section
  cursor,          \* the cursor's row in each setting's section
  dirty,           \* Form::dirty
  armed,           \* Form::quit_armed
  draft,           \* the text about to replace config.toml
  meter,           \* Mic::listening: the meter's capture, if there is one
  test,            \* Mic::testing: the test's capture, if there is one
  captures,        \* the pw-record processes that run
  answer,          \* the test's transcription: "none", "pending", "sent"
  kept,            \* history: the choices as loaded or last saved
  asked            \* history: the last key that the form was given was a quit

formVars == << choices, chosen, section, cursor, dirty, armed, kept, asked >>
micVars == << meter, test, captures, answer >>
settingsVars == << window, formVars, draft, micVars >>

Capture(source, use) == [source |-> source, use |-> use, full |-> FALSE]

OnMicrophone == section < Last /\ Screen[section] = "source"
Focused == Screen[section]
Highlighted == choices[Focused][cursor[Focused]]
IndexOf(seq, v) == CHOOSE k \in 1 .. Len(seq) : seq[k] = v

-----------------------------------------------------------------------------
\* No screen: nothing is chosen, no capture runs.
NoScreen ==
  /\ window' = "closed"
  /\ choices' = [s \in Shown |-> <<>>] /\ chosen' = [s \in Shown |-> ""]
  /\ section' = 1 /\ cursor' = [s \in Shown |-> 1]
  /\ dirty' = FALSE /\ armed' = FALSE /\ draft' = DefaultConfig
  /\ meter' = {} /\ test' = {} /\ captures' = {} /\ answer' = "none"
  /\ kept' = chosen' /\ asked' = FALSE

SettingsInit ==
  /\ window = "closed"
  /\ choices = [s \in Shown |-> <<>>] /\ chosen = [s \in Shown |-> ""]
  /\ section = 1 /\ cursor = [s \in Shown |-> 1]
  /\ dirty = FALSE /\ armed = FALSE /\ draft = DefaultConfig
  /\ meter = {} /\ test = {} /\ captures = {} /\ answer = "none"
  /\ kept = chosen /\ asked = FALSE

\* A loaded value that is not on a setting's list becomes one more choice.
Offered(s, c) ==
  LET list == OptionsOf[s]
  IN  IF \E k \in 1 .. Len(list) : list[k] = c.set[s] THEN list ELSE Append(list, c.set[s])

\* App::new, with the cursors on the chosen values.
OpenScreen ==
  /\ window = "closed" /\ Loads
  /\ user.screens > 0 /\ user' = [user EXCEPT !.screens = @ - 1]
  /\ window' = "tick"
  /\ choices' = [s \in Shown |-> Offered(s, config)]
  /\ chosen' = [s \in Shown |-> config.set[s]] /\ kept' = chosen'
  /\ section' = 1 /\ cursor' = [s \in Shown |-> IndexOf(choices'[s], chosen'[s])]
  /\ dirty' = FALSE /\ armed' = FALSE /\ asked' = FALSE
  /\ UNCHANGED << disk, config, author, unseen, bin, model, manager, service, draft, micVars >>

-----------------------------------------------------------------------------
\* Mutant: only the meter is stopped.
StopMeter == meter' = {} /\ UNCHANGED test /\ captures' = captures \ meter

\* Mic::stop: both captures are cancelled.
StopMic == meter' = {} /\ test' = {} /\ captures' = captures \ (meter \cup test)

\* Mic::listen: nothing during a test, or with a fresh meter on the source.
Listen(source) ==
  IF test # {} \/ \E c \in meter : c.source = source /\ ~c.full
  THEN UNCHANGED << meter, test, captures >>
  ELSE \/ StopMic
       \/ /\ meter' = {Capture(source, "meter")} /\ test' = {}
          /\ captures' = (captures \ (meter \cup test)) \cup meter'

\* Once per frame: the meter follows the cursor, a test's result is shown.
Tick ==
  /\ window = "tick" /\ window' = "input"
  /\ IF OnMicrophone THEN Listen(Highlighted) ELSE UNCHANGED << meter, test, captures >>
  /\ answer' = IF answer = "sent" THEN "none" ELSE answer
  /\ UNCHANGED << machineVars, formVars, draft >>

\* No key came before the next frame, or one that decode does not know: the form is not
\* given it, so a quit that was asked once stays asked, and its question shown.
NoKey ==
  /\ window = "input" /\ window' = "tick"
  /\ UNCHANGED << machineVars, formVars, draft, micVars >>

\* Mutant: another key leaves the question open.
PressKeepsArmed == window = "input" /\ asked' = FALSE /\ UNCHANGED armed

\* Form::handle: any key but a quit, of those that decode knows, takes the question back.
Press == window = "input" /\ asked' = FALSE /\ armed' = FALSE

\* on_moved: outside the microphone's section no capture runs.
OnMoved(k) ==
  IF k < Last /\ Screen[k] = "source" THEN UNCHANGED << meter, test, captures >> ELSE StopMic

\* One row up or down, in a setting's section.
MoveCursor ==
  /\ Press /\ window' = "tick"
  /\ \/ /\ section < Last
        /\ \E row \in {cursor[Focused] - 1, cursor[Focused] + 1} \cap 1 .. Len(choices[Focused]) :
             cursor' = [cursor EXCEPT ![Focused] = row]
        /\ OnMoved(section)
     \/ UNCHANGED << cursor, meter, test, captures >>          \* at the end of the list
  /\ UNCHANGED << machineVars, choices, chosen, section, dirty, kept, draft, answer >>

\* To the next section or the one before, around the ends.
MoveSection ==
  /\ Press /\ window' = "tick"
  /\ section' \in {1 + (section % Last), IF section = 1 THEN Last ELSE section - 1}
  /\ OnMoved(section')
  /\ UNCHANGED << machineVars, choices, chosen, cursor, dirty, kept, draft, answer >>

\* The value under the cursor is chosen.
Select ==
  /\ Press /\ window' = "tick"
  /\ IF section < Last /\ chosen[Focused] # Highlighted
     THEN chosen' = [chosen EXCEPT ![Focused] = Highlighted] /\ dirty' = TRUE
     ELSE UNCHANGED << chosen, dirty >>
  /\ UNCHANGED << machineVars, choices, section, cursor, kept, draft, micVars >>

\* toggle_test: nothing while a result is awaited; else start, or stop and transcribe
\* what was heard, if anything was.
TestKey ==
  /\ Press /\ window' = "tick"
  /\ CASE ~OnMicrophone \/ answer # "none" -> UNCHANGED micVars
       [] OnMicrophone /\ answer = "none" /\ test = {} ->
            /\ \/ StopMic
               \/ /\ meter' = {} /\ test' = {Capture(Highlighted, "test")}
                  /\ captures' = (captures \ meter) \cup test'
            /\ UNCHANGED answer
       [] OnMicrophone /\ answer = "none" /\ test # {} ->
            /\ test' = {} /\ captures' = captures \ test
            /\ answer' \in {"none", "pending"} /\ UNCHANGED meter
  /\ UNCHANGED << machineVars, choices, chosen, section, cursor, dirty, kept, draft >>

-----------------------------------------------------------------------------
\* apply: the file with the five settings set, everything else as it is.
Apply(c) == [c EXCEPT !.set = [k \in Keys |-> IF k \in Shown THEN chosen[k] ELSE @[k]]]

\* Mutant: what is in the file is validated, not what replaces it.
AcceptsOld(c) == Validate(c)

\* Keywords must be known ones, and the edited configuration one the daemon starts with.
Accepts(c) == Apply(c).set["engine"] \in Engines /\ Validate(Apply(c))

\* editable::save reads the file, if anything is unsaved.
SaveKey ==
  /\ Press
  /\ IF dirty /\ Loads /\ Accepts(config)
     THEN window' = "write" /\ draft' = Apply(config)
     ELSE window' = "tick" /\ UNCHANGED draft          \* nothing to save, or not saved
  /\ UNCHANGED << machineVars, choices, chosen, section, cursor, dirty, kept, micVars >>

\* The temporary file takes the place of config.toml, or the write fails.
WriteConfig ==
  /\ window = "write" /\ draft' = DefaultConfig
  /\ \/ /\ disk' = [disk EXCEPT !["config.toml"] = "whole"]
        /\ config' = draft /\ author' = "settings" /\ unseen' = unseen \cup {"config.toml"}
        /\ dirty' = FALSE /\ kept' = chosen
        /\ window' = "restart"
     \/ window' = "tick" /\ UNCHANGED << disk, config, author, unseen, dirty, kept >>
  /\ UNCHANGED << user, bin, model, manager, service,
                  choices, chosen, section, cursor, armed, asked, micVars >>

\* systemctl try-restart: a service that is off stays off; the call may fail.
RestartService ==
  /\ window = "restart" /\ window' = "tick"
  /\ \/ service # "off" /\ StartDaemon
     \/ UNCHANGED service
  /\ UNCHANGED << disk, config, author, unseen, user, bin, model, manager, formVars, draft, micVars >>

-----------------------------------------------------------------------------
\* With unsaved changes, the second of two presses, no other known key in between.
MayQuit == ~dirty \/ armed

QuitKey ==
  /\ window = "input"
  /\ IF MayQuit THEN NoScreen
     ELSE /\ armed' = TRUE /\ asked' = TRUE /\ window' = "tick"
          /\ UNCHANGED << choices, chosen, section, cursor, dirty, kept, draft, micVars >>
  /\ UNCHANGED machineVars

\* Ctrl-C, or the terminal is closed.
Leave == window # "closed" /\ NoScreen /\ UNCHANGED machineVars

\* A capture reaches its cap: the meter's is restarted, a test's just ends there.
CaptureFull ==
  /\ \E c \in captures :
       LET full == [c EXCEPT !.full = TRUE]
       IN  /\ ~c.full
           /\ captures' = (captures \ {c}) \cup {full}
           /\ meter' = IF c \in meter THEN {full} ELSE meter
           /\ test' = IF c \in test THEN {full} ELSE test
  /\ UNCHANGED << machineVars, window, formVars, draft, answer >>

\* The test's transcription ends, in some way, within the client's timeout.
Answered ==
  /\ answer = "pending" /\ answer' = "sent"
  /\ UNCHANGED << machineVars, window, formVars, draft, meter, test, captures >>

KeyPressed == MoveCursor \/ MoveSection \/ Select \/ TestKey \/ SaveKey \/ QuitKey
Saving == WriteConfig \/ RestartService
SettingsNext == OpenScreen \/ Tick \/ NoKey \/ KeyPressed \/ Saving \/ Leave \/ CaptureFull \/ Answered

SettingsTypeOK ==
  /\ window \in {"closed", "tick", "input", "write", "restart"}
  /\ section \in 1 .. Last
  /\ DOMAIN choices = Shown /\ DOMAIN chosen = Shown /\ DOMAIN kept = Shown
  /\ DOMAIN cursor = Shown
  /\ dirty \in BOOLEAN /\ armed \in BOOLEAN /\ asked \in BOOLEAN
  /\ IsConfig(draft)
  /\ answer \in {"none", "pending", "sent"}
=============================================================================
