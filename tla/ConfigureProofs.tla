---------------------------- MODULE ConfigureProofs ----------------------------
(***************************************************************************)
(* What setup, the settings screen, the user's editor and the service may  *)
(* never do to each other on one machine, for any engines, settings, files *)
(* and command lines, and however often each of them runs.                 *)
(***************************************************************************)
EXTENDS Configure, TLAPS

USE ConfigAssumption, EnginesAssumption, ScreenAssumption

(* The form: an armed quit was the last key it was given, and choices that differ from
   the saved ones are known to be unsaved. *)
FormInv == (armed => asked) /\ (chosen # kept => dirty)

(* The ranges of what the machine's parts share. *)
Ranges ==
  /\ disk \in [Files -> {"none", "torn", "whole"}]
  /\ bin \subseteq Engines
  /\ model \in [Engines -> {"none", "good", "other", "partial"}]
  /\ part \in [Engines -> {"none", "partial", "good", "other"}]
  /\ config.set["engine"] \in Engines /\ Engine \in Engines
  /\ bar \in [widget : BOOLEAN, voxtype : BOOLEAN]
  /\ shell \in [widget : BOOLEAN, voxtype : BOOLEAN]
  /\ removed \subseteq {"widget", "voxtype"}

(* What the user or the screen has written is a whole file, and what the screen has
   written, or is about to write, is a configuration the daemon starts with. *)
ConfigInv ==
  /\ author \in {"user", "settings"} => disk["config.toml"] = "whole"
  /\ author = "settings" => Validate(config)
  /\ window = "write" => draft.set["engine"] \in Engines /\ Validate(draft)

(* A download is complete before it is checked, and checked before it is renamed. *)
DownloadInv ==
  /\ phase \in {"check", "rename"} => part[Engine] \in {"good", "other"}
  /\ phase = "rename" /\ Engine \in Pinned => part[Engine] = "good"

(* The bar is only touched by setup while the widget is installed for the first time:
   until then the user has had nothing to take off it.  The layout it has read is the one
   that is there, but for what the user has changed since. *)
BarInv ==
  /\ bar.widget \/ ~bar.voxtype \/ removed # {} => disk["widget"] # "none"
  /\ phase \in {"first", "place", "look", "hide"} =>
       disk["widget"] # "none" /\ bar.voxtype /\ "voxtype" \notin removed
  /\ phase \in {"first", "place"} => ~bar.widget /\ removed = {}
  /\ phase = "hide" /\ "widget" \notin unseen => shell.widget = bar.widget

(* The config.toml that setup is about to create was missing when it looked, and is so
   still unless somebody has written it since. *)
SeedInv == At("config.toml", "create") /\ "config.toml" \notin unseen => disk["config.toml"] = "none"

IInv == /\ MicrophoneHeld /\ FormInv /\ Ranges /\ ConfigInv /\ DownloadInv /\ BarInv /\ SeedInv
        /\ ModelWhole

LEMMA InitIInv == Init => IInv
<1> SUFFICES ASSUME Init PROVE IInv
  OBVIOUS
<1>1. MicrophoneHeld /\ FormInv
  BY DEF Init, SettingsInit, MicrophoneHeld, FormInv
<1>2. Ranges
  <2>1. config.set["engine"] \in Engines /\ cfg.set["engine"] \in Engines
    BY DEF Init, MachineInit, SetupInit, IsConfig
  <2>2. disk \in [Files -> {"none", "torn", "whole"}] /\ bin \subseteq Engines
    BY DEF Init, MachineInit, Fresh, Installed, IsConfig
  <2>3. model \in [Engines -> {"none", "good", "other", "partial"}]
    BY DEF Init, MachineInit, Fresh, Installed
  <2>4. bar \in [widget : BOOLEAN, voxtype : BOOLEAN] /\ shell \in [widget : BOOLEAN, voxtype : BOOLEAN]
       /\ removed = {}
    BY DEF Init, SetupInit
  <2> QED BY <2>1, <2>2, <2>3, <2>4 DEF Ranges, Init, SetupInit, Engine
<1>3. ConfigInv /\ DownloadInv /\ BarInv /\ SeedInv
  BY DEF Init, MachineInit, Fresh, Installed, SetupInit, SettingsInit, ConfigInv, DownloadInv, BarInv, SeedInv, At
<1>4. ModelWhole
  BY DEF Init, MachineInit, Fresh, Installed, ModelWhole
<1> QED BY <1>1, <1>2, <1>3, <1>4 DEF IInv

-----------------------------------------------------------------------------
(* No key, frame, cap or failure breaks the screen's hold of the microphone. *)
LEMMA MicrophoneStep == MicrophoneHeld /\ [Next]_vars => MicrophoneHeld'
<1> SUFFICES ASSUME MicrophoneHeld, [Next]_vars PROVE MicrophoneHeld'
  OBVIOUS
<1> USE DEF MicrophoneHeld, OnMicrophone, Capture, settingsVars, formVars, micVars
<1>1. CASE UNCHANGED settingsVars
  BY <1>1
<1>2. CASE SettingsNext
  <2>1. CASE OpenScreen
    BY <2>1 DEF OpenScreen
  <2>2. CASE Tick
    BY <2>2 DEF Tick, Listen, StopMic
  <2>3. CASE NoKey \/ Select \/ SaveKey
    BY <2>3 DEF NoKey, Select, SaveKey, Press
  <2>4. CASE MoveCursor
    BY <2>4 DEF MoveCursor, Press, OnMoved, StopMic
  <2>5. CASE MoveSection
    BY <2>5 DEF MoveSection, Press, OnMoved, StopMic
  <2>6. CASE TestKey
    BY <2>6 DEF TestKey, Press, StopMic
  <2>7. CASE QuitKey \/ Leave
    BY <2>7 DEF QuitKey, Leave, NoScreen
  <2>8. CASE Saving
    BY <2>8 DEF Saving, WriteConfig, RestartService
  <2>9. CASE CaptureFull
    BY <2>9 DEF CaptureFull
  <2>10. CASE Answered
    BY <2>10 DEF Answered
  <2> QED BY <1>2, <2>1, <2>2, <2>3, <2>4, <2>5, <2>6, <2>7, <2>8, <2>9, <2>10 DEF SettingsNext, KeyPressed
<1> QED BY <1>1, <1>2 DEF Next, vars

(* Nothing makes the form forget that something is unsaved. *)
LEMMA FormStep == FormInv /\ [Next]_vars => FormInv'
<1> SUFFICES ASSUME FormInv, [Next]_vars PROVE FormInv'
  OBVIOUS
<1> USE DEF FormInv, settingsVars, formVars
<1>1. CASE UNCHANGED settingsVars
  BY <1>1
<1>2. CASE SettingsNext
  <2>1. CASE OpenScreen
    BY <2>1 DEF OpenScreen
  <2>2. CASE Tick \/ NoKey \/ CaptureFull \/ Answered
    BY <2>2 DEF Tick, NoKey, CaptureFull, Answered
  <2>3. CASE MoveCursor \/ MoveSection \/ Select \/ TestKey \/ SaveKey
    BY <2>3 DEF MoveCursor, MoveSection, Select, TestKey, SaveKey, Press
  <2>4. CASE QuitKey \/ Leave
    BY <2>4 DEF QuitKey, Leave, NoScreen
  <2>5. CASE Saving
    BY <2>5 DEF Saving, WriteConfig, RestartService
  <2> QED BY <1>2, <2>1, <2>2, <2>3, <2>4, <2>5 DEF SettingsNext, KeyPressed
<1> QED BY <1>1, <1>2 DEF Next, vars

-----------------------------------------------------------------------------
(* The invariants of the machine, which setup and everybody else share. *)
MachineInv == Ranges /\ ConfigInv /\ DownloadInv /\ BarInv /\ ModelWhole

SharedVars == << disk, config, author, unseen, bin, model, part, cfg, phase, layout, window, draft >>

LEMMA Unshared == MachineInv /\ UNCHANGED SharedVars => MachineInv'
<1> SUFFICES ASSUME MachineInv, UNCHANGED SharedVars PROVE MachineInv'
  OBVIOUS
<1> USE DEF MachineInv, SharedVars, layout
<1>1. Ranges' /\ ModelWhole' /\ DownloadInv'
  BY DEF Ranges, ModelWhole, DownloadInv, Engine
<1>2. ConfigInv'
  BY DEF ConfigInv, Validate
<1>3. BarInv'
  BY DEF BarInv
<1> QED BY <1>1, <1>2, <1>3

(* The parts of setup that build or download. *)
LEMMA InstallStep ==
  ASSUME MachineInv, EngineSteps \/ ModelSteps, UNCHANGED settingsVars
  PROVE  MachineInv'
<1> USE DEF MachineInv, Ranges, settingsVars, layout, machineVars
<1>1. CASE EngineBegin \/ Clone \/ Compile
  <2> USE DEF Continue, PartDone, Fail
  <2>1. bin \subseteq bin' /\ bin' \subseteq Engines
    BY <1>1 DEF EngineBegin, Clone, Compile, Builds
  <2>2. UNCHANGED << disk, config, author, model, part, cfg, unseen, layout, window, draft >>
    BY <1>1 DEF EngineBegin, Clone, Compile
  <2>3. phase' \in {"begin", "clone", "compile"}
    BY <1>1 DEF EngineBegin, Clone, Compile
  <2>4. ConfigInv'
    BY <2>1, <2>2 DEF ConfigInv, Validate
  <2> QED BY <2>1, <2>2, <2>3, <2>4 DEF DownloadInv, BarInv, ModelWhole, Engine
<1>2. CASE ModelBegin \/ Fetch \/ Check
  <2> USE DEF Continue, PartDone, Fail, Part, At
  <2>1. UNCHANGED << disk, config, author, model, bin, cfg, unseen, layout, window, draft >>
    BY <1>2 DEF ModelBegin, Fetch, Check
  <2>2. part' \in [Engines -> {"none", "partial", "good", "other"}]
    BY <1>2 DEF ModelBegin, Fetch, Check
  <2>3. DownloadInv' /\ phase' \in {"begin", "fetch", "check", "rename"}
    BY <1>2 DEF ModelBegin, Fetch, Check, DownloadInv, Engine
  <2>4. ConfigInv'
    BY <2>1 DEF ConfigInv, Validate
  <2> QED BY <2>1, <2>2, <2>3, <2>4 DEF BarInv, ModelWhole, Engine
<1>3. CASE RenameModel
  <2> USE DEF Continue, PartDone, Fail, Part, At
  <2>1. UNCHANGED << disk, config, author, bin, cfg, unseen, layout, window, draft >> /\ phase' = "begin"
    BY <1>3 DEF RenameModel
  <2>2. part' \in [Engines -> {"none", "partial", "good", "other"}]
    BY <1>3 DEF RenameModel
  <2>3. part[Engine] \in {"good", "other"} /\ (Engine \in Pinned => part[Engine] = "good")
    BY <1>3 DEF RenameModel, DownloadInv
  <2>4. model' = model \/ model' = [model EXCEPT ![Engine] = part[Engine]]
    BY <1>3 DEF RenameModel
  <2>5. /\ model' \in [Engines -> {"none", "good", "other", "partial"}]
        /\ ModelWhole'
        /\ \A e \in Engines : model[e] # "none" => model'[e] # "none"
    BY <2>3, <2>4 DEF ModelWhole
  <2>6. ConfigInv'
    BY <2>1, <2>5 DEF ConfigInv, Validate
  <2> QED BY <2>1, <2>2, <2>5, <2>6 DEF DownloadInv, BarInv, Engine
<1> QED BY <1>1, <1>2, <1>3 DEF EngineSteps, ModelSteps

(* What a step of setup may do to the files: create or fill one, config.toml only as seed
   does it. *)
Touch(f) ==
  \/ Create(f) /\ (f = "config.toml" => At(f, "create"))
  \/ Fill(f) /\ (f = "config.toml" => disk[f] = "torn")
  \/ UNCHANGED << disk, config, author >>

LEMMA TouchKeeps ==
  ASSUME Ranges, ConfigInv, NEW f \in Files, Touch(f)
  PROVE  /\ disk' \in [Files -> {"none", "torn", "whole"}] /\ config'.set["engine"] \in Engines
         /\ disk["widget"] # "none" => disk'["widget"] # "none"
         /\ SeedInv /\ author \in {"user", "settings"} /\ "config.toml" \notin unseen =>
              UNCHANGED << config, author, disk["config.toml"] >>
         /\ author' \in {"user", "settings"} => UNCHANGED << config, author, disk["config.toml"] >>
<1> USE DEF Ranges, ConfigInv, Files, Units, Seeds
<1>1. CASE Create(f) /\ (f = "config.toml" => At(f, "create"))
  BY <1>1 DEF Create, SeedInv
<1>2. CASE Fill(f) /\ (f = "config.toml" => disk[f] = "torn")
  BY <1>2 DEF Fill, IsConfig
<1>3. CASE UNCHANGED << disk, config, author >>
  BY <1>3
<1> QED BY <1>1, <1>2, <1>3 DEF Touch

FileSteps == SeedSteps \/ UnitSteps \/ PillBegin \/ PillFill \/ WidgetBegin \/ WidgetFill

LEMMA StepsTouch ==
  ASSUME FileSteps
  PROVE  \E f \in Files : Touch(f)
<1> USE DEF Touch, Files, Units, Seeds
<1>1. CASE SeedSteps
  BY <1>1 DEF SeedSteps, SeedBegin, SeedCreate, SeedFill
<1>2. CASE UnitSteps
  <2>1. PICK u \in Units : UnitBegin(u) \/ UnitFill(u) \/ UnitReload(u) \/ UnitEnable(u)
    BY <1>2 DEF UnitSteps
  <2>2. CASE UnitBegin(u)
    <3>1. CASE u = "ydotoold" /\ "ydotool" \notin host
      BY <2>2, <3>1 DEF UnitBegin
    <3>2. CASE ~(u = "ydotoold" /\ "ydotool" \notin host)
      BY <2>2, <3>2 DEF UnitBegin
    <3> QED BY <3>1, <3>2
  <2>3. CASE UnitFill(u)
    BY <2>3 DEF UnitFill
  <2>4. CASE UnitReload(u) \/ UnitEnable(u)
    BY <2>4 DEF UnitReload, UnitEnable, machineVars
  <2> QED BY <2>1, <2>2, <2>3, <2>4
<1>3. CASE PillBegin \/ PillFill
  <2>1. Touch("pill")
    BY <1>3 DEF PillBegin, PillFill
  <2> QED BY <2>1
<1>4. CASE WidgetBegin \/ WidgetFill
  <2>1. Touch("widget")
    BY <1>4 DEF WidgetBegin, WidgetFill, FirstInstall
  <2> QED BY <2>1
<1> QED BY <1>1, <1>2, <1>3, <1>4 DEF FileSteps

(* The parts of setup that write files, and the units' service. *)
LEMMA FilesStep ==
  ASSUME MachineInv, FileSteps, UNCHANGED settingsVars
  PROVE  MachineInv'
<1> USE DEF MachineInv, settingsVars
<1>1. UNCHANGED << bin, model, part, cfg, layout, window, draft >>
  BY DEF FileSteps, SeedSteps, UnitSteps, SeedBegin, SeedCreate, SeedFill, UnitBegin, UnitFill, UnitReload, UnitEnable,
     PillBegin, PillFill, WidgetBegin, WidgetFill, machineVars
<1>2. /\ disk' \in [Files -> {"none", "torn", "whole"}] /\ config'.set["engine"] \in Engines
      /\ disk["widget"] # "none" => disk'["widget"] # "none"
      /\ author' \in {"user", "settings"} => UNCHANGED << config, author, disk["config.toml"] >>
  BY StepsTouch, TouchKeeps
<1>3. Ranges' /\ ModelWhole'
  BY <1>1, <1>2 DEF Ranges, Engine, ModelWhole, layout
<1>4. ConfigInv'
  BY <1>1, <1>2 DEF ConfigInv, Validate
<1>5. phase' \notin {"check", "rename"}
  BY DEF FileSteps, SeedSteps, UnitSteps, SeedBegin, SeedCreate, SeedFill, UnitBegin, UnitFill, UnitReload, UnitEnable,
     PillBegin, PillFill, WidgetBegin, WidgetFill, Continue, PartDone, Fail
<1>6. /\ phase' \notin {"look", "hide"}
      /\ phase' \in {"first", "place"} =>
           /\ disk'["widget"] # "none" /\ bar'.voxtype /\ "voxtype" \notin removed'
           /\ ~bar'.widget /\ removed' = {}
  <2> USE DEF layout
  <2>1. CASE WidgetBegin
    BY <2>1, <1>1 DEF WidgetBegin, FirstInstall, Create, Continue, BarInv, Ranges, Files
  <2>2. CASE WidgetFill
    BY <2>2, <1>1 DEF WidgetFill, Fill, Continue, PartDone, At, BarInv, Ranges, Files
  <2>3. CASE SeedSteps \/ UnitSteps \/ PillBegin \/ PillFill
    BY <2>3 DEF SeedSteps, UnitSteps, SeedBegin, SeedCreate, SeedFill, UnitBegin, UnitFill, UnitReload, UnitEnable,
       PillBegin, PillFill, Continue, PartDone, Fail
  <2> QED BY <2>1, <2>2, <2>3 DEF FileSteps
<1> QED BY <1>1, <1>2, <1>3, <1>4, <1>5, <1>6 DEF DownloadInv, BarInv, layout

(* Permissions, and the bar. *)
LEMMA BarStep ==
  ASSUME MachineInv, Uinput \/ WidgetPlace \/ WidgetLook \/ WidgetHide \/ Rearrange, UNCHANGED settingsVars
  PROVE  MachineInv'
<1> USE DEF MachineInv, settingsVars, machineVars, layout
<1>1. UNCHANGED << disk, config, author, bin, model, part, cfg, window, draft >>
  BY DEF Uinput, WidgetPlace, WidgetLook, WidgetHide, Rearrange
<1>2. phase' = phase \/ phase' \in {"begin", "look", "hide"}
  BY DEF Uinput, WidgetPlace, WidgetLook, WidgetHide, Rearrange, Continue, PartDone, Fail
<1>3. /\ bar' \in [widget : BOOLEAN, voxtype : BOOLEAN]
      /\ shell' \in [widget : BOOLEAN, voxtype : BOOLEAN]
      /\ removed' \subseteq {"widget", "voxtype"}
  <2>1. CASE Uinput \/ Rearrange
    BY <2>1 DEF Uinput, Rearrange, Ranges
  <2>2. CASE WidgetPlace
    BY <2>2 DEF WidgetPlace, Ranges
  <2>3. CASE WidgetLook \/ WidgetHide
    BY <2>3 DEF WidgetLook, WidgetHide, Ranges
  <2> QED BY <2>1, <2>2, <2>3
<1>4. BarInv'
  <2>1. CASE Uinput
    BY <2>1 DEF Uinput, BarInv, PartDone, Fail
  <2>2. CASE WidgetPlace
    BY <2>2, <1>1 DEF WidgetPlace, BarInv, Ranges, At, Continue, PartDone
  <2>3. CASE WidgetLook
    BY <2>3, <1>1 DEF WidgetLook, BarInv, Ranges, At, Continue, PartDone
  <2>4. CASE WidgetHide
    BY <2>4, <1>1 DEF WidgetHide, BarInv, Ranges, At, PartDone
  <2>5. CASE Rearrange
    BY <2>5, <1>1 DEF Rearrange, BarInv, Ranges
  <2> QED BY <2>1, <2>2, <2>3, <2>4, <2>5
<1> QED BY <1>1, <1>2, <1>3, <1>4 DEF Ranges, ConfigInv, Validate, DownloadInv, ModelWhole, Engine

(* A run of setup begins or is interrupted; tools are installed. *)
LEMMA RunStep ==
  ASSUME MachineInv, StartSetup \/ Interrupt \/ InstallTools, UNCHANGED settingsVars
  PROVE  MachineInv'
<1>1. UNCHANGED << disk, config, author, bin, model, part, unseen, layout, window, draft >>
  BY DEF StartSetup, Interrupt, InstallTools, machineVars, settingsVars
<1>2. (UNCHANGED << cfg, phase >>) \/ (phase' = "begin" /\ cfg' \in {cfg, config})
  BY DEF StartSetup, Interrupt, InstallTools, Fail
<1> USE DEF MachineInv, layout
<1>3. Ranges' /\ ModelWhole' /\ DownloadInv'
  BY <1>1, <1>2 DEF Ranges, ModelWhole, DownloadInv, Engine
<1>4. ConfigInv'
  BY <1>1 DEF ConfigInv, Validate
<1>5. BarInv'
  BY <1>1, <1>2 DEF BarInv
<1> QED BY <1>3, <1>4, <1>5

(* The settings screen. *)
LEMMA ScreenStep ==
  ASSUME MachineInv, SettingsNext, UNCHANGED setupVars
  PROVE  MachineInv'
<1> USE DEF MachineInv, setupVars, layout
<1>1. CASE SaveKey
  <2>1. /\ UNCHANGED machineVars
        /\ \/ window' = "write" /\ Accepts(config) /\ draft' = Apply(config)
           \/ window' = "tick" /\ UNCHANGED draft
    BY <1>1 DEF SaveKey
  <2>2. ConfigInv'
    BY <2>1 DEF ConfigInv, Validate, Accepts, machineVars
  <2> QED BY <2>1, <2>2 DEF Ranges, DownloadInv, BarInv, ModelWhole, Engine, machineVars
<1>2. CASE WriteConfig
  <2>1. UNCHANGED << bin, model, part, cfg, phase, layout >> /\ window' # "write"
    BY <1>2 DEF WriteConfig
  <2>2. \/ /\ disk' = [disk EXCEPT !["config.toml"] = "whole"] /\ config' = draft /\ author' = "settings"
           /\ unseen \subseteq unseen'
           /\ draft.set["engine"] \in Engines /\ Validate(draft)
        \/ UNCHANGED << disk, config, author, unseen >>
    BY <1>2 DEF WriteConfig, ConfigInv
  <2> QED BY <2>1, <2>2, ZenonT(60) DEF Ranges, ConfigInv, Validate, DownloadInv, BarInv, ModelWhole, Engine, Files, Units, Seeds
<1>3. CASE OpenScreen \/ Tick \/ NoKey \/ MoveCursor \/ MoveSection \/ Select \/ TestKey \/ RestartService
           \/ QuitKey \/ Leave \/ CaptureFull \/ Answered
  <2>1. UNCHANGED << disk, config, author, unseen, bin, model, part, cfg, phase, layout >>
    BY <1>3 DEF OpenScreen, Tick, NoKey, MoveCursor, MoveSection, Select, TestKey, RestartService, QuitKey,
       Leave, CaptureFull, Answered, machineVars
  <2>2. window' # "write" \/ UNCHANGED << window, draft >>
    BY <1>3 DEF OpenScreen, Tick, NoKey, MoveCursor, MoveSection, Select, TestKey, RestartService, QuitKey,
       Leave, CaptureFull, Answered, NoScreen
  <2>3. Ranges' /\ ModelWhole' /\ DownloadInv'
    BY <2>1 DEF Ranges, ModelWhole, DownloadInv, Engine
  <2>4. ConfigInv'
    BY <2>1, <2>2 DEF ConfigInv, Validate
  <2> QED BY <2>1, <2>3, <2>4 DEF BarInv
<1> QED BY <1>1, <1>2, <1>3 DEF SettingsNext, KeyPressed, Saving

(* The user's editor, a login and systemd. *)
LEMMA OthersStep ==
  ASSUME MachineInv, HandEdit \/ LogIn \/ ServiceStep, UNCHANGED << setupVars, settingsVars >>
  PROVE  MachineInv'
<1> USE DEF MachineInv, setupVars, settingsVars, layout
<1>1. CASE HandEdit
  <2>1. /\ disk' = [disk EXCEPT !["config.toml"] = "whole"] /\ author' = "user"
        /\ unseen \subseteq unseen' /\ config'.set["engine"] \in Engines
        /\ UNCHANGED << bin, model, part, cfg, phase, layout, window, draft >>
    BY <1>1, ConfigAssumption DEF HandEdit, IsConfig
  <2>2. Ranges' /\ DownloadInv' /\ ModelWhole'
    BY <2>1 DEF Ranges, DownloadInv, ModelWhole, Engine
  <2>3. ConfigInv'
    BY <2>1 DEF Ranges, ConfigInv, Validate, Files, Seeds
  <2> QED BY <2>1, <2>2, <2>3 DEF BarInv, Ranges, Files, Seeds, Units
<1>2. CASE LogIn \/ ServiceStep
  <2>1. UNCHANGED SharedVars
    BY <1>2 DEF LogIn, ServiceStep, ServerReady, ServerFails, ServiceRetry, SharedVars
  <2> QED BY <2>1, Unshared
<1> QED BY <1>1, <1>2

LEMMA MachineStep == MachineInv /\ [Next]_vars => MachineInv'
<1> SUFFICES ASSUME MachineInv, [Next]_vars PROVE MachineInv'
  OBVIOUS
<1>1. CASE UNCHANGED vars
  BY <1>1, Unshared DEF vars, machineVars, setupVars, settingsVars, SharedVars, layout
<1>2. CASE SetupNext /\ UNCHANGED settingsVars
  BY <1>2, InstallStep, FilesStep, BarStep, RunStep DEF SetupNext, SetupStep, FileSteps, WidgetSteps
<1>3. CASE SettingsNext /\ UNCHANGED setupVars
  BY <1>3, ScreenStep
<1>4. CASE (HandEdit \/ LogIn \/ ServiceStep) /\ UNCHANGED << setupVars, settingsVars >>
  BY <1>4, OthersStep
<1> QED BY <1>1, <1>2, <1>3, <1>4 DEF Next

(* Between seed's look and its creation of config.toml, who writes the file is noticed. *)
LEMMA SeedStep == SeedInv /\ [Next]_vars => SeedInv'
<1> SUFFICES ASSUME SeedInv, [Next]_vars PROVE SeedInv'
  OBVIOUS
<1>1. CASE UNCHANGED vars
  BY <1>1 DEF vars, machineVars, setupVars, SeedInv, At
<1>2. CASE SeedSteps
  BY <1>2 DEF SeedSteps, SeedBegin, SeedCreate, SeedFill, Continue, PartDone, Fail, SeedInv, At
<1>3. CASE \/ EngineSteps \/ ModelSteps \/ Uinput \/ UnitSteps \/ PillBegin \/ PillFill \/ WidgetSteps
           \/ StartSetup \/ Interrupt
  <2>1. phase' # "create" \/ todo' = <<>>
    BY <1>3 DEF EngineSteps, ModelSteps, EngineBegin, Clone, Compile, ModelBegin, Fetch, Check, RenameModel, Uinput,
       UnitSteps, UnitBegin, UnitFill, UnitReload, UnitEnable, PillBegin, PillFill, WidgetSteps, WidgetBegin,
       WidgetFill, WidgetPlace, WidgetLook, WidgetHide, StartSetup, Interrupt, Continue, PartDone, Fail
  <2> QED BY <2>1 DEF SeedInv, At
<1>4. CASE SettingsNext /\ UNCHANGED setupVars
  <2>1. "config.toml" \in unseen' \/ UNCHANGED << disk, unseen >>
    BY <1>4 DEF SettingsNext, OpenScreen, Tick, NoKey, KeyPressed, MoveCursor, MoveSection, Select, TestKey, SaveKey,
       QuitKey, Saving, WriteConfig, RestartService, Leave, CaptureFull, Answered, machineVars
  <2> QED BY <1>4, <2>1 DEF SeedInv, At, setupVars
<1>5. CASE InstallTools \/ Rearrange
  BY <1>5 DEF InstallTools, Rearrange, machineVars, SeedInv, At
<1>6. CASE (HandEdit \/ LogIn \/ ServiceStep) /\ UNCHANGED << setupVars, settingsVars >>
  BY <1>6 DEF HandEdit, LogIn, ServiceStep, ServerReady, ServerFails, ServiceRetry, setupVars, SeedInv, At
<1> QED BY <1>1, <1>2, <1>3, <1>4, <1>5, <1>6 DEF Next, SetupNext, SetupStep

-----------------------------------------------------------------------------
(* The inductive invariant holds in every reachable state. *)
THEOREM Inductive == Spec => []IInv
<1>1. IInv /\ [Next]_vars => IInv'
  BY MicrophoneStep, FormStep, MachineStep, SeedStep DEF IInv, MachineInv
<1> QED BY <1>1, InitIInv, PTL DEF Spec

(* The settings screen holds at most one capture, and knows of it. *)
THEOREM MicrophoneIsHeld == Spec => []MicrophoneHeld
<1>1. IInv => MicrophoneHeld
  BY DEF IInv
<1> QED BY <1>1, Inductive, PTL

(* What the screen has saved is what the daemon starts with. *)
THEOREM SavedConfigIsGood == Spec => []SavedConfigStarts
<1>1. IInv => SavedConfigStarts
  BY DEF IInv, ConfigInv, SavedConfigStarts, CanStart, Loads
<1> QED BY <1>1, Inductive, PTL

(* No model is partial, and a pinned one is the published one. *)
THEOREM ModelIsWhole == Spec => []ModelWhole
<1>1. IInv => ModelWhole
  BY DEF IInv
<1> QED BY <1>1, Inductive, PTL

(* The quit key discards nothing unsaved unless it was asked twice, no key between that
   the screen knows. *)
THEOREM UnsavedIsKept == Spec => UnsavedKept
<1>1. IInv /\ [Next]_vars => [QuitKey /\ window' = "closed" => asked \/ chosen = kept]_vars
  BY DEF IInv, FormInv, QuitKey, MayQuit
<1> QED BY <1>1, Inductive, PTL DEF Spec, UnsavedKept

(* Setup leaves alone what the user and the screen had decided when it looked. *)
THEOREM UserChoicesAreKept == Spec => UserChoicesKept
<1>1. ASSUME IInv, SetupStep
      PROVE  /\ author \in {"user", "settings"} /\ "config.toml" \notin unseen =>
                  UNCHANGED << config, author, disk["config.toml"] >>
             /\ \A what \in removed \ unseen : bar'[what] = bar[what]
  <2> USE DEF IInv, machineVars, layout
  <2>1. CASE FileSteps
    <3>1. UNCHANGED bar
      BY <2>1 DEF FileSteps, SeedSteps, UnitSteps, SeedBegin, SeedCreate, SeedFill, UnitBegin, UnitFill, UnitReload,
         UnitEnable, PillBegin, PillFill, WidgetBegin, WidgetFill
    <3> QED BY <1>1, <3>1, <2>1, StepsTouch, TouchKeeps
  <2>2. CASE EngineSteps \/ ModelSteps \/ Uinput \/ WidgetLook
    BY <2>2 DEF EngineSteps, EngineBegin, Clone, Compile, ModelSteps, ModelBegin, Fetch, Check, RenameModel, Uinput,
       WidgetLook
  <2>3. CASE WidgetPlace
    BY <1>1, <2>3 DEF WidgetPlace, BarInv, At, Ranges
  <2>4. CASE WidgetHide
    <3>1. UNCHANGED << config, author, disk >> /\ bar' \in {bar, [shell EXCEPT !.voxtype = FALSE]}
      BY <2>4 DEF WidgetHide
    <3>2. "voxtype" \notin removed /\ ("widget" \notin unseen => shell.widget = bar.widget)
      BY <1>1, <2>4 DEF WidgetHide, At, BarInv
    <3>3. removed \subseteq {"widget", "voxtype"}
      BY <1>1 DEF Ranges
    <3>4. "widget" \notin unseen => bar'["widget"] = bar["widget"]
      BY <1>1, <3>1, <3>2 DEF Ranges
    <3> QED BY <3>1, <3>2, <3>3, <3>4
  <2> QED BY <1>1, <2>1, <2>2, <2>3, <2>4 DEF SetupStep, FileSteps, WidgetSteps
<1>2. IInv /\ [Next]_vars =>
        [SetupStep => /\ author \in {"user", "settings"} /\ "config.toml" \notin unseen =>
                           UNCHANGED << config, author, disk["config.toml"] >>
                      /\ \A what \in removed \ unseen : bar'[what] = bar[what]]_vars
  BY <1>1
<1> QED BY <1>2, Inductive, PTL DEF Spec, UserChoicesKept
-----------------------------------------------------------------------------
(* The bootstrap's work, however it is interrupted, repeated and disturbed.  A part of
   a run is left until the run is past it; when it is behind, its work stays made: only
   a run loads another configuration, and it has all its parts left. *)
AllParts == Files \cup {"engine", "model", "uinput"}
Left(p) == \E i \in 1 .. Len(todo) : todo[i] = p
Behind(p) == (todo # <<>> \/ outcome = "done") /\ ~Left(p)

(* What the daemon and its paste need of a run, and what each of those parts has to make.
   A unit file that was cut short is the one thing a later run does not make good, and
   one that would not start is left to the user. *)
Needed == {"engine", "model"}
          \cup (IF "no-ydotool" \in args THEN {} ELSE {"uinput"})
          \cup (IF "no-systemd" \in args THEN {} ELSE {"ydotoold", "whispy-daemon"})
Starts(u) == disk[u] = "whole" /\ u \notin told
Made(p) ==
  CASE p = "engine" -> Engine \in bin
    [] p = "model" -> model[Engine] # "none"
    [] p = "uinput" -> uinput
    [] p = "ydotoold" -> "ydotool" \in host /\ Starts("ydotoold") => "ydotoold" \in enabled
    [] OTHER -> Starts("whispy-daemon") => service # "off"

Bootstrap == args \cap Single = {}

BootInv ==
  /\ todo \in Seq(AllParts)
  /\ outcome = "done" => todo = <<>>
  /\ Bootstrap => \A p \in Needed : Behind(p) => Made(p)

LEMMA InitBootInv == Init => BootInv
  BY DEF Init, SetupInit, BootInv, Behind

(* Ending a part leaves the others as they were. *)
LEMMA EndsOne ==
  ASSUME todo \in Seq(AllParts), todo # <<>>, PartDone, NEW p, Behind(p)'
  PROVE  Behind(p) \/ p = Head(todo)
<1> SUFFICES ASSUME Left(p), p # Head(todo) PROVE Left(p)'
  BY DEF Behind
<1>1. PICK i \in 1 .. Len(todo) : todo[i] = p
  BY DEF Left
<1>2. i \in 2 .. Len(todo)
  BY <1>1
<1>3. i - 1 \in 1 .. Len(todo') /\ todo'[i - 1] = p
  BY <1>1, <1>2 DEF PartDone
<1> QED BY <1>3 DEF Left

(* A step goes on with the current part, ends it having made what it is for, or ends
   the run; and nothing that was made is lost. *)
LEMMA BootMoves ==
  ASSUME BootInv, UNCHANGED << cfg, args >>,
         \A p \in Needed : Behind(p) /\ Made(p) => Made(p)',
         \/ UNCHANGED << todo, outcome >>
         \/ Fail
         \/ todo # <<>> /\ PartDone /\ (Bootstrap => \A p \in Needed : p = Head(todo) => Made(p)')
  PROVE  BootInv'
<1>1. Needed' = Needed /\ Bootstrap' = Bootstrap
  BY DEF Needed, Bootstrap
<1>2. CASE UNCHANGED << todo, outcome >>
  <2>1. \A p : Behind(p)' = Behind(p)
    BY <1>2 DEF Behind, Left
  <2> QED BY <1>1, <1>2, <2>1 DEF BootInv
<1>3. CASE Fail
  BY <1>3 DEF Fail, Behind, BootInv
<1>4. CASE todo # <<>> /\ PartDone /\ (Bootstrap => \A p \in Needed : p = Head(todo) => Made(p)')
  <2>1. todo' \in Seq(AllParts) /\ (outcome' = "done" => todo' = <<>>)
    BY <1>4 DEF PartDone, BootInv
  <2>2. ASSUME Bootstrap, NEW p \in Needed, Behind(p)' PROVE Made(p)'
    <3>1. Behind(p) \/ p = Head(todo)
      BY <1>4, <2>2, EndsOne DEF BootInv
    <3>2. CASE Behind(p)
      <4>1. Made(p)
        BY <2>2, <3>2 DEF BootInv
      <4> QED BY <3>2, <4>1
    <3>3. CASE p = Head(todo)
      BY <1>4, <2>2, <3>3
    <3> QED BY <3>1, <3>2, <3>3
  <2> QED BY <1>1, <2>1, <2>2 DEF BootInv
<1> QED BY <1>2, <1>3, <1>4

(* Nothing made is lost while programs, models, permissions and services are only added
   to, and the units are not written. *)
Grows ==
  /\ UNCHANGED cfg /\ bin \subseteq bin' /\ (uinput => uinput')
  /\ \A e \in Engines : model[e] # "none" => model'[e] # "none"
  /\ enabled \subseteq enabled' /\ told \subseteq told' /\ (service # "off" => service' # "off")
  /\ "ydotool" \in host' => "ydotool" \in host
  /\ \A u \in Units : disk'[u] = "whole" => disk[u] = "whole" \/ Left(u)

LEMMA MadeStays ==
  ASSUME Ranges, Grows
  PROVE  \A p \in Needed : Behind(p) /\ Made(p) => Made(p)'
<1> USE DEF Grows
<1>1. Engine' = Engine /\ Engine \in Engines
  BY DEF Engine, Ranges
<1>2. /\ "whispy-daemon" \notin {"engine", "model", "uinput", "ydotoold"} /\ "engine" # "model"
      /\ "ydotoold" \notin {"engine", "model", "uinput"} /\ "uinput" \notin {"engine", "model"}
  OBVIOUS
<1>3. ASSUME Made("engine") PROVE Made("engine")'
  BY <1>1, <1>3 DEF Made
<1>4. ASSUME Made("model") PROVE Made("model")'
  BY <1>1, <1>2, <1>4 DEF Made
<1>5. ASSUME Made("uinput") PROVE Made("uinput")'
  BY <1>2, <1>5 DEF Made
<1>6. ASSUME NEW u \in {"ydotoold", "whispy-daemon"}, Behind(u), Starts(u)' PROVE Starts(u)
  BY <1>6 DEF Starts, Behind, Units
<1>7. ASSUME Behind("ydotoold"), Made("ydotoold") PROVE Made("ydotoold")'
  BY <1>2, <1>6, <1>7 DEF Made
<1>8. ASSUME Behind("whispy-daemon"), Made("whispy-daemon") PROVE Made("whispy-daemon")'
  BY <1>2, <1>6, <1>8 DEF Made
<1> QED BY <1>3, <1>4, <1>5, <1>7, <1>8 DEF Needed

(* The parts of setup that build or download. *)
LEMMA InstallBoot ==
  ASSUME MachineInv, BootInv, EngineSteps \/ ModelSteps
  PROVE  BootInv'
<1> USE DEF machineVars, units
<1>1. UNCHANGED << cfg, args, service, disk, host, uinput, enabled, told >>
  BY DEF EngineSteps, ModelSteps, EngineBegin, Clone, Compile, ModelBegin, Fetch, Check, RenameModel
<1>2. Engine \in Engines /\ Engine' = Engine
  BY <1>1 DEF MachineInv, Ranges, Engine
<1>3. CASE EngineSteps
  <2>1. bin \subseteq bin' /\ UNCHANGED model /\ todo # <<>> /\ Head(todo) = "engine"
    BY <1>3 DEF EngineSteps, EngineBegin, Clone, Compile, At
  <2>2. (UNCHANGED << todo, outcome >>) \/ Fail \/ (PartDone /\ Builds \in bin')
    BY <1>3 DEF EngineSteps, EngineBegin, Clone, Compile, Continue
  <2>3. Builds \in bin' /\ Bootstrap => \A p \in Needed : p = Head(todo) => Made(p)'
    <3>1. Bootstrap => Builds = Engine
      BY DEF Bootstrap, Single, Builds
    <3> QED BY <1>2, <2>1, <3>1 DEF Made
  <2>4. \A p \in Needed : Behind(p) /\ Made(p) => Made(p)'
    BY <1>1, <2>1, MadeStays DEF MachineInv, Grows
  <2> QED BY <1>1, <2>1, <2>2, <2>3, <2>4, BootMoves
<1>4. CASE ModelSteps
  <2>1. UNCHANGED bin /\ todo # <<>> /\ Head(todo) = "model"
    BY <1>4 DEF ModelSteps, ModelBegin, Fetch, Check, RenameModel, At
  <2>2. /\ \A e \in Engines : model[e] # "none" => model'[e] # "none"
        /\ (UNCHANGED << todo, outcome >>) \/ Fail \/ (PartDone /\ model'[Engine] # "none")
    <3>1. CASE ModelBegin \/ Fetch \/ Check
      BY <3>1 DEF ModelBegin, Fetch, Check, Continue, Present
    <3>2. CASE RenameModel
      <4>1. part[Engine] \in {"good", "other"}
        BY <3>2 DEF RenameModel, At, MachineInv, DownloadInv
      <4>2. Fail \/ (PartDone /\ model' = [model EXCEPT ![Engine] = part[Engine]])
        BY <3>2 DEF RenameModel
      <4>3. UNCHANGED model \/ model' = [model EXCEPT ![Engine] = part[Engine]]
        BY <3>2 DEF RenameModel
      <4> QED BY <1>2, <4>1, <4>2, <4>3 DEF MachineInv, Ranges
    <3> QED BY <1>4, <3>1, <3>2 DEF ModelSteps
  <2>3. PartDone /\ model'[Engine] # "none" => \A p \in Needed : p = Head(todo) => Made(p)'
    BY <1>2, <2>1 DEF Made
  <2>4. \A p \in Needed : Behind(p) /\ Made(p) => Made(p)'
    BY <1>1, <2>1, <2>2, MadeStays DEF MachineInv, Grows
  <2> QED BY <1>1, <2>1, <2>2, <2>3, <2>4, BootMoves
<1> QED BY <1>3, <1>4

(* The units: one that is whole is started when it is enabled, or the user is told. *)
LEMMA UnitBoot ==
  ASSUME MachineInv, BootInv, UnitSteps
  PROVE  BootInv'
<1> USE DEF machineVars, units
<1>1. PICK u \in Units : UnitBegin(u) \/ UnitFill(u) \/ UnitReload(u) \/ UnitEnable(u)
  BY DEF UnitSteps
<1>2. /\ UNCHANGED << cfg, args, bin, model, host, uinput >>
      /\ todo # <<>> /\ Head(todo) = u /\ u \notin {"engine", "model", "uinput"}
  BY <1>1 DEF UnitBegin, UnitFill, UnitReload, UnitEnable, At, Units
<1>3. disk' = disk \/ (disk' = [disk EXCEPT ![u] = "torn"]) \/ (disk' = [disk EXCEPT ![u] = "whole"])
  BY <1>1 DEF UnitBegin, UnitFill, UnitReload, UnitEnable, Create, Fill
<1>4. \A v \in Units : disk'[v] = "whole" => disk[v] = "whole" \/ Left(v)
  <2> SUFFICES ASSUME NEW v \in Units, disk'[v] = "whole" PROVE disk[v] = "whole" \/ Left(v)
    OBVIOUS
  <2>1. CASE u = v
    <3>1. 1 \in 1 .. Len(todo) /\ todo[1] = u
      BY <1>2 DEF BootInv
    <3> QED BY <2>1, <3>1 DEF Left
  <2>2. CASE u # v
    BY <1>3, <2>2 DEF MachineInv, Ranges, Files, Units
  <2> QED BY <2>1, <2>2
<1>5. /\ service # "off" => service' # "off"
      /\ enabled \subseteq enabled' /\ told \subseteq told'
  BY <1>1 DEF UnitBegin, UnitFill, UnitReload, UnitEnable, StartDaemon
<1>6. \A p \in Needed : Behind(p) /\ Made(p) => Made(p)'
  BY <1>2, <1>4, <1>5, MadeStays DEF MachineInv, Grows
<1>7. \/ UNCHANGED << todo, outcome >>
      \/ Fail
      \/ PartDone /\ (u \in {"ydotoold", "whispy-daemon"} => Made(u)')
  <2>1. CASE UnitBegin(u) /\ u = "ydotoold" /\ "ydotool" \notin host
    <3>1. PartDone /\ "ydotool" \notin host'
      BY <1>2, <2>1 DEF UnitBegin
    <3> QED BY <2>1, <3>1 DEF Made
  <2>2. CASE UnitBegin(u) /\ ~(u = "ydotoold" /\ "ydotool" \notin host)
    BY <2>2 DEF UnitBegin, Continue
  <2>3. CASE UnitFill(u) \/ UnitReload(u)
    BY <2>3 DEF UnitFill, UnitReload, Continue
  <2>4. CASE UnitEnable(u)
    <3>1. PartDone /\ (u \in told' \/ (u \in enabled' /\ (u = "whispy-daemon" => service' # "off")))
      BY <2>4, Zenon DEF UnitEnable, StartDaemon
    <3> QED BY <1>2, <3>1 DEF Made, Starts
  <2> QED BY <1>1, <2>1, <2>2, <2>3, <2>4
<1>8. PartDone /\ (u \in {"ydotoold", "whispy-daemon"} => Made(u)') => \A p \in Needed : p = Head(todo) => Made(p)'
  BY <1>2 DEF Needed
<1> QED BY <1>2, <1>6, <1>7, <1>8, BootMoves

(* The other parts: permissions, and files that the daemon does not need. *)
LEMMA OtherBoot ==
  ASSUME MachineInv, BootInv, Uinput \/ SeedSteps \/ PillBegin \/ PillFill \/ WidgetSteps
  PROVE  BootInv'
<1> USE DEF machineVars, units
<1>1. /\ UNCHANGED << cfg, args, bin, model, service, host, enabled, told >>
      /\ todo # <<>> /\ Head(todo) \in Seeds \cup {"uinput", "pill", "widget"}
      /\ Head(todo) # "uinput" => UNCHANGED uinput
  BY DEF Uinput, SeedSteps, SeedBegin, SeedCreate, SeedFill, PillBegin, PillFill, WidgetSteps, WidgetBegin,
     WidgetFill, WidgetPlace, WidgetLook, WidgetHide, At, Seeds
<1>2. \E f \in Seeds \cup {"pill", "widget"} : Create(f) \/ Fill(f) \/ UNCHANGED disk
  BY DEF Uinput, SeedSteps, SeedBegin, SeedCreate, SeedFill, PillBegin, PillFill, WidgetSteps, WidgetBegin,
     WidgetFill, WidgetPlace, WidgetLook, WidgetHide
<1>3. \A u \in Units : disk'[u] = disk[u]
  BY <1>2 DEF Create, Fill, Files, Units, Seeds, MachineInv, Ranges
<1>4. uinput => uinput'
  BY <1>1 DEF Uinput, SeedSteps, SeedBegin, SeedCreate, SeedFill, PillBegin, PillFill, WidgetSteps, WidgetBegin,
     WidgetFill, WidgetPlace, WidgetLook, WidgetHide
<1>5. \A p \in Needed : Behind(p) /\ Made(p) => Made(p)'
  BY <1>1, <1>3, <1>4, MadeStays DEF MachineInv, Grows
<1>6. \/ UNCHANGED << todo, outcome >>
      \/ Fail
      \/ PartDone /\ (Head(todo) = "uinput" => uinput')
  BY <1>1 DEF Uinput, SeedSteps, SeedBegin, SeedCreate, SeedFill, PillBegin, PillFill, WidgetSteps, WidgetBegin,
     WidgetFill, WidgetPlace, WidgetLook, WidgetHide, Continue, At, Seeds
<1>7. (Head(todo) = "uinput" => uinput') => \A p \in Needed : p = Head(todo) => Made(p)'
  <2>1. \A p \in Needed : p = Head(todo) => p = "uinput"
    BY <1>1 DEF Needed, Seeds
  <2>2. uinput' => Made("uinput")'
    BY DEF Made
  <2> QED BY <2>1, <2>2
<1> QED BY <1>1, <1>5, <1>6, <1>7, BootMoves

LEMMA Joined ==
  ASSUME NEW S, NEW s \in Seq(S), NEW t \in Seq(S)
  PROVE  /\ \A k \in 1 .. Len(s) : k \in 1 .. Len(s) + Len(t) /\ (s \o t)[k] = s[k]
         /\ \A k \in 1 .. Len(t) : Len(s) + k \in 1 .. Len(s) + Len(t) /\ (s \o t)[Len(s) + k] = t[k]
  OBVIOUS

(* A run begins, with all its parts left, or is interrupted; tools and the bar. *)
LEMMA FullHasAll ==
  ASSUME NEW options,
         NEW p \in {"engine", "model"}
                  \cup (IF "no-ydotool" \in options THEN {} ELSE {"uinput"})
                  \cup (IF "no-systemd" \in options THEN {} ELSE {"ydotoold", "whispy-daemon"})
  PROVE  /\ Full(options) \in Seq(AllParts)
         /\ \E i \in 1 .. Len(Full(options)) : Full(options)[i] = p
<1> DEFINE first == << "engine", "model" >>
           perms == IF "no-ydotool" \in options THEN <<>> ELSE << "uinput" >>
           seeds == << "config.toml", "hallucinations.toml" >>
           services == UnitsOf(options)
           pill == PillOf(options)
           widget == IF "omarchy" \in options /\ Server = "wayland" THEN << "widget" >> ELSE <<>>
           head == (first \o perms) \o seeds
<1> USE DEF AllParts, Files, Units, Seeds
<1>1. first \in Seq(AllParts) /\ seeds \in Seq(AllParts)
  OBVIOUS
<1>2. perms \in Seq(AllParts) /\ widget \in Seq(AllParts)
  <2>1. << "uinput" >> \in Seq(AllParts) /\ << "widget" >> \in Seq(AllParts) /\ <<>> \in Seq(AllParts)
    OBVIOUS
  <2> QED BY <2>1
<1>3. services \in Seq(AllParts) /\ pill \in Seq(AllParts)
  <2>1. /\ << "ydotoold", "whispy-daemon" >> \in Seq(AllParts) /\ <<>> \in Seq(AllParts)
        /\ << "pill", "shell.qml" >> \in Seq(AllParts) /\ << "whispy-pill" >> \in Seq(AllParts)
    OBVIOUS
  <2>2. \A s, t \in Seq(AllParts) : s \o t \in Seq(AllParts)
    OBVIOUS
  <2>3. services \in Seq(AllParts)
    BY <2>1 DEF UnitsOf
  <2>4. pill \in Seq(AllParts)
    BY <2>1, <2>2 DEF PillOf, PillParts
  <2> QED BY <2>3, <2>4
<1>4. /\ head \in Seq(AllParts) /\ Len(head) >= 2 /\ head[1] = "engine" /\ head[2] = "model"
      /\ "no-ydotool" \notin options => Len(head) >= 3 /\ head[3] = "uinput"
  BY <1>1, <1>2
<1>5. Full(options) = ((head \o services) \o pill) \o widget
  BY DEF Full
<1>6. ASSUME NEW k \in 1 .. Len(head) + Len(services)
      PROVE  k \in 1 .. Len(Full(options)) /\ Full(options)[k] = (head \o services)[k]
  <2> HIDE DEF first, perms, seeds, services, pill, widget, head
  <2> QED BY <1>2, <1>3, <1>4, <1>5
<1>7. Full(options) \in Seq(AllParts)
  <2> HIDE DEF first, perms, seeds, services, pill, widget, head
  <2> QED BY <1>2, <1>3, <1>4, <1>5
<1>8. CASE p \in {"engine", "model", "uinput"}
  <2>1. PICK k \in {1, 2, 3} : k <= Len(head) /\ p = head[k]
    <3>1. p = "uinput" => "no-ydotool" \notin options
      OBVIOUS
    <3> HIDE DEF services, head, pill, AllParts
    <3> QED BY <1>4, <1>8, <3>1
  <2>2. k \in 1 .. Len(head) + Len(services) /\ (head \o services)[k] = p
    <3>1. k \in 1 .. Len(head)
      <4> HIDE DEF services, head, pill, AllParts
      <4> QED BY <1>4, <2>1
    <3> HIDE DEF services, head, pill, AllParts
    <3> QED BY <1>3, <1>4, <2>1, <3>1, Joined
  <2> HIDE DEF first, perms, seeds, services, pill, widget, head
  <2> QED BY <1>6, <1>7, <2>2
<1>9. CASE p \in {"ydotoold", "whispy-daemon"}
  <2>1. services = << "ydotoold", "whispy-daemon" >>
    BY <1>9 DEF UnitsOf
  <2>2. PICK k \in {1, 2} : services[k] = p
    BY <1>9, <2>1
  <2>3. k \in 1 .. Len(services)
    BY <2>1
  <2>4. Len(head) + k \in 1 .. Len(head) + Len(services) /\ (head \o services)[Len(head) + k] = p
    <3> HIDE DEF services, head, pill, AllParts
    <3> QED BY <1>3, <1>4, <2>2, <2>3, Joined
  <2> HIDE DEF first, perms, seeds, services, pill, widget, head
  <2> QED BY <1>6, <1>7, <2>4
<1> QED BY <1>8, <1>9

LEMMA RunBoot ==
  ASSUME MachineInv, BootInv, StartSetup \/ Interrupt \/ InstallTools \/ Rearrange
  PROVE  BootInv'
<1> USE DEF machineVars, units
<1>1. CASE StartSetup /\ Loads
  <2>1. PICK options \in user.options : args' = options /\ todo' = Parts(options)
    BY <1>1 DEF StartSetup
  <2>2. todo' \in Seq(AllParts)
    <3>1. Full(options) \in Seq(AllParts)
      BY FullHasAll
    <3>2. /\ << "model" >> \in Seq(AllParts) /\ << "engine" >> \in Seq(AllParts)
          /\ << "uinput" >> \in Seq(AllParts) /\ << "widget" >> \in Seq(AllParts)
          /\ << "config.toml", "hallucinations.toml", "whispy-daemon" >> \in Seq(AllParts)
      BY DEF AllParts, Files, Units, Seeds
    <3>3. PillParts(options) \in Seq(AllParts)
      <4>1. /\ <<>> \in Seq(AllParts) /\ << "pill", "shell.qml" >> \in Seq(AllParts)
            /\ << "whispy-pill" >> \in Seq(AllParts)
        BY DEF AllParts, Files, Units, Seeds
      <4>2. \A s, t \in Seq(AllParts) : s \o t \in Seq(AllParts)
        OBVIOUS
      <4> QED BY <4>1, <4>2 DEF PillParts
    <3> QED BY <2>1, <3>1, <3>2, <3>3 DEF Parts
  <2>3. outcome' = "none"
    BY <1>1 DEF StartSetup
  <2>4. ASSUME Bootstrap', NEW p \in Needed' PROVE Left(p)'
    <3>1. todo' = Full(options)
      BY <2>1, <2>4 DEF Bootstrap, Parts, Single
    <3>2. \E i \in 1 .. Len(Full(options)) : Full(options)[i] = p
      BY <2>1, <2>4, FullHasAll DEF Needed
    <3> QED BY <3>1, <3>2 DEF Left
  <2> QED BY <2>2, <2>3, <2>4 DEF BootInv, Behind
<1>2. CASE StartSetup /\ ~Loads
  BY <1>2 DEF StartSetup, BootInv, Behind
<1>3. CASE Interrupt
  BY <1>3 DEF Interrupt, Fail, BootInv, Behind
<1>4. CASE InstallTools \/ Rearrange
  <2>1. /\ UNCHANGED << disk, bin, model, service, todo, outcome, cfg, args, uinput, units >>
        /\ "ydotool" \in host' => "ydotool" \in host
    BY <1>4 DEF InstallTools, Rearrange, VulkanNeeds, CargoNeeds
  <2> QED BY <2>1, MadeStays, BootMoves DEF MachineInv, Grows
<1> QED BY <1>1, <1>2, <1>3, <1>4

(* The settings screen, the user's editor, a login and systemd: a service that is on
   is at most started again. *)
LEMMA RestBoot ==
  ASSUME MachineInv, BootInv, SettingsNext \/ HandEdit \/ LogIn \/ ServiceStep, UNCHANGED setupVars
  PROVE  BootInv'
<1> USE DEF setupVars, units
<1>1. /\ UNCHANGED << bin, model >>
      /\ service # "off" => service' # "off"
      /\ disk' = disk \/ (disk' = [disk EXCEPT !["config.toml"] = "whole"])
  <2>1. CASE HandEdit \/ LogIn \/ ServiceStep
    BY <2>1 DEF HandEdit, LogIn, ServiceStep, ServerReady, ServerFails, ServiceRetry, StartDaemon
  <2>2. CASE Saving
    BY <2>2 DEF Saving, WriteConfig, RestartService, StartDaemon
  <2>3. CASE SettingsNext /\ ~Saving
    <3>1. UNCHANGED << disk, bin, model, service >>
      BY <2>3 DEF SettingsNext, OpenScreen, Tick, NoKey, KeyPressed, MoveCursor, MoveSection, Select, TestKey,
         SaveKey, QuitKey, Leave, CaptureFull, Answered, machineVars
    <3> QED BY <3>1
  <2> QED BY <2>1, <2>2, <2>3
<1>2. \A u \in Units : disk'[u] = disk[u]
  BY <1>1 DEF MachineInv, Ranges, Files, Units, Seeds
<1>3. \A p \in Needed : Behind(p) /\ Made(p) => Made(p)'
  BY <1>1, <1>2, MadeStays DEF MachineInv, Grows
<1> QED BY <1>3, BootMoves

LEMMA BootStep == MachineInv /\ BootInv /\ [Next]_vars => BootInv'
<1> SUFFICES ASSUME MachineInv, BootInv, [Next]_vars PROVE BootInv'
  OBVIOUS
<1>1. CASE UNCHANGED vars
  BY <1>1 DEF vars, machineVars, setupVars, units, BootInv, Behind, Left, Made, Starts, Needed, Bootstrap, Engine
<1>2. CASE SetupNext /\ UNCHANGED settingsVars
  BY <1>2, InstallBoot, UnitBoot, OtherBoot, RunBoot DEF SetupNext, SetupStep
<1>3. CASE SettingsNext /\ UNCHANGED setupVars
  BY <1>3, RestBoot
<1>4. CASE (HandEdit \/ LogIn \/ ServiceStep) /\ UNCHANGED << setupVars, settingsVars >>
  BY <1>4, RestBoot
<1> QED BY <1>1, <1>2, <1>3, <1>4 DEF Next

(* As long as nothing has touched what a finished bootstrap found and made, and it left
   the user nothing to do, all that verify looks at is there but what waits for the
   daemon's server: and the daemon has a configuration it starts with, and was started. *)
THEOREM DoneIsReady ==
  Spec => [](Undisturbed =>
               Looked \ {"daemon", "stt http"} \subseteq Report /\ CanStart /\ service # "off")
<1>1. BootInv /\ Undisturbed =>
        Looked \ {"daemon", "stt http"} \subseteq Report /\ CanStart /\ service # "off"
  <2> SUFFICES ASSUME BootInv, Undisturbed
               PROVE  Looked \ {"daemon", "stt http"} \subseteq Report /\ CanStart /\ service # "off"
    OBVIOUS
  <2>1. /\ Bootstrap /\ {"engine", "model", "ydotoold", "whispy-daemon"} \subseteq Needed
        /\ "no-ydotool" \notin args => "uinput" \in Needed
    BY DEF Undisturbed, Bootstrap, Needed
  <2>2. \A p : Behind(p)
    <3>1. outcome = "done" /\ todo = <<>>
      BY DEF Undisturbed, BootInv
    <3>2. \A p : ~Left(p)
      BY <3>1 DEF Left
    <3> QED BY <3>1, <3>2 DEF Behind
  <2>3. /\ Made("engine") /\ Made("model") /\ Made("ydotoold") /\ Made("whispy-daemon")
        /\ "no-ydotool" \notin args => Made("uinput")
    BY <2>1, <2>2 DEF BootInv
  <2>4. /\ Engine \in bin /\ model[Engine] # "none" /\ service # "off"
        /\ cfg.set["mode"] = "paste" => "ydotoold" \in enabled /\ uinput
    BY <2>3 DEF Made, Starts, Undisturbed
  <2> QED BY <2>4 DEF Undisturbed, Looked, Report, CanStart, Validate, Engine
<1>2. IInv => MachineInv
  BY DEF IInv, MachineInv
<1>3. BootInv /\ IInv /\ [Next]_vars => BootInv'
  BY <1>2, BootStep
<1> QED BY <1>1, <1>3, InitBootInv, Inductive, PTL DEF Spec
=============================================================================
