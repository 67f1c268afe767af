--------------------------------- MODULE Setup ---------------------------------
(***************************************************************************)
(* `whispy-daemon setup` (setup.rs, host.rs, display.rs): the parts of the *)
(* bootstrap in order, each skipped when it finds its work done.  A part   *)
(* is one to six steps; setup may be killed between any two of them, and   *)
(* run again.  Tools it runs may fail.                                     *)
(***************************************************************************)
EXTENDS Machine

CONSTANTS
  Backend,         \* stt.backend: "auto", "vulkan" or "cpu"
  Display          \* injection.backend, and the environment's two displays

VARIABLES
  part,            \* each engine's download in progress, <model>.part
  tree,            \* whisper.cpp's source tree is there
  host,            \* the build tools and libraries the machine has
  todo,            \* the parts left, the current one first; empty when setup is not run
  phase,           \* how far the current part is
  cfg,             \* the configuration setup loaded
  args,            \* its command line
  outcome,         \* how the last run ended
  uinput,          \* the user may write to uinput
  enabled,         \* the units that systemctl has enabled and started
  told,            \* those this run could not, and told the user to
  bar,             \* what Omarchy's bar shows: the widget, Voxtype's indicator
  shell,           \* the bar's layout, shell.json, as setup has read it
  removed          \* history: what the user has taken off the bar, or put back on it

units == << enabled, told >>
layout == << bar, shell, removed >>
setupVars == << part, tree, host, todo, phase, cfg, args, outcome, uinput, units, layout >>

Engine == cfg.set["engine"]

-----------------------------------------------------------------------------
\* Which display server the session has: an override, else Wayland before X11.
Resolve(over, wayland, x) ==
  CASE over \in {"wayland", "x11"} -> over
    [] over = "auto" /\ wayland -> "wayland"
    [] over = "auto" /\ ~wayland /\ x -> "x11"
    [] OTHER -> "none"

Server == LET found == Resolve(Display.over, Display.wayland, Display.x)
          IN  IF found = "none" THEN "wayland" ELSE found

\* resolve_backend: auto takes Vulkan when the machine has its loader.
BuildBackend ==
  IF Backend = "vulkan" \/ (Backend = "auto" /\ "libvulkan" \in host) THEN "vulkan" ELSE "cpu"

VulkanNeeds == {"libvulkan", "cmake", "glslc", "vulkan.h", "spirv.hpp"}
CargoNeeds == {"cargo", "cmake", "c++"}

\* What a build refuses to begin without.
BuildNeeds(e) == (IF BuildBackend = "vulkan" THEN VulkanNeeds ELSE {})
                 \cup (IF e = "parakeet" THEN CargoNeeds ELSE {})

\* The parts of a command line, in order: one part on its own, or the full bootstrap.
UnitsOf(options) == IF "no-systemd" \in options THEN <<>> ELSE << "ydotoold", "whispy-daemon" >>
PillParts(options) ==
  << "pill", "shell.qml" >> \o (IF "no-pill" \in options THEN <<>> ELSE << "whispy-pill" >>)
PillOf(options) ==
  IF Server = "x11" \/ {"quickshell", "quickshell installed"} \cap options = {} THEN <<>>
  ELSE PillParts(options)
Full(options) ==
  << "engine", "model" >>
  \o (IF "no-ydotool" \in options THEN <<>> ELSE << "uinput" >>)
  \o << "config.toml", "hallucinations.toml" >>
  \o UnitsOf(options) \o PillOf(options)
  \o (IF "omarchy" \in options /\ Server = "wayland" THEN << "widget" >> ELSE <<>>)

\* The steps that can be run alone; those that only print are left out.
Single == {"only whisper", "only stt", "only model", "only ydotool", "only systemd",
           "only quickshell", "only omarchy"}
Parts(options) ==
  CASE options \cap {"only whisper", "only stt"} # {} -> << "engine" >>
    [] "only model" \in options -> << "model" >>
    [] "only ydotool" \in options -> << "uinput" >>
    [] "only systemd" \in options -> << "config.toml", "hallucinations.toml", "whispy-daemon" >>
    [] "only quickshell" \in options -> PillParts(options)
    [] "only omarchy" \in options -> << "widget" >>
    [] OTHER -> Full(options)

\* The engine a run builds: the one named on the command line, else the configured one.
Builds == CASE "only whisper" \in args -> "whisper"
            [] "only stt" \in args -> "parakeet"
            [] OTHER -> Engine

-----------------------------------------------------------------------------
SetupInit ==
  /\ part = [e \in Engines |-> "none"] /\ tree = FALSE
  /\ host = user.tools
  /\ todo = <<>> /\ phase = "begin" /\ cfg = DefaultConfig /\ args = {} /\ outcome = "none"
  /\ enabled = {u \in Units : service # "off" /\ disk[u] = "whole"} /\ told = {}
  /\ uinput = ("ydotoold" \in enabled)
  /\ bar = [widget |-> FALSE, voxtype |-> TRUE] /\ shell = bar /\ removed = {}

SetupTypeOK ==
  /\ part \in [Engines -> {"none", "partial", "good", "other"}]
  /\ tree \in BOOLEAN
  /\ todo \in Seq(Files \cup {"engine", "model", "uinput"})
  /\ phase \in {"begin", "clone", "compile", "fetch", "check", "rename", "create",
                "fill", "reload", "enable", "first", "place", "look", "hide"}
  /\ IsConfig(cfg)
  /\ outcome \in {"none", "done", "failed"}
  /\ uinput \in BOOLEAN /\ enabled \subseteq Units /\ told \subseteq Units
  /\ bar \in [widget : BOOLEAN, voxtype : BOOLEAN]
  /\ shell \in [widget : BOOLEAN, voxtype : BOOLEAN]
  /\ removed \subseteq {"widget", "voxtype"}

\* Setup loads its configuration once; with one that does not load it exits at once.
StartSetup ==
  /\ todo = <<>> /\ user.runs > 0 /\ user' = [user EXCEPT !.runs = @ - 1]
  /\ IF Loads
     THEN /\ \E options \in user.options : args' = options /\ todo' = Parts(options)
          /\ cfg' = config /\ phase' = "begin" /\ outcome' = "none" /\ told' = {}
     ELSE outcome' = "failed" /\ UNCHANGED << todo, cfg, args, phase, told >>
  /\ UNCHANGED << disk, config, author, unseen, bin, model, manager, service,
                  part, tree, host, uinput, enabled, layout >>

At(what, where) == todo # <<>> /\ Head(todo) = what /\ phase = where
Continue(where) == phase' = where /\ UNCHANGED << todo, outcome >>

\* The current part is over: the next one, or verify and the end of the run.
PartDone ==
  /\ todo' = Tail(todo) /\ phase' = "begin"
  /\ outcome' = IF Tail(todo) = <<>> THEN "done" ELSE outcome

\* The run ends with an error.
Fail == todo' = <<>> /\ phase' = "begin" /\ outcome' = "failed"

-----------------------------------------------------------------------------
\* build_whisper and install_stt.
EngineBegin ==
  /\ At("engine", "begin")
  /\ \/ Builds \in bin /\ PartDone
     \/ Builds \notin bin /\ ~(BuildNeeds(Builds) \subseteq host) /\ Fail
     \/ /\ Builds \notin bin /\ BuildNeeds(Builds) \subseteq host
        /\ Continue(IF Builds = "whisper" /\ ~tree THEN "clone" ELSE "compile")
  /\ UNCHANGED << machineVars, part, tree, host, cfg, args, uinput, units, layout >>

\* git clone; killed, it removes what it has made.
Clone ==
  /\ At("engine", "clone")
  /\ \/ tree' = TRUE /\ Continue("compile")
     \/ Fail /\ UNCHANGED tree
  /\ UNCHANGED << machineVars, part, host, cfg, args, uinput, units, layout >>

\* cmake, or cargo install: the program is there at the end, or the build failed.
Compile ==
  /\ At("engine", "compile")
  /\ \/ bin' = bin \cup {Builds} /\ PartDone
     \/ Fail /\ UNCHANGED bin
  /\ UNCHANGED << disk, config, author, unseen, user, model, manager, service,
                  part, tree, host, cfg, args, uinput, units, layout >>

Part(content) == part' = [part EXCEPT ![Engine] = content]

\* Mutant: an interrupted download counts.
PresentInPart(e) == model[e] # "none" \/ part[e] # "none"

Present(e) == model[e] # "none"

\* download_model: a model that is there is kept; the request may fail.
ModelBegin ==
  /\ At("model", "begin")
  /\ \/ Present(Engine) /\ PartDone /\ UNCHANGED part
     \/ ~Present(Engine) /\ Part("partial") /\ Continue("fetch")
     \/ ~Present(Engine) /\ Fail /\ UNCHANGED part
  /\ UNCHANGED << machineVars, tree, host, cfg, args, uinput, units, layout >>

\* The body, to its end: what was published, or something else a server answered. A
\* connection that breaks leaves the .part file.
Fetch ==
  /\ At("model", "fetch")
  /\ \/ \E content \in {"good", "other"} : Part(content) /\ Continue("check")
     \/ Fail /\ UNCHANGED part
  /\ UNCHANGED << machineVars, tree, host, cfg, args, uinput, units, layout >>

\* Mutant: a mismatch is only reported.
CheckReports ==
  /\ At("model", "check") /\ Continue("rename") /\ UNCHANGED part
  /\ UNCHANGED << machineVars, tree, host, cfg, args, uinput, units, layout >>

\* verify_sha256, for a model whose digest is known; a mismatch removes the download.
Check ==
  /\ At("model", "check")
  /\ \/ (Engine \in Pinned => part[Engine] = "good") /\ Continue("rename") /\ UNCHANGED part
     \/ Engine \in Pinned /\ Part("none") /\ Fail   \* a mismatch, or sha256sum fails
  /\ UNCHANGED << machineVars, tree, host, cfg, args, uinput, units, layout >>

RenameModel ==
  /\ At("model", "rename")
  /\ \/ /\ model' = [model EXCEPT ![Engine] = part[Engine]]
        /\ Part("none") /\ PartDone
     \/ Fail /\ UNCHANGED << model, part >>
  /\ UNCHANGED << disk, config, author, unseen, user, bin, manager, service,
                  tree, host, cfg, args, uinput, units, layout >>

\* setup_ydotool: sudo may be refused at each command; the last one makes it work.
Uinput ==
  /\ At("uinput", "begin")
  /\ \/ uinput' = TRUE /\ PartDone
     \/ Fail /\ UNCHANGED uinput
  /\ UNCHANGED << machineVars, part, tree, host, cfg, args, units, layout >>

-----------------------------------------------------------------------------
\* fs::write creates the file, or empties the one that is there, then writes it.
Create(f) ==
  /\ disk' = [disk EXCEPT ![f] = "torn"]
  /\ author' = IF f = "config.toml" THEN "setup" ELSE author
  /\ UNCHANGED config
Fill(f) ==
  /\ disk' = [disk EXCEPT ![f] = "whole"]
  /\ IF f = "config.toml" THEN config' = DefaultConfig /\ author' = "setup"
     ELSE UNCHANGED << config, author >>

\* seed: a file that exists is kept. The look is one step, the creation another: what
\* the user, or the settings screen, writes in between is lost.
SeedBegin(f) ==
  /\ f \in Seeds /\ At(f, "begin")
  /\ IF disk[f] # "none" THEN PartDone ELSE Continue("create")
  /\ unseen' = unseen \ {f}
  /\ UNCHANGED << disk, config, author, user, bin, model, manager, service,
                  part, tree, host, cfg, args, uinput, units, layout >>

SeedCreate(f) ==
  /\ f \in Seeds /\ At(f, "create")
  /\ \/ Create(f) /\ Continue("fill")
     \/ Fail /\ UNCHANGED << disk, config, author >>
  /\ UNCHANGED << unseen, user, bin, model, manager, service,
                  part, tree, host, cfg, args, uinput, units, layout >>

\* The content goes to the file that was created; one that has replaced it stays.
SeedFill(f) ==
  /\ f \in Seeds /\ At(f, "fill")
  /\ IF disk[f] = "torn" THEN Fill(f) ELSE UNCHANGED << disk, config, author >>
  /\ PartDone
  /\ UNCHANGED << unseen, user, bin, model, manager, service,
                  part, tree, host, cfg, args, uinput, units, layout >>

\* systemctl cat: a user manager knows the unit, whatever the file holds.
Known(u) == manager /\ disk[u] # "none"

\* install_user_unit keeps a known unit. Without ydotool there is no ydotoold to install.
UnitBegin(u) ==
  /\ u \in Units /\ At(u, "begin")
  /\ CASE u = "ydotoold" /\ "ydotool" \notin host -> PartDone /\ UNCHANGED << disk, config, author >>
       [] u # "ydotoold" \/ "ydotool" \in host ->
            \/ Known(u) /\ Continue("enable") /\ UNCHANGED << disk, config, author >>
            \/ ~Known(u) /\ Create(u) /\ Continue("fill")
            \/ ~Known(u) /\ Fail /\ UNCHANGED << disk, config, author >>
  /\ UNCHANGED << unseen, user, bin, model, manager, service,
                  part, tree, host, cfg, args, uinput, units, layout >>

UnitFill(u) ==
  /\ u \in Units /\ At(u, "fill")
  /\ Fill(u) /\ Continue("reload")
  /\ UNCHANGED << unseen, user, bin, model, manager, service,
                  part, tree, host, cfg, args, uinput, units, layout >>

\* systemctl daemon-reload needs a user manager; unlike enabling, it must succeed.
UnitReload(u) ==
  /\ u \in Units /\ At(u, "reload")
  /\ IF manager THEN Continue("enable") ELSE Fail
  /\ UNCHANGED << machineVars, part, tree, host, cfg, args, uinput, units, layout >>

\* systemctl enable --now starts a service that is off; it may fail, as it does for a
\* unit without content. The user is only told the command then, and setup goes on.
UnitEnable(u) ==
  /\ u \in Units /\ At(u, "enable")
  /\ \/ /\ manager /\ disk[u] = "whole"
        /\ enabled' = enabled \cup {u} /\ UNCHANGED told
        /\ IF u = "whispy-daemon" /\ service = "off" THEN StartDaemon ELSE UNCHANGED service
     \/ told' = told \cup {u} /\ UNCHANGED << enabled, service >>
  /\ PartDone
  /\ UNCHANGED << disk, config, author, unseen, user, bin, model, manager,
                  part, tree, host, cfg, args, uinput, layout >>
-----------------------------------------------------------------------------
\* install_quickshell copies the module's files anew each time, if it finds them.
PillBegin ==
  /\ At("pill", "begin")
  /\ \/ Create("pill") /\ Continue("fill")
     \/ Fail /\ UNCHANGED << disk, config, author >>
  /\ UNCHANGED << unseen, user, bin, model, manager, service,
                  part, tree, host, cfg, args, uinput, units, layout >>

PillFill ==
  /\ At("pill", "fill")
  /\ \/ Fill("pill") /\ PartDone
     \/ Fail /\ UNCHANGED << disk, config, author >>
  /\ UNCHANGED << unseen, user, bin, model, manager, service,
                  part, tree, host, cfg, args, uinput, units, layout >>

\* Mutant: every run of setup places the widget.
FirstInstallAlways == TRUE

\* install_omarchy_widget: this is the first time if the widget has no directory yet.
FirstInstall == disk["widget"] = "none"

\* The directory, then its files, written anew each time.
WidgetBegin ==
  /\ At("widget", "begin")
  /\ IF FirstInstall THEN Create("widget") /\ Continue("first")
     ELSE Continue("fill") /\ UNCHANGED << disk, config, author >>
  /\ unseen' = unseen \ {"widget", "voxtype"}
  /\ UNCHANGED << user, bin, model, manager, service,
                  part, tree, host, cfg, args, uinput, units, layout >>

WidgetFill ==
  /\ At("widget", "fill") \/ At("widget", "first")
  /\ Fill("widget")
  /\ IF phase = "first" THEN Continue("place") ELSE PartDone
  /\ UNCHANGED << unseen, user, bin, model, manager, service,
                  part, tree, host, cfg, args, uinput, units, layout >>

\* Without Omarchy's commands the user is told how to place it, and Voxtype's
\* indicator stays.
WidgetPlace ==
  /\ At("widget", "place")
  /\ IF "omarchy-bar" \in host
     THEN Continue("look") /\ \E placed \in BOOLEAN : bar' = [bar EXCEPT !.widget = @ \/ placed]
     ELSE PartDone /\ UNCHANGED bar
  /\ UNCHANGED << machineVars, part, tree, host, cfg, args, uinput, units, shell, removed >>

\* hide_omarchy_dictation_indicator reads the whole layout: unreadable, or without
\* Voxtype's indicator, it stays as it is.
WidgetLook ==
  /\ At("widget", "look")
  /\ shell' = bar /\ unseen' = unseen \ {"widget", "voxtype"}
  /\ (bar.voxtype /\ Continue("hide")) \/ PartDone
  /\ UNCHANGED << disk, config, author, user, bin, model, manager, service,
                  part, tree, host, cfg, args, uinput, units, bar, removed >>

\* The layout it has read takes the place of the one that is there now, without the
\* indicator; or the write fails.
WidgetHide ==
  /\ At("widget", "hide")
  /\ bar' \in {bar, [shell EXCEPT !.voxtype = FALSE]}
  /\ PartDone
  /\ UNCHANGED << machineVars, part, tree, host, cfg, args, uinput, units, shell, removed >>

-----------------------------------------------------------------------------
EngineSteps == EngineBegin \/ Clone \/ Compile
ModelSteps == ModelBegin \/ Fetch \/ Check \/ RenameModel
UnitSteps == \E u \in Units : UnitBegin(u) \/ UnitFill(u) \/ UnitReload(u) \/ UnitEnable(u)
SeedSteps == \E f \in Seeds : SeedBegin(f) \/ SeedCreate(f) \/ SeedFill(f)
WidgetSteps == WidgetBegin \/ WidgetFill \/ WidgetPlace \/ WidgetLook \/ WidgetHide

SetupStep ==
  EngineSteps \/ ModelSteps \/ Uinput \/ SeedSteps \/ UnitSteps \/ PillBegin \/ PillFill \/ WidgetSteps

\* Ctrl-C, or setup is killed: the files stay as they are.
Interrupt ==
  /\ todo # <<>> /\ Fail
  /\ UNCHANGED << machineVars, part, tree, host, cfg, args, uinput, units, layout >>

\* The user installs what a build asked for.
InstallTools ==
  /\ outcome = "failed" /\ ~(VulkanNeeds \cup CargoNeeds \subseteq host)
  /\ host' = host \cup VulkanNeeds \cup CargoNeeds
  /\ UNCHANGED << machineVars, part, tree, todo, phase, cfg, args, outcome, uinput, units, layout >>

\* The user takes the widget off the bar, or puts Voxtype's indicator back.
Rearrange ==
  /\ \E what \in {"widget", "voxtype"} :
       /\ bar[what] = (what = "widget") /\ bar' = [bar EXCEPT ![what] = ~@]
       /\ removed' = removed \cup {what} /\ unseen' = unseen \cup {what}
  /\ UNCHANGED << disk, config, author, user, bin, model, manager, service,
                  part, tree, host, todo, phase, cfg, args, outcome, uinput, units, shell >>

SetupNext == StartSetup \/ SetupStep \/ Interrupt \/ InstallTools \/ Rearrange

\* verify: what the last step of a run looks at, and what it finds. The daemon answers
\* once its server listens; ydotoold stays up once it may write to uinput.
Looked == {"model", "server", "daemon", "stt http"}
          \cup (IF cfg.set["mode"] = "paste" THEN {"ydotoold"} ELSE {})
Report ==
  (IF model[Engine] # "none" THEN {"model"} ELSE {})
  \cup (IF Engine \in bin THEN {"server"} ELSE {})
  \cup (IF service = "up" THEN {"daemon", "stt http"} ELSE {})
  \cup (IF cfg.set["mode"] = "paste" /\ "ydotoold" \in enabled /\ uinput THEN {"ydotoold"} ELSE {})
=============================================================================
