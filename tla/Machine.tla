-------------------------------- MODULE Machine --------------------------------
(***************************************************************************)
(* What setup, the settings screen and the service share on one machine:   *)
(* the files in the user's directories, the engines and models, and the    *)
(* systemd service that runs the daemon (config.rs, engine.rs, main.rs).   *)
(*                                                                         *)
(* config.toml is its five settings the screen edits and the faults the    *)
(* rest of it has: values that parse, and that Config::validate may refuse.*)
(***************************************************************************)
EXTENDS Naturals, Sequences, FiniteSets

CONSTANTS
  Engines,         \* speech-to-text engines
  Pinned,          \* the engines whose model has a known SHA-256
  DefaultConfig,   \* the built-in config.toml
  HandEdits,       \* what the user's editor may leave in config.toml
  Workloads        \* the tools a machine has, and what its user does in all: how often
                   \* config.toml is edited, setup run, with which command lines, and
                   \* the settings opened

Keys == {"source", "engine", "language", "mode", "silence"}

\* Values that parse but that validate refuses; the last one only in paste mode.
Faults == {"rate", "gain", "ratio", "threshold", "no paste keys"}

IsConfig(c) == /\ DOMAIN c = {"set", "faults"}
               /\ DOMAIN c.set = Keys /\ c.set["engine"] \in Engines
               /\ c.faults \subseteq Faults

ASSUME ConfigAssumption == /\ IsConfig(DefaultConfig) /\ DefaultConfig.faults = {}
                           /\ \A c \in HandEdits : IsConfig(c)
ASSUME EnginesAssumption == {"parakeet", "whisper"} \cup Pinned \subseteq Engines
ASSUME WorkloadsAssumption == \A w \in Workloads :
  /\ DOMAIN w = {"tools", "edits", "runs", "options", "screens"}
  /\ w.edits \in Nat /\ w.runs \in Nat /\ w.screens \in Nat

Units == {"ydotoold", "whispy-daemon", "whispy-pill"}
Seeds == {"config.toml", "hallucinations.toml", "shell.qml"}
Files == Units \cup Seeds \cup {"pill", "widget"}

VARIABLES
  disk,            \* each file: "none", "whole", or "torn", created but not written
  config,          \* what Config::load reads: config.toml, else the built-in defaults
  author,          \* history: who wrote config.toml last
  unseen,          \* history: what the user has changed since setup last looked at it
  user,            \* what the user is still going to do
  bin,             \* the engines whose server program is installed
  model,           \* each engine's model file: "none", "good", "other", "partial"
  manager,         \* the session has a systemd user manager
  service          \* whispy-daemon.service: "off", "loading" the model, "up", or
                   \* "retrying" after a failure

machineVars == << disk, config, author, unseen, user, bin, model, manager, service >>

-----------------------------------------------------------------------------
\* Config::load: a file without content lacks the tables that have no default.
Loads == disk["config.toml"] # "torn"

\* Config::validate: the engine's server and model exist, and nothing would only
\* fail at the first dictation.
Validate(c) ==
  /\ c.set["engine"] \in bin
  /\ model[c.set["engine"]] # "none"
  /\ c.faults \cap {"rate", "gain", "ratio", "threshold"} = {}
  /\ c.set["mode"] = "paste" => "no paste keys" \notin c.faults

CanStart == Loads /\ Validate(config)

\* main, as systemd starts it: a daemon that cannot load or accept its configuration
\* exits with a failure, and is started again after RestartSec.
StartDaemon == service' = IF CanStart THEN "loading" ELSE "retrying"

\* SttSupervisor::start blocks until the server has loaded the model and listens; only
\* then is the daemon's socket opened.
ServerReady ==
  /\ service = "loading" /\ service' = "up"
  /\ UNCHANGED << disk, config, author, unseen, user, bin, model, manager >>

\* A server that exits, or stays deaf for 60 s, ends the daemon with a failure.
ServerFails ==
  /\ service = "loading" /\ service' = "retrying"
  /\ UNCHANGED << disk, config, author, unseen, user, bin, model, manager >>

\* Restart=on-failure.
ServiceRetry ==
  /\ service = "retrying"
  /\ StartDaemon
  /\ UNCHANGED << disk, config, author, unseen, user, bin, model, manager >>

\* The user saves config.toml from an editor.
HandEdit ==
  /\ user.edits > 0 /\ user' = [user EXCEPT !.edits = @ - 1]
  /\ disk' = [disk EXCEPT !["config.toml"] = "whole"] /\ config' \in HandEdits
  /\ author' = "user" /\ unseen' = unseen \cup {"config.toml"}
  /\ UNCHANGED << bin, model, manager, service >>

\* The graphical session starts, and a user manager with it.
LogIn ==
  /\ ~manager /\ manager' = TRUE
  /\ UNCHANGED << disk, config, author, unseen, user, bin, model, service >>

-----------------------------------------------------------------------------
\* Nothing installed yet; or Parakeet installed, configured and running.
Fresh ==
  /\ disk = [f \in Files |-> "none"] /\ author = "nobody"
  /\ bin = {} /\ model = [e \in Engines |-> "none"]
  /\ service = "off"
  /\ manager \in BOOLEAN

Installed ==
  /\ disk = [f \in Files |->
       IF f \in {"config.toml", "hallucinations.toml", "ydotoold", "whispy-daemon"}
       THEN "whole" ELSE "none"]
  /\ author = "setup"
  /\ bin = {DefaultConfig.set["engine"]}
  /\ model = [e \in Engines |-> IF e \in bin THEN "good" ELSE "none"]
  /\ service = "up"
  /\ manager = TRUE

MachineInit == (Fresh \/ Installed) /\ config = DefaultConfig /\ unseen = {} /\ user \in Workloads

MachineTypeOK ==
  /\ disk \in [Files -> {"none", "torn", "whole"}]
  /\ IsConfig(config)
  /\ author \in {"nobody", "setup", "user", "settings"}
  /\ unseen \subseteq {"config.toml", "widget", "voxtype"}
  /\ bin \subseteq Engines
  /\ model \in [Engines -> {"none", "good", "other", "partial"}]
  /\ manager \in BOOLEAN
  /\ service \in {"off", "loading", "up", "retrying"}
=============================================================================
