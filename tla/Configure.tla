-------------------------------- MODULE Configure --------------------------------
(***************************************************************************)
(* Setup, the settings screen, the user's editor and the service on one    *)
(* machine: they share config.toml, what is installed, and the daemon.     *)
(***************************************************************************)
EXTENDS Setup, Settings

vars == << machineVars, setupVars, settingsVars >>

Init == MachineInit /\ SetupInit /\ SettingsInit

ServiceStep == ServerReady \/ ServerFails \/ ServiceRetry

Next ==
  \/ SetupNext /\ UNCHANGED settingsVars
  \/ SettingsNext /\ UNCHANGED setupVars
  \/ (HandEdit \/ LogIn \/ ServiceStep) /\ UNCHANGED << setupVars, settingsVars >>

Spec == Init /\ [][Next]_vars

\* systemd tries again; of the servers that are started with the published model one
\* gets ready; setup goes on while nobody stops it.
Fairness ==
  /\ WF_vars(ServiceRetry /\ UNCHANGED << setupVars, settingsVars >>)
  /\ SF_vars(/\ ServerReady /\ model[config.set["engine"]] = "good"
             /\ UNCHANGED << setupVars, settingsVars >>)
  /\ WF_vars(SetupStep /\ UNCHANGED settingsVars)

FairSpec == Spec /\ Fairness

TypeOK == MachineTypeOK /\ SetupTypeOK /\ SettingsTypeOK

-----------------------------------------------------------------------------
\* The screen holds at most one capture, the one it knows of, and none outside the
\* Microphone section, however keys, frames, caps and failures follow on each other
\* (settings/mic.rs:13-71, settings/mod.rs:148-176).
MicrophoneHeld ==
  /\ captures = meter \cup test /\ \A c, d \in captures : c = d
  /\ meter = {} \/ test = {}
  /\ captures # {} => window # "closed" /\ OnMicrophone

\* A configuration saved from the screen is one the daemon starts with, for as long as
\* nobody else writes the file (settings/editable.rs:205-226).
SavedConfigStarts == author = "settings" => CanStart

\* The quit key discards choices that were not saved only at the second of two presses,
\* with no other key in between that the screen knows (settings/form.rs:192-222).
UnsavedKept ==
  [][QuitKey /\ window' = "closed" => asked \/ chosen = kept]_vars

\* Whatever interrupts, breaks off or alters a download, the model the daemon loads is
\* complete, and the published one where its digest is known (setup.rs:403-454).
ModelWhole ==
  \A e \in Engines : model[e] # "partial" /\ (e \in Pinned => model[e] # "other")

\* Setup overwrites no configuration that the user or the screen had written when it
\* looked, and undoes nothing that the user had done to the bar when it looked: of their
\* choices only those are lost that are made between its look at a file and its write
\* (setup.rs:538-550, 703-793).
UserChoicesKept ==
  [][SetupStep =>
       /\ author \in {"user", "settings"} /\ "config.toml" \notin unseen =>
            UNCHANGED << config, author, disk["config.toml"] >>
       /\ \A what \in removed \ unseen : bar'[what] = bar[what]]_vars

\* The last run was the full bootstrap and did it all, had nothing left for the user to
\* do, and nothing else has touched what it found or made; where no digest is known, no
\* server has answered with something else than the model.
Undisturbed ==
  /\ outcome = "done" /\ told = {} /\ args \cap (Single \cup {"no-systemd"}) = {}
  /\ Loads /\ config = cfg /\ cfg.faults = {} /\ model[Engine] # "other"
  /\ disk["whispy-daemon"] = "whole"
  /\ cfg.set["mode"] = "paste" => /\ "ydotool" \in host /\ "no-ydotool" \notin args
                                  /\ disk["ydotoold"] = "whole"

\* Setup brings the machine to "ready to dictate", on a first run as after any number
\* of interrupted ones: everything that verify looks at is there in the end. Not made
\* good are an interruption in the middle of a file's write, and a service that systemctl
\* would not start, which the user is told to start (setup.rs:1-11, 582-588).
SetupMakesReady == Undisturbed ~> (~Undisturbed \/ Looked \subseteq Report)
=============================================================================
