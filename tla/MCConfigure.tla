------------------------------ MODULE MCConfigure ------------------------------
(* Instances of Configure. *)
EXTENDS Configure

Config(source, engine, mode, faults) ==
  [set |-> [k \in Keys |-> CASE k = "source" -> source [] k = "engine" -> engine
                             [] k = "mode" -> mode [] OTHER -> "auto"],
   faults |-> faults]

MCDefault == Config("", "parakeet", "paste", {})
MCHandEdits == {Config("usb", "whisper", "type", {}), Config("usb", "parakeet", "type", {"no paste keys"})}
MCScreen == << "source", "mode" >>
MCOptionsOf == [s \in {"source", "mode"} |->
                  IF s = "source" THEN << "" >> ELSE << "type", "paste" >>]
MCDisplay == [over |-> "auto", wayland |-> TRUE, x |-> TRUE]
Plain == {"cargo", "cmake", "c++"}
Vulkan == Plain \cup {"libvulkan", "ydotool", "omarchy-bar"}

\* The full bootstrap or a part of it, two or three times; the screen open while the
\* file is edited, or while the units are installed.
MCWorkloads ==
  {[tools |-> Plain, edits |-> 1, runs |-> 3, screens |-> 0, options |-> {{}, {"only model"}}],
   [tools |-> Vulkan, edits |-> 1, runs |-> 2, screens |-> 0,
    options |-> {{"quickshell installed", "omarchy"}, {"only whisper"}}],
   [tools |-> Plain, edits |-> 1, runs |-> 0, screens |-> 1, options |-> {}],
   [tools |-> Plain, edits |-> 0, runs |-> 1, screens |-> 1, options |-> {{"only systemd"}}]}
=============================================================================
