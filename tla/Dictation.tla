------------------------------ MODULE Dictation ------------------------------
(***************************************************************************)
(* What the dictation session promises, free of threads and locks          *)
(* (module documentation of crates/daemon/src/app.rs): at most one         *)
(* recording at a time; every recording either becomes a clip or is gone;  *)
(* a clip is pasted at most once, one clip at a time; cancel takes at one  *)
(* instant the recording and every clip whose delivery has not begun, and  *)
(* what is gone never comes back.                                          *)
(***************************************************************************)
EXTENDS Naturals, Sequences

CONSTANT Ids       \* the recordings, numbered in the order they are begun

VARIABLES
  fate,            \* what has become of each recording
  pasted           \* the clips pasted, in order

Fates == {"unused", "recording", "clip", "committed", "delivered", "failed",
          "gone"}

Init ==
  /\ fate = [id \in Ids |-> "unused"]
  /\ pasted = << >>

Becomes(id, new) == fate' = [fate EXCEPT ![id] = new]

\* A recording begins: none is live, and all older ones have been begun.
Begin(id) ==
  /\ fate[id] = "unused"
  /\ \A other \in Ids : /\ fate[other] # "recording"
                        /\ other < id => fate[other] # "unused"
  /\ \E new \in {"recording", "gone"} : Becomes(id, new)
  /\ UNCHANGED pasted

Finish(id) ==
  /\ fate[id] = "recording" /\ Becomes(id, "clip")
  /\ UNCHANGED pasted

\* Delivery begins: from here on a cancel comes too late.
Commit(id) ==
  /\ fate[id] = "clip"
  /\ \A other \in Ids : fate[other] # "committed"
  /\ Becomes(id, "committed")
  /\ UNCHANGED pasted

Deliver(id) ==
  /\ fate[id] = "committed" /\ Becomes(id, "delivered")
  /\ pasted' = Append(pasted, id)

\* The injection fails, before or after it took effect: nobody can tell, so it is not
\* tried again.
Fail(id) ==
  /\ fate[id] = "committed" /\ Becomes(id, "failed")
  /\ pasted' \in {pasted, Append(pasted, id)}

\* Overrun, too short, transcription failed, rejected.
Lose(id) ==
  /\ fate[id] \in {"recording", "clip"} /\ Becomes(id, "gone")
  /\ UNCHANGED pasted

Cancel ==
  /\ fate' = [id \in Ids |-> IF fate[id] \in {"recording", "clip"}
                             THEN "gone" ELSE fate[id]]
  /\ UNCHANGED pasted

Next ==
  \/ Cancel
  \/ \E id \in Ids : \/ Begin(id) \/ Finish(id) \/ Commit(id)
                     \/ Deliver(id) \/ Fail(id) \/ Lose(id)

Spec == Init /\ [][Next]_<< fate, pasted >>
=============================================================================
