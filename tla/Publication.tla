----------------------------- MODULE Publication -----------------------------
(***************************************************************************)
(* What readers of state.json may rely on, free of threads, temporary      *)
(* files and timers (module documentation of crates/daemon/src/state.rs):  *)
(* the file changes at one instant, to the whole of the state the daemon   *)
(* is in at that instant; each state is shown once, before the next one    *)
(* is taken up; only a recording over a recording may go unshown without a *)
(* failure; a dead daemon leaves the file as it is.                        *)
(***************************************************************************)
EXTENDS Naturals

CONSTANTS
  States,          \* what the daemon may be doing
  Nothing          \* no file

VARIABLES
  up,              \* a daemon runs
  status,          \* its state, with the run and the change that made it
  due,             \* it is about to be shown
  shown            \* what a reader of the file sees

boardVars == << up, status, due, shown >>

Init ==
  /\ up = FALSE /\ due = FALSE
  /\ status = [state |-> "idle", run |-> 0, gen |-> 0]
  /\ shown = Nothing

Begin ==
  /\ ~up /\ up' = TRUE
  /\ status' = [status EXCEPT !.run = @ + 1]
  /\ UNCHANGED << due, shown >>

Change(state) ==
  /\ up /\ ~due
  /\ status' = [state |-> state, run |-> status.run, gen |-> status.gen + 1]
  /\ due' \/ (state = "recording" /\ status.state = "recording")
  /\ due' \in BOOLEAN
  /\ UNCHANGED << up, shown >>

\* It is shown, or the attempt fails and the file stays as it was.
Settle ==
  /\ due /\ due' = FALSE
  /\ shown' \in {status, shown}
  /\ UNCHANGED << up, status >>

End ==
  /\ up /\ up' = FALSE /\ due' = FALSE
  /\ status' = [state |-> "idle", run |-> status.run, gen |-> 0]
  /\ UNCHANGED shown

Next == Begin \/ End \/ Settle \/ \E state \in States : Change(state)

Spec == Init /\ [][Next]_boardVars
=============================================================================
