-------------------------------- MODULE Paste --------------------------------
(***************************************************************************)
(* The delivery of a transcript (crates/daemon/src/inject.rs over          *)
(* desktop.rs and proc.rs): snippets may read the clipboard, the clipboard *)
(* is saved, the transcript copied, the paste keys sent, and the clipboard *)
(* restored after a delay; or the transcript is typed.  Every step runs an *)
(* external tool that may fail, or hang and be killed at its deadline.     *)
(*                                                                         *)
(* The clip threads share one clipboard with the user, who copies at any   *)
(* moment, and with the focused window, which reads it after the keys.     *)
(***************************************************************************)
EXTENDS Naturals

CONSTANTS
  Clips,           \* the accepted clips, each with a thread in deliver
  NoClip,          \* "inject_lock is free"
  MaxCopies        \* bound: how often the user copies something

ASSUME NoClipAssumption == NoClip \notin Clips
ASSUME MaxCopiesAssumption == MaxCopies \in Nat

VARIABLES
  mode,            \* injection.mode, and whether paste_keys is set
  inject_lock,     \* the clip whose thread holds App.inject_lock
  step,            \* how far each delivery has come
  hung,            \* the clips whose tool will not exit by itself
  saved,           \* what each delivery has saved of the clipboard
  result,          \* how each delivery ended
  clipboard,       \* the selection
  copied,          \* what the user copied last
  copies,          \* how often the user copied
  spoiled,         \* history: why what the user copied last may be gone
  unread,          \* the clips whose paste keys the window has not handled yet
  inserted,        \* what the window inserted for each clip
  expanded         \* what {{CLIPBOARD}} stood for in each clip

delivery == << inject_lock, step, hung, saved, result >>
user == << copied, copies, spoiled >>
window == << unread, inserted >>
vars == << mode, delivery, clipboard, user, window, expanded >>

-----------------------------------------------------------------------------
Nothing == [by |-> "nobody", id |-> NoClip, text |-> FALSE]
Transcript(c) == [by |-> "clip", id |-> c, text |-> TRUE]
OfUser(n, text) == [by |-> "user", id |-> n, text |-> text]

Contents ==
  {Nothing} \cup {Transcript(c) : c \in Clips}
            \cup {OfUser(n, text) : n \in 0 .. MaxCopies, text \in BOOLEAN}

\* Saved::Text keeps the contents; Saved::Empty and Saved::Binary.
Empty == [by |-> "empty", id |-> NoClip, text |-> FALSE]
Binary == [by |-> "binary", id |-> NoClip, text |-> FALSE]

\* A tool runs in each of these.
ToolSteps == {"expand", "list", "read", "copy", "keys", "restore", "type"}
Steps == ToolSteps \cup {"waiting", "delay", "over"}

\* What may cost the user the clipboard: it could not be read, or is not text; the
\* transcript, the keys or the restore failed; the user copied during the paste.
Reasons == {"unreadable", "binary", "copy", "keys", "restore", "user"}

\* "unrestored": delivered, but the previous clipboard is not back, because the
\* tool failed or because it was not text.
Results == {"none", "delivered", "unrestored", "no_keys", "copy_failed",
            "keys_failed", "type_failed"}

Init ==
  /\ mode \in {"paste", "type", "no_keys"}
  /\ inject_lock = NoClip
  /\ step = [c \in Clips |-> "waiting"]
  /\ hung = {}
  /\ saved = [c \in Clips |-> Empty]
  /\ result = [c \in Clips |-> "none"]
  /\ copied \in {Nothing, OfUser(0, TRUE), OfUser(0, FALSE)}
  /\ clipboard = copied
  /\ copies = 0 /\ spoiled = {}
  /\ unread = {}
  /\ inserted = [c \in Clips |-> Nothing]
  /\ expanded = [c \in Clips |-> Nothing]

-----------------------------------------------------------------------------
(* Running a tool: output, status and with_stdin all wait for the child    *)
(* until a deadline and then kill it, which counts as a failure.           *)

At(c, s) == step[c] = s /\ c \notin hung
Goto(c, s) == step' = [step EXCEPT ![c] = s] /\ UNCHANGED << inject_lock, result >>

\* The delivery is over: the lock is freed.
Leave(c, how) ==
  /\ step' = [step EXCEPT ![c] = "over"]
  /\ result' = [result EXCEPT ![c] = how]
  /\ inject_lock' = NoClip

Spoil(reason) == spoiled' = spoiled \cup {reason} /\ UNCHANGED << copied, copies >>

Hangs(c) ==
  /\ step[c] \in ToolSteps /\ c \notin hung
  /\ hung' = hung \cup {c}
  /\ UNCHANGED << mode, inject_lock, step, saved, result, clipboard, user, window,
                  expanded >>

\* Mutant: there is no deadline.
FailsByItself(c, s) == At(c, s) /\ UNCHANGED hung

\* A tool fails by itself, or because it is killed at its deadline.
Fails(c, s) == step[c] = s /\ hung' = hung \ {c}

-----------------------------------------------------------------------------
(* deliver: the pipeline, then Injector.                                   *)

\* Mutant: deliveries do not wait for each other.
LockIgnored(c) ==
  /\ step[c] = "waiting"
  /\ inject_lock' = c
  /\ step' = [step EXCEPT ![c] = "expand"]
  /\ UNCHANGED << mode, hung, saved, result, clipboard, user, window, expanded >>

Lock(c) ==
  /\ step[c] = "waiting" /\ inject_lock = NoClip
  /\ inject_lock' = c
  /\ step' = [step EXCEPT ![c] = "expand"]
  /\ UNCHANGED << mode, hung, saved, result, clipboard, user, window, expanded >>

\* Where inject goes once the text is final.
Inject(c) ==
  CASE mode = "type" -> Goto(c, "type")
    [] mode = "paste" -> Goto(c, "list")
    [] OTHER -> Leave(c, "no_keys")

\* A snippet reads the clipboard ...
Expand(c) ==
  /\ At(c, "expand")
  /\ expanded' = [expanded EXCEPT ![c] = clipboard]
  /\ Inject(c)
  /\ UNCHANGED << mode, hung, saved, clipboard, user, window >>

\* ... or no snippet does, or its tool fails: it stands for nothing.
ExpandNothing(c) ==
  /\ Fails(c, "expand")
  /\ Inject(c)
  /\ UNCHANGED << mode, saved, clipboard, user, window, expanded >>

\* top_mime_type: a text goes on to be read; anything else is not saved.
List(c) ==
  /\ At(c, "list")
  /\ IF clipboard.text
     THEN Goto(c, "read") /\ UNCHANGED saved
     ELSE /\ Goto(c, "copy")
          /\ saved' = [saved EXCEPT ![c] = IF clipboard = Nothing THEN Empty ELSE Binary]
  /\ UNCHANGED << mode, hung, clipboard, user, window, expanded >>

\* An unreadable clipboard counts as an empty one.
ListFails(c) ==
  /\ Fails(c, "list")
  /\ Goto(c, "copy")
  /\ saved' = [saved EXCEPT ![c] = Empty]
  /\ Spoil("unreadable")
  /\ UNCHANGED << mode, clipboard, window, expanded >>

Read(c) ==
  /\ At(c, "read") /\ clipboard.text
  /\ Goto(c, "copy")
  /\ saved' = [saved EXCEPT ![c] = clipboard]
  /\ UNCHANGED << mode, hung, clipboard, user, window, expanded >>

ReadFails(c) ==
  /\ Fails(c, "read")
  /\ Goto(c, "copy")
  /\ saved' = [saved EXCEPT ![c] = Empty]
  /\ Spoil("unreadable")
  /\ UNCHANGED << mode, clipboard, window, expanded >>

Copy(c) ==
  /\ At(c, "copy")
  /\ clipboard' = Transcript(c)
  /\ Goto(c, "keys")
  /\ UNCHANGED << mode, hung, saved, user, window, expanded >>

\* The transcript may have reached the clipboard all the same.
CopyFails(c) ==
  /\ Fails(c, "copy")
  /\ clipboard' \in {clipboard, Transcript(c)}
  /\ Leave(c, "copy_failed")
  /\ Spoil("copy")
  /\ UNCHANGED << mode, saved, window, expanded >>

Keys(c) ==
  /\ At(c, "keys")
  /\ unread' = unread \cup {c}
  /\ Goto(c, "delay")
  /\ UNCHANGED << mode, hung, saved, clipboard, user, inserted, expanded >>

\* The only error after the transcript was copied: nothing is restored. The keys
\* may have been sent all the same.
KeysFail(c) ==
  /\ Fails(c, "keys")
  /\ unread' \in {unread, unread \cup {c}}
  /\ Leave(c, "keys_failed")
  /\ Spoil("keys")
  /\ UNCHANGED << mode, saved, clipboard, inserted, expanded >>

\* restore_delay: how soon the window handles the keys is not known.
Delay(c) ==
  /\ step[c] = "delay" /\ saved[c] # Binary
  /\ Goto(c, "restore")
  /\ UNCHANGED << mode, hung, saved, clipboard, user, window, expanded >>

\* Mutant: what was saved as text is restored as if nothing had been there.
RestoreClears(c) ==
  /\ At(c, "restore")
  /\ clipboard' = Nothing
  /\ Leave(c, "delivered")
  /\ UNCHANGED << mode, hung, saved, user, window, expanded >>

Restore(c) ==
  /\ At(c, "restore")
  /\ clipboard' = IF saved[c] = Empty THEN Nothing ELSE saved[c]
  /\ Leave(c, "delivered")
  /\ UNCHANGED << mode, hung, saved, user, window, expanded >>

RestoreFails(c) ==
  /\ Fails(c, "restore")
  /\ clipboard' \in {clipboard, IF saved[c] = Empty THEN Nothing ELSE saved[c]}
  /\ Leave(c, "unrestored")
  /\ Spoil("restore")
  /\ UNCHANGED << mode, saved, window, expanded >>

\* What is not text is not restored.
RestoreSkipped(c) ==
  /\ step[c] = "delay" /\ saved[c] = Binary
  /\ Leave(c, "unrestored")
  /\ Spoil("binary")
  /\ UNCHANGED << mode, hung, saved, clipboard, window, expanded >>

Type(c) ==
  /\ At(c, "type")
  /\ inserted' = [inserted EXCEPT ![c] = Transcript(c)]
  /\ Leave(c, "delivered")
  /\ UNCHANGED << mode, hung, saved, clipboard, user, unread, expanded >>

\* A part of the text may have been typed.
TypeFails(c) ==
  /\ Fails(c, "type")
  /\ \E some \in {inserted[c], Transcript(c)} :
       inserted' = [inserted EXCEPT ![c] = some]
  /\ Leave(c, "type_failed")
  /\ UNCHANGED << mode, saved, clipboard, user, unread, expanded >>

-----------------------------------------------------------------------------
(* The surroundings.                                                       *)

\* What the user copies while a transcript is, or is about to be, on the clipboard
\* is overwritten by the copy or by the restore.
UserCopies ==
  /\ copies < MaxCopies
  /\ copies' = copies + 1
  /\ \E text \in BOOLEAN : copied' = OfUser(copies', text)
  /\ clipboard' = copied'
  /\ spoiled' = IF \E c \in Clips : step[c] \in {"copy", "keys", "delay", "restore"}
                THEN {"user"} ELSE {}
  /\ UNCHANGED << mode, delivery, window, expanded >>

\* The window handles the paste keys.
WindowReads(c) ==
  /\ c \in unread
  /\ unread' = unread \ {c}
  /\ inserted' = [inserted EXCEPT ![c] = clipboard]
  /\ UNCHANGED << mode, delivery, clipboard, user, expanded >>

-----------------------------------------------------------------------------
Deliver(c) ==
  \/ Lock(c) \/ Expand(c) \/ ExpandNothing(c)
  \/ List(c) \/ ListFails(c) \/ Read(c) \/ ReadFails(c) \/ Copy(c) \/ CopyFails(c)
  \/ Keys(c) \/ KeysFail(c) \/ Delay(c)
  \/ Restore(c) \/ RestoreFails(c) \/ RestoreSkipped(c)
  \/ Type(c) \/ TypeFails(c)

\* Every clip is delivered, and nothing more happens.
Finished ==
  /\ \A c \in Clips : step[c] = "over"
  /\ UNCHANGED vars

Next ==
  \/ UserCopies \/ Finished
  \/ \E c \in Clips : Deliver(c) \/ Hangs(c) \/ WindowReads(c)

Spec == Init /\ [][Next]_vars

\* Threads run, and a deadline ends every tool; the user and the window may do
\* as they please.
FairSpec == Spec /\ \A c \in Clips : WF_vars(Deliver(c))

-----------------------------------------------------------------------------
TypeOK ==
  /\ mode \in {"paste", "type", "no_keys"}
  /\ inject_lock \in Clips \cup {NoClip}
  /\ step \in [Clips -> Steps]
  /\ hung \in SUBSET Clips
  /\ saved \in [Clips -> Contents \cup {Empty, Binary}]
  /\ result \in [Clips -> Results]
  /\ clipboard \in Contents /\ copied \in Contents
  /\ copies \in 0 .. MaxCopies
  /\ spoiled \in SUBSET Reasons
  /\ unread \in SUBSET Clips
  /\ inserted \in [Clips -> Contents]
  /\ expanded \in [Clips -> Contents]

\* Between deliveries the clipboard is what the user copied last, however many
\* clips were pasted since, unless something the code accepts or cannot prevent
\* went wrong (inject.rs:3-10; App.inject_lock, app.rs:143-145).
ClipboardKept == inject_lock = NoClip /\ spoiled = {} => clipboard = copied

\* A transcript that is on the clipboard outside its own delivery, or that a
\* snippet of another clip expands to, is one whose delivery went wrong.
WentWrong == {"unrestored", "copy_failed", "keys_failed"}
TranscriptNotLeft ==
  /\ clipboard.by = "clip" =>
       clipboard.id = inject_lock \/ result[clipboard.id] \in WentWrong
  /\ \A c \in Clips : expanded[c].by = "clip" => result[expanded[c].id] \in WentWrong

\* A window that handles the keys of a clip within the delay inserts that clip's
\* transcript, or what the user has just copied: never another clip's.
InsertsItsOwn ==
  [][\A c \in Clips : c \in unread /\ c \notin unread' /\ step[c] = "delay" =>
       inserted'[c] = Transcript(c) \/ inserted'[c].by = "user"]_vars

\* A tool that hangs holds no delivery up for good, and so not the ones behind
\* it (proc.rs:3-7).
DeliveryEnds == \A c \in Clips : step[c] = "waiting" ~> step[c] = "over"

-----------------------------------------------------------------------------
(* Why the invariants hold.                                                *)

\* The holder of inject_lock is the clip being delivered.
LockInv ==
  /\ \A c \in Clips : step[c] \notin {"waiting", "over"} <=> inject_lock = c
  /\ \A c \in Clips : result[c] = "none" <=> step[c] # "over"
  /\ \A c \in hung : step[c] \in ToolSteps

\* From the copy to the end the clipboard is the transcript, or what the user has
\* copied since; at any other time it is what the user copied last, or the
\* transcript of a delivery that went wrong.
Overwritten == {"keys", "delay", "restore"}
ClipboardInv ==
  /\ copied.by # "clip"
  /\ \A c \in Clips : step[c] \in Overwritten =>
       \/ clipboard = Transcript(c)
       \/ clipboard.by = "user" /\ "user" \in spoiled
  /\ clipboard.by = "clip" =>
       step[clipboard.id] \in Overwritten \/ result[clipboard.id] \in WentWrong
  /\ spoiled = {} =>
       clipboard = copied \/ \E c \in Clips : step[c] \in Overwritten

\* What a delivery has saved is what the user copied last, or a transcript whose
\* own delivery went wrong.
SavedInv ==
  /\ \A c \in Clips : saved[c].by = "clip" => result[saved[c].id] \in WentWrong
  /\ \A c \in Clips : step[c] \in Overwritten \cup {"copy"} /\ spoiled = {} =>
       saved[c] = CASE copied = Nothing -> Empty
                    [] copied.text -> copied
                    [] OTHER -> Binary
  /\ \A c \in Clips : step[c] = "restore" => saved[c] # Binary

IInv ==
  /\ TypeOK /\ LockInv /\ ClipboardInv /\ SavedInv
  /\ ClipboardKept /\ TranscriptNotLeft

-----------------------------------------------------------------------------
(* What the documentation says and the code does not keep.                 *)

\* "Preserves the user's clipboard across pastes" (inject.rs:29-30), where a paste
\* whose keys fail is the only thing that goes wrong and what was copied is text.
ClipboardPreserved ==
  inject_lock = NoClip /\ spoiled \subseteq {"keys"} /\ copied.text => clipboard = copied
=============================================================================
