------------------------------ MODULE PasteProofs ------------------------------
(***************************************************************************)
(* The clipboard round trip is right for any number of clips and of copies *)
(* by the user, whatever tools fail or hang.                               *)
(***************************************************************************)
EXTENDS Paste, TLAPS

USE NoClipAssumption, MaxCopiesAssumption

(* What may be on the clipboard. *)
LEMMA ContentsMembers ==
  /\ Nothing \in Contents
  /\ \A c \in Clips : Transcript(c) \in Contents
  /\ \A n \in 0 .. MaxCopies, t \in BOOLEAN : OfUser(n, t) \in Contents
  BY DEF Contents

(* By whom it is, and what it is not. *)
LEMMA Kinds ==
  /\ Nothing.by = "nobody" /\ Nothing.text = FALSE
  /\ \A c \in Clips : Transcript(c).by = "clip" /\ Transcript(c).id = c
  /\ \A n \in 0 .. MaxCopies, t \in BOOLEAN : OfUser(n, t).by = "user" /\ OfUser(n, t).text = t
  /\ Empty # Binary /\ Empty.by = "empty" /\ Binary.by = "binary"
  BY DEF Nothing, Empty, Binary, Transcript, OfUser

(* Text that a clip has put there is its transcript. *)
LEMMA Authors ==
  ASSUME NEW x \in Contents
  PROVE  /\ x # Empty /\ x # Binary
         /\ x.by = "clip" => x.id \in Clips /\ x.text
         /\ x.by \in {"nobody", "clip", "user"}
         /\ x.by = "nobody" => x = Nothing
<1>1. CASE x = Nothing
  BY <1>1 DEF Nothing, Empty, Binary
<1>2. ASSUME NEW c \in Clips, x = Transcript(c) PROVE x.by = "clip" /\ x.id = c /\ x.text
  BY <1>2 DEF Transcript
<1>3. ASSUME NEW n \in 0 .. MaxCopies, NEW t \in BOOLEAN, x = OfUser(n, t)
      PROVE  x.by = "user"
  BY <1>3 DEF OfUser
<1>4. Empty.by = "empty" /\ Binary.by = "binary"
  BY DEF Empty, Binary
<1>5. \/ x = Nothing \/ \E c \in Clips : x = Transcript(c)
      \/ \E n \in 0 .. MaxCopies, t \in BOOLEAN : x = OfUser(n, t)
  BY DEF Contents
<1>6. CASE \E c \in Clips : x = Transcript(c)
  BY <1>2, <1>4, <1>6
<1>7. CASE \E n \in 0 .. MaxCopies, t \in BOOLEAN : x = OfUser(n, t)
  BY <1>3, <1>4, <1>7
<1> QED
  BY <1>1, <1>5, <1>6, <1>7, Kinds

(* The initial state satisfies the invariant. *)
LEMMA InitInv == Init => IInv
<1> SUFFICES ASSUME Init PROVE IInv
  OBVIOUS
<1>0. copied \in Contents /\ copied.by # "clip"
  <2>1. 0 \in 0 .. MaxCopies
    OBVIOUS
  <2> QED BY <2>1, ContentsMembers, Kinds DEF Init
<1>1. TypeOK
  BY <1>0, ContentsMembers DEF Init, TypeOK, Results, Steps, ToolSteps, Reasons
<1>2. LockInv
  BY DEF Init, LockInv
<1>3. ClipboardInv
  BY <1>0 DEF Init, ClipboardInv, Overwritten
<1>4. SavedInv
  BY Kinds DEF Init, SavedInv, Overwritten
<1>5. ClipboardKept /\ TranscriptNotLeft
  BY <1>0, Kinds DEF Init, ClipboardKept, TranscriptNotLeft
<1> QED
  BY <1>1, <1>2, <1>3, <1>4, <1>5 DEF IInv

(* No step breaks the types. *)
LEMMA NextType == TypeOK /\ SavedInv /\ [Next]_vars => TypeOK'
<1> SUFFICES ASSUME TypeOK, SavedInv, [Next]_vars PROVE TypeOK'
  OBVIOUS
<1> USE ContentsMembers DEF TypeOK, Steps, ToolSteps, Results, Reasons, delivery, user, window
<1>1. ASSUME NEW c \in Clips, Deliver(c) PROVE TypeOK'
  <2>1. CASE Lock(c)
    BY <2>1 DEF Lock
  <2>2. CASE Expand(c)
    BY <2>2 DEF Expand, At, Inject, Goto, Leave
  <2>3. CASE ExpandNothing(c)
    BY <2>3 DEF ExpandNothing, Fails, Inject, Goto, Leave
  <2>4. CASE List(c)
    BY <2>4 DEF List, At, Goto
  <2>5. CASE ListFails(c)
    BY <2>5 DEF ListFails, Fails, Goto, Spoil
  <2>6. CASE Read(c)
    BY <2>6 DEF Read, At, Goto
  <2>7. CASE ReadFails(c)
    BY <2>7 DEF ReadFails, Fails, Goto, Spoil
  <2>8. CASE Copy(c)
    BY <2>8 DEF Copy, At, Goto
  <2>9. CASE CopyFails(c)
    BY <2>9 DEF CopyFails, Fails, Leave, Spoil
  <2>10. CASE Keys(c)
    BY <2>10 DEF Keys, At, Goto
  <2>11. CASE KeysFail(c)
    BY <2>11 DEF KeysFail, Fails, Leave, Spoil
  <2>12. CASE Delay(c)
    BY <2>12 DEF Delay, Goto
  <2>13. CASE Restore(c)
    BY <2>13 DEF Restore, At, Leave, SavedInv
  <2>14. CASE RestoreFails(c)
    BY <2>14 DEF RestoreFails, Fails, Leave, Spoil, SavedInv
  <2>15. CASE RestoreSkipped(c)
    BY <2>15 DEF RestoreSkipped, Leave, Spoil
  <2>16. CASE Type(c)
    BY <2>16 DEF Type, At, Leave
  <2>17. CASE TypeFails(c)
    BY <2>17 DEF TypeFails, Fails, Leave
  <2> QED
    BY <1>1, <2>1, <2>2, <2>3, <2>4, <2>5, <2>6, <2>7, <2>8, <2>9, <2>10, <2>11, <2>12,
       <2>13, <2>14, <2>15, <2>16, <2>17 DEF Deliver
<1>2. ASSUME NEW c \in Clips, Hangs(c) PROVE TypeOK'
  BY <1>2 DEF Hangs
<1>3. ASSUME NEW c \in Clips, WindowReads(c) PROVE TypeOK'
  BY <1>3 DEF WindowReads
<1>4. CASE UserCopies
  BY <1>4 DEF UserCopies
<1>5. CASE Finished \/ UNCHANGED vars
  BY <1>5 DEF Finished, vars
<1> QED
  BY <1>1, <1>2, <1>3, <1>4, <1>5 DEF Next

(* The holder of inject_lock stays the clip being delivered. *)
LEMMA NextLock ==
  TypeOK /\ LockInv /\ ClipboardInv /\ SavedInv /\ TypeOK' /\ [Next]_vars => LockInv'
<1> SUFFICES ASSUME TypeOK, LockInv, ClipboardInv, SavedInv, TypeOK', [Next]_vars
             PROVE  LockInv'
  OBVIOUS
<1> USE DEF TypeOK, LockInv, Steps, ToolSteps, Results, delivery, user, window
<1>1. ASSUME NEW c \in Clips, Deliver(c) PROVE LockInv'
  <2>1. CASE Lock(c)
    BY <2>1 DEF Lock
  <2>2. CASE Expand(c)
    BY <2>2 DEF Expand, At, Inject, Goto, Leave
  <2>3. CASE ExpandNothing(c)
    BY <2>3 DEF ExpandNothing, Fails, Inject, Goto, Leave
  <2>4. CASE List(c)
    BY <2>4 DEF List, At, Goto
  <2>5. CASE ListFails(c)
    BY <2>5 DEF ListFails, Fails, Goto, Spoil
  <2>6. CASE Read(c)
    BY <2>6 DEF Read, At, Goto
  <2>7. CASE ReadFails(c)
    BY <2>7 DEF ReadFails, Fails, Goto, Spoil
  <2>8. CASE Copy(c)
    BY <2>8 DEF Copy, At, Goto
  <2>9. CASE CopyFails(c)
    BY <2>9 DEF CopyFails, Fails, Leave, Spoil
  <2>10. CASE Keys(c)
    BY <2>10 DEF Keys, At, Goto
  <2>11. CASE KeysFail(c)
    BY <2>11 DEF KeysFail, Fails, Leave, Spoil
  <2>12. CASE Delay(c)
    BY <2>12 DEF Delay, Goto
  <2>13. CASE Restore(c)
    BY <2>13 DEF Restore, At, Leave
  <2>14. CASE RestoreFails(c)
    BY <2>14 DEF RestoreFails, Fails, Leave, Spoil
  <2>15. CASE RestoreSkipped(c)
    BY <2>15 DEF RestoreSkipped, Leave, Spoil
  <2>16. CASE Type(c)
    BY <2>16 DEF Type, At, Leave
  <2>17. CASE TypeFails(c)
    BY <2>17 DEF TypeFails, Fails, Leave
  <2> QED
    BY <1>1, <2>1, <2>2, <2>3, <2>4, <2>5, <2>6, <2>7, <2>8, <2>9, <2>10, <2>11, <2>12,
       <2>13, <2>14, <2>15, <2>16, <2>17 DEF Deliver
<1>2. ASSUME NEW c \in Clips, Hangs(c) PROVE LockInv'
  BY <1>2 DEF Hangs
<1>3. ASSUME NEW c \in Clips, WindowReads(c) PROVE LockInv'
  BY <1>3 DEF WindowReads
<1>4. CASE UserCopies
  BY <1>4 DEF UserCopies
<1>5. CASE Finished \/ UNCHANGED vars
  BY <1>5 DEF Finished, vars
<1> QED
  BY <1>1, <1>2, <1>3, <1>4, <1>5 DEF Next

(* The clipboard stays explained. *)
LEMMA NextClipboard ==
  TypeOK /\ LockInv /\ ClipboardInv /\ SavedInv /\ TypeOK' /\ [Next]_vars => ClipboardInv'
<1> SUFFICES ASSUME TypeOK, LockInv, ClipboardInv, SavedInv, TypeOK', [Next]_vars
             PROVE  ClipboardInv'
  OBVIOUS
<1> USE Kinds, Authors DEF TypeOK, LockInv, ClipboardInv, Overwritten, WentWrong,
         delivery, user, window
<1>1. ASSUME NEW c \in Clips, Deliver(c) PROVE ClipboardInv'
  <2>1. CASE Lock(c)
    BY <2>1 DEF Lock
  <2>2. CASE Expand(c)
    BY <2>2 DEF Expand, At, Inject, Goto, Leave
  <2>3. CASE ExpandNothing(c)
    BY <2>3 DEF ExpandNothing, Fails, Inject, Goto, Leave
  <2>4. CASE List(c)
    BY <2>4 DEF List, At, Goto
  <2>5. CASE ListFails(c)
    BY <2>5 DEF ListFails, Fails, Goto, Spoil
  <2>6. CASE Read(c)
    BY <2>6 DEF Read, At, Goto
  <2>7. CASE ReadFails(c)
    BY <2>7 DEF ReadFails, Fails, Goto, Spoil
  <2>8. CASE Copy(c)
    BY <2>8 DEF Copy, At, Goto
  <2>9. CASE CopyFails(c)
    BY <2>9 DEF CopyFails, Fails, Leave, Spoil
  <2>10. CASE Keys(c)
    BY <2>10 DEF Keys, At, Goto
  <2>11. CASE KeysFail(c)
    BY <2>11 DEF KeysFail, Fails, Leave, Spoil
  <2>12. CASE Delay(c)
    BY <2>12 DEF Delay, Goto
  <2>13. CASE Restore(c)
    <3>1. /\ saved[c] # Binary /\ step[c] = "restore" /\ result[c] = "none"
          /\ clipboard' \in Contents
      BY <2>13 DEF Restore, At, SavedInv
    <3>2. clipboard'.by = "clip" =>
            step'[clipboard'.id] \in Overwritten \/ result'[clipboard'.id] \in WentWrong
      BY <2>13, <3>1 DEF Restore, Leave, SavedInv
    <3>3. spoiled' = {} => clipboard' = copied'
      BY <2>13, <3>1 DEF Restore, SavedInv
    <3> QED BY <2>13, <3>1, <3>2, <3>3 DEF Restore, Leave
  <2>14. CASE RestoreFails(c)
    <3>1. /\ saved[c] # Binary /\ step[c] = "restore" /\ result[c] = "none"
          /\ clipboard' \in Contents
      BY <2>14 DEF RestoreFails, Fails, SavedInv
    <3>2. clipboard' = clipboard \/ clipboard' = IF saved[c] = Empty THEN Nothing ELSE saved[c]
      BY <2>14 DEF RestoreFails
    <3>3. clipboard'.by = "clip" =>
            step'[clipboard'.id] \in Overwritten \/ result'[clipboard'.id] \in WentWrong
      BY <2>14, <3>1, <3>2 DEF RestoreFails, Leave, SavedInv
    <3> QED BY <2>14, <3>1, <3>3 DEF RestoreFails, Leave, Spoil
  <2>15. CASE RestoreSkipped(c)
    BY <2>15 DEF RestoreSkipped, Leave, Spoil
  <2>16. CASE Type(c)
    BY <2>16 DEF Type, At, Leave
  <2>17. CASE TypeFails(c)
    BY <2>17 DEF TypeFails, Fails, Leave
  <2> QED
    BY <1>1, <2>1, <2>2, <2>3, <2>4, <2>5, <2>6, <2>7, <2>8, <2>9, <2>10, <2>11, <2>12,
       <2>13, <2>14, <2>15, <2>16, <2>17 DEF Deliver
<1>2. ASSUME NEW c \in Clips, Hangs(c) PROVE ClipboardInv'
  BY <1>2 DEF Hangs
<1>3. ASSUME NEW c \in Clips, WindowReads(c) PROVE ClipboardInv'
  BY <1>3 DEF WindowReads
<1>4. CASE UserCopies
  BY <1>4 DEF UserCopies
<1>5. CASE Finished \/ UNCHANGED vars
  BY <1>5 DEF Finished, vars
<1> QED
  BY <1>1, <1>2, <1>3, <1>4, <1>5 DEF Next

(* What is saved stays explained. *)
LEMMA NextSaved ==
  TypeOK /\ LockInv /\ ClipboardInv /\ SavedInv /\ TypeOK' /\ [Next]_vars => SavedInv'
<1> SUFFICES ASSUME TypeOK, LockInv, ClipboardInv, SavedInv, TypeOK', [Next]_vars
             PROVE  SavedInv'
  OBVIOUS
<1> USE Kinds, Authors DEF TypeOK, LockInv, ClipboardInv, SavedInv, Overwritten, WentWrong,
         delivery, user, window
<1>1. ASSUME NEW c \in Clips, Deliver(c) PROVE SavedInv'
  <2>1. CASE Lock(c)
    BY <2>1 DEF Lock
  <2>2. CASE Expand(c)
    BY <2>2, SMTT(30) DEF Expand, At, Inject, Goto, Leave
  <2>3. CASE ExpandNothing(c)
    BY <2>3 DEF ExpandNothing, Fails, Inject, Goto, Leave
  <2>4. CASE List(c)
    <3>1. CASE clipboard.text
      BY <2>4, <3>1 DEF List, At, Goto
    <3>2. CASE ~clipboard.text
      <4>1. \A x \in Clips : step[x] \notin Overwritten
        BY <2>4 DEF List, At
      <4>2. saved' = [saved EXCEPT ![c] = IF clipboard = Nothing THEN Empty ELSE Binary]
        BY <2>4, <3>2 DEF List
      <4>3. spoiled = {} => clipboard = copied
        BY <4>1
      <4> QED BY <2>4, <4>1, <4>2, <4>3, <3>2 DEF List, Goto, At
    <3> QED BY <3>1, <3>2
  <2>5. CASE ListFails(c)
    BY <2>5 DEF ListFails, Fails, Goto, Spoil
  <2>6. CASE Read(c)
    BY <2>6 DEF Read, At, Goto
  <2>7. CASE ReadFails(c)
    BY <2>7 DEF ReadFails, Fails, Goto, Spoil
  <2>8. CASE Copy(c)
    BY <2>8 DEF Copy, At, Goto
  <2>9. CASE CopyFails(c)
    BY <2>9 DEF CopyFails, Fails, Leave, Spoil
  <2>10. CASE Keys(c)
    BY <2>10 DEF Keys, At, Goto
  <2>11. CASE KeysFail(c)
    BY <2>11 DEF KeysFail, Fails, Leave, Spoil
  <2>12. CASE Delay(c)
    BY <2>12 DEF Delay, Goto
  <2>13. CASE Restore(c)
    BY <2>13 DEF Restore, At, Leave
  <2>14. CASE RestoreFails(c)
    BY <2>14 DEF RestoreFails, Fails, Leave, Spoil
  <2>15. CASE RestoreSkipped(c)
    BY <2>15 DEF RestoreSkipped, Leave, Spoil
  <2>16. CASE Type(c)
    BY <2>16 DEF Type, At, Leave
  <2>17. CASE TypeFails(c)
    BY <2>17 DEF TypeFails, Fails, Leave
  <2> QED
    BY <1>1, <2>1, <2>2, <2>3, <2>4, <2>5, <2>6, <2>7, <2>8, <2>9, <2>10, <2>11, <2>12,
       <2>13, <2>14, <2>15, <2>16, <2>17 DEF Deliver
<1>2. ASSUME NEW c \in Clips, Hangs(c) PROVE SavedInv'
  BY <1>2 DEF Hangs
<1>3. ASSUME NEW c \in Clips, WindowReads(c) PROVE SavedInv'
  BY <1>3 DEF WindowReads
<1>4. CASE UserCopies
  BY <1>4 DEF UserCopies
<1>5. CASE Finished \/ UNCHANGED vars
  BY <1>5 DEF Finished, vars
<1> QED
  BY <1>1, <1>2, <1>3, <1>4, <1>5 DEF Next

(* What a transcript or a snippet holds of another clip is one that went wrong. *)
LEMMA NextExpanded ==
  IInv /\ TypeOK' /\ LockInv' /\ ClipboardInv' /\ [Next]_vars => TranscriptNotLeft'
<1> SUFFICES ASSUME IInv, TypeOK', LockInv', ClipboardInv', [Next]_vars
             PROVE  TranscriptNotLeft'
  OBVIOUS
<1>1. clipboard'.by = "clip" =>
        clipboard'.id = inject_lock' \/ result'[clipboard'.id] \in WentWrong
  BY Authors DEF TypeOK, LockInv, ClipboardInv, Overwritten
<1>2. \A c \in Clips : result[c] # "none" => result'[c] = result[c]
  <2>1. ASSUME NEW c \in Clips, Deliver(c), NEW x \in Clips, result[x] # "none"
        PROVE  result'[x] = result[x]
    <3>1. step[x] = "over" /\ step[c] # "over" => x # c
      OBVIOUS
    <3>2. step[c] # "over"
      BY <2>1 DEF Deliver, Lock, Expand, ExpandNothing, List, ListFails, Read, ReadFails,
                  Copy, CopyFails, Keys, KeysFail, Delay, Restore, RestoreFails,
                  RestoreSkipped, Type, TypeFails, At, Fails
    <3>3. result' = result \/ \E how : result' = [result EXCEPT ![c] = how]
      BY <2>1 DEF Deliver, Lock, Expand, ExpandNothing, List, ListFails, Read, ReadFails,
                  Copy, CopyFails, Keys, KeysFail, Delay, Restore, RestoreFails,
                  RestoreSkipped, Type, TypeFails, Inject, Goto, Leave
    <3> QED BY <2>1, <3>1, <3>2, <3>3 DEF IInv, LockInv, TypeOK
  <2> QED
    BY <2>1 DEF Next, Hangs, WindowReads, UserCopies, Finished, vars, delivery
<1>3. \A c \in Clips : expanded'[c].by = "clip" => result'[expanded'[c].id] \in WentWrong
  <2>1. \A c \in Clips : expanded[c].by = "clip" =>
          expanded[c].id \in Clips /\ result'[expanded[c].id] \in WentWrong
    BY <1>2, Authors DEF IInv, TypeOK, TranscriptNotLeft, WentWrong
  <2>2. ASSUME NEW c \in Clips, Expand(c)
        PROVE  clipboard.by = "clip" => result'[clipboard.id] \in WentWrong
    <3>1. \A x \in Clips : step[x] \notin Overwritten
      BY <2>2 DEF Expand, At, IInv, LockInv, Overwritten
    <3> QED
      BY <3>1, <1>2, Authors DEF IInv, TypeOK, ClipboardInv, WentWrong
  <2>3. \/ expanded' = expanded
        \/ \E c \in Clips : Expand(c) /\ expanded' = [expanded EXCEPT ![c] = clipboard]
    BY DEF Next, Deliver, Lock, Expand, ExpandNothing, List, ListFails, Read, ReadFails,
           Copy, CopyFails, Keys, KeysFail, Delay, Restore, RestoreFails, RestoreSkipped,
           Type, TypeFails, Hangs, WindowReads, UserCopies, Finished, vars
  <2> QED
    BY <2>1, <2>2, <2>3 DEF IInv, TypeOK
<1> QED
  BY <1>1, <1>3 DEF TranscriptNotLeft

(* No step breaks the invariant. *)
LEMMA NextInv == IInv /\ [Next]_vars => IInv'
<1> SUFFICES ASSUME IInv, [Next]_vars PROVE IInv'
  OBVIOUS
<1>1. TypeOK'
  BY NextType DEF IInv
<1>2. LockInv'
  BY <1>1, NextLock DEF IInv
<1>3. ClipboardInv'
  BY <1>1, NextClipboard DEF IInv
<1>4. SavedInv'
  BY <1>1, NextSaved DEF IInv
<1>5. ClipboardKept'
  BY <1>2, <1>3 DEF ClipboardKept, LockInv, ClipboardInv, Overwritten
<1>6. TranscriptNotLeft'
  BY NextExpanded, <1>1, <1>2, <1>3 DEF IInv
<1> QED
  BY <1>1, <1>2, <1>3, <1>4, <1>5, <1>6 DEF IInv

(* The invariant of the delivery holds in every reachable state (inject.rs). *)
THEOREM Inductive == Spec => []IInv
  BY InitInv, NextInv, PTL DEF Spec

(* ClipboardKept: the user's clipboard is back after the deliveries          *)
(* (inject.rs:3-10).                                                         *)
THEOREM ClipboardIsKept == Spec => []ClipboardKept
<1>1. IInv => ClipboardKept
  BY DEF IInv
<1> QED
  BY <1>1, Inductive, PTL

(* TranscriptNotLeft: no transcript is left on the clipboard, or gets into   *)
(* another clip, unless its own delivery went wrong (app.rs:143-145).        *)
THEOREM NoTranscriptIsLeft == Spec => []TranscriptNotLeft
<1>1. IInv => TranscriptNotLeft
  BY DEF IInv
<1> QED
  BY <1>1, Inductive, PTL

(* A window that handles a clip's keys within the delay finds that clip's transcript on
   the clipboard, or what the user has copied over it: never another clip's. *)
THEOREM OwnTranscriptInserted == Spec => InsertsItsOwn
<1>1. IInv /\ [Next]_vars =>
        [\A c \in Clips : c \in unread /\ c \notin unread' /\ step[c] = "delay" =>
           inserted'[c] = Transcript(c) \/ inserted'[c].by = "user"]_vars
  <2> SUFFICES ASSUME IInv, Next, NEW c \in Clips, c \in unread, c \notin unread', step[c] = "delay"
               PROVE  inserted'[c] = Transcript(c) \/ inserted'[c].by = "user"
    BY DEF vars
  <2>1. clipboard = Transcript(c) \/ clipboard.by = "user"
    BY DEF IInv, ClipboardInv, Overwritten
  <2>2. WindowReads(c)
    <3>1. ASSUME NEW d \in Clips, Deliver(d) \/ Hangs(d) PROVE unread \subseteq unread'
      BY <3>1 DEF Deliver, Lock, Expand, ExpandNothing, List, ListFails, Read, ReadFails, Copy, CopyFails,
         Keys, KeysFail, Delay, Restore, RestoreFails, RestoreSkipped, Type, TypeFails, Hangs, window
    <3>2. CASE UserCopies \/ Finished
      BY <3>2 DEF UserCopies, Finished, window, vars
    <3>3. ASSUME NEW d \in Clips, WindowReads(d) PROVE c = d
      BY <3>3 DEF WindowReads
    <3> QED BY <3>1, <3>2, <3>3 DEF Next
  <2> QED BY <2>1, <2>2 DEF WindowReads, IInv, TypeOK
<1> QED BY <1>1, Inductive, PTL DEF Spec, InsertsItsOwn
=============================================================================
