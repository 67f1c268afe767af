---------------------------- MODULE TranscriptLog ----------------------------
(***************************************************************************)
(* The transcript log (crates/daemon/src/transcripts.rs and the rotation   *)
(* of config.rs): every clip thread appends one record; a file past its    *)
(* cap is renamed to .1 first.  stats and the settings screen, which are   *)
(* other processes, read both generations.                                 *)
(*                                                                         *)
(* Nothing orders the threads, so every system call is a step.  A line and *)
(* its newline are two writes: writeln! on an unbuffered file passes each  *)
(* piece of the format on by itself.                                       *)
(***************************************************************************)
EXTENDS Naturals, Sequences, FiniteSets

CONSTANTS
  Clips,           \* the clips, each logged by its own thread
  Earlier,         \* the clips an earlier run has logged, in order
  Newline,         \* ends a line
  Cap              \* TRANSCRIPTS_MAX_BYTES, in records

ASSUME NewlineAssumption == Newline \notin Clips
ASSUME CapAssumption == Cap \in Nat
ASSUME EarlierAssumption ==
  /\ Earlier \in Seq(Clips)
  /\ \A j, k \in 1 .. Len(Earlier) : Earlier[j] = Earlier[k] => j = k

VARIABLES
  inodes,          \* the contents of every file ever created
  current,         \* the file transcripts.jsonl names, 0 if there is none
  old,             \* the file transcripts.jsonl.1 names, 0 if there is none
  append,          \* how far each thread is in TranscriptLog::append
  fd,              \* the file each thread has open
  reader,          \* how far the reader is
  opened,          \* the files the reader has open: the old one, the current one
  records,         \* what the reader has read, with the file and the place
  logged,          \* history: the records whose append returned Ok, in that order
  damaged          \* history: a line was cut short, or two appends overlapped

files == << inodes, current, old >>
writers == << append, fd >>
reading == << reader, opened, records >>
logVars == << files, writers, reading, logged, damaged >>

Running == {"metadata", "rename", "open", "line", "newline"}
Steps == Running \cup {"before", "logged", "failed"}

LogTypeOK ==
  /\ inodes \in Seq(Seq(Clips \cup {Newline}))
  /\ current \in 0 .. Len(inodes) /\ old \in 0 .. Len(inodes)
  /\ append \in [Clips -> Steps]
  /\ fd \in [Clips -> 0 .. Len(inodes)]
  /\ reader \in {"closed", "old", "both", "done"}
  /\ opened \in [{"old", "current"} -> 0 .. Len(inodes)]
  /\ records \in SUBSET [from : {"old", "current"}, at : Nat, clip : Clips]
  /\ logged \in Seq(Clips)
  /\ damaged \in BOOLEAN

\* A file of whole lines, one for each record.
Lines(s) == [k \in 1 .. 2 * Len(s) |-> IF k % 2 = 1 THEN s[(k + 1) \div 2] ELSE Newline]

LogInit ==
  /\ inodes = << Lines(Earlier) >> /\ current = 1 /\ old = 0
  /\ append = [c \in Clips |->
       IF \E k \in 1 .. Len(Earlier) : Earlier[k] = c THEN "logged" ELSE "before"]
  /\ fd = [c \in Clips |-> 0]
  /\ reader = "closed" /\ opened = [f \in {"old", "current"} |-> 0] /\ records = {}
  /\ logged = Earlier /\ damaged = FALSE

-----------------------------------------------------------------------------
\* A file's size, in records.
Size(i) == Cardinality({k \in 1 .. Len(inodes[i]) : inodes[i][k] # Newline})

At(c, step) == append' = [append EXCEPT ![c] = step]

\* TranscriptLog::append begins; it overlaps with every one in progress.
AppendBegin(c) ==
  /\ append[c] = "before"
  /\ At(c, "metadata")
  /\ damaged' = (damaged \/ \E d \in Clips : append[d] \in Running)
  /\ UNCHANGED << files, fd, reading, logged >>

\* Mutant: the log rotates at every append.
TooLargeAlways == current # 0

\* rotate_if_larger looks at the size; a missing file is no error.
TooLarge == current # 0 /\ Size(current) > Cap

Metadata(c) ==
  /\ append[c] = "metadata"
  /\ \/ At(c, IF TooLarge THEN "rename" ELSE "open")
     \/ At(c, "open")                          \* metadata fails: a warning
  /\ UNCHANGED << files, fd, reading, logged, damaged >>

\* The rename replaces the older generation. If it fails, appending goes on.
Rename(c) ==
  /\ append[c] = "rename"
  /\ At(c, "open")
  /\ \/ current # 0 /\ old' = current /\ current' = 0 /\ UNCHANGED inodes
     \/ UNCHANGED files
  /\ UNCHANGED << fd, reading, logged, damaged >>

\* Create or open for appending; a failure loses the record.
Open(c) ==
  /\ append[c] = "open"
  /\ \/ /\ current # 0
        /\ fd' = [fd EXCEPT ![c] = current]
        /\ At(c, "line") /\ UNCHANGED files
     \/ /\ current = 0
        /\ inodes' = Append(inodes, <<>>)
        /\ current' = Len(inodes')
        /\ fd' = [fd EXCEPT ![c] = Len(inodes')]
        /\ At(c, "line") /\ UNCHANGED old
     \/ At(c, "failed") /\ UNCHANGED << files, fd >>
  /\ UNCHANGED << reading, logged, damaged >>

Write(c, x) == inodes' = [inodes EXCEPT ![fd[c]] = Append(@, x)]

\* The line itself, at the end of whatever file was opened.
WriteLine(c) ==
  /\ append[c] = "line"
  /\ \/ Write(c, c) /\ At(c, "newline")
     \/ At(c, "failed") /\ UNCHANGED inodes
  /\ UNCHANGED << current, old, fd, reading, logged, damaged >>

\* The newline; if it cannot be written the line stays open.
WriteNewline(c) ==
  /\ append[c] = "newline"
  /\ \/ /\ Write(c, Newline) /\ At(c, "logged")
        /\ logged' = Append(logged, c) /\ UNCHANGED damaged
     \/ At(c, "failed") /\ damaged' = TRUE /\ UNCHANGED << inodes, logged >>
  /\ UNCHANGED << current, old, fd, reading >>

\* The daemon is killed: every append ends where it is. The next run appends to the
\* same file.
Killed ==
  /\ \E c \in Clips : append[c] \in Running
  /\ append' = [c \in Clips |-> IF append[c] \in Running THEN "failed" ELSE append[c]]
  /\ damaged' = (damaged \/ \E c \in Clips : append[c] = "newline")
  /\ UNCHANGED << files, fd, reading, logged >>

AppendStep(c) == Metadata(c) \/ Rename(c) \/ Open(c) \/ WriteLine(c) \/ WriteNewline(c)

-----------------------------------------------------------------------------
\* A record can be parsed if it has its line for itself; other lines are skipped.
Alone(file, k) ==
  /\ file[k] # Newline
  /\ k = 1 \/ file[k - 1] = Newline
  /\ k = Len(file) \/ file[k + 1] = Newline

\* parse, over the lines of a file: where its records are.
Parsed(i) == IF i = 0 THEN {} ELSE {k \in 1 .. Len(inodes[i]) : Alone(inodes[i], k)}

\* TranscriptLog::read opens .1 first, then the current file, then reads them.
ReaderOpen(from, to, name, file) ==
  /\ reader = from /\ reader' = to
  /\ opened' = [opened EXCEPT ![name] = file]
  /\ UNCHANGED << files, writers, records, logged, damaged >>

\* Mutant: the current file is opened first.
OpenFilesSwapped ==
  \/ ReaderOpen("closed", "old", "current", current)
  \/ ReaderOpen("old", "both", "old", old)

OpenFiles ==
  \/ ReaderOpen("closed", "old", "old", old)
  \/ ReaderOpen("old", "both", "current", current)

ReadFiles ==
  /\ reader = "both" /\ reader' = "done"
  /\ records' = UNION {{[from |-> f, at |-> k, clip |-> inodes[opened[f]][k]] :
                           k \in Parsed(opened[f])} : f \in {"old", "current"}}
  /\ UNCHANGED << files, writers, opened, logged, damaged >>

Read == OpenFiles \/ ReadFiles

LogNext == (\E c \in Clips : AppendBegin(c) \/ AppendStep(c)) \/ Killed \/ Read

LogSpec == LogInit /\ [][LogNext]_logVars

-----------------------------------------------------------------------------
\* A reader never sees a record twice: a rotation between its two opens moves the
\* file it has not opened yet, not the one it has (transcripts.rs:115-130).
NoRecordTwice == \A r, s \in records : r.clip = s.clip => r = s

ReadableNow == {inodes[old][k] : k \in Parsed(old)} \cup {inodes[current][k] : k \in Parsed(current)}

\* The records of a full generation, the newest ones.
Newest == {logged[k] : k \in {j \in 1 .. Len(logged) : j > Len(logged) - (Cap + 1)}}

\* As long as every append finished before the next began, and none was cut short,
\* the newest records can be read, a generation of them, whatever rename or open
\* failed and however far a rotation is (transcripts.rs:97-112).
NewestKept == ~damaged => Newest \subseteq ReadableNow

\* What the code says: one record per transcribed clip (transcripts.rs:1-2), with one
\* rotated generation kept. Once no append runs, the newest can be read.
EveryClipLogged ==
  (\A c \in Clips : append[c] \in {"before", "logged"}) => Newest \subseteq ReadableNow
=============================================================================
