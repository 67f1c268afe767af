------------------------------ MODULE ClipsProofs ------------------------------
(***************************************************************************)
(* The transcript log under the clips' threads: whatever number of clips   *)
(* is logged, however the appends, the rotations, the failures, the death  *)
(* of the daemon and the reader's two opens follow on each other, nobody   *)
(* reads a record twice; and as long as no two appends overlap and none is *)
(* cut short, the newest records can be read.                              *)
(***************************************************************************)
EXTENDS Clips, TextProofs

USE NewlineAssumption, CapAssumption, EarlierAssumption

Contents == Clips \cup {Newline}

(* The record of clip c is at place k of file i. *)
Holds(i, k, c) == /\ i \in 1 .. Len(inodes) /\ k \in 1 .. Len(inodes[i])
                  /\ inodes[i][k] = c

(* A clip's record is written once, and not before the thread has come to the write. *)
OncePerClip ==
  \A c \in Clips :
    /\ \A i, j, k, l \in Nat : Holds(i, k, c) /\ Holds(j, l, c) => i = j /\ k = l
    /\ append[c] \in {"before", "metadata", "rename", "open", "line"} =>
         \A i, k \in Nat : ~Holds(i, k, c)

(* The current file is the newest one, and what the reader opened as the old file is
   older than the file it will find as the current one. *)
Generations ==
  /\ current \in {0, Len(inodes)} /\ old \in 0 .. Len(inodes)
  /\ current # 0 => old < current
  /\ reader = "old" => /\ opened["old"] \in 0 .. Len(inodes)
                       /\ current # 0 => opened["old"] < current
  /\ reader = "both" => /\ opened["old"] \in 0 .. Len(inodes) /\ opened["current"] \in 0 .. Len(inodes)
                        /\ opened["current"] # 0 => opened["old"] < opened["current"]

Shapes ==
  /\ inodes \in Seq(Seq(Contents))
  /\ append \in [Clips -> Steps]
  /\ fd \in [Clips -> 0 .. Len(inodes)]
  /\ \A c \in Clips : append[c] \in {"line", "newline"} => fd[c] # 0
  /\ opened \in [{"old", "current"} -> Nat]

LogInv == Shapes /\ OncePerClip /\ Generations /\ NoRecordTwice

-----------------------------------------------------------------------------
(* Lines puts the records at the odd places, each followed by its newline. *)
LEMMA LinesFacts ==
  /\ Lines(Earlier) \in Seq(Contents) /\ Len(Lines(Earlier)) = 2 * Len(Earlier)
  /\ \A k \in 1 .. 2 * Len(Earlier) : Lines(Earlier)[k] # Newline =>
       \E m \in 1 .. Len(Earlier) : k = 2 * m - 1 /\ Lines(Earlier)[k] = Earlier[m]
<1> DEFINE n == Len(Earlier)
<1>1. n \in Nat /\ \A m \in 1 .. n : Earlier[m] \in Clips
  OBVIOUS
<1>2. \A k \in 1 .. 2 * n : k % 2 = 1 => (k + 1) \div 2 \in 1 .. n /\ k = 2 * ((k + 1) \div 2) - 1
  BY <1>1, Z3
<1>3. Lines(Earlier) = [k \in 1 .. 2 * n |-> IF k % 2 = 1 THEN Earlier[(k + 1) \div 2] ELSE Newline]
  BY DEF Lines
<1>4. \A k \in 1 .. 2 * n : Lines(Earlier)[k] \in Contents
  BY <1>1, <1>2, <1>3 DEF Contents
<1>5. Lines(Earlier) \in Seq(Contents) /\ Len(Lines(Earlier)) = 2 * n
  <2>1. 2 * n \in Nat
    BY <1>1
  <2>2. Lines(Earlier) \in [1 .. 2 * n -> Contents]
    BY <1>3, <1>4
  <2> QED BY <2>1, <2>2
<1> QED BY <1>2, <1>3, <1>5

LEMMA InitLogInv == LogInit => LogInv
<1> SUFFICES ASSUME LogInit PROVE LogInv
  OBVIOUS
<1>1. inodes \in Seq(Seq(Contents)) /\ Len(inodes) = 1 /\ inodes[1] = Lines(Earlier)
  BY LinesFacts DEF LogInit
<1>2. append \in [Clips -> {"before", "logged"}]
  BY DEF LogInit
<1>3. Shapes /\ Generations /\ NoRecordTwice
  BY <1>1, <1>2 DEF LogInit, Shapes, Generations, NoRecordTwice, Steps, Running
<1>4. ASSUME NEW c \in Clips, NEW i \in Nat, NEW k \in Nat, Holds(i, k, c)
      PROVE  i = 1 /\ \E m \in 1 .. Len(Earlier) : k = 2 * m - 1 /\ Earlier[m] = c
  <2>1. i = 1 /\ k \in 1 .. Len(inodes[1]) /\ inodes[1][k] = c
    BY <1>1, <1>4 DEF Holds
  <2>2. k \in 1 .. 2 * Len(Earlier) /\ Lines(Earlier)[k] = c /\ c # Newline
    BY <2>1, <1>1, LinesFacts
  <2> QED BY <2>1, <2>2, LinesFacts
<1>5. OncePerClip
  <2> SUFFICES ASSUME NEW c \in Clips
               PROVE  /\ \A i, j, k, l \in Nat : Holds(i, k, c) /\ Holds(j, l, c) => i = j /\ k = l
                      /\ append[c] # "logged" => \A i, k \in Nat : ~Holds(i, k, c)
    BY <1>2 DEF OncePerClip
  <2>1. \A i, j, k, l \in Nat : Holds(i, k, c) /\ Holds(j, l, c) => i = j /\ k = l
    BY <1>4
  <2>2. append[c] # "logged" => \A i, k \in Nat : ~Holds(i, k, c)
    BY <1>4 DEF LogInit
  <2> QED BY <2>1, <2>2
<1> QED BY <1>3, <1>5 DEF LogInv

-----------------------------------------------------------------------------
(* What a write does to the files. *)
LEMMA WriteFacts ==
  ASSUME Shapes, NEW c \in Clips, fd[c] # 0, NEW x \in Contents, Write(c, x)
  PROVE  /\ inodes' \in Seq(Seq(Contents)) /\ Len(inodes') = Len(inodes)
         /\ \A d \in Clips : \A i, k \in Nat :
              Holds(i, k, d)' <=> Holds(i, k, d) \/ (d = x /\ i = fd[c] /\ k = Len(inodes[fd[c]]) + 1)
<1> DEFINE f == fd[c]
           g == Append(inodes[f], x)
<1>1. f \in 1 .. Len(inodes) /\ Len(inodes) \in Nat /\ inodes[f] \in Seq(Contents)
  BY DEF Shapes
<1>2. g \in Seq(Contents) /\ Len(g) = Len(inodes[f]) + 1 /\ Len(inodes[f]) \in Nat
      /\ g[Len(inodes[f]) + 1] = x /\ \A k \in 1 .. Len(inodes[f]) : g[k] = inodes[f][k]
  BY <1>1
<1>3. inodes' = [inodes EXCEPT ![f] = g]
  BY DEF Write
<1>4. inodes' \in Seq(Seq(Contents)) /\ Len(inodes') = Len(inodes)
  BY <1>1, <1>2, <1>3 DEF Shapes
<1>5. inodes'[f] = g /\ \A i \in 1 .. Len(inodes) : i # f => inodes'[i] = inodes[i]
  BY <1>1, <1>3 DEF Shapes
<1>6. ASSUME NEW d \in Clips, NEW i \in Nat, NEW k \in Nat
      PROVE  Holds(i, k, d)' <=> Holds(i, k, d) \/ (d = x /\ i = f /\ k = Len(inodes[f]) + 1)
  <2>1. CASE i = f
    BY <2>1, <1>1, <1>2, <1>4, <1>5 DEF Holds
  <2>2. CASE i # f
    BY <2>2, <1>4, <1>5 DEF Holds
  <2> QED BY <2>1, <2>2
<1> QED BY <1>4, <1>6

(* A new file is empty. *)
LEMMA CreateFacts ==
  ASSUME Shapes, inodes' = Append(inodes, <<>>)
  PROVE  /\ inodes' \in Seq(Seq(Contents)) /\ Len(inodes') = Len(inodes) + 1
         /\ \A d \in Clips : \A i, k \in Nat : Holds(i, k, d)' <=> Holds(i, k, d)
<1>1. inodes' \in Seq(Seq(Contents)) /\ Len(inodes') = Len(inodes) + 1 /\ Len(inodes) \in Nat
  BY DEF Shapes
<1>2. inodes'[Len(inodes) + 1] = <<>> /\ \A i \in 1 .. Len(inodes) : inodes'[i] = inodes[i]
  BY DEF Shapes
<1>3. ASSUME NEW d \in Clips, NEW i \in Nat, NEW k \in Nat
      PROVE  Holds(i, k, d)' <=> Holds(i, k, d)
  <2>1. CASE i = Len(inodes) + 1
    BY <2>1, <1>1, <1>2 DEF Holds
  <2>2. CASE i # Len(inodes) + 1
    BY <2>2, <1>1, <1>2 DEF Holds
  <2> QED BY <2>1, <2>2
<1> QED BY <1>1, <1>3

-----------------------------------------------------------------------------
(* The files are as they were: a thread or the reader has gone on. *)
LEMMA SameFiles ==
  ASSUME inodes' = inodes
  PROVE  \A d \in Clips : \A i, k \in Nat : Holds(i, k, d)' <=> Holds(i, k, d)
  BY DEF Holds

(* A step that moves no record and lets no thread go back keeps each record single. *)
LEMMA StillOnce ==
  ASSUME OncePerClip,
         \A d \in Clips : \A i, k \in Nat : Holds(i, k, d)' <=> Holds(i, k, d),
         \A d \in Clips : append'[d] \in {"before", "metadata", "rename", "open", "line"} =>
                            append[d] \in {"before", "metadata", "rename", "open", "line"}
  PROVE  OncePerClip'
  BY DEF OncePerClip

LEMMA AppendKeeps == ASSUME LogInv, NEW c \in Clips, AppendBegin(c) \/ AppendStep(c) PROVE LogInv'
<1> USE DEF LogInv, At
<1>0. /\ append \in [Clips -> Steps] /\ Len(inodes) \in Nat
      /\ inodes \in Seq(Seq(Contents)) /\ fd \in [Clips -> 0 .. Len(inodes)]
  BY DEF Shapes
<1>1. CASE AppendBegin(c) \/ Metadata(c)
  <2>1. UNCHANGED << files, fd, reading >>
    BY <1>1 DEF AppendBegin, Metadata
  <2>2. \E p \in {"metadata", "rename", "open"} :
           /\ append' = [append EXCEPT ![c] = p] /\ append[c] \in {"before", "metadata"}
    BY <1>1 DEF AppendBegin, Metadata
  <2>3. Shapes'
    BY <2>1, <2>2 DEF Shapes, Steps, Running, files, reading
  <2>4. OncePerClip'
    BY <1>0, <2>1, <2>2, SameFiles, StillOnce DEF files
  <2>5. Generations' /\ NoRecordTwice'
    BY <2>1 DEF Generations, NoRecordTwice, files, reading
  <2> QED BY <2>3, <2>4, <2>5
<1>2. CASE Rename(c)
  <2>1. UNCHANGED << inodes, fd, reading >> /\ append[c] = "rename" /\ append' = [append EXCEPT ![c] = "open"]
    BY <1>2 DEF Rename, files
  <2>2. \/ current # 0 /\ old' = current /\ current' = 0
        \/ UNCHANGED << current, old >>
    BY <1>2 DEF Rename, files
  <2>3. Shapes'
    BY <2>1 DEF Shapes, Steps, Running, reading
  <2>4. OncePerClip'
    BY <1>0, <2>1, SameFiles, StillOnce
  <2>5. Generations' /\ NoRecordTwice'
    BY <1>0, <2>1, <2>2 DEF Generations, NoRecordTwice, reading
  <2> QED BY <2>3, <2>4, <2>5
<1>3. CASE Open(c)
  <2> UNCHANGED reading /\ UNCHANGED old
    BY <1>3 DEF Open, files
  <2>1. CASE inodes' = inodes /\ current' = current
    <3>1. /\ append[c] = "open"
          /\ \/ append' = [append EXCEPT ![c] = "line"] /\ current # 0 /\ fd' = [fd EXCEPT ![c] = current]
             \/ append' = [append EXCEPT ![c] = "failed"] /\ fd' = fd
      BY <1>0, <1>3, <2>1 DEF Open
    <3>2. current \in 0 .. Len(inodes) /\ fd' \in [Clips -> 0 .. Len(inodes)]
          /\ append' \in [Clips -> Steps]
      <4>1. current \in 0 .. Len(inodes)
        BY <1>0 DEF Generations
      <4>2. append' \in [Clips -> Steps]
        BY <1>0, <3>1 DEF Steps, Running
      <4>3. fd' \in [Clips -> 0 .. Len(inodes)]
        BY <1>0, <4>1, <3>1
      <4> QED BY <4>1, <4>2, <4>3
    <3>5. \A d \in Clips : append'[d] \in {"line", "newline"} => fd'[d] # 0
      BY <1>0, <3>1 DEF Shapes
    <3>6. Shapes'
      BY <1>0, <2>1, <3>2, <3>5 DEF Shapes, reading
    <3>3. OncePerClip'
      BY <1>0, <2>1, <3>1, SameFiles, StillOnce
    <3>4. Generations' /\ NoRecordTwice'
      BY <2>1 DEF Generations, NoRecordTwice, reading
    <3> QED BY <3>3, <3>4, <3>6
  <2>2. CASE current = 0 /\ inodes' = Append(inodes, <<>>)
    <3>1. /\ append[c] = "open" /\ append' = [append EXCEPT ![c] = "line"]
          /\ current' = Len(inodes) + 1 /\ fd' = [fd EXCEPT ![c] = Len(inodes) + 1]
          /\ Len(inodes') = Len(inodes) + 1
      BY <1>0, <1>3, <2>2, CreateFacts DEF Open, files
    <3>2. Shapes'
      BY <1>0, <2>2, <3>1, CreateFacts DEF Shapes, Steps, Running, reading
    <3>3. OncePerClip'
      BY <1>0, <2>2, <3>1, CreateFacts, StillOnce
    <3>4. Generations' /\ NoRecordTwice'
      BY <1>0, <2>2, <3>1 DEF Generations, NoRecordTwice, reading
    <3> QED BY <3>2, <3>3, <3>4
  <2> QED BY <1>3, <2>1, <2>2 DEF Open, files
<1>4. CASE WriteLine(c)
  <2>1. UNCHANGED << current, old, fd, reading >> /\ append[c] = "line"
    BY <1>4 DEF WriteLine
  <2>2. CASE Write(c, c) /\ append' = [append EXCEPT ![c] = "newline"]
    <3>1. /\ inodes' \in Seq(Seq(Contents)) /\ Len(inodes') = Len(inodes)
          /\ \A d \in Clips : \A i, k \in Nat :
               Holds(i, k, d)' <=> Holds(i, k, d) \/ (d = c /\ i = fd[c] /\ k = Len(inodes[fd[c]]) + 1)
      BY <2>1, <2>2, WriteFacts DEF Shapes, Contents
    <3>2. \A i, k \in Nat : ~Holds(i, k, c)
      BY <2>1 DEF OncePerClip
    <3>3. Shapes'
      BY <2>1, <2>2, <3>1 DEF Shapes, Steps, Running, reading
    <3>4. append'[c] = "newline" /\ \A d \in Clips : d # c => append'[d] = append[d]
      BY <1>0, <2>2
    <3>5. OncePerClip'
      <4> SUFFICES ASSUME NEW d \in Clips
                   PROVE  /\ \A i, j, k, l \in Nat : Holds(i, k, d)' /\ Holds(j, l, d)' => i = j /\ k = l
                          /\ append'[d] \in {"before", "metadata", "rename", "open", "line"} =>
                               \A i, k \in Nat : ~Holds(i, k, d)'
        BY DEF OncePerClip
      <4>1. CASE d = c
        <5>1. \A i, k \in Nat : Holds(i, k, c)' => i = fd[c] /\ k = Len(inodes[fd[c]]) + 1
          BY <3>1, <3>2
        <5> QED BY <4>1, <5>1, <3>4
      <4>2. CASE d # c
        <5>1. \A i, k \in Nat : Holds(i, k, d)' <=> Holds(i, k, d)
          BY <4>2, <3>1
        <5>2. append'[d] = append[d]
          BY <4>2, <3>4
        <5> QED BY <5>1, <5>2 DEF OncePerClip
      <4> QED BY <4>1, <4>2
    <3>6. Generations' /\ NoRecordTwice'
      BY <2>1, <3>1 DEF Generations, NoRecordTwice, reading
    <3> QED BY <3>3, <3>5, <3>6
  <2>3. CASE inodes' = inodes /\ append' = [append EXCEPT ![c] = "failed"]
    <3>1. Shapes'
      BY <2>1, <2>3 DEF Shapes, Steps, Running, reading
    <3>2. OncePerClip'
      BY <1>0, <2>1, <2>3, SameFiles, StillOnce
    <3>3. Generations' /\ NoRecordTwice'
      BY <2>1, <2>3 DEF Generations, NoRecordTwice, reading
    <3> QED BY <3>1, <3>2, <3>3
  <2> QED BY <1>4, <2>2, <2>3 DEF WriteLine
<1>5. CASE WriteNewline(c)
  <2>1. UNCHANGED << current, old, fd, reading >> /\ append[c] = "newline"
        /\ \E p \in {"logged", "failed"} : append' = [append EXCEPT ![c] = p]
    BY <1>5 DEF WriteNewline
  <2>2. /\ inodes' \in Seq(Seq(Contents)) /\ Len(inodes') = Len(inodes)
        /\ \A d \in Clips : \A i, k \in Nat : Holds(i, k, d)' <=> Holds(i, k, d)
    <3>1. CASE inodes' = inodes
      BY <1>0, <3>1, SameFiles
    <3>2. CASE Write(c, Newline)
      <4>1. /\ inodes' \in Seq(Seq(Contents)) /\ Len(inodes') = Len(inodes)
            /\ \A d \in Clips : \A i, k \in Nat :
                 Holds(i, k, d)' <=> Holds(i, k, d) \/ (d = Newline /\ i = fd[c] /\ k = Len(inodes[fd[c]]) + 1)
        BY <2>1, <3>2, WriteFacts DEF Shapes, Contents
      <4> QED BY <4>1
    <3> QED BY <1>5, <3>1, <3>2 DEF WriteNewline
  <2>3. Shapes'
    BY <2>1, <2>2 DEF Shapes, Steps, Running, reading
  <2>4. OncePerClip'
    BY <1>0, <2>1, <2>2, StillOnce
  <2>5. Generations' /\ NoRecordTwice'
    BY <2>1, <2>2 DEF Generations, NoRecordTwice, reading
  <2> QED BY <2>3, <2>4, <2>5
<1> QED BY <1>1, <1>2, <1>3, <1>4, <1>5 DEF AppendStep

LEMMA KilledKeeps == LogInv /\ Killed => LogInv'
<1> SUFFICES ASSUME LogInv, Killed PROVE LogInv'
  OBVIOUS
<1> USE DEF LogInv
<1>1. UNCHANGED << files, fd, reading >>
      /\ append' = [d \in Clips |-> IF append[d] \in Running THEN "failed" ELSE append[d]]
  BY DEF Killed
<1>2. Shapes'
  BY <1>1 DEF Shapes, Steps, Running, files, reading
<1>3. OncePerClip'
  BY <1>1, SameFiles, StillOnce DEF files
<1>4. Generations' /\ NoRecordTwice'
  BY <1>1 DEF Generations, NoRecordTwice, files, reading
<1> QED BY <1>2, <1>3, <1>4

LEMMA ReadKeeps == LogInv /\ Read => LogInv'
<1> SUFFICES ASSUME LogInv, Read PROVE LogInv'
  OBVIOUS
<1> USE DEF LogInv
<1>1. UNCHANGED << files, append, fd >>
  BY DEF Read, OpenFiles, ReaderOpen, ReadFiles, writers
<1>2. OncePerClip'
  BY <1>1, SameFiles, StillOnce DEF files
<1>3. CASE OpenFiles
  <2>1. current \in Nat /\ old \in Nat
    BY DEF Generations, Shapes
  <2>2. Shapes'
    BY <1>1, <1>3, <2>1 DEF Shapes, OpenFiles, ReaderOpen, files
  <2>3. Generations'
    BY <1>1, <1>3 DEF Generations, Shapes, OpenFiles, ReaderOpen, files
  <2>4. NoRecordTwice'
    BY <1>3 DEF NoRecordTwice, OpenFiles, ReaderOpen
  <2> QED BY <1>2, <2>2, <2>3, <2>4
<1>4. CASE ReadFiles
  <2>1. Shapes' /\ Generations'
    BY <1>1, <1>4 DEF Shapes, Generations, ReadFiles, files
  <2>2. NoRecordTwice'
    <3> SUFFICES ASSUME NEW r \in records', NEW s \in records', r.clip = s.clip
                 PROVE  r = s
      BY DEF NoRecordTwice
    <3>1. ASSUME NEW q \in records'
          PROVE  /\ q.from \in {"old", "current"} /\ q = [from |-> q.from, at |-> q.at, clip |-> q.clip]
                 /\ q.at \in Nat /\ q.clip \in Clips /\ Holds(opened[q.from], q.at, q.clip)
      <4>1. PICK f \in {"old", "current"} :
              \E k \in Parsed(opened[f]) : q = [from |-> f, at |-> k, clip |-> inodes[opened[f]][k]]
        BY <1>4, <3>1 DEF ReadFiles
      <4>0. PICK k \in Parsed(opened[f]) : q = [from |-> f, at |-> k, clip |-> inodes[opened[f]][k]]
        BY <4>1
      <4>2. opened[f] \in 1 .. Len(inodes) /\ k \in 1 .. Len(inodes[opened[f]])
            /\ inodes[opened[f]][k] # Newline
        <5>1. opened[f] \in 0 .. Len(inodes)
          BY <1>4 DEF ReadFiles, Generations
        <5>2. opened[f] # 0 /\ k \in 1 .. Len(inodes[opened[f]]) /\ Alone(inodes[opened[f]], k)
          BY <4>0 DEF Parsed
        <5> QED BY <5>1, <5>2 DEF Alone
      <4>3. inodes[opened[f]] \in Seq(Contents)
        BY <4>2 DEF Shapes
      <4>4. inodes[opened[f]][k] \in Clips /\ k \in Nat
        BY <4>2, <4>3 DEF Contents
      <4> QED BY <4>0, <4>2, <4>4 DEF Holds
    <3>2. opened["old"] # opened["current"] \/ opened["current"] = 0
      BY <1>4 DEF ReadFiles, Generations
    <3>3. opened[r.from] = opened[s.from] /\ r.at = s.at /\ opened[r.from] \in Nat \ {0}
      <4>1. Holds(opened[r.from], r.at, r.clip) /\ Holds(opened[s.from], s.at, r.clip)
        BY <3>1
      <4>2. opened[r.from] \in Nat \ {0} /\ opened[s.from] \in Nat /\ r.at \in Nat /\ s.at \in Nat
        BY <3>1 DEF Shapes, Holds
      <4> QED BY <3>1, <4>1, <4>2 DEF OncePerClip
    <3>4. r.from = s.from
      BY <3>1, <3>2, <3>3
    <3> QED BY <3>1, <3>3, <3>4
  <2> QED BY <1>2, <2>1, <2>2
<1> QED BY <1>3, <1>4 DEF Read

LEMMA UnchangedKeeps == LogInv /\ UNCHANGED logVars => LogInv'
  BY DEF LogInv, Shapes, OncePerClip, Holds, Generations, NoRecordTwice, logVars, files, writers, reading

(* The log's invariant, over its own steps. *)
LEMMA LogStepKeeps == LogInv /\ [LogNext]_logVars => LogInv'
  BY AppendKeeps, KilledKeeps, ReadKeeps, UnchangedKeeps DEF LogNext

-----------------------------------------------------------------------------
(* The clips' threads use the log as it wants to be used: each step of the whole is a
   step of the log or leaves it alone. *)
LEMMA ClipsStepTheLog == Next => [LogNext]_logVars
<1> SUFFICES ASSUME Next PROVE [LogNext]_logVars
  OBVIOUS
<1>1. ASSUME NEW c \in Clips, Receive(c) \/ ClipStep(c)
      PROVE  [LogNext]_logVars
  <2>1. CASE LogRecord(c)
    BY <2>1 DEF LogRecord, LogNext
  <2>2. CASE LogStep(c)
    BY <2>2 DEF LogStep, LogNext
  <2>3. CASE Receive(c) \/ Request(c) \/ Timeout(c) \/ Decide(c) \/ Deliver(c) \/ Inject(c)
    BY <2>3 DEF Receive, Request, Timeout, Decide, Deliver, Inject
  <2> QED BY <1>1, <2>1, <2>2, <2>3 DEF ClipStep
<1>2. CASE Serve \/ Finish \/ ServerDies \/ ServerListens
  BY <1>2 DEF Serve, Finish, ServerDies, ServerListens
<1>3. CASE DaemonKilled
  BY <1>3 DEF DaemonKilled, LogNext
<1>4. CASE Read
  BY <1>4 DEF LogNext
<1> QED BY <1>1, <1>2, <1>3, <1>4 DEF Next

(* The composition of the clips' threads, the server and the daemon's deaths
   implements the log's own specification. *)
THEOREM ClipsImplementTheLog == Spec => LogSpec
<1>1. Init => LogInit
  BY DEF Init
<1>2. [Next]_vars => [LogNext]_logVars
  BY ClipsStepTheLog DEF vars
<1> QED BY <1>1, <1>2, PTL DEF Spec, LogSpec

(* Nobody reads a record twice, for any number of clips and any cap. *)
THEOREM NoRecordIsReadTwice == Spec => []NoRecordTwice
<1>1. LogInv => NoRecordTwice
  BY DEF LogInv
<1>2. LogSpec => []LogInv
  BY InitLogInv, LogStepKeeps, PTL DEF LogSpec
<1> QED BY <1>1, <1>2, ClipsImplementTheLog, PTL

-----------------------------------------------------------------------------
(* The newest records.  The whole lines of a file, and that they are records in the
   order of the log, the first of them number from + 1. *)
Whole(i) == IF i = 0 THEN 0 ELSE Len(inodes[i]) \div 2
InOrder(i, from) ==
  \A k \in 1 .. Whole(i) : inodes[i][2 * k - 1] = logged[from + k] /\ inodes[i][2 * k] = Newline

(* Without overlapping appends: the one in progress works on the current file, which is
   still too large when it comes to the rename. *)
OneWriter ==
  /\ \A c, d \in Clips : append[c] \in Running /\ append[d] \in Running => c = d
  /\ \A c \in Clips : append[c] \in {"line", "newline"} => fd[c] = current
  /\ \A c \in Clips : append[c] = "rename" => current # 0 /\ Whole(current) > Cap

(* No line is open but the one being written. *)
Closed ==
  /\ old # 0 => Len(inodes[old]) = 2 * Whole(old)
  /\ current # 0 /\ (\A c \in Clips : append[c] # "newline") =>
       Len(inodes[current]) = 2 * Whole(current)
  /\ \A c \in Clips : append[c] = "newline" =>
       /\ Len(inodes[current]) = 2 * Whole(current) + 1
       /\ inodes[current][Len(inodes[current])] = c

(* The two files hold the end of the log: all of it, or more than a full generation. *)
EndOfLog ==
  /\ Whole(current) + Whole(old) <= Len(logged)
  /\ Whole(current) + Whole(old) = Len(logged) \/ Whole(old) > Cap
  /\ InOrder(current, Len(logged) - Whole(current))
  /\ InOrder(old, Len(logged) - Whole(current) - Whole(old))

KeptInv ==
  /\ LogInv /\ logged \in Seq(Clips)
  /\ ~damaged => OneWriter /\ Closed /\ EndOfLog

(* A place in a file of 2 m lines is the first or the second half of one of m lines. *)
LEMMA Halves ==
  ASSUME NEW m \in Nat, NEW q \in 1 .. 2 * m
  PROVE  \E j \in 1 .. m : q = 2 * j \/ q = 2 * j - 1
<1>1. CASE q % 2 = 1
  <2>1. (q + 1) \div 2 \in 1 .. m /\ q = 2 * ((q + 1) \div 2) - 1
    BY <1>1, Z3
  <2> QED BY <2>1
<1>2. CASE q % 2 # 1
  <2>1. q \div 2 \in 1 .. m /\ q = 2 * (q \div 2)
    BY <1>2, Z3
  <2> QED BY <2>1
<1> QED BY <1>1, <1>2

(* The size of a closed file is the number of its whole lines. *)
LEMMA SizeFacts ==
  ASSUME NEW i \in 1 .. Len(inodes), inodes \in Seq(Seq(Contents)), Len(inodes[i]) = 2 * Whole(i),
         \A k \in 1 .. Whole(i) : inodes[i][2 * k] = Newline
  PROVE  Size(i) \in Nat /\ Size(i) <= Whole(i)
<1> DEFINE m == Whole(i)
           S == {k \in 1 .. Len(inodes[i]) : inodes[i][k] # Newline}
           f == [k \in 1 .. m |-> 2 * k - 1]
           T == {f[k] : k \in 1 .. m}
<1>1. m \in Nat /\ Len(inodes[i]) = 2 * m
  <2>1. inodes[i] \in Seq(Contents) /\ i # 0
    OBVIOUS
  <2>2. Len(inodes[i]) \in Nat
    BY <2>1
  <2>3. \A n \in Nat : n \div 2 \in Nat
    BY Z3
  <2>4. Whole(i) = Len(inodes[i]) \div 2
    BY <2>1 DEF Whole
  <2> QED BY <2>2, <2>3, <2>4
<1> HIDE DEF m
<1>2. IsFiniteSet(1 .. m) /\ Cardinality(1 .. m) = m
  <2>1. IsFiniteSet(1 .. m) /\ Cardinality(1 .. m) = IF 1 > m THEN 0 ELSE m - 1 + 1
    BY <1>1, 1 \in Int, m \in Int, FS_Interval, Zenon
  <2> QED BY <1>1, <2>1
<1>3. IsFiniteSet(T) /\ Cardinality(T) <= m
  <2>1. f \in Surjection(1 .. m, T)
    BY DEF Surjection
  <2> QED BY <1>2, <2>1, FS_Surjection
<1>4. S \subseteq T
  <2> SUFFICES ASSUME NEW k \in S PROVE k \in T
    OBVIOUS
  <2>1. k \in 1 .. 2 * m /\ inodes[i][k] # Newline
    BY <1>1
  <2>4. PICK j \in 1 .. m : k = 2 * j \/ k = 2 * j - 1
    BY <1>1, <2>1, Halves
  <2>3. k = f[j]
    BY <2>1, <2>4 DEF m
  <2> QED BY <2>3
<1>5. IsFiniteSet(S) /\ Cardinality(S) <= Cardinality(T)
  BY <1>3, <1>4, FS_Subset
<1> HIDE DEF S, T, f
<1>6. Cardinality(S) \in Nat /\ Cardinality(T) \in Nat
  BY <1>3, <1>5, FS_CardinalityType, Zenon
<1>7. Size(i) = Cardinality(S)
  BY Zenon DEF Size, S
<1> QED BY <1>1, <1>3, <1>5, <1>6, <1>7 DEF m

(* What the invariant says of the ranges of its parts. *)
LEMMA KeptRanges ==
  ASSUME KeptInv
  PROVE  /\ Len(inodes) \in Nat /\ current \in 0 .. Len(inodes) /\ old \in 0 .. Len(inodes)
         /\ current # 0 => old # current
         /\ \A i \in 1 .. Len(inodes) : inodes[i] \in Seq(Contents) /\ Len(inodes[i]) \in Nat
         /\ \A i \in 0 .. Len(inodes) : Whole(i) \in Nat
         /\ Len(logged) \in Nat /\ append \in [Clips -> Steps] /\ fd \in [Clips -> 0 .. Len(inodes)]
<1>1. Shapes /\ Generations /\ logged \in Seq(Clips)
  BY DEF KeptInv, LogInv
<1>2. Len(inodes) \in Nat /\ current \in 0 .. Len(inodes) /\ old \in 0 .. Len(inodes)
      /\ (current # 0 => old # current)
  BY <1>1 DEF Shapes, Generations
<1>3. \A i \in 1 .. Len(inodes) : inodes[i] \in Seq(Contents) /\ Len(inodes[i]) \in Nat
  BY <1>1 DEF Shapes
<1>4. \A n \in Nat : n \div 2 \in Nat
  BY Z3
<1>5. \A i \in 0 .. Len(inodes) : Whole(i) \in Nat
  <2> SUFFICES ASSUME NEW i \in 0 .. Len(inodes) PROVE Whole(i) \in Nat
    OBVIOUS
  <2>1. CASE i = 0
    BY <2>1 DEF Whole
  <2>2. CASE i # 0
    <3>1. Len(inodes[i]) \in Nat
      BY <1>2, <1>3, <2>2
    <3>2. Whole(i) = Len(inodes[i]) \div 2
      BY <2>2 DEF Whole
    <3> QED BY <1>4, <3>1, <3>2
  <2> QED BY <2>1, <2>2
<1> QED BY <1>1, <1>2, <1>3, <1>5 DEF Shapes

(* The thread that goes on is the only one. *)
LEMMA NextWriter ==
  ASSUME append \in [Clips -> Steps], NEW c \in Clips, NEW p, append' = [append EXCEPT ![c] = p],
         \A d \in Clips : d # c => append[d] \notin Running,
         p \in {"line", "newline"} => fd'[c] = current',
         p = "rename" => current' # 0 /\ Whole(current)' > Cap
  PROVE  OneWriter'
<1>1. append'[c] = p /\ \A d \in Clips : d # c => append'[d] = append[d]
  OBVIOUS
<1>2. \A d \in Clips : append'[d] \in Running => d = c
  BY <1>1
<1> QED BY <1>1, <1>2 DEF OneWriter, Running

(* Files and log stay as they are. *)
LEMMA SameLog ==
  ASSUME Closed, EndOfLog, UNCHANGED << inodes, current, old, logged >>,
         \A c \in Clips : append'[c] = "newline" <=> append[c] = "newline"
  PROVE  Closed' /\ EndOfLog'
<1>1. Closed'
  BY DEF Closed, Whole
<1>2. EndOfLog'
  BY DEF EndOfLog, InOrder, Whole
<1> QED BY <1>1, <1>2

(* A rename takes a file that is too large for its turn: the log's end is then in the
   old generation. *)
LEMMA RenameKeepsEnd ==
  ASSUME KeptInv, ~damaged, NEW c \in Clips, Rename(c)
  PROVE  OneWriter' /\ Closed' /\ EndOfLog'
<1>1. OneWriter /\ Closed /\ EndOfLog /\ append[c] = "rename"
      /\ append' = [append EXCEPT ![c] = "open"] /\ UNCHANGED << inodes, fd, logged >>
  BY DEF KeptInv, Rename, At, files
<1>2. \A d \in Clips : d # c => append[d] \notin Running
  BY <1>1 DEF OneWriter, Running
<1>3. OneWriter'
  BY <1>1, <1>2, KeptRanges, NextWriter
<1>4. \A d \in Clips : append[d] # "newline" /\ append'[d] # "newline"
  BY <1>1, <1>2, KeptRanges DEF Running
<1>5. CASE UNCHANGED << current, old >>
  BY <1>1, <1>3, <1>4, <1>5, SameLog
<1>6. CASE current # 0 /\ old' = current /\ current' = 0
  <2>1. Whole(old)' = Whole(current) /\ Whole(current)' = 0 /\ Whole(current) > Cap
    BY <1>1, <1>6 DEF Whole, OneWriter
  <2>2. Closed'
    BY <1>1, <1>4, <1>6, <2>1 DEF Closed
  <2>3. InOrder(old, Len(logged) - Whole(current) - Whole(old))'
    <3>1. Len(logged') - Whole(current)' - Whole(old)' = Len(logged) - Whole(current)
      BY <1>1, <2>1, KeptRanges
    <3>2. \A k \in 1 .. Whole(current) :
             /\ inodes'[old'][2 * k - 1] = logged'[Len(logged) - Whole(current) + k]
             /\ inodes'[old'][2 * k] = Newline
      BY <1>1, <1>6 DEF EndOfLog, InOrder
    <3> QED BY <2>1, <3>1, <3>2 DEF InOrder
  <2>4. InOrder(current, Len(logged) - Whole(current))'
    BY <2>1 DEF InOrder
  <2>5. EndOfLog'
    <3>1. Whole(current) \in Nat /\ Whole(old) \in Nat /\ Len(logged) \in Nat
      BY KeptRanges
    <3> QED BY <1>1, <2>1, <2>3, <2>4, <3>1 DEF EndOfLog
  <2> QED BY <1>3, <2>2, <2>5
<1> QED BY <1>5, <1>6 DEF Rename, files

(* The look at the size sees what the file holds. *)
LEMMA MetadataKeepsEnd ==
  ASSUME KeptInv, ~damaged, NEW c \in Clips, Metadata(c)
  PROVE  OneWriter' /\ Closed' /\ EndOfLog'
<1>1. OneWriter /\ Closed /\ EndOfLog /\ append[c] = "metadata"
      /\ UNCHANGED << inodes, current, old, fd, logged >>
  BY DEF KeptInv, Metadata, files
<1>2. PICK p \in {"rename", "open"} : append' = [append EXCEPT ![c] = p] /\ (p = "rename" => TooLarge)
  BY DEF Metadata, At
<1>3. \A d \in Clips : d # c => append[d] \notin Running
  BY <1>1 DEF OneWriter, Running
<1>4. \A d \in Clips : append[d] # "newline" /\ append'[d] # "newline"
  BY <1>1, <1>2, <1>3, KeptRanges DEF Running
<1>5. Closed' /\ EndOfLog'
  BY <1>1, <1>4, SameLog
<1>6. ASSUME p = "rename" PROVE current' # 0 /\ Whole(current)' > Cap
  <2>1. current \in 1 .. Len(inodes) /\ Size(current) > Cap
    BY <1>2, <1>6, KeptRanges DEF TooLarge
  <2>2. Len(inodes[current]) = 2 * Whole(current)
    BY <1>1, <1>4, <2>1 DEF Closed
  <2>3. inodes \in Seq(Seq(Contents))
    BY DEF KeptInv, LogInv, Shapes
  <2>4. \A k \in 1 .. Whole(current) : inodes[current][2 * k] = Newline
    BY <1>1 DEF EndOfLog, InOrder
  <2>5. Size(current) \in Nat /\ Size(current) <= Whole(current)
    BY <2>1, <2>2, <2>3, <2>4, SizeFacts
  <2>6. Whole(current) > Cap
    <3>1. Whole(current) \in Nat /\ Cap \in Nat
      BY <2>1, KeptRanges, CapAssumption
    <3> QED BY <2>1, <2>5, <3>1
  <2>7. Whole(current)' = Whole(current)
    BY <1>1 DEF Whole
  <2> QED BY <1>1, <2>1, <2>6, <2>7
<1>7. OneWriter'
  BY <1>2, <1>3, <1>6, KeptRanges, NextWriter
<1> QED BY <1>5, <1>7

(* A new file has no lines yet; the log's end is in the old one. *)
LEMMA OpenKeepsEnd ==
  ASSUME KeptInv, ~damaged, NEW c \in Clips, Open(c)
  PROVE  OneWriter' /\ Closed' /\ EndOfLog'
<1>1. OneWriter /\ Closed /\ EndOfLog /\ append[c] = "open" /\ UNCHANGED << old, logged >>
  BY DEF KeptInv, Open, files
<1>2. \A d \in Clips : d # c => append[d] \notin Running
  BY <1>1 DEF OneWriter, Running
<1>3. PICK p \in {"line", "failed"} : append' = [append EXCEPT ![c] = p]
  BY DEF Open, At
<1>4. \A d \in Clips : append[d] # "newline" /\ append'[d] # "newline"
  BY <1>1, <1>2, <1>3, KeptRanges DEF Running
<1>5. p = "line" => fd'[c] = current'
  BY <1>3, KeptRanges DEF Open, At, files
<1>6. OneWriter'
  BY <1>2, <1>3, <1>5, KeptRanges, NextWriter
<1>7. CASE UNCHANGED << inodes, current >>
  BY <1>1, <1>4, <1>6, <1>7, SameLog
<1>8. CASE current = 0 /\ inodes' = Append(inodes, <<>>) /\ current' = Len(inodes')
  <2>1. inodes \in Seq(Seq(Contents)) /\ Len(inodes) \in Nat /\ old \in 0 .. Len(inodes)
    BY KeptRanges DEF KeptInv, LogInv, Shapes
  <2>2. current' = Len(inodes) + 1 /\ inodes'[Len(inodes) + 1] = <<>>
        /\ \A i \in 1 .. Len(inodes) : inodes'[i] = inodes[i]
    BY <1>8, <2>1
  <2>3. Len(inodes'[current']) = 0
    BY <2>2
  <2>4. 0 \div 2 = 0
    BY Z3
  <2>5. Whole(current)' = 0 /\ Whole(current) = 0
    BY <1>8, <2>1, <2>2, <2>3, <2>4 DEF Whole
  <2>6. old # 0 => inodes'[old'] = inodes[old]
    BY <1>1, <2>1, <2>2
  <2>7. Whole(old)' = Whole(old)
    BY <1>1, <2>6 DEF Whole
  <2>8. Closed'
    BY <1>1, <1>4, <2>3, <2>5, <2>6, <2>7 DEF Closed
  <2>9. InOrder(old, Len(logged) - Whole(current) - Whole(old))'
    <3>1. CASE old = 0
      BY <1>1, <3>1 DEF InOrder, Whole
    <3>2. CASE old # 0
      BY <1>1, <2>5, <2>6, <2>7, <3>2 DEF InOrder, EndOfLog
    <3> QED BY <3>1, <3>2
  <2>10. EndOfLog'
    BY <1>1, <2>5, <2>7, <2>9 DEF EndOfLog, InOrder
  <2> QED BY <1>6, <2>8, <2>10
<1> QED BY <1>7, <1>8 DEF Open, files

(* What a write does to the current file and its whole lines. *)
LEMMA WriteAtTheEnd ==
  ASSUME KeptInv, NEW c \in Clips, fd[c] = current, current # 0, NEW x \in Contents, Write(c, x),
         UNCHANGED << current, old >>
  PROVE  /\ Len(inodes'[current]) = Len(inodes[current]) + 1
         /\ inodes'[current][Len(inodes[current]) + 1] = x
         /\ \A k \in 1 .. Len(inodes[current]) : inodes'[current][k] = inodes[current][k]
         /\ old # 0 => inodes'[old] = inodes[old]
<1>1. current \in 1 .. Len(inodes) /\ inodes[current] \in Seq(Contents)
      /\ old \in 0 .. Len(inodes) /\ old # current /\ inodes \in Seq(Seq(Contents))
  BY KeptRanges DEF KeptInv, LogInv, Shapes
<1>2. inodes' = [inodes EXCEPT ![current] = Append(inodes[current], x)]
  BY DEF Write
<1>3. inodes'[current] = Append(inodes[current], x)
      /\ \A i \in 1 .. Len(inodes) : i # current => inodes'[i] = inodes[i]
  BY <1>1, <1>2
<1> QED BY <1>1, <1>3

(* The line goes to the end of the closed current file, and opens a line there. *)
LEMMA WriteLineKeepsEnd ==
  ASSUME KeptInv, ~damaged, NEW c \in Clips, WriteLine(c)
  PROVE  OneWriter' /\ Closed' /\ EndOfLog'
<1>1. OneWriter /\ Closed /\ EndOfLog /\ append[c] = "line" /\ UNCHANGED << current, old, fd, logged >>
  BY DEF KeptInv, WriteLine
<1>2. \A d \in Clips : d # c => append[d] \notin Running
  BY <1>1 DEF OneWriter, Running
<1>3. PICK p \in {"newline", "failed"} : append' = [append EXCEPT ![c] = p]
  BY DEF WriteLine, At
<1>4. fd[c] = current /\ current # 0
  BY <1>1 DEF OneWriter, KeptInv, LogInv, Shapes
<1>5. OneWriter'
  BY <1>1, <1>2, <1>3, <1>4, KeptRanges, NextWriter
<1>6. CASE p = "failed" /\ UNCHANGED inodes
  <2>1. \A d \in Clips : append[d] # "newline" /\ append'[d] # "newline"
    BY <1>1, <1>2, <1>3, <1>6, KeptRanges DEF Running
  <2> QED BY <1>1, <1>5, <1>6, <2>1, SameLog
<1>7. CASE p = "newline" /\ Write(c, c)
  <2> DEFINE m == Whole(current)
  <2>1. /\ Len(inodes'[current]) = Len(inodes[current]) + 1
        /\ inodes'[current][Len(inodes[current]) + 1] = c
        /\ \A k \in 1 .. Len(inodes[current]) : inodes'[current][k] = inodes[current][k]
        /\ old # 0 => inodes'[old] = inodes[old]
    BY <1>1, <1>4, <1>7, WriteAtTheEnd DEF Contents
  <2>2. \A d \in Clips : append[d] # "newline" /\ (append'[d] = "newline" => d = c)
    BY <1>1, <1>2, <1>3, KeptRanges DEF Running
  <2>3. Len(inodes[current]) = 2 * m /\ m \in Nat
    BY <1>1, <1>4, <2>2, KeptRanges DEF Closed
  <2>4. \A n \in Nat : (2 * n + 1) \div 2 = n
    BY Z3
  <2>5. Whole(current)' = m /\ Whole(old)' = Whole(old)
    <3>1. Whole(current)' = Len(inodes'[current]) \div 2 /\ Whole(old)' = Whole(old)
      BY <1>1, <1>4, <2>1 DEF Whole
    <3>2. Len(inodes'[current]) = 2 * m + 1
      BY <2>1, <2>3
    <3> QED BY <2>3, <2>4, <3>1, <3>2
  <2>6. Closed'
    BY <1>1, <1>3, <1>7, <2>1, <2>2, <2>3, <2>5, KeptRanges DEF Closed
  <2>7. EndOfLog'
    <3>1. \A k \in 1 .. m : inodes'[current][2 * k - 1] = inodes[current][2 * k - 1]
                           /\ inodes'[current][2 * k] = inodes[current][2 * k]
      BY <2>1, <2>3
    <3>2. InOrder(current, Len(logged) - Whole(current))'
      BY <1>1, <2>5, <3>1 DEF EndOfLog, InOrder
    <3>3. InOrder(old, Len(logged) - Whole(current) - Whole(old))'
      <4>1. \A k \in 1 .. Whole(old) :
              /\ inodes[old][2 * k - 1] = logged[Len(logged) - m - Whole(old) + k]
              /\ inodes[old][2 * k] = Newline
        BY <1>1 DEF EndOfLog, InOrder
      <4>2. Whole(old) \in Nat /\ (Whole(old) # 0 => old # 0)
        BY KeptRanges DEF Whole
      <4>3. \A k \in 1 .. Whole(old) :
              /\ inodes'[old'][2 * k - 1] = logged'[Len(logged) - m - Whole(old) + k]
              /\ inodes'[old'][2 * k] = Newline
        BY <1>1, <2>1, <4>1, <4>2
      <4> QED BY <1>1, <2>5, <4>3 DEF InOrder
    <3> QED BY <1>1, <2>5, <3>2, <3>3 DEF EndOfLog
  <2> QED BY <1>5, <2>6, <2>7
<1> QED BY <1>3, <1>6, <1>7, KeptRanges DEF WriteLine, At

(* The newline closes the line, and the log has one record more. *)
LEMMA WriteNewlineKeepsEnd ==
  ASSUME KeptInv, ~damaged, NEW c \in Clips, WriteNewline(c), ~damaged'
  PROVE  OneWriter' /\ Closed' /\ EndOfLog'
<1>1. /\ OneWriter /\ Closed /\ EndOfLog /\ append[c] = "newline" /\ UNCHANGED << current, old, fd >>
      /\ append' = [append EXCEPT ![c] = "logged"] /\ Write(c, Newline) /\ logged' = Append(logged, c)
  BY DEF KeptInv, WriteNewline, At
<1>2. \A d \in Clips : d # c => append[d] \notin Running
  BY <1>1 DEF OneWriter, Running
<1>3. OneWriter'
  BY <1>1, <1>2, KeptRanges, NextWriter
<1>4. fd[c] = current /\ current # 0
  BY <1>1 DEF OneWriter, KeptInv, LogInv, Shapes
<1> DEFINE m == Whole(current)
<1>5. /\ Len(inodes'[current]) = Len(inodes[current]) + 1
      /\ inodes'[current][Len(inodes[current]) + 1] = Newline
      /\ \A k \in 1 .. Len(inodes[current]) : inodes'[current][k] = inodes[current][k]
      /\ old # 0 => inodes'[old] = inodes[old]
  BY <1>1, <1>4, WriteAtTheEnd DEF Contents
<1>6. Len(inodes[current]) = 2 * m + 1 /\ inodes[current][2 * m + 1] = c /\ m \in Nat /\ Whole(old) \in Nat
  BY <1>1, KeptRanges DEF Closed
<1>7. \A n \in Nat : (2 * n + 2) \div 2 = n + 1
  BY Z3
<1>8. Whole(current)' = m + 1 /\ Whole(old)' = Whole(old)
  <2>1. Whole(current)' = Len(inodes'[current]) \div 2 /\ Whole(old)' = Whole(old)
    BY <1>1, <1>4, <1>5 DEF Whole
  <2>2. Len(inodes'[current]) = 2 * m + 2
    BY <1>5, <1>6
  <2> QED BY <1>6, <1>7, <2>1, <2>2
<1>9. Len(logged) \in Nat /\ Len(logged') = Len(logged) + 1 /\ m + Whole(old) <= Len(logged)
  BY <1>1 DEF KeptInv, EndOfLog
<1>10. logged'[Len(logged) + 1] = c /\ \A k \in 1 .. Len(logged) : logged'[k] = logged[k]
  BY <1>1 DEF KeptInv
<1>11. Closed'
  <2>1. \A d \in Clips : append'[d] # "newline"
    BY <1>1, <1>2, KeptRanges DEF Running
  <2>2. Len(inodes'[current']) = 2 * Whole(current)'
    <3>1. Len(inodes'[current']) = 2 * (m + 1)
      BY <1>1, <1>5, <1>6
    <3> QED BY <1>8, <3>1
  <2>3. old' # 0 => Len(inodes'[old']) = 2 * Whole(old)'
    BY <1>1, <1>5, <1>8 DEF Closed
  <2> QED BY <2>1, <2>2, <2>3 DEF Closed
<1>12. InOrder(current, Len(logged) - Whole(current))'
  <2>1. \A k \in 1 .. m : /\ inodes[current][2 * k - 1] = logged[Len(logged) - m + k]
                          /\ inodes[current][2 * k] = Newline
    BY <1>1 DEF EndOfLog, InOrder
  <2>2. ASSUME NEW k \in 1 .. m + 1
        PROVE  inodes'[current][2 * k - 1] = logged'[Len(logged) - m + k]
               /\ inodes'[current][2 * k] = Newline
    <3>1. CASE k = m + 1
      <4>1. 2 * k - 1 = 2 * m + 1 /\ 2 * k = 2 * m + 2 /\ Len(logged) - m + k = Len(logged) + 1
        <5>1. \A x, y \in Nat : /\ 2 * (x + 1) - 1 = 2 * x + 1 /\ 2 * (x + 1) = 2 * x + 2
                               /\ y - x + (x + 1) = y + 1
          OBVIOUS
        <5>2. m \in Nat /\ Len(logged) \in Nat
          BY <1>6, <1>9
        <5> QED BY <3>1, <5>1, <5>2
      <4>2. inodes'[current][2 * m + 2] = Newline
        <5>1. Len(inodes[current]) + 1 = 2 * m + 2
          BY <1>6
        <5> QED BY <1>5, <5>1
      <4>3. inodes'[current][2 * m + 1] = c
        <5>1. 2 * m + 1 \in 1 .. Len(inodes[current])
          BY <1>6
        <5> QED BY <1>5, <1>6, <5>1
      <4> QED BY <1>10, <4>1, <4>2, <4>3
    <3>2. CASE k \in 1 .. m
      <4>1. 2 * k \in 1 .. Len(inodes[current]) /\ 2 * k - 1 \in 1 .. Len(inodes[current])
        BY <1>6, <3>2
      <4>2. Len(logged) - m + k \in 1 .. Len(logged)
        BY <1>6, <1>9, <3>2
      <4>3. logged'[Len(logged) - m + k] = logged[Len(logged) - m + k]
        BY <1>10, <4>2
      <4>4. inodes'[current][2 * k - 1] = inodes[current][2 * k - 1]
            /\ inodes'[current][2 * k] = inodes[current][2 * k]
        BY <1>5, <4>1
      <4> QED BY <2>1, <3>2, <4>3, <4>4
    <3> QED BY <1>6, <2>2, <3>1, <3>2
  <2>3. Len(logged') - Whole(current)' = Len(logged) - m
    BY <1>6, <1>8, <1>9
  <2> QED BY <1>1, <1>8, <2>2, <2>3 DEF InOrder
<1>13. InOrder(old, Len(logged) - Whole(current) - Whole(old))'
  <2>1. \A k \in 1 .. Whole(old) :
          /\ inodes[old][2 * k - 1] = logged[Len(logged) - m - Whole(old) + k]
          /\ inodes[old][2 * k] = Newline
    BY <1>1 DEF EndOfLog, InOrder
  <2>2. \A k \in 1 .. Whole(old) : Len(logged) - m - Whole(old) + k \in 1 .. Len(logged)
    BY <1>6, <1>9
  <2>3. Whole(old) # 0 => old # 0
    BY DEF Whole
  <2>4. Len(logged') - Whole(current)' - Whole(old)' = Len(logged) - m - Whole(old)
    BY <1>6, <1>8, <1>9
  <2>5. ASSUME NEW k \in 1 .. Whole(old)
        PROVE  /\ inodes'[old'][2 * k - 1] = logged'[Len(logged) - m - Whole(old) + k]
               /\ inodes'[old'][2 * k] = Newline
    <3>1. inodes'[old'] = inodes[old]
      BY <1>1, <1>5, <1>6, <2>3
    <3>2. logged'[Len(logged) - m - Whole(old) + k] = logged[Len(logged) - m - Whole(old) + k]
      BY <1>10, <2>2
    <3> QED BY <2>1, <3>1, <3>2
  <2> QED BY <1>8, <2>4, <2>5 DEF InOrder
<1>14. EndOfLog'
  <2>1. Whole(current)' + Whole(old)' <= Len(logged')
        /\ (Whole(current)' + Whole(old)' = Len(logged') \/ Whole(old)' > Cap)
    <3>1. m + Whole(old) = Len(logged) \/ Whole(old) > Cap
      BY <1>1 DEF EndOfLog
    <3> QED BY <1>6, <1>8, <1>9, <3>1
  <2> QED BY <1>12, <1>13, <2>1 DEF EndOfLog
<1> QED BY <1>3, <1>11, <1>14

(* An append that begins alone, and the daemon's death. *)
LEMMA BeginKeepsEnd ==
  ASSUME KeptInv, ~damaged, NEW c \in Clips, AppendBegin(c), ~damaged'
  PROVE  OneWriter' /\ Closed' /\ EndOfLog'
<1>1. Closed /\ EndOfLog /\ UNCHANGED << inodes, current, old, logged >>
      /\ append' = [append EXCEPT ![c] = "metadata"] /\ \A d \in Clips : append[d] \notin Running
  BY DEF KeptInv, AppendBegin, At, files
<1>2. OneWriter'
  BY <1>1, KeptRanges, NextWriter
<1>3. \A d \in Clips : append[d] # "newline" /\ append'[d] # "newline"
  BY <1>1, KeptRanges DEF Running
<1> QED BY <1>1, <1>2, <1>3, SameLog

LEMMA DeathKeepsEnd ==
  ASSUME KeptInv, ~damaged, Killed, ~damaged'
  PROVE  OneWriter' /\ Closed' /\ EndOfLog'
<1>1. Closed /\ EndOfLog /\ UNCHANGED << inodes, current, old, logged >>
      /\ \A d \in Clips : append[d] # "newline"
  BY DEF KeptInv, Killed, files
<1>2. \A d \in Clips : append'[d] \notin Running
  BY DEF Killed, Running
<1>3. OneWriter'
  BY <1>2 DEF OneWriter, Running
<1>4. \A d \in Clips : append'[d] # "newline"
  BY <1>2 DEF Running
<1> QED BY <1>1, <1>3, <1>4, SameLog

(* Readers and everything else that leaves the files alone. *)
LEMMA RestKeepsEnd ==
  ASSUME KeptInv, ~damaged, UNCHANGED << files, writers, logged >>
  PROVE  OneWriter' /\ Closed' /\ EndOfLog'
<1>1. OneWriter /\ Closed /\ EndOfLog /\ UNCHANGED << inodes, current, old, append, fd, logged >>
  BY DEF KeptInv, files, writers
<1>2. OneWriter'
  BY <1>1 DEF OneWriter, Whole
<1> QED BY <1>1, <1>2, SameLog

LEMMA KeptStep == KeptInv /\ [LogNext]_logVars => KeptInv'
<1> SUFFICES ASSUME KeptInv, [LogNext]_logVars PROVE KeptInv'
  OBVIOUS
<1>1. LogInv'
  BY LogStepKeeps DEF KeptInv
<1>2. logged' \in Seq(Clips)
  BY DEF KeptInv, LogNext, AppendBegin, AppendStep, Metadata, Rename, Open, WriteLine, WriteNewline,
         Killed, Read, OpenFiles, ReaderOpen, ReadFiles, logVars
<1>3. damaged => damaged'
  BY DEF KeptInv, LogNext, AppendBegin, AppendStep, Metadata, Rename, Open, WriteLine, WriteNewline,
         Killed, Read, OpenFiles, ReaderOpen, ReadFiles, logVars
<1>4. ASSUME ~damaged' PROVE OneWriter' /\ Closed' /\ EndOfLog'
  <2>1. ASSUME NEW c \in Clips, AppendBegin(c) \/ AppendStep(c)
        PROVE  OneWriter' /\ Closed' /\ EndOfLog'
    BY <1>3, <1>4, <2>1, BeginKeepsEnd, MetadataKeepsEnd, RenameKeepsEnd, OpenKeepsEnd,
       WriteLineKeepsEnd, WriteNewlineKeepsEnd DEF AppendStep
  <2>2. CASE Killed
    BY <1>3, <1>4, <2>2, DeathKeepsEnd
  <2>3. CASE Read \/ UNCHANGED logVars
    <3>1. UNCHANGED << files, writers, logged >>
      BY <2>3 DEF Read, OpenFiles, ReaderOpen, ReadFiles, logVars
    <3> QED BY <1>3, <1>4, <3>1, RestKeepsEnd
  <2> QED BY <2>1, <2>2, <2>3 DEF LogNext
<1> QED BY <1>1, <1>2, <1>4 DEF KeptInv

(* The first file holds the earlier run's records, all of them. *)
LEMMA KeptAtFirst == LogInit => KeptInv
<1> SUFFICES ASSUME LogInit PROVE KeptInv
  OBVIOUS
<1> DEFINE n == Len(Earlier)
<1>1. n \in Nat /\ logged = Earlier /\ ~damaged /\ current = 1 /\ old = 0
      /\ inodes[1] = Lines(Earlier)
  BY LinesFacts DEF LogInit
<1>2. \A c \in Clips : append[c] \in {"before", "logged"}
  BY DEF LogInit
<1>3. OneWriter
  BY <1>2 DEF OneWriter, Running
<1>4. Whole(current) = n /\ Whole(old) = 0 /\ Len(inodes[current]) = 2 * n
  <2>1. Len(inodes[current]) = 2 * n
    BY <1>1, LinesFacts
  <2>2. \A m \in Nat : (2 * m) \div 2 = m
    BY Z3
  <2> QED BY <1>1, <2>1, <2>2 DEF Whole
<1>5. Closed
  BY <1>1, <1>2, <1>4 DEF Closed
<1>6. ASSUME NEW k \in 1 .. n
      PROVE  inodes[current][2 * k - 1] = logged[k] /\ inodes[current][2 * k] = Newline
  <2>1. 2 * k \in 1 .. 2 * n /\ 2 * k - 1 \in 1 .. 2 * n
    BY <1>1
  <2>2. (2 * k) % 2 = 0 /\ (2 * k - 1) % 2 = 1 /\ (2 * k - 1 + 1) \div 2 = k
    BY <1>1, Z3
  <2> QED BY <1>1, <2>1, <2>2 DEF Lines
<1>7. InOrder(current, Len(logged) - Whole(current))
  <2>1. \A k \in 1 .. n : n - n + k = k
    BY <1>1
  <2> QED BY <1>1, <1>4, <1>6, <2>1 DEF InOrder
<1>8. EndOfLog
  BY <1>1, <1>4, <1>7 DEF EndOfLog, InOrder
<1> QED BY <1>1, <1>3, <1>5, <1>8, InitLogInv DEF KeptInv

(* Every whole line of a file is a record that can be parsed. *)
LEMMA WholeLinesAreRead ==
  ASSUME KeptInv, NEW i \in {current, old}, NEW from \in Nat, InOrder(i, from),
         from + Whole(i) <= Len(logged), NEW k \in 1 .. Whole(i)
  PROVE  logged[from + k] \in {inodes[i][j] : j \in Parsed(i)}
<1> DEFINE j == 2 * k - 1
           f == inodes[i]
<1>1. Whole(i) \in Nat /\ i \in 0 .. Len(inodes) /\ Len(logged) \in Nat /\ logged \in Seq(Clips)
  BY KeptRanges DEF KeptInv
<1>2. i # 0
  <2>1. Whole(0) = 0
    BY DEF Whole
  <2> QED BY <1>1, <2>1
<1>3. f \in Seq(Contents) /\ Len(f) \in Nat /\ Whole(i) = Len(f) \div 2
  BY <1>1, <1>2, KeptRanges DEF Whole
<1>4. 2 * Whole(i) <= Len(f)
  <2>1. \A m \in Nat : 2 * (m \div 2) <= m
    BY Z3
  <2> QED BY <1>3, <2>1
<1>5. j \in 1 .. Len(f) /\ j + 1 = 2 * k
  <2>1. \A x, y, z \in Nat : 1 <= x /\ x <= y /\ 2 * y <= z => 2 * x - 1 \in 1 .. z /\ 2 * x - 1 + 1 = 2 * x
    OBVIOUS
  <2>2. k \in Nat /\ 1 <= k /\ k <= Whole(i)
    BY <1>1
  <2> QED BY <1>1, <1>3, <1>4, <2>1, <2>2
<1>6. f[j] = logged[from + k] /\ f[j + 1] = Newline
  BY <1>5 DEF InOrder
<1>7. f[j] # Newline
  <2>1. from + k \in 1 .. Len(logged)
    BY <1>1
  <2> QED BY <1>1, <1>6, <2>1
<1>8. j = 1 \/ f[j - 1] = Newline
  <2>1. CASE k = 1
    BY <2>1
  <2>2. CASE k # 1
    <3>1. k - 1 \in 1 .. Whole(i) /\ 2 * (k - 1) = j - 1
      BY <1>1, <2>2
    <3> QED BY <3>1 DEF InOrder
  <2> QED BY <2>1, <2>2
<1>9. j \in Parsed(i)
  BY <1>2, <1>5, <1>6, <1>7, <1>8 DEF Parsed, Alone
<1> QED BY <1>6, <1>9

(* The end of the log is what the two files hold, and a generation at least. *)
LEMMA KeptIsRead == KeptInv => NewestKept
<1> SUFFICES ASSUME KeptInv, ~damaged, NEW j \in 1 .. Len(logged), j > Len(logged) - (Cap + 1)
             PROVE  logged[j] \in ReadableNow
  BY DEF NewestKept, Newest
<1> DEFINE m == Whole(current)
           w == Whole(old)
           n == Len(logged)
<1>1. m \in Nat /\ w \in Nat /\ n \in Nat /\ Cap \in Nat
  BY KeptRanges, CapAssumption
<1>2. m + w <= n /\ (m + w = n \/ w > Cap) /\ InOrder(current, n - m) /\ InOrder(old, n - m - w)
  BY DEF KeptInv, EndOfLog
<1>3. CASE j > n - m
  <2>1. n - m \in Nat /\ j - (n - m) \in 1 .. m /\ n - m + (j - (n - m)) = j /\ n - m + m <= n
    BY <1>1, <1>2, <1>3, SMTT(30)
  <2>2. logged[j] \in {inodes[current][k] : k \in Parsed(current)}
    BY <1>2, <2>1, WholeLinesAreRead
  <2> QED BY <2>2 DEF ReadableNow
<1>4. CASE j <= n - m
  <2>1. /\ n - m - w \in Nat /\ j - (n - m - w) \in 1 .. w
        /\ n - m - w + (j - (n - m - w)) = j /\ n - m - w + w <= n
    <3>1. \A x, y, z \in Nat : \A l \in 1 .. x :
             y + z <= x /\ l <= x - y /\ l > x - y - z =>
               /\ x - y - z \in Nat /\ l - (x - y - z) \in 1 .. z
               /\ x - y - z + (l - (x - y - z)) = l /\ x - y - z + z <= x
      OBVIOUS
    <3>2. j > n - m - w
      BY <1>1, <1>2
    <3> QED BY <1>1, <1>2, <1>4, <3>1, <3>2
  <2>2. logged[j] \in {inodes[old][k] : k \in Parsed(old)}
    BY <1>2, <2>1, WholeLinesAreRead
  <2> QED BY <2>2 DEF ReadableNow
<1> QED BY <1>1, <1>3, <1>4

(* As long as appends follow on each other and none is cut short, the newest records
   can be read, a generation of them: for every number of clips and every cap. *)
THEOREM NewestRecordsAreKept == Spec => []NewestKept
<1>1. LogSpec => []KeptInv
  BY KeptAtFirst, KeptStep, PTL DEF LogSpec
<1> QED BY <1>1, KeptIsRead, ClipsImplementTheLog, PTL

-----------------------------------------------------------------------------
(* The way of a clip.  A request is pending until the server has answered it, died, or
   forgotten whose it was. *)
Pending(c) == running = c \/ \E i \in 1 .. Len(queue) : queue[i] = c

ClipShapes ==
  /\ \A c \in Clips : said[c] \in Spoken[c]
  /\ phase \in [Clips -> Working \cup Over]
  /\ queue \in Seq(Clips) /\ running \in Clips \cup {None}
  /\ answer = [c \in Clips |-> answer[c]]
  /\ text = [c \in Clips |-> text[c]]
  /\ decision \in [Clips -> Reasons \cup {"none"}]
  /\ typed \in [Clips -> {Untyped, "rules", "workflow"}]

(* A clip is requested once: it has one place in the queue or is the one running, and
   while it waits there it has no answer yet. *)
Requests ==
  /\ \A i, j \in 1 .. Len(queue) : queue[i] = queue[j] => i = j
  /\ \A i \in 1 .. Len(queue) : queue[i] # running
  /\ \A c \in Clips : Pending(c) => answer[c] = NoAnswer /\ phase[c] # "recorded"
  /\ \A c \in Clips : phase[c] = "recorded" => answer[c] = NoAnswer

(* The thread holds the transcript of the server's answer, and what the filter says of
   that transcript and no other. *)
Judged(c) ==
  /\ answer[c].status = 200
  /\ text[c] = NormalizeWhitespace(answer[c].response.text)
  /\ decision[c] = Evaluate(text[c], answer[c].response.segments)

JudgedInv ==
  \A c \in Clips :
    /\ phase[c] \in {"received", "logging"} => Judged(c)
    /\ phase[c] \in {"accepted", "workflow"} \/ typed[c] # Untyped =>
         Judged(c) /\ decision[c] = "accepted"
    /\ typed[c] # Untyped => phase[c] = "typed"

(* A good answer to a clip is what the engine makes of that clip. *)
ReplyTo(c) == IF engine = "parakeet"
              THEN VerboseJson(said[c].parakeet.text, said[c].parakeet.probs)
              ELSE WhisperReply(said[c].whisper)

AnswerInv == \A c \in Clips : answer[c].status = 200 => answer[c].response = ReplyTo(c)

WayInv == ClipShapes /\ Requests /\ JudgedInv /\ AnswerInv

(* The contract of the external whisper-server: it knows each segment's confidence. *)
WhisperKeepsContract ==
  \A c \in Clips : \A s \in Spoken[c] : Parses(WhisperReply(s.whisper))

(* An answer once given stands: no later event of the server replaces it. *)
AnswersStand == \A c \in Clips : answer[c] # NoAnswer => answer'[c] = answer[c]

(* Whatever is typed is the transcript of the clip's own answer, and the filter has
   accepted it. *)
TypedWasAccepted ==
  \A c \in Clips : typed[c] # Untyped =>
    /\ answer[c].status = 200
    /\ text[c] = NormalizeWhitespace(answer[c].response.text)
    /\ Evaluate(text[c], answer[c].response.segments) = "accepted"

LEMMA WayAtFirst == Init => WayInv
<1> SUFFICES ASSUME Init PROVE WayInv
  OBVIOUS
<1>1. ClipShapes
  BY DEF Init, ClipShapes, Working, Over, Reasons
<1>2. Requests
  BY NoneAssumption DEF Init, Requests, Pending
<1>3. \A c \in Clips : typed[c] = Untyped /\ phase[c] \in {"typed", "recorded"}
                       /\ answer[c] = NoAnswer /\ NoAnswer.status # 200
  BY DEF Init, NoAnswer
<1>4. JudgedInv /\ AnswerInv
  BY <1>3 DEF JudgedInv, AnswerInv
<1> QED BY <1>1, <1>2, <1>4 DEF WayInv

(* Where the filter's word is kept, it is one of four. *)
LEMMA FilterSpeaks == \A s, segments : Evaluate(s, segments) \in Reasons
  BY DEF Evaluate, Reasons

(* A step of one thread that leaves the server and the text alone. *)
LEMMA ThreadGoesOn ==
  ASSUME WayInv, NEW c \in Clips, NEW p \in Working \cup Over,
         UNCHANGED serverVars, UNCHANGED << engine, said, text, decision >>,
         Advance(c, p), phase[c] # "recorded", p # "recorded",
         \/ UNCHANGED typed /\ typed[c] = Untyped
         \/ \E by \in {"rules", "workflow"} : typed' = [typed EXCEPT ![c] = by] /\ p = "typed",
         p \in {"received", "logging"} => phase[c] \in {"received", "logging"},
         p \in {"accepted", "workflow"} \/ typed'[c] # Untyped => Judged(c) /\ decision[c] = "accepted"
  PROVE  WayInv' /\ AnswersStand
<1>0. /\ phase \in [Clips -> Working \cup Over] /\ typed \in [Clips -> {Untyped, "rules", "workflow"}]
      /\ UNCHANGED << queue, running, answer, engine, said, text, decision >>
  BY DEF WayInv, ClipShapes, serverVars
<1>1. phase'[c] = p /\ \A d \in Clips : d # c => phase'[d] = phase[d] /\ typed'[d] = typed[d]
  BY <1>0 DEF Advance
<1>2. ClipShapes'
  BY <1>0 DEF WayInv, ClipShapes, Advance
<1>3. Requests'
  BY <1>0, <1>1 DEF WayInv, Requests, Pending
<1>4. JudgedInv'
  <2> SUFFICES ASSUME NEW d \in Clips
               PROVE  /\ phase'[d] \in {"received", "logging"} => Judged(d)'
                      /\ phase'[d] \in {"accepted", "workflow"} \/ typed'[d] # Untyped =>
                           Judged(d)' /\ decision'[d] = "accepted"
                      /\ typed'[d] # Untyped => phase'[d] = "typed"
    BY DEF JudgedInv
  <2>1. Judged(d)' <=> Judged(d)
    BY <1>0 DEF Judged
  <2>2. CASE d = c
    BY <1>0, <1>1, <2>1, <2>2 DEF WayInv, JudgedInv
  <2>3. CASE d # c
    BY <1>0, <1>1, <2>1, <2>3 DEF WayInv, JudgedInv
  <2> QED BY <2>2, <2>3
<1>5. AnswerInv' /\ AnswersStand
  BY <1>0 DEF WayInv, AnswerInv, ReplyTo, AnswersStand
<1> QED BY <1>2, <1>3, <1>4, <1>5 DEF WayInv

LEMMA ThreadKeepsWay ==
  ASSUME WayInv, NEW c \in Clips, ClipStep(c) \/ Receive(c)
  PROVE  WayInv' /\ AnswersStand
<1>0. /\ phase \in [Clips -> Working \cup Over] /\ typed \in [Clips -> {Untyped, "rules", "workflow"}]
      /\ queue \in Seq(Clips) /\ running \in Clips \cup {None}
      /\ answer = [d \in Clips |-> answer[d]] /\ text = [d \in Clips |-> text[d]]
      /\ decision \in [Clips -> Reasons \cup {"none"}]
  BY DEF WayInv, ClipShapes
<1>1. CASE Request(c)
  <2>1. /\ UNCHANGED << listening, running, answer, engine, said, text, decision, typed >>
        /\ phase[c] = "recorded" /\ answer[c] = NoAnswer /\ typed[c] = Untyped /\ ~Pending(c)
    BY <1>1 DEF Request, WayInv, Requests, JudgedInv
  <2>2. \E p \in {"waiting", "stt_error"} :
           phase' = [phase EXCEPT ![c] = p] /\ (queue' = queue \/ (p = "waiting" /\ queue' = Append(queue, c)))
    BY <1>1 DEF Request, Advance
  <2>3. /\ phase'[c] \in {"waiting", "stt_error"} /\ \A d \in Clips : d # c => phase'[d] = phase[d]
        /\ phase' \in [Clips -> Working \cup Over]
    BY <1>0, <2>2 DEF Working, Over
  <2>4. /\ queue' \in Seq(Clips)
        /\ \/ queue' = queue
           \/ /\ Len(queue') = Len(queue) + 1 /\ Len(queue) \in Nat /\ queue'[Len(queue) + 1] = c
              /\ \A i \in 1 .. Len(queue) : queue'[i] = queue[i]
    <3>1. queue' = queue \/ queue' = Append(queue, c)
      BY <2>2
    <3>2. CASE queue' = queue
      BY <1>0, <3>2
    <3>3. CASE queue' = Append(queue, c)
      BY <1>0, <3>3
    <3> QED BY <3>1, <3>2, <3>3
  <2>5. ClipShapes'
    BY <2>1, <2>3, <2>4 DEF WayInv, ClipShapes
  <2>6. Requests'
    <3>1. running # c /\ \A i \in 1 .. Len(queue) : queue[i] # c
      BY <2>1 DEF Pending
    <3>2. CASE queue' = queue
      BY <2>1, <2>3, <3>1, <3>2 DEF WayInv, Requests, Pending
    <3>3. CASE queue' # queue
      <4>1. \A i, j \in 1 .. Len(queue') : queue'[i] = queue'[j] => i = j
        <5>1. \A i, j \in 1 .. Len(queue) : queue[i] = queue[j] => i = j
          BY DEF WayInv, Requests
        <5>2. \A i \in 1 .. Len(queue') : i \in 1 .. Len(queue) \/ i = Len(queue) + 1
          BY <2>4, <3>3
        <5> QED BY <2>4, <3>1, <3>3, <5>1, <5>2
      <4>2. \A i \in 1 .. Len(queue') : queue'[i] # running'
        BY <2>1, <2>4, <3>1, <3>3 DEF WayInv, Requests
      <4>3. \A d \in Clips : Pending(d)' => Pending(d) \/ d = c
        BY <2>1, <2>4, <3>3 DEF Pending
      <4> QED BY <2>1, <2>3, <4>1, <4>2, <4>3 DEF WayInv, Requests
    <3> QED BY <3>2, <3>3
  <2>7. JudgedInv' /\ AnswerInv' /\ AnswersStand
    BY <2>1, <2>3 DEF WayInv, JudgedInv, Judged, AnswerInv, ReplyTo,
      AnswersStand
  <2> QED BY <2>5, <2>6, <2>7 DEF WayInv
<1>2. CASE Timeout(c)
  <2>1. typed[c] = Untyped
    BY <1>2 DEF Timeout, WayInv, JudgedInv
  <2> QED BY <1>2, <2>1, ThreadGoesOn DEF Timeout, Over
<1>3. CASE LogRecord(c)
  <2>1. typed[c] = Untyped
    BY <1>3 DEF LogRecord, WayInv, JudgedInv
  <2> QED BY <1>3, <2>1, ThreadGoesOn DEF LogRecord, Working
<1>4. CASE LogStep(c)
  <2>1. UNCHANGED << serverVars, clipVars >>
    BY <1>4 DEF LogStep
  <2> QED BY <2>1 DEF serverVars, clipVars, WayInv, ClipShapes, Requests, Pending, JudgedInv, Judged,
                      AnswerInv, ReplyTo, AnswersStand
<1>5. CASE Decide(c)
  <2>1. typed[c] = Untyped /\ Judged(c) /\ phase[c] = "logging"
    BY <1>5 DEF Decide, WayInv, JudgedInv
  <2>2. decision[c] \in Reasons
    BY <2>1, FilterSpeaks DEF Judged
  <2>3. decision[c] \in Working \cup Over /\ decision[c] \notin {"recorded", "received", "logging", "workflow"}
    BY <2>2 DEF Reasons, Working, Over
  <2>4. UNCHANGED serverVars /\ UNCHANGED << engine, said, text, decision, typed >> /\ Advance(c, decision[c])
    BY <1>5 DEF Decide
  <2> QED BY <2>1, <2>3, <2>4, ThreadGoesOn
<1>6. CASE Deliver(c)
  <2>1. typed[c] = Untyped /\ Judged(c) /\ decision[c] = "accepted"
    BY <1>6 DEF Deliver, WayInv, JudgedInv
  <2> QED BY <1>6, <2>1, ThreadGoesOn DEF Deliver, Working
<1>7. CASE Inject(c)
  <2>1. Judged(c) /\ decision[c] = "accepted"
    BY <1>7 DEF Inject, WayInv, JudgedInv
  <2>2. \E by \in {"rules", "workflow"} : typed' = [typed EXCEPT ![c] = by]
    BY <1>7 DEF Inject
  <2> QED BY <1>7, <2>1, <2>2, ThreadGoesOn DEF Inject, Over
<1>8. CASE Receive(c)
  <2>1. /\ UNCHANGED << queue, running, answer, engine, said, typed >>
        /\ phase[c] = "waiting" /\ typed[c] = Untyped
    BY <1>8 DEF Receive, serverVars, WayInv, JudgedInv
  <2>2. CASE ~(answer[c].status = 200 /\ Parses(answer[c].response))
    BY <1>8, <2>1, <2>2, ThreadGoesOn DEF Receive, Over
  <2>3. CASE answer[c].status = 200 /\ Parses(answer[c].response)
    <3>1. /\ phase' = [phase EXCEPT ![c] = "received"]
          /\ text' = [text EXCEPT ![c] = NormalizeWhitespace(answer[c].response.text)]
          /\ decision' = [decision EXCEPT ![c] = Evaluate(text'[c], answer[c].response.segments)]
      BY <1>8, <2>3 DEF Receive, Advance
    <3>2. /\ phase'[c] = "received" /\ text'[c] = NormalizeWhitespace(answer[c].response.text)
          /\ decision'[c] = Evaluate(text'[c], answer[c].response.segments)
          /\ \A d \in Clips : d # c => phase'[d] = phase[d] /\ text'[d] = text[d] /\ decision'[d] = decision[d]
      BY <1>0, <3>1
    <3>3. ClipShapes'
      <4>1. phase' \in [Clips -> Working \cup Over]
        BY <1>0, <3>1 DEF Working
      <4>2. decision' \in [Clips -> Reasons \cup {"none"}]
        BY <1>0, <3>1, FilterSpeaks
      <4>3. text' = [d \in Clips |-> text'[d]]
        BY <1>0, <3>1
      <4> QED BY <2>1, <4>1, <4>2, <4>3 DEF WayInv, ClipShapes
    <3>4. Requests'
      BY <2>1, <3>2 DEF WayInv, Requests, Pending
    <3>5. JudgedInv'
      <4>1. Judged(c)' /\ \A d \in Clips : d # c => (Judged(d)' <=> Judged(d))
        BY <2>1, <2>3, <3>2 DEF Judged
      <4> QED BY <2>1, <3>2, <4>1 DEF WayInv, JudgedInv
    <3>6. AnswerInv' /\ AnswersStand
      BY <2>1 DEF WayInv, AnswerInv, ReplyTo, AnswersStand
    <3> QED BY <3>3, <3>4, <3>5, <3>6 DEF WayInv
  <2> QED BY <2>2, <2>3
<1> QED BY <1>1, <1>2, <1>3, <1>4, <1>5, <1>6, <1>7, <1>8 DEF ClipStep
(* The server: it takes up the oldest request, is done with it, dies, comes back. *)
LEMMA ServerKeepsWay ==
  ASSUME WayInv, Serve \/ Finish \/ ServerDies \/ ServerListens
  PROVE  WayInv' /\ AnswersStand
<1>0. /\ queue \in Seq(Clips) /\ running \in Clips \cup {None} /\ answer = [d \in Clips |-> answer[d]]
      /\ UNCHANGED << engine, said, phase, text, decision, typed >>
  BY DEF WayInv, ClipShapes, Serve, Finish, ServerDies, ServerListens, clipVars
(* A step that keeps the answers, and at most one clip's, which was pending. *)
<1>1. ASSUME queue' \in Seq(Clips), running' \in Clips \cup {None},
             answer' = [d \in Clips |-> answer'[d]],
             \A i, j \in 1 .. Len(queue') : queue'[i] = queue'[j] => i = j,
             \A i \in 1 .. Len(queue') : queue'[i] # running',
             \A d \in Clips : answer'[d] # answer[d] =>
               /\ Pending(d) /\ ~Pending(d)'
               /\ answer'[d].status = 200 => answer'[d].response = ReplyTo(d),
             \A d \in Clips : Pending(d)' => Pending(d)
      PROVE  WayInv' /\ AnswersStand
  <2>1. ClipShapes'
    BY <1>0, <1>1 DEF WayInv, ClipShapes
  <2>2. Requests'
    BY <1>0, <1>1 DEF WayInv, Requests
  <2>3. AnswersStand
    BY <1>1 DEF WayInv, Requests, AnswersStand
  <2>4. JudgedInv'
    <3>1. \A d \in Clips : Judged(d) => Judged(d)'
      <4>1. \A d \in Clips : Judged(d) => answer[d] # NoAnswer
        BY DEF Judged, NoAnswer
      <4> QED BY <1>0, <2>3, <4>1 DEF Judged, AnswersStand
    <3> QED BY <1>0, <3>1 DEF WayInv, JudgedInv
  <2>5. AnswerInv'
    BY <1>0, <1>1 DEF WayInv, AnswerInv, ReplyTo
  <2> QED BY <2>1, <2>2, <2>3, <2>4, <2>5 DEF WayInv
<1>2. CASE Serve
  <2>1. /\ running = None /\ queue # <<>> /\ queue' = Tail(queue)
        /\ \/ running' = Head(queue) /\ answer' = answer
           \/ running' = None /\ answer' = [answer EXCEPT ![Head(queue)] = [status |-> 400]]
    BY <1>2 DEF Serve, Refuse
  <2>2. /\ Head(queue) = queue[1] /\ Head(queue) \in Clips /\ queue' \in Seq(Clips)
        /\ Len(queue) \in Nat \ {0} /\ Len(queue') = Len(queue) - 1
        /\ \A i \in 1 .. Len(queue') : i + 1 \in 1 .. Len(queue) /\ queue'[i] = queue[i + 1]
    BY <1>0, <2>1
  <2>3. \A i, j \in 1 .. Len(queue) : queue[i] = queue[j] => i = j
    BY DEF WayInv, Requests
  <2>4. \A i, j \in 1 .. Len(queue') : queue'[i] = queue'[j] => i = j
    BY <2>2, <2>3
  <2>5. \A i \in 1 .. Len(queue') : queue'[i] # Head(queue) /\ queue'[i] \in Clips
    BY <2>2, <2>3
  <2>6. \A i \in 1 .. Len(queue') : queue'[i] # running'
    BY <2>1, <2>5, NoneAssumption
  <2>7. \A d \in Clips : Pending(d)' => Pending(d)
    BY <2>1, <2>2, NoneAssumption DEF Pending
  <2>8. ASSUME NEW d \in Clips, answer'[d] # answer[d]
        PROVE  Pending(d) /\ ~Pending(d)' /\ answer'[d].status # 200
    <3>1. d = Head(queue) /\ running' = None /\ answer'[d] = [status |-> 400]
      BY <1>0, <2>1, <2>2, <2>8
    <3> QED BY <2>2, <2>5, <3>1, NoneAssumption DEF Pending
  <2>9. answer' = [d \in Clips |-> answer'[d]] /\ running' \in Clips \cup {None}
    BY <1>0, <2>1, <2>2
  <2> QED BY <1>1, <2>2, <2>4, <2>6, <2>7, <2>8, <2>9
<1>3. CASE Finish
  <2>0. running # None /\ running' = None /\ queue' = queue /\ running \in Clips
    BY <1>0, <1>3 DEF Finish
  <2>1. \E r : /\ answer' = [answer EXCEPT ![running] = r]
               /\ r.status = 200 => r.response = ReplyTo(running)
    <3>1. CASE Refuse(running, 500)
      <4> DEFINE r == [status |-> 500]
      <4>1. answer' = [answer EXCEPT ![running] = r] /\ r.status # 200
        BY <3>1 DEF Refuse
      <4> HIDE DEF r
      <4> QED BY <4>1
    <3>2. CASE Reply(running, ReplyTo(running))
      <4> DEFINE r == [status |-> 200, response |-> ReplyTo(running)]
      <4>1. answer' = [answer EXCEPT ![running] = r] /\ r.response = ReplyTo(running)
        BY <3>2 DEF Reply
      <4> HIDE DEF r
      <4> QED BY <4>1
    <3> QED BY <1>3, <3>1, <3>2 DEF Finish, ReplyTo
  <2>2. \A d \in Clips : answer'[d] # answer[d] => d = running
    BY <1>0, <2>1
  <2>3. answer'[running].status = 200 => answer'[running].response = ReplyTo(running)
    BY <1>0, <2>0, <2>1
  <2>4. \A i \in 1 .. Len(queue) : queue[i] # running /\ queue[i] # None /\ queue[i] \in Clips
    BY <1>0, NoneAssumption DEF WayInv, Requests
  <2>5. \A d \in Clips : (Pending(d)' => Pending(d)) /\ (d = running => Pending(d) /\ ~Pending(d)')
    BY <2>0, <2>4, NoneAssumption DEF Pending
  <2>6. \A i, j \in 1 .. Len(queue) : queue[i] = queue[j] => i = j
    BY DEF WayInv, Requests
  <2>7. answer' = [d \in Clips |-> answer'[d]]
    BY <1>0, <2>1
  <2> QED BY <1>0, <1>1, <2>0, <2>2, <2>3, <2>4, <2>5, <2>6, <2>7
<1>4. CASE ServerDies
  <2>1. /\ queue' = <<>> /\ running' = None
        /\ answer' = [d \in Clips |-> IF (running = d \/ d \in ToSet(queue)) /\ phase[d] = "waiting"
                                      THEN [status |-> 500] ELSE answer[d]]
    BY <1>4 DEF ServerDies
  <2>2. \A d \in Clips : ~Pending(d)'
    BY <2>1, NoneAssumption DEF Pending
  <2>3. \A d \in Clips : running = d \/ d \in ToSet(queue) => Pending(d)
    BY <1>0 DEF Pending, ToSet
  <2>4. \A d \in Clips : answer'[d] # answer[d] => Pending(d) /\ answer'[d].status # 200
    BY <2>1, <2>3
  <2> QED BY <1>1, <2>1, <2>2, <2>4
<1>5. CASE ServerListens
  <2>1. UNCHANGED << queue, running, answer >>
    BY <1>5 DEF ServerListens
  <2> QED BY <1>0, <2>1 DEF WayInv, ClipShapes, Requests, Pending, JudgedInv, Judged, AnswerInv, ReplyTo,
      AnswersStand
<1> QED BY <1>2, <1>3, <1>4, <1>5

LEMMA DeathKeepsWay == ASSUME WayInv, DaemonKilled PROVE WayInv' /\ AnswersStand
<1>0. /\ phase \in [Clips -> Working \cup Over]
      /\ UNCHANGED << queue, running, answer, engine, said, text, decision, typed >>
      /\ phase' = [c \in Clips |-> IF phase[c] \in Working THEN "lost" ELSE phase[c]]
  BY DEF WayInv, ClipShapes, DaemonKilled, serverVars
<1>1. \A c \in Clips : /\ phase'[c] \in Over
                       /\ phase[c] = "typed" => phase'[c] = "typed"
  BY <1>0 DEF Over, Working
<1>2. phase' \in [Clips -> Working \cup Over]
  BY <1>0, <1>1
<1>3. \A c \in Clips : phase'[c] \notin {"recorded", "received", "logging", "accepted", "workflow"}
  BY <1>1 DEF Over
<1>4. ClipShapes' /\ Requests'
  BY <1>0, <1>2, <1>3 DEF WayInv, ClipShapes, Requests, Pending
<1>5. JudgedInv'
  BY <1>0, <1>1, <1>3 DEF WayInv, JudgedInv, Judged
<1> QED BY <1>0, <1>4, <1>5 DEF WayInv, AnswerInv, ReplyTo, AnswersStand

LEMMA NobodyTouchesWay ==
  ASSUME WayInv, UNCHANGED << serverVars, clipVars >> PROVE WayInv' /\ AnswersStand
  BY DEF serverVars, clipVars, WayInv, ClipShapes, Requests, Pending, JudgedInv, Judged, AnswerInv, ReplyTo,
      AnswersStand

LEMMA WayStep == ASSUME WayInv, [Next]_vars PROVE WayInv' /\ AnswersStand
<1>1. CASE Next
  BY <1>1, ThreadKeepsWay, ServerKeepsWay, DeathKeepsWay, NobodyTouchesWay DEF Next
<1>2. CASE UNCHANGED vars
  BY <1>2, NobodyTouchesWay DEF vars
<1> QED BY <1>1, <1>2

LEMMA WayKept == Spec => []WayInv
<1>1. WayInv /\ [Next]_vars => WayInv'
  BY WayStep
<1> QED BY <1>1, WayAtFirst, PTL DEF Spec

(* A request is answered once, however the server fails and whoever has given up: an
   answer is never replaced, so what a thread has judged is what the server said. *)
THEOREM AnAnswerStands == Spec => [][AnswersStand]_vars
<1>1. WayInv /\ [Next]_vars => [AnswersStand]_vars
  BY WayStep
<1> QED BY <1>1, WayKept, PTL DEF Spec

(* What is typed of a clip is the transcript in that clip's own answer, judged and
   accepted by the filter on the numbers of the same answer, whatever else was going on. *)
THEOREM OnlyAcceptedIsTyped == Spec => []TypedWasAccepted
<1>1. WayInv => TypedWasAccepted
  BY DEF WayInv, JudgedInv, Judged, TypedWasAccepted
<1> QED BY <1>1, WayKept, PTL

(* The daemon can read whatever whispy-stt answers, and with whisper what the contract
   allows it to answer: an unknown probability never costs a transcript. *)
THEOREM EveryAnswerIsRead == Spec => [](engine = "parakeet" \/ WhisperKeepsContract => EveryAnswerRead)
<1>1. WayInv => (engine = "parakeet" \/ WhisperKeepsContract => EveryAnswerRead)
  <2> SUFFICES ASSUME WayInv, engine = "parakeet" \/ WhisperKeepsContract,
                      NEW c \in Clips, answer[c].status = 200
               PROVE  Parses(ReplyTo(c))
    BY DEF EveryAnswerRead, WayInv, AnswerInv
  <2>1. CASE engine = "parakeet"
    <3>1. \A t, probs : Parses(VerboseJson(t, probs))
      BY DEF Parses, VerboseJson, AvgLogprob, Number
    <3> QED BY <2>1, <3>1 DEF ReplyTo
  <2>2. CASE engine # "parakeet"
    BY <2>2 DEF ReplyTo, WhisperKeepsContract, WayInv, ClipShapes
  <2> QED BY <2>1, <2>2
<1> QED BY <1>1, WayKept, PTL

-----------------------------------------------------------------------------
(* What is left between the blanks is a text. *)
LEMMA TrimIsText ==
  ASSUME NEW X, NEW s \in Seq(X)
  PROVE  Trim(s) \in Seq(X)
<1> DEFINE S == {i \in 1 .. Len(s) : s[i] # Space}
<1>1. CASE S = {}
  BY <1>1 DEF Trim
<1>2. CASE S # {}
  <2>1. Min(S) \in S
    <3>1. \E i \in S : \A j \in S : i <= j
      <4>1. S \subseteq Nat
        OBVIOUS
      <4> HIDE DEF S
      <4> QED BY <1>2, <4>1, LeastNat
    <3> HIDE DEF S
    <3> QED BY <3>1, Zenon DEF Min
  <2>2. Max(S) \in S
    <3>1. \E i \in S : \A j \in S : j <= i
      <4>1. S \subseteq 1 .. Len(s) /\ Len(s) \in Nat
        OBVIOUS
      <4> HIDE DEF S
      <4> QED BY <1>2, <4>1, Greatest
    <3>2. \E i \in S : \A j \in S : i >= j
      BY <3>1
    <3> HIDE DEF S
    <3> QED BY <3>2, Zenon DEF Max
  <2>3. Min(S) \in 1 .. Len(s) /\ Max(S) \in 1 .. Len(s)
    <3> HIDE DEF Min, Max
    <3> QED BY <2>1, <2>2
  <2>4. ASSUME NEW a \in 1 .. Len(s), NEW b \in 1 .. Len(s) PROVE SubSeq(s, a, b) \in Seq(X)
    OBVIOUS
  <2>5. Trim(s) = SubSeq(s, Min(S), Max(S))
    BY <1>2 DEF Trim
  <2> HIDE DEF S, Min, Max
  <2> QED BY <2>3, <2>4, <2>5
<1> QED BY <1>1, <1>2

(* Both engines answer with a text and a list of segments, each with a number. *)
LEMMA RepliesAreText ==
  ASSUME WayInv, NEW c \in Clips
  PROVE  /\ ReplyTo(c).text \in Seq(STRING \cup {Blank})
         /\ \E n \in Nat : DOMAIN ReplyTo(c).segments = 1 .. n
         /\ \A i \in DOMAIN ReplyTo(c).segments : ReplyTo(c).segments[i].no_speech_prob \in Int
<1> DEFINE s == said[c]
<1>1. /\ s.parakeet.text \in Seq(STRING)
      /\ s.whisper \in Seq([text : Seq(STRING), no_speech_prob : Int,
                            avg_logprob : [nan : BOOLEAN, val : Int]])
  BY SpokenAssumption DEF WayInv, ClipShapes
<1> HIDE DEF s
<1>2. CASE engine = "parakeet"
  <2> DEFINE r == VerboseJson(s.parakeet.text, s.parakeet.probs)
  <2>1. r.text \in Seq(STRING \cup {Blank})
    <3>1. r.text \in Seq(STRING)
      BY <1>1, TrimIsText DEF VerboseJson
    <3> QED BY <3>1, SeqMonotonic
  <2>2. r.segments = <<>> \/ \E x : r.segments = << [avg_logprob |-> x, no_speech_prob |-> 0] >>
    BY DEF VerboseJson
  <2>3. ReplyTo(c) = r
    BY <1>2 DEF ReplyTo, s
  <2> HIDE DEF r
  <2>4. CASE r.segments = <<>>
    <3>1. DOMAIN r.segments = 1 .. 0 /\ 1 .. 0 = {}
      BY <2>4
    <3> QED BY <2>1, <2>3, <3>1
  <2>5. CASE \E x : r.segments = << [avg_logprob |-> x, no_speech_prob |-> 0] >>
    <3>1. DOMAIN r.segments = 1 .. 1 /\ r.segments[1].no_speech_prob = 0
      BY <2>5
    <3>2. \A i \in 1 .. 1 : i = 1
      OBVIOUS
    <3> QED BY <2>1, <2>3, <3>1, <3>2
  <2> QED BY <2>2, <2>4, <2>5
<1>3. CASE engine # "parakeet"
  <2> DEFINE X == STRING \cup {Blank}
             w == s.whisper
             n == Len(w)
             parts == [i \in 1 .. n |-> w[i].text \o << Blank >>]
  <2>1. ReplyTo(c).text = FlattenSeq(parts) /\ ReplyTo(c).segments = w
    BY <1>3 DEF ReplyTo, WhisperReply, WhisperText, s
  <2>2. n \in Nat /\ DOMAIN w = 1 .. n /\ \A i \in 1 .. n : w[i].text \in Seq(STRING) /\ w[i].no_speech_prob \in Int
    <3> DEFINE R == [text : Seq(STRING), no_speech_prob : Int, avg_logprob : [nan : BOOLEAN, val : Int]]
    <3>1. \A x \in R : x.text \in Seq(STRING) /\ x.no_speech_prob \in Int
      OBVIOUS
    <3> HIDE DEF R, w
    <3>2. w \in Seq(R)
      BY <1>1 DEF R, w
    <3> QED BY <3>1, <3>2
  <2> HIDE DEF n, w
  <2>3. \A t \in Seq(STRING) : t \o << Blank >> \in Seq(X)
    OBVIOUS
  <2>4. parts \in Seq(Seq(X))
    <3> HIDE DEF X
    <3>1. ASSUME NEW i \in 1 .. n PROVE w[i].text \o << Blank >> \in Seq(X)
      BY <2>2, <2>3
    <3>2. parts \in [1 .. n -> Seq(X)]
      BY <3>1
    <3> HIDE DEF parts
    <3> QED BY <2>2, <3>2
  <2>5. FlattenSeq(parts) \in Seq(X)
    <3> HIDE DEF X, parts
    <3> QED BY <2>4, FlattenKeeps
  <2> HIDE DEF parts
  <2>6. ReplyTo(c).text \in Seq(STRING \cup {Blank})
    BY <2>1, <2>5
  <2> HIDE DEF X
  <2> QED BY <2>1, <2>2, <2>6
<1> QED BY <1>2, <1>3

(* What the filter accepts has no segment more silent than the limit, a word, and is no
   phrase of the list: of the server's answer, before its white space is touched. *)
LEMMA AcceptedIsNotDoubtful ==
  ASSUME WayInv, NEW c \in Clips, Judged(c), decision[c] = "accepted"
  PROVE  LET r == answer[c].response
         IN /\ \A i \in 1 .. Len(r.segments) : r.segments[i].no_speech_prob <= NoSpeechMax
            /\ \E i \in 1 .. Len(r.text) : IsAlphanumeric(r.text[i])
            /\ Each(Fold, NormalizeWhitespace(r.text)) \notin ToSet(Blacklist)
<1> DEFINE r == answer[c].response
           t == NormalizeWhitespace(r.text)
<1>1. r = ReplyTo(c) /\ text[c] = t /\ Evaluate(t, r.segments) = "accepted"
  BY DEF WayInv, AnswerInv, Judged
<1>2. r.text \in Seq(STRING \cup {Blank})
  BY <1>1, RepliesAreText
<1>3. PICK n \in Nat : DOMAIN r.segments = 1 .. n /\ \A i \in 1 .. n : r.segments[i].no_speech_prob \in Int
  BY <1>1, RepliesAreText
<1> HIDE DEF r
<1>4. ~(NoSpeech(r.segments) > NoSpeechMax) /\ HasContent(t) /\ ~IsHallucination(t)
  BY <1>1 DEF Evaluate
<1>5. \A i \in 1 .. n : r.segments[i].no_speech_prob <= NoSpeech(r.segments) /\ NoSpeech(r.segments) \in Int
  BY <1>3, NoSpeechIsMost
<1>6. \A i \in 1 .. n : r.segments[i].no_speech_prob <= NoSpeechMax
  BY <1>3, <1>4, <1>5, LimitsAssumption
<1>7. Len(r.segments) = n
  BY <1>3
<1>8. \E i \in 1 .. Len(r.text) : IsAlphanumeric(r.text[i])
  BY <1>2, <1>4, ContentIsOfTheText
<1>9. Each(Fold, t) \notin ToSet(Blacklist)
  <2>1. \A p \in 1 .. Len(Blacklist) : Each(Fold, t) # Blacklist[p]
    BY <1>4 DEF IsHallucination
  <2>2. DOMAIN Blacklist = 1 .. Len(Blacklist)
    BY BlacklistAssumption
  <2> QED BY <2>1, <2>2 DEF ToSet
<1> QED BY <1>6, <1>7, <1>8, <1>9 DEF r

(* Nothing is typed that the engine thinks is silence, that holds no word, or that is a
   known hallucination: for every recording, whatever the server answers and when. *)
THEOREM NothingDoubtfulIsTyped == Spec => []NothingDoubtfulTyped
<1>1. WayInv => NothingDoubtfulTyped
  <2> SUFFICES ASSUME WayInv, NEW c \in Clips, typed[c] # Untyped
               PROVE  LET r == answer[c].response
                      IN /\ \A i \in 1 .. Len(r.segments) : r.segments[i].no_speech_prob <= NoSpeechMax
                         /\ \E i \in 1 .. Len(r.text) : IsAlphanumeric(r.text[i])
                         /\ Each(Fold, NormalizeWhitespace(r.text)) \notin ToSet(Blacklist)
    BY DEF NothingDoubtfulTyped
  <2>1. Judged(c) /\ decision[c] = "accepted"
    BY DEF WayInv, JudgedInv
  <2> QED BY <2>1, AcceptedIsNotDoubtful
<1> QED BY <1>1, WayKept, PTL

-----------------------------------------------------------------------------
(* What the server reads of a body is a beginning of it. *)
LEMMA TakeAgrees ==
  ASSUME NEW X, NEW body \in Seq(X)
  PROVE  Take(body) \in Seq(X) /\ Agrees(Take(body), 1, body)
<1> DEFINE m == IF Len(body) < MaxBody THEN Len(body) ELSE MaxBody
<1>1. m \in Nat /\ m <= Len(body) /\ Len(body) \in Nat
  BY MaxBodyAssumption
<1> HIDE DEF m
<1> DEFINE t == SubSeq(body, 1, m)
<1>2. t \in Seq(X) /\ Len(t) = m /\ \A k \in 1 .. m : t[k] = body[k]
  <2>1. t = [k \in 1 .. m |-> body[k]]
    <3>1. m - 1 + 1 = m /\ \A k \in 1 .. m : 1 + k - 1 = k
      BY <1>1
    <3>2. t = [k \in 1 .. m - 1 + 1 |-> body[1 + k - 1]]
      BY <1>1
    <3> QED BY <3>1, <3>2
  <2>2. \A k \in 1 .. m : body[k] \in X
    BY <1>1
  <2> QED BY <1>1, <2>1, <2>2
<1>3. Take(body) = t
  BY DEF Take, m
<1> HIDE DEF t
<1>4. Agrees(t, 1, body)
  <2>1. \A k \in 1 .. Len(body) : 1 + k - 1 = k /\ (k <= m => k \in 1 .. m)
    BY <1>1
  <2> QED BY <1>2, <2>1 DEF Agrees
<1> QED BY <1>2, <1>3, <1>4

(* A clip's samples are framed as a file that is not taken for the framing itself. *)
LEMMA SamplesAreUnframed ==
  ASSUME NEW samples \in Seq(STRING),
         \A i \in 1 .. Len(samples) - 1 : ~(samples[i] = Crlf /\ samples[i + 1] = Delim)
  PROVE  /\ EncodeWav(samples) \in Seq(STRING \cup {Riff}) /\ Unframed(EncodeWav(samples))
         /\ Tail(EncodeWav(samples)) = samples
<1> DEFINE w == EncodeWav(samples)
           n == Len(samples)
<1>0. samples \in Seq(STRING \cup {Riff}) /\ << Riff >> \in Seq(STRING \cup {Riff}) /\ n \in Nat
  OBVIOUS
<1>1. /\ w \in Seq(STRING \cup {Riff}) /\ Len(w) = n + 1 /\ w[1] = Riff
      /\ \A i \in 1 .. n : w[i + 1] = samples[i]
  BY <1>0 DEF EncodeWav
<1>2. Tail(w) = samples
  BY <1>0 DEF EncodeWav
<1> HIDE DEF w
<1>3. ASSUME NEW j \in 1 .. Len(w) - 1, w[j] = Crlf, w[j + 1] = Delim PROVE FALSE
  <2>1. j # 1
    BY <1>1, <1>3, Marks
  <2>2. PICK i \in 1 .. n - 1 : j = i + 1
    <3>1. j - 1 \in 1 .. n - 1 /\ j = j - 1 + 1
      BY <1>0, <1>1, <2>1
    <3> QED BY <3>1
  <2>3. i \in 1 .. n /\ i + 1 \in 1 .. n
    BY <1>0
  <2>4. samples[i] = Crlf /\ samples[i + 1] = Delim
    BY <1>1, <1>3, <2>2, <2>3
  <2> QED BY <2>2, <2>4
<1>4. Unframed(w)
  BY <1>3 DEF Unframed
<1> QED BY <1>1, <1>2, <1>4 DEF w

HeardInv == heard = [c \in Clips |-> heard[c]] /\ EngineHearsClip

LEMMA ServeHears == ASSUME WayInv, HeardInv, Serve PROVE HeardInv'
<1> DEFINE c == Head(queue)
           body == Take(BodyOf(c))
           wav == EncodeWav(said[c].samples)
<1>1. c \in Clips /\ said[c] \in Spoken[c] /\ UNCHANGED said
  BY DEF Serve, WayInv, Requests, ClipShapes, clipVars
<1>2. /\ wav \in Seq(STRING \cup {Riff}) /\ Unframed(wav) /\ Tail(wav) = said[c].samples
  BY <1>1, SpokenAssumption, SamplesAreUnframed
<1>3. CASE HasForm(body)
  <2> DEFINE X == STRING \cup {Riff, Delim, Crlf, Dashes, Language, Prompt, "response_format",
                                "verbose_json", "language", "temperature", "0.0", "prompt",
                                "file", "Content-Type"}
  <2>1. BodyOf(c) \in Seq(X)
    <3>1. wav \in Seq(X)
      <4> HIDE DEF wav
      <4> QED BY <1>2
    <3>2. /\ Delim \in X /\ Crlf \in X /\ Dashes \in X /\ Prompt \in X /\ Language \in X
          /\ \A v \in {"response_format", "verbose_json", "language", "temperature", "0.0",
                       "prompt", "file", "Content-Type"} : v \in X
      OBVIOUS
    <3>3. \A name, value \in X : TextField(name, value) \in Seq(X)
      <4> HIDE DEF X
      <4> QED BY <3>2 DEF TextField
    <3>4. /\ << Delim, Crlf, "file", Crlf, "Content-Type", Crlf, Crlf >> \in Seq(X)
          /\ << Crlf, Delim, Dashes, Crlf >> \in Seq(X) /\ <<>> \in Seq(X)
      <4> HIDE DEF X
      <4> QED BY <3>2
    <3> HIDE DEF X, wav
    <3>5. \A s, t \in Seq(X) : s \o t \in Seq(X)
      OBVIOUS
    <3> QED BY <3>1, <3>2, <3>3, <3>4, <3>5 DEF BodyOf, BuildMultipart, wav
  <2>2. body \in Seq(X) /\ Agrees(body, 1, BodyOf(c))
    <3> HIDE DEF X
    <3> QED BY <2>1, TakeAgrees
  <2>3. FormFile(body) = wav /\ FormLanguage(body, Language) = Language
    <3> HIDE DEF X, body, wav
    <3>1. Agrees(body, 1, BuildMultipart(Language, Prompt, wav))
      BY <2>2 DEF BodyOf, wav
    <3> QED BY <1>2, <1>3, <2>2, <3>1, FormIsRead
  <2>4. CASE UNCHANGED heard
    BY <1>1, <2>4 DEF HeardInv, EngineHearsClip
  <2>5. CASE heard' = [heard EXCEPT ![c] = [file |-> wav, hint |-> Hint(Language)]]
    <3> DEFINE h == [file |-> wav, hint |-> Hint(Language)]
    <3>1. Tail(h.file) = said[c].samples /\ h.hint = IF Language = "auto" THEN "" ELSE Language
      BY <1>2 DEF Hint
    <3> HIDE DEF h
    <3>2. heard' = [d \in Clips |-> IF d = c THEN h ELSE heard[d]]
      BY <1>1, <2>5 DEF HeardInv, h
    <3> HIDE DEF c
    <3> QED BY <1>1, <3>1, <3>2 DEF HeardInv, EngineHearsClip
  <2> QED BY <2>3, <2>4, <2>5 DEF Serve
<1>4. CASE ~HasForm(body)
  <2>1. UNCHANGED heard
    BY <1>4 DEF Serve
  <2> QED BY <1>1, <2>1 DEF HeardInv, EngineHearsClip
<1> QED BY <1>3, <1>4

(* The engine hears the clip as it was recorded, whatever its samples look like and
   wherever the server stops to read, with the language of the configuration. *)
THEOREM EngineHearsTheClip == Spec => []EngineHearsClip
<1>1. Init => HeardInv
  BY DEF Init, HeardInv, EngineHearsClip
<1>2. WayInv /\ HeardInv /\ [Next]_vars => HeardInv'
  <2> SUFFICES ASSUME WayInv, HeardInv, [Next]_vars PROVE HeardInv'
    OBVIOUS
  <2>1. CASE Serve
    BY <2>1, ServeHears
  <2>2. CASE ~Serve
    <3>1. UNCHANGED << heard, said >>
      BY <2>2 DEF Next, ClipStep, Request, Timeout, LogRecord, LogStep, Decide, Deliver, Inject,
                  Receive, Finish, ServerDies, ServerListens, DaemonKilled, serverVars, clipVars, vars
    <3> QED BY <3>1 DEF HeardInv, EngineHearsClip
  <2> QED BY <2>1, <2>2
<1>3. HeardInv => EngineHearsClip
  BY DEF HeardInv
<1> QED BY <1>1, <1>2, <1>3, WayKept, PTL DEF Spec

-----------------------------------------------------------------------------
(* What a workflow types is the answer of the first one that was asked for by name or, if
   none was, that names the window's class (pick_workflow). *)
Fits(c, w) ==
  IF said[c].ctx.workflow # "" THEN w.name = said[c].ctx.workflow
  ELSE said[c].ctx.class # "" /\ said[c].ctx.class \in w.apps

FirstFits(c) ==
  \E n \in 1 .. Len(Workflows) :
    /\ Fits(c, Workflows[n]) /\ Workflows[n].prompt # ""
    /\ \A m \in 1 .. Len(Workflows) : m < n => ~Fits(c, Workflows[m])

FirstThatFitsTypes == \A c \in Clips : typed[c] = "workflow" => FirstFits(c)

LEMMA ChosenFits == ASSUME NEW c, Applies(c) PROVE FirstFits(c)
<1> DEFINE S == {i \in 1 .. Len(Workflows) : Fits(c, Workflows[i])}
           n == Chosen(c)
<1>1. n = IF S # {} THEN Min(S) ELSE 0
  BY DEF Chosen, PickWorkflow, SelectInSeq, Fits
<1>2. n # 0 /\ Workflows[n].prompt # ""
  BY DEF Applies
<1>3. Len(Workflows) \in Nat
  BY WorkflowsAssumption
<1>4. S \subseteq Nat /\ \A i \in S : i \in 1 .. Len(Workflows) /\ Fits(c, Workflows[i])
  BY <1>3
<1>5. \A i \in 1 .. Len(Workflows) : Fits(c, Workflows[i]) => i \in S
  OBVIOUS
<1> HIDE DEF S, n
<1>6. S # {}
  BY <1>1, <1>2
<1>7. n \in S /\ \A k \in S : n <= k
  <2>1. \E j \in S : \A k \in S : j <= k
    BY <1>4, <1>6, LeastNat
  <2>2. Min(S) \in S /\ \A k \in S : Min(S) <= k
    BY <2>1, Zenon DEF Min
  <2> QED BY <1>1, <1>6, <2>2
<1>8. \A m \in 1 .. Len(Workflows) : m < n => ~Fits(c, Workflows[m])
  <2> SUFFICES ASSUME NEW m \in 1 .. Len(Workflows), m < n, Fits(c, Workflows[m]) PROVE FALSE
    OBVIOUS
  <2>1. n <= m /\ n \in Nat /\ m \in Nat
    BY <1>3, <1>4, <1>5, <1>7
  <2> QED BY <2>1
<1> QED BY <1>2, <1>4, <1>7, <1>8 DEF FirstFits

(* No workflow's answer is typed into a window it is not for. *)
THEOREM WorkflowIsTheOneMeant == Spec => []FirstThatFitsTypes
<1>1. Init => FirstThatFitsTypes
  BY DEF Init, FirstThatFitsTypes, Untyped
<1>2. WayInv /\ FirstThatFitsTypes /\ [Next]_vars => FirstThatFitsTypes'
  <2> SUFFICES ASSUME WayInv, FirstThatFitsTypes, [Next]_vars PROVE FirstThatFitsTypes'
    OBVIOUS
  <2>1. ASSUME NEW c \in Clips, Inject(c) PROVE FirstThatFitsTypes'
    <3>1. UNCHANGED said
      BY <2>1 DEF Inject
    <3>2. PICK by \in {"rules"} \cup (IF Applies(c) THEN {"workflow"} ELSE {}) :
            typed' = [typed EXCEPT ![c] = by]
      BY <2>1 DEF Inject
    <3>3. \A d \in Clips : typed'[d] = IF d = c THEN by ELSE typed[d]
      BY <3>2 DEF WayInv, ClipShapes
    <3>4. by = "workflow" => Applies(c)
      BY <3>2
    <3>5. ASSUME NEW d \in Clips, typed'[d] = "workflow" PROVE FirstFits(d)
      <4>1. CASE d = c
        BY <3>3, <3>4, <3>5, <4>1, ChosenFits
      <4>2. CASE d # c
        BY <3>3, <3>5, <4>2 DEF FirstThatFitsTypes
      <4> QED BY <4>1, <4>2
    <3>6. ASSUME NEW d \in Clips, FirstFits(d) PROVE FirstFits(d)'
      BY <3>1, <3>6 DEF FirstFits, Fits
    <3> QED BY <3>5, <3>6 DEF FirstThatFitsTypes
  <2>2. CASE \A c \in Clips : ~Inject(c)
    <3>1. UNCHANGED << typed, said >>
      BY <2>2 DEF Next, ClipStep, Request, Timeout, LogRecord, LogStep, Decide, Deliver, Serve,
                  Receive, Finish, ServerDies, ServerListens, DaemonKilled, serverVars, clipVars, vars
    <3>2. ASSUME NEW d \in Clips, FirstFits(d) PROVE FirstFits(d)'
      BY <3>1, <3>2 DEF FirstFits, Fits
    <3> QED BY <3>1, <3>2 DEF FirstThatFitsTypes
  <2> QED BY <2>1, <2>2
<1> QED BY <1>1, <1>2, WayKept, PTL DEF Spec

-----------------------------------------------------------------------------
(* Where anything is typed, the thread holds the transcript of the answer, a sequence of
   characters. *)
LEMMA TypedFromAnswer ==
  ASSUME WayInv, NEW c \in Clips, typed[c] # Untyped
  PROVE  /\ text[c] = NormalizeWhitespace(answer[c].response.text)
         /\ text[c] \in Seq(Chars)
         /\ said[c].env \in Env
         /\ typed[c] \in {"rules", "workflow"}
<1>1. Judged(c) /\ answer[c].response = ReplyTo(c)
  BY DEF WayInv, JudgedInv, AnswerInv, Judged
<1>2. text[c] = NormalizeWhitespace(answer[c].response.text)
  BY <1>1 DEF Judged
<1>3. text[c] \in Seq(Chars)
  <2>1. text[c] = NormalizeWhitespace(ReplyTo(c).text)
    BY <1>1, <1>2
  <2>2. ReplyTo(c).text \in Seq(STRING \cup {Blank})
    BY RepliesAreText
  <2> DEFINE X == STRING \cup {Blank}
  <2>3. X \cup {Blank} \subseteq Chars
    BY DEF Chars
  <2>4. ReplyTo(c).text \in Seq(X)
    BY <2>2
  <2> HIDE DEF X
  <2>5. NormalizeWhitespace(ReplyTo(c).text) \in Seq(X \cup {Blank})
    BY <2>4, NormalizeInventsNothing
  <2>6. Seq(X \cup {Blank}) \subseteq Seq(Chars)
    BY <2>3, SeqMonotonic
  <2> QED BY <2>1, <2>5, <2>6
<1>4. said[c].env \in Env
  BY SpokenAssumption DEF WayInv, ClipShapes, Env
<1>5. typed[c] \in {"rules", "workflow"}
  BY DEF WayInv, ClipShapes
<1> QED BY <1>2, <1>3, <1>4, <1>5

(* What the pipeline prepares is the transcript, rewritten by every correction and then
   by every snippet, longer triggers first, as the reference rewrites it. *)
LEMMA PreparedByTheRules ==
  ASSUME NEW c \in Clips, text[c] \in Seq(Chars), said[c].env \in Env
  PROVE  LET words == IF engine = "parakeet" THEN CorrectVocabulary(text[c]) ELSE text[c]
             corrected == FoldLeft(Rewritten, words, Corrections)
         IN Prepared(c)
              = FoldLeft(LAMBDA t, s : Rewritten(t, Filled(s, said[c].env)), corrected, SortedSnippets)
<1> DEFINE words == IF engine = "parakeet" THEN CorrectVocabulary(text[c]) ELSE text[c]
<1>1. STRING \subseteq Chars
  BY DEF Chars
<1>2. words \in Seq(Chars)
  BY CorrectingKeeps
<1>3. Prepared(c) = ExpandSnippets(ApplyCorrections(words), said[c].env)
  BY DEF Prepared
<1> HIDE DEF words
<1>4. /\ ApplyCorrections(words) = FoldLeft(Rewritten, words, Corrections)
      /\ ApplyCorrections(words) \in Seq(Chars)
  BY <1>1, <1>2, CorrectingIsRewriting
<1> DEFINE corrected == ApplyCorrections(words)
<1>5. Prepared(c) = ExpandSnippets(corrected, said[c].env) /\ corrected \in Seq(Chars)
  BY <1>3, <1>4
<1> HIDE DEF corrected
<1>6. ExpandSnippets(corrected, said[c].env)
        = FoldLeft(LAMBDA t, s : Rewritten(t, Filled(s, said[c].env)), corrected, SortedSnippets)
  BY <1>1, <1>5, ExpandingIsRewriting
<1>7. Prepared(c)
        = FoldLeft(LAMBDA t, s : Rewritten(t, Filled(s, said[c].env)), corrected, SortedSnippets)
  BY <1>5, <1>6
<1>8. corrected = FoldLeft(Rewritten, words, Corrections)
  BY <1>4 DEF corrected
<1> QED BY <1>7, <1>8 DEF words

(* The chosen workflow is the first that fits, and it fits by its name or by the
   window's class. *)
LEMMA ChosenIsAsked ==
  ASSUME NEW c, FirstFits(c)
  PROVE  LET ctx == said[c].ctx
             w == Workflows[Chosen(c)]
         IN IF ctx.workflow # "" THEN w.name = ctx.workflow ELSE ctx.class \in w.apps
<1> DEFINE S == {i \in 1 .. Len(Workflows) : Fits(c, Workflows[i])}
           n == Chosen(c)
<1>1. n = IF S # {} THEN Min(S) ELSE 0
  BY DEF Chosen, PickWorkflow, SelectInSeq, Fits
<1>2. S # {}
  BY DEF FirstFits
<1>3. S \subseteq Nat /\ \A i \in S : Fits(c, Workflows[i])
  BY WorkflowsAssumption
<1> HIDE DEF S, n
<1>4. n \in S
  <2>1. \E j \in S : \A k \in S : j <= k
    BY <1>2, <1>3, LeastNat
  <2>2. Min(S) \in S
    BY <2>1, Zenon DEF Min
  <2> QED BY <1>1, <1>2, <2>2
<1>5. Fits(c, Workflows[n])
  BY <1>3, <1>4
<1> QED BY <1>5 DEF Fits, n

(* Whatever is typed is what the rules make of the transcript, or the answer of a workflow
   that was asked for: for every dictionary, every set of snippets and every clip. *)
THEOREM TypedIsByTheRules == Spec => []TypedByTheRules
<1>1. WayInv /\ FirstThatFitsTypes => TypedByTheRules
  <2> SUFFICES ASSUME WayInv, FirstThatFitsTypes, NEW c \in Clips, typed[c] # Untyped
               PROVE  LET transcript == NormalizeWhitespace(answer[c].response.text)
                          words == IF engine = "parakeet" THEN CorrectVocabulary(transcript)
                                                          ELSE transcript
                          corrected == FoldLeft(Rewritten, words, Corrections)
                          expand(s, e) == Rewritten(s, [e EXCEPT !.to = Resolve(@, said[c].env)])
                          ctx == said[c].ctx
                          w == Workflows[Chosen(c)]
                      IN IF typed[c] = "rules"
                         THEN \E order \in LongestFirst :
                                Prepared(c) = FoldLeft(expand, corrected, order)
                         ELSE IF ctx.workflow # "" THEN w.name = ctx.workflow ELSE ctx.class \in w.apps
    BY DEF TypedByTheRules
  <2>1. /\ text[c] = NormalizeWhitespace(answer[c].response.text)
        /\ text[c] \in Seq(Chars) /\ said[c].env \in Env
        /\ typed[c] \in {"rules", "workflow"}
    BY TypedFromAnswer
  <2>2. CASE typed[c] = "rules"
    <3> DEFINE words == IF engine = "parakeet" THEN CorrectVocabulary(text[c]) ELSE text[c]
               corrected == FoldLeft(Rewritten, words, Corrections)
               expand(s, e) == Rewritten(s, [e EXCEPT !.to = Resolve(@, said[c].env)])
    <3>1. Prepared(c)
            = FoldLeft(LAMBDA t, s : Rewritten(t, Filled(s, said[c].env)), corrected, SortedSnippets)
      BY <2>1, PreparedByTheRules
    <3> HIDE DEF corrected
    <3>2. Prepared(c) = FoldLeft(expand, corrected, SortedSnippets)
      BY <3>1 DEF Filled
    <3> QED BY <2>1, <2>2, <3>2, SnippetsAreSorted DEF corrected
  <2>3. CASE typed[c] = "workflow"
    BY <2>3, ChosenIsAsked DEF FirstThatFitsTypes
  <2> QED BY <2>1, <2>2, <2>3
<1> QED BY <1>1, WayKept, WorkflowIsTheOneMeant, PTL
=============================================================================
