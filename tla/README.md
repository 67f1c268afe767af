# whispy in TLA+

whispy is push-to-talk dictation for Linux desktops: a daemon records the microphone
between two commands, has a supervised speech-to-text (STT) server transcribe the
clip, filters and rewrites the text, and pastes it into the focused window. Bars and
pills show the state it publishes in `state.json`.

This directory holds TLA+ models of the daemon, of its STT server, of its setup and
of its settings screen, TLC configurations that check them on small instances, and
TLAPS proofs of their invariants for every size. Paths below are relative to `crates/daemon/src/` unless
they begin with a directory of the repository.

## 1. The system

| Component | State it keeps | Operations | Interacts with | What is hard | What makes it correct |
|---|---|---|---|---|---|
| Dictation session (`app.rs`) | `Lifecycle` (slot, ids, cancel mark) under one lock, `inject_lock`, one thread per clip | start, stop, cancel, status; the reader's callbacks; auto-finish; deliver; report | capture, status, STT client, pipeline, injector | five kinds of threads, joins outside the lock, cancel spread over threads that look later | one microphone, one delivery at a time, each clip pasted at most once even if its injection fails late, a cancelled clip neither pasted nor shown, the display always returns to idle |
| Audio capture (`audio.rs`) | `pw-record` child, reader thread, signals | start, finish, cancel; meter, duration cap, trailing silence | session (callbacks on the reader thread) | the reader may be asked to join itself; a capture outlives its recording | part of the session's properties |
| Status publishing (`state.rs`) | snapshot, generation, last publication, timers | set, success, error, revert | all threads; readers of `state.json` | one temporary file shared by all threads, failing writes, timers against newer writes, death of the daemon | never half-written, never backwards, never stale, no flash stays |
| Bar and pill (`ui/omarchy`, `ui/quickshell`) | shown state, hold timer | file watch, hold, staleness ticker | `state.json` | a daemon that died | the bar comes to rest |
| STT supervisor (`stt_server.rs`) | child, failures, halt flag, monitor thread | start, monitor, restart, stop | server processes, one port | servers that die, load slowly, or belong to a killed daemon | no server lost or left a zombie, a running one not replaced, a dead one restarted, stop ends |
| Text injection (`inject.rs`, `desktop.rs`, `proc.rs`) | the desktop's clipboard | save, copy, keys, delay, restore; type | external tools, the user, the focused window | tools that fail or hang between two steps | the user's clipboard is back, no transcript in another clip, no tool blocks the deliveries |
| Command socket (`server.rs`, `main.rs`) and client (`crates/client`) | socket file, listener, connection being served, shutdown flag | look for a live daemon, bind, accept, serve, leave; connect, give up | session (`App::handle`) | instances that overlap, stale files, peers that are mute or go on sending | a serving daemon is reachable, clients are answered in time, shutdown ends |
| Text pipeline (`pipeline.rs`, `filter.rs`, `vocab.rs`, `llm.rs`) | none; `inject_lock` is held meanwhile | filter, vocabulary, corrections, snippets, workflow | LLM server, clipboard, `date` | word boundaries, order of the rewrites, replacement inside a replacement, a model that fails | what is typed is what the rules say, nothing doubtful is typed |
| STT client (`stt.rs`, `crates/common`) and server (`crates/stt`) | the server's queue and engine | request, framing, answer, aggregation of segments | each other, over HTTP | binary samples inside the framing, odd numbers in an answer, servers that hang or die | the engine hears the clip, every good answer is read, every clip ends |
| Transcript log (`transcripts.rs`, `config.rs`) | two generations of a file | append with rotation, read | clip threads, statistics, settings | rotation by several threads, a reader between two renames | the newest records can be read, none twice |
| Setup (`setup.rs`, `host.rs`, `display.rs`, `engine.rs`) | what is installed: programs, models, units, seeds, the bar | build, download, seed, install units and widgets, verify | external tools, systemd, `config.toml` | interruptions between and inside the parts, failing tools, repeated runs, files that others write between a look and a write | a run that did it all leaves a machine that dictates; nothing partial is taken for whole; the choices the user had made stay |
| Settings screen (`settings/`) | form, meter, test dictation | keys, save, test | audio, STT client, `config.toml`, systemd | one microphone for two uses, restart of the daemon on save, edits from outside | at most one capture, nothing unsaved is lost silently, what it saves starts the daemon |
| Configuration (`config.rs`) and unit files | `config.toml`, the service | load, validate, start, restart on failure | setup, settings, editor | three writers of one file | a refused configuration is retried, an accepted one runs |
| Statistics (`stats.rs`), install scripts | none | - | log, setup | - | see section 8 |

`start` opens a capture and fills the slot; `stop`, a trailing silence or the cap
empties it; the clip's thread transcribes, filters and logs, waits for `inject_lock`,
looks for a cancel, runs the pipeline, injects, and reports. Reports are held back
while a newer recording is live.

## 2. The modules

| Module | Models | Checked by | Proved in |
|---|---|---|---|
| `Dictation` | what a session promises, without threads or locks | (abstract specification) | `SessionProofs` |
| `Session` | `app.rs` over `audio.rs`; refines `Dictation` | `session`, `session_order`, `session_cancel` | `SessionProofs` |
| `Publication` | what a reader of `state.json` may rely on, without threads or files | (abstract specification) | `StatusFileProofs` |
| `StatusFile` | `state.rs`, over runs of the daemon (`main.rs`); refines `Publication` | `status_file` | `StatusFileProofs` |
| `Bar` | `whispy.qml`; composed with `StatusFile`, whose file it reads | `status_file` | |
| `Supervisor` | `stt_server.rs` and the processes around it | `supervisor` | `SupervisorProofs` |
| `Paste` | `inject.rs`, `desktop.rs`, `proc.rs`, the clipboard, user and window | `paste`, `paste_keys` | `PasteProofs` |
| `Socket` | `server.rs`, `main.rs`, `send` of the client | `socket` | `SocketProofs` |
| `TranscriptLog` | `transcripts.rs`, the rotation of `config.rs` | `clips`, `transcripts_lost` | `ClipsProofs` |
| `Words` | `filter.rs` (text), `vocab.rs`, `pipeline.rs` as operators on texts | `clips`, `vocab_merge` | `TextProofs` |
| `Wire` | `inference.rs`, `multipart.rs`, `reply.rs`, `stt.rs` as operators on bodies and answers | `clips` | `TextProofs` |
| `Clips` | a clip's way to the keyboard and the loop of `whispy-stt`; composes the three above | `clips`, `transcripts_lost`, `vocab_merge` (through `MCClips`) | `ClipsProofs` |
| `Machine` | what setup, settings and service share: files, programs, models, the service | `configure` | `ConfigureProofs` |
| `Setup` | `setup.rs`, over `host.rs`, `display.rs`, `engine.rs` | `configure` | `ConfigureProofs` |
| `Settings` | `settings/` | `configure` | `ConfigureProofs` |
| `Configure` | the three above on one machine, with an editor | `configure` (through `MCConfigure`) | `ConfigureProofs` |

`PROJECT.json` maps each definition to the lines it models. Constants get their
values in the `.cfg` files, as model values where nothing but identity matters. An
operator whose comment begins with "Mutant" is a variant with a plausible bug; no
specification uses it. Each checked property is known to fail when one named
definition is replaced by such a variant.

### Session

A step ends where another thread can get in: at each acquisition of the lifecycle
lock or of `inject_lock`, at each join, at each publish no lock orders, and around
the slow calls. The socket thread (`server`) runs one command at a time. It is
`start_join`, `start_open`, `start_publish`, `start_probe` within a start; `closing`
within a stop (the close itself is `stage` of the recording, since the auto-finish
thread runs the same code); `cancel_join` and `cancel_idle` within a cancel. Each
recording has a reader, an auto-finish thread and a `stage`, from `opening` to
`over`. `status` is the published state with the id on whose behalf it was written,
which the code does not record and the properties need. The lifecycle lock needs no
variable but one condition (`LifecycleFree`): only a start holds it over a slow call.
An injection that fails may have pasted all the same (`Injected`): the keystroke, or the
typing tool, can fail or be killed at its deadline after it has done its work, and the
code reports an error for a clip the user sees (`inject.rs:119-120`, `app.rs:421-430`).

`Dictation` gives every recording a fate (`unused`, `recording`, `clip`, `committed`,
`delivered`, `failed`, `gone`; a `failed` one may or may not have been pasted), changes it in single steps, and has cancel take everything not
committed at one instant. `Session` maps each stage to a fate; a clip whose id is
below the cancel mark is `gone` from the moment the mark is set, although its thread
finds out later.

### StatusFile and Bar

A write takes the lock, updates memory, and publishes in three steps (create, write,
rename) of which any may fail; then a flash arms its timer. Throttling is a choice
for meter ticks, which only the first recording after another state is exempt from.
The daemon may die anywhere and starts again with generations from 0. The history
variables `run` and `gen` of a snapshot order what is on disk. `Publication` knows no
temporary file: a state is due while the thread that wrote it holds the lock, and is then
shown whole, or the attempt fails; no state is taken up before that. `Bar` reads the
file, runs its hold timer and its staleness ticker.

### Supervisor

Start, readiness wait and monitor loop are one sequence of steps (`pc`), since the
monitor runs the same code. Servers are slots that load, listen on the one port if
it is free, and exit at will; a killed daemon makes its server an orphan. The delay
is computed with the constants of the code (2 s, doubling, capped at 60 s).

### Paste

One action per tool: it succeeds, fails by itself, or hangs and is killed at its
deadline, which the code treats as a failure; a failing tool may have had its effect.
The user copies at any moment, the window reads the clipboard some time after the
keys. `spoiled` records what happened since the user last copied something that the
code accepts as a reason for losing it (clipboard unreadable or not text, a failed
tool, a copy by the user during the paste).

### Socket

Instances look for a live daemon, load for an unknown time, look again, clear the
file, bind, serve, and leave or are killed. Of the processes that connect, `Peers` are not
`whispy-client`: they stay connected, and those in `Talkers` may send lines. `handle_conn`
loops over the lines of one connection with 5 s for each read: a client's one command and
its end are one step (`Handle`), a peer's line is a step after which the daemon waits for
the next (`ReadLine`), whether it was a command or empty. Lines within the same second
count as one. Seconds are counted only for connections: 5 s of silence in the daemon, 10 s
of patience in the client, and time stands still while the accept loop has something to
do. Commands take no time here; that they end is `NothingWaitsForever` of `Session`. A
connection that merely tests whether a daemon is live is not queued: it is closed at once
and read as empty.

### TranscriptLog, Words, Wire and Clips

`TranscriptLog` is the log alone: files are numbered as they are created (`inodes`),
`current` and `old` are what the two names point to, a thread that has opened a file
(`fd`) writes to it wherever it has been renamed to since. The look at the size, the
rename, the open, the line and its newline are one step each, because nothing in the
daemon orders the threads: the log is written before `inject_lock` is taken. A reader
opens the old generation, then the current one. `Words` treats a text as a sequence of
characters. It recurses in functions only (`Levenshtein` row by row, `Soundex`, the
rewritings), so that it can be reasoned about. `Wire` treats a body as a sequence of pieces, of which samples may be any.

`Clips` extends all three. The phase of a clip runs `recorded`, `waiting`, `received`,
`logging`, `accepted`, `workflow`, and ends in `typed` or in a reason. The server takes
the oldest request, and goes on with it when its client has given up. Whichever of
`whispy-stt` and whisper-server runs, it may fail, die and come back, or never answer.
The rewritten text is not carried from step to step: it is `Prepared(c)`, a function of
the transcript, and `typed` records whether the rules or a workflow's model gave it.

### Machine, Setup, Settings and Configure

`Machine` has the state three programs share. A file is absent, whole, or torn (created
but not written), a model also partial or another one than published. `config.toml`
keeps the settings the screen edits and the set of faults in the rest of it. The service is
off, waits for its server to load the model (the daemon has no socket before that), is up,
or failed and is tried again. `author` and `unseen` are history: who wrote `config.toml`,
and what the user or the screen has changed since setup last looked at it.

`Setup` is a list of parts still to do (`todo`) and a `phase` within the first; each tool
may fail, and `Interrupt` ends the run at any step. Where setup looks at a file and writes
it later, these are two steps: a seed is looked for (`SeedBegin`), created or emptied
(`SeedCreate`) and written (`SeedFill`); Omarchy's `shell.json` is read whole (`WidgetLook`)
and replaced whole (`WidgetHide`). `systemctl enable --now` may fail, which setup prints and
passes over (`UnitEnable`; `told`). `Report` is what verify finds of what it looks at
(`Looked`): the model, the server's program, the daemon's answer, `ydotoold.service` in paste
mode, and the server's port.

`Settings` is one thread (`window`): a tick, then a key or none; saving and restarting the
service are steps of their own, since other programs run between them. A key that `decode`
does not know never reaches the form and is the same step as no key (`NoKey`): it leaves an
open question about quitting open. `captures` holds the processes that run, `meter` and
`test` what the screen believes of them.

## 3. What is checked

| Run | Instance | States | Shows |
|---|---|---|---|
| `session` | 2 recordings, clips failed, rejected or accepted, injections that fail with or without effect, fair | 63 thousand | one microphone; a live recording is shown; pasted once; cancelled clips not shown; display at rest is idle; an auto-finish ends only its own recording; silence ends the recording; everything taken ends and every command is answered; refinement of `Dictation` |
| `status_file` | 2 callers and the timer, 3 writes per run, 2 runs | 131 thousand | refinement of `Publication`; never back, file follows memory, flashes end, timers touch only flashes, the bar settles |
| `supervisor` | 3 process slots | 7 thousand | owns its server, keeps a running one, restarts a dead one, backs off to the cap, stop ends |
| `paste` | 2 clips, 1 copy by the user, three modes | 240 thousand | clipboard kept, no transcript left, window inserts the right text, every delivery ends |
| `socket` | 2 instances, 1 client, 2 peers, one of them mute | 500 thousand | a serving daemon is reachable; a client times out only behind two peers, or while one sends; SIGTERM ends the daemon unless a peer sends for ever |
| `clips` | 2 clips and one of an earlier run, a log of 1 record a generation, both engines | 128 thousand | the engine hears the clip; every good answer is read; nothing doubtful is typed; what is typed follows the rules; the newest records are kept and none is read twice; every clip ends |
| `configure` | 2 or 3 setups and 1 edit, or 1 setup and 1 screen, or 1 screen and 1 edit; fresh and installed machines | 217 thousand | at most one capture; a saved configuration starts the daemon; unsaved changes are not lost silently; models are whole; setup keeps the choices it could see and leaves a machine on which all that verify looks at is there |

Why the bounds are enough. The session's code compares ids only with the slot and the
cancel mark, and each obligation concerns one recording and one other that holds a
lock or the slot: two recordings give every such pair, and the proofs below cover any
number. Two callers and a timer cover each pair of publishers; three writes
are a flash, a write over it and one after. Three slots are the child, an orphan
holding the port, and one to be spawned. A second copy by the user only repeats the
first. Two silent peers, or one that sends, are what it takes for a client to time out at
all, so `AnsweredInTime` is not vacuous; one peer that sends is what it takes to hold off a
SIGTERM, and without its exception `ShutdownEnds` fails. In `clips` a record of an earlier run and a cap of one
make both of today's clips rotate; the texts were chosen so that a trigger begins
another, a correction stands inside a longer word, a custom word is spoken apart with
punctuation around it, one token has no probability, one segment is silence, and
samples look like the framing. In `configure` a setup may be interrupted, repeated and
finished, with a part of it or an edit in between; an edit, or a screen that saves, falls
into each of its windows between a look and a write; two settings, one of them the
microphone's, make every move, save and quit possible.

Deadlock is checked except in `status_file`, where the daemon may stay down, and in the
runs of `Clips` and `Configure`, where in the end nobody has anything left to do. `Paste`
and `Socket` say with a `Finished` step when nothing is left to do.

### Disagreements between text and code

Each is a run that must find its property violated.

| Run | Property | The text | The code |
|---|---|---|---|
| `session_order` | `PastedInOrder` | "paste one at a time, in order" (`app.rs:16-17`) | clips wait for a mutex in the order their transcriptions end, or any |
| `session_cancel` | `CancelStopsInjection` | cancel discards "every clip that has not started injecting" (`app.rs:18-19`) | the mark is read once, before post-processing |
| `paste_keys` | `ClipboardPreserved` | "Preserves the user's clipboard across pastes" (`inject.rs:29-30`) | a failed keystroke returns before the restore |
| `transcripts_lost` | `EveryClipLogged` | "one JSON `Record` per transcribed clip" (`transcripts.rs:1-2`) | `append` runs in several threads at once, in several system calls |
| `vocab_merge` | `PunctuationKept` | "keeping its surrounding punctuation", "Don't merge across punctuation" (`vocab.rs:7-8`, `51`) | a token without letters counts as prefix only, and is merged away |

More limits are kept in the models without a run:

- Two daemons that look for a live one within the same instant both find none, and the
  later one removes the file of the earlier (`server.rs:54-60`). `Socket` records this
  as `overlapped`, and promises reachability while it is FALSE.
- `close` reads `auto_stopped` before it joins the reader (`app.rs:332`): a capture that
  reaches its cap in between is transcribed although too_long was published.
- `wait_ready` takes any listener on the port for its own server (`stt_server.rs:332`):
  an orphan answers for a server that could not bind.
- Setup creates and writes a seed in two calls; cut short between them, `config.toml`
  stays empty, and neither setup nor the daemon nor the screen loads it (`setup.rs:547`).
- Setup looks whether a seed exists and writes it later, with a call that empties what is
  there (`setup.rs:540-547`): a `config.toml` saved in between is replaced by the defaults,
  although the text is "never clobber edits" (`setup.rs:538`). It reads `shell.json` and
  replaces it (`setup.rs:771-788`): a change of the bar in between is undone.
  `UserChoicesKept` is promised of what had been chosen when setup looked, and fails without
  that condition (`unseen`).
- `systemctl enable --now` may fail; setup prints the command and ends well
  (`setup.rs:582-588`). A service that is started answers only when its server has loaded
  the model, so verify, which follows at once, may find no daemon yet. `SetupMakesReady`
  is promised of a run that left nothing to the user, for the time after the load, and
  where no digest is known, of a server that answered with the model it was asked for.
- A key the settings screen does not know, pressed between two quits, does not take the
  question back (`settings/mod.rs:131-133`): the second quit discards the choices.
  `UnsavedKept` is about the keys the form is given.
- The daemon looks at its shutdown flag between connections only, and serves a connection
  while each line comes within 5 s of the last (`server.rs:64`, `93-118`): a peer that goes
  on sending, be it empty lines, holds off SIGTERM and every other client.
- An Omarchy widget whose first installation is interrupted is never placed by a later
  one (`setup.rs:714`); without a systemd user manager, setup stops at the first unit it
  writes (`setup.rs:577`), and runs again once there is one.

## 4. Fairness

- `Session`: each thread that can run does (WF on the socket thread, on each clip,
  close, auto-finish and callback step, and on the timer): the operating system
  schedules threads, and the slow calls have deadlines (`proc.rs`, HTTP timeouts). A
  reader reaches the end of its pipe only when it was asked to stop, which kills
  `pw-record`. No fairness on commands, on silence, on what the microphone hears.
- `StatusFile`, `Bar`: threads and timers run, the file watch, the hold timer and
  the ticker fire. When the daemon starts, ends or is killed is open.
- `Supervisor`: the monitor runs. Nothing it promises relies on its timeout, on a
  server becoming ready, or on files coming back.
- `Paste`: a delivery goes on, since each tool ends or is killed at its deadline. The
  user and the window owe nothing.
- `Socket`: instances and time go on; nobody has to close, to send, or to stop sending.
  A line comes at least a second after the last (`ReadLine` needs `idle > 0`), so a peer
  that sends cannot keep time from passing.
- `Clips`: each clip's thread goes on; both HTTP clients have a global timeout
  (`stt.rs`, `llm.rs`). Nothing is assumed of the server, nor of the log's reader, not
  even that an answer that is there is received before the timeout.
- `Configure`: systemd tries a failed service again (`Restart=on-failure`), and a setup
  that nobody interrupts goes on. A server that is started again and again with the
  published model gets ready at some time, although any one start may fail (strong
  fairness on `ServerReady`: the wait for readiness is 60 s, and a model that never loads
  on this machine is beyond what setup can look at). No fairness on the user, on the
  screen, or on tools that may fail.

Weak fairness is enough everywhere else. A clip waiting for `inject_lock` is the one place
where it might not be (a mutex promises no order); with finitely many clips, each of
which delivers once, the lock is free for good in the end.

## 5. What is proved

For every number of recordings, threads, processes, clips and clients, and for texts,
answers and samples of any length, under the assumptions named in the modules:

- `SessionProofs`: `Spec => []IInv`, and from it `TypeOK`, `OneMicrophone`,
  `LiveRecordingShown`, `OneDelivery`, `PastedOnce`, `CancelledNotShown`,
  `RestShowsIdle`, and the action property `OnlyOwnSilenceEnds`. The refinement
  `Spec => KeepsPromise`: the session implements `Dictation`. From the refinement:
  a cancel takes everything not in delivery in its first step, and what it took is
  never pasted (`CancelTakesAtOnce`, `GoneIsNeverPasted`).
- `StatusFileProofs`: `Spec => []IInv`, and from it `TypeOK`, `NeverHalfWritten`,
  `FileFollowsMemory`, `FlashIsArmed`, `NeverGoesBack`, `RevertsOnlyFlashes`. The
  refinement `Spec => PublishesInOrder`: the publisher implements `Publication`.
- `SupervisorProofs`: `Spec => []Inv`, from it `OwnsItsServer`, and the action properties
  `KeepsARunningServer` and `FailuresAddUp`, the safety half of `BacksOff`: while the
  files are missing no failure is forgotten, and at the last count the delay is the cap.
- `PasteProofs`: `Spec => []IInv`, and from it `ClipboardKept`, `TranscriptNotLeft`, and
  the action property `InsertsItsOwn`.
- `SocketProofs`: `Spec => []IInv`, and from it `LiveDaemonReachable`; then
  `Spec => []WaitInv`, and from it `AnsweredInTime`.
- `ClipsProofs`: `Spec => LogSpec` (under the whole pipeline the log does nothing but
  what it does on its own), `NoRecordTwice` and `NewestKept`; of the clip's way
  `EngineHearsClip`, `EveryAnswerRead`, `NothingDoubtfulTyped`, that an answer once given
  stands (`AnswersStand`), that what is typed was accepted on the numbers of its own
  answer (`TypedWasAccepted`), that a workflow types only where it is the first that
  fits (`FirstThatFitsTypes`), and that what is typed otherwise is what the reference
  makes of the transcript (`TypedByTheRules`).
- `TextProofs`: lemmas on the operators of `Words` and `Wire` that those rest on: tokens
  are words of the text, normalising invents nothing, the fold over the segments is
  their maximum, the server's parser inverts the client's framing (`FormIsRead`), the
  scan for a phrase rewrites the occurrences the reference picks out
  (`ReplacingIsRewriting`), and the snippets are expanded in an order without a trigger
  before a longer one (`SnippetsAreSorted`).
- `ConfigureProofs`: `Spec => []IInv`, and from it `MicrophoneHeld`, `SavedConfigStarts`,
  `ModelWhole`, and the action properties `UnsavedKept` and `UserChoicesKept`. Of setup's
  end, `DoneIsReady`: after a full bootstrap that left nothing to the user, all that verify
  looks at is there but the daemon's answer and the server's port, for which only a load of
  the model is missing: the configuration is one the daemon starts with, and its service
  has been started.

The assumptions. Sentinels are not members of the sets they stand beside, bounds are
natural numbers, clients are finite in number. In `Clips` the texts, the vocabulary, the
corrections, the snippets, the blacklist and the workflows have the types their parsers
give them, no two snippets have the same trigger (a TOML table has each key once), and the
samples of a clip do not hold a
line end followed by the whole boundary: it is fixed, and the code does not look for it in
the samples. `EveryAnswerRead` is proved of `whispy-stt` outright; of whisper-server,
which is external, as far as it keeps its contract, that every segment has a confidence
(`WhisperKeepsContract`, a hypothesis of the theorem and true of the instance that is
checked).

The arguments. *Session*: the safety properties are not inductive. `OneMicrophone`
follows from `ReaderInv`: a running reader belongs to the recording in the slot or to
the one the socket thread works on, and by `SlotInv` there is never one of each.
`LiveRecordingShown` needs to know that the slot is filled only by a start that has
already published (`ProbeInv`), and that reports look at the slot under the lock.
`CancelledNotShown` needs that what is held or being closed by the socket thread is
never below the mark (`CancelInv`); `PastedOnce` that the holder of `inject_lock` is
the clip in delivery, has no outcome yet and has not been pasted (`DeliverInv`), and that a
clip ends as delivered only when it was, while one whose injection failed may have been. `RestShowsIdle` speaks of the
end only; `RestInv` says it of every state: whatever is shown, the thread that takes it
off still has a step to go, or a cancel is about to. The refinement goes step by step: a
step that changes no fate is a stutter (`Unseen`), a step of one recording changes one
fate (`OneMoves`), and the cancel's first step changes them all (`CancelSeen`).

*StatusFile*: everything
rests on `LockInv`: the snapshot being published is the memory, so a renamed file
equals it, and is newer than the file it replaces (`FileInv`). The refinement takes a write
of the memory to a change, the rename or a failure to the end of what is due, and every
other step but a start and an end of the daemon to a stutter. `ArmInv` says that a
timer of the current generation finds a flash. *Supervisor*: every process that is not
free and not an orphan is the child; each step of restart, abort and stop reaps or
keeps it. *Paste*: `ClipboardInv` explains the
clipboard at each step by the delivery in progress, the user, or a delivery that went
wrong; `SavedInv` does the same for what was saved, so a restore brings back what the
user copied.

*Socket*: `BindAlone` says that while an instance is between its second
look and its bind, none listens and none other is there, so neither its removal of
the file nor its bind can hit a live daemon. `AnsweredInTime` is about the past: how many
peers' connections were ahead when a client came, and whether one was sending while it
waited (`talkedOver`). `PlaceInv` gives every connection one place in one queue.
`PatienceInv` then bounds the wait of a client that met at most one, and that one silent:
while it is ahead, the client has waited no longer than the daemon has been listening to
it, and the daemon's patience is shorter than the client's.

*Clips*, the log: a record is read twice only if the reader opens the same file under both
names; `Generations` says that `current` is always the newest file and that what was
opened as the old one is older, so a rotation between the two opens moves a file the
reader has not seen; `OncePerClip` says that a thread writes its record once.
For `NewestKept`, `KeptInv` says that without damage the two files hold the end of the
log in order, either all of it or a full old generation (`EndOfLog`), that no line is
open but the one being written (`Closed`), and that the only append in progress writes
to the current file, still too large when the rename comes (`OneWriter`).

*Clips*, the way: `WayInv` says that a clip has one place with the server and no answer
while it is there (`Requests`), that a good answer is what the engine makes of that clip
(`AnswerInv`), and that a thread past the answer holds its transcript and the filter's
word on it (`JudgedInv`). `NothingDoubtfulTyped` then is a fact about the filter, of which
the fold over the segments and the tokens of the text are lemmas. `EngineHearsClip` is a
fact about the framing: parse is a recursive function from the end of the body to its
beginning; with the body given, each field and the file are read at their places, since no
separator can begin inside what was written before, and a body that was cut is refused or
has lost nothing but its last line.

*Clips*, the rules: `TypedByTheRules` compares what the code does, from left to right, with
a reference that picks positions. `replace_phrase_ci` goes on behind each match; the
reference asks for a set of occurrences without overlaps such that each one left out
overlaps an earlier one in the set. `ScanExists` and `ReplaceScans` show that the code's
recursion has a solution and that the code computes it; `PackingExists` that a set of that kind exists;
`ScanOneStep`, from the end of the text to its beginning, that what the scan returns from a
position on is what the reference's pieces from there on are put together to. The next
match of the scan is in the set, since nothing before it overlaps it; up to it the pieces
are single characters, on it one is the replacement and the others are empty. Corrections
and snippets are then folds of equal functions (`FoldedValue`), as long as every text in
between is a text, which `CorrectingKeeps` says of the vocabulary. The sort of the snippets
is by rank, the number of snippets that come no later: ranks grow strictly with the order,
so each place is taken once (`EveryPlaceIsTaken`). The vocabulary itself is the same
operator on both sides: what it corrects is not judged by a reference.

A recursive function is a CHOOSE in TLA+, and nothing follows from its equation until a
function that satisfies it is shown to exist. The library's induction theorems take an
operator and cannot be used with the provers at hand; `TextProofs` derives what it needs
from the well-foundedness of finite sets: a set of naturals has a least element
(`LeastNat`), so a set that holds 0 and every successor holds every natural (`Induction`).
Functions of one argument and folds are built this way.

*Configure*: `ConfigInv` holds that what the user or the screen has written is a whole
file, and that a draft about to be written is accepted already; programs and models are
never taken away, so it stays accepted. `SeedInv` says that the `config.toml` setup is
about to create is missing still, unless somebody has written it since setup looked: the
step that creates it then overwrites nothing that was there when it looked. `DownloadInv`
orders fetch, check and rename. `BarInv` says that setup touches the bar only while the
widget is installed for the first time, and that the layout it has read is the one that is
there but for what the user has changed since. `FormInv` ties `dirty` and `quit_armed` to
what was saved and pressed. `DoneIsReady` is the safety half of `SetupMakesReady`: while the
state is `Undisturbed`, all that is still missing for "ready to dictate" is that systemd's
next try comes and the server loads. `BootInv` says why a run that was interrupted and
repeated still ends there: a part the run is past has made its work (`Made`), and stays so
until a run loads another configuration, which has all its parts left again (`FullHasAll`).
An enabled unit needs the user manager, which only ever appears; a service that was started
never goes back to "off". A unit file cut short, and a unit that could not be enabled, are
the exceptions: the theorem does not claim them.

The runs check what the inductive invariants imply. The invariants were each checked
as an invariant of a run before their proof (`Session.IInv` with three recordings,
`WaitInv` with two peers and two clients that wait); no run of the project repeats them.

Only model-checked: all liveness (fairness and ENABLED are outside the prover:
`SilenceEndsRecording`, `NothingWaitsForever`, `FlashEnds`, `RestartsADeadServer`,
`BacksOff`, `StopEnds`, `DeliveryEnds`, `ShutdownEnds`, `ClipEnds`, `SetupMakesReady`,
`BarSettles`). Every invariant and every action property of the passing runs is proved.

## 6. Abstractions

*Session*: samples, text, window classes and messages are left out; a transcription is
failed, rejected or accepted. A silence, a cap or the end of a pipe may come at any
chunk. A flash's duration, the throttle interval and the restore delay are open.
Timestamps and RMS values are not modelled. A poisoned mutex (a panic in a thread) is
not modelled. Notifications are recorded, not displayed.

*Clips*: the characters are ASCII; a custom word with others is left out. Names are
compared without case by the code and are equal strings here. A snippet whose
replacement holds a shorter trigger is expanded again, as in the code; the reference
rewrites the same way, one trigger after the other. Its whole words are those of the code
(`pipeline.rs:231`): no letter or digit next to the phrase, so that a phrase that begins or
ends with a sign can stand next to a word's end. `date` never fails. A write of the
log succeeds whole or not at all, except that the daemon may be killed after it began;
disk full halfway through a line is not modelled. Log-probabilities are integers.

*Socket*: the 5 s timeout of a write, to a peer that sends but never reads its answers, is
left out (it shortens what such a peer can hold up). Nor does a command's own time count.

*Configure*: the screen's write of `config.toml.tmp` and its rename are one step (one screen
at a time: two would share that file), and so are setup's of `shell.json`. External builds
leave all or nothing. `Interrupt` is a signal, not a loss of power: the code does not sync a
download or a seed before it goes on, and after a power loss the file system may have kept
less than the models say. Nothing installed is ever removed. Of the steps that can be run
alone, those that only print (doctor, verify, keybinds) are left out; `setup whisper` and
`setup stt` build the engine they name. ydotoold counts as active once it is enabled and its
user may write to uinput: being in the group takes effect at the next login, until then it
is restarted in vain. The server listens whenever the daemon is up; that it may die later is
`Supervisor`'s. The history section and the settings that are plain lists like the shown ones
behave alike, and the instance shows two. Values chosen on the screen overwrite newer
values of the same settings edited outside, as the code means it; other edits are kept,
unless they are made in the instant between the screen's own read and rename. `dirty` stays
set when a choice is taken back, as in the code. The closing of the terminal also ends its
captures. A unit that is known is kept even if it is torn.

## 7. Plan

Done, in this order: `Session` with `Dictation`, `StatusFile` with `Bar`,
`Supervisor`, `Paste`, `Socket`; then `TranscriptLog`, `Words`, `Wire` and `Clips`, the
way of a clip; then `Machine`, `Setup`, `Settings` and `Configure`; each with its proofs.

What would come next:

1. The client's toggle, composed with an abstract session: two commands on two
   connections.
2. Proofs: what the vocabulary corrects, against a reference that looks at all windows at
   once.
3. `Session` with the parts of `Clips` in place of its one choice of a result.

## 8. Not modelled

The client's toggle (section 7) and command line. The parsing and the defaults of
`config.toml`, serialisation of states and records, the summary that statistics print,
the doctor's and verify's wording, drawing in the settings screen and the listing of
its sources: formats and wording, without state. The probing of `PATH`, libraries and
packages: its result is `host`, which `Setup` takes as given. Reading the signal (gain,
normalisation, RMS). MIME negotiation of clipboards and the choice among
injection tools. The engines themselves (external libraries). The install scripts. The
Quickshell pill follows the same rules as the bar and otherwise draws.
