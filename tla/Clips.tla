-------------------------------- MODULE Clips --------------------------------
(***************************************************************************)
(* A recorded clip on its way to the keyboard (App::process, app.rs): the  *)
(* request to the STT server, the server's own loop                        *)
(* (crates/stt/src/main.rs), the filter, the transcript log, and the text  *)
(* pipeline with its AI workflow.  Each clip has a thread; the server      *)
(* takes one request at a time; one clip at a time is delivered.           *)
(*                                                                         *)
(* Which clip a user may cancel, and what is published, is in Session; how *)
(* a text is typed, in Paste; how the server is restarted, in Supervisor.  *)
(***************************************************************************)
EXTENDS TranscriptLog, Words, Wire

CONSTANTS
  Engines,         \* the values of stt.engine to start with
  Spoken,          \* [Clips -> set of what may be said]: see Speech
  Language,        \* stt.language
  NoSpeechMax,     \* filter.no_speech_prob_max, in hundredths
  LogprobMin,      \* filter.avg_logprob_min, in hundredths
  None             \* no clip

ASSUME NoneAssumption == None \notin Clips
ASSUME LimitsAssumption == NoSpeechMax \in Int /\ LogprobMin \in Int
\* The boundary is fixed, and nobody looks for it in the samples: a clip is taken not to
\* hold a line end followed by all of it. What else looks like the framing may be there.
ASSUME SpokenAssumption ==
  \A c \in Clips : \A s \in Spoken[c] :
    /\ s.samples \in Seq(STRING)
    /\ \A i \in 1 .. Len(s.samples) - 1 : ~(s.samples[i] = Crlf /\ s.samples[i + 1] = Delim)
    /\ s.parakeet.text \in Seq(STRING)
    /\ s.env \in [date : Seq(STRING), time : Seq(STRING), clipboard : Seq(STRING)]
    /\ s.whisper \in Seq([text : Seq(STRING), no_speech_prob : Int,
                          avg_logprob : [nan : BOOLEAN, val : Int]])

\* A clip: its samples, what each engine makes of it, and what applies at its delivery.
Speech(samples, parakeet, whisper, ctx, env) ==
  [samples |-> samples, parakeet |-> parakeet, whisper |-> whisper, ctx |-> ctx, env |-> env]

VARIABLES
  engine,          \* stt.engine, resolved when the daemon starts
  said,            \* what each clip holds
  phase,           \* how far the thread of each clip is
  listening,       \* the server accepts connections
  queue,           \* the requests it has not taken up, oldest first
  running,         \* the clip its engine is at, or None
  heard,           \* history: what the engine was run on for each clip
  answer,          \* what the server has answered each client
  text,            \* the transcript of each clip, as the thread holds it
  decision,        \* what the filter says of it
  injecting,       \* the clip whose thread holds inject_lock, or None
  typed            \* history: whose text was handed to the injector, of each clip

serverVars == << listening, queue, running, heard, answer >>
clipVars == << engine, said, phase, text, decision, injecting, typed >>
vars == << logVars, serverVars, clipVars >>

Working == {"recorded", "waiting", "received", "logging", "accepted", "workflow"}
Over == {"typed", "low_confidence", "empty", "hallucination", "stt_error", "lost"}
Reasons == {"accepted", "low_confidence", "empty", "hallucination"}

NoAnswer == [status |-> 0]
Unheard == [file |-> <<>>, hint |-> "none"]
Untyped == "not typed"

\* The request names the vocabulary to whisper only; Parakeet takes no prompt.
Prompt == IF engine = "whisper" /\ Vocabulary # <<>> THEN "vocabulary" ELSE ""
BodyOf(c) == BuildMultipart(Language, Prompt, EncodeWav(said[c].samples))

Init ==
  /\ LogInit
  /\ engine \in Engines
  /\ said \in {s \in [Clips -> UNION {Spoken[c] : c \in Clips}] : \A c \in Clips : s[c] \in Spoken[c]}
  /\ phase = [c \in Clips |-> IF append[c] = "logged" THEN "typed" ELSE "recorded"]
  /\ listening = TRUE /\ queue = <<>> /\ running = None
  /\ heard = [c \in Clips |-> Unheard]
  /\ answer = [c \in Clips |-> NoAnswer]
  /\ text = [c \in Clips |-> <<>>]
  /\ decision = [c \in Clips |-> "none"]
  /\ injecting = None
  /\ typed = [c \in Clips |-> Untyped]

Advance(c, p) == phase' = [phase EXCEPT ![c] = p]

-----------------------------------------------------------------------------
\* SttClient::transcribe sends its request; without a listener it is refused.
Request(c) ==
  /\ phase[c] = "recorded"
  /\ IF listening THEN Advance(c, "waiting") /\ queue' = Append(queue, c)
                  ELSE Advance(c, "stt_error") /\ UNCHANGED queue
  /\ UNCHANGED << logVars, listening, running, heard, answer, engine, said, text, decision, injecting, typed >>

Reply(c, response) == answer' = [answer EXCEPT ![c] = [status |-> 200, response |-> response]]
Refuse(c, status) == answer' = [answer EXCEPT ![c] = [status |-> status]]

\* serve takes up the oldest request: bad framing or a bad clip is answered at once,
\* anything else goes to the engine. Whether the client still waits it cannot tell.
Serve ==
  /\ listening /\ running = None /\ queue # <<>>
  /\ queue' = Tail(queue)
  /\ LET c == Head(queue)
         body == Take(BodyOf(c))
     IN IF HasForm(body) /\ IsWav(FormFile(body))
        THEN /\ running' = c /\ UNCHANGED answer
             /\ heard' = [heard EXCEPT ![c] =
                            [file |-> FormFile(body), hint |-> Hint(FormLanguage(body, Language))]]
        ELSE Refuse(c, 400) /\ UNCHANGED << running, heard >>
  /\ UNCHANGED << logVars, listening, clipVars >>

WhisperText(segments) ==
  FlattenSeq([i \in 1 .. Len(segments) |-> segments[i].text \o << Blank >>])

\* What whisper-server makes of a clip, by the contract: its segments.
WhisperReply(segments) ==
  [text |-> WhisperText(segments), segments |-> segments]

\* The engine is done with the clip, or fails.
Finish ==
  /\ running # None /\ running' = None
  /\ \/ Reply(running, IF engine = "parakeet"
                       THEN VerboseJson(said[running].parakeet.text, said[running].parakeet.probs)
                       ELSE WhisperReply(said[running].whisper))
     \/ Refuse(running, 500)
  /\ UNCHANGED << logVars, listening, queue, heard, clipVars >>

\* The server dies with the requests it had; their clients see the connection close.
ServerDies ==
  /\ listening /\ listening' = FALSE
  /\ queue' = <<>> /\ running' = None
  /\ answer' = [c \in Clips |-> IF (running = c \/ c \in ToSet(queue)) /\ phase[c] = "waiting"
                                THEN [status |-> 500] ELSE answer[c]]
  /\ UNCHANGED << logVars, heard, clipVars >>

\* The supervisor has started another one.
ServerListens ==
  /\ ~listening /\ listening' = TRUE
  /\ UNCHANGED << logVars, queue, running, heard, answer, clipVars >>

-----------------------------------------------------------------------------
\* Mutant: the request has no time limit.
TimeoutNever(c) == FALSE /\ UNCHANGED vars

\* timeout_secs are over: a transport error. The server goes on with the request.
Timeout(c) ==
  /\ phase[c] = "waiting" /\ Advance(c, "stt_error")
  /\ UNCHANGED << logVars, serverVars, engine, said, text, decision, injecting, typed >>

\* evaluate: what becomes of a transcript.
Evaluate(transcript, segments) ==
  IF NoSpeech(segments) > NoSpeechMax \/ Confidence(segments) < LogprobMin
  THEN "low_confidence"
  ELSE IF ~HasContent(transcript) THEN "empty"
  ELSE IF IsHallucination(transcript) THEN "hallucination" ELSE "accepted"

\* The answer is read and judged, and the record for the log is made.
Receive(c) ==
  /\ phase[c] = "waiting" /\ answer[c] # NoAnswer
  /\ IF answer[c].status = 200 /\ Parses(answer[c].response)
     THEN /\ Advance(c, "received")
          /\ text' = [text EXCEPT ![c] = NormalizeWhitespace(answer[c].response.text)]
          /\ decision' = [decision EXCEPT ![c] = Evaluate(text'[c], answer[c].response.segments)]
     ELSE Advance(c, "stt_error") /\ UNCHANGED << text, decision >>
  /\ UNCHANGED << logVars, serverVars, engine, said, injecting, typed >>

LogRecord(c) ==
  /\ phase[c] = "received" /\ Advance(c, "logging")
  /\ AppendBegin(c)
  /\ UNCHANGED << serverVars, engine, said, text, decision, injecting, typed >>

LogStep(c) == AppendStep(c) /\ UNCHANGED << serverVars, clipVars >>

\* Whatever became of the record, the clip goes its way.
Decide(c) ==
  /\ phase[c] = "logging" /\ append[c] \in {"logged", "failed"}
  /\ Advance(c, decision[c])
  /\ UNCHANGED << logVars, serverVars, engine, said, text, decision, injecting, typed >>

-----------------------------------------------------------------------------
\* deliver takes inject_lock; TextPipeline::process begins.
Deliver(c) ==
  /\ phase[c] = "accepted" /\ injecting = None
  /\ injecting' = c /\ Advance(c, "workflow")
  /\ UNCHANGED << logVars, serverVars, engine, said, text, decision, typed >>

Chosen(c) == PickWorkflow(said[c].ctx.workflow, said[c].ctx.class)
Applies(c) == Chosen(c) # 0 /\ Workflows[Chosen(c)].prompt # ""

\* llm::transform: the workflow's answer is typed. No model, an error, its timeout or an
\* empty answer leave the text as the snippets made it.
Inject(c) ==
  /\ phase[c] = "workflow"
  /\ \E by \in {"rules"} \cup (IF Applies(c) THEN {"workflow"} ELSE {}) :
       typed' = [typed EXCEPT ![c] = by]
  /\ injecting' = None /\ Advance(c, "typed")
  /\ UNCHANGED << logVars, serverVars, engine, said, text, decision >>

\* The text handed to the injector when the rules settle it: vocabulary (Parakeet only),
\* corrections, snippets, in this order.
Prepared(c) ==
  ExpandSnippets(
    ApplyCorrections(IF engine = "parakeet" THEN CorrectVocabulary(text[c]) ELSE text[c]),
    said[c].env)

\* The daemon is killed with all its threads.
DaemonKilled ==
  /\ \E c \in Clips : phase[c] \in Working \ {"recorded"}
  /\ phase' = [c \in Clips |-> IF phase[c] \in Working THEN "lost" ELSE phase[c]]
  /\ injecting' = None
  /\ IF \E c \in Clips : append[c] \in Running THEN Killed ELSE UNCHANGED logVars
  /\ UNCHANGED << serverVars, engine, said, text, decision, typed >>

ClipStep(c) ==
  \/ Request(c) \/ Timeout(c) \/ LogRecord(c) \/ LogStep(c) \/ Decide(c)
  \/ Deliver(c) \/ Inject(c)

Next ==
  \/ \E c \in Clips : Receive(c) \/ ClipStep(c)
  \/ Serve \/ Finish \/ ServerDies \/ ServerListens
  \/ DaemonKilled
  \/ Read /\ UNCHANGED << serverVars, clipVars >>

Spec == Init /\ [][Next]_vars

\* Threads run, and both HTTP clients have a global timeout; nothing is assumed of the
\* server, not even that an answer is ever received.
FairSpec == Spec /\ \A c \in Clips : WF_vars(ClipStep(c))

-----------------------------------------------------------------------------
\* The engine gets exactly the samples that were recorded, whatever they look like,
\* with the language of the configuration (build_multipart and inference_form).
EngineHearsClip ==
  \A c \in Clips : heard[c] # Unheard =>
    /\ Tail(heard[c].file) = said[c].samples
    /\ heard[c].hint = (IF Language = "auto" THEN "" ELSE Language)

\* What the server has answered well never fails in the daemon: a transcript whose
\* token probabilities are not all known included (reply.rs:46-62).
EveryAnswerRead ==
  \A c \in Clips : answer[c] # NoAnswer /\ answer[c].status = 200 =>
    Parses(answer[c].response)

\* Nothing is typed that holds a segment more likely silence than the limit, no word,
\* or a known hallucination (filter.rs:93-142).
NothingDoubtfulTyped ==
  \A c \in Clips : typed[c] # Untyped =>
    LET r == answer[c].response
    IN /\ \A i \in 1 .. Len(r.segments) : r.segments[i].no_speech_prob <= NoSpeechMax
       /\ \E i \in 1 .. Len(r.text) : IsAlphanumeric(r.text[i])
       /\ Each(Fold, NormalizeWhitespace(r.text)) \notin ToSet(Blacklist)

\* A clip's thread always comes to an end, whatever the server does.
ClipEnds == \A c \in Clips : phase[c] = "recorded" ~> phase[c] \in Over

-----------------------------------------------------------------------------
\* What is typed is the transcript with every correction made, then every snippet
\* expanded, longer triggers first, each at whole words only and at each of them; a
\* workflow's answer only if it was asked for, or, with none asked for, if the window
\* is one of its apps (pipeline.rs:76-78, 110-113, 158-159, 185, 231).
TypedByTheRules ==
  \A c \in Clips : typed[c] # Untyped =>
    LET transcript == NormalizeWhitespace(answer[c].response.text)
        words == IF engine = "parakeet" THEN CorrectVocabulary(transcript) ELSE transcript
        corrected == FoldLeft(Rewritten, words, Corrections)
        expand(s, e) == Rewritten(s, [e EXCEPT !.to = Resolve(@, said[c].env)])
        ctx == said[c].ctx
        w == Workflows[Chosen(c)]
    IN IF typed[c] = "rules"
       THEN \E order \in LongestFirst : Prepared(c) = FoldLeft(expand, corrected, order)
       ELSE IF ctx.workflow # "" THEN w.name = ctx.workflow ELSE ctx.class \in w.apps

\* What the code says of the vocabulary: a match keeps its surrounding punctuation, and
\* nothing is merged across punctuation (vocab.rs:7-8, 51).
Punctuation(s) == SelectSeq(s, LAMBDA x : ~IsAlphanumeric(x) /\ x # Blank)
PunctuationKept ==
  \A c \in Clips : phase[c] = "accepted" /\ engine = "parakeet" =>
    Punctuation(CorrectVocabulary(text[c])) = Punctuation(text[c])
=============================================================================
