--------------------------------- MODULE Wire ---------------------------------
(***************************************************************************)
(* The /inference contract between the daemon and its STT server: the      *)
(* multipart body (crates/common/src/inference.rs) and its parser          *)
(* (crates/stt/src/multipart.rs), the reply (crates/stt/src/reply.rs) and  *)
(* what the daemon makes of it (crates/daemon/src/stt.rs).                 *)
(*                                                                         *)
(* A body is a sequence of pieces: the delimiter, line ends, dashes,       *)
(* header lines, values, samples.  A sample may look like any of them but  *)
(* for a line end followed by the delimiter.  Logarithms of probabilities  *)
(* are integers, in hundredths.                                            *)
(***************************************************************************)
EXTENDS Integers, Sequences, SequencesExt

CONSTANT MaxBody   \* MAX_BODY_BYTES, in pieces

ASSUME MaxBodyAssumption == MaxBody \in Nat

Delim == "--boundary"
Crlf == "CRLF"
Dashes == "--"
Riff == "RIFF"
Space == " "

-----------------------------------------------------------------------------
\* build_multipart: text fields, the prompt only if there is one, then the clip.
TextField(name, value) == << Delim, Crlf, name, Crlf, Crlf, value, Crlf >>

BuildMultipart(language, prompt, wav) ==
  TextField("response_format", "verbose_json") \o TextField("language", language)
    \o TextField("temperature", "0.0")
    \o (IF prompt = "" THEN <<>> ELSE TextField("prompt", prompt))
    \o << Delim, Crlf, "file", Crlf, "Content-Type", Crlf, Crlf >> \o wav
    \o << Crlf, Delim, Dashes, Crlf >>

EncodeWav(samples) == << Riff >> \o samples

\* The body as far as the server reads it.
Take(body) == SubSeq(body, 1, IF Len(body) < MaxBody THEN Len(body) ELSE MaxBody)

\* find, from position i on: where the needle is, 0 if nowhere.
FindFrom(body, i, needle) ==
  LET at == {j \in i .. Len(body) - Len(needle) + 1 :
               SubSeq(body, j, j + Len(needle) - 1) = needle}
  IN IF at = {} THEN 0 ELSE CHOOSE j \in at : \A k \in at : j <= k

\* Mutant: the line end before the delimiter is left in the data.
DataEndsAtDelim == << Delim >>

\* The data of a part ends before this.
DataEnd == << Crlf, Delim >>

Malformed == << [name |-> "malformed", data |-> <<>>] >>

\* parse: the parts of a body; a last one named "malformed" if the framing is bad.
Parts(body) ==
  LET start == FindFrom(body, 1, << Delim >>)
      parts[i \in 1 .. Len(body) + 1] ==         \* i: behind a delimiter
        LET headersEnd == FindFrom(body, i + 1, << Crlf, Crlf >>)
            dataEnd == FindFrom(body, headersEnd + 2, DataEnd)
        IN IF i <= Len(body) /\ body[i] = Dashes THEN <<>>
           ELSE IF i > Len(body) \/ body[i] # Crlf \/ headersEnd = 0 \/ dataEnd = 0
                THEN Malformed
           ELSE << [name |-> body[i + 1],
                    data |-> SubSeq(body, headersEnd + 2, dataEnd - 1)] >>
                  \o parts[dataEnd + Len(DataEnd)]
  IN IF start = 0 THEN Malformed ELSE parts[start + 1]

\* inference_form: the first part of a name counts; without a file there is no form.
FirstOf(parts, name) == SelectInSeq(parts, LAMBDA p : p.name = name)

HasForm(body) ==
  FirstOf(Parts(body), "malformed") = 0 /\ FirstOf(Parts(body), "file") # 0

FormFile(body) == LET p == Parts(body) IN p[FirstOf(p, "file")].data

\* The server's own language stands in for a field that is absent.
FormLanguage(body, default) ==
  LET p == Parts(body)
      n == FirstOf(p, "language")
  IN IF n = 0 THEN default ELSE IF p[n].data = <<>> THEN "" ELSE p[n].data[1]

\* language_hint: "auto" is none.
Hint(language) == IF language = "auto" THEN "" ELSE language

IsWav(file) == file # <<>> /\ file[1] = Riff

-----------------------------------------------------------------------------
\* A number of a reply, or what is not a number: JSON has none, it becomes null.
Number(n) == [nan |-> FALSE, val |-> n]
NaN == [nan |-> TRUE, val |-> 0]

SumOf(s) == FoldLeft(LAMBDA m, n : m + n, 0, s)
Mean(s) == IF s = <<>> THEN 0 ELSE SumOf(s) \div Len(s)

\* Mutant: every token counts, known or not.
AvgLogprobOfAll(probs) ==
  IF \E i \in 1 .. Len(probs) : probs[i].nan THEN NaN
  ELSE Number(Mean([i \in 1 .. Len(probs) |-> probs[i].val]))

\* avg_logprob: the mean over the tokens whose probability is known, none above 1.
AvgLogprob(probs) ==
  LET known == SelectSeq(probs, LAMBDA p : ~p.nan)
  IN Number(Mean([i \in 1 .. Len(known) |-> IF known[i].val > 0 THEN 0 ELSE known[i].val]))

\* str::trim: without the blanks at both ends.
Trim(text) ==
  LET loud == {i \in 1 .. Len(text) : text[i] # Space}
  IN IF loud = {} THEN <<>> ELSE SubSeq(text, Min(loud), Max(loud))

\* verbose_json of whispy-stt: one segment, or none for a silent clip.
VerboseJson(text, probs) ==
  [text |-> Trim(text),
   segments |-> IF Trim(text) = <<>> THEN <<>>
                ELSE << [avg_logprob |-> AvgLogprob(probs), no_speech_prob |-> 0] >>]

\* The daemon's parser takes a missing number for 0, but no null.
Parses(response) ==
  \A i \in 1 .. Len(response.segments) : ~response.segments[i].avg_logprob.nan

\* Mutant: the least silent segment counts.
NoSpeechLeast(segments) ==
  FoldLeft(LAMBDA m, s : IF s.no_speech_prob < m THEN s.no_speech_prob ELSE m, 100, segments)

\* aggregate: the most silent segment, and the mean confidence of all; both 0 without
\* segments.
NoSpeech(segments) ==
  FoldLeft(LAMBDA m, s : IF s.no_speech_prob > m THEN s.no_speech_prob ELSE m, 0, segments)

Confidence(segments) == Mean([i \in 1 .. Len(segments) |-> segments[i].avg_logprob.val])
=============================================================================
