------------------------------- MODULE MCClips -------------------------------
(* Instances of Clips: a custom word spoken apart, overlapping triggers, a     *)
(* correction inside a longer word, samples that look like the framing.       *)
EXTENDS Clips

CONSTANTS c1, c2, e1

EarlierRun == << e1 >>
MinusHundred == -100

\* Texts, character by character.
Pi == << "p", "i" >>
PushWord == << "p", "u", "s", "h" >>
Pass == << "p", "a", "s", "s" >>

MCVocabulary == << PushWord, << "C", "a", "r", "B" >> >>
MCCorrections == << [from |-> Pi, to |-> << "P", "I" >>] >>
MCSnippets == << [from |-> << "m", "y" >>, to |-> << "{{DATE}}" >>],
                 [from |-> << "m", "y", " ", "i", "d" >>, to |-> << "#", "{{CLIPBOARD}}" >>] >>
MCWorkflows == << [name |-> "tidy", prompt |-> "tidy up", apps |-> {"editor"}],
                  [name |-> "plain", prompt |-> "", apps |-> {"shell"}] >>
MCBlacklist == << << "t", "h", "a", "n", "k", "s" >> >>

Env == [date |-> << "9" >>, time |-> << "8" >>, clipboard |-> << "z" >>]
Ctx(workflow, class) == [workflow |-> workflow, class |-> class]
Known(n) == [nan |-> FALSE, val |-> n]
Segment(t, logprob, silence) ==
  [text |-> t, avg_logprob |-> Known(logprob), no_speech_prob |-> silence]

\* "My id, pi (car b pipe", all of it understood.
Sentence == << "M", "y", " ", "i", "d", ",", " ", "p", "i", " ", "(", "c", "a", "r", " ", "b", " ", "p", "i", "p", "e" >>
\* "pass my pi.", with one token of unknown probability, and a segment of silence.
Doubtful == << "p", "a", "s", "s", " ", "m", "y", " ", "p", "i", "." >>
Thanks == << "T", "h", "a", "n", "k", "s", "s" >>
Dashed == << "c", "a", "r", " ", "-", " ", "b" >>

Spoken1 ==
  {Speech(<< "s", Delim, Dashes, Crlf, Crlf, "s" >>,
          [text |-> Sentence, probs |-> << Known(-5), NaN >>],
          << Segment(Sentence, -5, 10) >>, Ctx("", "editor"), Env),
   Speech(<< Delim >>,
          [text |-> <<Blank>> \o Doubtful, probs |-> << Known(3), Known(-30) >>],
          << Segment(Pass, -10, 5), Segment(Doubtful, -20, 90) >>, Ctx("plain", "editor"), Env)}
Spoken2 == {Speech(<< Riff >>, [text |-> Pi, probs |-> <<>>], << Segment(Thanks, -1, 5) >>,
                   Ctx("tidy", "shell"), Env)}
MCSpoken == [c \in Clips |-> IF c = c1 THEN Spoken1 ELSE Spoken2]

SpokenPlain == [c \in Clips |-> Spoken2]

\* "car - b": a blank, a dash, a blank.
SpokenDashed == [c \in Clips |-> {Speech(<< "s" >>, [text |-> Dashed, probs |-> <<>>],
                                         << Segment(Dashed, 0, 0) >>, Ctx("", ""), Env)}]
=============================================================================
