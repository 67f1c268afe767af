-------------------------------- MODULE Words --------------------------------
(***************************************************************************)
(* What is done to the words of a transcript (crates/daemon/src/):         *)
(* filter.rs drops what was not said, vocab.rs corrects custom words,      *)
(* pipeline.rs applies corrections, expands snippets and picks the         *)
(* workflow.  A text is a sequence of characters; a placeholder of a       *)
(* snippet counts as one.                                                  *)
(***************************************************************************)
EXTENDS Integers, Sequences, FiniteSets, SequencesExt

CONSTANTS
  Vocabulary,      \* dictionary.vocabulary
  Corrections,     \* dictionary.corrections in key order: records [from, to]
  Snippets,        \* snippets.entries in key order: records [from, to]
  Workflows,       \* [[workflow]] in file order: records [name, prompt, apps]
  Blacklist,       \* the hallucination phrases, normalized
  FuzzyRatio       \* filter.fuzzy_ratio, in percent

\* What a TOML file can say; corrections and snippets are maps (BTreeMap), so no two have
\* the same key.
ASSUME VocabularyAssumption == Vocabulary \in Seq(Seq(STRING))
ASSUME CorrectionsAssumption == Corrections \in Seq([from : Seq(STRING), to : Seq(STRING)])
ASSUME SnippetsAssumption ==
  /\ Snippets \in Seq([from : Seq(STRING), to : Seq(STRING)])
  /\ \A i, j \in 1 .. Len(Snippets) : Snippets[i].from = Snippets[j].from => i = j
ASSUME BlacklistAssumption == Blacklist \in Seq(Seq(STRING))
ASSUME WorkflowsAssumption ==
  Workflows \in Seq([name : STRING, prompt : STRING, apps : SUBSET STRING])

-----------------------------------------------------------------------------
Small == << "a","b","c","d","e","f","g","h","i","j","k","l","m",
            "n","o","p","q","r","s","t","u","v","w","x","y","z" >>
Capital == << "A","B","C","D","E","F","G","H","I","J","K","L","M",
              "N","O","P","Q","R","S","T","U","V","W","X","Y","Z" >>
Digits == {"0", "1", "2", "3", "4", "5", "6", "7", "8", "9"}
Blank == " "

Lower == [c \in ToSet(Capital) |-> Small[CHOOSE i \in 1 .. 26 : Capital[i] = c]]
Upper == [c \in ToSet(Small) |-> Capital[CHOOSE i \in 1 .. 26 : Small[i] = c]]
IsLetter(c) == c \in DOMAIN Upper \cup DOMAIN Lower
IsAlphanumeric(c) == IsLetter(c) \/ c \in Digits
Fold(c) == IF c \in DOMAIN Lower THEN Lower[c] ELSE c
Raise(c) == IF c \in DOMAIN Upper THEN Upper[c] ELSE c
Each(Op(_), s) == [i \in DOMAIN s |-> Op(s[i])]

\* The first and the last of some places, and the n-th.
First(S) == CHOOSE i \in S : \A j \in S : i <= j
Final(S) == CHOOSE i \in S : \A j \in S : j <= i
Nth(S, n) == CHOOSE i \in S : Cardinality({j \in S : j <= i}) = n

\* split_whitespace: the runs of characters that are not blank, in order.
Begins(text) == {i \in 1 .. Len(text) : text[i] # Blank /\ (i = 1 \/ text[i - 1] = Blank)}
RunAt(text, i) ==
  SubSeq(text, i, Final({j \in i .. Len(text) : \A k \in i .. j : text[k] # Blank}))
Tokens(text) == [n \in 1 .. Cardinality(Begins(text)) |-> RunAt(text, Nth(Begins(text), n))]

\* Joining with single blanks folds every run of blanks into one (normalize_whitespace).
Join(tokens) ==
  FlattenSeq([n \in 1 .. Len(tokens) |->
                IF n = 1 THEN tokens[n] ELSE <<Blank>> \o tokens[n]])

NormalizeWhitespace(text) == Join(Tokens(text))

-----------------------------------------------------------------------------
\* Edit distance (strsim), row by row: place j of a row is for the first j - 1
\* characters of b.
NextRow(above, c, b) ==
  LET least(x, y) == IF x < y THEN x ELSE y
      row[cells \in Seq(Nat)] ==
        LET j == Len(cells)
        IN IF j > Len(b) THEN cells
           ELSE row[Append(cells, least(least(above[j + 1], cells[j]) + 1,
                                        above[j] + (IF c = b[j] THEN 0 ELSE 1)))]
  IN row[<< above[1] + 1 >>]

Levenshtein[a \in Seq(STRING), b \in Seq(STRING)] ==
  LET distance[i \in Nat, row \in Seq(Nat)] ==
        IF i > Len(a) THEN row[Len(b) + 1] ELSE distance[i + 1, NextRow(row, a[i], b)]
  IN distance[1, [j \in 1 .. Len(b) + 1 |-> j - 1]]

Longer(a, b) == IF Len(a) > Len(b) THEN Len(a) ELSE Len(b)

-----------------------------------------------------------------------------
\* filter.rs: a phrase of the blacklist, or nearly one.
IsHallucination(text) ==
  LET candidate == Each(Fold, text)
      near(phrase) ==
        LET n == Longer(candidate, phrase)
        IN 100 * (n - Levenshtein[candidate, phrase]) >= FuzzyRatio * n
  IN \E p \in 1 .. Len(Blacklist) : candidate = Blacklist[p] \/ near(Blacklist[p])

HasContent(text) == \E i \in 1 .. Len(text) : IsAlphanumeric(text[i])

-----------------------------------------------------------------------------
\* vocab.rs
MatchKey(word) == Each(Fold, SelectSeq(word, IsAlphanumeric))

\* American Soundex of a word of letters, as far as four places.
SoundexDigit(c) ==
  CASE c \in {"b", "f", "p", "v"} -> 1
    [] c \in {"c", "g", "j", "k", "q", "s", "x", "z"} -> 2
    [] c \in {"d", "t"} -> 3
    [] c = "l" -> 4
    [] c \in {"m", "n"} -> 5
    [] c = "r" -> 6
    [] OTHER -> 0

\* Equal digits in a row count once; h and w do not part them, vowels do.
Soundex(key) ==
  LET code[i \in Nat, digits \in Seq(Nat), last \in Nat] ==
        LET d == SoundexDigit(key[i])
        IN IF i > Len(key) \/ Len(digits) = 3 THEN digits
           ELSE code[i + 1,
                     IF d # 0 /\ d # last THEN Append(digits, d) ELSE digits,
                     IF key[i] \in {"h", "w"} THEN last ELSE d]
  IN << key[1], code[2, <<>>, SoundexDigit(key[1])] >>

SoundAlike(a, b) ==
  /\ \A c \in ToSet(a) \cup ToSet(b) : IsLetter(c)
  /\ Soundex(a) = Soundex(b)

\* acceptable: at most 45% of the letters of a word that sounds alike, about one
\* letter in eight of another.
Acceptable(candidate, key) ==
  LET edits == Levenshtein[candidate, key]
  IN IF SoundAlike(candidate, key) THEN 100 * edits <= 45 * Len(key)
                                   ELSE 8 * edits < Longer(candidate, key)

\* At most a quarter longer or shorter, or two letters.
LengthsFit(candidate, key) ==
  LET n == Longer(candidate, key)
      d == n - (Len(candidate) + Len(key) - n)
  IN 4 * d <= n \/ d <= 2

\* keys_for: the key of each custom word, and one with "and" for an ampersand.
AllKeys ==
  LET spelled(w) == [i \in DOMAIN w |-> IF w[i] = "&" THEN << "a", "n", "d" >> ELSE << w[i] >>]
      keys(n) == LET w == Vocabulary[n]
                     plain == MatchKey(w)
                     and == MatchKey(FlattenSeq(spelled(w)))
                 IN (IF plain # <<>> THEN << [word |-> n, key |-> plain] >> ELSE <<>>)
                      \o (IF and # plain THEN << [word |-> n, key |-> and] >> ELSE <<>>)
  IN FlattenSeq([n \in 1 .. Len(Vocabulary) |-> keys(n)])

\* A match, with its score as a fraction. A match must be under the threshold, 0.18;
\* sounding alike makes its score 0.3 of the distance.
Matches == [size : Nat, word : Nat, num : Nat, den : Nat]
NoMatch == [size |-> 0, word |-> 0, num |-> 18, den |-> 100]
Closer(best, x) == IF x.num * best.den < best.num * x.den THEN x ELSE best

\* best_match, for one key: what it has to offer for a window of some size.
Offer(candidate, entry, size) ==
  LET key == entry.key
  IN IF Len(candidate) \in 1 .. 50 /\ LengthsFit(candidate, key) /\ Acceptable(candidate, key)
     THEN [size |-> size, word |-> entry.word,
           num |-> Levenshtein[candidate, key] * (IF SoundAlike(candidate, key) THEN 3 ELSE 10),
           den |-> 10 * Longer(candidate, key)]
     ELSE NoMatch

\* split_punctuation: what stands before and after the alphanumerics of a token. A
\* token without any is all prefix.
Inner(token) == {i \in 1 .. Len(token) : IsAlphanumeric(token[i])}
Prefix(token) ==
  IF Inner(token) = {} THEN token ELSE SubSeq(token, 1, First(Inner(token)) - 1)
Suffix(token) ==
  IF Inner(token) = {} THEN <<>> ELSE SubSeq(token, Final(Inner(token)) + 1, Len(token))

\* keep_case: all capitals, or a capital first letter, as the token had it.
KeepCase(token, word) ==
  LET letters == SelectSeq(token, IsLetter)
  IN IF letters # <<>> /\ Len(token) > 1 /\ \A i \in 1 .. Len(letters) : letters[i] \in DOMAIN Lower
     THEN Each(Raise, word)
     ELSE IF token[1] \in DOMAIN Lower THEN [word EXCEPT ![1] = Raise(@)]
     ELSE word

\* The window of n tokens that begins at i has no punctuation before its last token.
WindowAt(tokens, i, n) ==
  /\ i + n - 1 <= Len(tokens)
  /\ \A k \in i .. i + n - 2 : Suffix(tokens[k]) = <<>>

Candidate(tokens, i, n) == FlattenSeq([k \in 1 .. n |-> MatchKey(tokens[i + k - 1])])

\* The closest match of the windows at i, the longest first: of equals the longer
\* window's, and the earlier word's.
Best(tokens, i) ==
  LET offered(found, n) ==
        IF ~WindowAt(tokens, i, n) THEN found
        ELSE FoldLeft(LAMBDA best, entry : Closer(best, Offer(Candidate(tokens, i, n), entry, n)),
                      found, AllKeys)
  IN offered(offered(offered(NoMatch, 3), 2), 1)

Replacement(tokens, i, choice) ==
  Prefix(tokens[i]) \o KeepCase(tokens[i], Vocabulary[choice.word])
                    \o Suffix(tokens[i + choice.size - 1])

\* apply: from left to right, the best choice at each token, or the token itself.
Corrected(tokens) ==
  LET from[i \in 1 .. Len(tokens) + 1] ==
        LET best == Best(tokens, i)
        IN IF i > Len(tokens) THEN <<>>
           ELSE IF best.size = 0 THEN << tokens[i] >> \o from[i + 1]
           ELSE << Replacement(tokens, i, best) >> \o from[i + best.size]
  IN from[1]

CorrectVocabulary(text) ==
  IF Vocabulary = <<>> THEN text ELSE Join(Corrected(Tokens(text)))

-----------------------------------------------------------------------------
\* pipeline.rs: does the phrase stand at position i, for itself?
MatchesAt(text, i, phrase) ==
  /\ i + Len(phrase) - 1 <= Len(text)
  /\ \A k \in 1 .. Len(phrase) : Fold(text[i + k - 1]) = Fold(phrase[k])

\* Mutant: only the character before the phrase is looked at.
BoundaryOkBefore(text, i, n) == i = 1 \/ ~IsAlphanumeric(text[i - 1])

BoundaryOk(text, i, n) ==
  /\ i = 1 \/ ~IsAlphanumeric(text[i - 1])
  /\ i + n > Len(text) \/ ~IsAlphanumeric(text[i + n])

PhraseAt(text, i, phrase) == MatchesAt(text, i, phrase) /\ BoundaryOk(text, i, Len(phrase))

ContainsPhrase(text, phrase) ==
  phrase # <<>> /\ \E i \in 1 .. Len(text) : PhraseAt(text, i, phrase)

\* replace_phrase_ci: from left to right, going on behind each occurrence.
ReplacePhrase(text, from, to) ==
  LET next(i) == {j \in i .. Len(text) : PhraseAt(text, j, from)}
      out[i \in 1 .. Len(text) + 1] ==
        IF next(i) = {} THEN SubSeq(text, i, Len(text))
        ELSE LET j == First(next(i))
             IN SubSeq(text, i, j - 1) \o to \o out[j + Len(from)]
  IN IF from = <<>> THEN text ELSE out[1]

ApplyCorrections(text) ==
  FoldLeft(LAMBDA t, r : ReplacePhrase(t, r.from, r.to), text, Corrections)

\* resolve_placeholders: dates and times first, so that what the clipboard holds is
\* not looked at again.
Substitute(text, placeholder, value) ==
  FlattenSeq([i \in 1 .. Len(text) |-> IF text[i] = placeholder THEN value ELSE << text[i] >>])

Resolve(text, env) ==
  Substitute(Substitute(Substitute(text, "{{DATE}}", env.date), "{{TIME}}", env.time),
             "{{CLIPBOARD}}", env.clipboard)

\* TextPipeline::new: longest trigger first, in key order within a length; Rank is the
\* place of the i-th snippet in that order.
Before(i, j) ==
  LET li == Len(Snippets[i].from)
      lj == Len(Snippets[j].from)
  IN li > lj \/ (li = lj /\ i <= j)

Rank(i) == Cardinality({j \in 1 .. Len(Snippets) : Before(j, i)})

SortedSnippets ==
  [n \in 1 .. Len(Snippets) |-> Snippets[CHOOSE i \in 1 .. Len(Snippets) : Rank(i) = n]]

\* expand_snippets, for one snippet.
Expand(text, s, env) ==
  IF ContainsPhrase(text, s.from) THEN ReplacePhrase(text, s.from, Resolve(s.to, env)) ELSE text

ExpandSnippets(text, env) == FoldLeft(LAMBDA t, s : Expand(t, s, env), text, SortedSnippets)

\* pick_workflow: a requested one by name, and no other; else by the window's class.
\* The position in the configuration, 0 for none.
PickWorkflow(requested, class) ==
  LET fits(w) == IF requested # "" THEN w.name = requested
                 ELSE class # "" /\ class \in w.apps
  IN SelectInSeq(Workflows, fits)

-----------------------------------------------------------------------------
\* A reference for the rules, by positions. A phrase stands at i if it is there, but for
\* case, and no letter or digit is next to it: a match is "whole word" if the chars
\* immediately before and after are not alphanumeric (pipeline.rs:231).
Stands(s, i, phrase) ==
  LET j == i + Len(phrase) - 1
  IN /\ phrase # <<>> /\ j <= Len(s)
     /\ Each(Fold, SubSeq(s, i, j)) = Each(Fold, phrase)
     /\ \A k \in {i - 1, j + 1} \cap (1 .. Len(s)) : ~IsAlphanumeric(s[k])

\* The occurrences replaced: none overlaps another, and one that is not replaced
\* overlaps one that begins before it.
Replaced(s, phrase) ==
  LET at == {i \in 1 .. Len(s) : Stands(s, i, phrase)}
      apart(i, j) == i + Len(phrase) <= j
  IN CHOOSE S \in SUBSET at :
       /\ \A i, j \in S : i < j => apart(i, j)
       /\ \A j \in at \ S : \E i \in S : i < j /\ ~apart(i, j)

Rewritten(s, r) ==
  LET at == Replaced(s, r.from)
      inside(k) == \E i \in at : k \in i .. i + Len(r.from) - 1
  IN FlattenSeq([k \in 1 .. Len(s) |-> IF k \in at THEN r.to
                                       ELSE IF inside(k) THEN <<>> ELSE << s[k] >>])

\* The snippets in any order in which no trigger comes before a longer one.
LongestFirst == {o \in SetToSeqs(ToSet(Snippets)) :
                   \A i, j \in 1 .. Len(o) : i < j => Len(o[i].from) >= Len(o[j].from)}
=============================================================================
