------------------------------ MODULE TextProofs ------------------------------
(***************************************************************************)
(* Facts about the pure operators a clip goes through: the folds over the  *)
(* server's segments, the white space of a transcript, and the framing of  *)
(* a request.  They hold for every text, every list of segments and every  *)
(* recording.                                                              *)
(*                                                                         *)
(* A recursive function is a CHOOSE: nothing follows from its equation     *)
(* before a function with that equation is shown to exist.  Each is built  *)
(* here, one argument more at a time, with induction in the form of a set  *)
(* of naturals that has a least element.                                   *)
(***************************************************************************)
EXTENDS Words, Wire, FiniteSetTheorems, SequenceTheorems, TLAPS

(* A set of naturals has a least element: the strict subsets of the intervals from 0
   are well-founded. *)
LEMMA LeastNat ==
  ASSUME NEW T, T \subseteq Nat, T # {}
  PROVE  \E x \in T : \A y \in T : x <= y
<1> DEFINE F == {U \in FiniteSubsetsOf(Nat) : \E t \in T : U = 0 .. t}
<1>1. \A t \in T : 0 .. t \in F
  <2>1. \A t \in Nat : IsFiniteSet(0 .. t)
    BY FS_Interval
  <2> QED BY <2>1 DEF FiniteSubsetsOf
<1>2. \E U \in F : \A V \in F : << V, U >> \notin StrictSubsetOrdering(Nat)
  <2>1. IsWellFoundedOn(StrictSubsetOrdering(Nat), FiniteSubsetsOf(Nat))
    BY FS_StrictSubsetOrderingWellFounded
  <2>2. F # {} /\ F \subseteq FiniteSubsetsOf(Nat)
    BY <1>1
  <2> HIDE DEF F
  <2> QED BY <2>1, <2>2, WFMin
<1>3. PICK x \in T : \A V \in F : << V, 0 .. x >> \notin StrictSubsetOrdering(Nat)
  BY <1>2
<1>4. ASSUME NEW y \in T, y < x PROVE FALSE
  <2>1. 0 .. y \subseteq 0 .. x /\ x \in 0 .. x /\ x \notin 0 .. y
    BY <1>4
  <2>2. << 0 .. y, 0 .. x >> \in StrictSubsetOrdering(Nat)
    BY <2>1 DEF StrictSubsetOrdering
  <2> QED BY <1>1, <1>3, <2>2
<1> QED BY <1>4

(* Induction, for a set. *)
LEMMA Induction ==
  ASSUME NEW S, 0 \in S, \A n \in Nat : n \in S => n + 1 \in S
  PROVE  \A n \in Nat : n \in S
<1> SUFFICES ASSUME Nat \ S # {} PROVE FALSE
  OBVIOUS
<1>1. PICK x \in Nat \ S : \A y \in Nat \ S : x <= y
  BY LeastNat
<1>2. x # 0 /\ x - 1 \in Nat /\ x - 1 + 1 = x
  BY <1>1
<1>3. x - 1 \in S
  BY <1>1, <1>2
<1> QED BY <1>1, <1>2, <1>3

-----------------------------------------------------------------------------
LEMMA MaxIs ==
  ASSUME NEW s, NEW m \in s, m \in Int, \A y \in s : y \in Int /\ m >= y
  PROVE  Max(s) = m
<1>1. \E x \in s : \A y \in s : x >= y
  OBVIOUS
<1>2. Max(s) \in s /\ \A y \in s : Max(s) >= y
  BY <1>1, Zenon DEF Max
<1>3. \A x \in s : (\A y \in s : x >= y) => x = m
  <2> SUFFICES ASSUME NEW x \in s, \A y \in s : x >= y PROVE x = m
    OBVIOUS
  <2>1. x >= m /\ m >= x /\ x \in Int
    OBVIOUS
  <2> QED BY <2>1
<1> QED BY <1>2, <1>3

(* A set of naturals with a bound has a greatest element. *)
LEMMA Greatest ==
  ASSUME NEW n \in Nat, NEW s, s \subseteq 1 .. n, s # {}
  PROVE  \E m \in s : m \in Int /\ \A y \in s : y \in Int /\ m >= y /\ y <= m
<1> DEFINE T == {n - y : y \in s}
<1>1. T \subseteq Nat /\ T # {}
  <2>1. \A y \in 1 .. n : n - y \in Nat
    OBVIOUS
  <2> QED BY <2>1
<1>2. PICK x \in T : \A y \in T : x <= y
  <2> HIDE DEF T
  <2> QED BY <1>1, LeastNat
<1>3. PICK m \in s : x = n - m
  BY <1>2
<1>4. \A y \in s : n - m <= n - y
  BY <1>2, <1>3
<1>5. m \in Int /\ \A y \in s : y \in Int /\ m >= y /\ y <= m
  BY <1>4
<1> QED BY <1>5

LEMMA MaxOfSome ==
  ASSUME NEW n \in Nat, NEW s, s \subseteq 1 .. n, s # {}
  PROVE  Max(s) \in s
<1>1. PICK m \in s : m \in Int /\ \A y \in s : y \in Int /\ m >= y
  BY Greatest
<1>2. Max(s) = m
  BY <1>1, MaxIs
<1> QED BY <1>2

(* What FoldLeft makes of the sets of places it goes through, for a step g; such a fold
   exists. *)
IsFold(f, n, base, g) ==
  \A s \in SUBSET (1 .. n) : f[s] = IF s = {} THEN base ELSE g[<< f[s \ {Max(s)}], Max(s) >>]

LEMMA FoldExists ==
  ASSUME NEW n \in Nat, NEW V, NEW base \in V, NEW g \in [V \X (1 .. n) -> V]
  PROVE  \E f \in [SUBSET (1 .. n) -> V] : IsFold(f, n, base, g)
<1> DEFINE D == 1 .. n
           Step(f, s) == IF s = {} THEN base ELSE g[<< f[s \ {Max(s)}], Max(s) >>]
           Good(f, k) == \A s \in SUBSET D : s \subseteq 1 .. k => f[s] = Step(f, s)
           S == {k \in Nat : \E f \in [SUBSET D -> V] : Good(f, k)}
<1>1. 0 \in S
  <2> DEFINE f == [s \in SUBSET D |-> base]
  <2>1. \A s \in SUBSET D : s \subseteq 1 .. 0 => s = {}
    OBVIOUS
  <2>2. f \in [SUBSET D -> V] /\ Good(f, 0)
    BY <2>1
  <2> QED BY <2>2
<1>2. ASSUME NEW k \in Nat, k \in S PROVE k + 1 \in S
  <2>1. PICK f \in [SUBSET D -> V] : Good(f, k)
    BY <1>2
  <2> DEFINE h == [s \in SUBSET D |-> IF s \subseteq 1 .. k THEN f[s]
                                      ELSE IF Max(s) \in D THEN Step(f, s) ELSE base]
  <2>2. h \in [SUBSET D -> V]
    <3>1. \A s \in SUBSET D : Max(s) \in D => Step(f, s) \in V
      BY <2>1
    <3> HIDE DEF Step
    <3> QED BY <2>1, <3>1
  <2>3. ASSUME NEW s \in SUBSET D, s \subseteq 1 .. k + 1
        PROVE  h[s] = Step(h, s)
    <3>1. CASE s = {}
      BY <2>1, <3>1
    <3>2. CASE s # {} /\ s \subseteq 1 .. k
      <4>1. s \ {Max(s)} \in SUBSET D /\ s \ {Max(s)} \subseteq 1 .. k
        BY <3>2
      <4>2. h[s \ {Max(s)}] = f[s \ {Max(s)}] /\ h[s] = f[s]
        BY <3>2, <4>1
      <4> QED BY <2>1, <3>2, <4>2
    <3>3. CASE ~(s \subseteq 1 .. k)
      <4>1. k + 1 \in s /\ \A x \in s : x \in Int /\ k + 1 >= x
        BY <2>3, <3>3
      <4>2. Max(s) = k + 1
        BY <4>1, MaxIs
      <4>3. s \ {Max(s)} \in SUBSET D /\ s \ {Max(s)} \subseteq 1 .. k
        BY <2>3, <4>1, <4>2
      <4>4. h[s \ {Max(s)}] = f[s \ {Max(s)}]
        BY <4>3
      <4>5. h[s] = Step(f, s)
        BY <3>3, <4>1, <4>2
      <4> QED BY <4>1, <4>4, <4>5
    <3> QED BY <3>1, <3>2, <3>3
  <2> HIDE DEF h
  <2>4. Good(h, k + 1)
    BY <2>3
  <2> HIDE DEF Good
  <2> QED BY <2>2, <2>4
<1>3. n \in S
  <2> HIDE DEF S
  <2>1. \A k \in Nat : k \in S
    BY <1>1, <1>2, Induction
  <2> QED BY <2>1
<1>4. PICK f \in [SUBSET D -> V] : Good(f, n)
  BY <1>3
<1>5. IsFold(f, n, base, g)
  BY <1>4 DEF IsFold
<1> QED BY <1>5

(* aggregate takes the most silent segment of all, however many there are. *)
LEMMA NoSpeechIsMost ==
  ASSUME NEW segments, NEW n \in Nat, DOMAIN segments = 1 .. n,
         \A i \in 1 .. n : segments[i].no_speech_prob \in Int
  PROVE  /\ NoSpeech(segments) \in Int
         /\ \A i \in 1 .. n : segments[i].no_speech_prob <= NoSpeech(segments)
<1> DEFINE D == 1 .. n
           P(i) == segments[i].no_speech_prob
           g == [a \in Int \X D |-> IF P(a[2]) > a[1] THEN P(a[2]) ELSE a[1]]
           Eq(f) == f = [s \in SUBSET D |->
                           IF s = {} THEN 0
                           ELSE IF P(Max(s)) > f[s \ {Max(s)}] THEN P(Max(s)) ELSE f[s \ {Max(s)}]]
           iter == CHOOSE f : Eq(f)
<1>1. NoSpeech(segments) = iter[D]
  BY DEF NoSpeech, FoldLeft, MapThenFoldSet
<1>2. g \in [Int \X D -> Int] /\ \A m \in Int, i \in D : g[<< m, i >>] = IF P(i) > m THEN P(i) ELSE m
  OBVIOUS
<1>3. \A s \in SUBSET D : s # {} => Max(s) \in D
  BY MaxOfSome
<1>4. PICK f \in [SUBSET D -> Int] :
        \A s \in SUBSET D : f[s] = IF s = {} THEN 0 ELSE g[<< f[s \ {Max(s)}], Max(s) >>]
  <2> HIDE DEF g
  <2>1. 0 \in Int
    OBVIOUS
  <2>2. \E f \in [SUBSET D -> Int] : IsFold(f, n, 0, g)
    BY <1>2, <2>1, FoldExists
  <2> QED BY <2>2 DEF IsFold
<1>5. Eq(f)
  <2> HIDE DEF g, P
  <2>1. ASSUME NEW s \in SUBSET D, s # {}
        PROVE  g[<< f[s \ {Max(s)}], Max(s) >>]
                 = IF P(Max(s)) > f[s \ {Max(s)}] THEN P(Max(s)) ELSE f[s \ {Max(s)}]
    <3>1. s \ {Max(s)} \in SUBSET D /\ Max(s) \in D
      BY <1>3, <2>1
    <3>2. f[s \ {Max(s)}] \in Int
      BY <3>1
    <3> QED BY <1>2, <3>1, <3>2
  <2> QED BY <1>4, <2>1
<1>6. Eq(iter)
  <2> HIDE DEF Eq
  <2> QED BY <1>5
<1> HIDE DEF iter
<1> DEFINE S == {k \in Nat : k <= n => iter[1 .. k] \in Int /\ \A i \in 1 .. k : P(i) <= iter[1 .. k]}
<1>7. 0 \in S
  <2>1. 1 .. 0 = {} /\ {} \in SUBSET D
    OBVIOUS
  <2>2. iter[{}] = 0
    BY <1>6, <2>1
  <2> QED BY <2>1, <2>2
<1>8. ASSUME NEW k \in Nat, k \in S PROVE k + 1 \in S
  <2> SUFFICES ASSUME k + 1 <= n
               PROVE  iter[1 .. k + 1] \in Int /\ \A i \in 1 .. k + 1 : P(i) <= iter[1 .. k + 1]
    OBVIOUS
  <2> DEFINE m == iter[1 .. k]
  <2>1. m \in Int /\ \A i \in 1 .. k : P(i) <= m
    BY <1>8
  <2>2. /\ k + 1 \in 1 .. k + 1 /\ k + 1 \in Int /\ 1 .. k + 1 # {} /\ 1 .. k + 1 \in SUBSET D
        /\ \A y \in 1 .. k + 1 : y \in Int /\ k + 1 >= y
        /\ (1 .. k + 1) \ {k + 1} = 1 .. k
    BY SMTT(30)
  <2>3. Max(1 .. k + 1) = k + 1
    BY <2>2, MaxIs
  <2>4. iter[1 .. k + 1] = IF P(k + 1) > m THEN P(k + 1) ELSE m
    <3> HIDE DEF P
    <3> QED BY <1>6, <2>2, <2>3
  <2>5. P(k + 1) \in Int
    OBVIOUS
  <2> HIDE DEF m, P
  <2>6. \A i \in 1 .. k + 1 : i \in 1 .. k \/ i = k + 1
    OBVIOUS
  <2>7. \A i \in 1 .. k : P(i) \in Int
    BY DEF P
  <2> QED BY <2>1, <2>4, <2>5, <2>6, <2>7
<1>9. n \in S
  <2> HIDE DEF S
  <2> QED BY <1>7, <1>8, Induction
<1> QED BY <1>1, <1>9

-----------------------------------------------------------------------------
(* The n-th of some places is one of them, and has n - 1 before it. *)
LEMMA NthIsOne ==
  ASSUME NEW m \in Nat, NEW S, S \subseteq 1 .. m, NEW n \in 1 .. Cardinality(S)
  PROVE  Nth(S, n) \in S /\ Cardinality({j \in S : j <= Nth(S, n)}) = n
<1> DEFINE Upto(k) == {j \in S : j <= k}
           T == {k \in Nat : \A x \in 1 .. Cardinality(Upto(k)) : \E i \in S : Cardinality(Upto(i)) = x}
<1>0. \A j \in S : j \in Nat /\ 1 <= j /\ j <= m
  OBVIOUS
<1>1. \A k \in Nat : IsFiniteSet(Upto(k)) /\ Cardinality(Upto(k)) \in Nat
  <2> SUFFICES ASSUME NEW k \in Nat PROVE IsFiniteSet(Upto(k)) /\ Cardinality(Upto(k)) \in Nat
    OBVIOUS
  <2>1. IsFiniteSet(1 .. m)
    BY FS_Interval
  <2>2. Upto(k) \in SUBSET (1 .. m)
    BY <1>0
  <2> HIDE DEF Upto
  <2> QED BY <2>1, <2>2, FS_Subset, FS_CardinalityType
<1>2. 0 \in T
  <2>1. \A j \in S : ~(j <= 0)
    BY <1>0
  <2>2. Upto(0) = {}
    BY <2>1
  <2>3. Cardinality(Upto(0)) = 0
    <3> HIDE DEF Upto
    <3> QED BY <2>2, FS_EmptySet
  <2> HIDE DEF Upto
  <2> QED BY <2>3
<1>3. ASSUME NEW k \in Nat, k \in T PROVE k + 1 \in T
  <2>1. \A x \in 1 .. Cardinality(Upto(k)) : \E i \in S : Cardinality(Upto(i)) = x
    BY <1>3
  <2>2. CASE k + 1 \in S
    <3>1. Upto(k + 1) = Upto(k) \cup {k + 1} /\ k + 1 \notin Upto(k)
      <4>1. \A j \in S : j <= k + 1 <=> j <= k \/ j = k + 1
        BY <1>0
      <4>2. Upto(k + 1) \subseteq Upto(k) \cup {k + 1}
        BY <4>1
      <4>3. Upto(k) \cup {k + 1} \subseteq Upto(k + 1)
        BY <2>2, <4>1
      <4>4. ~(k + 1 <= k)
        OBVIOUS
      <4>5. k + 1 \notin Upto(k)
        BY <4>4
      <4> HIDE DEF Upto
      <4> QED BY <4>2, <4>3, <4>5
    <3>2. Cardinality(Upto(k + 1)) = Cardinality(Upto(k)) + 1
      <4> HIDE DEF Upto
      <4> QED BY <1>1, <3>1, FS_AddElement
    <3> HIDE DEF Upto
    <3>3. ASSUME NEW x \in 1 .. Cardinality(Upto(k + 1)) PROVE \E i \in S : Cardinality(Upto(i)) = x
      <4>1. x \in 1 .. Cardinality(Upto(k)) \/ x = Cardinality(Upto(k + 1))
        BY <1>1, <3>2
      <4> QED BY <2>1, <2>2, <4>1
    <3> QED BY <3>3
  <2>3. CASE k + 1 \notin S
    <3>1. Upto(k + 1) = Upto(k)
      <4>1. \A j \in S : j <= k + 1 <=> j <= k
        BY <1>0, <2>3
      <4> QED BY <4>1
    <3> HIDE DEF Upto
    <3> QED BY <2>1, <3>1
  <2> QED BY <2>2, <2>3
<1>4. m \in T
  <2> HIDE DEF T
  <2> QED BY <1>2, <1>3, Induction
<1>5. Upto(m) = S
  BY <1>0
<1>6. \E i \in S : Cardinality(Upto(i)) = n
  <2> HIDE DEF Upto
  <2> QED BY <1>4, <1>5
<1> QED BY <1>6 DEF Nth

LEMMA FinalIsOne ==
  ASSUME NEW n \in Nat, NEW s, s \subseteq 1 .. n, s # {}
  PROVE  Final(s) \in s
<1>1. \E i \in s : \A j \in s : j <= i
  BY Greatest
<1> QED BY <1>1 DEF Final

(* split_whitespace: every token is a word of the text, without a blank. *)
LEMMA TokensAreWords ==
  ASSUME NEW X, NEW text \in Seq(X)
  PROVE  Tokens(text) \in Seq(Seq(X \ {Blank}))
<1> DEFINE n == Len(text)
<1>1. n \in Nat /\ \A i \in 1 .. n : text[i] \in X
  OBVIOUS
<1>2. ASSUME NEW i \in Begins(text) PROVE RunAt(text, i) \in Seq(X \ {Blank})
  <2> DEFINE R == {j \in i .. n : \A k \in i .. j : text[k] # Blank}
             j == Final(R)
  <2>1. i \in 1 .. n /\ text[i] # Blank
    BY <1>2 DEF Begins
  <2>2. R \subseteq 1 .. n /\ i \in R
    BY <1>1, <2>1
  <2>3. j \in R
    <3> HIDE DEF R
    <3> QED BY <1>1, <2>2, FinalIsOne
  <2> HIDE DEF j
  <2>4. j \in 1 .. n /\ \A k \in i .. j : text[k] # Blank /\ text[k] \in X
    BY <1>1, <2>1, <2>3
  <2>5. SubSeq(text, i, j) \in Seq(X \ {Blank})
    <3>1. SubSeq(text, i, j) = [k \in 1 .. j - i + 1 |-> text[i + k - 1]]
      BY <2>1, <2>4
    <3>2. \A k \in 1 .. j - i + 1 : i + k - 1 \in i .. j
      BY <2>1, <2>4
    <3>3. j - i + 1 \in Nat
      BY <2>1, <2>3
    <3> QED BY <2>4, <3>1, <3>2, <3>3
  <2> QED BY <2>5 DEF RunAt, j
<1>3. Cardinality(Begins(text)) \in Nat /\ Begins(text) \subseteq 1 .. n
  <2>1. IsFiniteSet(1 .. n) /\ Begins(text) \in SUBSET (1 .. n)
    BY <1>1, FS_Interval DEF Begins
  <2> QED BY <2>1, FS_Subset, FS_CardinalityType
<1>4. \A k \in 1 .. Cardinality(Begins(text)) : Nth(Begins(text), k) \in Begins(text)
  BY <1>1, <1>3, NthIsOne
<1> QED BY <1>2, <1>3, <1>4 DEF Tokens

-----------------------------------------------------------------------------
(* Flattening grows by one piece at a time: g is what the first k pieces come to. *)
Grows(g, seqs) ==
  /\ g[0] = <<>>
  /\ \A k \in 1 .. Len(seqs) : \A j \in Nat : k = j + 1 => g[k] = g[j] \o seqs[k]

LEMMA FlattenGrows ==
  ASSUME NEW X, NEW seqs \in Seq(Seq(X))
  PROVE  \E g \in [0 .. Len(seqs) -> Seq(X)] : Grows(g, seqs) /\ FlattenSeq(seqs) = g[Len(seqs)]
<1> DEFINE n == Len(seqs)
           Good(g, k) == /\ g[0] = <<>>
                         /\ \A i \in 1 .. n : \A j \in Nat : i = j + 1 /\ i <= k => g[i] = g[j] \o seqs[i]
           S == {k \in Nat : \E g \in [0 .. n -> Seq(X)] : Good(g, k)}
<1>0. n \in Nat /\ \A i \in 1 .. n : seqs[i] \in Seq(X)
  OBVIOUS
<1>1. 0 \in S
  <2> DEFINE g == [i \in 0 .. n |-> <<>>]
  <2>1. g \in [0 .. n -> Seq(X)] /\ Good(g, 0)
    BY <1>0
  <2> HIDE DEF g, Good
  <2> QED BY <2>1
<1>2. ASSUME NEW k \in Nat, k \in S PROVE k + 1 \in S
  <2>1. PICK g \in [0 .. n -> Seq(X)] : Good(g, k)
    BY <1>2
  <2>2. CASE k + 1 \in 1 .. n
    <3> DEFINE h == [i \in 0 .. n |-> IF i = k + 1 THEN g[k] \o seqs[k + 1] ELSE g[i]]
    <3>1. k \in 0 .. n /\ k # k + 1 /\ 0 # k + 1 /\ 0 \in 0 .. n
      BY <1>0, <2>2
    <3>2. g[k] \in Seq(X) /\ seqs[k + 1] \in Seq(X)
      BY <1>0, <2>2, <3>1
    <3>3. g[k] \o seqs[k + 1] \in Seq(X)
      BY <3>2
    <3>4. h \in [0 .. n -> Seq(X)]
      BY <3>3
    <3>5. \A i \in 0 .. n : h[i] = IF i = k + 1 THEN g[k] \o seqs[k + 1] ELSE g[i]
      OBVIOUS
    <3> HIDE DEF h
    <3>6. ASSUME NEW i \in 1 .. n, NEW j \in Nat, i = j + 1, i <= k + 1
          PROVE  h[i] = h[j] \o seqs[i]
      <4>1. i \in 0 .. n /\ j \in 0 .. n /\ j # k + 1 /\ (i = k + 1 => j = k) /\ (i # k + 1 => i <= k)
        BY <1>0, <3>6
      <4>2. h[j] = g[j]
        BY <3>5, <4>1
      <4>3. i # k + 1 => g[i] = g[j] \o seqs[i]
        BY <2>1, <3>6, <4>1
      <4> QED BY <3>5, <4>1, <4>2, <4>3
    <3>7. h[0] = <<>>
      BY <2>1, <3>1, <3>5
    <3>8. Good(h, k + 1)
      BY <3>6, <3>7
    <3> HIDE DEF Good
    <3> QED BY <3>4, <3>8
  <2>3. CASE k + 1 \notin 1 .. n
    <3>1. \A i \in 1 .. n : i <= k + 1 => i <= k
      BY <1>0, <2>3
    <3>2. Good(g, k + 1)
      BY <2>1, <3>1
    <3> HIDE DEF Good
    <3> QED BY <3>2
  <2> QED BY <2>2, <2>3
<1>3. n \in S
  <2> HIDE DEF S
  <2> QED BY <1>0, <1>1, <1>2, Induction
<1>4. PICK g \in [0 .. n -> Seq(X)] : Good(g, n)
  BY <1>3
<1>5. Grows(g, seqs)
  <2>1. \A i \in 1 .. n : i <= n
    BY <1>0
  <2> QED BY <1>4, <2>1 DEF Grows
<1> DEFINE Body(f, i) == IF i = 1 THEN seqs[i] ELSE f[i - 1] \o seqs[i]
           Eq(f) == f = [i \in 1 .. n |-> Body(f, i)]
           flatten == CHOOSE f : Eq(f)
<1>6. \E f : Eq(f)
  <2> DEFINE f == [i \in 1 .. n |-> g[i]]
  <2>1. ASSUME NEW i \in 1 .. n PROVE f[i] = Body(f, i)
    <3>1. PICK j \in Nat : i = j + 1
      <4>1. i - 1 \in Nat /\ i = (i - 1) + 1
        BY <1>0
      <4> QED BY <4>1
    <3>2. g[i] = g[j] \o seqs[i] /\ i - 1 = j
      <4>1. g[i] = g[j] \o seqs[i]
        <5> HIDE DEF f
        <5> QED BY <1>5, <3>1 DEF Grows
      <4>2. i - 1 = j
        BY <3>1
      <4> QED BY <4>1, <4>2
    <3>3. CASE i = 1
      <4>1. j = 0 /\ seqs[i] \in Seq(X)
        BY <1>0, <3>1, <3>3
      <4>2. g[j] = <<>>
        BY <1>5, <4>1 DEF Grows
      <4>3. <<>> \o seqs[i] = seqs[i]
        BY <4>1
      <4> QED BY <3>2, <3>3, <4>2, <4>3
    <3>4. CASE i # 1
      <4>1. j \in 1 .. n
        BY <1>0, <3>1, <3>4
      <4>2. f[j] = g[j]
        BY <4>1
      <4> QED BY <3>2, <3>4, <4>2
    <3> QED BY <3>3, <3>4
  <2>2. f = [i \in 1 .. n |-> f[i]]
    OBVIOUS
  <2> HIDE DEF f, Body
  <2>3. Eq(f)
    BY <2>1, <2>2
  <2> HIDE DEF Eq
  <2> QED BY <2>3
<1>7. Eq(flatten)
  <2> HIDE DEF Eq
  <2> QED BY <1>6
<1>8. n # 0 => FlattenSeq(seqs) = flatten[n]
  BY DEF FlattenSeq
<1> HIDE DEF flatten
<1>9. \A i \in 1 .. n : flatten[i] = Body(flatten, i)
  <2> DEFINE G == [i \in 1 .. n |-> Body(flatten, i)]
  <2>1. flatten = G
    BY <1>7
  <2>2. \A i \in 1 .. n : G[i] = Body(flatten, i)
    OBVIOUS
  <2> HIDE DEF G, Body
  <2> QED BY <2>1, <2>2
<1> DEFINE T == {k \in Nat : k \in 1 .. n => flatten[k] = g[k]}
<1>10. 0 \in T
  OBVIOUS
<1>11. ASSUME NEW k \in Nat, k \in T PROVE k + 1 \in T
  <2> SUFFICES ASSUME k + 1 \in 1 .. n PROVE flatten[k + 1] = g[k + 1]
    OBVIOUS
  <2>1. g[k + 1] = g[k] \o seqs[k + 1]
    BY <1>5 DEF Grows
  <2>2. flatten[k + 1] = IF k = 0 THEN seqs[k + 1] ELSE flatten[k] \o seqs[k + 1]
    <3>1. k + 1 - 1 = k /\ (k + 1 = 1 <=> k = 0)
      OBVIOUS
    <3>2. flatten[k + 1] = Body(flatten, k + 1)
      BY <1>9
    <3> QED BY <3>1, <3>2
  <2>3. k # 0 => flatten[k] = g[k]
    BY <1>0, <1>11
  <2>4. k = 0 => g[k] = <<>> /\ <<>> \o seqs[k + 1] = seqs[k + 1]
    BY <1>0, <1>5 DEF Grows
  <2> QED BY <2>1, <2>2, <2>3, <2>4
<1>12. n \in T
  <2> HIDE DEF T
  <2> QED BY <1>0, <1>10, <1>11, Induction
<1>13. n = 0 => FlattenSeq(seqs) = <<>>
  BY DEF FlattenSeq
<1>14. g[0] = <<>>
  BY <1>5 DEF Grows
<1>15. FlattenSeq(seqs) = g[n]
  <2>1. n # 0 => n \in 1 .. n
    BY <1>0
  <2> QED BY <1>8, <1>12, <1>13, <1>14, <2>1
<1> QED BY <1>5, <1>15

(* The flattening of sequences over a set is a sequence over it. *)
LEMMA FlattenKeeps ==
  ASSUME NEW X, NEW seqs \in Seq(Seq(X))
  PROVE  FlattenSeq(seqs) \in Seq(X)
<1>1. PICK g \in [0 .. Len(seqs) -> Seq(X)] : FlattenSeq(seqs) = g[Len(seqs)]
  BY FlattenGrows
<1>2. Len(seqs) \in 0 .. Len(seqs)
  OBVIOUS
<1> QED BY <1>1, <1>2

(* normalize_whitespace invents nothing: what it returns is blanks and characters of the
   text. *)
LEMMA NormalizeInventsNothing ==
  ASSUME NEW X, NEW text \in Seq(X)
  PROVE  NormalizeWhitespace(text) \in Seq(X \cup {Blank})
<1> DEFINE Y == X \cup {Blank}
           tokens == Tokens(text)
           parts == [n \in 1 .. Len(tokens) |-> IF n = 1 THEN tokens[n] ELSE << Blank >> \o tokens[n]]
<1>1. tokens \in Seq(Seq(X \ {Blank}))
  BY TokensAreWords
<1>2. \A t \in Seq(X \ {Blank}) : t \in Seq(Y) /\ << Blank >> \o t \in Seq(Y)
  OBVIOUS
<1>3. parts \in Seq(Seq(Y))
  <2> HIDE DEF tokens, Y
  <2> QED BY <1>1, <1>2
<1>4. FlattenSeq(parts) \in Seq(Y)
  <2> HIDE DEF parts, Y
  <2> QED BY <1>3, FlattenKeeps
<1> QED BY <1>4 DEF NormalizeWhitespace, Join

LEMMA BlankIsNoLetter == ~IsAlphanumeric(Blank)
<1> DEFINE small == {"a", "b", "c", "d", "e", "f", "g", "h", "i", "j", "k", "l", "m",
                     "n", "o", "p", "q", "r", "s", "t", "u", "v", "w", "x", "y", "z"}
           capital == {"A", "B", "C", "D", "E", "F", "G", "H", "I", "J", "K", "L", "M",
                       "N", "O", "P", "Q", "R", "S", "T", "U", "V", "W", "X", "Y", "Z"}
<1>1. \A i \in 1 .. 26 : Small[i] # Blank /\ Capital[i] # Blank
  <2>1. \A i \in 1 .. 26 : Small[i] \in small
    BY DEF Small
  <2>2. \A i \in 1 .. 26 : Capital[i] \in capital
    BY DEF Capital
  <2>3. Blank \notin small /\ Blank \notin capital
    BY DEF Blank
  <2> HIDE DEF small, capital
  <2> QED BY <2>1, <2>2, <2>3
<1>2. DOMAIN Small = 1 .. 26 /\ DOMAIN Capital = 1 .. 26
  BY DEF Small, Capital
<1>3. Blank \notin ToSet(Small) /\ Blank \notin ToSet(Capital)
  BY <1>1, <1>2 DEF ToSet
<1>4. Blank \notin Digits
  BY DEF Digits, Blank
<1> QED BY <1>3, <1>4 DEF IsAlphanumeric, IsLetter, Upper, Lower

(* The filter finds a word in the transcript only if there is one in what the server
   answered. *)
LEMMA ContentIsOfTheText ==
  ASSUME NEW X, NEW text \in Seq(X), HasContent(NormalizeWhitespace(text))
  PROVE  \E i \in 1 .. Len(text) : IsAlphanumeric(text[i])
<1> DEFINE C == {text[i] : i \in 1 .. Len(text)}
           t == NormalizeWhitespace(text)
<1>1. text \in Seq(C)
  <2>1. text = [i \in 1 .. Len(text) |-> text[i]] /\ Len(text) \in Nat
    OBVIOUS
  <2> QED BY <2>1
<1>2. t \in Seq(C \cup {Blank})
  <2> HIDE DEF C
  <2> QED BY <1>1, NormalizeInventsNothing
<1>3. PICK i \in 1 .. Len(t) : IsAlphanumeric(t[i])
  BY DEF HasContent
<1> HIDE DEF t
<1>4. t[i] \in C \cup {Blank}
  <2> HIDE DEF C
  <2> QED BY <1>2
<1>5. t[i] \in C
  BY <1>3, <1>4, BlankIsNoLetter
<1> QED BY <1>3, <1>5

-----------------------------------------------------------------------------
(* The framing of a request. *)
LEMMA Marks ==
  /\ Crlf # Delim /\ Crlf # Dashes /\ Delim # Dashes /\ Riff # Crlf /\ Riff # Delim
  /\ \A name \in {"response_format", "language", "temperature", "prompt", "file", "Content-Type"} :
       name # Crlf /\ name # Delim /\ name # "malformed"
  BY DEF Crlf, Delim, Dashes, Riff

LEMMA PieceIs ==
  ASSUME NEW X, NEW body \in Seq(X), NEW i \in Nat \ {0}, NEW Y, NEW t \in Seq(Y),
         i + Len(t) - 1 <= Len(body), \A k \in 1 .. Len(t) : body[i + k - 1] = t[k]
  PROVE  SubSeq(body, i, i + Len(t) - 1) = t
<1> DEFINE j == i + Len(t) - 1
<1>1. Len(t) \in Nat /\ j - i + 1 = Len(t) /\ j \in Int
  OBVIOUS
<1>2. SubSeq(body, i, j) = [k \in 1 .. j - i + 1 |-> body[i + k - 1]]
  BY <1>1
<1>3. t = [k \in 1 .. Len(t) |-> t[k]]
  OBVIOUS
<1> HIDE DEF j
<1>4. SubSeq(body, i, j) = t
  BY <1>1, <1>2, <1>3
<1> QED BY <1>4 DEF j

(* At r two pieces stand side by side, for the first time from i on. *)
FirstPair(body, i, a, b, r) ==
  /\ r \in Nat /\ r >= i /\ r + 1 <= Len(body) /\ body[r] = a /\ body[r + 1] = b
  /\ \A j \in Nat : j >= i /\ j < r => ~(j + 1 <= Len(body) /\ body[j] = a /\ body[j + 1] = b)

LEMMA FoundTwo ==
  ASSUME NEW X, NEW body \in Seq(X), NEW i \in Nat \ {0}, NEW a, NEW b, NEW r,
         r = FindFrom(body, i, << a, b >>), r # 0
  PROVE  FirstPair(body, i, a, b, r)
<1> DEFINE n == Len(body)
           needle == << a, b >>
           At == {j \in i .. n - Len(needle) + 1 : SubSeq(body, j, j + Len(needle) - 1) = needle}
           Here(j) == j + 1 <= n /\ body[j] = a /\ body[j + 1] = b
<1>1. n \in Nat /\ Len(needle) = 2
  OBVIOUS
<1>2. \A j \in Nat : j >= i /\ j + 1 <= n => (SubSeq(body, j, j + 1) = needle <=> Here(j))
  <2> SUFFICES ASSUME NEW j \in Nat, j >= i, j + 1 <= n
               PROVE  SubSeq(body, j, j + 1) = needle <=> Here(j)
    OBVIOUS
  <2> DEFINE t == << body[j], body[j + 1] >>
  <2>1. t \in Seq({body[j], body[j + 1]}) /\ Len(t) = 2 /\ j \in Nat \ {0} /\ j + Len(t) - 1 = j + 1
    OBVIOUS
  <2>2. \A k \in 1 .. Len(t) : body[j + k - 1] = t[k]
    <3>1. \A k \in 1 .. Len(t) : k = 1 \/ k = 2
      BY <2>1
    <3>2. j + 1 - 1 = j /\ j + 2 - 1 = j + 1
      OBVIOUS
    <3>3. t[1] = body[j] /\ t[2] = body[j + 1]
      OBVIOUS
    <3> HIDE DEF t
    <3> QED BY <3>1, <3>2, <3>3
  <2>3. j + Len(t) - 1 <= Len(body)
    BY <2>1
  <2> HIDE DEF t
  <2>4. SubSeq(body, j, j + 1) = t
    BY <2>1, <2>2, <2>3, PieceIs
  <2>5. SubSeq(body, j, j + 1) = << body[j], body[j + 1] >>
    BY <2>4 DEF t
  <2> QED BY <2>5
<1>3. At = {j \in i .. n - 1 : Here(j)}
  <2>1. n - Len(needle) + 1 = n - 1 /\ \A j \in i .. n - 1 : j + Len(needle) - 1 = j + 1
    BY <1>1
  <2>2. \A j \in i .. n - 1 : j \in Nat /\ j >= i /\ j + 1 <= n
    BY <1>1
  <2> HIDE DEF needle, n
  <2> QED BY <1>2, <2>1, <2>2
<1>4. At # {} /\ r = CHOOSE j \in At : \A k \in At : j <= k
  BY DEF FindFrom
<1> HIDE DEF At, needle
<1>5. \A j \in Nat : j >= i /\ Here(j) => j \in At
  <2>1. \A j \in Nat : j >= i /\ Here(j) => j \in i .. n - 1
    BY <1>1
  <2> QED BY <1>3, <2>1
<1>6. At \subseteq Nat
  BY <1>1, <1>3
<1>7. \E j \in At : \A k \in At : j <= k
  BY <1>4, <1>6, LeastNat
<1>8. r \in At /\ \A k \in At : r <= k
  BY <1>4, <1>7
<1>9. r \in Nat /\ r >= i /\ Here(r)
  BY <1>1, <1>3, <1>8
<1>10. ASSUME NEW j \in Nat, j >= i, j < r, Here(j) PROVE FALSE
  <2>1. j \in At
    BY <1>5, <1>10
  <2>2. r <= j
    BY <1>8, <2>1
  <2> QED BY <1>9, <1>10, <2>2
<1> HIDE DEF Here
<1>11. \A j \in Nat : j >= i /\ j < r => ~Here(j)
  BY <1>10
<1> QED BY <1>9, <1>11 DEF Here, FirstPair

LEMMA FindOneFirst ==
  ASSUME NEW X, NEW body \in Seq(X), Len(body) # 0
  PROVE  FindFrom(body, 1, << body[1] >>) = 1
<1> DEFINE n == Len(body)
           needle == << body[1] >>
           At == {j \in 1 .. n - Len(needle) + 1 : SubSeq(body, j, j + Len(needle) - 1) = needle}
<1>1. n \in Nat /\ n >= 1 /\ Len(needle) = 1
  OBVIOUS
<1>2. SubSeq(body, 1, 1) = << body[1] >>
  <2> DEFINE t == << body[1] >>
  <2>1. t \in Seq({body[1]}) /\ Len(t) = 1 /\ t[1] = body[1] /\ 1 + Len(t) - 1 = 1
    OBVIOUS
  <2>2. \A k \in 1 .. Len(t) : body[1 + k - 1] = t[k]
    BY <2>1
  <2>3. 1 + Len(t) - 1 <= Len(body) /\ 1 \in Nat \ {0}
    BY <1>1, <2>1
  <2> HIDE DEF t
  <2>4. SubSeq(body, 1, 1) = t
    BY <2>1, <2>2, <2>3, PieceIs
  <2> QED BY <2>4 DEF t
<1>3. 1 \in At /\ \A k \in At : 1 <= k /\ k \in Nat
  BY <1>1, <1>2
<1>4. FindFrom(body, 1, needle) = CHOOSE j \in At : \A k \in At : j <= k
  BY <1>3 DEF FindFrom
<1> HIDE DEF At
<1>5. \A j \in At : (\A k \in At : j <= k) => j = 1
  BY <1>3
<1> QED BY <1>3, <1>4, <1>5

(* The parser's function of a position behind a delimiter. *)
HeadersEnd(body, i) == FindFrom(body, i + 1, << Crlf, Crlf >>)
PartEnd(body, i) == FindFrom(body, HeadersEnd(body, i) + 2, DataEnd)
Closes(body, i) == i <= Len(body) /\ body[i] = Dashes
Broken(body, i) ==
  i > Len(body) \/ body[i] # Crlf \/ HeadersEnd(body, i) = 0 \/ PartEnd(body, i) = 0
PartAt(body, i) ==
  [name |-> body[i + 1], data |-> SubSeq(body, HeadersEnd(body, i) + 2, PartEnd(body, i) - 1)]

ParseStep(f, body, i) ==
  IF Closes(body, i) THEN <<>>
  ELSE IF Broken(body, i) THEN Malformed
  ELSE << PartAt(body, i) >> \o f[PartEnd(body, i) + 2]

IsParse(f, body) == \A i \in 1 .. Len(body) + 1 : f[i] = ParseStep(f, body, i)

(* A part ends behind the place it begins at. *)
LEMMA PartEndsLater ==
  ASSUME NEW X, NEW body \in Seq(X), NEW i \in 1 .. Len(body) + 1, ~Broken(body, i)
  PROVE  PartEnd(body, i) + 2 \in 1 .. Len(body) + 1 /\ PartEnd(body, i) + 2 > i
<1> DEFINE h == HeadersEnd(body, i)
           e == PartEnd(body, i)
<1>1. h # 0 /\ e # 0 /\ Len(body) \in Nat /\ i + 1 \in Nat \ {0}
  BY DEF Broken
<1>2. h \in Nat /\ h >= i + 1
  BY <1>1, FoundTwo DEF HeadersEnd, FirstPair
<1>3. h + 2 \in Nat \ {0}
  BY <1>2
<1>4. e \in Nat /\ e >= h + 2 /\ e + 1 <= Len(body)
  BY <1>1, <1>3, FoundTwo DEF PartEnd, DataEnd, FirstPair
<1> HIDE DEF h, e
<1> QED BY <1>1, <1>2, <1>4 DEF e

(* There is such a function for every body: it is built from the end of the body on. *)
LEMMA PartsParse ==
  ASSUME NEW X, NEW body \in Seq(X)
  PROVE  LET start == FindFrom(body, 1, << Delim >>)
         IN \E f : /\ IsParse(f, body)
                   /\ Parts(body) = IF start = 0 THEN Malformed ELSE f[start + 1]
<1> DEFINE m == Len(body) + 1
           D == 1 .. m
           Good(f, k) == \A i \in D : i + k > m => f[i] = ParseStep(f, body, i)
           S == {k \in Nat : \E f : f = [i \in D |-> f[i]] /\ Good(f, k)}
           Eq(f) == f = [i \in D |-> ParseStep(f, body, i)]
           parts == CHOOSE f : Eq(f)
           start == FindFrom(body, 1, << Delim >>)
<1>0. m \in Nat
  OBVIOUS
<1>1. 0 \in S
  <2> DEFINE f == [i \in D |-> <<>>]
  <2>1. \A i \in D : ~(i + 0 > m)
    BY <1>0
  <2>2. f = [i \in D |-> f[i]]
    OBVIOUS
  <2>3. Good(f, 0)
    BY <2>1
  <2> HIDE DEF f, Good
  <2> QED BY <2>2, <2>3
<1>2. ASSUME NEW k \in Nat, k \in S PROVE k + 1 \in S
  <2>1. PICK f : f = [i \in D |-> f[i]] /\ Good(f, k)
    BY <1>2
  <2> DEFINE p == m - k
             h == [i \in D |-> IF i = p THEN ParseStep(f, body, i) ELSE f[i]]
  <2>2. h = [i \in D |-> h[i]]
    OBVIOUS
  <2>3. \A i \in D : h[i] = IF i = p THEN ParseStep(f, body, i) ELSE f[i]
    OBVIOUS
  <2>4. p \in Int /\ \A i \in D : i + (k + 1) > m => i \in Int /\ (i = p \/ i + k > m)
    BY <1>0
  <2> HIDE DEF h, p
  <2>5. ASSUME NEW i \in D, i + (k + 1) > m PROVE h[i] = ParseStep(h, body, i)
    <3> DEFINE next == PartEnd(body, i) + 2
    <3>1. ~Broken(body, i) => next \in D /\ next > i
      BY PartEndsLater
    <3>2. ~Broken(body, i) => next # p
      <4> HIDE DEF next
      <4> QED BY <1>0, <2>5, <3>1 DEF p
    <3>3. ~Broken(body, i) => h[next] = f[next]
      <4> HIDE DEF next
      <4> QED BY <2>3, <3>1, <3>2
    <3>4. ParseStep(h, body, i) = ParseStep(f, body, i)
      BY <3>3 DEF ParseStep
    <3>5. i # p => f[i] = ParseStep(f, body, i)
      BY <2>1, <2>4, <2>5
    <3> QED BY <2>3, <3>4, <3>5
  <2>6. Good(h, k + 1)
    BY <2>5
  <2> HIDE DEF Good
  <2> QED BY <2>2, <2>6
<1>3. m \in S
  <2> HIDE DEF S
  <2> QED BY <1>0, <1>1, <1>2, Induction
<1>4. \E f : Eq(f)
  <2>1. PICK f : f = [i \in D |-> f[i]] /\ Good(f, m)
    BY <1>3
  <2>2. \A i \in D : i + m > m
    BY <1>0
  <2>3. \A i \in D : f[i] = ParseStep(f, body, i)
    BY <2>1, <2>2
  <2>4. Eq(f)
    BY <2>1, <2>3
  <2> HIDE DEF Eq
  <2> QED BY <2>4
<1>5. Eq(parts)
  <2> HIDE DEF Eq
  <2> QED BY <1>4
<1>6. Parts(body) = IF start = 0 THEN Malformed ELSE parts[start + 1]
  <2>1. Len(DataEnd) = 2
    BY DEF DataEnd
  <2> QED BY <2>1 DEF Parts, ParseStep, Closes, Broken, PartAt, HeadersEnd, PartEnd
<1> HIDE DEF parts, start
<1>7. IsParse(parts, body)
  <2> DEFINE G == [i \in D |-> ParseStep(parts, body, i)]
  <2>1. parts = G
    BY <1>5
  <2>2. \A i \in D : G[i] = ParseStep(parts, body, i)
    OBVIOUS
  <2> HIDE DEF G
  <2> QED BY <2>1, <2>2 DEF IsParse
<1> QED BY <1>6, <1>7 DEF start

(* Behind the delimiter at d: the first empty line, and from k on the first end of a part. *)
LEMMA HeadersEndAt ==
  ASSUME NEW X, NEW body \in Seq(X), NEW d \in Nat, NEW h, h = HeadersEnd(body, d + 1), h # 0
  PROVE  FirstPair(body, d + 2, Crlf, Crlf, h)
<1>1. d + 2 \in Nat \ {0} /\ d + 1 + 1 = d + 2
  OBVIOUS
<1>2. h = FindFrom(body, d + 2, << Crlf, Crlf >>)
  BY <1>1 DEF HeadersEnd
<1> QED BY <1>1, <1>2, FoundTwo

LEMMA PartEndAt ==
  ASSUME NEW X, NEW body \in Seq(X), NEW i, NEW k \in Nat \ {0}, HeadersEnd(body, i) + 2 = k,
         NEW e, e = PartEnd(body, i), e # 0
  PROVE  FirstPair(body, k, Crlf, Delim, e)
<1>1. e = FindFrom(body, k, << Crlf, Delim >>)
  BY DEF PartEnd, DataEnd
<1> QED BY <1>1, FoundTwo

(* The body holds s from i on, as far as it was read. *)
Agrees(body, i, s) ==
  \A k \in 1 .. Len(s) : i + k - 1 <= Len(body) => body[i + k - 1] = s[k]

LEMMA AgreesOnBoth ==
  ASSUME NEW body, NEW i \in Nat, NEW X, NEW s \in Seq(X), NEW Y, NEW t \in Seq(Y),
         Len(body) \in Nat, Agrees(body, i, s \o t)
  PROVE  Agrees(body, i, s) /\ Agrees(body, i + Len(s), t)
<1>1. /\ Len(s) \in Nat /\ Len(t) \in Nat /\ Len(s \o t) = Len(s) + Len(t)
      /\ \A k \in 1 .. Len(s) : (s \o t)[k] = s[k]
      /\ \A k \in 1 .. Len(t) : (s \o t)[Len(s) + k] = t[k]
  OBVIOUS
<1>2. Agrees(body, i, s)
  <2>1. \A k \in 1 .. Len(s) : k \in 1 .. Len(s) + Len(t)
    BY <1>1
  <2> QED BY <1>1, <2>1 DEF Agrees
<1>3. ASSUME NEW k \in 1 .. Len(t), i + Len(s) + k - 1 <= Len(body)
      PROVE  body[i + Len(s) + k - 1] = t[k]
  <2>1. Len(s) + k \in 1 .. Len(s) + Len(t) /\ i + Len(s) + k - 1 = i + (Len(s) + k) - 1
    BY <1>1
  <2> QED BY <1>1, <1>3, <2>1 DEF Agrees
<1> QED BY <1>2, <1>3 DEF Agrees

(* What a part of seven pieces with its delimiter at d begins with. *)
LEMMA SevenPieces ==
  ASSUME NEW body, Len(body) \in Nat, NEW d \in Nat, NEW s, Len(s) = 7, Agrees(body, d, s)
  PROVE  /\ d + 1 <= Len(body) => body[d + 1] = s[2]
         /\ d + 2 <= Len(body) => body[d + 2] = s[3]
         /\ d + 3 <= Len(body) => body[d + 3] = s[4]
         /\ d + 4 <= Len(body) => body[d + 4] = s[5]
         /\ d + 5 <= Len(body) => body[d + 5] = s[6]
         /\ d + 6 <= Len(body) => body[d + 6] = s[7]
<1>1. \A j \in 1 .. 7 : d + j - 1 <= Len(body) => body[d + j - 1] = s[j]
  BY DEF Agrees
<1>2. /\ d + 2 - 1 = d + 1 /\ d + 3 - 1 = d + 2 /\ d + 4 - 1 = d + 3
      /\ d + 5 - 1 = d + 4 /\ d + 6 - 1 = d + 5 /\ d + 7 - 1 = d + 6
  OBVIOUS
<1>3. \A j \in {2, 3, 4, 5, 6, 7} : j \in 1 .. 7
  OBVIOUS
<1> QED BY <1>1, <1>2, <1>3

(* parse reads a text field that build_multipart wrote, whatever its value, or the body
   ends before it does. *)
HoldsField(body, d, name, value) ==
  Agrees(body, d, TextField(name, value)) /\ Agrees(body, d + 7, << Delim >>)

FieldAt(f, n, d, x) ==
  f[d + 1] = Malformed \/ (d + 7 \in 1 .. n /\ f[d + 1] = << x >> \o f[d + 8])

LEMMA FieldParsed ==
  ASSUME NEW X, NEW body \in Seq(X), NEW f, IsParse(f, body), NEW d \in 1 .. Len(body),
         NEW name, name # Crlf, NEW value, HoldsField(body, d, name, value)
  PROVE  FieldAt(f, Len(body), d, [name |-> name, data |-> << value >>])
<1> USE DEF HoldsField, FieldAt
<1> DEFINE i == d + 1
           n == Len(body)
           h == HeadersEnd(body, i)
           e == PartEnd(body, i)
<1>1. n \in Nat /\ d \in Nat \ {0} /\ i \in 1 .. n + 1 /\ i \in Nat
  OBVIOUS
<1>2. /\ d + 1 <= n => body[d + 1] = Crlf
      /\ d + 2 <= n => body[d + 2] = name
      /\ d + 3 <= n => body[d + 3] = Crlf
      /\ d + 4 <= n => body[d + 4] = Crlf
      /\ d + 5 <= n => body[d + 5] = value
      /\ d + 6 <= n => body[d + 6] = Crlf
  <2> DEFINE s == TextField(name, value)
  <2>1. /\ Len(s) = 7 /\ s[2] = Crlf /\ s[3] = name /\ s[4] = Crlf /\ s[5] = Crlf
        /\ s[6] = value /\ s[7] = Crlf
    BY DEF TextField
  <2> HIDE DEF s
  <2>2. Agrees(body, d, s)
    BY DEF s
  <2> QED BY <1>1, <2>1, <2>2, SevenPieces, SMTT(30)
<1>3. d + 7 <= n => body[d + 7] = Delim
  <2>1. Len(<< Delim >>) = 1 /\ << Delim >>[1] = Delim /\ d + 7 + 1 - 1 = d + 7
    OBVIOUS
  <2> QED BY <2>1 DEF Agrees
<1>4. f[i] = ParseStep(f, body, i)
  BY <1>1 DEF IsParse
<1>5. ~Closes(body, i)
  BY <1>2, Marks DEF Closes
<1>6. CASE Broken(body, i)
  BY <1>4, <1>5, <1>6 DEF ParseStep
<1>7. CASE ~Broken(body, i)
  <2>1. i <= n /\ h # 0 /\ e # 0
    BY <1>7 DEF Broken
  <2>2. /\ h \in Nat /\ h >= d + 2 /\ h + 1 <= n /\ body[h] = Crlf /\ body[h + 1] = Crlf
        /\ \A j \in Nat : j >= d + 2 /\ j < h => ~(j + 1 <= n /\ body[j] = Crlf /\ body[j + 1] = Crlf)
    <3>1. h # 0 /\ d \in Nat
      BY <1>1, <2>1
    <3> QED BY <3>1, HeadersEndAt DEF FirstPair
  <2>3. h = d + 3
    <3> HIDE DEF h
    <3>1. h # d + 2
      BY <1>1, <1>2, <2>2
    <3>2. h >= d + 3
      BY <1>1, <2>2, <3>1
    <3>3. d + 3 + 1 = d + 4 /\ d + 3 \in Nat /\ d + 3 >= d + 2 /\ d + 4 <= n /\ d + 3 <= n
      BY <1>1, <2>2, <3>2
    <3>4. ~(d + 3 < h)
      BY <1>2, <2>2, <3>3
    <3> QED BY <1>1, <2>2, <3>2, <3>4
  <2>4. /\ e \in Nat /\ e >= d + 5 /\ e + 1 <= n /\ body[e] = Crlf /\ body[e + 1] = Delim
        /\ \A j \in Nat : j >= d + 5 /\ j < e => ~(j + 1 <= n /\ body[j] = Crlf /\ body[j + 1] = Delim)
    <3>1. d + 5 \in Nat \ {0} /\ h + 2 = d + 5 /\ e # 0
      BY <1>1, <2>1, <2>3
    <3> QED BY <3>1, PartEndAt DEF FirstPair
  <2>5. e = d + 6
    <3> HIDE DEF e, h
    <3>1. d + 5 + 1 = d + 6
      BY <1>1
    <3>2. e # d + 5
      BY <1>1, <1>2, <2>4, <3>1, Marks
    <3>3. e >= d + 6
      BY <1>1, <2>4, <3>2
    <3>4. d + 6 + 1 = d + 7 /\ d + 6 \in Nat /\ d + 6 >= d + 5 /\ d + 7 <= n /\ d + 6 <= n
      BY <1>1, <2>4, <3>3
    <3>5. ~(d + 6 < e)
      BY <1>2, <1>3, <2>4, <3>4
    <3> QED BY <1>1, <2>4, <3>3, <3>5
  <2>6. d + 7 \in 1 .. n
    BY <1>1, <2>4, <2>5
  <2>7. SubSeq(body, d + 5, d + 5) = << value >>
    <3> DEFINE t == << value >>
    <3>1. t \in Seq({value}) /\ Len(t) = 1 /\ t[1] = value
      OBVIOUS
    <3>2. d + 5 \in Nat \ {0} /\ d + 5 + Len(t) - 1 = d + 5 /\ d + 5 <= n
      BY <1>1, <2>6, <3>1
    <3>3. \A k \in 1 .. Len(t) : body[d + 5 + k - 1] = t[k]
      BY <1>2, <3>1, <3>2
    <3> HIDE DEF t
    <3>4. SubSeq(body, d + 5, d + 5) = t
      BY <3>1, <3>2, <3>3, PieceIs
    <3> QED BY <3>4 DEF t
  <2>8. PartAt(body, i) = [name |-> name, data |-> << value >>]
    <3>1. h + 2 = d + 5 /\ e - 1 = d + 5 /\ i + 1 = d + 2 /\ d + 2 <= n
      BY <1>1, <2>3, <2>5, <2>6
    <3> QED BY <1>2, <2>7, <3>1 DEF PartAt
  <2>9. e + 2 = d + 8
    BY <1>1, <2>5
  <2> HIDE DEF e, h
  <2> QED BY <1>4, <1>5, <1>7, <2>6, <2>8, <2>9 DEF ParseStep, e
<1> QED BY <1>6, <1>7

(* Of a file part parse returns the file, whatever it holds but the end of a part. *)
Unframed(wav) == \A j \in 1 .. Len(wav) - 1 : ~(wav[j] = Crlf /\ wav[j + 1] = Delim)

HoldsFile(body, d, wav) ==
  /\ Agrees(body, d, << Delim, Crlf, "file", Crlf, "Content-Type", Crlf, Crlf >>)
  /\ Agrees(body, d + 7, wav)
  /\ Agrees(body, d + 7 + Len(wav), << Crlf, Delim, Dashes, Crlf >>)

FileAt(f, d, x) ==
  f[d + 1] = Malformed \/ \E rest \in {<<>>, Malformed} : f[d + 1] = << x >> \o rest

LEMMA FileParsed ==
  ASSUME NEW X, NEW body \in Seq(X), NEW f, IsParse(f, body), NEW d \in 1 .. Len(body),
         NEW Y, NEW wav \in Seq(Y), Unframed(wav), HoldsFile(body, d, wav)
  PROVE  FileAt(f, d, [name |-> "file", data |-> wav])
<1> USE DEF Unframed, HoldsFile, FileAt
<1> DEFINE i == d + 1
           n == Len(body)
           m == Len(wav)
           z == d + 7 + m
           h == HeadersEnd(body, i)
           e == PartEnd(body, i)
<1>1. /\ n \in Nat /\ m \in Nat /\ d \in Nat \ {0} /\ i \in 1 .. n + 1 /\ i \in Nat
      /\ z \in Nat \ {0} /\ z >= d + 7
  OBVIOUS
<1>2. /\ d + 1 <= n => body[d + 1] = Crlf
      /\ d + 2 <= n => body[d + 2] = "file"
      /\ d + 3 <= n => body[d + 3] = Crlf
      /\ d + 4 <= n => body[d + 4] = "Content-Type"
      /\ d + 5 <= n => body[d + 5] = Crlf
      /\ d + 6 <= n => body[d + 6] = Crlf
  <2> DEFINE s == << Delim, Crlf, "file", Crlf, "Content-Type", Crlf, Crlf >>
  <2>1. /\ Len(s) = 7 /\ s[2] = Crlf /\ s[3] = "file" /\ s[4] = Crlf /\ s[5] = "Content-Type"
        /\ s[6] = Crlf /\ s[7] = Crlf
    OBVIOUS
  <2> HIDE DEF s
  <2>2. Agrees(body, d, s)
    BY DEF s
  <2>3. Len(body) \in Nat /\ d \in Nat
    BY <1>1
  <2>4. /\ d + 1 <= Len(body) => body[d + 1] = s[2]
        /\ d + 2 <= Len(body) => body[d + 2] = s[3]
        /\ d + 3 <= Len(body) => body[d + 3] = s[4]
        /\ d + 4 <= Len(body) => body[d + 4] = s[5]
        /\ d + 5 <= Len(body) => body[d + 5] = s[6]
        /\ d + 6 <= Len(body) => body[d + 6] = s[7]
    BY <2>1, <2>2, <2>3, SevenPieces, SMTT(30)
  <2> QED BY <2>1, <2>4
<1>3. /\ z <= n => body[z] = Crlf
      /\ z + 1 <= n => body[z + 1] = Delim
      /\ z + 2 <= n => body[z + 2] = Dashes
  <2> DEFINE t == << Crlf, Delim, Dashes, Crlf >>
  <2>1. Len(t) = 4 /\ t[1] = Crlf /\ t[2] = Delim /\ t[3] = Dashes
    OBVIOUS
  <2>2. \A k \in 1 .. 4 : z + k - 1 <= n => body[z + k - 1] = t[k]
    BY <2>1 DEF Agrees
  <2>3. z + 1 - 1 = z /\ z + 2 - 1 = z + 1 /\ z + 3 - 1 = z + 2 /\ 1 \in 1 .. 4 /\ 2 \in 1 .. 4 /\ 3 \in 1 .. 4
    BY <1>1
  <2> HIDE DEF t, z
  <2> QED BY <2>1, <2>2, <2>3
<1>4. \A j \in Nat : j >= d + 7 /\ j < z /\ j <= n => j - d - 6 \in 1 .. m /\ body[j] = wav[j - d - 6]
  <2> SUFFICES ASSUME NEW j \in Nat, j >= d + 7, j < z, j <= n
               PROVE  j - d - 6 \in 1 .. m /\ body[j] = wav[j - d - 6]
    OBVIOUS
  <2>1. j - d - 6 \in 1 .. m /\ d + 7 + (j - d - 6) - 1 = j
    BY <1>1
  <2> QED BY <2>1 DEF Agrees
<1>5. f[i] = ParseStep(f, body, i)
  BY <1>1 DEF IsParse
<1>6. ~Closes(body, i)
  BY <1>2, Marks DEF Closes
<1>7. CASE Broken(body, i)
  BY <1>5, <1>6, <1>7 DEF ParseStep
<1>8. CASE ~Broken(body, i)
  <2> HIDE DEF z
  <2>1. i <= n /\ h # 0 /\ e # 0
    BY <1>8 DEF Broken
  <2>2. /\ h \in Nat /\ h >= d + 2 /\ h + 1 <= n /\ body[h] = Crlf /\ body[h + 1] = Crlf
        /\ \A j \in Nat : j >= d + 2 /\ j < h => ~(j + 1 <= n /\ body[j] = Crlf /\ body[j + 1] = Crlf)
    <3>1. h # 0 /\ d \in Nat
      BY <1>1, <2>1
    <3> QED BY <3>1, HeadersEndAt DEF FirstPair
  <2>3. h = d + 5
    <3> HIDE DEF h
    <3>1. d + 2 + 1 = d + 3 /\ d + 3 + 1 = d + 4 /\ d + 4 + 1 = d + 5
      BY <1>1
    <3>2. h # d + 2
      BY <1>1, <1>2, <2>2, Marks
    <3>3. h # d + 3
      BY <1>1, <1>2, <2>2, <3>1, Marks
    <3>4. h # d + 4
      BY <1>1, <1>2, <2>2, Marks
    <3>5. h >= d + 5
      BY <1>1, <2>2, <3>2, <3>3, <3>4
    <3>6. d + 5 + 1 = d + 6 /\ d + 5 \in Nat /\ d + 5 >= d + 2 /\ d + 6 <= n /\ d + 5 <= n
      BY <1>1, <2>2, <3>5
    <3>7. ~(d + 5 < h)
      BY <1>2, <2>2, <3>6
    <3> QED BY <1>1, <2>2, <3>5, <3>7
  <2>4. /\ e \in Nat /\ e >= d + 7 /\ e + 1 <= n /\ body[e] = Crlf /\ body[e + 1] = Delim
        /\ \A j \in Nat : j >= d + 7 /\ j < e => ~(j + 1 <= n /\ body[j] = Crlf /\ body[j + 1] = Delim)
    <3>1. d + 7 \in Nat \ {0} /\ h + 2 = d + 7 /\ e # 0
      BY <1>1, <2>1, <2>3
    <3> QED BY <3>1, PartEndAt DEF FirstPair
  <2>5. e = z
    <3> HIDE DEF e, h, i, n, m
    <3>1. ~(e < z)
      <4> SUFFICES ASSUME e < z PROVE FALSE
        OBVIOUS
      <4>1. e <= n /\ e \in Nat
        BY <1>1, <2>4
      <4>2. e - d - 6 \in 1 .. m /\ wav[e - d - 6] = Crlf
        BY <1>4, <2>4, <4>1
      <4>3. CASE e + 1 < z
        <5>1. e + 1 \in Nat /\ e + 1 >= d + 7
          BY <1>1, <2>4
        <5>2. e + 1 - d - 6 \in 1 .. m /\ wav[e + 1 - d - 6] = Delim
          BY <1>4, <2>4, <4>3, <5>1
        <5>3. e - d - 6 \in 1 .. m - 1 /\ e + 1 - d - 6 = e - d - 6 + 1
          BY <1>1, <4>1, <4>2, <5>2
        <5> QED BY <4>2, <5>2, <5>3 DEF m
      <4>4. CASE e + 1 = z
        BY <1>3, <2>4, <4>4, Marks
      <4> QED BY <1>1, <2>4, <4>3, <4>4
    <3>2. CASE z < e
      <4>1. z <= n /\ z + 1 <= n /\ z \in Nat
        BY <1>1, <2>4, <3>2
      <4> QED BY <1>1, <1>3, <2>4, <3>2, <4>1
    <3> QED BY <1>1, <2>4, <3>1, <3>2
  <2>6. SubSeq(body, d + 7, e - 1) = wav
    <3>1. d + 7 \in Nat \ {0} /\ d + 7 + m - 1 = e - 1 /\ e - 1 <= n /\ e - 1 < z
      BY <1>1, <2>4, <2>5 DEF z
    <3>2. ASSUME NEW k \in 1 .. Len(wav) PROVE body[d + 7 + k - 1] = wav[k]
      <4> DEFINE j == d + 7 + k - 1
      <4>1. j \in Nat /\ j >= d + 7 /\ j < z /\ j <= n /\ j - d - 6 = k
        BY <1>1, <2>4, <2>5 DEF z
      <4> HIDE DEF j, z, n, m, h, e, i
      <4>2. body[j] = wav[j - d - 6]
        BY <1>4, <4>1
      <4>3. body[j] = wav[k]
        BY <4>1, <4>2
      <4> QED BY <4>3 DEF j
    <3> HIDE DEF e
    <3>3. SubSeq(body, d + 7, d + 7 + Len(wav) - 1) = wav
      BY <3>1, <3>2, PieceIs
    <3> QED BY <3>1, <3>3
  <2>7. PartAt(body, i) = [name |-> "file", data |-> wav]
    <3>1. h + 2 = d + 7 /\ i + 1 = d + 2 /\ d + 2 <= n
      <4> HIDE DEF h, e
      <4> QED BY <1>1, <2>2, <2>3, SMTT(30)
    <3> QED BY <1>2, <2>6, <3>1 DEF PartAt
  <2>8. f[e + 2] \in {<<>>, Malformed}
    <3>1. e + 2 \in 1 .. n + 1
      BY <1>1, <2>4, SMTT(30)
    <3>2. f[e + 2] = ParseStep(f, body, e + 2)
      BY <3>1 DEF IsParse
    <3>3. e + 2 <= n => body[e + 2] = Dashes
      BY <1>3, <2>5
    <3>4. CASE e + 2 <= n
      BY <3>2, <3>3, <3>4 DEF ParseStep, Closes
    <3>5. CASE ~(e + 2 <= n)
      <4>1. Broken(body, e + 2) /\ ~Closes(body, e + 2)
        BY <1>1, <2>4, <3>5 DEF Broken, Closes
      <4> QED BY <3>2, <4>1 DEF ParseStep
    <3> QED BY <3>4, <3>5
  <2>9. f[i] = << PartAt(body, i) >> \o f[e + 2]
    BY <1>5, <1>6, <1>8 DEF ParseStep
  <2> HIDE DEF e, h
  <2> QED BY <2>7, <2>8, <2>9
<1> QED BY <1>7, <1>8

-----------------------------------------------------------------------------
(* The first part of a name: where it is, 0 if there is none. *)
IsFirstOf(s, name, r) ==
  \/ r = 0 /\ \A i \in 1 .. Len(s) : s[i].name # name
  \/ r \in 1 .. Len(s) /\ s[r].name = name /\ \A i \in 1 .. Len(s) : i < r => s[i].name # name

LEMMA FirstOfIs ==
  ASSUME NEW X, NEW s \in Seq(X), NEW name
  PROVE  IsFirstOf(s, name, FirstOf(s, name))
<1> DEFINE S == {i \in 1 .. Len(s) : s[i].name = name}
           r == FirstOf(s, name)
<1>1. r = IF S # {} THEN Min(S) ELSE 0
  BY DEF FirstOf, SelectInSeq
<1>2. S \subseteq Nat /\ \A i \in 1 .. Len(s) : i \in S <=> s[i].name = name
  OBVIOUS
<1>3. S \subseteq 1 .. Len(s)
  OBVIOUS
<1> HIDE DEF S
<1>4. CASE S = {}
  <2>1. r = 0
    BY <1>1, <1>4
  <2>2. \A i \in 1 .. Len(s) : s[i].name # name
    BY <1>2, <1>4
  <2> HIDE DEF r
  <2>3. IsFirstOf(s, name, r)
    BY <2>1, <2>2 DEF IsFirstOf
  <2> QED BY <2>3 DEF r
<1>5. CASE S # {}
  <2>1. \E j \in S : \A k \in S : j <= k
    BY <1>2, <1>5, LeastNat
  <2>2. Min(S) \in S /\ \A k \in S : Min(S) <= k
    BY <2>1, Zenon DEF Min
  <2>3. r \in S /\ \A k \in S : r <= k
    BY <1>1, <1>5, <2>2
  <2> HIDE DEF r
  <2>4. r \in 1 .. Len(s) /\ s[r].name = name
    BY <1>2, <1>3, <2>3
  <2>5. ASSUME NEW i \in 1 .. Len(s), i < r PROVE s[i].name # name
    <3>1. ~(r <= i)
      BY <2>4, <2>5
    <3> QED BY <1>2, <2>3, <3>1
  <2>6. IsFirstOf(s, name, r)
    BY <2>4, <2>5 DEF IsFirstOf
  <2> QED BY <2>6 DEF r
<1> QED BY <1>4, <1>5

(* Of a form the part of that name has those data; a malformed body is none. *)
Reads(s, P, name, data) ==
  /\ s \in Seq(P)
  /\ FirstOf(s, "malformed") = 0 =>
       FirstOf(s, name) \in 1 .. Len(s) /\ s[FirstOf(s, name)].data = data

LEMMA MalformedIsRead ==
  ASSUME NEW P, [name |-> "malformed", data |-> <<>>] \in P, NEW name, NEW data
  PROVE  Reads(Malformed, P, name, data)
<1>1. Malformed \in Seq(P) /\ Len(Malformed) = 1 /\ Malformed[1].name = "malformed"
  BY DEF Malformed
<1>2. IsFirstOf(Malformed, "malformed", FirstOf(Malformed, "malformed"))
  BY <1>1, FirstOfIs
<1>3. FirstOf(Malformed, "malformed") # 0
  <2>1. 1 \in 1 .. Len(Malformed)
    BY <1>1
  <2> QED BY <1>1, <1>2, <2>1 DEF IsFirstOf
<1> QED BY <1>1, <1>3 DEF Reads

LEMMA FirstIsRead ==
  ASSUME NEW P, NEW s \in Seq(P), NEW x \in P
  PROVE  Reads(<< x >> \o s, P, x.name, x.data)
<1> DEFINE t == << x >> \o s
           r == FirstOf(t, x.name)
<1>1. t \in Seq(P) /\ t[1] = x /\ Len(t) \in Nat /\ 1 \in 1 .. Len(t)
  OBVIOUS
<1> HIDE DEF t
<1>2. IsFirstOf(t, x.name, r)
  BY <1>1, FirstOfIs
<1>3. r = 1
  <2> HIDE DEF r
  <2>1. r # 0 /\ r \in 1 .. Len(t)
    BY <1>1, <1>2 DEF IsFirstOf
  <2>2. ~(1 < r)
    BY <1>1, <1>2, <2>1 DEF IsFirstOf
  <2> QED BY <1>1, <2>1, <2>2
<1>4. Reads(t, P, x.name, x.data)
  BY <1>1, <1>3 DEF Reads
<1> QED BY <1>4 DEF t

LEMMA LaterIsRead ==
  ASSUME NEW P, NEW s, NEW x \in P, NEW name, NEW data, x.name # name, x.name # "malformed",
         Reads(s, P, name, data)
  PROVE  Reads(<< x >> \o s, P, name, data)
<1> DEFINE t == << x >> \o s
           n == Len(s)
<1>1. s \in Seq(P) /\ n \in Nat
  BY DEF Reads
<1>2. /\ t \in Seq(P) /\ t[1] = x /\ Len(t) = n + 1
      /\ \A i \in 1 .. n : t[i + 1] = s[i] /\ i + 1 \in 1 .. n + 1
      /\ \A i \in 1 .. n + 1 : i = 1 \/ \E j \in 1 .. n : i = j + 1
  <2>1. t \in Seq(P) /\ t[1] = x /\ Len(t) = n + 1
    BY <1>1
  <2>2. \A i \in 1 .. n : t[i + 1] = s[i]
    BY <1>1
  <2>3. \A i \in 1 .. n : i + 1 \in 1 .. n + 1
    BY <1>1
  <2>4. ASSUME NEW i \in 1 .. n + 1, i # 1 PROVE \E j \in 1 .. n : i = j + 1
    <3>1. i - 1 \in 1 .. n /\ i = i - 1 + 1
      BY <1>1, <2>4
    <3> QED BY <3>1
  <2> HIDE DEF t, n
  <2>5. \A i \in 1 .. n + 1 : i = 1 \/ \E j \in 1 .. n : i = j + 1
    BY <2>4
  <2> QED BY <2>1, <2>2, <2>3, <2>5
<1> HIDE DEF t
<1>3. ASSUME NEW w, x.name # w
      PROVE  FirstOf(t, w) = IF FirstOf(s, w) = 0 THEN 0 ELSE FirstOf(s, w) + 1
  <2> DEFINE a == FirstOf(s, w)
             b == FirstOf(t, w)
  <2>1. IsFirstOf(s, w, a) /\ IsFirstOf(t, w, b)
    BY <1>1, <1>2, FirstOfIs
  <2> HIDE DEF a, b
  <2>2. CASE a = 0
    <3>1. \A i \in 1 .. n : s[i].name # w
      BY <1>1, <2>1, <2>2 DEF IsFirstOf
    <3>2. \A i \in 1 .. n + 1 : t[i].name # w
      BY <1>2, <1>3, <3>1, SMTT(30)
    <3> QED BY <1>2, <2>1, <2>2, <3>2 DEF IsFirstOf, a, b
  <2>3. CASE a # 0
    <3>1. a \in 1 .. n /\ s[a].name = w /\ \A i \in 1 .. n : i < a => s[i].name # w
      BY <2>1, <2>3 DEF IsFirstOf
    <3>2. a + 1 \in 1 .. n + 1 /\ t[a + 1].name = w
      BY <1>2, <3>1
    <3>3. b \in 1 .. n + 1 /\ t[b].name = w /\ \A i \in 1 .. n + 1 : i < b => t[i].name # w
      BY <1>2, <2>1, <3>2 DEF IsFirstOf
    <3>4. ~(a + 1 < b)
      BY <3>2, <3>3
    <3>5. PICK j \in 1 .. n : b = j + 1 /\ s[j].name = w
      <4>1. b # 1
        BY <1>2, <1>3, <3>3
      <4>2. PICK j \in 1 .. n : b = j + 1
        BY <1>2, <3>3, <4>1
      <4> QED BY <1>2, <3>3, <4>2
    <3>6. ~(j < a)
      BY <3>1, <3>5
    <3>7. b = a + 1
      BY <1>1, <3>1, <3>4, <3>5, <3>6
    <3> QED BY <2>3, <3>7 DEF a, b
  <2> QED BY <2>2, <2>3
<1>4. Reads(t, P, name, data)
  <2>1. ASSUME FirstOf(t, "malformed") = 0
        PROVE  FirstOf(t, name) \in 1 .. Len(t) /\ t[FirstOf(t, name)].data = data
    <3> DEFINE a == FirstOf(s, name)
    <3>1. FirstOf(s, "malformed") = 0
      <4>1. IsFirstOf(s, "malformed", FirstOf(s, "malformed"))
        BY <1>1, FirstOfIs
      <4>2. FirstOf(s, "malformed") \in Nat
        BY <1>1, <4>1 DEF IsFirstOf
      <4> QED BY <1>3, <2>1, <4>2
    <3>2. a \in 1 .. n /\ s[a].data = data
      BY <3>1 DEF Reads
    <3>3. FirstOf(t, name) = a + 1
      BY <1>3, <3>2
    <3> HIDE DEF a
    <3> QED BY <1>2, <3>2, <3>3
  <2> QED BY <1>2, <2>1 DEF Reads
<1> QED BY <1>4 DEF t

(* What is read of a field, and of a file. *)
LEMMA FieldFound ==
  ASSUME NEW X, NEW body \in Seq(X), NEW f, IsParse(f, body), NEW d \in 1 .. Len(body),
         NEW name, name # Crlf, NEW value,
         HoldsField(body, d, name, value),
         NEW P, [name |-> "malformed", data |-> <<>>] \in P,
         [name |-> name, data |-> << value >>] \in P,
         NEW i, NEW e, NEW j, i = d + 1, e = d + 7, j = d + 8,
         e \in 1 .. Len(body) => f[j] \in Seq(P)
  PROVE  Reads(f[i], P, name, << value >>)
<1> DEFINE x == [name |-> name, data |-> << value >>]
<1>1. CASE f[i] = Malformed
  BY <1>1, MalformedIsRead
<1>2. CASE e \in 1 .. Len(body) /\ f[i] = << x >> \o f[j]
  <2>1. x \in P /\ x.name = name /\ x.data = << value >>
    OBVIOUS
  <2>2. f[j] \in Seq(P)
    BY <1>2
  <2> HIDE DEF x
  <2>3. Reads(<< x >> \o f[j], P, x.name, x.data)
    BY <2>1, <2>2, FirstIsRead
  <2> QED BY <1>2, <2>1, <2>3
<1>3. FieldAt(f, Len(body), d, x)
  BY FieldParsed
<1> QED BY <1>1, <1>2, <1>3 DEF FieldAt

LEMMA FileFound ==
  ASSUME NEW X, NEW body \in Seq(X), NEW f, IsParse(f, body), NEW d \in 1 .. Len(body),
         NEW Y, NEW wav \in Seq(Y), Unframed(wav), HoldsFile(body, d, wav),
         NEW P, [name |-> "malformed", data |-> <<>>] \in P, [name |-> "file", data |-> wav] \in P
  PROVE  Reads(f[d + 1], P, "file", wav)
<1> DEFINE x == [name |-> "file", data |-> wav]
<1>1. CASE f[d + 1] = Malformed
  BY <1>1, MalformedIsRead
<1>2. ASSUME NEW rest \in {<<>>, Malformed}, f[d + 1] = << x >> \o rest
      PROVE  Reads(f[d + 1], P, "file", wav)
  <2>1. x \in P /\ x.name = "file" /\ x.data = wav
    OBVIOUS
  <2>2. rest \in Seq(P)
    <3>1. Malformed \in Seq(P) /\ <<>> \in Seq(P)
      BY DEF Malformed
    <3> QED BY <3>1
  <2> HIDE DEF x
  <2>3. Reads(<< x >> \o rest, P, x.name, x.data)
    BY <2>1, <2>2, FirstIsRead
  <2> QED BY <1>2, <2>1, <2>3
<1>3. FileAt(f, d, x)
  BY FileParsed
<1> HIDE DEF x
<1> QED BY <1>1, <1>2, <1>3 DEF FileAt

LEMMA AgreesDelim ==
  ASSUME NEW body, NEW i \in Nat, Len(body) \in Nat, NEW X, NEW s \in Seq(X), Len(s) # 0,
         s[1] = Delim, Agrees(body, i, s)
  PROVE  Agrees(body, i, << Delim >>)
<1>1. 1 \in 1 .. Len(s)
  OBVIOUS
<1>2. i + 1 - 1 <= Len(body) => body[i + 1 - 1] = Delim
  BY <1>1 DEF Agrees
<1>3. Len(<< Delim >>) = 1 /\ << Delim >>[1] = Delim
  OBVIOUS
<1> DEFINE t == << Delim >>
<1> HIDE DEF t
<1>4. Len(t) = 1 /\ t[1] = Delim /\ \A k \in 1 .. 1 : k = 1
  BY <1>3 DEF t
<1>5. Agrees(body, i, t)
  BY <1>2, <1>4 DEF Agrees
<1> QED BY <1>5 DEF t

(* Where the seven runs of a request are in its body. *)
LEMMA RequestHolds ==
  ASSUME NEW body, Len(body) \in Nat, NEW W,
         NEW t1 \in Seq(W), NEW t2 \in Seq(W), NEW t3 \in Seq(W), NEW t4 \in Seq(W),
         NEW t5 \in Seq(W), NEW t6 \in Seq(W), NEW t7 \in Seq(W),
         Len(t1) = 7, Len(t2) = 7, Len(t3) = 7, Len(t5) = 7,
         Agrees(body, 1, t1 \o t2 \o t3 \o t4 \o t5 \o t6 \o t7)
  PROVE  /\ Agrees(body, 1, t1) /\ Agrees(body, 8, t2) /\ Agrees(body, 15, t3)
         /\ Agrees(body, 22, t4) /\ Agrees(body, 22 + Len(t4), t5)
         /\ Agrees(body, 22 + Len(t4) + 7, t6) /\ Agrees(body, 22 + Len(t4) + 7 + Len(t6), t7)
<1> DEFINE r2 == t1 \o t2
           r3 == r2 \o t3
           r4 == r3 \o t4
           r5 == r4 \o t5
           r6 == r5 \o t6
<1>0. \A s, t \in Seq(W) : s \o t \in Seq(W) /\ Len(s \o t) = Len(s) + Len(t) /\ Len(s) \in Nat
  OBVIOUS
<1>1. r2 \in Seq(W) /\ Len(r2) = 14
  <2>1. r2 \in Seq(W) /\ Len(r2) = Len(t1) + Len(t2)
    BY <1>0
  <2> HIDE DEF r2
  <2> QED BY <2>1
<1>2. r3 \in Seq(W) /\ Len(r3) = 21
  <2> HIDE DEF r2
  <2>1. r3 \in Seq(W) /\ Len(r3) = Len(r2) + Len(t3)
    BY <1>0, <1>1
  <2> HIDE DEF r3
  <2> QED BY <1>1, <2>1
<1>3. r4 \in Seq(W) /\ Len(r4) = 21 + Len(t4)
  <2> HIDE DEF r3
  <2> QED BY <1>0, <1>2
<1>4. r5 \in Seq(W) /\ Len(r5) = 21 + Len(t4) + 7
  <2> HIDE DEF r4
  <2> QED BY <1>0, <1>3
<1>5. r6 \in Seq(W) /\ Len(r6) = 21 + Len(t4) + 7 + Len(t6)
  <2> HIDE DEF r5
  <2> QED BY <1>0, <1>4
<1>6. Len(t4) \in Nat /\ Len(t6) \in Nat /\ 1 \in Nat
  OBVIOUS
<1>7. Agrees(body, 1, r6 \o t7)
  OBVIOUS
<1>8. Agrees(body, 1, r6) /\ Agrees(body, 1 + Len(r6), t7)
  <2> HIDE DEF r6
  <2> QED BY <1>5, <1>6, <1>7, AgreesOnBoth
<1>9. Agrees(body, 1, r5) /\ Agrees(body, 1 + Len(r5), t6)
  <2> HIDE DEF r5
  <2> QED BY <1>4, <1>6, <1>8, AgreesOnBoth
<1>10. Agrees(body, 1, r4) /\ Agrees(body, 1 + Len(r4), t5)
  <2> HIDE DEF r4
  <2> QED BY <1>3, <1>6, <1>9, AgreesOnBoth
<1>11. Agrees(body, 1, r3) /\ Agrees(body, 1 + Len(r3), t4)
  <2> HIDE DEF r3
  <2> QED BY <1>2, <1>6, <1>10, AgreesOnBoth
<1>12. Agrees(body, 1, r2) /\ Agrees(body, 1 + Len(r2), t3)
  <2> HIDE DEF r2
  <2> QED BY <1>1, <1>6, <1>11, AgreesOnBoth
<1>13. Agrees(body, 1, t1) /\ Agrees(body, 1 + Len(t1), t2)
  BY <1>6, <1>12, AgreesOnBoth
<1> HIDE DEF r2, r3, r4, r5, r6
<1>14. /\ 1 + Len(t1) = 8 /\ 1 + Len(r2) = 15 /\ 1 + Len(r3) = 22 /\ 1 + Len(r4) = 22 + Len(t4)
       /\ 1 + Len(r5) = 22 + Len(t4) + 7 /\ 1 + Len(r6) = 22 + Len(t4) + 7 + Len(t6)
  BY <1>1, <1>2, <1>3, <1>4, <1>5, <1>6
<1> QED BY <1>8, <1>9, <1>10, <1>11, <1>12, <1>13, <1>14

(* inference_form finds what build_multipart wrote: if the body is a form at all, its file
   is the clip and its language the one that was sent. A body cut short anywhere is
   either none, or has lost nothing of both. *)
LEMMA FormIsRead ==
  ASSUME NEW X, NEW body \in Seq(X), NEW Y, NEW wav \in Seq(Y), Unframed(wav),
         NEW language, NEW prompt, Agrees(body, 1, BuildMultipart(language, prompt, wav)),
         NEW default, HasForm(body)
  PROVE  FormFile(body) = wav /\ FormLanguage(body, default) = language
<1> DEFINE n == Len(body)
           Part(name, data) == [name |-> name, data |-> data]
           P == {Part("malformed", <<>>), Part("response_format", << "verbose_json" >>),
                 Part("language", << language >>), Part("temperature", << "0.0" >>),
                 Part("prompt", << prompt >>), Part("file", wav)}
           t1 == TextField("response_format", "verbose_json")
           t2 == TextField("language", language)
           t3 == TextField("temperature", "0.0")
           tp == TextField("prompt", prompt)
           t4 == IF prompt = "" THEN <<>> ELSE tp
           t5 == << Delim, Crlf, "file", Crlf, "Content-Type", Crlf, Crlf >>
           t7 == << Crlf, Delim, Dashes, Crlf >>
           Z == {Delim, Crlf, Dashes, "response_format", "verbose_json", "language", language,
                 "temperature", "0.0", "prompt", prompt, "file", "Content-Type"}
           W == Z \cup Y
           start == FindFrom(body, 1, << Delim >>)
           parts == Parts(body)
           p == 22 + Len(t4)
<1>1. n \in Nat /\ FirstOf(parts, "malformed") = 0
  BY DEF HasForm
<1>2. /\ t1 \in Seq(Z) /\ t2 \in Seq(Z) /\ t3 \in Seq(Z) /\ tp \in Seq(Z)
      /\ t5 \in Seq(Z) /\ t7 \in Seq(Z) /\ t4 \in Seq(Z) /\ wav \in Seq(W)
  <2>1. t1 \in Seq(Z) /\ t2 \in Seq(Z) /\ t3 \in Seq(Z) /\ tp \in Seq(Z)
    BY DEF TextField
  <2>2. t5 \in Seq(Z) /\ t7 \in Seq(Z) /\ <<>> \in Seq(Z)
    OBVIOUS
  <2>3. wav \in Seq(W)
    <3> HIDE DEF Z
    <3> QED OBVIOUS
  <2> HIDE DEF Z, W, t1, t2, t3, t5, tp, t7
  <2> QED BY <2>1, <2>2, <2>3
<1>3. /\ Len(t1) = 7 /\ Len(t2) = 7 /\ Len(t3) = 7 /\ Len(t5) = 7 /\ Len(tp) = 7 /\ Len(<<>>) = 0
      /\ t1[1] = Delim /\ t2[1] = Delim /\ t3[1] = Delim /\ t5[1] = Delim /\ tp[1] = Delim
  BY DEF TextField
<1>4. BuildMultipart(language, prompt, wav) = t1 \o t2 \o t3 \o t4 \o t5 \o wav \o t7
  BY DEF BuildMultipart
<1>5. /\ Agrees(body, 1, t1) /\ Agrees(body, 8, t2) /\ Agrees(body, 15, t3)
      /\ Agrees(body, 22, t4) /\ Agrees(body, p, t5)
      /\ Agrees(body, p + 7, wav) /\ Agrees(body, p + 7 + Len(wav), t7)
  <2>1. /\ t1 \in Seq(W) /\ t2 \in Seq(W) /\ t3 \in Seq(W) /\ t4 \in Seq(W)
        /\ t5 \in Seq(W) /\ t7 \in Seq(W)
    <3>1. \A s \in Seq(Z) : s \in Seq(W)
      <4> HIDE DEF Z
      <4> QED OBVIOUS
    <3> HIDE DEF Z, W, t1, t2, t3, t4, t5, t7
    <3> QED BY <1>2, <3>1
  <2> HIDE DEF Z, W, t1, t2, t3, t4, t5, t7
  <2>2. Agrees(body, 1, t1 \o t2 \o t3 \o t4 \o t5 \o wav \o t7)
    BY <1>4
  <2> QED BY <1>1, <1>2, <1>3, <2>1, <2>2, RequestHolds
<1>6. /\ Part("malformed", <<>>) \in P /\ Part("response_format", << "verbose_json" >>) \in P
      /\ Part("language", << language >>) \in P /\ Part("temperature", << "0.0" >>) \in P
      /\ Part("prompt", << prompt >>) \in P /\ Part("file", wav) \in P
  OBVIOUS
<1>7. PICK f : IsParse(f, body) /\ parts = IF start = 0 THEN Malformed ELSE f[start + 1]
  BY PartsParse
<1> HIDE DEF P, Z, W, t1, t2, t3, t4, t5, tp, t7, parts, start
<1>8. /\ prompt = "" => p = 22
      /\ prompt # "" => p = 29 /\ t4 = tp
      /\ p \in Nat
  <2>1. prompt = "" => Len(t4) = 0
    BY <1>3 DEF t4
  <2>2. prompt # "" => t4 = tp
    BY DEF t4
  <2>3. Len(t4) = 0 => 22 + Len(t4) = 22 /\ 22 + Len(t4) \in Nat
    OBVIOUS
  <2>4. Len(t4) = 7 => 22 + Len(t4) = 29 /\ 22 + Len(t4) \in Nat
    OBVIOUS
  <2> QED BY <1>3, <2>1, <2>2, <2>3, <2>4
<1> HIDE DEF p
\* Each part begins with a delimiter.
<1>delim. ASSUME NEW i \in Nat, NEW s \in Seq(Z), Len(s) = 7, s[1] = Delim, Agrees(body, i, s)
      PROVE  Agrees(body, i, << Delim >>)
  BY <1>delim, <1>1, AgreesDelim
<1> DEFINE Names == {"response_format", "language", "temperature", "prompt"}
<1>names. \A name \in Names : name # Crlf /\ name # "malformed" /\ name # "file"
  BY Marks
<1>known. "response_format" \in Names /\ "language" \in Names /\ "temperature" \in Names /\ "prompt" \in Names
  OBVIOUS
<1> DEFINE Step(d, i, e, j, name, value, other, data) ==
             /\ Part(name, << value >>) \in P /\ name \in Names /\ other # name
             /\ i = d + 1 /\ e = d + 7 /\ j = d + 8
             /\ HoldsField(body, d, name, value)
             /\ e \in 1 .. n => Reads(f[j], P, other, data)
             => (d \in 1 .. n => Reads(f[i], P, other, data))
\* A field of another name does not change what is read after it.
<1>field. ASSUME NEW d, NEW i, NEW e, NEW j, NEW name, NEW value, NEW other, NEW data
      PROVE  Step(d, i, e, j, name, value, other, data)
  <2> SUFFICES ASSUME Part(name, << value >>) \in P, name \in Names, other # name,
                      i = d + 1, e = d + 7, j = d + 8, HoldsField(body, d, name, value),
                      e \in 1 .. n => Reads(f[j], P, other, data), d \in 1 .. n
               PROVE  Reads(f[i], P, other, data)
    OBVIOUS
  <2> DEFINE x == Part(name, << value >>)
  <2>1. CASE f[i] = Malformed
    BY <1>6, <2>1, MalformedIsRead
  <2>2. CASE e \in 1 .. n /\ f[i] = << x >> \o f[j]
    <3>1. x \in P /\ x.name # other /\ x.name # "malformed"
      BY <1>names
    <3>2. Reads(f[j], P, other, data)
      BY <2>2
    <3> HIDE DEF x
    <3>3. Reads(<< x >> \o f[j], P, other, data)
      BY <3>1, <3>2, LaterIsRead
    <3> QED BY <2>2, <3>3
  <2>3. FieldAt(f, n, d, x)
    <3>1. name # Crlf
      BY <1>names
    <3> QED BY <1>7, <3>1, FieldParsed
  <2> QED BY <2>1, <2>2, <2>3 DEF FieldAt
<1> HIDE DEF Part, Names, Step
<1>9. p \in 1 .. n => Reads(f[p + 1], P, "file", wav)
  <2>1. HoldsFile(body, p, wav)
    BY <1>5 DEF HoldsFile, t5, t7
  <2> QED BY <1>6, <1>7, <2>1, FileFound DEF Part
<1>10. Agrees(body, p, << Delim >>)
  BY <1>delim, <1>2, <1>3, <1>5, <1>8
<1>11. Agrees(body, 22, << Delim >>) /\ (22 \in 1 .. n => Reads(f[23], P, "file", wav))
  <2>1. CASE prompt = ""
    <3>1. p = 22
      BY <1>8, <2>1
    <3>2. 22 + 1 = 23
      OBVIOUS
    <3> QED BY <1>9, <1>10, <3>1, <3>2
  <2>2. CASE prompt # ""
    <3>0. p = 29 /\ t4 = tp
      BY <1>8, <2>2
    <3>1. p = 29 /\ t4 = tp /\ 22 + 7 = 29 /\ 22 + 8 = 30 /\ 29 + 1 = 30 /\ 22 + 1 = 23 /\ 22 \in Nat
      BY <3>0
    <3>2. Agrees(body, 22, tp) /\ Agrees(body, 29, << Delim >>)
      BY <1>5, <1>10, <3>1
    <3>3. HoldsField(body, 22, "prompt", prompt)
      BY <3>1, <3>2 DEF HoldsField, tp
    <3>4. Agrees(body, 22, << Delim >>)
      BY <1>delim, <1>2, <1>3, <3>1, <3>2
    <3>5. 29 \in 1 .. n => Reads(f[30], P, "file", wav)
      BY <1>9, <3>1
    <3>6. 22 \in 1 .. n => Reads(f[23], P, "file", wav)
      <4>1. Step(22, 23, 29, 30, "prompt", prompt, "file", wav)
        BY <1>field
      <4>2. "prompt" # "file"
        OBVIOUS
      <4> QED BY <1>6, <1>known, <3>1, <3>3, <3>5, <4>1, <4>2 DEF Step
    <3> QED BY <3>1, <3>4, <3>6
  <2> QED BY <2>1, <2>2
<1>12. 15 \in 1 .. n => Reads(f[16], P, "file", wav)
  <2>1. 15 + 7 = 22 /\ 15 + 8 = 23 /\ 15 + 1 = 16
    OBVIOUS
  <2>2. HoldsField(body, 15, "temperature", "0.0")
    BY <1>5, <1>11, <2>1 DEF HoldsField, t3
  <2>3. 15 \in 1 .. n => Reads(f[16], P, "file", wav)
    <3>1. Step(15, 16, 22, 23, "temperature", "0.0", "file", wav)
      BY <1>field
    <3>2. "temperature" # "file"
      OBVIOUS
    <3> QED BY <1>6, <1>known, <1>11, <2>1, <2>2, <3>1, <3>2 DEF Step
  <2> QED BY <2>1, <2>3
<1>13. HoldsField(body, 8, "language", language)
  <2>1. 8 + 7 = 15 /\ 15 \in Nat
    OBVIOUS
  <2>2. Agrees(body, 15, << Delim >>)
    BY <1>delim, <1>2, <1>3, <1>5, <2>1
  <2> QED BY <1>5, <2>1, <2>2 DEF HoldsField, t2
<1>14. 8 \in 1 .. n => Reads(f[9], P, "file", wav) /\ Reads(f[9], P, "language", << language >>)
  <2>1. 8 + 7 = 15 /\ 8 + 8 = 16 /\ 8 + 1 = 9
    OBVIOUS
  <2>2. 8 \in 1 .. n => Reads(f[9], P, "file", wav)
    <3>1. Step(8, 9, 15, 16, "language", language, "file", wav)
      BY <1>field
    <3>2. "language" # "file"
      OBVIOUS
    <3> QED BY <1>6, <1>known, <1>12, <1>13, <2>1, <3>1, <3>2 DEF Step
  <2>3. 15 \in 1 .. n => f[16] \in Seq(P)
    BY <1>12 DEF Reads
  <2>4. 8 \in 1 .. n => Reads(f[9], P, "language", << language >>)
    BY <1>6, <1>7, <1>13, <2>1, <2>3, Marks, FieldFound DEF Part
  <2> QED BY <2>1, <2>2, <2>4
<1>15. 1 \in 1 .. n => Reads(f[2], P, "file", wav) /\ Reads(f[2], P, "language", << language >>)
  <2>1. 1 + 7 = 8 /\ 1 + 8 = 9 /\ 1 + 1 = 2 /\ 8 \in Nat
    OBVIOUS
  <2>2. Agrees(body, 8, << Delim >>)
    BY <1>delim, <1>2, <1>3, <1>5, <2>1
  <2>3. HoldsField(body, 1, "response_format", "verbose_json")
    BY <1>5, <2>1, <2>2 DEF HoldsField, t1
  <2>4. 1 \in 1 .. n => Reads(f[2], P, "file", wav)
    <3>1. Step(1, 2, 8, 9, "response_format", "verbose_json", "file", wav)
      BY <1>field
    <3>2. "response_format" # "file"
      OBVIOUS
    <3> QED BY <1>6, <1>known, <1>14, <2>1, <2>3, <3>1, <3>2 DEF Step
  <2>5. 1 \in 1 .. n => Reads(f[2], P, "language", << language >>)
    <3>1. Step(1, 2, 8, 9, "response_format", "verbose_json", "language", << language >>)
      BY <1>field
    <3>2. "response_format" # "language"
      OBVIOUS
    <3> QED BY <1>6, <1>known, <1>14, <2>1, <2>3, <3>1, <3>2 DEF Step
  <2> QED BY <2>1, <2>4, <2>5
<1>16. Reads(parts, P, "file", wav) /\ Reads(parts, P, "language", << language >>)
  <2>1. CASE start = 0
    BY <1>6, <1>7, <2>1, MalformedIsRead DEF Part
  <2>2. CASE start # 0
    <3>1. n # 0
      <4> SUFFICES ASSUME n = 0 PROVE start = 0
        BY <2>2
      <4>1. Len(<< Delim >>) = 1
        OBVIOUS
      <4>2. 1 .. n - Len(<< Delim >>) + 1 = {}
        BY <4>1
      <4> QED BY <4>2 DEF FindFrom, start
    <3>2. 1 \in 1 .. n /\ body[1] = Delim
      <4>1. 1 \in 1 .. n /\ 1 \in 1 .. Len(t1) /\ 1 + 1 - 1 = 1 /\ 1 <= n
        BY <1>1, <1>3, <3>1
      <4> QED BY <1>3, <1>5, <4>1 DEF Agrees
    <3>3. start = 1
      BY <3>1, <3>2, FindOneFirst DEF start
    <3> QED BY <1>7, <1>15, <2>2, <3>2, <3>3
  <2> QED BY <2>1, <2>2
<1>17. FormFile(body) = wav
  BY <1>1, <1>16 DEF Reads, FormFile, parts
<1>18. FormLanguage(body, default) = language
  <2> DEFINE k == FirstOf(parts, "language")
  <2>1. k \in 1 .. Len(parts) /\ parts[k].data = << language >>
    BY <1>1, <1>16 DEF Reads
  <2>2. k # 0 /\ << language >> # <<>> /\ << language >>[1] = language
    BY <2>1
  <2>3. FormLanguage(body, default)
          = IF k = 0 THEN default ELSE IF parts[k].data = <<>> THEN "" ELSE parts[k].data[1]
    BY DEF FormLanguage, parts
  <2> HIDE DEF k
  <2> QED BY <2>1, <2>2, <2>3
<1> QED BY <1>17, <1>18

-----------------------------------------------------------------------------
(* Rewriting. What stands at a place is what the pipeline matches there with its
   boundaries. *)
LEMMA StandsIfMatched ==
  ASSUME NEW X, NEW text \in Seq(X), NEW Y, NEW phrase \in Seq(Y), phrase # <<>>,
         NEW i \in 1 .. Len(text)
  PROVE  PhraseAt(text, i, phrase) <=> Stands(text, i, phrase)
<1> DEFINE n == Len(text)
           m == Len(phrase)
           j == i + m - 1
           a == Each(Fold, SubSeq(text, i, j))
           b == Each(Fold, phrase)
<1>1. n \in Nat /\ m \in Nat /\ m >= 1 /\ i >= 1 /\ i <= n /\ i \in Int
  OBVIOUS
<1>2. MatchesAt(text, i, phrase) <=> j <= n /\ a = b
  <2>1. MatchesAt(text, i, phrase) <=> j <= n /\ \A k \in 1 .. m : Fold(text[i + k - 1]) = Fold(phrase[k])
    BY DEF MatchesAt
  <2>2. ASSUME j <= n PROVE a = b <=> \A k \in 1 .. m : Fold(text[i + k - 1]) = Fold(phrase[k])
    <3> DEFINE s == SubSeq(text, i, j)
    <3>1. s = [k \in 1 .. m |-> text[i + k - 1]]
      <4>1. j - i + 1 = m /\ j \in Int
        BY <1>1
      <4>2. s = [k \in 1 .. j - i + 1 |-> text[i + k - 1]]
        BY <1>1, <2>2, <4>1
      <4> HIDE DEF j
      <4> QED BY <4>1, <4>2
    <3>2. DOMAIN s = 1 .. m /\ \A k \in 1 .. m : s[k] = text[i + k - 1]
      BY <3>1
    <3>3. DOMAIN phrase = 1 .. m
      OBVIOUS
    <3> HIDE DEF s, j, m, n
    <3>4. a = [k \in 1 .. m |-> Fold(s[k])] /\ b = [k \in 1 .. m |-> Fold(phrase[k])]
      BY <3>2, <3>3 DEF Each, s
    <3> HIDE DEF a, b
    <3>5. a = b <=> \A k \in 1 .. m : Fold(s[k]) = Fold(phrase[k])
      <4>1. (\A k \in 1 .. m : a[k] = Fold(s[k])) /\ (\A k \in 1 .. m : b[k] = Fold(phrase[k]))
        BY <3>4
      <4>2. a = [k \in 1 .. m |-> a[k]] /\ b = [k \in 1 .. m |-> b[k]]
        BY <3>4
      <4> QED BY <4>1, <4>2
    <3> QED BY <3>2, <3>5
  <2> QED BY <2>1, <2>2
<1>3. BoundaryOk(text, i, m) <=> \A k \in {i - 1, i + m} \cap (1 .. n) : ~IsAlphanumeric(text[k])
  <2>1. i - 1 \in 1 .. n <=> i # 1
    BY <1>1
  <2>2. i + m \in 1 .. n <=> ~(i + m > n)
    BY <1>1
  <2> HIDE DEF m
  <2> QED BY <2>1, <2>2 DEF BoundaryOk
<1>4. j + 1 = i + m
  BY <1>1
<1> HIDE DEF a, b
<1> QED BY <1>2, <1>3, <1>4 DEF PhraseAt, Stands, a, b

(* The scan of replace_phrase_ci, over the places A where a phrase of length m stands. *)
From(A, i) == {j \in A : i <= j}
ScanStep(f, text, A, m, to, i) ==
  IF From(A, i) = {} THEN SubSeq(text, i, Len(text))
  ELSE SubSeq(text, i, First(From(A, i)) - 1) \o to \o f[First(From(A, i)) + m]
IsScan(f, text, A, m, to) == \A i \in 1 .. Len(text) + 1 : f[i] = ScanStep(f, text, A, m, to, i)

(* The first of some places is one of them. *)
LEMMA FirstIsOne ==
  ASSUME NEW S, S \subseteq Nat, S # {}
  PROVE  First(S) \in S /\ \A j \in S : First(S) <= j
<1>1. \E i \in S : \A j \in S : i <= j
  BY LeastNat
<1> QED BY <1>1, Zenon DEF First

(* There is such a scan for every text, with what it returns from each place on a text. *)
LEMMA ScanExists ==
  ASSUME NEW X, NEW text \in Seq(X), NEW to \in Seq(X), NEW m \in Nat \ {0},
         NEW A, A \subseteq 1 .. Len(text), \A i \in A : i + m - 1 <= Len(text)
  PROVE  \E f \in [1 .. Len(text) + 1 -> Seq(X)] : IsScan(f, text, A, m, to)
<1> DEFINE n == Len(text)
           D == 1 .. n + 1
           Good(f, k) == \A i \in D : i + k > n + 1 => f[i] = ScanStep(f, text, A, m, to, i)
           S == {k \in Nat : \E f \in [D -> Seq(X)] : Good(f, k)}
<1>0. n \in Nat /\ \A i \in A : i \in Nat /\ i >= 1 /\ i + m <= n + 1
  OBVIOUS
<1>1. 0 \in S
  <2> DEFINE f == [i \in D |-> <<>>]
  <2>1. \A i \in D : ~(i + 0 > n + 1)
    BY <1>0
  <2>2. f \in [D -> Seq(X)]
    OBVIOUS
  <2>3. Good(f, 0)
    BY <2>1
  <2> HIDE DEF f, Good
  <2> QED BY <2>2, <2>3
<1>2. ASSUME NEW k \in Nat, k \in S PROVE k + 1 \in S
  <2>1. PICK f \in [D -> Seq(X)] : Good(f, k)
    BY <1>2
  <2> DEFINE p == n + 1 - k
             h == [i \in D |-> IF i = p THEN ScanStep(f, text, A, m, to, i) ELSE f[i]]
  <2>2. ASSUME NEW i \in D PROVE ScanStep(f, text, A, m, to, i) \in Seq(X)
    <3> DEFINE j == First(From(A, i))
    <3>1. CASE From(A, i) = {}
      <4>1. \A k1 \in i .. n : text[k1] \in X
        BY <1>0
      <4>2. SubSeq(text, i, n) \in Seq(X)
        BY <1>0, <4>1, SubSeqProperties
      <4> QED BY <3>1, <4>2 DEF ScanStep
    <3>2. CASE From(A, i) # {}
      <4>1. j \in A /\ i <= j
        <5>1. From(A, i) \subseteq Nat
          BY <1>0 DEF From
        <5>2. j \in From(A, i)
          BY <3>2, <5>1, FirstIsOne
        <5> QED BY <5>2 DEF From
      <4> HIDE DEF j
      <4>2. j \in Nat /\ j - 1 \in Int /\ j + m \in D
        BY <1>0, <4>1
      <4>3. \A k1 \in i .. j - 1 : text[k1] \in X
        <5>1. \A k1 \in i .. j - 1 : k1 \in 1 .. n
          BY <1>0, <4>1
        <5> QED BY <5>1
      <4>4. SubSeq(text, i, j - 1) \in Seq(X)
        BY <4>2, <4>3, SubSeqProperties
      <4>5. f[j + m] \in Seq(X)
        BY <2>1, <4>2
      <4>6. SubSeq(text, i, j - 1) \o to \o f[j + m] \in Seq(X)
        BY <4>4, <4>5
      <4> QED BY <3>2, <4>6 DEF ScanStep, j
    <3> QED BY <3>1, <3>2
  <2>3. h \in [D -> Seq(X)]
    BY <2>1, <2>2
  <2>4. \A i \in D : h[i] = IF i = p THEN ScanStep(f, text, A, m, to, i) ELSE f[i]
    OBVIOUS
  <2>5. p \in Int /\ \A i \in D : i + (k + 1) > n + 1 => i \in Int /\ i >= p /\ (i = p \/ i + k > n + 1)
    BY <1>0
  <2> HIDE DEF h, p
  <2>6. ASSUME NEW i \in D, i + (k + 1) > n + 1 PROVE h[i] = ScanStep(h, text, A, m, to, i)
    <3> DEFINE next == First(From(A, i)) + m
    <3>1. From(A, i) # {} => next \in D /\ next # p
      <4> SUFFICES ASSUME From(A, i) # {} PROVE next \in D /\ next # p
        OBVIOUS
      <4> DEFINE j == First(From(A, i))
      <4>1. From(A, i) \subseteq Nat
        BY <1>0 DEF From
      <4>2. j \in From(A, i)
        BY <4>1, FirstIsOne
      <4>3. j \in A /\ i <= j
        BY <4>2 DEF From
      <4> HIDE DEF j
      <4>4. j \in Nat /\ j >= 1 /\ j + m <= n + 1 /\ i >= p /\ i \in Int /\ p \in Int
        BY <1>0, <2>5, <2>6, <4>3
      <4>5. j + m \in D /\ j + m # p
        BY <1>0, <4>3, <4>4
      <4> QED BY <4>5 DEF j
    <3>2. From(A, i) # {} => h[next] = f[next]
      <4> HIDE DEF next
      <4> QED BY <2>4, <3>1
    <3>3. ScanStep(h, text, A, m, to, i) = ScanStep(f, text, A, m, to, i)
      BY <3>2 DEF ScanStep
    <3>4. i # p => f[i] = ScanStep(f, text, A, m, to, i)
      BY <2>1, <2>5, <2>6
    <3> QED BY <2>4, <3>3, <3>4
  <2>7. Good(h, k + 1)
    BY <2>6
  <2> HIDE DEF Good
  <2> QED BY <2>3, <2>7
<1>3. n + 1 \in S
  <2> HIDE DEF S
  <2>1. n + 1 \in Nat
    BY <1>0
  <2> QED BY <1>1, <1>2, <2>1, Induction
<1>4. PICK f \in [D -> Seq(X)] : Good(f, n + 1)
  BY <1>3
<1>5. \A i \in D : i + (n + 1) > n + 1
  BY <1>0
<1>6. IsScan(f, text, A, m, to)
  BY <1>4, <1>5 DEF IsScan
<1> QED BY <1>6

(* The places where a phrase stands for itself. *)
Places(text, phrase) == {i \in 1 .. Len(text) : Stands(text, i, phrase)}

LEMMA PlacesFit ==
  ASSUME NEW X, NEW text \in Seq(X), NEW Y, NEW phrase \in Seq(Y)
  PROVE  /\ Places(text, phrase) \subseteq 1 .. Len(text)
         /\ \A i \in Places(text, phrase) : i + Len(phrase) - 1 <= Len(text)
  BY DEF Places, Stands

(* replace_phrase_ci scans them from the first character on. *)
LEMMA ReplaceScans ==
  ASSUME NEW X, NEW text \in Seq(X), NEW to \in Seq(X),
         NEW Y, NEW phrase \in Seq(Y), phrase # <<>>
  PROVE  \E f : /\ IsScan(f, text, Places(text, phrase), Len(phrase), to)
                /\ ReplacePhrase(text, phrase, to) = f[1]
<1> DEFINE n == Len(text)
           D == 1 .. n + 1
           A == Places(text, phrase)
           m == Len(phrase)
           Next(i) == {j \in i .. n : PhraseAt(text, j, phrase)}
           Body(f, i) == IF Next(i) = {} THEN SubSeq(text, i, n)
                         ELSE LET j == First(Next(i)) IN SubSeq(text, i, j - 1) \o to \o f[j + m]
           Eq(f) == f = [i \in D |-> Body(f, i)]
           out == CHOOSE f : Eq(f)
<1>0. n \in Nat /\ m \in Nat \ {0}
  OBVIOUS
<1>1. ASSUME NEW i \in D PROVE Next(i) = From(A, i)
  <2>1. \A j \in i .. n : j \in 1 .. n
    BY <1>0
  <2>2. \A j \in 1 .. n : i <= j => j \in i .. n
    BY <1>0
  <2>3. \A j \in i .. n : i <= j
    BY <1>0
  <2>4. \A j \in 1 .. n : PhraseAt(text, j, phrase) <=> Stands(text, j, phrase)
    BY StandsIfMatched
  <2>5. Next(i) \subseteq From(A, i)
    BY <2>1, <2>3, <2>4 DEF From, Places
  <2>6. From(A, i) \subseteq Next(i)
    BY <2>2, <2>4 DEF From, Places
  <2> QED BY <2>5, <2>6
<1>2. ASSUME NEW f, NEW i \in D PROVE Body(f, i) = ScanStep(f, text, A, m, to, i)
  <2> HIDE DEF Next, A, m
  <2> QED BY <1>1 DEF ScanStep
<1>3. \E f : Eq(f)
  <2>1. PICK f \in [D -> Seq(X)] : IsScan(f, text, A, m, to)
    <3> HIDE DEF A, m
    <3>1. A \subseteq 1 .. n /\ \A i \in A : i + m - 1 <= n
      BY PlacesFit DEF A, m
    <3> QED BY <1>0, <3>1, ScanExists
  <2>2. \A i \in D : f[i] = Body(f, i)
    <3> HIDE DEF Body
    <3> QED BY <1>2, <2>1 DEF IsScan
  <2>3. Eq(f)
    <3> HIDE DEF Body
    <3> QED BY <2>2
  <2> HIDE DEF Eq
  <2> QED BY <2>3
<1>4. Eq(out)
  <2> HIDE DEF Eq
  <2> QED BY <1>3
<1>5. ReplacePhrase(text, phrase, to) = out[1]
  BY DEF ReplacePhrase
<1> HIDE DEF out
<1>6. IsScan(out, text, A, m, to)
  <2> DEFINE G == [i \in D |-> Body(out, i)]
  <2>1. out = G
    BY <1>4
  <2>2. \A i \in D : G[i] = Body(out, i)
    OBVIOUS
  <2> HIDE DEF G, Body
  <2> QED BY <1>2, <2>1, <2>2 DEF IsScan
<1> QED BY <1>5, <1>6

(* Some of the places, none of which overlaps another, and each of the others overlapping
   one that begins before it. *)
IsPacked(S, A, m) ==
  /\ S \in SUBSET A
  /\ \A i, j \in S : i < j => i + m <= j
  /\ \A j \in A \ S : \E i \in S : i < j /\ ~(i + m <= j)

LEMMA PackingExists ==
  ASSUME NEW n \in Nat, NEW A, A \subseteq 1 .. n, NEW m \in Nat
  PROVE  \E S : IsPacked(S, A, m)
<1> DEFINE Upto(k) == {j \in A : j <= k}
           T == {k \in Nat : \E S : IsPacked(S, Upto(k), m)}
<1>0. \A j \in A : j \in Nat /\ 1 <= j /\ j <= n
  OBVIOUS
<1>1. 0 \in T
  <2>0. \A j \in A : ~(j <= 0)
    BY <1>0
  <2>1. Upto(0) = {}
    BY <2>0
  <2>2. IsPacked({}, {}, m)
    BY DEF IsPacked
  <2> HIDE DEF Upto
  <2> QED BY <2>1, <2>2
<1>2. ASSUME NEW k \in Nat, k \in T PROVE k + 1 \in T
  <2>1. PICK S : IsPacked(S, Upto(k), m)
    BY <1>2
  <2>2. \A j \in A : j <= k + 1 <=> j <= k \/ j = k + 1
    BY <1>0
  <2>3. \A j \in S : j \in Nat /\ j <= k /\ j < k + 1
    BY <1>0, <2>1 DEF IsPacked
  <2>4. CASE k + 1 \notin A
    <3>1. Upto(k + 1) = Upto(k)
      BY <2>2, <2>4
    <3> HIDE DEF Upto
    <3> QED BY <2>1, <3>1
  <2>5. CASE k + 1 \in A /\ \E i \in S : i < k + 1 /\ ~(i + m <= k + 1)
    <3>1. Upto(k + 1) = Upto(k) \cup {k + 1}
      BY <2>2, <2>5
    <3> HIDE DEF Upto
    <3>2. IsPacked(S, Upto(k + 1), m)
      BY <2>1, <2>5, <3>1 DEF IsPacked
    <3> QED BY <3>2
  <2>6. CASE k + 1 \in A /\ \A i \in S : i < k + 1 => i + m <= k + 1
    <3> DEFINE R == S \cup {k + 1}
    <3>1. Upto(k + 1) = Upto(k) \cup {k + 1}
      BY <2>2, <2>6
    <3> HIDE DEF Upto
    <3>2. R \in SUBSET Upto(k + 1)
      BY <2>1, <3>1 DEF IsPacked
    <3>3. ASSUME NEW i \in R, NEW j \in R, i < j PROVE i + m <= j
      <4>1. CASE i \in S /\ j \in S
        BY <2>1, <3>3, <4>1 DEF IsPacked
      <4>2. CASE i \in S /\ j = k + 1
        BY <2>6, <3>3, <4>2
      <4>3. CASE i = k + 1
        BY <2>3, <3>3, <4>3
      <4> QED BY <4>1, <4>2, <4>3
    <3>4. \A j \in Upto(k + 1) \ R : \E i \in R : i < j /\ ~(i + m <= j)
      BY <2>1, <3>1 DEF IsPacked
    <3> HIDE DEF R
    <3>5. IsPacked(R, Upto(k + 1), m)
      BY <3>2, <3>3, <3>4 DEF IsPacked
    <3> QED BY <3>5
  <2> QED BY <2>4, <2>5, <2>6
<1>3. n \in T
  <2> HIDE DEF T
  <2> QED BY <1>1, <1>2, Induction
<1>4. Upto(n) = A
  BY <1>0
<1> HIDE DEF Upto
<1> QED BY <1>3, <1>4

LEMMA ReplacedIsPacked ==
  ASSUME NEW X, NEW text \in Seq(X), NEW Y, NEW phrase \in Seq(Y)
  PROVE  IsPacked(Replaced(text, phrase), Places(text, phrase), Len(phrase))
<1> DEFINE A == Places(text, phrase)
           m == Len(phrase)
<1>1. Replaced(text, phrase)
        = CHOOSE S \in SUBSET A : /\ \A i, j \in S : i < j => i + m <= j
                                  /\ \A j \in A \ S : \E i \in S : i < j /\ ~(i + m <= j)
  BY DEF Replaced, Places
<1>2. Len(text) \in Nat /\ m \in Nat /\ A \subseteq 1 .. Len(text)
  BY DEF Places
<1> HIDE DEF A, m
<1>3. \E S : IsPacked(S, A, m)
  BY <1>2, PackingExists
<1>4. \E S \in SUBSET A : /\ \A i, j \in S : i < j => i + m <= j
                          /\ \A j \in A \ S : \E i \in S : i < j /\ ~(i + m <= j)
  BY <1>3 DEF IsPacked
<1> DEFINE Q(S) == /\ \A i, j \in S : i < j => i + m <= j
                   /\ \A j \in A \ S : \E i \in S : i < j /\ ~(i + m <= j)
<1>5. Replaced(text, phrase) = CHOOSE S \in SUBSET A : Q(S)
  BY <1>1
<1>6. \E S \in SUBSET A : Q(S)
  BY <1>4
<1> HIDE DEF Q
<1>7. Replaced(text, phrase) \in SUBSET A /\ Q(Replaced(text, phrase))
  BY <1>5, <1>6, Zenon
<1> QED BY <1>7 DEF Q, IsPacked, A, m


(* What each place of the text becomes: the replacement where an occurrence begins, nothing
   inside one, the character itself elsewhere. *)
Pieces(text, S, m, to) ==
  [k \in 1 .. Len(text) |-> IF k \in S THEN to
                            ELSE IF \E i \in S : k \in i .. i + m - 1 THEN <<>> ELSE << text[k] >>]

LEMMA PiecesAre ==
  ASSUME NEW X, NEW text \in Seq(X), NEW to \in Seq(X), NEW S, NEW m
  PROVE  /\ Pieces(text, S, m, to) \in Seq(Seq(X)) /\ Len(Pieces(text, S, m, to)) = Len(text)
         /\ \A k \in 1 .. Len(text) :
              Pieces(text, S, m, to)[k]
                = IF k \in S THEN to
                  ELSE IF \E i \in S : k \in i .. i + m - 1 THEN <<>> ELSE << text[k] >>
<1> DEFINE n == Len(text)
           p == Pieces(text, S, m, to)
<1>1. n \in Nat /\ \A k \in 1 .. n : << text[k] >> \in Seq(X)
  OBVIOUS
<1>2. \A k \in 1 .. n : p[k] = IF k \in S THEN to
                              ELSE IF \E i \in S : k \in i .. i + m - 1 THEN <<>> ELSE << text[k] >>
  BY DEF Pieces
<1>3. \A k \in 1 .. n : p[k] \in Seq(X)
  <2>1. <<>> \in Seq(X)
    OBVIOUS
  <2> HIDE DEF p
  <2> QED BY <1>1, <1>2, <2>1
<1>4. p = [k \in 1 .. n |-> p[k]]
  BY DEF Pieces
<1> HIDE DEF p
<1>5. p \in [1 .. n -> Seq(X)]
  BY <1>3, <1>4
<1>6. p \in Seq(Seq(X)) /\ Len(p) = n
  BY <1>1, <1>5
<1> QED BY <1>2, <1>6 DEF p

(* Where the pieces are the characters themselves, the flattening copies the text. *)
PlainFrom(p, text, b, e) == \A k \in b + 1 .. e : p[k] = << text[k] >>
Copies(g, text, b, e) == g[e] = g[b] \o SubSeq(text, b + 1, e)

LEMMA PlainRun ==
  ASSUME NEW X, NEW text \in Seq(X), NEW p \in Seq(Seq(X)), Len(p) = Len(text),
         NEW g \in [0 .. Len(text) -> Seq(X)], Grows(g, p),
         NEW b \in Nat, NEW e \in Nat, b <= e, e <= Len(text), PlainFrom(p, text, b, e)
  PROVE  Copies(g, text, b, e)
<1> DEFINE n == Len(text)
           Sub(j) == SubSeq(text, b + 1, j)
           Good(j) == g[j] = g[b] \o Sub(j)
           T == {d \in Nat : b + d <= e => Good(b + d)}
<1>0. n \in Nat /\ b \in 0 .. n /\ g[b] \in Seq(X)
  OBVIOUS
<1>1. \A j \in Nat : j <= e => Sub(j) \in Seq(X)
  <2> SUFFICES ASSUME NEW j \in Nat, j <= e PROVE Sub(j) \in Seq(X)
    OBVIOUS
  <2>1. \A k \in b + 1 .. j : text[k] \in X
    <3>1. \A k \in b + 1 .. j : k \in 1 .. n
      BY <1>0
    <3> QED BY <3>1
  <2> QED BY <1>0, <2>1, SubSeqProperties
<1>2. Good(b)
  <2>1. b < b + 1
    OBVIOUS
  <2>2. Sub(b) = <<>>
    BY <2>1, SubSeqEmpty
  <2>3. g[b] \o <<>> = g[b]
    BY <1>0, ConcatEmptySeq
  <2> QED BY <2>2, <2>3
<1>3. ASSUME NEW j \in Nat, b <= j, j + 1 <= e, Good(j) PROVE Good(j + 1)
  <2> DEFINE k == j + 1
             u == g[b]
             v == Sub(j)
             w == << text[k] >>
  <2>1. /\ k \in 1 .. n /\ k \in b + 1 .. e /\ k - 1 = j /\ j <= e
        /\ b + 1 \in 1 .. n /\ k \in b + 1 .. n
    BY <1>0, <1>3
  <2>2. g[k] = g[j] \o p[k] /\ p[k] = w
    BY <2>1 DEF Grows, PlainFrom
  <2>3. Sub(k) = v \o w
    BY <2>1, SubSeqRecursiveSecond
  <2>4. u \in Seq(X) /\ v \in Seq(X) /\ w \in Seq(X)
    BY <1>0, <1>1, <2>1
  <2>5. g[j] = u \o v
    BY <1>3
  <2> HIDE DEF Sub, u, v, w, k
  <2>6. (u \o v) \o w = u \o (v \o w)
    BY <2>4, ConcatAssociative, SMTT(30)
  <2>7. g[k] = u \o Sub(k)
    BY <2>2, <2>3, <2>5, <2>6
  <2> QED BY <2>7 DEF u, k
<1> HIDE DEF Good
<1>4. 0 \in T
  BY <1>2
<1>5. ASSUME NEW d \in Nat, d \in T PROVE d + 1 \in T
  <2>1. b + d \in Nat /\ b <= b + d /\ b + (d + 1) = (b + d) + 1 /\ (b + (d + 1) <= e => b + d <= e)
    OBVIOUS
  <2> QED BY <1>3, <1>5, <2>1
<1>6. e - b \in Nat /\ b + (e - b) = e
  OBVIOUS
<1>7. e - b \in T
  <2> HIDE DEF T
  <2> QED BY <1>4, <1>5, <1>6, Induction
<1>8. Good(e)
  BY <1>6, <1>7
<1> QED BY <1>8 DEF Good, Copies

(* Where they are empty, it adds nothing. *)
EmptyFrom(p, b, e) == \A k \in b + 1 .. e : p[k] = <<>>
AddsNothing(g, b, e) == g[e] = g[b]

LEMMA EmptyRun ==
  ASSUME NEW X, NEW p \in Seq(Seq(X)), NEW n \in Nat, Len(p) = n,
         NEW g \in [0 .. n -> Seq(X)], Grows(g, p),
         NEW b \in Nat, NEW e \in Nat, b <= e, e <= n, EmptyFrom(p, b, e)
  PROVE  AddsNothing(g, b, e)
<1> DEFINE T == {d \in Nat : b + d <= e => g[b + d] = g[b]}
<1>0. Len(p) \in Nat /\ g[b] \in Seq(X)
  OBVIOUS
<1>1. 0 \in T
  OBVIOUS
<1>2. ASSUME NEW d \in Nat, d \in T PROVE d + 1 \in T
  <2> SUFFICES ASSUME b + (d + 1) <= e PROVE g[b + (d + 1)] = g[b]
    OBVIOUS
  <2> DEFINE j == b + d
             k == j + 1
  <2>1. b + (d + 1) = k /\ j \in Nat /\ b + d <= e /\ k \in 1 .. Len(p) /\ k \in b + 1 .. e
    BY <1>0
  <2>2. g[k] = g[j] \o p[k] /\ p[k] = <<>>
    BY <2>1 DEF Grows, EmptyFrom
  <2>3. g[j] = g[b]
    BY <1>2, <2>1
  <2>4. g[b] \o <<>> = g[b]
    BY <1>0, ConcatEmptySeq
  <2> HIDE DEF k, j
  <2> QED BY <2>1, <2>2, <2>3, <2>4
<1>3. e - b \in Nat /\ b + (e - b) = e
  OBVIOUS
<1>4. e - b \in T
  <2> HIDE DEF T
  <2> QED BY <1>1, <1>2, <1>3, Induction
<1> QED BY <1>3, <1>4 DEF AddsNothing

(* Two ways to join four sequences. *)
JoinsRight(X, q, u, t, r) ==
  u \o t \o r \in Seq(X) /\ q \o u \o t \o r = q \o (u \o t \o r)

LEMMA FourJoined ==
  ASSUME NEW X, NEW q \in Seq(X), NEW u \in Seq(X), NEW t \in Seq(X), NEW r \in Seq(X)
  PROVE  JoinsRight(X, q, u, t, r)
<1> DEFINE v == u \o t
<1>1. v \in Seq(X)
  BY ConcatProperties
<1>2. q \o u \o t = q \o v
  BY ConcatAssociative
<1> HIDE DEF v
<1>3. (q \o v) \o r = q \o (v \o r)
  BY <1>1, ConcatAssociative, SMTT(30)
<1>4. v \o r \in Seq(X)
  BY <1>1, ConcatProperties
<1> QED BY <1>2, <1>3, <1>4 DEF v, JoinsRight

(* Behind a place that no occurrence reaches, what the scan returns is the rest of the
   flattening. *)
Clear(S, m, i) == \A k \in S : k < i => k + m <= i
RestIs(X, f, g, n, b) == f[b + 1] \in Seq(X) /\ g[n] = g[b] \o f[b + 1]

LEMMA ScanOneStep ==
  ASSUME NEW X, NEW text \in Seq(X), NEW to \in Seq(X), NEW m \in Nat \ {0},
         NEW A, A \subseteq 1 .. Len(text), \A i \in A : i + m - 1 <= Len(text),
         NEW S, IsPacked(S, A, m), NEW f, IsScan(f, text, A, m, to),
         NEW p, p = Pieces(text, S, m, to), NEW g \in [0 .. Len(text) -> Seq(X)], Grows(g, p),
         NEW b \in 0 .. Len(text), Clear(S, m, b + 1),
         \A c \in 0 .. Len(text) : c > b /\ Clear(S, m, c + 1) => RestIs(X, f, g, Len(text), c)
  PROVE  RestIs(X, f, g, Len(text), b)
<1> DEFINE n == Len(text)
           i == b + 1
           F == From(A, i)
           Inside(k) == \E x \in S : k \in x .. x + m - 1
<1>0. /\ n \in Nat /\ b \in Nat /\ i \in Nat /\ i \in 1 .. n + 1 /\ i - 1 = b /\ g[b] \in Seq(X)
      /\ n \in 0 .. n
  OBVIOUS
<1>1. /\ p \in Seq(Seq(X)) /\ Len(p) = n
      /\ \A k \in 1 .. n : p[k] = IF k \in S THEN to ELSE IF Inside(k) THEN <<>> ELSE << text[k] >>
  BY PiecesAre
<1>2. \A x \in A : x \in Nat /\ x >= 1 /\ x <= n /\ x + m <= n + 1
  BY <1>0
<1>3. S \subseteq A
  BY DEF IsPacked
<1>4. f[i] = ScanStep(f, text, A, m, to, i)
  BY <1>0 DEF IsScan
<1>5. F \subseteq Nat
  BY <1>2 DEF From
<1> HIDE DEF Inside
\* Where none of the places is left before e, the characters are copied.
<1>6. ASSUME NEW e \in Nat, b <= e, e <= n, \A x \in A : ~(i <= x /\ x <= e)
      PROVE  g[e] = g[b] \o SubSeq(text, i, e)
  <2>1. ASSUME NEW k \in i .. e PROVE p[k] = << text[k] >>
    <3>1. k \in 1 .. n /\ i <= k /\ k <= e
      BY <1>0, <1>6, <2>1
    <3>2. k \notin S
      BY <1>3, <1>6, <3>1
    <3>3. ~Inside(k)
      <4> SUFFICES ASSUME NEW x \in S, k \in x .. x + m - 1 PROVE FALSE
        BY DEF Inside
      <4>1. x \in A /\ x \in Nat
        BY <1>2, <1>3
      <4>2. x <= k /\ k < x + m
        BY <3>1, <4>1
      <4>3. x < i
        BY <1>6, <3>1, <4>1, <4>2
      <4>4. x + m <= i
        BY <4>3 DEF Clear
      <4> QED BY <1>0, <3>1, <4>1, <4>2, <4>4
    <3> QED BY <1>1, <3>1, <3>2, <3>3
  <2>2. PlainFrom(p, text, b, e)
    BY <2>1 DEF PlainFrom
  <2>3. p \in Seq(Seq(X)) /\ Len(p) = Len(text) /\ b \in Nat
    BY <1>0, <1>1
  <2>4. Copies(g, text, b, e)
    BY <1>6, <2>2, <2>3, PlainRun
  <2> QED BY <2>4 DEF Copies
<1>7. CASE F = {}
  <2>1. \A x \in A : ~(i <= x /\ x <= n)
    BY <1>7 DEF From
  <2>2. g[n] = g[b] \o SubSeq(text, i, n)
    <3>1. n \in Nat /\ b <= n /\ n <= n
      BY <1>0
    <3> HIDE DEF n, i
    <3> QED BY <1>6, <2>1, <3>1
  <2>3. f[i] = SubSeq(text, i, n)
    BY <1>4, <1>7 DEF ScanStep
  <2>4. SubSeq(text, i, n) \in Seq(X)
    <3>1. \A k \in i .. n : text[k] \in X
      BY <1>0
    <3> HIDE DEF i
    <3> QED BY <1>0, <3>1, SubSeqProperties
  <2> QED BY <2>2, <2>3, <2>4 DEF RestIs
<1>8. CASE F # {}
  <2> DEFINE j == First(F)
             c == j + m - 1
             u == SubSeq(text, i, j - 1)
  <2>1. j \in F /\ \A x \in F : j <= x
    BY <1>5, <1>8, FirstIsOne
  <2> HIDE DEF j
  <2>2. j \in A /\ i <= j /\ \A x \in A : i <= x => j <= x
    BY <2>1 DEF From
  <2>3. /\ j \in Nat /\ j \in 1 .. n /\ j - 1 \in Nat /\ b <= j - 1 /\ j - 1 <= n /\ j <= n
        /\ c \in 0 .. n /\ c > b /\ c + 1 = j + m /\ j <= c /\ c \in Nat
    BY <1>0, <1>2, <2>2
  <2> HIDE DEF c
  <2>4. j \in S
    <3> SUFFICES ASSUME j \notin S PROVE FALSE
      OBVIOUS
    <3>1. PICK x \in S : x < j /\ ~(x + m <= j)
      BY <2>2 DEF IsPacked
    <3>2. x \in A /\ x \in Nat
      BY <1>2, <1>3
    <3>3. x < i
      BY <1>0, <2>2, <2>3, <3>1, <3>2
    <3>4. x + m <= i
      BY <3>3 DEF Clear
    <3> QED BY <1>0, <2>2, <2>3, <3>1, <3>2, <3>4
  <2>5. g[j - 1] = g[b] \o u
    <3>1. \A x \in A : ~(i <= x /\ x <= j - 1)
      <4> SUFFICES ASSUME NEW x \in A, i <= x, x <= j - 1 PROVE FALSE
        OBVIOUS
      <4>1. j <= x /\ x \in Nat
        BY <1>2, <2>2
      <4> QED BY <2>3, <4>1
    <3> QED BY <1>6, <2>3, <3>1
  <2>6. g[j] = g[j - 1] \o to
    <3>1. p[j] = to
      BY <1>1, <2>3, <2>4
    <3>2. j = (j - 1) + 1
      BY <2>3
    <3> QED BY <1>1, <2>3, <3>1, <3>2 DEF Grows
  <2>7. g[c] = g[j]
    <3>1. ASSUME NEW k \in j + 1 .. c PROVE p[k] = <<>>
      <4>1. k \in 1 .. n /\ j < k /\ k < j + m /\ k \in j .. j + m - 1 /\ k \in Int
        BY <1>0, <2>3, <3>1
      <4>2. Inside(k)
        BY <2>4, <4>1 DEF Inside
      <4>3. k \notin S
        <5> SUFFICES ASSUME k \in S PROVE FALSE
          OBVIOUS
        <5>1. j + m <= k
          BY <2>4, <4>1 DEF IsPacked
        <5> QED BY <2>3, <4>1, <5>1
      <4> QED BY <1>1, <4>1, <4>2, <4>3
    <3>2. n \in Nat /\ c <= n /\ Len(p) = n /\ g \in [0 .. n -> Seq(X)]
      BY <1>0, <1>1, <2>3
    <3>3. p \in Seq(Seq(X)) /\ j \in Nat /\ c \in Nat /\ j <= c
      BY <1>1, <2>3
    <3>4. EmptyFrom(p, j, c)
      BY <3>1 DEF EmptyFrom
    <3> HIDE DEF n
    <3>5. AddsNothing(g, j, c)
      BY <3>2, <3>3, <3>4, EmptyRun
    <3> QED BY <3>5 DEF AddsNothing
  <2>8. Clear(S, m, c + 1)
    <3> SUFFICES ASSUME NEW k \in S, k < c + 1 PROVE k + m <= c + 1
      BY DEF Clear
    <3>1. k \in Nat
      BY <1>2, <1>3
    <3>2. CASE j < k
      BY <2>3, <2>4, <3>1, <3>2 DEF IsPacked
    <3>3. CASE ~(j < k)
      BY <2>3, <3>1, <3>3
    <3> QED BY <3>2, <3>3
  <2>9. RestIs(X, f, g, n, c)
    BY <2>3, <2>8
  <2> DEFINE r == f[c + 1]
             q == g[b]
  <2>10. r \in Seq(X) /\ g[n] = g[c] \o r
    BY <2>9 DEF RestIs
  <2>11. f[i] = u \o to \o r
    BY <1>4, <1>8, <2>3 DEF ScanStep, j
  <2>12. u \in Seq(X) /\ q \in Seq(X)
    <3>1. \A k \in i .. j - 1 : k \in 1 .. n
      BY <1>0, <2>3
    <3>2. \A k \in i .. j - 1 : text[k] \in X
      BY <3>1
    <3> HIDE DEF i
    <3> QED BY <1>0, <2>3, <3>2, SubSeqProperties
  <2>13. g[n] = ((q \o u) \o to) \o r
    BY <2>5, <2>6, <2>7, <2>10
  <2> HIDE DEF u, r, q, i
  <2>14. JoinsRight(X, q, u, to, r)
    BY <2>10, <2>12, FourJoined
  <2>15. f[i] \in Seq(X) /\ g[n] = q \o f[i]
    BY <2>11, <2>13, <2>14 DEF JoinsRight
  <2> QED BY <2>15 DEF RestIs, q, i
<1> QED BY <1>7, <1>8

(* So the scan from the first character on returns all of it. *)
IsFlat(X, f, pieces) == f[1] \in Seq(X) /\ f[1] = FlattenSeq(pieces)
Fit(A, m, n) == A \subseteq 1 .. n /\ \A i \in A : i + m - 1 <= n

LEMMA ScanFlattens ==
  ASSUME NEW X, NEW text \in Seq(X), NEW to \in Seq(X), NEW m \in Nat \ {0},
         NEW A, Fit(A, m, Len(text)),
         NEW S, IsPacked(S, A, m), NEW f, IsScan(f, text, A, m, to)
  PROVE  IsFlat(X, f, Pieces(text, S, m, to))
<1> DEFINE n == Len(text)
           p == Pieces(text, S, m, to)
<1>0. n \in Nat
  OBVIOUS
<1>1. p \in Seq(Seq(X)) /\ Len(p) = n
  BY PiecesAre
<1>2. PICK g \in [0 .. n -> Seq(X)] : Grows(g, p) /\ FlattenSeq(p) = g[n]
  <2> HIDE DEF p
  <2> QED BY <1>1, FlattenGrows
<1> DEFINE T == {d \in Nat : \A b \in 0 .. n : b + d > n /\ Clear(S, m, b + 1) => RestIs(X, f, g, n, b)}
<1>3. 0 \in T
  BY <1>0
<1>4. ASSUME NEW d \in Nat, d \in T PROVE d + 1 \in T
  <2> SUFFICES ASSUME NEW b \in 0 .. n, b + (d + 1) > n, Clear(S, m, b + 1)
               PROVE  RestIs(X, f, g, n, b)
    OBVIOUS
  <2>1. \A c \in 0 .. n : c > b => c + d > n
    BY <1>0
  <2>2. \A c \in 0 .. n : c > b /\ Clear(S, m, c + 1) => RestIs(X, f, g, n, c)
    BY <1>4, <2>1
  <2>3. p = Pieces(text, S, m, to)
    OBVIOUS
  <2> HIDE DEF p
  <2>4. A \subseteq 1 .. n /\ \A i \in A : i + m - 1 <= n
    BY DEF Fit
  <2> QED BY <1>2, <2>2, <2>3, <2>4, ScanOneStep
<1>5. n + 1 \in T
  <2> HIDE DEF T
  <2>1. n + 1 \in Nat
    BY <1>0
  <2> QED BY <1>3, <1>4, <2>1, Induction
<1>6. Clear(S, m, 0 + 1)
  <2>1. \A x \in S : ~(x < 0 + 1)
    BY <1>0 DEF IsPacked, Fit
  <2> QED BY <2>1 DEF Clear
<1>7. RestIs(X, f, g, n, 0)
  <2>1. 0 \in 0 .. n /\ 0 + (n + 1) > n
    BY <1>0
  <2> QED BY <1>5, <1>6, <2>1
<1>8. 0 + 1 = 1 /\ g[0] = <<>>
  BY <1>2 DEF Grows
<1> DEFINE r == f[1]
<1>9. r \in Seq(X) /\ g[n] = <<>> \o r
  BY <1>7, <1>8 DEF RestIs
<1> HIDE DEF r
<1>10. <<>> \o r = r
  BY <1>9, ConcatEmptySeq
<1> QED BY <1>2, <1>9, <1>10 DEF r, IsFlat

LEMMA RewrittenIs ==
  ASSUME NEW X, NEW text \in Seq(X), NEW r
  PROVE  Rewritten(text, r)
           = FlattenSeq(Pieces(text, Replaced(text, r.from), Len(r.from), r.to))
  BY DEF Rewritten, Pieces

(* A text in which a phrase does not stand is not rewritten. *)
LEMMA NothingRewritten ==
  ASSUME NEW X, NEW text \in Seq(X), NEW Y, NEW r, r.from \in Seq(Y), r.to \in Seq(X),
         Places(text, r.from) = {}
  PROVE  Rewritten(text, r) = text
<1> DEFINE n == Len(text)
           S == Replaced(text, r.from)
           m == Len(r.from)
           p == Pieces(text, S, m, r.to)
<1>0. n \in Nat /\ 0 <= n /\ n <= n
  OBVIOUS
<1>1. S = {}
  <2>1. IsPacked(S, Places(text, r.from), m)
    BY ReplacedIsPacked
  <2> QED BY <2>1 DEF IsPacked
<1> HIDE DEF S, m
<1>2. /\ p \in Seq(Seq(X)) /\ Len(p) = n
      /\ \A k \in 1 .. n : p[k] = << text[k] >>
  <2> DEFINE to == r.to
  <2>1. /\ p \in Seq(Seq(X)) /\ Len(p) = n
        /\ \A k \in 1 .. n : p[k] = IF k \in S THEN to
                                    ELSE IF \E i \in S : k \in i .. i + m - 1 THEN <<>> ELSE << text[k] >>
    <3>1. to \in Seq(X)
      OBVIOUS
    <3> HIDE DEF to
    <3> QED BY <3>1, PiecesAre DEF to
  <2> HIDE DEF p, to
  <2> QED BY <1>1, <2>1
<1> HIDE DEF p
<1>3. PICK g \in [0 .. n -> Seq(X)] : Grows(g, p) /\ FlattenSeq(p) = g[n]
  BY <1>2, FlattenGrows
<1>4. PlainFrom(p, text, 0, n)
  BY <1>0, <1>2 DEF PlainFrom
<1>5. Copies(g, text, 0, n)
  BY <1>0, <1>2, <1>3, <1>4, PlainRun
<1>6. g[n] = <<>> \o SubSeq(text, 1, n)
  <2>1. 0 + 1 = 1 /\ g[0] = <<>>
    BY <1>3 DEF Grows
  <2> QED BY <1>5, <2>1 DEF Copies
<1>7. SubSeq(text, 1, n) = text /\ <<>> \o text = text
  BY SubSeqFull, ConcatEmptySeq
<1>8. Rewritten(text, r) = FlattenSeq(p)
  BY RewrittenIs DEF p, S, m
<1> QED BY <1>3, <1>6, <1>7, <1>8

(* replace_phrase_ci does what the rule says, whatever the text, the phrase and its
   replacement: its scan from left to right finds exactly the occurrences that no earlier
   one overlaps, and copies everything between them. *)
THEOREM ReplacingIsRewriting ==
  ASSUME NEW X, NEW text \in Seq(X), NEW Y, NEW r, r.from \in Seq(Y), r.to \in Seq(X)
  PROVE  /\ ReplacePhrase(text, r.from, r.to) = Rewritten(text, r)
         /\ Rewritten(text, r) \in Seq(X)
<1>1. CASE r.from = <<>>
  <2>1. Places(text, r.from) = {}
    BY <1>1 DEF Places, Stands
  <2>2. Rewritten(text, r) = text
    BY <2>1, NothingRewritten
  <2>3. ReplacePhrase(text, r.from, r.to) = text
    BY <1>1 DEF ReplacePhrase
  <2> QED BY <2>2, <2>3
<1>2. CASE r.from # <<>>
  <2> DEFINE A == Places(text, r.from)
             m == Len(r.from)
             S == Replaced(text, r.from)
  <2>1. PICK f : /\ IsScan(f, text, A, m, r.to)
                 /\ ReplacePhrase(text, r.from, r.to) = f[1]
    BY <1>2, ReplaceScans
  <2>2. m \in Nat \ {0}
    BY <1>2
  <2>3. Fit(A, m, Len(text))
    BY PlacesFit DEF Fit
  <2>4. IsPacked(S, A, m)
    BY ReplacedIsPacked
  <2>5. Rewritten(text, r) = FlattenSeq(Pieces(text, S, m, r.to))
    BY RewrittenIs
  <2> DEFINE to == r.to
  <2>6. to \in Seq(X) /\ IsScan(f, text, A, m, to)
    BY <2>1
  <2> HIDE DEF A, m, S, to
  <2>7. IsFlat(X, f, Pieces(text, S, m, to))
    BY <2>2, <2>3, <2>4, <2>6, ScanFlattens
  <2> QED BY <2>1, <2>5, <2>7 DEF to, IsFlat
<1> QED BY <1>1, <1>2

(* A function with the equation of a fold, as far as it stays in V, ends where the fold
   does. *)
FoldsAs(iter, n, V, base, g) ==
  /\ iter[{}] = base
  /\ \A s \in SUBSET (1 .. n) :
       s # {} /\ iter[s \ {Max(s)}] \in V => iter[s] = g[<< iter[s \ {Max(s)}], Max(s) >>]

EndsAs(iter, f, n, V) == iter[1 .. n] = f[1 .. n] /\ f[1 .. n] \in V

LEMMA FoldedValue ==
  ASSUME NEW n \in Nat, NEW V, NEW base \in V, NEW g, NEW f \in [SUBSET (1 .. n) -> V],
         IsFold(f, n, base, g), NEW iter, FoldsAs(iter, n, V, base, g)
  PROVE  EndsAs(iter, f, n, V)
<1> DEFINE T == {k \in Nat : k <= n => iter[1 .. k] = f[1 .. k]}
<1>1. 0 \in T
  <2>1. 1 .. 0 = {} /\ {} \in SUBSET (1 .. n)
    OBVIOUS
  <2> QED BY <2>1 DEF FoldsAs, IsFold
<1>2. ASSUME NEW k \in Nat, k \in T PROVE k + 1 \in T
  <2> SUFFICES ASSUME k + 1 <= n PROVE iter[1 .. k + 1] = f[1 .. k + 1]
    OBVIOUS
  <2> DEFINE s == 1 .. k + 1
  <2>1. /\ k + 1 \in s /\ k + 1 \in Int /\ s # {} /\ s \in SUBSET (1 .. n) /\ 1 .. k \in SUBSET (1 .. n)
        /\ \A y \in s : y \in Int /\ k + 1 >= y
        /\ s \ {k + 1} = 1 .. k
    OBVIOUS
  <2>2. Max(s) = k + 1
    <3> HIDE DEF s
    <3> QED BY <2>1, MaxIs
  <2>3. iter[1 .. k] = f[1 .. k] /\ f[1 .. k] \in V
    BY <1>2, <2>1
  <2> HIDE DEF s
  <2>4. iter[s] = g[<< iter[1 .. k], k + 1 >>]
    BY <2>1, <2>2, <2>3 DEF FoldsAs
  <2>5. f[s] = g[<< f[1 .. k], k + 1 >>]
    BY <2>1, <2>2 DEF IsFold
  <2> QED BY <2>3, <2>4, <2>5 DEF s
<1>3. n \in T
  <2> HIDE DEF T
  <2> QED BY <1>1, <1>2, Induction
<1>4. 1 .. n \in SUBSET (1 .. n)
  OBVIOUS
<1> QED BY <1>3, <1>4 DEF EndsAs

(* apply_corrections makes every correction as the rule says, in key order. *)
LEMMA CorrectingIsRewriting ==
  ASSUME NEW X, STRING \subseteq X, NEW text \in Seq(X)
  PROVE  /\ ApplyCorrections(text) = FoldLeft(Rewritten, text, Corrections)
         /\ ApplyCorrections(text) \in Seq(X)
<1> DEFINE n == Len(Corrections)
           D == 1 .. n
           V == Seq(X)
           R(v, i) == Rewritten(v, Corrections[i])
           P(v, i) == ReplacePhrase(v, Corrections[i].from, Corrections[i].to)
           g == [a \in V \X D |-> R(a[1], a[2])]
           EqR(f) == f = [s \in SUBSET D |-> IF s = {} THEN text ELSE R(f[s \ {Max(s)}], Max(s))]
           EqP(f) == f = [s \in SUBSET D |-> IF s = {} THEN text ELSE P(f[s \ {Max(s)}], Max(s))]
           iterR == CHOOSE f : EqR(f)
           iterP == CHOOSE f : EqP(f)
<1>1. n \in Nat /\ DOMAIN Corrections = D
  BY CorrectionsAssumption
<1>2. ASSUME NEW v \in V, NEW i \in D PROVE P(v, i) = R(v, i) /\ R(v, i) \in V
  <2> DEFINE r == Corrections[i]
  <2>1. r.from \in Seq(STRING) /\ r.to \in Seq(STRING)
    <3> DEFINE C == [from : Seq(STRING), to : Seq(STRING)]
    <3>1. \A x \in C : x.from \in Seq(STRING) /\ x.to \in Seq(STRING)
      OBVIOUS
    <3> HIDE DEF C
    <3>2. Corrections \in Seq(C)
      BY CorrectionsAssumption DEF C
    <3>3. r \in C
      BY <3>2
    <3> HIDE DEF r
    <3> QED BY <3>1, <3>3
  <2>2. r.to \in Seq(X)
    <3> HIDE DEF r
    <3> QED BY <2>1, SeqMonotonic
  <2> HIDE DEF r
  <2>3. ReplacePhrase(v, r.from, r.to) = Rewritten(v, r) /\ Rewritten(v, r) \in Seq(X)
    BY <2>1, <2>2, ReplacingIsRewriting
  <2> QED BY <2>3 DEF r
<1> HIDE DEF R, P
<1>3. /\ FoldLeft(Rewritten, text, Corrections) = iterR[D]
      /\ ApplyCorrections(text) = iterP[D]
  BY <1>1 DEF ApplyCorrections, FoldLeft, MapThenFoldSet, R, P
<1>4. g \in [V \X D -> V] /\ \A v \in V, i \in D : g[<< v, i >>] = R(v, i)
  BY <1>2
<1> HIDE DEF g
<1>5. \A s \in SUBSET D : s # {} => Max(s) \in D
  BY <1>1, MaxOfSome
<1>6. PICK f \in [SUBSET D -> V] : IsFold(f, n, text, g)
  <2> HIDE DEF V, D
  <2>1. text \in V
    BY DEF V
  <2> QED BY <1>1, <1>4, <2>1, FoldExists DEF D
<1>7. ASSUME NEW s \in SUBSET D, s # {}
      PROVE  f[s] = R(f[s \ {Max(s)}], Max(s)) /\ f[s] = P(f[s \ {Max(s)}], Max(s))
  <2>1. Max(s) \in D /\ f[s \ {Max(s)}] \in V
    BY <1>5, <1>6, <1>7
  <2>2. f[s] = g[<< f[s \ {Max(s)}], Max(s) >>]
    BY <1>6, <1>7 DEF IsFold
  <2> HIDE DEF V, D
  <2> QED BY <1>2, <1>4, <2>1, <2>2
<1>8. f[{}] = text /\ f = [s \in SUBSET D |-> f[s]]
  BY <1>6 DEF IsFold
<1>9. EqR(f) /\ EqP(f)
  <2> HIDE DEF D, V
  <2>1. EqR(f)
    BY <1>7, <1>8
  <2>2. EqP(f)
    BY <1>7, <1>8
  <2> QED BY <2>1, <2>2
<1>10. EqR(iterR) /\ EqP(iterP)
  <2> HIDE DEF EqR, EqP
  <2> QED BY <1>9
<1> HIDE DEF iterR, iterP
<1>11. FoldsAs(iterR, n, V, text, g) /\ FoldsAs(iterP, n, V, text, g)
  <2>1. {} \in SUBSET D
    OBVIOUS
  <2>2. /\ iterR[{}] = text /\ iterP[{}] = text
        /\ \A s \in SUBSET D : s # {} => /\ iterR[s] = R(iterR[s \ {Max(s)}], Max(s))
                                         /\ iterP[s] = P(iterP[s \ {Max(s)}], Max(s))
    <3> HIDE DEF D
    <3> QED BY <1>10, <2>1
  <2>3. ASSUME NEW s \in SUBSET D, s # {}
        PROVE  /\ iterR[s \ {Max(s)}] \in V => iterR[s] = g[<< iterR[s \ {Max(s)}], Max(s) >>]
               /\ iterP[s \ {Max(s)}] \in V => iterP[s] = g[<< iterP[s \ {Max(s)}], Max(s) >>]
    <3>1. Max(s) \in D
      BY <1>5, <2>3
    <3> HIDE DEF D, V
    <3> QED BY <1>2, <1>4, <2>2, <2>3, <3>1
  <2> HIDE DEF V
  <2> QED BY <2>2, <2>3 DEF FoldsAs
<1>12. iterR[D] = f[D] /\ iterP[D] = f[D] /\ f[D] \in V
  <2>1. text \in V
    OBVIOUS
  <2> HIDE DEF V
  <2>2. EndsAs(iterR, f, n, V) /\ EndsAs(iterP, f, n, V)
    BY <1>1, <1>6, <1>11, <2>1, FoldedValue
  <2> QED BY <2>2 DEF EndsAs
<1> QED BY <1>3, <1>12

-----------------------------------------------------------------------------
(* The order of the snippets: a total one, so each has a rank of its own, and every place is
   taken. *)
Count == Len(Snippets)

LEMMA SnippetsAre ==
  /\ Count \in Nat /\ DOMAIN Snippets = 1 .. Count
  /\ \A i \in 1 .. Count : /\ Snippets[i].from \in Seq(STRING) /\ Snippets[i].to \in Seq(STRING)
                           /\ Snippets[i] = [from |-> Snippets[i].from, to |-> Snippets[i].to]
                           /\ Len(Snippets[i].from) \in Nat
  /\ \A i, j \in 1 .. Count : Snippets[i] = Snippets[j] => i = j
<1> DEFINE C == [from : Seq(STRING), to : Seq(STRING)]
<1>1. \A x \in C : /\ x.from \in Seq(STRING) /\ x.to \in Seq(STRING)
                   /\ x = [from |-> x.from, to |-> x.to]
                   /\ Len(x.from) \in Nat
  OBVIOUS
<1>2. Snippets \in Seq(C)
  BY SnippetsAssumption
<1> HIDE DEF C
<1>3. Count \in Nat /\ DOMAIN Snippets = 1 .. Count /\ \A i \in 1 .. Count : Snippets[i] \in C
  BY <1>2 DEF Count
<1>4. \A i, j \in 1 .. Count : Snippets[i] = Snippets[j] => i = j
  BY SnippetsAssumption DEF Count
<1> QED BY <1>1, <1>3, <1>4

LEMMA BeforeIsTotal ==
  /\ \A i, j \in 1 .. Count : Before(i, j) \/ Before(j, i)
  /\ \A i, j \in 1 .. Count : Before(i, j) /\ Before(j, i) => i = j
  /\ \A i, j, k \in 1 .. Count : Before(i, j) /\ Before(j, k) => Before(i, k)
  /\ \A i, j \in 1 .. Count : Before(i, j) => Len(Snippets[i].from) >= Len(Snippets[j].from)
<1> DEFINE L(i) == Len(Snippets[i].from)
<1>1. \A i \in 1 .. Count : L(i) \in Nat /\ i \in Int
  BY SnippetsAre
<1>2. \A i, j : Before(i, j) <=> L(i) > L(j) \/ (L(i) = L(j) /\ i <= j)
  BY DEF Before
<1> HIDE DEF L
<1>3. \A i, j \in 1 .. Count : Before(i, j) => L(i) >= L(j)
  BY <1>1, <1>2
<1>4. \A i, j \in 1 .. Count : Before(i, j) \/ Before(j, i)
  BY <1>1, <1>2
<1>5. \A i, j \in 1 .. Count : Before(i, j) /\ Before(j, i) => i = j
  BY <1>1, <1>2
<1>6. \A i, j, k \in 1 .. Count : Before(i, j) /\ Before(j, k) => Before(i, k)
  BY <1>1, <1>2
<1> QED BY <1>3, <1>4, <1>5, <1>6 DEF L

LEMMA RankGrows ==
  /\ \A i \in 1 .. Count : Rank(i) \in 1 .. Count
  /\ \A i, j \in 1 .. Count : Before(i, j) /\ i # j => Rank(i) < Rank(j)
<1> DEFINE B(i) == {j \in 1 .. Count : Before(j, i)}
<1>1. Count \in Nat /\ \A i : Rank(i) = Cardinality(B(i))
  BY SnippetsAre DEF Rank, Count
<1>2. IsFiniteSet(1 .. Count) /\ Cardinality(1 .. Count) = Count
  BY <1>1, FS_Interval
<1>3. ASSUME NEW i \in 1 .. Count
      PROVE  /\ IsFiniteSet(B(i)) /\ Cardinality(B(i)) \in Nat /\ Cardinality(B(i)) <= Count
             /\ i \in B(i)
  <2>1. B(i) \in SUBSET (1 .. Count)
    OBVIOUS
  <2>2. i \in B(i)
    BY BeforeIsTotal
  <2> HIDE DEF B
  <2> QED BY <1>2, <2>1, <2>2, FS_Subset, FS_CardinalityType
<1>4. ASSUME NEW i \in 1 .. Count PROVE Cardinality(B(i)) >= 1
  <2> HIDE DEF B
  <2>1. Cardinality(B(i)) # 0
    BY <1>3, FS_EmptySet
  <2> QED BY <1>3, <2>1
<1>5. ASSUME NEW i \in 1 .. Count, NEW j \in 1 .. Count, Before(i, j), i # j
      PROVE  Cardinality(B(i)) < Cardinality(B(j))
  <2>1. B(i) \in SUBSET B(j)
    BY <1>5, BeforeIsTotal
  <2>2. j \notin B(i)
    BY <1>5, BeforeIsTotal
  <2> HIDE DEF B
  <2>3. Cardinality(B(i)) <= Cardinality(B(j)) /\ Cardinality(B(i)) # Cardinality(B(j))
    BY <1>3, <2>1, <2>2, FS_Subset
  <2> QED BY <1>3, <2>3
<1> HIDE DEF B
<1> QED BY <1>1, <1>3, <1>4, <1>5

Place(n) == CHOOSE i \in 1 .. Len(Snippets) : Rank(i) = n

LEMMA EveryPlaceIsTaken ==
  ASSUME NEW n \in 1 .. Count
  PROVE  Place(n) \in 1 .. Count /\ Rank(Place(n)) = n
<1> DEFINE D == 1 .. Count
           r == [i \in D |-> Rank(i)]
<1>1. r \in [D -> D]
  BY RankGrows
<1>2. ASSUME NEW i \in D, NEW j \in D, r[i] = r[j] PROVE i = j
  <2>1. Rank(i) = Rank(j) /\ Rank(i) \in Int /\ Rank(j) \in Int
    BY <1>2, RankGrows
  <2>2. Before(i, j) \/ Before(j, i)
    BY BeforeIsTotal
  <2>3. ~(Rank(i) < Rank(j)) /\ ~(Rank(j) < Rank(i))
    BY <2>1
  <2> QED BY <2>2, <2>3, RankGrows
<1> HIDE DEF r
<1>3. r \in Injection(D, D)
  BY <1>1, <1>2 DEF Injection, IsInjective
<1>4. IsFiniteSet(D)
  BY SnippetsAre, FS_Interval
<1> HIDE DEF D
<1>5. r \in Surjection(D, D)
  BY <1>3, <1>4, FS_Injection
<1>6. \E i \in D : r[i] = n
  BY <1>5 DEF Surjection, D
<1>7. \E i \in 1 .. Len(Snippets) : Rank(i) = n
  BY <1>6 DEF r, D, Count
<1>8. Place(n) \in 1 .. Len(Snippets) /\ Rank(Place(n)) = n
  BY <1>7, Zenon DEF Place
<1> QED BY <1>8 DEF Count

(* TextPipeline::new sorts by length: the snippets come each once, and no trigger before a
   longer one. *)
THEOREM SnippetsAreSorted == SortedSnippets \in LongestFirst
<1> DEFINE o == SortedSnippets
           D == 1 .. Count
           S == ToSet(Snippets)
<1>1. o = [n \in D |-> Snippets[Place(n)]]
  BY DEF SortedSnippets, Place, Count
<1>2. \A n \in D : o[n] = Snippets[Place(n)] /\ Place(n) \in D /\ Rank(Place(n)) = n
  BY <1>1, EveryPlaceIsTaken
<1> HIDE DEF o
<1>3. \A i \in D : Snippets[i] \in S
  BY SnippetsAre DEF ToSet
<1>4. o \in [D -> S]
  <2>1. \A n \in D : Snippets[Place(n)] \in S
    BY <1>2, <1>3
  <2> HIDE DEF S
  <2> QED BY <1>1, <2>1
<1>5. ASSUME NEW n \in D, NEW m \in D, o[n] = o[m] PROVE n = m
  <2>1. Snippets[Place(n)] = Snippets[Place(m)] /\ Place(n) \in D /\ Place(m) \in D
    BY <1>2, <1>5
  <2>2. Place(n) = Place(m)
    BY <2>1, SnippetsAre
  <2>3. Rank(Place(n)) = n /\ Rank(Place(m)) = m
    BY <1>2
  <2> QED BY <2>2, <2>3
<1>6. Cardinality(S) = Count
  <2>1. IsFiniteSet(D) /\ Cardinality(D) = Count
    BY SnippetsAre, FS_Interval
  <2>2. Snippets \in [D -> S]
    <3>1. Snippets = [i \in D |-> Snippets[i]]
      BY SnippetsAssumption DEF Count
    <3> HIDE DEF S
    <3> QED BY <1>3, <3>1
  <2>3. \A x \in S : \E i \in D : Snippets[i] = x
    BY SnippetsAre DEF ToSet
  <2> HIDE DEF S
  <2>4. Snippets \in Bijection(D, S)
    <3>1. Snippets \in Injection(D, S)
      BY <2>2, SnippetsAre DEF Injection, IsInjective
    <3>2. Snippets \in Surjection(D, S)
      BY <2>2, <2>3 DEF Surjection
    <3> QED BY <3>1, <3>2 DEF Bijection
  <2>5. ExistsBijection(D, S)
    BY <2>4 DEF ExistsBijection
  <2> HIDE DEF D
  <2> QED BY <2>1, <2>5, FS_Bijection
<1>7. ASSUME NEW i \in D, NEW j \in D, i < j PROVE Len(o[i].from) >= Len(o[j].from)
  <2>1. Place(i) \in D /\ Place(j) \in D /\ Rank(Place(i)) = i /\ Rank(Place(j)) = j
    BY <1>2
  <2>2. ~Before(Place(j), Place(i))
    <3> SUFFICES ASSUME Before(Place(j), Place(i)) PROVE FALSE
      OBVIOUS
    <3>1. Place(j) # Place(i)
      BY <1>7, <2>1
    <3>2. j < i
      BY <2>1, <3>1, RankGrows
    <3> QED BY <1>7, <3>2
  <2>3. Before(Place(i), Place(j))
    BY <2>1, <2>2, BeforeIsTotal
  <2> QED BY <1>2, <2>1, <2>3, BeforeIsTotal
<1>8. DOMAIN o = D /\ Len(o) = Count
  <2>1. DOMAIN o = D /\ Count \in Nat
    BY <1>1, SnippetsAre
  <2> QED BY <2>1
<1>9. o \in SetToSeqs(S)
  <2> HIDE DEF S
  <2> QED BY <1>4, <1>5, <1>6 DEF SetToSeqs
<1> QED BY <1>7, <1>8, <1>9 DEF LongestFirst, o

LEMMA SubstituteKeeps ==
  ASSUME NEW X, NEW text \in Seq(X), NEW placeholder, NEW value \in Seq(X)
  PROVE  Substitute(text, placeholder, value) \in Seq(X)
<1> DEFINE n == Len(text)
           p == [i \in 1 .. n |-> IF text[i] = placeholder THEN value ELSE << text[i] >>]
<1>1. n \in Nat /\ \A i \in 1 .. n : << text[i] >> \in Seq(X)
  OBVIOUS
<1>2. p \in [1 .. n -> Seq(X)]
  BY <1>1
<1>3. Substitute(text, placeholder, value) = FlattenSeq(p)
  BY DEF Substitute
<1> HIDE DEF p
<1>4. p \in Seq(Seq(X))
  BY <1>1, <1>2
<1> QED BY <1>3, <1>4, FlattenKeeps

Env == [date : Seq(STRING), time : Seq(STRING), clipboard : Seq(STRING)]

LEMMA ResolveKeeps ==
  ASSUME NEW X, STRING \subseteq X, NEW text \in Seq(X), NEW env \in Env
  PROVE  Resolve(text, env) \in Seq(X)
<1> DEFINE dated == Substitute(text, "{{DATE}}", env.date)
           timed == Substitute(dated, "{{TIME}}", env.time)
<1>1. env.date \in Seq(X) /\ env.time \in Seq(X) /\ env.clipboard \in Seq(X)
  <2>1. env.date \in Seq(STRING) /\ env.time \in Seq(STRING) /\ env.clipboard \in Seq(STRING)
    BY DEF Env
  <2> QED BY <2>1, SeqMonotonic
<1>2. dated \in Seq(X)
  BY <1>1, SubstituteKeeps
<1> HIDE DEF dated
<1>3. timed \in Seq(X)
  BY <1>1, <1>2, SubstituteKeeps
<1>4. Resolve(text, env) = Substitute(timed, "{{CLIPBOARD}}", env.clipboard)
  BY DEF Resolve, dated
<1> HIDE DEF timed
<1> QED BY <1>1, <1>3, <1>4, SubstituteKeeps

(* expand_snippets rewrites the text by the snippet, its placeholders resolved. *)
Filled(s, env) == [s EXCEPT !.to = Resolve(@, env)]

LEMMA ExpandingOne ==
  ASSUME NEW X, STRING \subseteq X, NEW text \in Seq(X), NEW env \in Env, NEW i \in 1 .. Count
  PROVE  LET s == SortedSnippets[i]
         IN /\ Expand(text, s, env) = Rewritten(text, Filled(s, env))
            /\ Rewritten(text, Filled(s, env)) \in Seq(X)
<1> DEFINE s == SortedSnippets[i]
           r == Filled(s, env)
<1>1. /\ s.from \in Seq(STRING) /\ s.to \in Seq(STRING)
      /\ s = [from |-> s.from, to |-> s.to]
  <2>1. s = Snippets[Place(i)] /\ Place(i) \in 1 .. Count
    <3>1. Place(i) \in 1 .. Count
      BY EveryPlaceIsTaken
    <3>2. SortedSnippets[i] = Snippets[Place(i)]
      BY DEF SortedSnippets, Place, Count
    <3> QED BY <3>1, <3>2
  <2> HIDE DEF s
  <2> QED BY <2>1, SnippetsAre
<1> HIDE DEF s
<1>2. r.from = s.from /\ r.to = Resolve(s.to, env)
  <2> DEFINE q == [from |-> s.from, to |-> s.to]
             v == Resolve(s.to, env)
  <2>1. s = q
    BY <1>1
  <2> HIDE DEF v
  <2>2. \A a, b, c : [[from |-> a, to |-> b] EXCEPT !.to = c] = [from |-> a, to |-> c]
    OBVIOUS
  <2>3. r = [s EXCEPT !.to = v]
    BY DEF Filled, v
  <2>4. r = [from |-> s.from, to |-> v]
    BY <2>1, <2>2, <2>3
  <2> HIDE DEF r
  <2> QED BY <2>4 DEF v
<1>3. r.to \in Seq(X)
  <2>1. s.to \in Seq(X)
    BY <1>1, SeqMonotonic
  <2> HIDE DEF r
  <2> QED BY <1>2, <2>1, ResolveKeeps
<1> HIDE DEF r
<1>4. ReplacePhrase(text, r.from, r.to) = Rewritten(text, r) /\ Rewritten(text, r) \in Seq(X)
  <2>1. r.from \in Seq(STRING)
    BY <1>1, <1>2
  <2> QED BY <1>3, <2>1, ReplacingIsRewriting
<1>5. CASE ContainsPhrase(text, s.from)
  BY <1>2, <1>4, <1>5 DEF Expand, s, r
<1>6. CASE ~ContainsPhrase(text, s.from)
  <2>1. Places(text, s.from) = {}
    <3>1. CASE s.from = <<>>
      BY <3>1 DEF Places, Stands
    <3>2. CASE s.from # <<>>
      <4>1. \A k \in 1 .. Len(text) : ~PhraseAt(text, k, s.from)
        BY <1>6, <3>2 DEF ContainsPhrase
      <4>2. \A k \in 1 .. Len(text) : ~Stands(text, k, s.from)
        BY <1>1, <3>2, <4>1, StandsIfMatched
      <4> QED BY <4>2 DEF Places
    <3> QED BY <3>1, <3>2
  <2>2. Rewritten(text, r) = text
    BY <1>1, <1>2, <1>3, <2>1, NothingRewritten
  <2>3. Expand(text, s, env) = text
    BY <1>6 DEF Expand
  <2> QED BY <2>2, <2>3 DEF s, r
<1> QED BY <1>5, <1>6

(* So are all of them, in the sorted order. *)
LEMMA ExpandingIsRewriting ==
  ASSUME NEW X, STRING \subseteq X, NEW text \in Seq(X), NEW env \in Env
  PROVE  /\ ExpandSnippets(text, env)
              = FoldLeft(LAMBDA t, s : Rewritten(t, Filled(s, env)), text, SortedSnippets)
         /\ ExpandSnippets(text, env) \in Seq(X)
<1> DEFINE n == Count
           D == 1 .. n
           V == Seq(X)
           R(v, i) == Rewritten(v, Filled(SortedSnippets[i], env))
           P(v, i) == Expand(v, SortedSnippets[i], env)
           g == [a \in V \X D |-> R(a[1], a[2])]
           EqR(f) == f = [s \in SUBSET D |-> IF s = {} THEN text ELSE R(f[s \ {Max(s)}], Max(s))]
           EqP(f) == f = [s \in SUBSET D |-> IF s = {} THEN text ELSE P(f[s \ {Max(s)}], Max(s))]
           iterR == CHOOSE f : EqR(f)
           iterP == CHOOSE f : EqP(f)
<1>1. n \in Nat /\ DOMAIN SortedSnippets = D
  BY SnippetsAre DEF SortedSnippets, Count
<1>2. ASSUME NEW v \in V, NEW i \in D PROVE P(v, i) = R(v, i) /\ R(v, i) \in V
  BY ExpandingOne
<1> HIDE DEF R, P
<1>3. /\ FoldLeft(LAMBDA t, s : Rewritten(t, Filled(s, env)), text, SortedSnippets) = iterR[D]
      /\ ExpandSnippets(text, env) = iterP[D]
  BY <1>1 DEF ExpandSnippets, FoldLeft, MapThenFoldSet, R, P
<1>4. g \in [V \X D -> V] /\ \A v \in V, i \in D : g[<< v, i >>] = R(v, i)
  BY <1>2
<1> HIDE DEF g
<1>5. \A s \in SUBSET D : s # {} => Max(s) \in D
  BY <1>1, MaxOfSome
<1>6. PICK f \in [SUBSET D -> V] : IsFold(f, n, text, g)
  <2> HIDE DEF V, D
  <2>1. text \in V
    BY DEF V
  <2> QED BY <1>1, <1>4, <2>1, FoldExists DEF D
<1>7. ASSUME NEW s \in SUBSET D, s # {}
      PROVE  f[s] = R(f[s \ {Max(s)}], Max(s)) /\ f[s] = P(f[s \ {Max(s)}], Max(s))
  <2>1. Max(s) \in D /\ f[s \ {Max(s)}] \in V
    BY <1>5, <1>6, <1>7
  <2>2. f[s] = g[<< f[s \ {Max(s)}], Max(s) >>]
    BY <1>6, <1>7 DEF IsFold
  <2> HIDE DEF V, D
  <2> QED BY <1>2, <1>4, <2>1, <2>2
<1>8. f[{}] = text /\ f = [s \in SUBSET D |-> f[s]]
  BY <1>6 DEF IsFold
<1>9. EqR(f) /\ EqP(f)
  <2> HIDE DEF D, V
  <2>1. EqR(f)
    BY <1>7, <1>8
  <2>2. EqP(f)
    BY <1>7, <1>8
  <2> QED BY <2>1, <2>2
<1>10. EqR(iterR) /\ EqP(iterP)
  <2> HIDE DEF EqR, EqP
  <2> QED BY <1>9
<1> HIDE DEF iterR, iterP
<1>11. FoldsAs(iterR, n, V, text, g) /\ FoldsAs(iterP, n, V, text, g)
  <2>1. {} \in SUBSET D
    OBVIOUS
  <2>2. /\ iterR[{}] = text /\ iterP[{}] = text
        /\ \A s \in SUBSET D : s # {} => /\ iterR[s] = R(iterR[s \ {Max(s)}], Max(s))
                                         /\ iterP[s] = P(iterP[s \ {Max(s)}], Max(s))
    <3> HIDE DEF D
    <3> QED BY <1>10, <2>1
  <2>3. ASSUME NEW s \in SUBSET D, s # {}
        PROVE  /\ iterR[s \ {Max(s)}] \in V => iterR[s] = g[<< iterR[s \ {Max(s)}], Max(s) >>]
               /\ iterP[s \ {Max(s)}] \in V => iterP[s] = g[<< iterP[s \ {Max(s)}], Max(s) >>]
    <3>1. Max(s) \in D
      BY <1>5, <2>3
    <3> HIDE DEF D, V
    <3> QED BY <1>2, <1>4, <2>2, <2>3, <3>1
  <2> HIDE DEF V
  <2> QED BY <2>2, <2>3 DEF FoldsAs
<1>12. iterR[D] = f[D] /\ iterP[D] = f[D] /\ f[D] \in V
  <2>1. text \in V
    OBVIOUS
  <2> HIDE DEF V
  <2>2. EndsAs(iterR, f, n, V) /\ EndsAs(iterP, f, n, V)
    BY <1>1, <1>6, <1>11, <2>1, FoldedValue
  <2> QED BY <2>2 DEF EndsAs
<1> QED BY <1>3, <1>12

-----------------------------------------------------------------------------
(* The characters a text may hold: those of a string, and what a word in capitals, or a
   joint of words, adds. *)
Chars == STRING \cup ToSet(Capital) \cup {Blank}

LEMMA JoinKeeps ==
  ASSUME NEW tokens \in Seq(Seq(Chars))
  PROVE  Join(tokens) \in Seq(Chars)
<1> DEFINE n == Len(tokens)
           p == [i \in 1 .. n |-> IF i = 1 THEN tokens[i] ELSE << Blank >> \o tokens[i]]
<1>1. \A t \in Seq(Chars) : << Blank >> \o t \in Seq(Chars)
  BY DEF Chars
<1>2. n \in Nat /\ \A i \in 1 .. n : tokens[i] \in Seq(Chars)
  OBVIOUS
<1>3. p \in [1 .. n -> Seq(Chars)]
  BY <1>1, <1>2
<1>4. Join(tokens) = FlattenSeq(p)
  BY DEF Join
<1> HIDE DEF p
<1>5. p \in Seq(Seq(Chars))
  <2> DEFINE S == Seq(Chars)
  <2>1. n \in Nat /\ p \in [1 .. n -> S]
    BY <1>2, <1>3
  <2> HIDE DEF n, S
  <2>2. p \in Seq(S)
    BY <2>1
  <2> QED BY <2>2 DEF S
<1> QED BY <1>4, <1>5, FlattenKeeps

LEMMA RaiseKeeps == \A c \in Chars : Raise(c) \in Chars
<1> SUFFICES ASSUME NEW c \in Chars PROVE Raise(c) \in Chars
  OBVIOUS
<1>1. CASE c \in DOMAIN Upper
  <2> DEFINE i == CHOOSE k \in 1 .. 26 : Small[k] = c
  <2>1. DOMAIN Small = 1 .. 26 /\ DOMAIN Capital = 1 .. 26
    BY DEF Small, Capital
  <2>2. \E k \in 1 .. 26 : Small[k] = c
    BY <1>1, <2>1 DEF Upper, ToSet
  <2>3. i \in 1 .. 26
    BY <2>2
  <2>4. Upper[c] = Capital[i]
    BY <1>1 DEF Upper
  <2> HIDE DEF i
  <2>5. Capital[i] \in ToSet(Capital)
    BY <2>1, <2>3 DEF ToSet
  <2> QED BY <1>1, <2>4, <2>5 DEF Raise, Chars
<1>2. CASE c \notin DOMAIN Upper
  BY <1>2 DEF Raise
<1> QED BY <1>1, <1>2

LEMMA KeepCaseKeeps ==
  ASSUME NEW token, NEW word \in Seq(Chars)
  PROVE  KeepCase(token, word) \in Seq(Chars)
<1> DEFINE n == Len(word)
           all == Each(Raise, word)
           one == [word EXCEPT ![1] = Raise(@)]
<1>1. n \in Nat /\ word \in [1 .. n -> Chars]
  OBVIOUS
<1>2. all \in [1 .. n -> Chars]
  <2>1. all = [i \in 1 .. n |-> Raise(word[i])]
    BY DEF Each
  <2> HIDE DEF all
  <2> QED BY <1>1, <2>1, RaiseKeeps
<1>3. one \in [1 .. n -> Chars]
  <2>1. one = [i \in 1 .. n |-> IF i = 1 THEN Raise(word[i]) ELSE word[i]]
    <3> DEFINE x == Raise(word[1])
    <3>1. one = [word EXCEPT ![1] = x]
      OBVIOUS
    <3>2. [word EXCEPT ![1] = x] = [i \in 1 .. n |-> IF i = 1 THEN x ELSE word[i]]
      <4> HIDE DEF x
      <4> QED BY <1>1
    <3> HIDE DEF one
    <3> QED BY <3>1, <3>2
  <2> HIDE DEF one
  <2> QED BY <1>1, <2>1, RaiseKeeps
<1> HIDE DEF all, one
<1>4. all \in Seq(Chars) /\ one \in Seq(Chars)
  BY <1>1, <1>2, <1>3
<1>5. KeepCase(token, word) = all \/ KeepCase(token, word) = one \/ KeepCase(token, word) = word
  BY DEF KeepCase, all, one
<1> QED BY <1>4, <1>5

LEMMA PunctuationKeeps ==
  ASSUME NEW X, NEW token \in Seq(X)
  PROVE  Prefix(token) \in Seq(X) /\ Suffix(token) \in Seq(X)
<1> DEFINE I == Inner(token)
           n == Len(token)
<1>1. n \in Nat /\ I \subseteq 1 .. n /\ I \subseteq Nat
  BY DEF Inner
<1>2. CASE I = {}
  BY <1>2 DEF Prefix, Suffix
<1>3. CASE I # {}
  <2> DEFINE a == First(I)
             b == Final(I)
  <2>1. a \in 1 .. n /\ b \in 1 .. n
    <3> HIDE DEF I
    <3> QED BY <1>1, <1>3, FirstIsOne, FinalIsOne
  <2>2. Prefix(token) = SubSeq(token, 1, a - 1) /\ Suffix(token) = SubSeq(token, b + 1, n)
    BY <1>3 DEF Prefix, Suffix
  <2> HIDE DEF a, b
  <2>3. (\A k \in 1 .. a - 1 : token[k] \in X) /\ (\A k \in b + 1 .. n : token[k] \in X)
    BY <1>1, <2>1
  <2>4. a - 1 \in Int /\ b + 1 \in Int /\ n \in Int /\ 1 \in Int
    BY <1>1, <2>1
  <2> HIDE DEF n
  <2>5. SubSeq(token, 1, a - 1) \in Seq(X)
    BY <2>3, <2>4, SubSeqProperties
  <2>6. SubSeq(token, b + 1, n) \in Seq(X)
    BY <2>3, <2>4, SubSeqProperties
  <2> QED BY <2>2, <2>5, <2>6
<1> QED BY <1>2, <1>3

(* The keys are those of the vocabulary's words. *)
LEMMA KeysAreOfWords ==
  /\ Len(AllKeys) \in Nat /\ DOMAIN AllKeys = 1 .. Len(AllKeys)
  /\ \A k \in 1 .. Len(AllKeys) : AllKeys[k].word \in 1 .. Len(Vocabulary)
<1> DEFINE N == Len(Vocabulary)
           spelled(w) == [i \in DOMAIN w |-> IF w[i] = "&" THEN << "a", "n", "d" >> ELSE << w[i] >>]
           Plain(n) == MatchKey(Vocabulary[n])
           And(n) == MatchKey(FlattenSeq(spelled(Vocabulary[n])))
           E == {[word |-> n, key |-> Plain(n)] : n \in 1 .. N} \cup {[word |-> n, key |-> And(n)] : n \in 1 .. N}
           Keys(n) == (IF Plain(n) # <<>> THEN << [word |-> n, key |-> Plain(n)] >> ELSE <<>>)
                        \o (IF And(n) # Plain(n) THEN << [word |-> n, key |-> And(n)] >> ELSE <<>>)
           p == [n \in 1 .. N |-> Keys(n)]
<1>1. N \in Nat
  BY VocabularyAssumption
<1>2. AllKeys = FlattenSeq(p)
  BY DEF AllKeys
<1> HIDE DEF Plain, And
<1>3. \A e \in E : e.word \in 1 .. N
  OBVIOUS
<1>4. ASSUME NEW n \in 1 .. N PROVE Keys(n) \in Seq(E)
  <2> DEFINE a == IF Plain(n) # <<>> THEN << [word |-> n, key |-> Plain(n)] >> ELSE <<>>
             b == IF And(n) # Plain(n) THEN << [word |-> n, key |-> And(n)] >> ELSE <<>>
  <2>1. [word |-> n, key |-> Plain(n)] \in E /\ [word |-> n, key |-> And(n)] \in E
    OBVIOUS
  <2> HIDE DEF E
  <2>2. a \in Seq(E) /\ b \in Seq(E)
    BY <2>1
  <2> HIDE DEF a, b
  <2>3. a \o b \in Seq(E)
    BY <2>2, ConcatProperties
  <2> QED BY <2>3 DEF a, b
<1> HIDE DEF E, Keys
<1>5. p \in [1 .. N -> Seq(E)]
  BY <1>4
<1> HIDE DEF p
<1>6. p \in Seq(Seq(E))
  BY <1>1, <1>5
<1>7. AllKeys \in Seq(E)
  BY <1>2, <1>6, FlattenKeeps
<1> QED BY <1>3, <1>7

(* What best_match may choose at a token: nothing, or what some key offers for a window of
   one to three tokens. *)
MayChoose(tokens, i) ==
  {NoMatch} \cup {Offer(Candidate(tokens, i, n), AllKeys[k], n) :
                    n \in {m \in 1 .. 3 : WindowAt(tokens, i, m)}, k \in 1 .. Len(AllKeys)}

Offered(tokens, i, found, n) ==
  IF ~WindowAt(tokens, i, n) THEN found
  ELSE FoldLeft(LAMBDA best, entry : Closer(best, Offer(Candidate(tokens, i, n), entry, n)),
                found, AllKeys)

LEMMA OfferedIsChoice ==
  ASSUME NEW tokens, NEW i, NEW n \in 1 .. 3, NEW found \in MayChoose(tokens, i)
  PROVE  Offered(tokens, i, found, n) \in MayChoose(tokens, i)
<1> DEFINE V == MayChoose(tokens, i)
           N == Len(AllKeys)
           D == 1 .. N
           C(v, k) == Closer(v, Offer(Candidate(tokens, i, n), AllKeys[k], n))
           g == [a \in V \X D |-> C(a[1], a[2])]
           Eq(f) == f = [s \in SUBSET D |-> IF s = {} THEN found ELSE C(f[s \ {Max(s)}], Max(s))]
           iter == CHOOSE f : Eq(f)
<1>1. N \in Nat /\ DOMAIN AllKeys = D
  BY KeysAreOfWords
<1> SUFFICES ASSUME WindowAt(tokens, i, n) PROVE Offered(tokens, i, found, n) \in V
  BY DEF Offered
<1>2. ASSUME NEW v \in V, NEW k \in D PROVE C(v, k) \in V
  <2> DEFINE x == Offer(Candidate(tokens, i, n), AllKeys[k], n)
  <2>1. x \in V
    BY DEF MayChoose
  <2> HIDE DEF x, V
  <2> QED BY <2>1 DEF Closer, x
<1>3. Offered(tokens, i, found, n) = iter[D]
  BY <1>1 DEF Offered, FoldLeft, MapThenFoldSet
<1> HIDE DEF C, V
<1>4. g \in [V \X D -> V] /\ \A v \in V, k \in D : g[<< v, k >>] = C(v, k)
  BY <1>2
<1> HIDE DEF g
<1>5. \A s \in SUBSET D : s # {} => Max(s) \in D
  BY <1>1, MaxOfSome
<1>6. found \in V
  BY DEF V
<1>7. PICK f \in [SUBSET D -> V] : IsFold(f, N, found, g)
  <2> HIDE DEF D
  <2> QED BY <1>1, <1>4, <1>6, FoldExists DEF D
<1>8. ASSUME NEW s \in SUBSET D, s # {} PROVE f[s] = C(f[s \ {Max(s)}], Max(s))
  <2>1. Max(s) \in D /\ f[s \ {Max(s)}] \in V
    BY <1>5, <1>7, <1>8
  <2>2. f[s] = g[<< f[s \ {Max(s)}], Max(s) >>]
    BY <1>7, <1>8 DEF IsFold
  <2> HIDE DEF D
  <2> QED BY <1>4, <2>1, <2>2
<1>9. f[{}] = found /\ f = [s \in SUBSET D |-> f[s]]
  BY <1>7 DEF IsFold
<1>10. Eq(f)
  <2> HIDE DEF D
  <2> QED BY <1>8, <1>9
<1>11. Eq(iter)
  <2> HIDE DEF Eq
  <2> QED BY <1>10
<1> HIDE DEF iter
<1>12. FoldsAs(iter, N, V, found, g)
  <2>1. {} \in SUBSET D
    OBVIOUS
  <2>2. iter[{}] = found /\ \A s \in SUBSET D : s # {} => iter[s] = C(iter[s \ {Max(s)}], Max(s))
    <3> HIDE DEF D
    <3> QED BY <1>11, <2>1
  <2>3. ASSUME NEW s \in SUBSET D, s # {}, iter[s \ {Max(s)}] \in V
        PROVE  iter[s] = g[<< iter[s \ {Max(s)}], Max(s) >>]
    <3>1. Max(s) \in D
      BY <1>5, <2>3
    <3> HIDE DEF D
    <3> QED BY <1>4, <2>2, <2>3, <3>1
  <2> QED BY <2>2, <2>3 DEF FoldsAs
<1>13. EndsAs(iter, f, N, V)
  BY <1>1, <1>6, <1>7, <1>12, FoldedValue
<1>14. iter[D] \in V
  BY <1>13 DEF EndsAs
<1> QED BY <1>3, <1>14

LEMMA BestIsChoice ==
  ASSUME NEW tokens, NEW i
  PROVE  LET best == Best(tokens, i)
         IN \/ best.size = 0
            \/ /\ best.size \in 1 .. 3 /\ WindowAt(tokens, i, best.size)
               /\ best.word \in 1 .. Len(Vocabulary)
<1> DEFINE best == Best(tokens, i)
           V == MayChoose(tokens, i)
<1>1. best = Offered(tokens, i, Offered(tokens, i, Offered(tokens, i, NoMatch, 3), 2), 1)
  BY DEF Best, Offered
<1>2. NoMatch \in V
  BY DEF MayChoose
<1> HIDE DEF best
<1>3. 1 \in 1 .. 3 /\ 2 \in 1 .. 3 /\ 3 \in 1 .. 3
  OBVIOUS
<1>4. best \in V
  BY <1>1, <1>2, <1>3, OfferedIsChoice
<1>5. best = NoMatch \/ \E n \in 1 .. 3 : \E k \in 1 .. Len(AllKeys) :
        WindowAt(tokens, i, n) /\ best = Offer(Candidate(tokens, i, n), AllKeys[k], n)
  BY <1>4 DEF MayChoose
<1>6. CASE best = NoMatch
  BY <1>6 DEF NoMatch, best
<1>7. ASSUME NEW n \in 1 .. 3, NEW k \in 1 .. Len(AllKeys), WindowAt(tokens, i, n),
             best = Offer(Candidate(tokens, i, n), AllKeys[k], n)
      PROVE  best.size = 0 \/ (best.size = n /\ best.word = AllKeys[k].word)
  BY <1>7 DEF Offer, NoMatch
<1>8. \A k \in 1 .. Len(AllKeys) : AllKeys[k].word \in 1 .. Len(Vocabulary)
  BY KeysAreOfWords
<1> QED BY <1>5, <1>6, <1>7, <1>8 DEF best

(* apply, from a token on. *)
CorrectStep(f, tokens, i) ==
  LET best == Best(tokens, i)
  IN IF i > Len(tokens) THEN <<>>
     ELSE IF best.size = 0 THEN << tokens[i] >> \o f[i + 1]
     ELSE << Replacement(tokens, i, best) >> \o f[i + best.size]

IsCorrection(f, tokens) == \A i \in 1 .. Len(tokens) + 1 : f[i] = CorrectStep(f, tokens, i)

(* What stands for a token, or for several, is a word again. *)
LEMMA ReplacementKeeps ==
  ASSUME NEW tokens \in Seq(Seq(Chars)), NEW i \in 1 .. Len(tokens), NEW best, best.size # 0,
         best = Best(tokens, i)
  PROVE  /\ best.size \in 1 .. 3 /\ i + best.size \in 1 .. Len(tokens) + 1
         /\ Replacement(tokens, i, best) \in Seq(Chars)
<1> DEFINE n == Len(tokens)
           m == best.size
           w == Vocabulary[best.word]
<1>1. m \in 1 .. 3 /\ WindowAt(tokens, i, m) /\ best.word \in 1 .. Len(Vocabulary)
  BY BestIsChoice
<1>2. n \in Nat /\ i + m - 1 <= n
  BY <1>1 DEF WindowAt
<1> HIDE DEF m
<1>3. i + m \in 1 .. n + 1 /\ i + m - 1 \in 1 .. n
  BY <1>1, <1>2
<1>4. tokens[i] \in Seq(Chars) /\ tokens[i + m - 1] \in Seq(Chars)
  BY <1>3
<1>5. w \in Seq(Chars)
  <2>1. w \in Seq(STRING)
    BY <1>1, VocabularyAssumption
  <2>2. STRING \subseteq Chars
    BY DEF Chars
  <2> HIDE DEF w
  <2> QED BY <2>1, <2>2, SeqMonotonic
<1> DEFINE a == Prefix(tokens[i])
           b == KeepCase(tokens[i], w)
           c == Suffix(tokens[i + m - 1])
<1>6. a \in Seq(Chars) /\ b \in Seq(Chars) /\ c \in Seq(Chars)
  BY <1>4, <1>5, PunctuationKeeps, KeepCaseKeeps
<1>7. Replacement(tokens, i, best) = a \o b \o c
  BY DEF Replacement, m
<1> HIDE DEF a, b, c
<1>8. a \o b \o c \in Seq(Chars)
  <2> DEFINE ab == a \o b
  <2>1. ab \in Seq(Chars)
    BY <1>6, ConcatProperties
  <2> HIDE DEF ab
  <2>2. ab \o c \in Seq(Chars)
    BY <1>6, <2>1, ConcatProperties
  <2> QED BY <2>2 DEF ab
<1> QED BY <1>1, <1>3, <1>7, <1>8 DEF m

(* There is such a function for every list of tokens. *)
LEMMA CorrectedExists ==
  ASSUME NEW tokens \in Seq(Seq(Chars))
  PROVE  \E f : IsCorrection(f, tokens) /\ Corrected(tokens) = f[1]
<1> DEFINE n == Len(tokens)
           D == 1 .. n + 1
           Good(f, k) == \A i \in D : i + k > n + 1 => f[i] = CorrectStep(f, tokens, i)
           S == {k \in Nat : \E f : f = [i \in D |-> f[i]] /\ Good(f, k)}
           Eq(f) == f = [i \in D |-> CorrectStep(f, tokens, i)]
           from == CHOOSE f : Eq(f)
<1>0. n \in Nat
  OBVIOUS
<1>1. 0 \in S
  <2> DEFINE f == [i \in D |-> <<>>]
  <2>1. \A i \in D : ~(i + 0 > n + 1)
    BY <1>0
  <2>2. f = [i \in D |-> f[i]]
    OBVIOUS
  <2>3. Good(f, 0)
    BY <2>1
  <2> HIDE DEF f, Good
  <2> QED BY <2>2, <2>3
<1>2. ASSUME NEW k \in Nat, k \in S PROVE k + 1 \in S
  <2>1. PICK f : f = [i \in D |-> f[i]] /\ Good(f, k)
    BY <1>2
  <2> DEFINE p == n + 1 - k
             h == [i \in D |-> IF i = p THEN CorrectStep(f, tokens, i) ELSE f[i]]
  <2>2. h = [i \in D |-> h[i]]
    OBVIOUS
  <2>3. \A i \in D : h[i] = IF i = p THEN CorrectStep(f, tokens, i) ELSE f[i]
    OBVIOUS
  <2>4. p \in Int /\ \A i \in D : i + (k + 1) > n + 1 => i \in Int /\ i >= p /\ (i = p \/ i + k > n + 1)
    BY <1>0
  <2> HIDE DEF h, p
  <2>5. ASSUME NEW i \in D, i + (k + 1) > n + 1 PROVE h[i] = CorrectStep(h, tokens, i)
    <3> DEFINE best == Best(tokens, i)
               next == i + best.size
    <3>1. i <= n => i + 1 \in D /\ i + 1 # p
      BY <1>0, <2>4, <2>5
    <3>2. ASSUME i <= n, best.size # 0 PROVE next \in D /\ next # p
      <4>1. i \in 1 .. n
        BY <1>0, <3>2
      <4>2. best.size \in 1 .. 3 /\ i + best.size \in D
        <5> HIDE DEF best
        <5> QED BY <3>2, <4>1, ReplacementKeeps DEF best
      <4>3. i \in Int /\ p \in Int /\ i >= p
        BY <2>4, <2>5
      <4> HIDE DEF best
      <4> QED BY <4>2, <4>3
    <3>3. i <= n => h[i + 1] = f[i + 1]
      BY <2>3, <3>1
    <3>4. i <= n /\ best.size # 0 => h[next] = f[next]
      <4> HIDE DEF next, best
      <4> QED BY <2>3, <3>2
    <3>5. ~(i > n) => i <= n
      BY <1>0
    <3>6. CorrectStep(h, tokens, i) = CorrectStep(f, tokens, i)
      BY <3>3, <3>4, <3>5 DEF CorrectStep
    <3>7. i # p => f[i] = CorrectStep(f, tokens, i)
      BY <2>1, <2>4, <2>5
    <3> HIDE DEF best, next
    <3> QED BY <2>3, <3>6, <3>7
  <2>6. Good(h, k + 1)
    BY <2>5
  <2> HIDE DEF Good
  <2> QED BY <2>2, <2>6
<1>3. n + 1 \in S
  <2> HIDE DEF S
  <2>1. n + 1 \in Nat
    BY <1>0
  <2> QED BY <1>1, <1>2, <2>1, Induction
<1>4. \E f : Eq(f)
  <2>1. PICK f : f = [i \in D |-> f[i]] /\ Good(f, n + 1)
    BY <1>3
  <2>2. \A i \in D : i + (n + 1) > n + 1
    BY <1>0
  <2>3. \A i \in D : f[i] = CorrectStep(f, tokens, i)
    BY <2>1, <2>2
  <2>4. Eq(f)
    BY <2>1, <2>3
  <2> HIDE DEF Eq
  <2> QED BY <2>4
<1>5. Eq(from)
  <2> HIDE DEF Eq
  <2> QED BY <1>4
<1>6. Corrected(tokens) = from[1]
  BY DEF Corrected, CorrectStep
<1> HIDE DEF from
<1>7. IsCorrection(from, tokens)
  <2> DEFINE G == [i \in D |-> CorrectStep(from, tokens, i)]
  <2>1. from = G
    BY <1>5
  <2>2. \A i \in D : G[i] = CorrectStep(from, tokens, i)
    OBVIOUS
  <2> HIDE DEF G
  <2> QED BY <2>1, <2>2 DEF IsCorrection
<1> QED BY <1>6, <1>7

LEMMA CorrectedKeeps ==
  ASSUME NEW tokens \in Seq(Seq(Chars))
  PROVE  Corrected(tokens) \in Seq(Seq(Chars))
<1> DEFINE n == Len(tokens)
           D == 1 .. n + 1
           V == Seq(Seq(Chars))
<1>1. PICK f : IsCorrection(f, tokens) /\ Corrected(tokens) = f[1]
  BY CorrectedExists
<1> DEFINE T == {k \in Nat : \A i \in D : i + k > n + 1 => f[i] \in V}
<1>2. n \in Nat /\ \A i \in 1 .. n : tokens[i] \in Seq(Chars)
  OBVIOUS
<1>3. 0 \in T
  BY <1>2
<1>4. ASSUME NEW k \in Nat, k \in T PROVE k + 1 \in T
  <2> SUFFICES ASSUME NEW i \in D, i + (k + 1) > n + 1 PROVE f[i] \in V
    OBVIOUS
  <2> DEFINE best == Best(tokens, i)
             next == i + best.size
             r == Replacement(tokens, i, best)
  <2>1. f[i] = CorrectStep(f, tokens, i)
    BY <1>1 DEF IsCorrection
  <2>2. CASE i > n
    <3>1. f[i] = <<>>
      BY <2>1, <2>2 DEF CorrectStep
    <3> QED BY <3>1
  <2>3. CASE ~(i > n) /\ best.size = 0
    <3>1. f[i] = << tokens[i] >> \o f[i + 1]
      BY <2>1, <2>3 DEF CorrectStep
    <3>2. i \in 1 .. n /\ i + 1 \in D /\ i + 1 + k > n + 1
      BY <1>2, <2>3
    <3>3. f[i + 1] \in V
      BY <1>4, <3>2
    <3>4. << tokens[i] >> \in V
      BY <1>2, <3>2
    <3> HIDE DEF V, D, T
    <3>5. << tokens[i] >> \o f[i + 1] \in V
      BY <3>3, <3>4, ConcatProperties DEF V
    <3> QED BY <3>1, <3>5
  <2>4. CASE ~(i > n) /\ best.size # 0
    <3>1. f[i] = << r >> \o f[next]
      BY <2>1, <2>4 DEF CorrectStep
    <3>2. i \in 1 .. n
      BY <1>2, <2>4
    <3>3. best.size \in 1 .. 3 /\ next \in D /\ r \in Seq(Chars)
      <4> HIDE DEF best
      <4> QED BY <2>4, <3>2, ReplacementKeeps DEF best
    <3>4. next + k > n + 1
      <4> HIDE DEF best
      <4> QED BY <1>2, <2>4, <3>2, <3>3, SMTT(30)
    <3> HIDE DEF r, next, best
    <3>5. f[next] \in V
      BY <1>4, <3>3, <3>4
    <3>6. << r >> \in V
      BY <3>3
    <3> HIDE DEF V, D, T
    <3>7. << r >> \o f[next] \in V
      BY <3>5, <3>6, ConcatProperties DEF V
    <3> QED BY <3>1, <3>7
  <2> QED BY <2>2, <2>3, <2>4
<1>5. n + 1 \in T
  <2> HIDE DEF T
  <2>1. n + 1 \in Nat
    BY <1>2
  <2> QED BY <1>3, <1>4, <2>1, Induction
<1>6. 1 \in D /\ 1 + (n + 1) > n + 1
  BY <1>2
<1> QED BY <1>1, <1>5, <1>6

(* A corrected transcript is a text. *)
LEMMA CorrectingKeeps ==
  ASSUME NEW text \in Seq(Chars)
  PROVE  CorrectVocabulary(text) \in Seq(Chars)
<1>1. Tokens(text) \in Seq(Seq(Chars))
  <2>1. Tokens(text) \in Seq(Seq(Chars \ {Blank}))
    BY TokensAreWords
  <2>2. Seq(Chars \ {Blank}) \subseteq Seq(Chars)
    BY SeqMonotonic
  <2> QED BY <2>1, <2>2, SeqMonotonic
<1>2. Join(Corrected(Tokens(text))) \in Seq(Chars)
  BY <1>1, CorrectedKeeps, JoinKeeps
<1> QED BY <1>2 DEF CorrectVocabulary
=============================================================================
