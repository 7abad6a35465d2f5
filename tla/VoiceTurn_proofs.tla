-------------------------- MODULE VoiceTurn_proofs --------------------------
(***************************************************************************)
(* What the target application receives is the text of an initial part of  *)
(* the turn, older than the holdback and so without any of the command,    *)
(* whatever is said and wherever chunks, milliseconds and frames end.      *)
(***************************************************************************)
EXTENDS VoiceTurn, Integers, FiniteSetTheorems, WellFoundedInduction, TLAPS

(* What can be heard in a turn.                                             *)
Heard == {a \in Seq(Sounds) : Len(a) <= MaxSamples}

(* The parts of the invariant.  Types, with the three clocks of a turn in   *)
(* step: the audio, and the samples counted for the cutoff.                 *)
Types ==
    /\ phase \in {"off", "listen", "restart"}
    /\ audio \in Heard /\ received = Len(audio)
    /\ decoded \in 0..AllFrames(Len(audio))
    /\ kws \in [started : BOOLEAN, latched : BOOLEAN]
    /\ phase = "listen" => kws = [started |-> TRUE, latched |-> FALSE]
    /\ suppress \in BOOLEAN /\ echo \in BOOLEAN /\ returned \in BOOLEAN
    /\ frontmost \in Apps
    /\ error \in {"none", "engine", "divergentPrefix"}

(* What was typed is the text before a cutoff, none of it the command.      *)
TypedUpTo(cutoff) ==
    /\ typed = SafeText(cutoff)
    /\ \A i \in 1..Len(audio) : FrameOf(i) * FrameMs < cutoff => audio[i] # "command"

(* The coordinator remembers what it typed, and that is safe text.          *)
TypedInv ==
    /\ typed = injectedPrefix
    /\ \E cutoff \in 0..Cutoff(Len(audio)) : TypedUpTo(cutoff)

(* A spotter that listens may still miss the command it hears.              *)
YoungInv == phase = "listen" => Age(audio) < CommandSamples + Latency

(* Return belongs to a turn that a command has ended.                       *)
ReturnInv ==
    /\ phase # "restart" => ~returned
    /\ ReturnSendsAll

IInv == Types /\ TypedInv /\ YoungInv /\ ReturnInv

(* What was heard is a sequence no longer than a turn.                      *)
LEMMA SeqHeard ==
    ASSUME NEW a \in Heard
    PROVE  a \in Seq(Sounds) /\ Len(a) \in Nat /\ Len(a) <= MaxSamples
BY DEF Heard

(* More audio does not change the first frames.                             *)
LEMMA Prefixes ==
    ASSUME NEW a \in Seq(Sounds), NEW c \in Seq(Sounds), NEW k \in 0..Len(a)
    PROVE  /\ SubSeq(a \o c, 1, k) = SubSeq(a, 1, k)
           /\ SubSeq(a, 1, k) \in Seq(Sounds) /\ Len(SubSeq(a, 1, k)) = k
           /\ \A i \in 1..k : SubSeq(a, 1, k)[i] = a[i]
<1>1. SubSeq(a, 1, k) \in Seq(Sounds) /\ Len(SubSeq(a, 1, k)) = k
      /\ \A i \in 1..k : SubSeq(a, 1, k)[i] = a[i]
  OBVIOUS
<1>2. /\ a \o c \in Seq(Sounds) /\ Len(a \o c) = Len(a) + Len(c)
      /\ \A i \in 1..Len(a) : (a \o c)[i] = a[i]
  OBVIOUS
<1>3. SubSeq(a \o c, 1, k) \in Seq(Sounds) /\ Len(SubSeq(a \o c, 1, k)) = k
      /\ \A i \in 1..k : SubSeq(a \o c, 1, k)[i] = a[i]
  <2>1. k \in Nat /\ k <= Len(a \o c) BY <1>2
  <2> HIDE <1>2
  <2> DEFINE b == a \o c
  <2>2. \A i \in 1..k : b[i] = a[i] BY <1>2
  <2>3. b \in Seq(Sounds) /\ k \in 0..Len(b) BY <1>2, <2>1
  <2> HIDE DEF b
  <2>4. SubSeq(b, 1, k) \in Seq(Sounds) /\ Len(SubSeq(b, 1, k)) = k
        /\ \A i \in 1..k : SubSeq(b, 1, k)[i] = b[i]
    BY <2>3
  <2>5. \A i \in 1..k : SubSeq(b, 1, k)[i] = a[i] BY <2>2, <2>4
  <2> QED BY <2>4, <2>5 DEF b
<1>4. SubSeq(a \o c, 1, k) = SubSeq(a, 1, k)
  <2> DEFINE u == SubSeq(a \o c, 1, k) v == SubSeq(a, 1, k)
  <2>1. u \in Seq(Sounds) /\ v \in Seq(Sounds) /\ Len(u) = Len(v) /\ \A i \in 1..Len(u) : u[i] = v[i]
    BY <1>1, <1>3
  <2> HIDE DEF u, v
  <2>2. u = v BY <2>1
  <2> QED BY <2>2 DEF u, v
<1> QED BY <1>1, <1>4

(* A prefix, and what a longer text adds to it, is that text.               *)
LEMMA SuffixCompletes ==
    ASSUME NEW S, NEW s \in Seq(S), NEW t \in Seq(S), IsPrefix(s, t)
    PROVE  s \o SubSeq(t, Len(s) + 1, Len(t)) = t
<1> DEFINE n == Len(s) m == Len(t) u == SubSeq(t, n + 1, m)
<1>1. n \in Nat /\ m \in Nat /\ n <= m BY DEF IsPrefix
<1>2. \A i \in 1..n : s[i] = t[i]
  <2>1. \A i \in 1..n : SubSeq(t, 1, n)[i] = t[i] BY <1>1
  <2> QED BY <2>1 DEF IsPrefix
<1>3. u \in Seq(S) /\ Len(u) = m - n /\ \A i \in 1..(m - n) : u[i] = t[n + i]
  BY <1>1
<1> HIDE DEF u
<1>4. s \o u \in Seq(S) /\ Len(s \o u) = m BY <1>1, <1>3
<1>5. \A i \in 1..m : (s \o u)[i] = t[i]
  <2> SUFFICES ASSUME NEW i \in 1..m PROVE (s \o u)[i] = t[i] OBVIOUS
  <2>1. CASE i \in 1..n BY <1>1, <1>2, <1>3, <2>1
  <2>2. CASE i \notin 1..n
    <3>1. i - n \in 1..(m - n) /\ n + (i - n) = i BY <1>1, <2>2
    <3>2. (s \o u)[i] = u[i - n] BY <1>1, <1>3, <2>2
    <3> QED BY <1>3, <3>1, <3>2
  <2> QED BY <2>1, <2>2
<1>6. s \o u = t
  <2> DEFINE v == s \o u
  <2>1. v \in Seq(S) /\ Len(v) = Len(t) /\ \A i \in 1..Len(t) : v[i] = t[i] BY <1>4, <1>5
  <2> HIDE DEF v
  <2>2. v = t BY <2>1
  <2> QED BY <2>2 DEF v
<1> QED BY <1>6 DEF u

(* A command is at least as old as any frame of it.                         *)
LEMMA AgeCounts ==
    ASSUME NEW a \in Seq(Sounds), NEW i \in 1..Len(a), a[i] = "command"
    PROVE  Age(a) \in Nat /\ Age(a) >= Len(a) + 1 - i
<1> DEFINE n == Len(a)
           S == {k \in DOMAIN a : \E j \in 1..k : a[j] = "command"}
<1>1. n \in Nat /\ i \in Nat OBVIOUS
<1>2. i..n \subseteq S OBVIOUS
<1>3. S \subseteq 1..n OBVIOUS
<1>4. IsFiniteSet(1..n) /\ Cardinality(i..n) = n + 1 - i
  <2>1. 1 <= n /\ i <= n OBVIOUS
  <2> QED BY <1>1, <2>1, FS_Interval
<1> HIDE DEF S
<1>5. IsFiniteSet(S) BY <1>3, <1>4, FS_Subset
<1>6. Cardinality(i..n) <= Cardinality(S) /\ Cardinality(S) \in Nat
  BY <1>2, <1>5, FS_Subset, FS_CardinalityType
<1> QED BY <1>1, <1>4, <1>6 DEF Age, S

(* A set of numbers that is not empty has a least one: induction on the     *)
(* numbers, for one set at a time.                                          *)
LEMMA LeastNumber ==
    ASSUME NEW T \in SUBSET Nat, T # {}
    PROVE  \E n \in T : \A m \in T : n <= m
<1> DEFINE R == {ss \in Nat \X Nat : ss[1] < ss[2]}
<1>1. IsWellFoundedOn(R, Nat)
  <2>1. R = OpToRel(<, Nat) BY DEF OpToRel
  <2> QED BY <2>1, NatLessThanWellFounded
<1>2. PICK n \in T : \A y \in T : ~(<<y, n>> \in R)
  <2> HIDE DEF R
  <2> QED BY <1>1, WFMin
<1>3. ASSUME NEW m \in T PROVE n <= m
  <2>1. <<m, n>> \notin R /\ m \in Nat /\ n \in Nat BY <1>2
  <2>2. ~(m < n) BY <2>1
  <2> QED BY <2>1, <2>2
<1> QED BY <1>3

(* g[n] are the tokens of the first n frames: the equation of upTo in       *)
(* Decoded.                                                                 *)
UpTo(a, g) ==
    g = [n \in 0..Len(a) |->
          IF n = 0 THEN <<>>
          ELSE g[n - 1] \o (IF a[n] = "silence" THEN <<>> ELSE <<a[n]>>)]

(* The equation has a solution.                                             *)
LEMMA UpToExists == ASSUME NEW a \in Seq(Sounds) PROVE \E g : UpTo(a, g)
<1> DEFINE Token(n) == IF a[n] = "silence" THEN <<>> ELSE <<a[n]>>
           Solves(f, n) == \A t \in 0..n : f[t] = IF t = 0 THEN <<>> ELSE f[t - 1] \o Token(t)
           Unsolved == {n \in Nat : ~ \E f : f = [t \in 0..n |-> f[t]] /\ Solves(f, n)}
<1>1. Unsolved = {}
  <2> SUFFICES ASSUME Unsolved # {} PROVE FALSE OBVIOUS
  <2>1. PICK n \in Unsolved : \A m \in Unsolved : n <= m
    <3>1. Unsolved \in SUBSET Nat OBVIOUS
    <3> HIDE DEF Unsolved
    <3> QED BY <3>1, LeastNumber
  <2>2. n \in Nat /\ ~ \E f : f = [t \in 0..n |-> f[t]] /\ Solves(f, n) BY <2>1
  <2>3. CASE n = 0
    <3> DEFINE f == [t \in 0..0 |-> <<>>]
    <3>1. f = [t \in 0..n |-> f[t]] /\ Solves(f, n) BY <2>3
    <3> QED BY <2>2, <3>1
  <2>4. CASE n # 0
    <3>1. n - 1 \in Nat /\ n - 1 \notin Unsolved
      <4>1. n \in Nat BY <2>2
      <4> HIDE DEF Unsolved
      <4>2. n - 1 \in Nat /\ ~(n <= n - 1) BY <2>4, <4>1
      <4> QED BY <2>1, <4>2
    <3>2. PICK f : Solves(f, n - 1) BY <3>1
    <3> DEFINE h == [t \in 0..n |-> IF t = n THEN f[n - 1] \o Token(n) ELSE f[t]]
    <3> HIDE DEF Token
    <3>3. h = [t \in 0..n |-> h[t]] OBVIOUS
    <3>4. ASSUME NEW t \in 0..n PROVE h[t] = IF t = 0 THEN <<>> ELSE h[t - 1] \o Token(t)
      <4>1. CASE t = n
        <5>1. h[n] = f[n - 1] \o Token(n) /\ h[n - 1] = f[n - 1] BY <2>2, <2>4
        <5> QED BY <2>4, <4>1, <5>1
      <4>2. CASE t # n
        <5>1. t \in 0..(n - 1) /\ h[t] = f[t] BY <2>2, <4>2
        <5>2. t # 0 => h[t - 1] = f[t - 1] BY <2>2, <4>2
        <5> QED BY <3>2, <5>1, <5>2
      <4> QED BY <4>1, <4>2
    <3> HIDE DEF h
    <3>5. Solves(h, n) BY <3>4
    <3> QED BY <2>2, <3>3, <3>5
  <2> QED BY <2>3, <2>4
<1> DEFINE n == Len(a)
<1>2. n \in Nat OBVIOUS
<1>3. PICK f : f = [t \in 0..n |-> f[t]] /\ Solves(f, n) BY <1>1, <1>2
<1> HIDE DEF n, Token
<1>4. f = [t \in 0..n |-> IF t = 0 THEN <<>> ELSE f[t - 1] \o Token(t)]
  BY <1>3
<1> QED BY <1>4, Zenon DEF UpTo, n, Token

(* Every token was heard, and no frame makes two.                           *)
LEMMA DecodedFacts ==
    ASSUME NEW a \in Seq(Sounds)
    PROVE  /\ Decoded(a) \in Seq({a[i] : i \in 1..Len(a)} \ {"silence"})
           /\ Len(Decoded(a)) <= Len(a)
<1> DEFINE S == {a[i] : i \in 1..Len(a)} \ {"silence"}
           n == Len(a)
<1>1. PICK g : UpTo(a, g) /\ Decoded(a) = g[n]
  <2> DEFINE f == CHOOSE upTo : UpTo(a, upTo)
  <2>1. UpTo(a, f) BY UpToExists, Zenon
  <2>2. Decoded(a) = f[Len(a)] BY Zenon DEF Decoded, UpTo
  <2> QED BY <2>1, <2>2
<1> DEFINE Token(t) == IF a[t] = "silence" THEN <<>> ELSE <<a[t]>>
<1>2. n \in Nat OBVIOUS
<1>3. \A t \in 0..n : g[t] = IF t = 0 THEN <<>> ELSE g[t - 1] \o Token(t)
  BY <1>1, <1>2 DEF UpTo
<1>4. ASSUME NEW t \in 1..n PROVE Token(t) \in Seq(S) /\ Len(Token(t)) <= 1
  <2>1. CASE a[t] = "silence"
    <3>1. Token(t) = <<>> BY <2>1
    <3> HIDE DEF S
    <3> QED BY <3>1
  <2>2. CASE a[t] # "silence"
    <3>1. Token(t) = <<a[t]>> /\ a[t] \in S BY <2>2
    <3> HIDE DEF S, Token
    <3> QED BY <3>1
  <2> QED BY <2>1, <2>2
<1> HIDE DEF Token, S
<1> DEFINE Bad == {t \in 0..n : ~(g[t] \in Seq(S) /\ Len(g[t]) <= t)}
<1>5. Bad = {}
  <2> SUFFICES ASSUME Bad # {} PROVE FALSE OBVIOUS
  <2>1. PICK t \in Bad : \A m \in Bad : t <= m
    <3>1. Bad \in SUBSET Nat BY <1>2
    <3> HIDE DEF Bad
    <3> QED BY <3>1, LeastNumber
  <2>2. t \in 0..n /\ ~(g[t] \in Seq(S) /\ Len(g[t]) <= t) OBVIOUS
  <2>3. CASE t = 0
    <3>1. g[t] = <<>> BY <1>2, <1>3, <2>3
    <3> QED BY <2>2, <2>3, <3>1
  <2>4. CASE t # 0
    <3>1. t - 1 \in 0..n /\ t \in 1..n /\ ~(t <= t - 1) BY <1>2, <2>2, <2>4
    <3>2. t - 1 \notin Bad
      <4> HIDE DEF Bad
      <4> QED BY <2>1, <3>1
    <3>3. g[t - 1] \in Seq(S) /\ Len(g[t - 1]) <= t - 1 BY <3>1, <3>2
    <3>4. g[t] = g[t - 1] \o Token(t) BY <1>3, <2>2, <2>4
    <3>5. Token(t) \in Seq(S) /\ Len(Token(t)) <= 1 BY <1>4, <3>1
    <3>6. g[t] \in Seq(S) /\ Len(g[t]) = Len(g[t - 1]) + Len(Token(t))
      <4> DEFINE u == g[t - 1]  v == Token(t)
      <4>1. u \in Seq(S) /\ v \in Seq(S) /\ g[t] = u \o v BY <3>3, <3>4, <3>5
      <4> HIDE DEF u, v
      <4>2. g[t] \in Seq(S) /\ Len(g[t]) = Len(u) + Len(v) BY <4>1
      <4> QED BY <4>2 DEF u, v
    <3>7. Len(g[t]) <= t
      <4>1. Len(g[t - 1]) \in Nat /\ Len(Token(t)) \in Nat BY <3>3, <3>5
      <4> QED BY <3>1, <3>3, <3>5, <3>6, <4>1
    <3> QED BY <2>2, <3>6, <3>7
  <2> QED BY <2>3, <2>4
<1>6. n \in 0..n BY <1>2
<1>7. n \notin Bad BY <1>5
<1>8. g[n] \in Seq(S) /\ Len(g[n]) <= n BY <1>6, <1>7
<1> QED BY <1>1, <1>8 DEF S

(* What can be typed.                                                       *)
Texts == Text(Sounds \ {"silence"})

(* The text of the first k frames renders their words.                      *)
LEMMA Rendered ==
    ASSUME NEW a \in Seq(Sounds), NEW k \in 0..Len(a)
    PROVE  LET t == Convert(Decoded(SubSeq(a, 1, k)))
           IN  /\ t \in Seq(Texts) /\ Len(t) <= k
               /\ \A i \in DOMAIN t : \E j \in 1..k : t[i].word = a[j]
<1> DEFINE b == SubSeq(a, 1, k)  s == Decoded(b)  t == Convert(s)
<1>1. b \in Seq(Sounds) /\ Len(b) = k /\ k \in Nat /\ \A i \in 1..k : b[i] = a[i]
  BY Prefixes
<1> HIDE DEF b
<1>2. s \in Seq({b[i] : i \in 1..k} \ {"silence"}) /\ Len(s) <= k BY <1>1, DecodedFacts
<1> HIDE DEF s
<1>3. /\ Len(s) \in Nat /\ DOMAIN s = 1..Len(s)
      /\ \A i \in 1..Len(s) : s[i] \in {b[j] : j \in 1..k} /\ s[i] # "silence"
  BY <1>2
<1>4. \A i \in 1..Len(s) : s[i] \in Sounds \ {"silence"} BY <1>1, <1>3
<1>5. \A i \in 1..Len(s) : t[i] \in Texts /\ t[i].word = s[i]
  <2> SUFFICES ASSUME NEW i \in 1..Len(s) PROVE t[i] \in Texts /\ t[i].word = s[i]
    OBVIOUS
  <2> DEFINE p == \/ i < Len(s) /\ <<s[i], s[i + 1]>> \in Phrases
                  \/ i > 1 /\ <<s[i - 1], s[i]>> \in Phrases
  <2>1. t[i] = [word |-> s[i], inPhrase |-> p] BY <1>3 DEF Convert
  <2>2. p \in BOOLEAN BY Zenon
  <2> HIDE DEF p, t
  <2>3. t[i].word = s[i] /\ s[i] \in Sounds \ {"silence"} BY <1>4, <2>1
  <2> QED BY <2>1, <2>2, <2>3 DEF Texts, Text
<1>6. t \in [1..Len(s) -> Texts]
  <2>1. t = [i \in 1..Len(s) |-> t[i]] BY <1>3 DEF Convert
  <2> HIDE DEF t
  <2> QED BY <1>5, <2>1
<1> HIDE DEF t
<1>7. t \in Seq(Texts) /\ Len(t) = Len(s) BY <1>3, <1>6
<1>8. ASSUME NEW i \in DOMAIN t PROVE \E j \in 1..k : t[i].word = a[j]
  <2>1. i \in 1..Len(s) BY <1>6
  <2>2. PICK j \in 1..k : s[i] = b[j] BY <1>3, <2>1
  <2> QED BY <1>1, <1>5, <2>1, <2>2
<1>9. t \in Seq(Texts) /\ Len(t) <= k BY <1>2, <1>7
<1> QED BY <1>8, <1>9 DEF t, s, b

-----------------------------------------------------------------------------
(* The three clocks.                                                        *)

LEMMA ProductGrows ==
    ASSUME NEW p \in Nat, NEW x \in Int, NEW y \in Int, x <= y PROVE p * x <= p * y
<1>1. PICK z \in Nat : y = x + z
  <2>1. y - x \in Nat /\ y = x + (y - x) OBVIOUS
  <2> QED BY <2>1
<1>2. p * y = p * x + p * z BY <1>1
<1>3. p * z \in Nat OBVIOUS
<1>4. p * x \in Int OBVIOUS
<1> QED BY <1>2, <1>3, <1>4

(* What rounding down loses.                                                *)
LEMMA Divided ==
    ASSUME NEW x \in Nat, NEW p \in Nat \ {0}
    PROVE  x \div p \in Nat /\ p * (x \div p) <= x /\ x < p * (x \div p) + p
OBVIOUS

(* Rounding down keeps the order, and a step of one.                        *)
LEMMA DividedGrows ==
    ASSUME NEW x \in Nat, NEW y \in Nat, NEW p \in Nat \ {0}
    PROVE  /\ x <= y => x \div p <= y \div p
           /\ y <= x + 1 => y \div p <= x \div p + 1
<1> DEFINE u == x \div p  v == y \div p
<1>1. /\ u \in Nat /\ p * u <= x /\ x < p * u + p
      /\ v \in Nat /\ p * v <= y /\ y < p * v + p
  BY Divided
<1> HIDE DEF u, v
<1>2. ASSUME x <= y PROVE u <= v
  <2> SUFFICES ASSUME v + 1 <= u PROVE FALSE BY <1>1
  <2>1. p * (v + 1) <= p * u BY <1>1, ProductGrows
  <2>2. p * (v + 1) = p * v + p BY <1>1
  <2>3. p * v \in Int /\ p * u \in Int BY <1>1
  <2> QED BY <1>1, <1>2, <2>1, <2>2, <2>3
<1>3. ASSUME y <= x + 1 PROVE v <= u + 1
  <2> SUFFICES ASSUME u + 2 <= v PROVE FALSE BY <1>1
  <2>1. p * (u + 2) <= p * v BY <1>1, ProductGrows
  <2>2. p * (u + 2) = p * u + 2 * p BY <1>1
  <2>3. p * v \in Int /\ p * u \in Int BY <1>1
  <2> QED BY <1>1, <1>3, <2>1, <2>2, <2>3
<1> QED BY <1>2, <1>3 DEF u, v

(* The frame of a sample begins in or before its millisecond, and it is the *)
(* last that does.                                                          *)
LEMMA FrameFacts ==
    ASSUME NEW i \in Nat \ {0}
    PROVE  /\ FrameOf(i) \in Nat
           /\ (i - 1) \div SamplesPerMs \in Nat
           /\ FrameOf(i) * FrameMs <= (i - 1) \div SamplesPerMs
           /\ (i - 1) \div SamplesPerMs < FrameOf(i) * FrameMs + FrameMs
<1> DEFINE y == (i - 1) \div SamplesPerMs
<1>1. SamplesPerMs \in Nat \ {0} /\ FrameMs \in Nat \ {0} /\ i - 1 \in Nat BY VoiceAssumption
<1>2. y \in Nat BY <1>1, Divided
<1> HIDE DEF y
<1>3. y \div FrameMs \in Nat /\ FrameMs * (y \div FrameMs) <= y
      /\ y < FrameMs * (y \div FrameMs) + FrameMs
  BY <1>1, <1>2, Divided
<1> DEFINE q == y \div FrameMs
<1>4. FrameOf(i) = q BY DEF FrameOf, y
<1> HIDE DEF q
<1>5. q \in Nat /\ FrameMs * q = q * FrameMs BY <1>1, <1>3 DEF q
<1>6. q * FrameMs <= y /\ y < q * FrameMs + FrameMs BY <1>3, <1>5 DEF q
<1> QED BY <1>2, <1>4, <1>5, <1>6 DEF y

(* Frames follow the samples.                                               *)
LEMMA FramesGrow ==
    ASSUME NEW i \in Nat \ {0}, NEW j \in Nat \ {0}
    PROVE  /\ i <= j => FrameOf(i) <= FrameOf(j)
           /\ j <= i + 1 => FrameOf(j) <= FrameOf(i) + 1
<1> DEFINE y == (i - 1) \div SamplesPerMs  z == (j - 1) \div SamplesPerMs
<1>1. /\ SamplesPerMs \in Nat \ {0} /\ FrameMs \in Nat \ {0}
      /\ i - 1 \in Nat /\ j - 1 \in Nat
  BY VoiceAssumption
<1>2. /\ y \in Nat /\ z \in Nat
      /\ i - 1 <= j - 1 => y <= z
      /\ j - 1 <= (i - 1) + 1 => z <= y + 1
  BY <1>1, Divided, DividedGrows
<1> HIDE DEF y, z
<1>3. /\ y <= z => y \div FrameMs <= z \div FrameMs
      /\ z <= y + 1 => z \div FrameMs <= y \div FrameMs + 1
  BY <1>1, <1>2, DividedGrows
<1>4. FrameOf(i) = y \div FrameMs /\ FrameOf(j) = z \div FrameMs BY DEF FrameOf, y, z
<1> QED BY <1>2, <1>3, <1>4

(* All the frames that have begun: those complete, and at most one more.    *)
LEMMA AllFramesFacts ==
    ASSUME NEW n \in Nat
    PROVE  /\ AllFrames(n) \in Nat /\ WholeFrames(n) \in Nat
           /\ WholeFrames(n) <= AllFrames(n)
           /\ \A i \in 1..n : FrameOf(i) < AllFrames(n)
<1>1. n + 1 \in Nat \ {0} OBVIOUS
<1>2. WholeFrames(n) \in Nat BY <1>1, FrameFacts DEF WholeFrames
<1>3. CASE n = 0
  <2>1. FrameOf(1) = 0
    <3>1. 1 \in Nat \ {0} /\ SamplesPerMs \in Nat \ {0} /\ FrameMs \in Nat \ {0}
      BY VoiceAssumption
    <3> DEFINE q == 0 \div SamplesPerMs
    <3>2. q \in Nat /\ SamplesPerMs * q <= 0 BY <3>1, Divided
    <3> HIDE DEF q
    <3>3. q = 0
      <4> SUFFICES ASSUME 1 <= q PROVE FALSE BY <3>2
      <4>1. SamplesPerMs * 1 <= SamplesPerMs * q BY <3>1, <3>2, ProductGrows
      <4> QED BY <3>1, <3>2, <4>1
    <3>4. FrameOf(1) \in Nat /\ FrameOf(1) * FrameMs <= 0
      <4>1. (1 - 1) \div SamplesPerMs = 0 BY <3>3 DEF q
      <4> QED BY <3>1, <4>1, FrameFacts
    <3> DEFINE f == FrameOf(1)
    <3>5. f \in Nat /\ f * FrameMs <= 0 BY <3>4
    <3> HIDE DEF f
    <3>6. f = 0
      <4> SUFFICES ASSUME 1 <= f PROVE FALSE BY <3>5
      <4>1. FrameMs * 1 <= FrameMs * f BY <3>1, <3>5, ProductGrows
      <4>2. FrameMs * f = f * FrameMs BY <3>1, <3>5
      <4> QED BY <3>1, <3>5, <4>1, <4>2
    <3> QED BY <3>6 DEF f
  <2> QED BY <1>3, <2>1 DEF AllFrames, WholeFrames
<1>4. CASE n # 0
  <2>1. n \in Nat \ {0} BY <1>4
  <2>2. FrameOf(n) \in Nat BY <2>1, FrameFacts
  <2>3. FrameOf(n + 1) <= FrameOf(n) + 1 BY <1>1, <2>1, FramesGrow
  <2>4. ASSUME NEW i \in 1..n PROVE FrameOf(i) < FrameOf(n) + 1
    <3>1. i \in Nat \ {0} /\ i <= n OBVIOUS
    <3>2. FrameOf(i) \in Nat /\ FrameOf(i) <= FrameOf(n) BY <2>1, <3>1, FrameFacts, FramesGrow
    <3> QED BY <2>2, <3>2
  <2> QED BY <1>2, <1>4, <2>2, <2>3, <2>4 DEF AllFrames, WholeFrames
<1> QED BY <1>3, <1>4

(* The cutoff never moves back.                                             *)
LEMMA CutoffFacts ==
    ASSUME NEW n \in Nat
    PROVE  Cutoff(n) \in Nat /\ \A m \in Nat : n <= m => Cutoff(n) <= Cutoff(m)
<1>1. SamplesPerMs \in Nat \ {0} /\ Holdback \in Nat BY VoiceAssumption
<1>2. n \div SamplesPerMs \in Nat BY <1>1, Divided
<1>3. \A m \in Nat : n <= m => /\ m \div SamplesPerMs \in Nat
                               /\ n \div SamplesPerMs <= m \div SamplesPerMs
  BY <1>1, Divided, DividedGrows
<1> QED BY <1>1, <1>2, <1>3 DEF Cutoff

(* A sample whose frame begins before the cutoff is older than the command, *)
(* the latency of the spotter and a chunk together: what the holdback is    *)
(* for, with what the two roundings lose.                                   *)
LEMMA OldEnough ==
    ASSUME NEW i \in Nat \ {0}, NEW m \in Nat, FrameOf(i) * FrameMs < Cutoff(m)
    PROVE  i + CommandSamples + Latency + MaxChunk - 1 <= m
<1> DEFINE p == SamplesPerMs  x == i - 1  y == x \div p  z == m \div p
           g == FrameOf(i) * FrameMs
           w == CommandSamples + Latency + MaxChunk - 1
           h == Holdback - FrameMs + 1
<1>1. /\ p \in Nat \ {0} /\ FrameMs \in Nat \ {0} /\ Holdback \in Nat /\ FrameMs <= Holdback
      /\ CommandSamples \in Nat /\ Latency \in Nat /\ MaxChunk \in Nat
      /\ w \in Nat /\ h \in Nat /\ w <= p * h /\ x \in Nat
  <2>1. /\ {SamplesPerMs, FrameMs, CommandSamples, MaxChunk} \subseteq Nat \ {0}
        /\ {Holdback, Latency} \subseteq Nat /\ FrameMs <= Holdback
    BY VoiceAssumption
  <2>2. CommandSamples + Latency + MaxChunk - 1 <= SamplesPerMs * (Holdback - FrameMs + 1)
    BY VoiceAssumption, Zenon
  <2>3. w \in Nat /\ h \in Nat /\ x \in Nat BY <2>1
  <2> QED BY <2>1, <2>2, <2>3
<1>2. /\ y \in Nat /\ x < p * y + p /\ z \in Nat /\ p * z <= m
  BY <1>1, Divided
<1>3. g \in Nat /\ y < g + FrameMs
  <2>1. FrameOf(i) \in Nat BY FrameFacts
  <2>2. FrameOf(i) * FrameMs \in Nat BY <1>1, <2>1
  <2> QED BY <2>2, FrameFacts
<1>4. z > Holdback + g
  <2>1. Cutoff(m) = IF z > Holdback THEN z - Holdback ELSE 0 BY DEF Cutoff
  <2>2. g < Cutoff(m) OBVIOUS
  <2> HIDE DEF g, z
  <2> QED BY <1>1, <1>2, <1>3, <2>1, <2>2
<1>5. z >= y + h + 1
  <2>1. h = Holdback - FrameMs + 1 OBVIOUS
  <2> HIDE DEF g, z, y, h
  <2> QED BY <1>1, <1>2, <1>3, <1>4, <2>1
<1>6. x + w < m
  <2> HIDE DEF g, z, y, h, w, x, p
  <2>1. p * (y + h + 1) <= p * z BY <1>1, <1>2, <1>5, ProductGrows
  <2>2. p * (y + h + 1) = p * y + p * h + p BY <1>1, <1>2
  <2>3. p * y \in Int /\ p * h \in Int /\ p * z \in Int BY <1>1, <1>2
  <2> QED BY <1>1, <1>2, <2>1, <2>2, <2>3
<1> QED BY <1>1, <1>6

-----------------------------------------------------------------------------
(* The samples whose tokens are decoded and begin before a cutoff.          *)
Inside(a, d, c) == {i \in DOMAIN a : FrameOf(i) < d /\ FrameOf(i) * FrameMs < c}

(* They are an initial part of the audio.                                   *)
LEMMA InsideIsInitial ==
    ASSUME NEW a \in Seq(Sounds), NEW d \in Nat, NEW c \in Nat
    PROVE  LET k == Cardinality(Inside(a, d, c))
           IN  k \in 0..Len(a) /\ Inside(a, d, c) = 1..k
<1> DEFINE n == Len(a)  S == Inside(a, d, c)  T == (1..n) \ S
<1>1. n \in Nat /\ DOMAIN a = 1..n OBVIOUS
<1>2. S \subseteq 1..n BY <1>1 DEF Inside
<1>3. \E k \in 0..n : S = 1..k
  <2>1. CASE T = {}
    <3>1. S = 1..n BY <1>2, <2>1
    <3>2. n \in 0..n BY <1>1
    <3> HIDE DEF S, n
    <3> QED BY <3>1, <3>2
  <2>2. CASE T # {}
    <3>1. T \in SUBSET Nat BY <1>1
    <3> HIDE DEF T
    <3>2. PICK t \in T : \A u \in T : t <= u BY <2>2, <3>1, LeastNumber
    <3>3. t \in 1..n /\ t \notin S BY <3>2 DEF T
    <3>4. \A j \in 1..n : j < t => j \in S
      <4> SUFFICES ASSUME NEW j \in 1..n, j < t, j \notin S PROVE FALSE OBVIOUS
      <4>1. j \in T BY DEF T
      <4>2. t <= j BY <3>2, <4>1
      <4> QED BY <3>3, <4>2
    <3>5. \A j \in S : j < t
      <4> SUFFICES ASSUME NEW j \in S, t <= j PROVE FALSE
        BY <1>2, <3>3
      <4>1. j \in Nat \ {0} /\ t \in Nat \ {0} /\ FrameMs \in Nat
        BY <1>2, <3>3, VoiceAssumption
      <4>2. FrameOf(j) < d /\ FrameOf(j) * FrameMs < c BY DEF Inside
      <4>3. FrameOf(t) \in Nat /\ FrameOf(j) \in Nat /\ FrameOf(t) <= FrameOf(j)
        BY <4>1, FrameFacts, FramesGrow
      <4>4. FrameMs * FrameOf(t) <= FrameMs * FrameOf(j) BY <4>1, <4>3, ProductGrows
      <4>5. FrameOf(t) < d /\ FrameOf(t) * FrameMs < c
        <5> DEFINE f == FrameOf(t)  e == FrameOf(j)
        <5>1. f \in Nat /\ e \in Nat /\ f <= e /\ FrameMs * f <= FrameMs * e
              /\ e < d /\ e * FrameMs < c
          BY <4>2, <4>3, <4>4
        <5> HIDE DEF f, e
        <5>2. f * FrameMs = FrameMs * f /\ e * FrameMs = FrameMs * e
              /\ FrameMs * f \in Int /\ FrameMs * e \in Int
          BY <4>1, <5>1
        <5>3. f < d /\ f * FrameMs < c BY <5>1, <5>2
        <5> QED BY <5>3 DEF f
      <4> QED BY <1>1, <3>3, <4>5 DEF Inside
    <3> HIDE DEF S
    <3> HIDE DEF n
    <3>6. S = 1..(t - 1)
      <4>1. ASSUME NEW j \in S PROVE j \in 1..(t - 1)
        <5>1. j \in 1..n /\ j < t BY <1>2, <3>5
        <5> QED BY <1>1, <3>3, <5>1
      <4>2. ASSUME NEW j \in 1..(t - 1) PROVE j \in S
        <5>1. j \in 1..n /\ j < t BY <1>1, <3>3
        <5> QED BY <3>4, <5>1
      <4> QED BY <4>1, <4>2
    <3>7. t - 1 \in 0..n BY <1>1, <3>3
    <3> QED BY <3>6, <3>7
  <2> QED BY <2>1, <2>2
<1> HIDE DEF S
<1>4. PICK k \in 0..n : S = 1..k BY <1>3
<1>5. Cardinality(1..k) = k
  <2>1. 1 \in Int /\ k \in Int BY <1>1
  <2>2. Cardinality(1..k) = IF 1 > k THEN 0 ELSE k - 1 + 1 BY <2>1, FS_Interval
  <2> QED BY <1>1, <2>2
<1> QED BY <1>4, <1>5 DEF S

(* A text renders sounds that begin in frames before its cutoff.            *)
LEMMA TextIsTyped ==
    ASSUME NEW a \in Seq(Sounds), NEW d \in Nat, NEW c \in Nat
    PROVE  /\ TextBefore(a, d, c) \in Seq(Texts) /\ Len(TextBefore(a, d, c)) <= Len(a)
           /\ \A i \in DOMAIN TextBefore(a, d, c) :
                 \E j \in 1..Len(a) : /\ FrameOf(j) * FrameMs < c
                                      /\ TextBefore(a, d, c)[i].word = a[j]
<1> DEFINE k == Cardinality(Inside(a, d, c))
           t == TextBefore(a, d, c)
<1>1. k \in 0..Len(a) /\ Inside(a, d, c) = 1..k BY InsideIsInitial
<1>2. t = Convert(Decoded(SubSeq(a, 1, k))) BY DEF TextBefore, TokensBefore, Inside
<1>3. \A j \in 1..k : j \in 1..Len(a) /\ FrameOf(j) * FrameMs < c BY <1>1 DEF Inside
<1> HIDE DEF k, t
<1>4. t \in Seq(Texts) /\ Len(t) <= k /\ \A i \in DOMAIN t : \E j \in 1..k : t[i].word = a[j]
  BY <1>1, <1>2, Rendered
<1>5. Len(t) <= Len(a) BY <1>1, <1>4
<1>6. \A i \in DOMAIN t : \E j \in 1..Len(a) : FrameOf(j) * FrameMs < c /\ t[i].word = a[j]
  BY <1>3, <1>4
<1> QED BY <1>4, <1>5, <1>6 DEF t

(* Tokens not decoded yet are like an earlier cutoff.                       *)
LEMMA TextIsSafe ==
    ASSUME NEW a \in Seq(Sounds), NEW d \in Nat, NEW c \in Nat
    PROVE  \E e \in 0..c : /\ TextBefore(a, d, c) = TextBefore(a, AllFrames(Len(a)), e)
                           /\ AllFrames(Len(a)) <= d => e = c
<1> DEFINE n == Len(a)  all == AllFrames(n)  b == d * FrameMs
<1>1. n \in Nat /\ DOMAIN a = 1..n /\ FrameMs \in Nat \ {0} BY VoiceAssumption
<1>2. b \in Nat BY <1>1
<1>3. all \in Nat /\ \A i \in 1..n : FrameOf(i) < all /\ FrameOf(i) \in Nat
  <2>1. \A i \in 1..n : i \in Nat \ {0} BY <1>1
  <2> QED BY <1>1, <2>1, AllFramesFacts, FrameFacts
<1>4. \A i \in 1..n : FrameOf(i) < d <=> FrameOf(i) * FrameMs < b
  <2> SUFFICES ASSUME NEW i \in 1..n PROVE FrameOf(i) < d <=> FrameOf(i) * FrameMs < b OBVIOUS
  <2> DEFINE f == FrameOf(i)
  <2>1. f \in Nat BY <1>3
  <2> HIDE DEF f
  <2>2. f * FrameMs = FrameMs * f /\ b = FrameMs * d /\ FrameMs * f \in Int /\ FrameMs * d \in Int
    BY <1>1, <2>1
  <2> HIDE DEF b
  <2>3. ASSUME f < d PROVE f * FrameMs < b
    <3>1. FrameMs * (f + 1) <= FrameMs * d BY <1>1, <2>1, <2>3, ProductGrows
    <3>2. FrameMs * (f + 1) = FrameMs * f + FrameMs BY <1>1, <2>1
    <3> QED BY <1>1, <2>2, <3>1, <3>2
  <2>4. ASSUME ~(f < d) PROVE ~(f * FrameMs < b)
    <3>1. FrameMs * d <= FrameMs * f BY <1>1, <2>1, <2>4, ProductGrows
    <3> QED BY <2>2, <3>1
  <2> QED BY <2>3, <2>4 DEF f
<1>5. \A i \in 1..n : FrameOf(i) * FrameMs \in Nat BY <1>1, <1>3
<1> HIDE DEF b
<1>6. CASE all <= d
  <2>1. \A i \in 1..n : FrameOf(i) < d BY <1>3, <1>6
  <2>2. Inside(a, d, c) = Inside(a, all, c) BY <1>1, <1>3, <2>1 DEF Inside
  <2>3. TextBefore(a, d, c) = TextBefore(a, all, c)
    BY <2>2 DEF TextBefore, TokensBefore, Inside
  <2> QED BY <2>3
<1>7. CASE ~(all <= d)
  <2> DEFINE e == IF c <= b THEN c ELSE b
  <2>1. e \in 0..c BY <1>2
  <2>2. \A i \in 1..n : FrameOf(i) * FrameMs < e
                          <=> FrameOf(i) * FrameMs < b /\ FrameOf(i) * FrameMs < c
    BY <1>2, <1>5
  <2> HIDE DEF e
  <2>3. Inside(a, d, c) = Inside(a, all, e) BY <1>1, <1>3, <1>4, <2>2 DEF Inside
  <2>4. TextBefore(a, d, c) = TextBefore(a, all, e)
    BY <2>3 DEF TextBefore, TokensBefore, Inside
  <2> QED BY <1>7, <2>1, <2>4
<1> QED BY <1>6, <1>7

(* The text before a cutoff that has passed is the same after more audio.   *)
LEMMA TextStays ==
    ASSUME NEW a \in Seq(Sounds), NEW b \in Seq(Sounds), NEW c \in 0..Cutoff(Len(a))
    PROVE  /\ TextBefore(a \o b, AllFrames(Len(a \o b)), c) = TextBefore(a, AllFrames(Len(a)), c)
           /\ \A i \in 1..Len(a \o b) : FrameOf(i) * FrameMs < c => i \in 1..Len(a)
<1> DEFINE n == Len(a)  m == Len(a \o b)
<1>1. /\ n \in Nat /\ m \in Nat /\ n <= m /\ DOMAIN a = 1..n /\ DOMAIN (a \o b) = 1..m
      /\ a \o b \in Seq(Sounds)
  OBVIOUS
<1>2. Cutoff(n) \in Nat BY <1>1, CutoffFacts
<1> HIDE DEF n, m
<1>3. c \in Nat /\ c <= Cutoff(n) BY <1>2 DEF n
<1>4. ASSUME NEW i \in 1..m, FrameOf(i) * FrameMs < c PROVE i \in 1..n
  <2>1. i \in Nat \ {0} BY <1>1
  <2>2. FrameOf(i) \in Nat /\ FrameMs \in Nat BY <2>1, FrameFacts, VoiceAssumption
  <2>3. FrameOf(i) * FrameMs \in Nat BY <2>2
  <2>4. FrameOf(i) * FrameMs < Cutoff(n) BY <1>2, <1>3, <1>4, <2>3
  <2>5. i + CommandSamples + Latency + MaxChunk - 1 <= n BY <1>1, <2>1, <2>4, OldEnough
  <2>6. CommandSamples \in Nat \ {0} /\ Latency \in Nat /\ MaxChunk \in Nat BY VoiceAssumption
  <2>7. i <= n BY <1>1, <2>1, <2>5, <2>6
  <2> QED BY <1>1, <2>1, <2>7
<1>5. \A i \in 1..n : FrameOf(i) < AllFrames(n) BY <1>1, AllFramesFacts
<1>6. \A i \in 1..m : FrameOf(i) < AllFrames(m) BY <1>1, AllFramesFacts
<1>7. 1..n \subseteq 1..m BY <1>1
<1>8. Inside(a \o b, AllFrames(m), c) = Inside(a, AllFrames(n), c)
  BY <1>1, <1>4, <1>5, <1>6, <1>7 DEF Inside
<1> DEFINE k == Cardinality(Inside(a, AllFrames(n), c))
<1>9. k \in 0..n
  <2>1. AllFrames(n) \in Nat BY <1>1, AllFramesFacts
  <2> QED BY <1>3, <2>1, InsideIsInitial DEF n
<1>10. SubSeq(a \o b, 1, k) = SubSeq(a, 1, k) BY <1>9, Prefixes DEF n
<1>11. TextBefore(a \o b, AllFrames(m), c) = Convert(Decoded(SubSeq(a \o b, 1, k)))
  BY <1>8 DEF TextBefore, TokensBefore, Inside
<1>12. TextBefore(a, AllFrames(n), c) = Convert(Decoded(SubSeq(a, 1, k)))
  BY DEF TextBefore, TokensBefore, Inside
<1> QED BY <1>4, <1>10, <1>11, <1>12 DEF n, m

(* No audio, no text.                                                       *)
LEMMA NoText ==
    /\ <<>> \in Heard /\ Cutoff(0) \in Nat /\ AllFrames(0) = 0
    /\ \A d, c \in Nat : TextBefore(<<>>, d, c) = <<>>
<1>1. <<>> \in Seq(Sounds) /\ Len(<<>>) = 0 OBVIOUS
<1>2. ASSUME NEW d \in Nat, NEW c \in Nat PROVE TextBefore(<<>>, d, c) = <<>>
  <2> DEFINE t == TextBefore(<<>>, d, c)
  <2>1. t \in Seq(Texts) /\ Len(t) <= 0 BY <1>1, TextIsTyped
  <2> HIDE DEF t
  <2>2. t = <<>> BY <2>1
  <2> QED BY <2>2 DEF t
<1>3. MaxSamples \in Nat BY VoiceAssumption
<1>4. <<>> \in Heard BY <1>1, <1>3 DEF Heard
<1>5. Cutoff(0) \in Nat BY CutoffFacts
<1> QED BY <1>2, <1>4, <1>5 DEF AllFrames

(* A chunk is added to what both engines have heard.                        *)
LEMMA ChunkFacts ==
    ASSUME Types, NEW chunk \in Chunks, Hear(chunk)
    PROVE  /\ audio \in Seq(Sounds) /\ chunk \in Seq(Sounds) /\ audio' = audio \o chunk
           /\ audio' \in Seq(Sounds) /\ audio' \in Heard
           /\ Len(audio) \in Nat /\ Len(chunk) \in Nat /\ Len(chunk) <= MaxChunk
           /\ Len(audio') \in Nat /\ Len(audio') = Len(audio) + Len(chunk)
           /\ received' = Len(audio')
<1>1. audio \in Seq(Sounds) /\ Len(audio) \in Nat BY SeqHeard DEF Types
<1>2. chunk \in Seq(Sounds) /\ Len(chunk) \in Nat /\ Len(chunk) <= MaxChunk
  <2>1. PICK n \in 1..MaxChunk : chunk \in [1..n -> Sounds] BY DEF Chunks
  <2>2. MaxChunk \in Nat BY VoiceAssumption
  <2>3. n \in Nat /\ n <= MaxChunk BY <2>1, <2>2
  <2> QED BY <2>1, <2>3
<1>3. audio' = audio \o chunk /\ received' = received + Len(chunk) /\ Len(audio') <= MaxSamples
  BY DEF Hear, Fits
<1>4. audio \o chunk \in Seq(Sounds) /\ Len(audio \o chunk) = Len(audio) + Len(chunk)
  BY <1>1, <1>2
<1>5. audio' \in Heard BY <1>3, <1>4 DEF Heard
<1> QED BY <1>1, <1>2, <1>3, <1>4, <1>5 DEF Types

(* What is old enough to be typed is not the command: the spotter has not   *)
(* heard the whole of it, or has just heard it.                             *)
LEMMA CommandIsYoung ==
    ASSUME Types, YoungInv, phase = "listen", NEW chunk \in Chunks, Hear(chunk),
           NEW i \in 1..Len(audio'), FrameOf(i) * FrameMs < Cutoff(Len(audio'))
    PROVE  audio'[i] # "command"
<1> SUFFICES ASSUME audio'[i] = "command" PROVE FALSE OBVIOUS
<1> DEFINE n == Len(audio)  m == Len(audio')
<1>1. /\ n \in Nat /\ m \in Nat /\ n <= m /\ m <= n + MaxChunk
      /\ audio \in Seq(Sounds) /\ chunk \in Seq(Sounds) /\ audio' = audio \o chunk
  <2>1. MaxChunk \in Nat BY VoiceAssumption
  <2> QED BY <2>1, ChunkFacts
<1>2. CommandSamples \in Nat \ {0} /\ MaxChunk \in Nat \ {0} /\ Latency \in Nat
  BY VoiceAssumption
<1>3. i \in Nat \ {0} BY <1>1
<1>4. i + CommandSamples + Latency + MaxChunk - 1 <= m BY <1>1, <1>3, OldEnough
<1>5. i <= n BY <1>1, <1>2, <1>3, <1>4
<1>6. i \in 1..Len(audio) /\ audio[i] = "command" BY <1>1, <1>3, <1>5
<1>7. Age(audio) \in Nat /\ Age(audio) >= Len(audio) + 1 - i BY <1>1, <1>6, AgeCounts
<1>8. Age(audio) < CommandSamples + Latency BY DEF YoungInv
<1> HIDE DEF n, m
<1>9. PICK a \in Nat : a >= n + 1 - i /\ a < CommandSamples + Latency
  BY <1>7, <1>8 DEF n
<1> QED BY <1>1, <1>2, <1>3, <1>4, <1>9

(* Nothing typed: the text typed so far stays that of the first frames.     *)
LEMMA TypedStays ==
    ASSUME Types, TypedInv, NEW chunk \in Chunks, Hear(chunk), UNCHANGED <<typed, injectedPrefix>>
    PROVE  TypedInv'
<1>1. PICK c \in 0..Cutoff(Len(audio)) : TypedUpTo(c) BY DEF TypedInv
<1>2. /\ audio \in Seq(Sounds) /\ chunk \in Seq(Sounds) /\ audio' = audio \o chunk
      /\ Len(audio) \in Nat /\ Len(chunk) \in Nat /\ Len(audio') = Len(audio) + Len(chunk)
  BY ChunkFacts
<1>3. /\ Cutoff(Len(audio)) \in Nat /\ Cutoff(Len(audio)) <= Cutoff(Len(audio'))
      /\ Cutoff(Len(audio')) \in Nat
  BY <1>2, CutoffFacts
<1>4. c \in 0..Cutoff(Len(audio')) BY <1>3
<1>5. /\ TextBefore(audio', AllFrames(Len(audio')), c) = TextBefore(audio, AllFrames(Len(audio)), c)
      /\ \A i \in 1..Len(audio') : FrameOf(i) * FrameMs < c => i \in 1..Len(audio)
  BY <1>2, TextStays
<1>6. \A i \in 1..Len(audio) : audio'[i] = audio[i] BY <1>2
<1>7. \A i \in 1..Len(audio) : FrameOf(i) * FrameMs < c => audio[i] # "command"
  BY <1>1 DEF TypedUpTo
<1>8. typed' = TextBefore(audio', AllFrames(Len(audio')), c) BY <1>1, <1>5 DEF TypedUpTo, SafeText
<1>9. \A i \in 1..Len(audio') : FrameOf(i) * FrameMs < c => audio'[i] # "command"
  BY <1>5, <1>6, <1>7
<1> QED BY <1>4, <1>8, <1>9 DEF TypedInv, TypedUpTo, SafeText

(* What was typed is a text.                                                *)
LEMMA TypedIsText ==
    ASSUME Types, TypedInv
    PROVE  typed \in Seq(Texts) /\ Len(typed) <= Len(audio) /\ injectedPrefix = typed
<1>1. audio \in Seq(Sounds) /\ Len(audio) \in Nat BY SeqHeard DEF Types
<1>2. PICK c \in 0..Cutoff(Len(audio)) : TypedUpTo(c) BY DEF TypedInv
<1>3. c \in Nat /\ AllFrames(Len(audio)) \in Nat BY <1>1, CutoffFacts, AllFramesFacts
<1> QED BY <1>1, <1>2, <1>3, TextIsTyped DEF TypedUpTo, TypedInv, SafeText

(* The text after a chunk is that of all that was heard, before a cutoff.   *)
LEMMA NextTextIsSafe ==
    ASSUME audio' \in Seq(Sounds), decoded' \in Nat, NEW c \in Nat
    PROVE  \E e \in 0..c :
              /\ TextBefore(audio', decoded', c) = TextBefore(audio', AllFrames(Len(audio')), e)
              /\ AllFrames(Len(audio')) <= decoded' => e = c
<1>1. PICK a, d : a = audio' /\ d = decoded' OBVIOUS
<1>2. a \in Seq(Sounds) /\ d \in Nat BY <1>1
<1>3. PICK e \in 0..c : /\ TextBefore(a, d, c) = TextBefore(a, AllFrames(Len(a)), e)
                        /\ AllFrames(Len(a)) <= d => e = c
  BY <1>2, TextIsSafe
<1>4. TextBefore(audio', decoded', c) = TextBefore(audio', AllFrames(Len(audio')), e)
  BY <1>1, <1>3
<1>5. AllFrames(Len(audio')) <= decoded' => e = c BY <1>1, <1>3
<1> QED BY <1>4, <1>5

(* Inject types the text of a longer prefix, without the command.           *)
LEMMA InjectKeeps ==
    ASSUME IInv, phase = "listen", NEW chunk \in Chunks, Hear(chunk), decoded' \in Nat,
           Inject(TextBefore(audio', decoded', Cutoff(received')))
    PROVE  /\ TypedInv' /\ typed' = TextBefore(audio', decoded', Cutoff(received'))
           /\ AllFrames(Len(audio')) <= decoded' => typed' = SafeText(Cutoff(Len(audio)))'
<1> DEFINE c == Cutoff(received')  text == TextBefore(audio', decoded', c)
           all == AllFrames(Len(audio'))
<1>1. /\ audio' \in Seq(Sounds) /\ Len(audio') \in Nat /\ received' = Len(audio')
      /\ audio \in Seq(Sounds) /\ Len(audio) \in Nat
  BY ChunkFacts DEF IInv
<1>2. c = Cutoff(Len(audio')) /\ c \in Nat BY <1>1, CutoffFacts
<1> HIDE DEF c
<1>3. PICK e \in 0..c : text = TextBefore(audio', all, e) /\ (all <= decoded' => e = c)
  BY <1>1, <1>2, NextTextIsSafe
<1>4. text \in Seq(Texts) BY <1>1, <1>2, TextIsTyped
<1>5. injectedPrefix = typed /\ typed \in Seq(Texts) BY TypedIsText DEF IInv
<1>6. /\ IsPrefix(injectedPrefix, text) /\ typed' = typed \o PendingSuffix(text)
      /\ injectedPrefix' = IF PendingSuffix(text) = <<>> THEN injectedPrefix ELSE text
  BY DEF Inject, c
<1> HIDE DEF text
<1>7. typed' = text BY <1>4, <1>5, <1>6, SuffixCompletes DEF PendingSuffix
<1>8. injectedPrefix' = text
  <2>1. CASE PendingSuffix(text) = <<>>
    <3>1. typed \o <<>> = typed BY <1>5
    <3> QED BY <1>5, <1>6, <1>7, <2>1, <3>1
  <2> QED BY <1>6, <2>1
<1>9. ASSUME NEW i \in 1..Len(audio'), FrameOf(i) * FrameMs < e PROVE audio'[i] # "command"
  <2>1. i \in Nat \ {0} BY <1>1
  <2>2. FrameOf(i) \in Nat /\ FrameMs \in Nat BY <2>1, FrameFacts, VoiceAssumption
  <2>3. FrameOf(i) * FrameMs \in Nat BY <2>2
  <2>4. FrameOf(i) * FrameMs < Cutoff(Len(audio')) BY <1>2, <1>9, <2>3
  <2> QED BY <2>4, CommandIsYoung DEF IInv
<1>10. e \in 0..Cutoff(Len(audio')) BY <1>2
<1>11. TypedInv' BY <1>3, <1>7, <1>8, <1>9, <1>10 DEF TypedInv, TypedUpTo, SafeText
<1>12. all <= decoded' => typed' = SafeText(Cutoff(Len(audio)))'
  BY <1>2, <1>3, <1>7 DEF SafeText
<1> QED BY <1>7, <1>11, <1>12 DEF text, c

(* Before the first session nothing is heard and nothing is typed.          *)
LEMMA InitIInv == Init => IInv
<1> SUFFICES ASSUME Init PROVE IInv OBVIOUS
<1>1. <<>> \in Seq(Sounds) /\ Len(<<>>) = 0 OBVIOUS
<1>2. <<>> \in Heard /\ Cutoff(0) \in Nat /\ AllFrames(0) = 0 BY NoText
<1>3. Types
  <2>1. 0 \in 0..0 BY <1>1
  <2> QED BY <1>1, <1>2, <2>1 DEF Init, Types
<1>4. TypedInv
  <2>1. 0 \in 0..Cutoff(Len(audio)) BY <1>1, <1>2 DEF Init
  <2>2. TextBefore(<<>>, 0, 0) = <<>> BY NoText
  <2>3. TypedUpTo(0) BY <1>1, <1>2, <2>2 DEF Init, TypedUpTo, SafeText
  <2> QED BY <2>1, <2>3 DEF Init, TypedInv
<1> QED BY <1>3, <1>4 DEF Init, IInv, YoungInv, ReturnInv, ReturnSendsAll

(* Every start of a turn, in a session or after it.                         *)
LEMMA TurnBegins ==
    ASSUME Types, NewTurn,
           phase' \in {"off", "listen", "restart"},
           kws' \in [started : BOOLEAN, latched : BOOLEAN],
           phase' = "listen" => KwsStart,
           suppress' \in BOOLEAN, echo' \in BOOLEAN,
           frontmost' = frontmost, error' \in {"none", "engine", "divergentPrefix"}
    PROVE  IInv'
<1>1. <<>> \in Seq(Sounds) /\ Len(<<>>) = 0 OBVIOUS
<1>2. <<>> \in Heard /\ Cutoff(0) \in Nat /\ AllFrames(0) = 0 BY NoText
<1>3. /\ audio' = <<>> /\ decoded' = 0 /\ received' = 0 /\ injectedPrefix' = <<>>
      /\ typed' = <<>> /\ returned' = FALSE
  BY DEF NewTurn
<1>4. Types'
  <2>1. audio' \in Heard /\ decoded' \in 0..AllFrames(Len(audio')) /\ received' = Len(audio')
    <3>1. 0 \in 0..0 OBVIOUS
    <3> QED BY <1>1, <1>2, <1>3, <3>1
  <2>2. phase' = "listen" => kws' = [started |-> TRUE, latched |-> FALSE] BY DEF KwsStart
  <2>3. frontmost' \in Apps BY DEF Types
  <2> QED BY <1>3, <2>1, <2>2, <2>3 DEF Types
<1>5. TypedInv'
  <2>1. 0 \in 0..Cutoff(Len(audio')) BY <1>1, <1>2, <1>3
  <2>2. TextBefore(<<>>, 0, 0) = <<>> BY NoText
  <2>3. typed' = TextBefore(audio', AllFrames(Len(audio')), 0) BY <1>1, <1>2, <1>3, <2>2
  <2>4. \A i \in 1..Len(audio') : FALSE BY <1>1, <1>3
  <2> QED BY <1>3, <2>1, <2>3, <2>4 DEF TypedInv, TypedUpTo, SafeText
<1>6. YoungInv'
  <2>1. Age(<<>>) = 0
    <3>1. {i \in DOMAIN <<>> : \E j \in 1..i : <<>>[j] = "command"} = {} OBVIOUS
    <3> QED BY <3>1, FS_EmptySet DEF Age
  <2> QED BY <1>3, <2>1, VoiceAssumption DEF YoungInv
<1> QED BY <1>3, <1>4, <1>5, <1>6 DEF IInv, ReturnInv, ReturnSendsAll

(* A chunk without a detection: more text may be typed.                     *)
LEMMA DictateKeeps ==
    ASSUME IInv, NEW chunk \in Chunks, Dictate(chunk) PROVE IInv'
<1> DEFINE text == TextBefore(audio', decoded', Cutoff(received'))
<1>1. /\ phase = "listen" /\ phase' = "listen" /\ Hear(chunk) /\ Misses(audio')
      /\ kws = [started |-> TRUE, latched |-> FALSE]
      /\ kws' = [kws EXCEPT !.latched = @ \/ FALSE]
      /\ decoded' \in decoded..WholeFrames(Len(audio')) /\ Consume(text)
      /\ suppress' = FALSE /\ echo' = FALSE /\ UNCHANGED <<frontmost, error, returned>>
  BY DEF Dictate, KwsPush, IInv, Types
<1>2. kws' = [started |-> TRUE, latched |-> FALSE] BY <1>1
<1>3. audio' \in Heard /\ Len(audio') \in Nat /\ received' = Len(audio')
  BY <1>1, ChunkFacts DEF IInv
<1>4. decoded' \in 0..AllFrames(Len(audio')) /\ decoded' \in Nat
  <2>1. decoded \in Nat BY SeqHeard, AllFramesFacts DEF IInv, Types
  <2>2. /\ WholeFrames(Len(audio')) \in Nat /\ AllFrames(Len(audio')) \in Nat
        /\ WholeFrames(Len(audio')) <= AllFrames(Len(audio'))
    BY <1>3, AllFramesFacts
  <2> QED BY <1>1, <2>1, <2>2
<1>5. Types' BY <1>1, <1>2, <1>3, <1>4 DEF Types, IInv
<1>6. TypedInv'
  <2>1. CASE Inject(text) BY <1>1, <1>4, <2>1, InjectKeeps
  <2>2. CASE UNCHANGED <<typed, injectedPrefix>> BY <1>1, <2>2, TypedStays DEF IInv
  <2> QED BY <1>1, <2>1, <2>2 DEF Consume
<1>7. YoungInv' BY <1>1 DEF YoungInv, Misses
<1>8. ReturnInv' BY <1>1 DEF IInv, ReturnInv, ReturnSendsAll
<1> QED BY <1>5, <1>6, <1>7, <1>8 DEF IInv

(* A command: the rest of the safe text is typed, and then Return.          *)
LEMMA CommandKeeps ==
    ASSUME IInv, NEW chunk \in Chunks, Command(chunk) PROVE IInv'
<1> DEFINE text == TextBefore(audio', decoded', Cutoff(received'))
<1>1. /\ phase = "listen" /\ phase' = "restart" /\ Hear(chunk)
      /\ kws' = [kws EXCEPT !.latched = @ \/ TRUE]
      /\ decoded' = AllFrames(Len(audio')) /\ Submit(text)
      /\ suppress' = TRUE /\ UNCHANGED <<echo, frontmost, error>>
  BY DEF Command, KwsPush
<1>2. kws' \in [started : BOOLEAN, latched : BOOLEAN]
  BY <1>1 DEF IInv, Types
<1>3. audio' \in Heard /\ Len(audio') \in Nat /\ received' = Len(audio')
  BY <1>1, ChunkFacts DEF IInv
<1>4. decoded' \in 0..AllFrames(Len(audio')) /\ decoded' \in Nat BY <1>1, <1>3, AllFramesFacts
<1>5. CASE UNCHANGED <<typed, injectedPrefix, returned>>
  <2>1. TypedInv' BY <1>1, <1>5, TypedStays DEF IInv
  <2>2. returned' = FALSE BY <1>1, <1>5 DEF IInv, ReturnInv, Types
  <2>3. Types' BY <1>1, <1>2, <1>3, <1>4, <2>2 DEF Types, IInv
  <2> QED BY <1>1, <2>1, <2>2, <2>3 DEF IInv, YoungInv, ReturnInv, ReturnSendsAll
<1>6. CASE /\ ~(text = <<>> /\ injectedPrefix = <<>>)
           /\ Inject(text) /\ returned' = TRUE
  <2>1. TypedInv' /\ typed' = text BY <1>1, <1>4, <1>6, InjectKeeps
  <2>2. typed' # <<>>
    <3> SUFFICES ASSUME text = <<>> PROVE FALSE BY <2>1
    <3>1. IsPrefix(injectedPrefix, <<>>) /\ injectedPrefix # <<>> BY <1>6 DEF Inject
    <3>2. injectedPrefix \in Seq(Texts) BY TypedIsText DEF IInv
    <3> QED BY <3>1, <3>2 DEF IsPrefix
  <2>3. typed' = SafeText(Cutoff(Len(audio)))'
    <3>1. AllFrames(Len(audio')) <= decoded' BY <1>1, <1>4
    <3> QED BY <1>1, <1>4, <1>6, <3>1, InjectKeeps
  <2>4. Types' BY <1>1, <1>2, <1>3, <1>4, <1>6 DEF Types, IInv
  <2> QED BY <1>1, <2>1, <2>2, <2>3, <2>4 DEF IInv, YoungInv, ReturnInv, ReturnSendsAll
<1> QED BY <1>1, <1>5, <1>6 DEF Submit

(* Every step keeps the invariant.                                          *)
LEMMA StepIInv == IInv /\ [Next]_vars => IInv'
<1> SUFFICES ASSUME IInv, [Next]_vars PROVE IInv' OBVIOUS
<1>0. Types BY DEF IInv
<1>1. KwsStart => kws' \in [started : BOOLEAN, latched : BOOLEAN] BY DEF KwsStart
<1>2. CASE Start BY <1>0, <1>1, <1>2, TurnBegins DEF Start
<1>3. CASE Restart BY <1>0, <1>1, <1>3, TurnBegins DEF Restart, Types
<1>4. CASE Stop BY <1>0, <1>1, <1>4, TurnBegins DEF Stop, End
<1>5. CASE Fail BY <1>0, <1>1, <1>5, TurnBegins DEF Fail, End, Types
<1>6. ASSUME NEW chunk \in Chunks, Dictate(chunk) PROVE IInv' BY <1>6, DictateKeeps
<1>7. ASSUME NEW chunk \in Chunks, Command(chunk) PROVE IInv' BY <1>7, CommandKeeps
<1>8. ASSUME NEW chunk \in Chunks, DuplicateCommand(chunk) PROVE IInv'
  BY <1>0, <1>1, <1>8, TurnBegins DEF DuplicateCommand, Types
<1>9. ASSUME NEW chunk \in Chunks, NEW d, Diverge(chunk, d) PROVE IInv'
  BY <1>0, <1>1, <1>9, TurnBegins DEF Diverge, End
<1>10. ASSUME NEW app \in Apps, Focus(app) PROVE IInv'
  BY <1>10 DEF Focus, IInv, Types, TypedInv, TypedUpTo, SafeText, YoungInv, ReturnInv, ReturnSendsAll
<1>11. CASE UNCHANGED vars
  BY <1>11 DEF vars, IInv, Types, TypedInv, TypedUpTo, SafeText, YoungInv, ReturnInv, ReturnSendsAll
<1> QED BY <1>2, <1>3, <1>4, <1>5, <1>6, <1>7, <1>8, <1>9, <1>10, <1>11 DEF Next

(* The invariant holds in every reachable state.                            *)
LEMMA Holds == Spec => []IInv
<1> QED BY InitIInv, StepIInv, PTL DEF Spec

(* Every variable has its type, for any words, phrases and timing that the  *)
(* holdback is sized for.                                                   *)
THEOREM TypeCorrect == Spec => []TypeOK
<1>1. IInv => TypeOK
  <2> SUFFICES ASSUME IInv PROVE TypeOK OBVIOUS
  <2>1. Types /\ typed = injectedPrefix BY DEF IInv, TypedInv
  <2>2. audio \in Seq(Sounds) /\ Len(audio) <= MaxSamples BY <2>1 DEF Types, Heard
  <2>3. Len(audio) \in Nat BY <2>1, SeqHeard DEF Types
  <2>4. typed \in Seq(Texts) /\ Len(typed) <= Len(audio) BY TypedIsText DEF IInv
  <2>5. \A i \in DOMAIN typed : typed[i] \in Texts BY <2>4
  <2>6. \A s \in {injectedPrefix, typed} :
           Len(s) <= Len(audio) /\ \A i \in DOMAIN s : s[i] \in Text(Sounds \ {"silence"})
    BY <2>1, <2>4, <2>5 DEF Texts
  <2>7. received \in 0..Len(audio) BY <2>1, <2>3 DEF Types
  <2> HIDE DEF Text
  <2> QED BY <2>1, <2>2, <2>6, <2>7 DEF Types, TypeOK
<1> QED BY <1>1, Holds, PTL

(* No part of the command reaches the target, however the chunks are cut,   *)
(* wherever a frame straddles the cutoff, however late the ASR decodes and  *)
(* wherever the user looks: the holdback of processVoiceInput is enough.    *)
THEOREM CommandIsNeverTyped == Spec => []NoCommandTyped
<1>1. IInv => NoCommandTyped
  <2> SUFFICES ASSUME IInv, NEW i \in DOMAIN typed PROVE typed[i].word # "command"
    BY DEF NoCommandTyped
  <2>1. audio \in Seq(Sounds) /\ Len(audio) \in Nat BY SeqHeard DEF IInv, Types
  <2>2. PICK c \in 0..Cutoff(Len(audio)) : TypedUpTo(c) BY DEF IInv, TypedInv
  <2>3. c \in Nat /\ AllFrames(Len(audio)) \in Nat BY <2>1, CutoffFacts, AllFramesFacts
  <2>4. typed = TextBefore(audio, AllFrames(Len(audio)), c) BY <2>2 DEF TypedUpTo, SafeText
  <2>5. PICK j \in 1..Len(audio) : FrameOf(j) * FrameMs < c /\ typed[i].word = audio[j]
    BY <2>1, <2>3, <2>4, TextIsTyped
  <2> QED BY <2>2, <2>5 DEF TypedUpTo
<1> QED BY <1>1, Holds, PTL

(* The target has the text of an initial part of the turn, all of it older  *)
(* than the holdback (TextInjectionCoordinator.consume and submit).         *)
THEOREM TypedTextIsSafe == Spec => []TypedIsSafePrefix
<1>1. IInv => TypedIsSafePrefix BY DEF IInv, TypedInv, TypedUpTo, TypedIsSafePrefix
<1> QED BY <1>1, Holds, PTL

(* Return follows the whole safe text of the turn, and never an empty turn  *)
(* (TextInjectionCoordinator.submit after finish(before:)).                 *)
THEOREM ReturnComesLast == Spec => []ReturnSendsAll
<1>1. IInv => ReturnSendsAll BY DEF IInv, ReturnInv
<1> QED BY <1>1, Holds, PTL
=============================================================================
