--------------------------- MODULE Fusion_proofs ---------------------------
(***************************************************************************)
(* What the functions of Fusion keep of a transcript: the segments spell   *)
(* it, follow each other in time, and anti-flicker reaches its fixpoint,   *)
(* for every sequence of tokens and frames.                                *)
(***************************************************************************)
EXTENDS Fusion, FiniteSetTheorems, NaturalsInduction, WellFoundedInduction, TLAPS

-----------------------------------------------------------------------------
(* Induction and recursion, for one set and one step function at a time.    *)

(* A set of numbers that is not empty has a least one.                      *)
LEMMA LeastNumber ==
    ASSUME NEW T \in SUBSET Nat, T # {}
    PROVE  \E n \in T : \A m \in T : n <= m
<1> DEFINE R == {ss \in Nat \X Nat : ss[1] < ss[2]}
<1>1. IsWellFoundedOn(R, Nat)
  <2>1. R = OpToRel(<, Nat) BY DEF OpToRel
  <2> QED BY <2>1, NatLessThanWellFounded
<1>2. PICK n \in T : \A y \in T : ~(<<y, n>> \in R)
  <2> HIDE DEF R
  <2> QED BY <1>1, WFMin
<1>3. ASSUME NEW m \in T PROVE n <= m
  <2>1. <<m, n>> \notin R /\ m \in Nat /\ n \in Nat BY <1>2
  <2>2. ~(m < n) BY <2>1
  <2> QED BY <2>1, <2>2
<1> QED BY <1>3

(* A set that has 0, and with each number up to n the next, has them all.   *)
LEMMA UpTo ==
    ASSUME NEW n \in Nat, NEW T, 0 \in T, \A i \in 1..n : i - 1 \in T => i \in T
    PROVE  \A i \in 0..n : i \in T
<1> DEFINE M == (0..n) \ T
<1>1. M = {}
  <2> SUFFICES ASSUME M # {} PROVE FALSE OBVIOUS
  <2>1. PICK i \in M : \A m \in M : i <= m
    <3>1. M \in SUBSET Nat OBVIOUS
    <3> HIDE DEF M
    <3> QED BY <3>1, LeastNumber
  <2>2. i \in 1..n /\ i \notin T OBVIOUS
  <2>3. i - 1 \notin M
    <3>1. i \in Nat /\ ~(i <= i - 1) BY <2>2
    <3> QED BY <2>1, <3>1
  <2> QED BY <2>2, <2>3
<1> QED BY <1>1

(* A step function over the values V, and a recursion with it from v.       *)
IsStep(step, n, V) == step \in [(1..n) \X V -> V]
Recurs(g, step, n, V, v) ==
    /\ g \in [0..n -> V]
    /\ g[0] = v /\ \A i \in 1..n : g[i] = step[<<i, g[i - 1]>>]

(* A recursion over 1..n has a solution.                                    *)
LEMMA Recursion ==
    ASSUME NEW n \in Nat, NEW V, NEW v \in V, NEW step, IsStep(step, n, V)
    PROVE  \E g : Recurs(g, step, n, V, v)
<1> DEFINE Solves(g, m) == g[0] = v /\ \A i \in 1..m : g[i] = step[<<i, g[i - 1]>>]
           T == {m \in 0..n : \E g \in [0..n -> V] : Solves(g, m)}
<1>1. 0 \in T
  <2> DEFINE g == [i \in 0..n |-> v]
  <2>1. g \in [0..n -> V] /\ g[0] = v OBVIOUS
  <2>2. Solves(g, 0) BY <2>1
  <2> HIDE DEF g, Solves
  <2> QED BY <2>1, <2>2
<1>2. ASSUME NEW m \in 1..n, m - 1 \in T PROVE m \in T
  <2>1. PICK g \in [0..n -> V] : Solves(g, m - 1) BY <1>2
  <2> DEFINE h == [i \in 0..n |-> IF i = m THEN step[<<m, g[m - 1]>>] ELSE g[i]]
  <2>2. h \in [0..n -> V]
    <3>1. step[<<m, g[m - 1]>>] \in V BY DEF IsStep
    <3> QED BY <3>1
  <2>3. ASSUME NEW i \in 1..m PROVE h[i] = step[<<i, h[i - 1]>>]
    <3>1. h[i - 1] = g[i - 1] OBVIOUS
    <3>2. CASE i = m
      <4>1. h[i] = step[<<m, g[m - 1]>>] BY <3>2
      <4> HIDE DEF h
      <4> QED BY <3>1, <3>2, <4>1
    <3>3. CASE i # m
      <4>1. i \in 1..(m - 1) /\ h[i] = g[i] BY <3>3
      <4>2. g[i] = step[<<i, g[i - 1]>>] BY <2>1, <4>1
      <4> HIDE DEF h
      <4> QED BY <3>1, <4>1, <4>2
    <3> QED BY <3>2, <3>3
  <2>4. h[0] = v BY <2>1
  <2> HIDE DEF h
  <2>5. Solves(h, m) BY <2>3, <2>4
  <2> HIDE DEF Solves
  <2> QED BY <2>2, <2>5
<1> HIDE DEF T
<1>3. \A i \in 0..n : i \in T BY <1>1, <1>2, UpTo
<1>4. n \in T BY <1>3
<1> QED BY <1>4 DEF T, Recurs

-----------------------------------------------------------------------------
(* Selected and flattened sequences.                                        *)

(* kept[n] is what is selected of the first n elements.                     *)
SelectedBy(seq, places, kept) ==
    /\ kept[0] = <<>>
    /\ \A n \in 1..Len(seq) :
          kept[n] = IF n \in places THEN Append(kept[n - 1], seq[n]) ELSE kept[n - 1]

(* Selected is the end of such a recursion.                                 *)
LEMMA Selection ==
    ASSUME NEW S, NEW seq \in Seq(S), NEW places
    PROVE  \E kept \in [0..Len(seq) -> Seq(S)] :
              SelectedBy(seq, places, kept) /\ Selected(seq, places) = kept[Len(seq)]
<1> DEFINE n == Len(seq)
           step == [p \in (1..n) \X Seq(S) |->
                      IF p[1] \in places THEN Append(p[2], seq[p[1]]) ELSE p[2]]
           Next(kept) == [i \in 0..n |->
                            IF i = 0 THEN <<>>
                            ELSE IF i \in places THEN Append(kept[i - 1], seq[i]) ELSE kept[i - 1]]
           chosen == CHOOSE kept : kept = Next(kept)
<1>1. n \in Nat /\ <<>> \in Seq(S) OBVIOUS
<1>2. step \in [(1..n) \X Seq(S) -> Seq(S)]
  <2> SUFFICES ASSUME NEW p \in (1..n) \X Seq(S)
               PROVE  (IF p[1] \in places THEN Append(p[2], seq[p[1]]) ELSE p[2]) \in Seq(S)
    OBVIOUS
  <2>1. p[1] \in 1..n /\ p[2] \in Seq(S) /\ seq[p[1]] \in S OBVIOUS
  <2>2. Append(p[2], seq[p[1]]) \in Seq(S) BY <2>1
  <2> QED BY <2>1, <2>2
<1>3. \A i \in 1..n, s \in Seq(S) :
         step[<<i, s>>] = IF i \in places THEN Append(s, seq[i]) ELSE s
  OBVIOUS
<1> HIDE DEF n, step
<1>4. PICK g \in [0..n -> Seq(S)] : g[0] = <<>> /\ \A i \in 1..n : g[i] = step[<<i, g[i - 1]>>]
  <2>1. IsStep(step, n, Seq(S)) BY <1>2 DEF IsStep
  <2>2. \E g : Recurs(g, step, n, Seq(S), <<>>) BY <1>1, <2>1, Recursion
  <2> QED BY <2>2 DEF Recurs
<1>5. \A i \in 1..n : g[i] = IF i \in places THEN Append(g[i - 1], seq[i]) ELSE g[i - 1]
  <2> SUFFICES ASSUME NEW i \in 1..n
               PROVE  g[i] = IF i \in places THEN Append(g[i - 1], seq[i]) ELSE g[i - 1]
    OBVIOUS
  <2>1. g[i - 1] \in Seq(S) BY <1>1
  <2>2. g[i] = step[<<i, g[i - 1]>>] BY <1>4
  <2> QED BY <1>3, <2>1, <2>2
<1>6. g = Next(g)
  <2>1. ASSUME NEW i \in 0..n PROVE g[i] = Next(g)[i]
    <3>1. CASE i = 0 BY <1>4, <3>1
    <3>2. CASE i # 0
      <4>1. i \in 1..n BY <1>1, <3>2
      <4> QED BY <1>5, <3>2, <4>1
    <3> QED BY <3>1, <3>2
  <2>2. Next(g) = [i \in 0..n |-> Next(g)[i]] OBVIOUS
  <2> HIDE DEF Next
  <2> QED BY <2>1, <2>2
<1>7. chosen = Next(chosen)
  <2> HIDE DEF Next
  <2> QED BY <1>6
<1>8. Selected(seq, places) = chosen[n] BY DEF Selected, n
<1> HIDE DEF chosen
<1>9. \A i \in 0..n : chosen[i] = g[i]
  <2> DEFINE T == {i \in 0..n : chosen[i] = g[i]}
  <2>1. 0 \in T
    <3>1. Next(chosen)[0] = <<>> BY <1>1
    <3> QED BY <1>1, <1>4, <1>7, <3>1
  <2>2. ASSUME NEW i \in 1..n, i - 1 \in T PROVE i \in T
    <3>1. Next(chosen)[i] = IF i \in places THEN Append(chosen[i - 1], seq[i]) ELSE chosen[i - 1]
      BY <1>1
    <3>2. chosen[i - 1] = g[i - 1] BY <2>2
    <3> HIDE DEF Next
    <3>3. chosen[i] = g[i] BY <1>5, <1>7, <3>1, <3>2
    <3> QED BY <1>1, <3>3
  <2> HIDE DEF T
  <2>3. \A i \in 0..n : i \in T BY <1>1, <2>1, <2>2, UpTo
  <2> QED BY <2>3 DEF T
<1>10. SelectedBy(seq, places, g) BY <1>4, <1>5 DEF SelectedBy, n
<1>11. Selected(seq, places) = g[n] BY <1>1, <1>8, <1>9
<1> QED BY <1>10, <1>11 DEF n

(* Whatever recursion of this form one finds, it ends with Selected.        *)
LEMMA SelectedIs ==
    ASSUME NEW S, NEW seq \in Seq(S), NEW places, NEW kept, SelectedBy(seq, places, kept)
    PROVE  Selected(seq, places) = kept[Len(seq)]
<1> DEFINE n == Len(seq)
<1>1. n \in Nat OBVIOUS
<1>2. PICK g : SelectedBy(seq, places, g) /\ Selected(seq, places) = g[n] BY Selection
<1> DEFINE T == {i \in 0..n : kept[i] = g[i]}
<1> HIDE DEF n
<1>3. 0 \in T BY <1>1, <1>2 DEF SelectedBy
<1>4. ASSUME NEW i \in 1..n, i - 1 \in T PROVE i \in T
  <2>1. kept[i] = IF i \in places THEN Append(kept[i - 1], seq[i]) ELSE kept[i - 1]
    BY DEF SelectedBy, n
  <2>2. g[i] = IF i \in places THEN Append(g[i - 1], seq[i]) ELSE g[i - 1]
    BY <1>2 DEF SelectedBy, n
  <2>3. kept[i - 1] = g[i - 1] BY <1>4
  <2>4. kept[i] = g[i] BY <2>1, <2>2, <2>3
  <2> QED BY <1>1, <2>4
<1> HIDE DEF T
<1>5. \A i \in 0..n : i \in T BY <1>1, <1>3, <1>4, UpTo
<1>6. kept[n] = g[n] BY <1>1, <1>5 DEF T
<1> QED BY <1>2, <1>6 DEF n

(* flat[n] are the first n sequences, one after the other.                  *)
FlattenedBy(seqs, flat) ==
    /\ flat[0] = <<>>
    /\ \A n \in 1..Len(seqs) : flat[n] = flat[n - 1] \o seqs[n]

(* FlattenSeq is the end of such a recursion.                               *)
LEMMA Flattening ==
    ASSUME NEW S, NEW seqs \in Seq(Seq(S))
    PROVE  \E flat \in [0..Len(seqs) -> Seq(S)] :
              FlattenedBy(seqs, flat) /\ FlattenSeq(seqs) = flat[Len(seqs)]
<1> DEFINE n == Len(seqs)
           step == [p \in (1..n) \X Seq(S) |-> p[2] \o seqs[p[1]]]
           Next(flat) == [i \in 1..n |-> IF i = 1 THEN seqs[i] ELSE flat[i - 1] \o seqs[i]]
           chosen == CHOOSE flat : flat = Next(flat)
<1>1. n \in Nat /\ <<>> \in Seq(S) /\ \A i \in 1..n : seqs[i] \in Seq(S) OBVIOUS
<1>2. step \in [(1..n) \X Seq(S) -> Seq(S)]
  <2> SUFFICES ASSUME NEW p \in (1..n) \X Seq(S) PROVE p[2] \o seqs[p[1]] \in Seq(S)
    OBVIOUS
  <2>1. p[1] \in 1..n /\ p[2] \in Seq(S) /\ seqs[p[1]] \in Seq(S) BY <1>1
  <2> QED BY <2>1
<1>3. \A i \in 1..n, s \in Seq(S) : step[<<i, s>>] = s \o seqs[i] OBVIOUS
<1>0. n = 0 => seqs = <<>> OBVIOUS
<1> HIDE DEF n, step
<1>4. PICK g : Recurs(g, step, n, Seq(S), <<>>)
  <2>1. IsStep(step, n, Seq(S)) BY <1>2 DEF IsStep
  <2> QED BY <1>1, <2>1, Recursion
<1>5. g \in [0..n -> Seq(S)] /\ g[0] = <<>> BY <1>4 DEF Recurs
<1>6. \A i \in 1..n : g[i] = g[i - 1] \o seqs[i]
  <2> SUFFICES ASSUME NEW i \in 1..n PROVE g[i] = g[i - 1] \o seqs[i] OBVIOUS
  <2>1. g[i - 1] \in Seq(S) BY <1>1, <1>5
  <2>2. g[i] = step[<<i, g[i - 1]>>] BY <1>4 DEF Recurs
  <2> QED BY <1>3, <2>1, <2>2
<1>7. FlattenedBy(seqs, g) BY <1>5, <1>6 DEF FlattenedBy, n
<1>8. CASE n = 0
  <2>1. FlattenSeq(seqs) = seqs BY <1>8 DEF FlattenSeq, n
  <2>2. FlattenSeq(seqs) = g[n] BY <1>0, <1>5, <1>8, <2>1
  <2> QED BY <1>5, <1>7, <2>2 DEF n
<1>9. CASE n # 0
  <2> DEFINE h == [i \in 1..n |-> g[i]]
  <2>1. h = Next(h)
    <3>1. ASSUME NEW i \in 1..n PROVE h[i] = Next(h)[i]
      <4>1. CASE i = 1
        <5>0. i - 1 = 0 BY <4>1
        <5>1. g[i] = g[i - 1] \o seqs[i] BY <1>6
        <5>2. <<>> \o seqs[i] = seqs[i] BY <1>1
        <5>3. g[i] = seqs[i] BY <1>5, <5>0, <5>1, <5>2
        <5> QED BY <4>1, <5>3
      <4>2. CASE i # 1
        <5>1. i - 1 \in 1..n /\ h[i - 1] = g[i - 1] /\ h[i] = g[i] BY <1>1, <4>2
        <5>2. Next(h)[i] = h[i - 1] \o seqs[i] BY <4>2
        <5> HIDE DEF h, Next
        <5> QED BY <1>6, <5>1, <5>2
      <4> QED BY <4>1, <4>2
    <3>2. Next(h) = [i \in 1..n |-> Next(h)[i]] /\ h = [i \in 1..n |-> h[i]] OBVIOUS
    <3> HIDE DEF Next, h
    <3> QED BY <3>1, <3>2
  <2>2. chosen = Next(chosen)
    <3> HIDE DEF Next, h
    <3> QED BY <2>1
  <2>3. FlattenSeq(seqs) = chosen[n] BY <1>9 DEF FlattenSeq, n
  <2> HIDE DEF chosen
  <2> DEFINE T == {i \in 0..n : i = 0 \/ chosen[i] = g[i]}
  <2>4. 0 \in T BY <1>1
  <2>5. ASSUME NEW i \in 1..n, i - 1 \in T PROVE i \in T
    <3>1. Next(chosen)[i] = IF i = 1 THEN seqs[i] ELSE chosen[i - 1] \o seqs[i] OBVIOUS
    <3>2. chosen[i] = IF i = 1 THEN seqs[i] ELSE chosen[i - 1] \o seqs[i]
      <4> HIDE DEF Next
      <4> QED BY <2>2, <3>1
    <3>3. CASE i = 1
      <4>1. <<>> \o seqs[i] = seqs[i] BY <1>1
      <4>2. i - 1 = 0 BY <3>3
      <4>4. g[i] = g[i - 1] \o seqs[i] BY <1>6
      <4>3. g[i] = seqs[i] BY <1>5, <4>1, <4>2, <4>4
      <4> QED BY <3>2, <3>3, <4>3
    <3>4. CASE i # 1
      <4>1. chosen[i - 1] = g[i - 1] BY <2>5, <3>4
      <4>2. chosen[i] = g[i] BY <1>6, <3>2, <3>4, <4>1
      <4> QED BY <1>1, <4>2
    <3> QED BY <3>3, <3>4
  <2> HIDE DEF T
  <2>6. \A i \in 0..n : i \in T BY <1>1, <2>4, <2>5, UpTo
  <2>7. chosen[n] = g[n] BY <1>1, <1>9, <2>6 DEF T
  <2> QED BY <1>5, <1>7, <2>3, <2>7 DEF n
<1> QED BY <1>8, <1>9

(* Whatever recursion of this form one finds, it ends with FlattenSeq.      *)
LEMMA FlattenedIs ==
    ASSUME NEW S, NEW seqs \in Seq(Seq(S)), NEW flat, FlattenedBy(seqs, flat)
    PROVE  FlattenSeq(seqs) = flat[Len(seqs)]
<1> DEFINE n == Len(seqs)
<1>1. n \in Nat OBVIOUS
<1>2. PICK g : FlattenedBy(seqs, g) /\ FlattenSeq(seqs) = g[n] BY Flattening
<1> DEFINE T == {i \in 0..n : flat[i] = g[i]}
<1> HIDE DEF n
<1>3. 0 \in T BY <1>1, <1>2 DEF FlattenedBy
<1>4. ASSUME NEW i \in 1..n, i - 1 \in T PROVE i \in T
  <2>1. flat[i] = flat[i - 1] \o seqs[i] /\ g[i] = g[i - 1] \o seqs[i]
    BY <1>2 DEF FlattenedBy, n
  <2>2. flat[i - 1] = g[i - 1] BY <1>4
  <2>3. flat[i] = g[i] BY <2>1, <2>2
  <2> QED BY <1>1, <2>3
<1> HIDE DEF T
<1>5. \A i \in 0..n : i \in T BY <1>1, <1>3, <1>4, UpTo
<1>6. flat[n] = g[n] BY <1>1, <1>5 DEF T
<1> QED BY <1>2, <1>6 DEF n

(* An appended sequence, element by element.                                *)
LEMMA Appended ==
    ASSUME NEW S, NEW s \in Seq(S), NEW x \in S
    PROVE  /\ Append(s, x) \in Seq(S) /\ Len(Append(s, x)) = Len(s) + 1 /\ Len(s) \in Nat
           /\ \A i \in 1..Len(s) : Append(s, x)[i] = s[i]
           /\ Append(s, x)[Len(s) + 1] = x
OBVIOUS

(* A part of a sequence, element by element.                                *)
LEMMA Part ==
    ASSUME NEW S, NEW s \in Seq(S), NEW a \in Nat, NEW b \in Nat,
           1 <= a, a <= b + 1, b <= Len(s)
    PROVE  /\ SubSeq(s, a, b) \in Seq(S) /\ Len(SubSeq(s, a, b)) = b + 1 - a
           /\ \A i \in 1..(b + 1 - a) : SubSeq(s, a, b)[i] = s[a + i - 1]
OBVIOUS

(* A concatenation, element by element.                                     *)
LEMMA Joined ==
    ASSUME NEW S, NEW s \in Seq(S), NEW u \in Seq(S)
    PROVE  /\ s \o u \in Seq(S) /\ Len(s \o u) = Len(s) + Len(u)
           /\ Len(s) \in Nat /\ Len(u) \in Nat
           /\ \A i \in 1..Len(s) : (s \o u)[i] = s[i]
           /\ \A i \in 1..Len(u) : (s \o u)[Len(s) + i] = u[i]
OBVIOUS

(* To join one element is to append it.                                     *)
LEMMA JoinedOne ==
    ASSUME NEW S, NEW s \in Seq(S), NEW x \in S
    PROVE  s \o <<x>> = Append(s, x)
OBVIOUS

(* Sequences with the same elements are the same.                           *)
LEMMA Same ==
    ASSUME NEW S, NEW s \in Seq(S), NEW u \in Seq(S), Len(s) = Len(u),
           \A i \in 1..Len(s) : s[i] = u[i]
    PROVE  s = u
OBVIOUS

(* It does not matter which two of three are joined first.                  *)
Cat(s, u) == s \o u

(* Of three joined sequences it does not matter which two come first.       *)
LEMMA Associates ==
    ASSUME NEW S, NEW s \in Seq(S), NEW u \in Seq(S), NEW v \in Seq(S)
    PROVE  Cat(Cat(s, u), v) = Cat(s, Cat(u, v))
BY DEF Cat

(* To join and then to append is to append and then to join.                *)
LEMMA AppendLast ==
    ASSUME NEW S, NEW s \in Seq(S), NEW u \in Seq(S), NEW x \in S
    PROVE  s \o Append(u, x) = Append(s \o u, x)
OBVIOUS

(* A part grows by the element after it, and ends where the next begins.    *)
LEMMA PartGrows ==
    ASSUME NEW S, NEW s \in Seq(S), NEW a \in Nat, NEW b \in Nat,
           1 <= a, a <= b, b <= Len(s)
    PROVE  SubSeq(s, a, b) = Append(SubSeq(s, a, b - 1), s[b])
<1> DEFINE u == SubSeq(s, a, b - 1) v == SubSeq(s, a, b)
<1>1. b - 1 \in Nat /\ b - 1 <= Len(s) /\ a <= (b - 1) + 1 /\ s[b] \in S /\ a <= b + 1 OBVIOUS
<1>2. /\ u \in Seq(S) /\ Len(u) = (b - 1) + 1 - a
      /\ \A i \in 1..((b - 1) + 1 - a) : u[i] = s[a + i - 1]
  BY <1>1, Part
<1>3. /\ v \in Seq(S) /\ Len(v) = b + 1 - a
      /\ \A i \in 1..(b + 1 - a) : v[i] = s[a + i - 1]
  BY <1>1, Part
<1> HIDE DEF u, v
<1>4. /\ Append(u, s[b]) \in Seq(S) /\ Len(Append(u, s[b])) = Len(u) + 1
      /\ \A i \in 1..Len(u) : Append(u, s[b])[i] = u[i]
      /\ Append(u, s[b])[Len(u) + 1] = s[b]
  BY <1>1, <1>2, Appended
<1>5. ASSUME NEW i \in 1..Len(v) PROVE v[i] = Append(u, s[b])[i]
  <2>1. v[i] = s[a + i - 1] BY <1>3
  <2>2. CASE i \in 1..Len(u)
    <3>1. i \in 1..((b - 1) + 1 - a) BY <1>2, <2>2
    <3> QED BY <1>2, <1>4, <2>1, <2>2, <3>1
  <2>3. CASE i \notin 1..Len(u)
    <3>1. i = Len(u) + 1 /\ a + i - 1 = b BY <1>2, <1>3, <2>3
    <3> QED BY <1>4, <2>1, <3>1
  <2> QED BY <2>2, <2>3
<1>6. Len(v) = Len(Append(u, s[b])) BY <1>2, <1>3, <1>4
<1>7. v = Append(u, s[b]) BY <1>3, <1>4, <1>5, <1>6, Same
<1> QED BY <1>7 DEF u, v

(* Two parts that meet are one.                                             *)
LEMMA PartsJoin ==
    ASSUME NEW S, NEW s \in Seq(S), NEW a \in Nat, NEW m \in Nat, NEW b \in Nat,
           1 <= a, a <= m + 1, m <= b, b <= Len(s)
    PROVE  Cat(SubSeq(s, a, m), SubSeq(s, m + 1, b)) = SubSeq(s, a, b)
<1> DEFINE u == SubSeq(s, a, m) v == SubSeq(s, m + 1, b) w == SubSeq(s, a, b)
<1>1. m <= Len(s) /\ m + 1 \in Nat /\ 1 <= m + 1 /\ m + 1 <= b + 1 /\ a <= b + 1 OBVIOUS
<1>2. u \in Seq(S) /\ Len(u) = m + 1 - a /\ \A i \in 1..(m + 1 - a) : u[i] = s[a + i - 1]
  BY <1>1, Part
<1>3. /\ v \in Seq(S) /\ Len(v) = b + 1 - (m + 1)
      /\ \A i \in 1..(b + 1 - (m + 1)) : v[i] = s[m + 1 + i - 1]
  BY <1>1, Part
<1>4. w \in Seq(S) /\ Len(w) = b + 1 - a /\ \A i \in 1..(b + 1 - a) : w[i] = s[a + i - 1]
  BY <1>1, Part
<1> HIDE DEF u, v, w
<1>5. /\ u \o v \in Seq(S) /\ Len(u \o v) = Len(u) + Len(v)
      /\ \A i \in 1..Len(u) : (u \o v)[i] = u[i]
      /\ \A i \in 1..Len(v) : (u \o v)[Len(u) + i] = v[i]
  <2>1. u \in Seq(S) /\ v \in Seq(S) BY <1>2, <1>3
  <2> QED BY <2>1, Joined
<1>6. Len(u \o v) = Len(w) BY <1>2, <1>3, <1>4, <1>5
<1>7. ASSUME NEW i \in 1..Len(u \o v) PROVE (u \o v)[i] = w[i]
  <2>1. i \in 1..(b + 1 - a) BY <1>4, <1>6
  <2>2. w[i] = s[a + i - 1] BY <1>4, <2>1
  <2>3. CASE i \in 1..Len(u)
    <3>1. i \in 1..(m + 1 - a) BY <1>2, <2>3
    <3> QED BY <1>2, <1>5, <2>2, <2>3, <3>1
  <2>4. CASE i \notin 1..Len(u)
    <3>1. PICK j \in 1..Len(v) : i = Len(u) + j
      <4>1. i - Len(u) \in 1..Len(v) /\ i = Len(u) + (i - Len(u)) BY <1>2, <1>3, <2>1, <2>4
      <4> QED BY <4>1
    <3>2. j \in 1..(b + 1 - (m + 1)) BY <1>3
    <3>3. (u \o v)[i] = v[j] /\ v[j] = s[m + 1 + j - 1] BY <1>3, <1>5, <3>1, <3>2
    <3>4. m + 1 + j - 1 = a + i - 1 BY <1>2, <3>1, <3>2
    <3> QED BY <2>2, <3>3, <3>4
  <2> QED BY <2>3, <2>4
<1>8. u \o v = w BY <1>4, <1>5, <1>6, <1>7, Same
<1> QED BY <1>8 DEF u, v, w, Cat

(* A sequence is what comes before a place and what comes after it.         *)
LEMMA CutJoins ==
    ASSUME NEW S, NEW s \in Seq(S), NEW m \in 0..Len(s)
    PROVE  Cat(SubSeq(s, 1, m), SubSeq(s, m + 1, Len(s))) = s
<1>1. Len(s) \in Nat /\ m \in Nat /\ 1 \in Nat /\ 1 <= m + 1 /\ m <= Len(s) OBVIOUS
<1> DEFINE b == Len(s)
<1>2. Cat(SubSeq(s, 1, m), SubSeq(s, m + 1, b)) = SubSeq(s, 1, b)
  <2>1. b \in Nat /\ m <= b /\ b <= Len(s) /\ 1 <= 1 BY <1>1
  <2> HIDE DEF b
  <2> QED BY <1>1, <2>1, PartsJoin
<1>3. SubSeq(s, 1, Len(s)) = s OBVIOUS
<1> QED BY <1>2, <1>3

-----------------------------------------------------------------------------
(* What is selected.                                                        *)

(* a is the set T in ascending order.                                       *)
Ascends(a, T) ==
    /\ a \in Seq(T)
    /\ \A i, j \in 1..Len(a) : i < j => a[i] < a[j]
    /\ \A x \in T : \E i \in 1..Len(a) : a[i] = x

(* A larger number goes to the end.                                         *)
LEMMA AscendsOn ==
    ASSUME NEW T \in SUBSET Nat, NEW a, Ascends(a, T), NEW x \in Nat, \A y \in T : y < x
    PROVE  Ascends(Append(a, x), T \cup {x})
<1> DEFINE U == T \cup {x}  b == Append(a, x)
<1>1. a \in Seq(U) /\ x \in U BY DEF Ascends
<1>2. /\ b \in Seq(U) /\ Len(b) = Len(a) + 1 /\ Len(a) \in Nat
      /\ \A i \in 1..Len(a) : b[i] = a[i]
      /\ b[Len(a) + 1] = x
  <2> HIDE DEF U
  <2> QED BY <1>1, Appended
<1>3. \A i \in 1..Len(a) : a[i] \in T BY DEF Ascends
<1> HIDE DEF b
<1>4. ASSUME NEW i \in 1..Len(b), NEW j \in 1..Len(b), i < j PROVE b[i] < b[j]
  <2>1. i \in 1..Len(a) BY <1>2, <1>4
  <2>2. CASE j \in 1..Len(a) BY <1>2, <1>4, <2>1, <2>2 DEF Ascends
  <2>3. CASE j \notin 1..Len(a)
    <3>1. j = Len(a) + 1 BY <1>2, <2>3
    <3> QED BY <1>2, <1>3, <2>1, <3>1
  <2> QED BY <2>2, <2>3
<1>5. ASSUME NEW y \in U PROVE \E i \in 1..Len(b) : b[i] = y
  <2>1. CASE y \in T
    <3>1. PICK i \in 1..Len(a) : a[i] = y BY <2>1 DEF Ascends
    <3> QED BY <1>2, <3>1
  <2>2. CASE y = x
    <3>1. Len(a) + 1 \in 1..Len(b) BY <1>2
    <3> QED BY <1>2, <2>2, <3>1
  <2> QED BY <2>1, <2>2
<1> QED BY <1>2, <1>4, <1>5 DEF Ascends, b

(* The numbers of T up to m.                                                *)
Below(T, m) == {i \in T : i <= m}

(* The numbers that are selected from 1..n are the set, in ascending order. *)
LEMMA Ascending ==
    ASSUME NEW n \in Nat, NEW seq \in Seq(Nat), Len(seq) = n, \A i \in 1..n : seq[i] = i,
           NEW places, \A i \in places : i \in 1..n
    PROVE  Ascends(Selected(seq, places), places)
<1>1. PICK kept : SelectedBy(seq, places, kept) /\ Selected(seq, places) = kept[Len(seq)]
  BY Selection
<1> DEFINE T == {m \in 0..n : Ascends(kept[m], Below(places, m))}
<1>0. \A i \in places : i \in 1..n /\ i \in Nat OBVIOUS
<1>2. 0 \in T
  <2>1. Below(places, 0) = {} BY <1>0 DEF Below
  <2>2. kept[0] = <<>> BY <1>1 DEF SelectedBy
  <2>3. Ascends(<<>>, {}) BY DEF Ascends
  <2>4. Ascends(kept[0], Below(places, 0)) BY <2>1, <2>2, <2>3
  <2>5. 0 \in 0..n OBVIOUS
  <2> QED BY <2>4, <2>5
<1>3. ASSUME NEW m \in 1..n, m - 1 \in T PROVE m \in T
  <2> DEFINE before == Below(places, m - 1)  now == Below(places, m)
  <2>0. m \in Nat /\ m - 1 \in 0..n OBVIOUS
  <2>1. kept[m] = IF m \in places THEN Append(kept[m - 1], m) ELSE kept[m - 1]
    BY <1>1 DEF SelectedBy
  <2>2. Ascends(kept[m - 1], before) BY <1>3
  <2>3. CASE m \in places
    <3>1. now = before \cup {m}
      <4>1. ASSUME NEW i PROVE i \in now <=> i \in before \cup {m}
        <5>1. CASE i \in places
          <6>1. i \in Nat /\ m \in Nat /\ (i <= m <=> i <= m - 1 \/ i = m) BY <1>0, <2>0, <5>1
          <6> QED BY <5>1, <6>1 DEF Below
        <5>2. CASE i \notin places BY <2>3, <5>2 DEF Below
        <5> QED BY <5>1, <5>2
      <4> QED BY <4>1
    <3>4. before \in SUBSET Nat /\ \A y \in before : y < m BY <1>0, <2>0 DEF Below
    <3> HIDE DEF before
    <3>2. Ascends(Append(kept[m - 1], m), before \cup {m}) BY <2>0, <2>2, <3>4, AscendsOn
    <3>3. Ascends(kept[m], now) BY <2>1, <2>3, <3>1, <3>2
    <3> QED BY <3>3
  <2>4. CASE m \notin places
    <3>1. now = before BY <1>0, <2>0, <2>4 DEF Below
    <3>2. kept[m] = kept[m - 1] BY <2>1, <2>4
    <3> QED BY <2>2, <3>1, <3>2
  <2> QED BY <2>3, <2>4
<1> HIDE DEF T
<1>4. \A m \in 0..n : m \in T BY <1>2, <1>3, UpTo
<1>5. Ascends(kept[n], Below(places, n)) BY <1>4 DEF T
<1>6. Below(places, n) = places BY <1>0 DEF Below
<1> QED BY <1>1, <1>5, <1>6

(* The first d elements, if those are the places.                           *)
LEMMA SelectedPart ==
    ASSUME NEW S, NEW seq \in Seq(S), NEW d \in 0..Len(seq), NEW places,
           \A i \in 1..Len(seq) : i \in places <=> i <= d
    PROVE  Selected(seq, places) = SubSeq(seq, 1, d)
<1> DEFINE n == Len(seq)
           kept == [i \in 0..n |-> SubSeq(seq, 1, IF i <= d THEN i ELSE d)]
<1>1. n \in Nat /\ d \in Nat /\ d <= n OBVIOUS
<1>2. kept[0] = <<>> BY <1>1
<1>3. ASSUME NEW i \in 1..n
      PROVE  kept[i] = IF i \in places THEN Append(kept[i - 1], seq[i]) ELSE kept[i - 1]
  <2>1. CASE i <= d
    <3>1. kept[i] = SubSeq(seq, 1, i) /\ kept[i - 1] = SubSeq(seq, 1, i - 1) BY <1>1, <2>1
    <3>2. SubSeq(seq, 1, i) = Append(SubSeq(seq, 1, i - 1), seq[i])
      <4>1. i \in Nat /\ 1 <= i /\ i <= Len(seq) OBVIOUS
      <4> QED BY <4>1, PartGrows
    <3>3. i \in places BY <2>1
    <3> HIDE DEF kept
    <3> QED BY <3>1, <3>2, <3>3
  <2>2. CASE ~(i <= d)
    <3>1. kept[i] = SubSeq(seq, 1, d) /\ kept[i - 1] = SubSeq(seq, 1, d)
      <4>1. i - 1 \in 0..n /\ (i - 1 <= d => i - 1 = d) BY <1>1, <2>2
      <4> QED BY <2>2, <4>1
    <3>2. i \notin places BY <2>2
    <3> HIDE DEF kept
    <3> QED BY <3>1, <3>2
  <2> QED BY <2>1, <2>2
<1>4. kept[n] = SubSeq(seq, 1, d)
  <2>1. (IF n <= d THEN n ELSE d) = d /\ n \in 0..n BY <1>1
  <2> QED BY <2>1
<1> HIDE DEF kept
<1>5. SelectedBy(seq, places, kept) BY <1>2, <1>3 DEF SelectedBy, n
<1>6. Selected(seq, places) = kept[Len(seq)] BY <1>5, SelectedIs
<1> QED BY <1>4, <1>6 DEF n

(* The elements after the first d, if those are the places.                 *)
LEMMA SelectedRest ==
    ASSUME NEW S, NEW seq \in Seq(S), NEW d \in 0..Len(seq), NEW places,
           \A i \in 1..Len(seq) : i \in places <=> i > d
    PROVE  Selected(seq, places) = SubSeq(seq, d + 1, Len(seq))
<1> DEFINE n == Len(seq)
           kept == [i \in 0..n |-> SubSeq(seq, d + 1, IF i <= d THEN d ELSE i)]
<1>1. n \in Nat /\ d \in Nat /\ d <= n OBVIOUS
<1>2. kept[0] = <<>>
  <2>1. kept[0] = SubSeq(seq, d + 1, d) BY <1>1
  <2>2. SubSeq(seq, d + 1, d) \in Seq(S) /\ Len(SubSeq(seq, d + 1, d)) = d + 1 - (d + 1)
    BY <1>1, Part
  <2> HIDE DEF kept
  <2>3. d + 1 - (d + 1) = 0 BY <1>1
  <2> QED BY <2>1, <2>2, <2>3
<1>3. ASSUME NEW i \in 1..n
      PROVE  kept[i] = IF i \in places THEN Append(kept[i - 1], seq[i]) ELSE kept[i - 1]
  <2>1. CASE i <= d
    <3>1. kept[i] = SubSeq(seq, d + 1, d) /\ kept[i - 1] = SubSeq(seq, d + 1, d) BY <1>1, <2>1, SMTT(30)
    <3>2. i \notin places BY <1>1, <2>1
    <3> HIDE DEF kept
    <3> QED BY <3>1, <3>2
  <2>2. CASE ~(i <= d)
    <3>1. kept[i] = SubSeq(seq, d + 1, i) /\ kept[i - 1] = SubSeq(seq, d + 1, i - 1)
      <4>1. i - 1 \in 0..n /\ (IF i - 1 <= d THEN d ELSE i - 1) = i - 1 BY <1>1, <2>2
      <4> QED BY <2>2, <4>1
    <3>2. SubSeq(seq, d + 1, i) = Append(SubSeq(seq, d + 1, i - 1), seq[i])
      <4>1. i \in Nat /\ d + 1 \in Nat /\ 1 <= d + 1 /\ d + 1 <= i /\ i <= Len(seq)
        BY <1>1, <2>2
      <4> QED BY <4>1, PartGrows
    <3>3. i \in places BY <1>1, <2>2
    <3> HIDE DEF kept
    <3> QED BY <3>1, <3>2, <3>3
  <2> QED BY <2>1, <2>2
<1>4. kept[n] = SubSeq(seq, d + 1, n)
  <2>1. (IF n <= d THEN d ELSE n) = n /\ n \in 0..n BY <1>1
  <2> QED BY <2>1
<1> HIDE DEF kept
<1>5. SelectedBy(seq, places, kept) BY <1>2, <1>3 DEF SelectedBy, n
<1>6. Selected(seq, places) = kept[Len(seq)] BY <1>5, SelectedIs
<1> QED BY <1>4, <1>6 DEF n

-----------------------------------------------------------------------------
(* Decoding.                                                                *)

(* The places of the tokens that decode to something.                       *)
Spelt(tokens) == {i \in DOMAIN tokens : tokens[i].id # "special"}

(* The decoded tokens are tokens.                                           *)
LEMMA DecodeType ==
    ASSUME NEW S, NEW tokens \in Seq(S)
    PROVE  Decode(tokens) \in Seq(S)
<1>1. PICK kept \in [0..Len(tokens) -> Seq(S)] : Selected(tokens, Spelt(tokens)) = kept[Len(tokens)]
  BY Selection
<1>2. Len(tokens) \in 0..Len(tokens) OBVIOUS
<1>3. kept[Len(tokens)] \in Seq(S) BY <1>2
<1> QED BY <1>1, <1>3 DEF Decode, Spelt

(* Nothing decodes to nothing.                                              *)
LEMMA DecodeEmpty == Decode(<<>>) = <<>>
<1>1. PICK kept : SelectedBy(<<>>, Spelt(<<>>), kept) /\ Selected(<<>>, Spelt(<<>>)) = kept[Len(<<>>)]
  <2>1. <<>> \in Seq({}) OBVIOUS
  <2> QED BY <2>1, Selection
<1>2. Len(<<>>) = 0 OBVIOUS
<1> QED BY <1>1, <1>2 DEF Decode, Spelt, SelectedBy

(* Tokens can be decoded piece by piece.                                    *)
LEMMA DecodeJoins ==
    ASSUME NEW S, NEW a \in Seq(S), NEW b \in Seq(S)
    PROVE  Decode(a \o b) = Decode(a) \o Decode(b)
<1> DEFINE c == a \o b  n == Len(a)  m == Len(b)
<1>1. /\ c \in Seq(S) /\ Len(c) = n + m /\ n \in Nat /\ m \in Nat
      /\ \A i \in 1..n : c[i] = a[i]
      /\ \A i \in 1..m : c[n + i] = b[i]
  BY Joined
<1>2. PICK ka \in [0..n -> Seq(S)] :
         SelectedBy(a, Spelt(a), ka) /\ Selected(a, Spelt(a)) = ka[n]
  BY Selection
<1>3. PICK kb \in [0..m -> Seq(S)] :
         SelectedBy(b, Spelt(b), kb) /\ Selected(b, Spelt(b)) = kb[m]
  BY Selection
<1> DEFINE kc == [i \in 0..(n + m) |-> IF i <= n THEN ka[i] ELSE ka[n] \o kb[i - n]]
<1>4. /\ \A i \in 1..n : i \in Spelt(c) <=> i \in Spelt(a)
      /\ \A i \in 1..m : n + i \in Spelt(c) <=> i \in Spelt(b)
  <2>1. DOMAIN c = 1..(n + m) /\ DOMAIN a = 1..n /\ DOMAIN b = 1..m BY <1>1
  <2> HIDE DEF c, n, m
  <2>2. ASSUME NEW i \in 1..n PROVE i \in Spelt(c) <=> i \in Spelt(a)
    <3>1. i \in 1..(n + m) /\ c[i] = a[i] BY <1>1
    <3> QED BY <2>1, <3>1 DEF Spelt
  <2>3. ASSUME NEW i \in 1..m PROVE n + i \in Spelt(c) <=> i \in Spelt(b)
    <3>1. n + i \in 1..(n + m) /\ c[n + i] = b[i] BY <1>1
    <3> QED BY <2>1, <3>1 DEF Spelt
  <2> QED BY <2>2, <2>3
<1> HIDE DEF c, n, m
<1>5. kc[0] = <<>> BY <1>1, <1>2 DEF SelectedBy
<1>6. ASSUME NEW i \in 1..(n + m)
      PROVE  kc[i] = IF i \in Spelt(c) THEN Append(kc[i - 1], c[i]) ELSE kc[i - 1]
  <2>1. CASE i <= n
    <3>1. i \in 1..n /\ kc[i] = ka[i] /\ kc[i - 1] = ka[i - 1] BY <1>1, <2>1
    <3>2. ka[i] = IF i \in Spelt(a) THEN Append(ka[i - 1], a[i]) ELSE ka[i - 1]
      BY <1>2, <3>1 DEF SelectedBy, n
    <3> HIDE DEF kc
    <3>3. c[i] = a[i] /\ (i \in Spelt(c) <=> i \in Spelt(a)) BY <1>1, <1>4, <3>1
    <3> QED BY <3>1, <3>2, <3>3
  <2>2. CASE ~(i <= n)
    <3>1. PICK j \in 1..m : i = n + j
      <4>1. i - n \in 1..m /\ i = n + (i - n) BY <1>1, <2>2
      <4> QED BY <4>1
    <3>2. kc[i] = ka[n] \o kb[j]
      <4>1. i - n = j /\ i \in 0..(n + m) BY <1>1, <3>1
      <4>2. kc[i] = ka[n] \o kb[i - n] BY <2>2, <4>1
      <4> QED BY <4>1, <4>2
    <3>3. kc[i - 1] = ka[n] \o kb[j - 1]
      <4>1. i - 1 \in 0..(n + m) BY <1>1, <3>1
      <4>2. CASE j = 1
        <5>1. i - 1 = n /\ j - 1 = 0 BY <1>1, <3>1, <4>2
        <5>2. kc[i - 1] = ka[n] BY <1>1, <4>1, <5>1
        <5>3. kb[0] = <<>> /\ ka[n] \in Seq(S)
          <6>1. n \in 0..n BY <1>1
          <6> QED BY <1>2, <1>3, <6>1 DEF SelectedBy
        <5>4. ka[n] \o <<>> = ka[n] BY <5>3
        <5> QED BY <5>1, <5>2, <5>3, <5>4
      <4>3. CASE j # 1
        <5>1. ~(i - 1 <= n) /\ (i - 1) - n = j - 1 BY <1>1, <3>1, <4>3
        <5>2. kc[i - 1] = ka[n] \o kb[(i - 1) - n] BY <4>1, <5>1
        <5> QED BY <5>1, <5>2
      <4> QED BY <4>2, <4>3
    <3> HIDE DEF kc
    <3>4. kb[j] = IF j \in Spelt(b) THEN Append(kb[j - 1], b[j]) ELSE kb[j - 1]
      BY <1>3 DEF SelectedBy, m
    <3>5. c[i] = b[j] /\ (i \in Spelt(c) <=> j \in Spelt(b)) BY <1>1, <1>4, <3>1
    <3>6. CASE j \in Spelt(b)
      <4>1. ka[n] \in Seq(S) /\ kb[j - 1] \in Seq(S) /\ b[j] \in S
        <5>1. n \in 0..n /\ j - 1 \in 0..m BY <1>1
        <5>2. b[j] \in S BY DEF m
        <5> QED BY <1>2, <1>3, <5>1, <5>2
      <4>2. ka[n] \o Append(kb[j - 1], b[j]) = Append(ka[n] \o kb[j - 1], b[j])
        <5> DEFINE w == ka[n]  u == kb[j - 1]  x == b[j]
        <5>1. w \in Seq(S) /\ u \in Seq(S) /\ x \in S BY <4>1
        <5> HIDE DEF w, u, x
        <5>2. w \o Append(u, x) = Append(w \o u, x) BY <5>1, AppendLast
        <5> QED BY <5>2 DEF w, u, x
      <4> QED BY <3>2, <3>3, <3>4, <3>5, <3>6, <4>2
    <3>7. CASE j \notin Spelt(b) BY <3>2, <3>3, <3>4, <3>5, <3>7
    <3> QED BY <3>6, <3>7
  <2> QED BY <2>1, <2>2
<1>7. kc[n + m] = ka[n] \o kb[m]
  <2>1. CASE m = 0
    <3>1. n + m = n /\ n \in 0..(n + m) /\ n \in 0..n BY <1>1, <2>1
    <3>2. kb[m] = <<>> /\ ka[n] \in Seq(S) BY <1>2, <1>3, <2>1, <3>1 DEF SelectedBy
    <3>3. ka[n] \o <<>> = ka[n] BY <3>2
    <3>4. kc[n] = ka[n] BY <3>1
    <3> QED BY <3>1, <3>2, <3>3, <3>4
  <2>2. CASE m # 0
    <3>1. ~(n + m <= n) /\ (n + m) - n = m /\ n + m \in 0..(n + m) BY <1>1, <2>2
    <3> QED BY <3>1
  <2> QED BY <2>1, <2>2
<1> HIDE DEF kc
<1>8. SelectedBy(c, Spelt(c), kc) BY <1>1, <1>5, <1>6 DEF SelectedBy
<1>9. Selected(c, Spelt(c)) = kc[Len(c)] BY <1>1, <1>8, SelectedIs
<1> QED BY <1>1, <1>2, <1>3, <1>7, <1>9 DEF Decode, Spelt, c

-----------------------------------------------------------------------------
(* Groups.                                                                  *)

(* Tokens of P, labelled with speakers of R.                                *)
Labels(P, R) == [token : P, speaker : R]

(* Where a turn starts.                                                     *)
Starts(labeled) ==
    {i \in DOMAIN labeled : i = 1 \/ labeled[i].speaker # labeled[i - 1].speaker}

(* The groups cut the sequence in runs of one speaker, none of them empty.  *)
AreGroups(labeled, groups) ==
    /\ Len(labeled) = 0 <=> Len(groups) = 0
    /\ Len(groups) > 0 => groups[1].first = 1 /\ groups[Len(groups)].last = Len(labeled)
    /\ \A n \in 1..Len(groups) :
          /\ groups[n].first \in Starts(labeled)
          /\ groups[n].first \in 1..Len(labeled) /\ groups[n].last \in 1..Len(labeled)
          /\ groups[n].first <= groups[n].last
          /\ groups[n].speaker = labeled[groups[n].first].speaker
          /\ n < Len(groups) => groups[n + 1].first = groups[n].last + 1
          /\ \A i \in groups[n].first..groups[n].last : labeled[i].speaker = groups[n].speaker
    /\ \A n, m \in 1..Len(groups) : n < m => groups[n].last < groups[m].first
    /\ \A i \in Starts(labeled) : \E n \in 1..Len(groups) : groups[n].first = i

(* The first places of the groups.                                          *)
LEMMA FirstsAscend ==
    ASSUME NEW S, NEW labeled \in Seq(S)
    PROVE  LET first == Selected([i \in DOMAIN labeled |-> i], Starts(labeled))
           IN  Ascends(first, Starts(labeled)) /\ first \in Seq(1..Len(labeled))
<1> DEFINE n == Len(labeled)  places == [i \in DOMAIN labeled |-> i]
           first == Selected(places, Starts(labeled))
<1>1. n \in Nat /\ DOMAIN labeled = 1..n OBVIOUS
<1>2. places \in Seq(Nat) /\ Len(places) = n /\ \A i \in 1..n : places[i] = i
  <2>1. places = [i \in 1..n |-> i] BY <1>1
  <2> HIDE DEF n, places
  <2> QED BY <1>1, <2>1
<1>3. \A i \in Starts(labeled) : i \in 1..n BY <1>1 DEF Starts
<1> HIDE DEF n, places
<1>4. Ascends(first, Starts(labeled)) BY <1>1, <1>2, <1>3, Ascending
<1>5. first \in Seq(1..n)
  <2> DEFINE T == Starts(labeled)  N == 1..n
  <2>1. first \in Seq(T) /\ T \subseteq N BY <1>3, <1>4 DEF Ascends
  <2> HIDE DEF T, N, first
  <2>2. first \in Seq(N) BY <2>1
  <2> QED BY <2>2 DEF N
<1> QED BY <1>4, <1>5 DEF n, places

(* What a group is.                                                         *)
Groups(labeled) ==
    [speaker : {labeled[i].speaker : i \in DOMAIN labeled},
     first   : DOMAIN labeled, last : DOMAIN labeled]

(* GroupLabeled makes such groups.                                          *)
LEMMA GroupFacts ==
    ASSUME NEW S, NEW labeled \in Seq(S)
    PROVE  /\ AreGroups(labeled, GroupLabeled(labeled))
           /\ GroupLabeled(labeled) \in Seq(Groups(labeled))
<1> DEFINE n == Len(labeled)
           first == Selected([i \in DOMAIN labeled |-> i], Starts(labeled))
           k == Len(first)
           Ending(g) == IF g = k THEN n ELSE first[g + 1] - 1
           groups == GroupLabeled(labeled)
<1>1. n \in Nat /\ DOMAIN labeled = 1..n OBVIOUS
<1>2. Ascends(first, Starts(labeled)) /\ first \in Seq(1..n) BY FirstsAscend
<1>3. groups = [g \in DOMAIN first |->
                  [speaker |-> labeled[first[g]].speaker, first |-> first[g], last |-> Ending(g)]]
  BY DEF GroupLabeled, GroupsFrom, Starts
<1>4. \A i \in Starts(labeled) : i \in 1..n /\ (i # 1 => labeled[i].speaker # labeled[i - 1].speaker)
  BY <1>1 DEF Starts
<1>5. \A i \in 1..n : i \notin Starts(labeled) => i # 1 /\ labeled[i].speaker = labeled[i - 1].speaker
  BY <1>1 DEF Starts
<1>6. n > 0 => 1 \in Starts(labeled) BY <1>1 DEF Starts
<1> HIDE DEF n, first, groups
<1>7. k \in Nat /\ DOMAIN first = 1..k /\ \A g \in 1..k : first[g] \in 1..n
  <2> DEFINE N == 1..n
  <2>1. first \in Seq(N) BY <1>2
  <2> HIDE DEF N
  <2>2. k \in Nat /\ DOMAIN first = 1..k /\ \A g \in 1..k : first[g] \in N BY <2>1
  <2> QED BY <2>2 DEF N
<1>8. /\ \A g, h \in 1..k : g < h => first[g] < first[h]
      /\ \A i \in Starts(labeled) : \E g \in 1..k : first[g] = i
      /\ \A g \in 1..k : first[g] \in Starts(labeled)
  BY <1>2 DEF Ascends
<1> HIDE DEF k
<1>9. /\ Len(groups) = k /\ DOMAIN groups = 1..k
      /\ \A g \in 1..k : /\ groups[g].speaker = labeled[first[g]].speaker
                         /\ groups[g].first = first[g] /\ groups[g].last = Ending(g)
  BY <1>3, <1>7
<1>10. n = 0 <=> k = 0
  <2>1. CASE n = 0 BY <1>7, <2>1
  <2>2. CASE n > 0
    <3>1. PICK g \in 1..k : first[g] = 1 BY <1>6, <1>8, <2>2
    <3> QED BY <1>7, <2>2
  <2> QED BY <1>1, <2>1, <2>2
<1>11. k > 0 => first[1] = 1
  <2> SUFFICES ASSUME k > 0 PROVE first[1] = 1 OBVIOUS
  <2>1. PICK g \in 1..k : first[g] = 1 BY <1>1, <1>6, <1>8, <1>10, <1>7
  <2>2. 1 \in 1..k /\ first[1] \in 1..n BY <1>7
  <2>3. ~(1 < g) BY <1>8, <2>1, <2>2, <1>1
  <2>4. g = 1 BY <1>7, <2>3
  <2> QED BY <2>1, <2>4
<1>12. ASSUME NEW g \in 1..k
       PROVE  /\ Ending(g) \in 1..n /\ first[g] <= Ending(g)
              /\ g < k => g + 1 \in 1..k /\ first[g + 1] = Ending(g) + 1
  <2>1. first[g] \in 1..n BY <1>7
  <2>2. CASE g = k BY <1>1, <1>7, <2>1, <2>2
  <2>3. CASE g # k
    <3>1. g + 1 \in 1..k /\ g < g + 1 BY <1>7, <2>3
    <3>2. first[g + 1] \in 1..n /\ first[g] < first[g + 1] BY <1>7, <1>8, <3>1
    <3> QED BY <1>1, <2>1, <2>3, <3>1, <3>2
  <2> QED BY <2>2, <2>3
<1>13. ASSUME NEW g \in 1..k, NEW i \in (first[g] + 1)..Ending(g) PROVE i \notin Starts(labeled)
  <2> SUFFICES ASSUME i \in Starts(labeled) PROVE FALSE OBVIOUS
  <2>1. PICK h \in 1..k : first[h] = i BY <1>8
  <2>2. first[g] \in 1..n /\ Ending(g) \in 1..n /\ i \in Nat BY <1>7, <1>12
  <2>3. g < h
    <3>1. CASE h = g BY <2>1, <2>2, <3>1
    <3>2. CASE h < g BY <1>8, <2>1, <2>2, <3>2
    <3> QED BY <1>7, <3>1, <3>2
  <2>4. g < k BY <1>7, <2>3
  <2>5. g + 1 \in 1..k /\ first[g + 1] = Ending(g) + 1 /\ first[g + 1] \in 1..n BY <1>7, <1>12, <2>4
  <2>6. h = g + 1 \/ g + 1 < h BY <1>7, <2>3
  <2>7. first[g + 1] <= first[h] BY <1>8, <1>7, <2>5, <2>6, SMTT(30)
  <2> QED BY <2>1, <2>2, <2>5, <2>7
<1>14. ASSUME NEW g \in 1..k, NEW i \in first[g]..Ending(g)
       PROVE  labeled[i].speaker = labeled[first[g]].speaker
  <2> DEFINE f == first[g]  d == Ending(g) - f
             T == {j \in 0..d : labeled[f + j].speaker = labeled[f].speaker}
  <2>1. f \in 1..n /\ Ending(g) \in 1..n /\ d \in Nat
    <3>1. first[g] \in 1..n /\ Ending(g) \in 1..n /\ first[g] <= Ending(g) BY <1>7, <1>12
    <3> QED BY <1>1, <3>1
  <2>2. i - f \in 0..d /\ f + (i - f) = i BY <2>1
  <2>3. \A j \in 1..d : f + j \in (f + 1)..Ending(g) /\ f + j \in 1..n /\ (f + j) - 1 = f + (j - 1)
    BY <1>1, <2>1, SMTT(30)
  <2>4. \A j \in 1..d : f + j \notin Starts(labeled) BY <1>13, <2>3
  <2> HIDE DEF d, f
  <2>5. 0 \in T BY <2>1
  <2>6. ASSUME NEW j \in 1..d, j - 1 \in T PROVE j \in T
    <3>1. labeled[f + j].speaker = labeled[(f + j) - 1].speaker BY <1>5, <2>3, <2>4
    <3>2. labeled[f + (j - 1)].speaker = labeled[f].speaker BY <2>6
    <3>3. labeled[f + j].speaker = labeled[f].speaker BY <2>3, <3>1, <3>2
    <3> QED BY <2>1, <3>3
  <2> HIDE DEF T
  <2>7. \A j \in 0..d : j \in T BY <2>1, <2>5, <2>6, UpTo
  <2>8. i - f \in T BY <2>2, <2>7
  <2> QED BY <2>2, <2>8 DEF T, f
<1>15. ASSUME NEW g \in 1..k, NEW h \in 1..k, g < h PROVE Ending(g) < first[h]
  <2>1. g < k /\ (h = g + 1 \/ g + 1 < h) BY <1>7, <1>15
  <2>2. g + 1 \in 1..k /\ first[g + 1] = Ending(g) + 1 /\ Ending(g) \in 1..n BY <1>12, <2>1
  <2>3. first[g + 1] <= first[h] /\ first[h] \in 1..n BY <1>7, <1>8, <2>1, <2>2
  <2> QED BY <2>2, <2>3
<1>16. k > 0 => Ending(k) = n OBVIOUS
<1> HIDE DEF Ending
<1>17. AreGroups(labeled, groups)
  <2>1. \A g \in 1..k : g < k => groups[g + 1].first = groups[g].last + 1
    BY <1>9, <1>12
  <2>2. k > 0 => groups[1].first = 1 /\ groups[k].last = n
    <3>1. k > 0 => 1 \in 1..k /\ k \in 1..k BY <1>7
    <3> QED BY <1>9, <1>11, <1>16, <3>1
  <2>3. \A g \in 1..k :
          /\ groups[g].first \in Starts(labeled)
          /\ groups[g].first \in 1..n /\ groups[g].last \in 1..n
          /\ groups[g].first <= groups[g].last
          /\ groups[g].speaker = labeled[groups[g].first].speaker
    BY <1>7, <1>8, <1>9, <1>12
  <2>4. \A g \in 1..k : \A i \in groups[g].first..groups[g].last :
           labeled[i].speaker = groups[g].speaker
    BY <1>9, <1>14
  <2>5. \A g, h \in 1..k : g < h => groups[g].last < groups[h].first BY <1>9, <1>15
  <2>6. \A i \in Starts(labeled) : \E g \in 1..k : groups[g].first = i BY <1>8, <1>9
  <2>7. /\ Len(labeled) = 0 <=> Len(groups) = 0
        /\ Len(groups) > 0 => groups[1].first = 1 /\ groups[Len(groups)].last = Len(labeled)
    BY <1>9, <1>10, <2>2 DEF n
  <2> QED BY <1>9, <2>1, <2>3, <2>4, <2>5, <2>6, <2>7 DEF AreGroups, n
<1>18. groups \in Seq(Groups(labeled))
  <2>1. ASSUME NEW g \in 1..k
        PROVE  [speaker |-> labeled[first[g]].speaker, first |-> first[g], last |-> Ending(g)]
                  \in Groups(labeled)
    <3>1. first[g] \in DOMAIN labeled /\ Ending(g) \in DOMAIN labeled BY <1>1, <1>7, <1>12
    <3> QED BY <3>1 DEF Groups
  <2>2. groups \in [1..k -> Groups(labeled)] BY <1>3, <1>7, <2>1
  <2> QED BY <1>7, <2>2
<1> QED BY <1>17, <1>18 DEF groups

(* Every place is in a group.                                               *)
LEMMA InGroup ==
    ASSUME NEW S, NEW labeled \in Seq(S), NEW groups, AreGroups(labeled, groups),
           Len(groups) \in Nat, NEW i \in 1..Len(labeled)
    PROVE  \E g \in 1..Len(groups) : i \in groups[g].first..groups[g].last
<1> DEFINE n == Len(labeled)  k == Len(groups)
           Covered(j, g) == \E h \in 1..g : j \in groups[h].first..groups[h].last
           T == {g \in 0..k : g = 0 \/ \A j \in 1..groups[g].last : Covered(j, g)}
<1>1. /\ n \in Nat /\ k \in Nat /\ (n = 0 <=> k = 0)
      /\ k > 0 => groups[1].first = 1 /\ groups[k].last = n
      /\ \A g \in 1..k :
            /\ groups[g].first \in 1..n /\ groups[g].last \in 1..n
            /\ g < k => groups[g + 1].first = groups[g].last + 1
  BY DEF AreGroups
<1> HIDE DEF n, k
<1>2. 0 \in T BY <1>1
<1>3. ASSUME NEW g \in 1..k, g - 1 \in T PROVE g \in T
  <2> SUFFICES ASSUME NEW j \in 1..groups[g].last PROVE Covered(j, g)
    BY <1>1
  <2>1. groups[g].first \in 1..n /\ groups[g].last \in 1..n /\ g \in Nat /\ j \in Nat /\ k > 0
    BY <1>1
  <2>2. CASE j \in groups[g].first..groups[g].last
    <3>1. g \in 1..g BY <2>1
    <3> QED BY <2>2, <3>1
  <2>3. CASE j \notin groups[g].first..groups[g].last
    <3>1. g # 1 BY <1>1, <2>1, <2>3
    <3>2. g - 1 \in 1..k /\ g - 1 < k /\ (g - 1) + 1 = g BY <1>1, <3>1
    <3>3. groups[(g - 1) + 1].first = groups[g - 1].last + 1 BY <1>1, <3>2
    <3>6. groups[g].first = groups[g - 1].last + 1 /\ groups[g - 1].last \in 1..n
      BY <1>1, <3>2, <3>3
    <3>4. j \in 1..groups[g - 1].last BY <2>1, <2>3, <3>6, <1>1
    <3>5. PICK h \in 1..(g - 1) : j \in groups[h].first..groups[h].last
      BY <1>3, <3>1, <3>4
    <3>7. h \in 1..g BY <2>1
    <3> QED BY <3>5, <3>7
  <2> QED BY <2>2, <2>3
<1> HIDE DEF T
<1>4. \A g \in 0..k : g \in T BY <1>1, <1>2, <1>3, UpTo
<1>5. i \in 1..n BY DEF n
<1>6. k # 0 /\ k \in 0..k /\ i \in 1..groups[k].last BY <1>1, <1>5
<1>7. Covered(i, k) BY <1>4, <1>6 DEF T
<1> QED BY <1>7 DEF k

(* There are as many groups as starts.                                      *)
LEMMA GroupsCount ==
    ASSUME NEW S, NEW labeled \in Seq(S)
    PROVE  /\ IsFiniteSet(Starts(labeled))
           /\ Cardinality(Starts(labeled)) = Len(GroupLabeled(labeled))
           /\ Len(GroupLabeled(labeled)) \in Nat /\ Len(GroupLabeled(labeled)) <= Len(labeled)
<1> DEFINE groups == GroupLabeled(labeled)  k == Len(groups)  n == Len(labeled)
           f == [g \in 1..k |-> groups[g].first]
<1>1. AreGroups(labeled, groups) /\ groups \in Seq(Groups(labeled)) BY GroupFacts
<1>2. k \in Nat /\ n \in Nat BY <1>1
<1>3. \A g \in 1..k : groups[g].first \in Starts(labeled) BY <1>1 DEF AreGroups
<1>4. \A i \in Starts(labeled) : \E g \in 1..k : groups[g].first = i BY <1>1 DEF AreGroups
<1>5. \A g, h \in 1..k : g # h => groups[g].first # groups[h].first
  <2> SUFFICES ASSUME NEW g \in 1..k, NEW h \in 1..k, g < h PROVE groups[g].first # groups[h].first
    BY <1>2
  <2>1. groups[g].first <= groups[g].last /\ groups[g].last < groups[h].first
    BY <1>1 DEF AreGroups
  <2>2. groups[g].first \in 1..n /\ groups[g].last \in 1..n /\ groups[h].first \in 1..n
    BY <1>1 DEF AreGroups
  <2> QED BY <1>2, <2>1, <2>2
<1>10. Starts(labeled) \subseteq 1..n BY DEF Starts
<1> HIDE DEF k, groups, n
<1>6. f \in Bijection(1..k, Starts(labeled))
  <2>1. f \in [1..k -> Starts(labeled)] BY <1>3
  <2>2. f \in Injection(1..k, Starts(labeled)) BY <1>5, <2>1 DEF Injection, IsInjective
  <2>3. f \in Surjection(1..k, Starts(labeled)) BY <1>4, <2>1 DEF Surjection
  <2> QED BY <2>2, <2>3 DEF Bijection
<1>7. IsFiniteSet(1..k) /\ Cardinality(1..k) = k
  <2>1. (IF 1 > k THEN 0 ELSE k - 1 + 1) = k BY <1>2
  <2> QED BY <1>2, <2>1, FS_Interval
<1>8. IsFiniteSet(Starts(labeled)) /\ Cardinality(Starts(labeled)) = k
  <2> HIDE DEF f
  <2>1. ExistsBijection(1..k, Starts(labeled)) BY <1>6 DEF ExistsBijection
  <2> QED BY <1>7, <2>1, <1>6, FS_Bijection
<1>9. k <= n
  <2>1. IsFiniteSet(1..n) /\ Cardinality(1..n) = n
    <3>1. (IF 1 > n THEN 0 ELSE n - 1 + 1) = n BY <1>2
    <3> QED BY <1>2, <3>1, FS_Interval
  <2>2. Cardinality(Starts(labeled)) <= Cardinality(1..n) BY <1>10, <2>1, FS_Subset
  <2> QED BY <1>8, <2>1, <2>2
<1> QED BY <1>2, <1>8, <1>9 DEF groups, k, n

-----------------------------------------------------------------------------
(* Anti-flicker.                                                            *)

(* The same tokens, with no new start of a turn.                            *)
Relabelled(labeled, P, R) ==
    {m \in Seq(Labels(P, R)) :
        /\ Len(m) = Len(labeled)
        /\ \A i \in 1..Len(labeled) : m[i].token = labeled[i].token
        /\ Starts(m) \subseteq Starts(labeled)}

(* The least number of a set is one of it.                                  *)
LEMMA MinOf ==
    ASSUME NEW T \in SUBSET Nat, T # {}
    PROVE  Min(T) \in T
<1>1. \E n \in T : \A m \in T : n <= m BY LeastNumber
<1> QED BY <1>1 DEF Min

(* One round gives a short turn to its neighbour, whose run it joins, or    *)
(* changes nothing; a turn that is not short keeps its speaker.             *)
LEMMA AbsorbFacts ==
    ASSUME NEW P, NEW R, NEW labeled \in Seq(Labels(P, R)),
           NEW groups, groups = GroupLabeled(labeled), NEW m, m = AbsorbIn(labeled, groups)
    PROVE  /\ m \in Relabelled(labeled, P, R)
           /\ Absorbable(labeled, groups) = {} => m = labeled
           /\ Absorbable(labeled, groups) # {} => \E i \in Starts(labeled) : i \notin Starts(m)
           /\ \A g \in 1..Len(groups) : \A i \in groups[g].first..groups[g].last :
                 ~IsShort(labeled, groups[g]) => m[i] = labeled[i]
<1> DEFINE n == Len(labeled)  k == Len(groups)  short == Absorbable(labeled, groups)
           s == Min(short)  t == Target(s)  f == groups[s].first  z == groups[s].last
           Other(i) == [labeled[i] EXCEPT !.speaker = groups[t].speaker]
<1>1. AreGroups(labeled, groups) /\ groups \in Seq(Groups(labeled)) BY GroupFacts
<1>2. n \in Nat /\ k \in Nat /\ DOMAIN labeled = 1..n /\ DOMAIN groups = 1..k BY <1>1
<1>3. CASE short = {}
  <2>1. m = labeled BY <1>3 DEF AbsorbIn, Absorb
  <2>2. m \in Relabelled(labeled, P, R) BY <2>1 DEF Relabelled
  <2> QED BY <1>3, <2>1, <2>2
<1>4. CASE short # {}
  <2>1. s \in short /\ s \in 1..k /\ k > 1 /\ IsShort(labeled, groups[s])
    <3>1. short \subseteq 1..k BY <1>2 DEF Absorbable
    <3>2. short \in SUBSET Nat BY <3>1, <1>2
    <3> HIDE DEF short
    <3>3. s \in short BY <1>4, <3>2, MinOf
    <3>4. s \in 1..k BY <3>1, <3>3
    <3> HIDE DEF s
    <3>5. k > 1 /\ IsShort(labeled, groups[s]) BY <3>3 DEF Absorbable, short
    <3> QED BY <3>3, <3>4, <3>5
  <2>2. m = [i \in 1..n |-> IF i \in f..z THEN Other(i) ELSE labeled[i]]
    BY <1>2, <1>4, Zenon DEF AbsorbIn, Absorb
  <2> HIDE DEF s, short, n, k
  <2>3. t \in 1..k /\ s \in Nat /\ t = IF s = 1 THEN 2 ELSE s - 1 BY <1>2, <2>1 DEF Target
  <2>4. /\ f \in 1..n /\ z \in 1..n /\ f <= z /\ f \in Starts(labeled)
        /\ \A i \in f..z : labeled[i].speaker = groups[s].speaker
        /\ s < k => groups[s + 1].first = z + 1 /\ groups[s + 1].first \in Starts(labeled)
                    /\ groups[s + 1].first \in 1..n
                    /\ groups[s + 1].speaker = labeled[z + 1].speaker
    <3>1. /\ f \in 1..n /\ z \in 1..n /\ f <= z /\ f \in Starts(labeled)
          /\ \A i \in f..z : labeled[i].speaker = groups[s].speaker
          /\ s < k => groups[s + 1].first = z + 1
      BY <1>1, <2>1 DEF AreGroups, k, n
    <3>2. s < k => s + 1 \in 1..k BY <1>2, <2>3
    <3>3. s < k => /\ groups[s + 1].first \in Starts(labeled)
                   /\ groups[s + 1].first \in 1..n
                   /\ groups[s + 1].speaker = labeled[groups[s + 1].first].speaker
      BY <1>1, <3>2 DEF AreGroups, k, n
    <3> QED BY <3>1, <3>3
  <2>5. s # 1 => f # 1 /\ f - 1 \in 1..n /\ labeled[f - 1].speaker = groups[t].speaker
    <3> SUFFICES ASSUME s # 1 PROVE f # 1 /\ f - 1 \in 1..n /\ labeled[f - 1].speaker = groups[t].speaker
      OBVIOUS
    <3>1. t < k /\ s = t + 1 /\ t \in Nat BY <1>2, <2>1, <2>3
    <3>2. groups[t + 1].first = groups[t].last + 1 /\ groups[t].last \in 1..n
          /\ groups[t].first \in 1..n /\ groups[t].first <= groups[t].last
      BY <1>1, <2>3, <3>1 DEF AreGroups, k, n
    <3>3. \A i \in groups[t].first..groups[t].last : labeled[i].speaker = groups[t].speaker
      BY <1>1, <2>3 DEF AreGroups, k
    <3>4. f - 1 = groups[t].last /\ f # 1 BY <1>2, <3>1, <3>2
    <3>5. groups[t].last \in groups[t].first..groups[t].last BY <1>2, <3>2
    <3> QED BY <3>2, <3>3, <3>4, <3>5
  <2>6. groups[t].speaker \in R
    <3>1. groups[t].speaker = labeled[groups[t].first].speaker /\ groups[t].first \in 1..n
      BY <1>1, <2>3 DEF AreGroups, k, n
    <3>2. labeled[groups[t].first] \in Labels(P, R) BY <1>2, <3>1
    <3> QED BY <3>1, <3>2 DEF Labels
  <2>7. \A i \in 1..n : labeled[i] \in Labels(P, R) BY <1>2
  <2>8. ASSUME NEW i \in 1..n
        PROVE  /\ Other(i) \in Labels(P, R) /\ Other(i).token = labeled[i].token
               /\ Other(i).speaker = groups[t].speaker
    BY <2>6, <2>7 DEF Labels
  <2> DEFINE w == groups[t].speaker
  <2>9. /\ m \in Seq(Labels(P, R)) /\ Len(m) = n /\ DOMAIN m = 1..n
        /\ \A i \in 1..n : m[i].token = labeled[i].token
        /\ \A i \in 1..n : IF i \in f..z THEN m[i].speaker = w ELSE m[i] = labeled[i]
    <3> HIDE DEF Other
    <3>1. m \in [1..n -> Labels(P, R)] BY <2>2, <2>7, <2>8
    <3>2. \A i \in 1..n : m[i] = IF i \in f..z THEN Other(i) ELSE labeled[i] BY <2>2
    <3> QED BY <1>2, <2>8, <3>1, <3>2
  <2> HIDE DEF f, z, t
  <2>10. ASSUME NEW i \in Starts(m) PROVE i \in Starts(labeled)
    <3>1. i \in 1..n /\ (i = 1 \/ m[i].speaker # m[i - 1].speaker) BY <2>9 DEF Starts
    <3>2. CASE i = 1 BY <1>2, <3>1, <3>2 DEF Starts
    <3>3. CASE i # 1
      <4>0. i - 1 \in 1..n BY <1>2, <3>1, <3>3
      <4>1. CASE i \in f..z
        <5>1. i = f
          <6> SUFFICES ASSUME i # f PROVE FALSE OBVIOUS
          <6>1. i - 1 \in f..z BY <1>2, <2>4, <3>1, <4>1
          <6>2. m[i].speaker = w /\ m[i - 1].speaker = w BY <2>9, <3>1, <4>0, <4>1, <6>1
          <6> QED BY <3>1, <3>3, <6>2
        <5> QED BY <2>4, <5>1
      <4>2. CASE i \notin f..z /\ i - 1 \in f..z
        <5>1. i = z + 1 /\ z < n BY <1>2, <2>4, <3>1, <4>0, <4>2
        <5>2. s < k
          <6>1. s = k => z = n BY <1>1, <2>1, <1>2 DEF AreGroups, k, n, z
          <6> QED BY <1>2, <2>1, <5>1, <6>1, <2>4
        <5> QED BY <2>4, <5>1, <5>2
      <4>3. CASE i \notin f..z /\ i - 1 \notin f..z
        <5>1. m[i] = labeled[i] /\ m[i - 1] = labeled[i - 1] BY <2>9, <3>1, <4>0, <4>3
        <5>2. labeled[i].speaker # labeled[i - 1].speaker BY <3>1, <3>3, <5>1
        <5> QED BY <1>2, <3>1, <5>2 DEF Starts
      <4> QED BY <4>1, <4>2, <4>3
    <3> QED BY <3>2, <3>3
  <2>11. m \in Relabelled(labeled, P, R) BY <2>9, <2>10 DEF Relabelled, n
  <2>12. \E i \in Starts(labeled) : i \notin Starts(m)
    <3>1. CASE s = 1
      <4>1. s < k /\ t = s + 1 BY <1>2, <2>1, <2>3, <3>1
      <4>2. z + 1 \in Starts(labeled) /\ z + 1 \in 1..n /\ w = labeled[z + 1].speaker
        BY <2>4, <4>1
      <4>3. z \in f..z /\ z + 1 \notin f..z /\ (z + 1) - 1 = z /\ z + 1 # 1 BY <1>2, <2>4
      <4>4. m[z + 1] = labeled[z + 1] /\ m[z].speaker = w BY <2>4, <2>9, <4>2, <4>3
      <4>5. z + 1 \notin Starts(m) BY <4>2, <4>3, <4>4 DEF Starts
      <4> QED BY <4>2, <4>5
    <3>2. CASE s # 1
      <4>1. f - 1 \in 1..n /\ f # 1 /\ labeled[f - 1].speaker = w BY <2>5, <3>2
      <4>2. f \in f..z /\ f - 1 \notin f..z BY <1>2, <2>4
      <4>3. m[f].speaker = w /\ m[f - 1] = labeled[f - 1] BY <2>4, <2>9, <4>1, <4>2
      <4>4. f \notin Starts(m) BY <4>1, <4>3 DEF Starts
      <4> QED BY <2>4, <4>4
    <3> QED BY <3>1, <3>2
  <2>13. ASSUME NEW g \in 1..k, NEW i \in groups[g].first..groups[g].last,
                ~IsShort(labeled, groups[g])
         PROVE  m[i] = labeled[i]
    <3>1. g # s BY <2>1, <2>13
    <3>2. /\ groups[g].first \in 1..n /\ groups[g].last \in 1..n
          /\ g < s => groups[g].last < f
          /\ s < g => z < groups[g].first
      BY <1>1, <2>1 DEF AreGroups, k, n, f, z
    <3>3. g < s \/ s < g BY <1>2, <2>1, <3>1
    <3>4. i \in 1..n /\ i \notin f..z BY <1>2, <2>4, <3>2, <3>3
    <3> QED BY <2>9, <3>4
  <2> QED BY <1>4, <2>11, <2>12, <2>13 DEF short, k
<1> QED BY <1>3, <1>4

(* To absorb in what was relabelled is to relabel.                          *)
LEMMA AbsorbAgain ==
    ASSUME NEW P, NEW R, NEW labeled \in Seq(Labels(P, R)), NEW m \in Relabelled(labeled, P, R)
    PROVE  AbsorbIn(m, GroupLabeled(m)) \in Relabelled(labeled, P, R)
<1>1. m \in Seq(Labels(P, R)) BY DEF Relabelled
<1>2. AbsorbIn(m, GroupLabeled(m)) \in Relabelled(m, P, R) BY <1>1, AbsorbFacts
<1> QED BY <1>2 DEF Relabelled

(* rounds[i] are the labels after i rounds.                                 *)
RoundsOf(labeled, rounds) ==
    /\ rounds[0] = labeled
    /\ \A i \in 1..Len(labeled) : rounds[i] = AbsorbIn(rounds[i - 1], GroupLabeled(rounds[i - 1]))

(* The number of rounds.                                                    *)
LastRound(labeled) ==
    IF Len(GroupLabeled(labeled)) = 0 THEN 0 ELSE Len(GroupLabeled(labeled)) - 1

(* AntiFlicker ends such a sequence of rounds.                              *)
LEMMA Rounds ==
    ASSUME NEW P, NEW R, NEW labeled \in Seq(Labels(P, R))
    PROVE  \E rounds \in [0..Len(labeled) -> Relabelled(labeled, P, R)] :
              /\ RoundsOf(labeled, rounds)
              /\ LastRound(labeled) \in 0..Len(labeled)
              /\ AntiFlicker(labeled) = rounds[LastRound(labeled)]
<1> DEFINE n == Len(labeled)  V == Relabelled(labeled, P, R)
           step == [p \in (1..n) \X V |-> AbsorbIn(p[2], GroupLabeled(p[2]))]
           Next(round) == [i \in 0..n |-> IF i = 0 THEN labeled
                                          ELSE AbsorbIn(round[i - 1], GroupLabeled(round[i - 1]))]
           chosen == CHOOSE round : round = Next(round)
           z == LastRound(labeled)
<1>1. n \in Nat /\ labeled \in V BY DEF Relabelled
<1>2. IsStep(step, n, V)
  <2>1. \A p \in (1..n) \X V : AbsorbIn(p[2], GroupLabeled(p[2])) \in V BY AbsorbAgain
  <2> HIDE DEF V, n
  <2> QED BY <2>1 DEF IsStep
<1>3. \A i \in 1..n, m \in V : step[<<i, m>>] = AbsorbIn(m, GroupLabeled(m))
  <2> HIDE DEF V, n
  <2> QED OBVIOUS
<1>4. z \in 0..n /\ Max({0, Len(GroupLabeled(labeled)) - 1}) = z
  <2> DEFINE k == Len(GroupLabeled(labeled))
  <2>1. k \in Nat /\ k <= n BY GroupsCount
  <2> HIDE DEF k, n
  <2>2. CASE k = 0
    <3>1. z = 0 /\ {0, k - 1} = {0, -1} BY <2>2 DEF LastRound, k
    <3>2. Max({0, -1}) = 0 BY DEF Max
    <3>3. Max({0, k - 1}) = z BY <3>1, <3>2
    <3>4. 0 \in 0..n BY <1>1
    <3> QED BY <3>1, <3>3, <3>4 DEF k
  <2>3. CASE k # 0
    <3>1. z = k - 1 /\ k - 1 \in Nat BY <2>1, <2>3 DEF LastRound, k
    <3>2. Max({0, k - 1}) = k - 1 BY <3>1 DEF Max
    <3> QED BY <1>1, <2>1, <3>1, <3>2 DEF k
  <2> QED BY <2>2, <2>3
<1> HIDE DEF V, n, step, z
<1>5. PICK g : Recurs(g, step, n, V, labeled) BY <1>1, <1>2, Recursion
<1>6. g \in [0..n -> V] /\ g[0] = labeled BY <1>5 DEF Recurs
<1>7. \A i \in 1..n : g[i] = AbsorbIn(g[i - 1], GroupLabeled(g[i - 1]))
  <2> SUFFICES ASSUME NEW i \in 1..n PROVE g[i] = AbsorbIn(g[i - 1], GroupLabeled(g[i - 1]))
    OBVIOUS
  <2>1. g[i - 1] \in V BY <1>1, <1>6
  <2>2. g[i] = step[<<i, g[i - 1]>>] BY <1>5 DEF Recurs
  <2> QED BY <1>3, <2>1, <2>2
<1>8. g = Next(g)
  <2>1. ASSUME NEW i \in 0..n PROVE g[i] = Next(g)[i]
    <3>1. CASE i = 0 BY <1>6, <3>1
    <3>2. CASE i # 0
      <4>1. i \in 1..n BY <1>1, <3>2
      <4> QED BY <1>7, <3>2, <4>1
    <3> QED BY <3>1, <3>2
  <2>2. Next(g) = [i \in 0..n |-> Next(g)[i]] OBVIOUS
  <2> HIDE DEF Next
  <2> QED BY <1>6, <2>1, <2>2
<1>9. chosen = Next(chosen)
  <2> HIDE DEF Next
  <2> QED BY <1>8
<1>10. AntiFlicker(labeled) = chosen[z] BY <1>4, Zenon DEF AntiFlicker, n
<1> HIDE DEF chosen
<1>11. \A i \in 0..n : chosen[i] = g[i]
  <2> DEFINE T == {i \in 0..n : chosen[i] = g[i]}
  <2>1. 0 \in T
    <3>1. Next(chosen)[0] = labeled BY <1>1
    <3> HIDE DEF Next
    <3>2. chosen[0] = g[0] BY <1>6, <1>9, <3>1
    <3> QED BY <1>1, <3>2
  <2>2. ASSUME NEW i \in 1..n, i - 1 \in T PROVE i \in T
    <3>1. Next(chosen)[i] = AbsorbIn(chosen[i - 1], GroupLabeled(chosen[i - 1]))
      BY <1>1
    <3>2. chosen[i - 1] = g[i - 1] BY <2>2
    <3> HIDE DEF Next
    <3>3. chosen[i] = g[i] BY <1>7, <1>9, <3>1, <3>2
    <3> QED BY <1>1, <3>3
  <2> HIDE DEF T
  <2>3. \A i \in 0..n : i \in T BY <1>1, <2>1, <2>2, UpTo
  <2> QED BY <2>3 DEF T
<1>12. RoundsOf(labeled, g) BY <1>6, <1>7 DEF RoundsOf, n
<1> QED BY <1>4, <1>6, <1>10, <1>11, <1>12 DEF z, n, V

(* A set that lost one of finitely many elements is smaller.                *)
LEMMA Smaller ==
    ASSUME NEW T, NEW U \in SUBSET T, IsFiniteSet(T), NEW x \in T, x \notin U
    PROVE  Cardinality(U) < Cardinality(T) /\ Cardinality(U) \in Nat /\ Cardinality(T) \in Nat
<1>1. IsFiniteSet(U) /\ Cardinality(U) <= Cardinality(T) BY FS_Subset
<1>2. Cardinality(U) # Cardinality(T) BY FS_Subset
<1>3. Cardinality(U) \in Nat /\ Cardinality(T) \in Nat BY <1>1, FS_CardinalityType
<1> QED BY <1>1, <1>2, <1>3

(* A round leaves one turn less, or has nothing left to do; the rounds are  *)
(* enough, and nothing is left to absorb after them.                        *)
LEMMA RoundsEnd ==
    ASSUME NEW P, NEW R, NEW labeled \in Seq(Labels(P, R))
    PROVE  Absorbable(AntiFlicker(labeled), GroupLabeled(AntiFlicker(labeled))) = {}
<1> DEFINE n == Len(labeled)  z == LastRound(labeled)
           Left(m) == Absorbable(m, GroupLabeled(m))
           Count(m) == Len(GroupLabeled(m))
<1>1. PICK g \in [0..n -> Relabelled(labeled, P, R)] :
         RoundsOf(labeled, g) /\ z \in 0..n /\ AntiFlicker(labeled) = g[z]
  BY Rounds
<1>2. n \in Nat OBVIOUS
<1>3. \A m \in Relabelled(labeled, P, R) :
         m \in Seq(Labels(P, R)) /\ Count(m) \in Nat /\ Count(m) = Cardinality(Starts(m))
         /\ IsFiniteSet(Starts(m))
  BY GroupsCount DEF Relabelled
<1>4. \A m : Count(m) \in Nat /\ Count(m) <= 1 => Left(m) = {} BY DEF Absorbable
<1> DEFINE T == {i \in 0..n : Left(g[i]) = {} \/ Count(g[i]) + i <= Count(labeled)}
<1> HIDE DEF n, z
<1>5. 0 \in T
  <2>1. g[0] = labeled /\ labeled \in Relabelled(labeled, P, R) BY <1>1 DEF RoundsOf, Relabelled
  <2>2. Count(labeled) \in Nat BY <1>3, <2>1
  <2> HIDE DEF Count, Left
  <2> QED BY <1>2, <2>1, <2>2
<1>6. ASSUME NEW i \in 1..n, i - 1 \in T PROVE i \in T
  <2> DEFINE b == g[i - 1]  m == g[i]
  <2>1. /\ m = AbsorbIn(b, GroupLabeled(b))
        /\ b \in Relabelled(labeled, P, R) /\ m \in Relabelled(labeled, P, R)
    BY <1>1, <1>2 DEF RoundsOf, n
  <2>2. Left(b) = {} \/ Count(b) + (i - 1) <= Count(labeled) BY <1>6
  <2> HIDE DEF b, m
  <2>3. b \in Seq(Labels(P, R)) BY <1>3, <2>1
  <2>4. /\ m \in Relabelled(b, P, R)
        /\ Left(b) = {} => m = b
        /\ Left(b) # {} => \E j \in Starts(b) : j \notin Starts(m)
    BY <2>1, <2>3, AbsorbFacts
  <2>5. CASE Left(b) = {}
    <3>1. m = b BY <2>4, <2>5
    <3> QED BY <1>2, <2>5, <3>1 DEF m
  <2>6. CASE Left(b) # {}
    <3>1. PICK j \in Starts(b) : j \notin Starts(m) BY <2>4, <2>6
    <3>2. Starts(m) \in SUBSET Starts(b) BY <2>4 DEF Relabelled
    <3>3. Count(m) < Count(b) /\ Count(m) \in Nat /\ Count(b) \in Nat
      <4>1. IsFiniteSet(Starts(b)) BY <1>3, <2>1
      <4>2. Cardinality(Starts(m)) < Cardinality(Starts(b)) BY <3>1, <3>2, <4>1, Smaller
      <4> QED BY <1>3, <2>1, <4>2
    <3>4. Count(labeled) \in Nat BY GroupsCount
    <3> HIDE DEF Count, Left
    <3>5. Count(m) + i <= Count(labeled) BY <1>2, <2>2, <2>6, <3>3, <3>4
    <3> QED BY <1>2, <3>5 DEF m
  <2> QED BY <2>5, <2>6
<1> HIDE DEF T
<1>7. \A i \in 0..n : i \in T BY <1>2, <1>5, <1>6, UpTo
<1>8. Left(g[z]) = {} \/ Count(g[z]) + z <= Count(labeled) BY <1>1, <1>7 DEF T
<1>9. Count(g[z]) \in Nat /\ Count(labeled) \in Nat /\ z \in Nat
  <2>1. g[z] \in Relabelled(labeled, P, R) BY <1>1
  <2> QED BY <1>1, <1>2, <1>3, <2>1, GroupsCount
<1>10. Count(labeled) <= z + 1 BY <1>9 DEF LastRound, z
<1>11. Left(g[z]) = {}
  <2>1. CASE Count(g[z]) + z <= Count(labeled)
    <3>1. Count(g[z]) <= 1
      <4> HIDE DEF Count
      <4> QED BY <1>9, <1>10, <2>1
    <3> QED BY <1>4, <1>9, <3>1
  <2> QED BY <1>8, <2>1
<1> QED BY <1>1, <1>11

-----------------------------------------------------------------------------
(* Attribution.                                                             *)

(* The element a fold takes first.                                          *)
One(w) == CHOOSE x \in w : TRUE

(* sums[w] is the sum of the probabilities of speaker s over the frames w.  *)
SumsBy(diar, s, W, sums) ==
    \A w \in SUBSET W :
        sums[w] = IF w = {} THEN 0 ELSE diar[One(w) + 1][s] + sums[w \ {One(w)}]

(* A set without one of its elements.                                       *)
LEMMA Without ==
    ASSUME NEW W, IsFiniteSet(W), NEW w \in SUBSET W, w # {}
    PROVE  /\ One(w) \in w /\ One(w) \in W /\ w \ {One(w)} \in SUBSET W
           /\ Cardinality(w) \in Nat /\ Cardinality(w) > 0
           /\ Cardinality(w \ {One(w)}) = Cardinality(w) - 1
<1>1. One(w) \in w BY DEF One
<1>2. IsFiniteSet(w) BY FS_Subset
<1>3. Cardinality(w \ {One(w)}) = Cardinality(w) - 1 BY <1>1, <1>2, FS_RemoveElement
<1>4. Cardinality(w) \in Nat /\ Cardinality(w) # 0 BY <1>1, <1>2, FS_CardinalityType, FS_EmptySet
<1> QED BY <1>1, <1>3, <1>4

(* Such sums are determined.                                                *)
LEMMA SumsAgree ==
    ASSUME NEW diar, NEW more, NEW s, NEW W, IsFiniteSet(W),
           \A i \in W : more[i + 1] = diar[i + 1],
           NEW f, NEW g, SumsBy(diar, s, W, f), SumsBy(more, s, W, g)
    PROVE  f[W] = g[W]
<1> DEFINE n == Cardinality(W)
           T == {m \in 0..n : \A w \in SUBSET W : Cardinality(w) <= m => f[w] = g[w]}
<1>1. n \in Nat BY FS_CardinalityType
<1>2. ASSUME NEW w \in SUBSET W, Cardinality(w) <= 0 PROVE f[w] = g[w]
  <2>1. ASSUME w # {} PROVE FALSE
    <3>1. Cardinality(w) \in Nat /\ Cardinality(w) > 0 BY <2>1, Without
    <3> QED BY <1>2, <3>1
  <2>2. w = {} BY <2>1
  <2> QED BY <2>2 DEF SumsBy
<1>3. ASSUME NEW m \in 1..n, m - 1 \in T PROVE m \in T
  <2> SUFFICES ASSUME NEW w \in SUBSET W, Cardinality(w) <= m PROVE f[w] = g[w]
    OBVIOUS
  <2>1. CASE w = {} BY <2>1 DEF SumsBy
  <2>2. CASE w # {}
    <3> DEFINE u == w \ {One(w)}
    <3>1. /\ One(w) \in W /\ u \in SUBSET W /\ Cardinality(w) \in Nat
          /\ Cardinality(u) = Cardinality(w) - 1
      BY <2>2, Without
    <3>2. Cardinality(u) <= m - 1 BY <3>1
    <3>3. f[u] = g[u] BY <1>3, <3>1, <3>2
    <3>4. f[w] = diar[One(w) + 1][s] + f[u] /\ g[w] = more[One(w) + 1][s] + g[u]
      BY <2>2, Zenon DEF SumsBy
    <3> QED BY <3>1, <3>3, <3>4
  <2> QED BY <2>1, <2>2
<1>4. 0 \in T BY <1>1, <1>2
<1> HIDE DEF T, n
<1>5. \A m \in 0..n : m \in T BY <1>1, <1>3, <1>4, UpTo
<1>6. n \in T BY <1>1, <1>5
<1> QED BY <1>1, <1>6 DEF T, n

(* The sum of the fusion, over frames that all have a probability.          *)
SumOver(diar, s, W) == MapThenSumSet(LAMBDA i : diar[i + 1][s], W)
HasFrames(diar, s, W) == \A i \in W : diar[i + 1][s] \in Nat
HasSum(diar, s, W) ==
    \E sums \in [SUBSET W -> Nat] : SumsBy(diar, s, W, sums) /\ SumOver(diar, s, W) = sums[W]

(* A sum of naturals is one, and MapThenSumSet is such a sum.               *)
LEMMA SumFacts ==
    ASSUME NEW diar, NEW s, NEW W, IsFiniteSet(W), HasFrames(diar, s, W)
    PROVE  HasSum(diar, s, W)
<1> USE DEF HasFrames, HasSum
<1> DEFINE n == Cardinality(W)  V == [SUBSET W -> Nat]  zero == [w \in SUBSET W |-> 0]
           Sum(w, v) == IF w = {} THEN 0 ELSE diar[One(w) + 1][s] + v[w \ {One(w)}]
           Next(v) == [w \in SUBSET W |-> Sum(w, v)]
           step == [p \in (1..(n + 1)) \X V |-> Next(p[2])]
           iter == CHOOSE v : v = Next(v)
<1>1. n \in Nat /\ zero \in V BY FS_CardinalityType
<1>2. \A v \in V : Next(v) \in V
  <2> SUFFICES ASSUME NEW v \in V, NEW w \in SUBSET W PROVE Sum(w, v) \in Nat OBVIOUS
  <2>1. CASE w = {} BY <2>1
  <2>2. CASE w # {}
    <3>1. One(w) \in W /\ w \ {One(w)} \in SUBSET W BY <2>2, Without
    <3>2. diar[One(w) + 1][s] \in Nat /\ v[w \ {One(w)}] \in Nat BY <3>1
    <3> QED BY <2>2, <3>2
  <2> QED BY <2>1, <2>2
<1>3. IsStep(step, n + 1, V) /\ \A i \in 1..(n + 1), v \in V : step[<<i, v>>] = Next(v)
  <2> HIDE DEF n, V, Next
  <2> QED BY <1>2 DEF IsStep
<1>4. PICK g : Recurs(g, step, n + 1, V, zero)
  <2> HIDE DEF n, V, zero, step
  <2>1. n + 1 \in Nat BY <1>1
  <2> QED BY <1>1, <1>3, <2>1, Recursion
<1>5. g \in [0..(n + 1) -> V] /\ g[0] = zero BY <1>4 DEF Recurs
<1>6. \A i \in 1..(n + 1) : g[i - 1] \in V /\ g[i] = Next(g[i - 1])
  <2> SUFFICES ASSUME NEW i \in 1..(n + 1) PROVE g[i - 1] \in V /\ g[i] = Next(g[i - 1])
    OBVIOUS
  <2> HIDE DEF n, V, step, Next
  <2>1. g[i - 1] \in V BY <1>1, <1>5
  <2>2. g[i] = step[<<i, g[i - 1]>>] BY <1>4 DEF Recurs
  <2> QED BY <1>3, <2>1, <2>2
<1>7. \A i \in 1..(n + 1), w \in SUBSET W : g[i][w] = Sum(w, g[i - 1])
  <2> SUFFICES ASSUME NEW i \in 1..(n + 1), NEW w \in SUBSET W PROVE g[i][w] = Sum(w, g[i - 1])
    OBVIOUS
  <2>1. Next(g[i - 1])[w] = Sum(w, g[i - 1]) OBVIOUS
  <2> HIDE DEF n, Sum, Next
  <2> QED BY <1>6, <2>1
<1> DEFINE T == {i \in 0..n : \A w \in SUBSET W : Cardinality(w) <= i => g[i + 1][w] = g[i][w]}
<1>8. 0 \in T
  <2> SUFFICES ASSUME NEW w \in SUBSET W, Cardinality(w) <= 0 PROVE g[0 + 1][w] = g[0][w]
    BY <1>1
  <2>a. ASSUME w # {} PROVE FALSE
    <3>1. Cardinality(w) \in Nat /\ Cardinality(w) > 0 BY <2>a, Without
    <3> QED BY <3>1
  <2>1. w = {} BY <2>a
  <2>2. 1 \in 1..(n + 1) /\ 0 + 1 = 1 BY <1>1
  <2>3. g[1][w] = Sum(w, g[1 - 1]) BY <1>7, <2>2
  <2> QED BY <1>5, <2>1, <2>2, <2>3
<1>9. ASSUME NEW i \in 1..n, i - 1 \in T PROVE i \in T
  <2> SUFFICES ASSUME NEW w \in SUBSET W, Cardinality(w) <= i PROVE g[i + 1][w] = g[i][w]
    OBVIOUS
  <2>0. i \in 1..(n + 1) /\ i + 1 \in 1..(n + 1) /\ (i + 1) - 1 = i /\ (i - 1) + 1 = i BY <1>1
  <2>1. g[i + 1][w] = Sum(w, g[(i + 1) - 1]) /\ g[i][w] = Sum(w, g[i - 1])
    <3> HIDE DEF Sum, n
    <3> QED BY <1>7, <2>0
  <2>2. CASE w = {} BY <2>1, <2>2
  <2>3. CASE w # {}
    <3> DEFINE u == w \ {One(w)}
    <3>1. u \in SUBSET W /\ Cardinality(w) \in Nat /\ Cardinality(u) = Cardinality(w) - 1
      BY <2>3, Without
    <3>2. Cardinality(u) <= i - 1 BY <3>1
    <3>3. g[(i - 1) + 1][u] = g[i - 1][u] BY <1>9, <3>1, <3>2
    <3>4. g[i][u] = g[i - 1][u] BY <2>0, <3>3
    <3>5. Sum(w, g[i]) = Sum(w, g[i - 1]) BY <2>3, <3>4
    <3> HIDE DEF Sum
    <3> QED BY <2>0, <2>1, <3>5
  <2> QED BY <2>2, <2>3
<1> HIDE DEF T
<1>10. \A i \in 0..n : i \in T
  <2> HIDE DEF n
  <2> QED BY <1>1, <1>8, <1>9, UpTo
<1>11. SumsBy(diar, s, W, g[n]) /\ g[n] \in V
  <2>1. n \in T /\ n \in 0..(n + 1) /\ n + 1 \in 1..(n + 1) /\ (n + 1) - 1 = n
    <3> HIDE DEF n
    <3> QED BY <1>1, <1>10
  <2>2. ASSUME NEW w \in SUBSET W PROVE g[n][w] = Sum(w, g[n])
    <3>1. Cardinality(w) <= n BY FS_Subset
    <3>2. g[n + 1][w] = g[n][w] BY <2>1, <3>1 DEF T
    <3>3. g[n + 1][w] = Sum(w, g[(n + 1) - 1])
      <4> HIDE DEF Sum, n
      <4> QED BY <1>7, <2>1
    <3> HIDE DEF Sum, n
    <3> QED BY <2>1, <3>2, <3>3
  <2>3. g[n] \in V BY <1>5, <2>1
  <2> QED BY <2>2, <2>3 DEF SumsBy
<1> DEFINE r == g[n]
<1>12. r = Next(r)
  <2>1. r \in [SUBSET W -> Nat] /\ \A w \in SUBSET W : r[w] = Sum(w, r) BY <1>11 DEF SumsBy
  <2> HIDE DEF r, Sum
  <2> QED BY <2>1
<1> HIDE DEF r
<1>13. iter = Next(iter)
  <2> HIDE DEF Next
  <2> QED BY <1>12
<1>14. SumOver(diar, s, W) = iter[W]
  BY DEF SumOver, MapThenSumSet, MapThenFoldSet, One
<1> HIDE DEF iter
<1>15. SumsBy(diar, s, W, iter)
  <2> SUFFICES ASSUME NEW w \in SUBSET W PROVE iter[w] = Sum(w, iter) BY DEF SumsBy
  <2>1. Next(iter)[w] = Sum(w, iter) OBVIOUS
  <2> HIDE DEF Next, Sum
  <2> QED BY <1>13, <2>1
<1>16. SumsBy(diar, s, W, r) /\ r \in [SUBSET W -> Nat] BY <1>11 DEF r
<1>17. iter[W] = r[W] BY <1>15, <1>16, SumsAgree
<1> QED BY <1>14, <1>16, <1>17
-----------------------------------------------------------------------------
(* Who is heard at a frame.                                                 *)

(* What the diarizer has returned so far, frame by frame.                   *)
Heard == Seq([Speakers -> Nat])

(* Two numbers have a largest and a least one.                              *)
LEMMA OfTwo ==
    ASSUME NEW a \in Int, NEW b \in Int
    PROVE  /\ Max({a, b}) = IF a >= b THEN a ELSE b
           /\ Min({a, b}) = IF a <= b THEN a ELSE b
<1>1. \E x \in {a, b} : \A y \in {a, b} : x >= y OBVIOUS
<1>2. Max({a, b}) \in {a, b} /\ \A y \in {a, b} : Max({a, b}) >= y BY <1>1 DEF Max
<1>3. \E x \in {a, b} : \A y \in {a, b} : x <= y OBVIOUS
<1>4. Min({a, b}) \in {a, b} /\ \A y \in {a, b} : Min({a, b}) <= y BY <1>3 DEF Min
<1> QED BY <1>2, <1>4

(* The loudest speaker is one of the speakers.                              *)
LEMMA LoudestIsOne ==
    ASSUME NEW sum \in [Speakers -> Nat]
    PROVE  Loudest(sum) \in Speakers
<1> DEFINE Beats(t, s) == sum[t] > sum[s] \/ (sum[t] = sum[s] /\ t < s)
           Better(s) == {t \in Speakers : Beats(t, s)}
           Counts == {Cardinality(Better(s)) : s \in Speakers}
<1>1. IsFiniteSet(Speakers) /\ 0 \in Speakers /\ Speakers \subseteq Nat BY FusionAssumption
<1>2. \A s \in Speakers : IsFiniteSet(Better(s)) /\ Cardinality(Better(s)) \in Nat
  <2> SUFFICES ASSUME NEW s \in Speakers
               PROVE IsFiniteSet(Better(s)) /\ Cardinality(Better(s)) \in Nat
    OBVIOUS
  <2>1. Better(s) \subseteq Speakers OBVIOUS
  <2> HIDE DEF Better
  <2> QED BY <1>1, <2>1, FS_Subset, FS_CardinalityType
<1>3. PICK n \in Counts : \A m \in Counts : n <= m
  <2>1. Counts \in SUBSET Nat /\ Counts # {} BY <1>1, <1>2
  <2> HIDE DEF Counts
  <2> QED BY <2>1, LeastNumber
<1>4. PICK s \in Speakers : n = Cardinality(Better(s)) OBVIOUS
<1>5. \A t \in Speakers : ~Beats(t, s)
  <2> SUFFICES ASSUME NEW t \in Speakers, Beats(t, s) PROVE FALSE OBVIOUS
  <2>1. t \in Better(s) OBVIOUS
  <2>2. s \in Nat /\ t \in Nat BY <1>1
  <2>3. t \notin Better(t) BY <2>2
  <2>4. \A u \in Better(t) : u \in Better(s)
    <3> SUFFICES ASSUME NEW u \in Speakers, Beats(u, t) PROVE Beats(u, s) OBVIOUS
    <3>1. u \in Nat BY <1>1
    <3>2. sum[u] \in Nat /\ sum[t] \in Nat /\ sum[s] \in Nat OBVIOUS
    <3> QED BY <2>2, <3>1, <3>2
  <2>5. Cardinality(Better(t)) \in Counts OBVIOUS
  <2>6. Cardinality(Better(t)) < Cardinality(Better(s))
    <3> HIDE DEF Better
    <3> QED BY <1>2, <2>1, <2>3, <2>4, Smaller
  <2>7. n <= Cardinality(Better(t))
    <3> HIDE DEF Counts, Better
    <3> QED BY <1>3, <2>5
  <2> HIDE DEF Better
  <2> QED BY <1>2, <1>4, <2>6, <2>7
<1>6. \A t \in Speakers : sum[s] > sum[t] \/ (sum[s] = sum[t] /\ s <= t)
  <2> SUFFICES ASSUME NEW t \in Speakers
               PROVE sum[s] > sum[t] \/ (sum[s] = sum[t] /\ s <= t)
    OBVIOUS
  <2>1. s \in Nat /\ t \in Nat /\ sum[t] \in Nat /\ sum[s] \in Nat BY <1>1
  <2> QED BY <1>5, <2>1
<1> QED BY <1>6 DEF Loudest

(* The window of a frame, and what it is clipped to.                        *)
Clipped(diar, i) == Max({0, Min({i, Len(diar) - 1})})

(* A clipped place is the place itself, or the nearest that there is.       *)
LEMMA ClippedIs ==
    ASSUME NEW n \in Nat, NEW diar, Len(diar) = n, n > 0, NEW i \in Int
    PROVE  /\ Clipped(diar, i) \in 0..(n - 1)
           /\ Clipped(diar, i) = IF i < 0 THEN 0 ELSE IF i >= n THEN n - 1 ELSE i
<1>1. n - 1 \in Int OBVIOUS
<1>2. Min({i, n - 1}) = IF i <= n - 1 THEN i ELSE n - 1 BY <1>1, OfTwo
<1>3. Min({i, n - 1}) \in Int BY <1>2
<1>4. Clipped(diar, i) = IF 0 >= Min({i, n - 1}) THEN 0 ELSE Min({i, n - 1})
  BY <1>3, OfTwo DEF Clipped
<1> QED BY <1>2, <1>4

(* The speaker over a window of frames is one of the speakers, and the same *)
(* if another diarizer has heard the same in it.                            *)
LEMMA SpeakerOverIs ==
    ASSUME NEW diar \in Heard, NEW more \in Heard, NEW W, IsFiniteSet(W),
           \A i \in W : i + 1 \in 1..Len(diar) /\ i + 1 \in 1..Len(more)
                        /\ more[i + 1] = diar[i + 1],
           NEW previous \in Speakers
    PROVE  /\ SpeakerOver(diar, W, previous) \in Speakers
           /\ SpeakerOver(more, W, previous) = SpeakerOver(diar, W, previous)
<1> DEFINE sum == [s \in Speakers |-> SumOver(diar, s, W)]
           sumOfMore == [s \in Speakers |-> SumOver(more, s, W)]
<1>1. \A s \in Speakers : sum[s] \in Nat /\ sumOfMore[s] = sum[s]
  <2> SUFFICES ASSUME NEW s \in Speakers PROVE sum[s] \in Nat /\ sumOfMore[s] = sum[s]
    OBVIOUS
  <2>1. \A i \in W : diar[i + 1][s] \in Nat /\ more[i + 1][s] \in Nat
    <3> SUFFICES ASSUME NEW i \in W PROVE diar[i + 1][s] \in Nat /\ more[i + 1][s] \in Nat
      OBVIOUS
    <3>1. diar[i + 1] \in [Speakers -> Nat] /\ more[i + 1] \in [Speakers -> Nat] BY SMTT(30) DEF Heard
    <3> QED BY <3>1
  <2>a. HasFrames(diar, s, W) /\ HasFrames(more, s, W) BY <2>1 DEF HasFrames
  <2>b. HasSum(diar, s, W) /\ HasSum(more, s, W) BY <2>a, SumFacts
  <2>2. PICK f \in [SUBSET W -> Nat] :
            SumsBy(diar, s, W, f) /\ SumOver(diar, s, W) = f[W] BY <2>b DEF HasSum
  <2>3. PICK g \in [SUBSET W -> Nat] :
            SumsBy(more, s, W, g) /\ SumOver(more, s, W) = g[W] BY <2>b DEF HasSum
  <2>4. f[W] = g[W] BY <2>2, <2>3, SumsAgree
  <2>5. f[W] \in Nat OBVIOUS
  <2>6. sum[s] = f[W] BY <2>2
  <2>7. sumOfMore[s] = g[W] BY <2>3
  <2> QED BY <2>4, <2>5, <2>6, <2>7
<1>2. sum \in [Speakers -> Nat] /\ sumOfMore = sum
  <2>1. sum = [s \in Speakers |-> sum[s]] /\ sumOfMore = [s \in Speakers |-> sumOfMore[s]]
    OBVIOUS
  <2> HIDE DEF sum, sumOfMore
  <2> QED BY <1>1, <2>1
<1>3. Loudest(sum) \in Speakers
  <2> HIDE DEF sum
  <2> QED BY <1>2, LoudestIsOne
<1>4. SpeakerOver(diar, W, previous) =
        IF sum[Loudest(sum)] < Threshold * Cardinality(W) THEN previous ELSE Loudest(sum)
  BY DEF SpeakerOver, SumOver
<1>5. SpeakerOver(more, W, previous) =
        IF sumOfMore[Loudest(sumOfMore)] < Threshold * Cardinality(W)
        THEN previous ELSE Loudest(sumOfMore)
  BY DEF SpeakerOver, SumOver
<1> HIDE DEF sum, sumOfMore
<1> QED BY <1>2, <1>3, <1>4, <1>5

(* The speaker of a frame is one of the speakers, and stays it if the frame *)
(* is attributed again under it.                                            *)
LEMMA Attributed ==
    ASSUME NEW diar \in Heard, NEW frame \in Nat, NEW previous \in Speakers
    PROVE  /\ AttributeSpeaker(diar, frame, previous) \in Speakers
           /\ AttributeSpeaker(diar, frame, AttributeSpeaker(diar, frame, previous))
                = AttributeSpeaker(diar, frame, previous)
<1> DEFINE n == Len(diar)
           W == Clipped(diar, frame - SmoothFrames)..Clipped(diar, frame + SmoothFrames)
<1>1. n \in Nat /\ (n = 0 <=> diar = <<>>) BY DEF Heard
<1>2. \A s : AttributeSpeaker(diar, frame, s) = IF diar = <<>> THEN s ELSE SpeakerOver(diar, W, s)
  BY DEF AttributeSpeaker, Clipped
<1>3. CASE diar = <<>> BY <1>2, <1>3
<1>4. CASE diar # <<>>
  <2>1. SmoothFrames \in Nat BY FusionAssumption
  <2>2. Clipped(diar, frame - SmoothFrames) \in 0..(n - 1)
        /\ Clipped(diar, frame + SmoothFrames) \in 0..(n - 1)
    <3>1. frame - SmoothFrames \in Int /\ frame + SmoothFrames \in Int /\ n > 0
      BY <1>1, <1>4, <2>1
    <3> QED BY <1>1, <3>1, ClippedIs
  <2>3. IsFiniteSet(W) BY <2>2, FS_Interval
  <2>4. \A i \in W : i + 1 \in 1..n BY <1>1, <2>2
  <2> HIDE DEF W
  <2>5. SpeakerOver(diar, W, previous) \in Speakers BY <2>3, <2>4, SpeakerOverIs
  <2>6. SpeakerOver(diar, W, SpeakerOver(diar, W, previous)) = SpeakerOver(diar, W, previous)
    BY DEF SpeakerOver
  <2> QED BY <1>2, <1>4, <2>5, <2>6
<1> QED BY <1>3, <1>4

(* More frames change nothing for a frame whose window was all there.       *)
Continues(diar, more) ==
    Len(diar) <= Len(more) /\ \A i \in 1..Len(diar) : more[i] = diar[i]

(* A frame whose window has been heard is attributed for good.              *)
LEMMA AttributedForGood ==
    ASSUME NEW diar \in Heard, NEW more \in Heard, Continues(diar, more),
           NEW frame \in Nat, frame + SmoothFrames < Len(diar), NEW previous \in Speakers
    PROVE  AttributeSpeaker(more, frame, previous) = AttributeSpeaker(diar, frame, previous)
<1> DEFINE n == Len(diar)  m == Len(more)
           W == Clipped(diar, frame - SmoothFrames)..Clipped(diar, frame + SmoothFrames)
<1>0. SmoothFrames \in Nat BY FusionAssumption
<1>1. n \in Nat /\ m \in Nat /\ n > 0 /\ m > 0 /\ m >= n /\ diar # <<>> /\ more # <<>>
  BY <1>0 DEF Heard, Continues
<1>2. Clipped(more, frame - SmoothFrames) = Clipped(diar, frame - SmoothFrames)
      /\ Clipped(more, frame + SmoothFrames) = Clipped(diar, frame + SmoothFrames)
      /\ Clipped(diar, frame - SmoothFrames) \in 0..(n - 1)
      /\ Clipped(diar, frame + SmoothFrames) \in 0..(n - 1)
  <2>1. frame - SmoothFrames \in Int /\ frame + SmoothFrames \in Int BY <1>0
  <2>2. /\ Clipped(diar, frame - SmoothFrames) \in 0..(n - 1)
        /\ Clipped(diar, frame - SmoothFrames) =
             IF frame - SmoothFrames < 0 THEN 0
             ELSE IF frame - SmoothFrames >= n THEN n - 1 ELSE frame - SmoothFrames
    BY <1>1, <2>1, ClippedIs
  <2>3. /\ Clipped(diar, frame + SmoothFrames) \in 0..(n - 1)
        /\ Clipped(diar, frame + SmoothFrames) =
             IF frame + SmoothFrames < 0 THEN 0
             ELSE IF frame + SmoothFrames >= n THEN n - 1 ELSE frame + SmoothFrames
    BY <1>1, <2>1, ClippedIs
  <2>4. Clipped(more, frame - SmoothFrames) =
             IF frame - SmoothFrames < 0 THEN 0
             ELSE IF frame - SmoothFrames >= m THEN m - 1 ELSE frame - SmoothFrames
    BY <1>1, <2>1, ClippedIs
  <2>5. Clipped(more, frame + SmoothFrames) =
             IF frame + SmoothFrames < 0 THEN 0
             ELSE IF frame + SmoothFrames >= m THEN m - 1 ELSE frame + SmoothFrames
    BY <1>1, <2>1, ClippedIs
  <2> QED BY <1>0, <1>1, <2>2, <2>3, <2>4, <2>5
<1>3. AttributeSpeaker(diar, frame, previous) = SpeakerOver(diar, W, previous)
  BY <1>1 DEF AttributeSpeaker, Clipped
<1>4. AttributeSpeaker(more, frame, previous) =
        SpeakerOver(more, Clipped(more, frame - SmoothFrames)..Clipped(more, frame + SmoothFrames),
                    previous)
  BY <1>1 DEF AttributeSpeaker, Clipped
<1>5. IsFiniteSet(W) BY <1>2, FS_Interval
<1>6. \A i \in W : i + 1 \in 1..n /\ i + 1 \in 1..m /\ more[i + 1] = diar[i + 1]
  BY <1>1, <1>2 DEF Continues
<1>7. AttributeSpeaker(more, frame, previous) = SpeakerOver(more, W, previous)
  BY <1>2, <1>4
<1> HIDE DEF W
<1>8. SpeakerOver(more, W, previous) = SpeakerOver(diar, W, previous)
  BY <1>5, <1>6, SpeakerOverIs
<1> QED BY <1>3, <1>7, <1>8

-----------------------------------------------------------------------------
(* What is decided.                                                         *)

(* A set of places that has with each one all before it ends somewhere.     *)
LEMMA Downward ==
    ASSUME NEW n \in Nat, NEW P, \A i \in 1..n : \A j \in 1..i : i \in P => j \in P
    PROVE  \E d \in 0..n : \A i \in 1..n : i \in P <=> i <= d
<1> DEFINE T == {k \in 1..(n + 1) : k = n + 1 \/ k \notin P}
<1>1. PICK k \in T : \A m \in T : k <= m
  <2>1. n + 1 \in T /\ T \in SUBSET Nat OBVIOUS
  <2> HIDE DEF T
  <2> QED BY <2>1, LeastNumber
<1>2. k - 1 \in 0..n OBVIOUS
<1>3. ASSUME NEW i \in 1..n PROVE i \in P <=> i <= k - 1
  <2>1. CASE i <= k - 1
    <3>1. i \notin T BY <1>1, <2>1
    <3> QED BY <2>1, <3>1
  <2>2. CASE ~(i <= k - 1)
    <3>1. k \in 1..i /\ k # n + 1 BY <2>2
    <3>2. k \notin P BY <3>1
    <3> QED BY <2>2, <3>1, <3>2
  <2> QED BY <2>1, <2>2
<1> QED BY <1>2, <1>3

(* Tokens that follow each other in time.                                   *)
Timed == [id : Kinds, frame : Nat]
InOrder(tokens) ==
    \A i, j \in 1..Len(tokens) : i <= j => tokens[i].frame <= tokens[j].frame

(* The frame of a token is a number.                                        *)
LEMMA FrameOf ==
    ASSUME NEW tokens \in Seq(Timed), NEW i \in 1..Len(tokens)
    PROVE  tokens[i] \in Timed /\ tokens[i].frame \in Nat
<1>1. tokens[i] \in Timed OBVIOUS
<1> QED BY <1>1 DEF Timed

(* A fusion as the handle keeps it.                                         *)
Fused(f) ==
    f.tokens \in Seq(Timed) /\ InOrder(f.tokens) /\ f.diar \in Heard /\ f.flushed \in BOOLEAN

(* Up to which place the tokens are decided.                                *)
DecidedTo(f, d) == d \in 0..Len(f.tokens) /\ \A i \in 1..Len(f.tokens) : i \in Decided(f) <=> i <= d

(* The decided tokens are the first ones.                                   *)
LEMMA DecidedIs ==
    ASSUME NEW f, Fused(f)
    PROVE  \E d : DecidedTo(f, d)
<1> DEFINE n == Len(f.tokens)
<1>1. n \in Nat /\ DOMAIN f.tokens = 1..n /\ Len(f.diar) \in Nat /\ SmoothFrames \in Nat
  BY FusionAssumption DEF Fused, Heard
<1>2. ASSUME NEW i \in 1..n, NEW j \in 1..i, i \in Decided(f) PROVE j \in Decided(f)
  <2>1. j \in 1..n BY <1>1
  <2>2. f.tokens[j].frame <= f.tokens[i].frame BY <1>1, <2>1 DEF Fused, InOrder
  <2>3. f.tokens[i].frame \in Nat /\ f.tokens[j].frame \in Nat BY <2>1, FrameOf DEF Fused
  <2>4. IsDecidable(f, f.tokens[j].frame)
    <3>1. IsDecidable(f, f.tokens[i].frame) BY <1>2 DEF Decided
    <3> QED BY <1>1, <2>2, <2>3, <3>1, SMTT(30) DEF IsDecidable
  <2> QED BY <1>1, <2>1, <2>4 DEF Decided
<1> HIDE DEF n
<1>3. \E d \in 0..n : \A i \in 1..n : i \in Decided(f) <=> i <= d BY <1>1, <1>2, Downward
<1> QED BY <1>3 DEF DecidedTo, n

(* The speakers of the first d tokens, each attributed after the one before.*)
SpeakersOf(f, d, speaker) ==
    /\ speaker \in [0..d -> Speakers] /\ speaker[0] = 0
    /\ \A i \in 1..d :
          speaker[i] = AttributeSpeaker(f.diar, f.tokens[i].frame, speaker[i - 1])

(* Labeled takes the decided tokens, and what follows them is the tail.     *)
LEMMA LabeledIs ==
    ASSUME NEW f, Fused(f), NEW d, DecidedTo(f, d)
    PROVE  \E speaker :
              /\ SpeakersOf(f, d, speaker)
              /\ Labeled(f) = [i \in 1..d |-> [token |-> f.tokens[i], speaker |-> speaker[i]]]
<1> DEFINE decided == Selected(f.tokens, Decided(f))
           step == [p \in (1..d) \X Speakers |-> AttributeSpeaker(f.diar, decided[p[1]].frame, p[2])]
           Next(speaker) == [i \in 0..d |-> IF i = 0 THEN 0
                               ELSE AttributeSpeaker(f.diar, decided[i].frame, speaker[i - 1])]
           chosen == CHOOSE speaker : speaker = Next(speaker)
<1>1. f.tokens \in Seq(Timed) /\ Len(f.tokens) \in Nat /\ d \in 0..Len(f.tokens) /\ d \in Nat
      /\ f.diar \in Heard
  BY DEF Fused, DecidedTo
<1>2. decided = SubSeq(f.tokens, 1, d) BY <1>1, SelectedPart DEF DecidedTo
<1>3. Len(decided) = d /\ DOMAIN decided = 1..d /\ \A i \in 1..d : decided[i] = f.tokens[i]
  BY <1>1, <1>2
<1>4. \A i \in 1..d : f.tokens[i] \in Timed /\ decided[i].frame \in Nat
  <2> SUFFICES ASSUME NEW i \in 1..d PROVE f.tokens[i] \in Timed /\ decided[i].frame \in Nat
    OBVIOUS
  <2>1. i \in 1..Len(f.tokens) BY <1>1
  <2> QED BY <1>1, <1>3, <2>1, FrameOf
<1> HIDE DEF decided
<1>5. IsStep(step, d, Speakers)
  <2>1. \A p \in (1..d) \X Speakers : AttributeSpeaker(f.diar, decided[p[1]].frame, p[2]) \in Speakers
    BY <1>1, <1>4, Attributed
  <2> QED BY <2>1 DEF IsStep
<1>6. \A i \in 1..d, s \in Speakers : step[<<i, s>>] = AttributeSpeaker(f.diar, decided[i].frame, s)
  OBVIOUS
<1> HIDE DEF step
<1>7. PICK g : Recurs(g, step, d, Speakers, 0)
  <2>1. 0 \in Speakers BY FusionAssumption
  <2> QED BY <1>1, <1>5, <2>1, Recursion
<1>8. g \in [0..d -> Speakers] /\ g[0] = 0 BY <1>7 DEF Recurs
<1>9. \A i \in 1..d : g[i] = AttributeSpeaker(f.diar, decided[i].frame, g[i - 1])
  <2> SUFFICES ASSUME NEW i \in 1..d
               PROVE g[i] = AttributeSpeaker(f.diar, decided[i].frame, g[i - 1])
    OBVIOUS
  <2>1. g[i - 1] \in Speakers BY <1>1, <1>8
  <2>2. g[i] = step[<<i, g[i - 1]>>] BY <1>7 DEF Recurs
  <2> QED BY <1>6, <2>1, <2>2
<1>10. g = Next(g)
  <2>1. ASSUME NEW i \in 0..d PROVE g[i] = Next(g)[i]
    <3>1. CASE i = 0 BY <1>8, <3>1
    <3>2. CASE i # 0
      <4>1. i \in 1..d BY <1>1, <3>2
      <4> QED BY <1>9, <3>2, <4>1
    <3> QED BY <3>1, <3>2
  <2>2. Next(g) = [i \in 0..d |-> Next(g)[i]] OBVIOUS
  <2> HIDE DEF Next
  <2> QED BY <1>8, <2>1, <2>2
<1>11. chosen = Next(chosen)
  <2> HIDE DEF Next
  <2> QED BY <1>10
<1>12. Labeled(f) = [i \in 1..d |-> [token |-> decided[i], speaker |-> chosen[i]]]
  BY <1>3, Zenon DEF Labeled, decided
<1> HIDE DEF chosen
<1>13. \A i \in 0..d : chosen[i] = g[i]
  <2> DEFINE T == {i \in 0..d : chosen[i] = g[i]}
  <2>1. 0 \in T
    <3>1. Next(chosen)[0] = 0 BY <1>1
    <3> HIDE DEF Next
    <3>2. chosen[0] = g[0] BY <1>8, <1>11, <3>1
    <3> QED BY <1>1, <3>2
  <2>2. ASSUME NEW i \in 1..d, i - 1 \in T PROVE i \in T
    <3>1. Next(chosen)[i] = AttributeSpeaker(f.diar, decided[i].frame, chosen[i - 1])
      BY <1>1
    <3>2. chosen[i - 1] = g[i - 1] BY <2>2
    <3> HIDE DEF Next
    <3>3. chosen[i] = g[i] BY <1>9, <1>11, <3>1, <3>2
    <3> QED BY <1>1, <3>3
  <2> HIDE DEF T
  <2>3. \A i \in 0..d : i \in T BY <1>1, <2>1, <2>2, UpTo
  <2> QED BY <2>3 DEF T
<1>14. SpeakersOf(f, d, g) BY <1>3, <1>8, <1>9 DEF SpeakersOf
<1>15. Labeled(f) = [i \in 1..d |-> [token |-> f.tokens[i], speaker |-> g[i]]]
  BY <1>1, <1>3, <1>12, <1>13
<1> QED BY <1>14, <1>15

(* Its type, its tokens, and that a turn starts later than the one before   *)
(* it ended.                                                                *)
LEMMA LabeledFacts ==
    ASSUME NEW f, Fused(f), NEW d, DecidedTo(f, d)
    PROVE  /\ Labeled(f) \in Seq(Labels(Timed, Speakers)) /\ Len(Labeled(f)) = d
           /\ \A i \in 1..d : Labeled(f)[i].token = f.tokens[i]
           /\ \A i \in Starts(Labeled(f)) :
                 i > 1 => f.tokens[i - 1].frame < f.tokens[i].frame
<1>1. PICK speaker :
          /\ SpeakersOf(f, d, speaker)
          /\ Labeled(f) = [i \in 1..d |-> [token |-> f.tokens[i], speaker |-> speaker[i]]]
  BY LabeledIs
<1>2. f.tokens \in Seq(Timed) /\ Len(f.tokens) \in Nat /\ d \in 0..Len(f.tokens) /\ f.diar \in Heard
  BY DEF Fused, DecidedTo
<1>3. Labeled(f) \in Seq(Labels(Timed, Speakers)) /\ Len(Labeled(f)) = d
      /\ DOMAIN Labeled(f) = 1..d
  <2> DEFINE L == Labels(Timed, Speakers)
             l == [i \in 1..d |-> [token |-> f.tokens[i], speaker |-> speaker[i]]]
  <2>1. \A i \in 1..d : [token |-> f.tokens[i], speaker |-> speaker[i]] \in L
    BY <1>1, <1>2 DEF SpeakersOf, Labels
  <2> HIDE DEF L
  <2>2. l \in [1..d -> L] BY <2>1
  <2> HIDE DEF l
  <2>3. l \in Seq(L) /\ Len(l) = d /\ DOMAIN l = 1..d BY <1>2, <2>2
  <2> QED BY <1>1, <2>3 DEF l, L
<1>4. \A i \in 1..d : Labeled(f)[i].token = f.tokens[i] /\ Labeled(f)[i].speaker = speaker[i]
  BY <1>1
<1>5. ASSUME NEW i \in Starts(Labeled(f)), i > 1 PROVE f.tokens[i - 1].frame < f.tokens[i].frame
  <2>1. i \in 1..d /\ i - 1 \in 1..d BY <1>2, <1>3, <1>5 DEF Starts
  <2>2. speaker[i] # speaker[i - 1] BY <1>4, <1>5, <2>1 DEF Starts
  <2>3. f.tokens[i].frame \in Nat /\ f.tokens[i - 1].frame \in Nat
    <3>1. i \in 1..Len(f.tokens) /\ i - 1 \in 1..Len(f.tokens) BY <1>2, <2>1
    <3> QED BY <1>2, <3>1, FrameOf
  <2>4. f.tokens[i - 1].frame <= f.tokens[i].frame
    <3>1. i - 1 \in 1..Len(f.tokens) /\ i \in 1..Len(f.tokens) /\ i - 1 <= i BY <1>2, <2>1
    <3> QED BY <3>1 DEF Fused, InOrder
  <2>5. ASSUME f.tokens[i - 1].frame = f.tokens[i].frame PROVE FALSE
    <3> DEFINE frame == f.tokens[i].frame  s == speaker[(i - 1) - 1]
    <3>1. speaker[i - 1] = AttributeSpeaker(f.diar, frame, s) BY <1>1, <2>1, <2>5 DEF SpeakersOf
    <3>2. speaker[i] = AttributeSpeaker(f.diar, frame, speaker[i - 1])
      BY <1>1, <2>1 DEF SpeakersOf
    <3>3. s \in Speakers /\ frame \in Nat
      <4>1. (i - 1) - 1 \in 0..d BY <1>2, <2>1
      <4> QED BY <1>1, <2>3, <4>1 DEF SpeakersOf
    <3> HIDE DEF frame, s
    <3>4. speaker[i] = speaker[i - 1] BY <1>2, <3>1, <3>2, <3>3, Attributed
    <3> QED BY <2>2, <3>4
  <2> QED BY <2>3, <2>4, <2>5
<1> QED BY <1>3, <1>4, <1>5

-----------------------------------------------------------------------------
(* Segments before the punctuation moves.                                   *)

(* A time in milliseconds grows with the frame.                             *)
LEMMA Milliseconds ==
    ASSUME NEW a \in Nat, NEW b \in Nat
    PROVE  a * FrameMs \in Nat /\ (a <= b => a * FrameMs <= b * FrameMs)
           /\ (a < b => a * FrameMs < b * FrameMs)
<1>1. FrameMs \in Nat /\ FrameMs > 0 BY FusionAssumption
<1> DEFINE F == FrameMs
<1>2. F \in Nat /\ F > 0 BY <1>1
<1> HIDE DEF F
<1>3. a * F \in Nat /\ (a <= b => a * F <= b * F) /\ (a < b => a * F < b * F)
  BY <1>2
<1> QED BY <1>3 DEF F

(* A segment whose text is made of the tokens of S.                         *)
Segs(S) == [speaker : Speakers, start_ms : Nat, end_ms : Nat, text : Seq(S), final : BOOLEAN]

(* Tokens that are all known decode piece by piece.                         *)
LEMMA DecodablePart ==
    ASSUME NEW S, NEW tokens \in Seq(S), Decodable(tokens),
           NEW a \in Nat, NEW b \in Nat, 1 <= a, a <= b + 1, b <= Len(tokens)
    PROVE  Detokenize(SubSeq(tokens, a, b)) = Decode(SubSeq(tokens, a, b))
<1> DEFINE x == SubSeq(tokens, a, b)
<1>1. /\ x \in Seq(S) /\ Len(x) = b + 1 - a
      /\ \A i \in 1..(b + 1 - a) : x[i] = tokens[a + i - 1]
  BY Part
<1>2. DOMAIN x = 1..(b + 1 - a) /\ DOMAIN tokens = 1..Len(tokens) BY <1>1
<1> HIDE DEF x
<1>3. \A i \in 1..(b + 1 - a) : a + i - 1 \in 1..Len(tokens) OBVIOUS
<1>4. Decodable(x) BY <1>1, <1>2, <1>3 DEF Decodable
<1> QED BY <1>4 DEF Detokenize, x

(* What BuildSegment makes of the tokens from a to b.                       *)
LEMMA Built ==
    ASSUME NEW S \in SUBSET Timed, NEW tokens \in Seq(S), Decodable(tokens),
           NEW a \in Nat, NEW b \in Nat, 1 <= a, a <= b, b <= Len(tokens),
           NEW speaker \in Speakers, NEW final \in BOOLEAN,
           NEW seg, seg = BuildSegment(SubSeq(tokens, a, b), speaker, final)
    PROVE  /\ seg \in Segs(S) /\ seg.final = final /\ seg.speaker = speaker
           /\ seg.text = Decode(SubSeq(tokens, a, b))
           /\ seg.start_ms = tokens[a].frame * FrameMs
           /\ seg.end_ms = (tokens[b].frame + 1) * FrameMs
<1> DEFINE x == SubSeq(tokens, a, b)
<1>1. /\ x \in Seq(S) /\ Len(x) = b + 1 - a
      /\ \A i \in 1..(b + 1 - a) : x[i] = tokens[a + i - 1]
  BY Part
<1>2. Detokenize(x) = Decode(x) BY DecodablePart
<1>3. Decode(x) \in Seq(S) BY <1>1, DecodeType
<1>4. Head(x) = tokens[a] /\ Last(x) = tokens[b]
  <2>1. Head(x) = x[1] /\ Last(x) = x[b + 1 - a] BY <1>1 DEF Last
  <2>2. 1 \in 1..(b + 1 - a) /\ b + 1 - a \in 1..(b + 1 - a) /\ a + 1 - 1 = a
        /\ a + (b + 1 - a) - 1 = b
    OBVIOUS
  <2> HIDE DEF x
  <2> QED BY <1>1, <2>1, <2>2
<1>5. tokens[a].frame \in Nat /\ tokens[b].frame \in Nat
  <2>1. tokens[a] \in Timed /\ tokens[b] \in Timed OBVIOUS
  <2> QED BY <2>1 DEF Timed
<1> DEFINE from == tokens[a].frame * FrameMs  to == (tokens[b].frame + 1) * FrameMs
<1>6. from \in Nat /\ to \in Nat
  <2>1. tokens[b].frame + 1 \in Nat BY <1>5
  <2> QED BY <1>5, <2>1, Milliseconds
<1>7. seg = [speaker |-> speaker, start_ms |-> from, end_ms |-> to, text |-> Decode(x),
             final |-> final]
  BY <1>2, <1>4 DEF BuildSegment
<1> HIDE DEF x, from, to
<1>8. seg \in Segs(S) BY <1>3, <1>6, <1>7 DEF Segs
<1> QED BY <1>7, <1>8 DEF x, from, to

(* The segments spell the tokens up to place d, each from the end of the    *)
(* one before it to its own, and each starts in a later frame than the one  *)
(* before it ends in.                                                       *)
IsCut(segs, tokens, d, ends) ==
    /\ ends \in [0..Len(segs) -> 0..Len(tokens)]
    /\ ends[0] = 0 /\ ends[Len(segs)] = d
    /\ \A k \in 1..Len(segs) :
          /\ ends[k - 1] < ends[k]
          /\ segs[k].text = Decode(SubSeq(tokens, ends[k - 1] + 1, ends[k]))
          /\ segs[k].start_ms = tokens[ends[k - 1] + 1].frame * FrameMs
          /\ segs[k].end_ms = (tokens[ends[k]].frame + 1) * FrameMs
          /\ k > 1 => tokens[ends[k - 1]].frame < tokens[ends[k - 1] + 1].frame

(* Such segments spell the tokens.                                          *)
LEMMA CutSpells ==
    ASSUME NEW S, NEW tokens \in Seq(S), NEW segs \in Seq(Segs(S)), NEW ends,
           IsCut(segs, tokens, Len(tokens), ends)
    PROVE  FlattenSeq([n \in DOMAIN segs |-> segs[n].text]) = Decode(tokens)
<1> DEFINE n == Len(segs)  m == Len(tokens)  texts == [k \in DOMAIN segs |-> segs[k].text]
           flat == [k \in 0..n |-> Decode(SubSeq(tokens, 1, ends[k]))]
<1>1. n \in Nat /\ m \in Nat /\ DOMAIN segs = 1..n OBVIOUS
<1>2. ends \in [0..n -> 0..m] /\ ends[0] = 0 /\ ends[n] = m BY DEF IsCut
<1>3. texts \in Seq(Seq(S)) /\ Len(texts) = n /\ \A k \in 1..n : texts[k] = segs[k].text
  <2>1. \A k \in 1..n : segs[k].text \in Seq(S)
    <3> SUFFICES ASSUME NEW k \in 1..n PROVE segs[k].text \in Seq(S) OBVIOUS
    <3>1. segs[k] \in Segs(S) OBVIOUS
    <3> QED BY <3>1 DEF Segs
  <2>2. texts = [k \in 1..n |-> segs[k].text] BY <1>1
  <2> DEFINE Q == Seq(S)
  <2>3. \A k \in 1..n : segs[k].text \in Q BY <2>1
  <2> HIDE DEF Q, n, texts
  <2>4. texts \in [1..n -> Q] BY <2>2, <2>3
  <2>5. texts \in Seq(Q) /\ Len(texts) = n BY <1>1, <2>4
  <2> QED BY <2>2, <2>5 DEF Q
<1> HIDE DEF n, m, texts
<1>4. flat[0] = <<>>
  <2>1. SubSeq(tokens, 1, 0) = <<>> OBVIOUS
  <2> QED BY <1>1, <1>2, <2>1, DecodeEmpty
<1>5. ASSUME NEW k \in 1..n PROVE flat[k] = flat[k - 1] \o texts[k]
  <2> DEFINE a == ends[k - 1]  b == ends[k]
  <2>1. a \in 0..m /\ b \in 0..m /\ a < b /\ k - 1 \in 0..n /\ k \in 0..n
    <3>1. k - 1 \in 0..n /\ k \in 0..n BY <1>1
    <3> QED BY <1>2, <3>1 DEF IsCut, n
  <2>2. texts[k] = Decode(SubSeq(tokens, a + 1, b)) BY <1>3 DEF IsCut, n
  <2>3. flat[k] = Decode(SubSeq(tokens, 1, b)) /\ flat[k - 1] = Decode(SubSeq(tokens, 1, a))
    BY <2>1
  <2> HIDE DEF a, b, flat
  <2>4. SubSeq(tokens, 1, a) \o SubSeq(tokens, a + 1, b) = SubSeq(tokens, 1, b)
    <3>1. a \in Nat /\ b \in Nat /\ 1 <= a + 1 /\ a <= b /\ b <= Len(tokens)
      BY <1>1, <2>1 DEF m
    <3>2. Cat(SubSeq(tokens, 1, a), SubSeq(tokens, a + 1, b)) = SubSeq(tokens, 1, b)
      BY <3>1, PartsJoin
    <3> QED BY <3>2 DEF Cat
  <2>5. SubSeq(tokens, 1, a) \in Seq(S) /\ SubSeq(tokens, a + 1, b) \in Seq(S)
    <3>1. a \in Nat /\ b \in Nat /\ a + 1 \in Nat /\ 1 <= a + 1 /\ a + 1 <= b + 1
          /\ b <= Len(tokens) /\ a <= Len(tokens)
      BY <1>1, <2>1 DEF m
    <3>2. SubSeq(tokens, a + 1, b) \in Seq(S) BY <3>1, Part
    <3>3. SubSeq(tokens, 1, a) \in Seq(S) BY <3>1, Part
    <3> QED BY <3>2, <3>3
  <2>6. Decode(SubSeq(tokens, 1, a) \o SubSeq(tokens, a + 1, b))
          = Decode(SubSeq(tokens, 1, a)) \o Decode(SubSeq(tokens, a + 1, b))
    BY <2>5, DecodeJoins
  <2> QED BY <2>2, <2>3, <2>4, <2>6
<1>6. flat[n] = Decode(tokens)
  <2>1. n \in 0..n BY <1>1
  <2>2. SubSeq(tokens, 1, Len(tokens)) = tokens OBVIOUS
  <2> QED BY <1>2, <2>1, <2>2 DEF m
<1> HIDE DEF flat
<1>7. FlattenedBy(texts, flat) BY <1>3, <1>4, <1>5 DEF FlattenedBy
<1>8. FlattenSeq(texts) = flat[n] BY <1>3, <1>7, FlattenedIs
<1> QED BY <1>6, <1>8 DEF texts

(* Segments in time: each ends after its start, and before all later ones   *)
(* start.                                                                   *)
InTime(segs) ==
    \A k \in 1..Len(segs) :
       /\ segs[k].start_ms < segs[k].end_ms
       /\ \A j \in 1..(k - 1) : segs[j].end_ms <= segs[k].start_ms

(* The places a cut ends at grow.                                           *)
LEMMA EndsGrow ==
    ASSUME NEW n \in Nat, NEW ends \in [0..n -> Nat], \A k \in 1..n : ends[k - 1] < ends[k]
    PROVE  \A k \in 0..n : \A j \in 0..k : ends[j] <= ends[k]
<1> DEFINE T == {k \in 0..n : \A j \in 0..k : ends[j] <= ends[k]}
<1>1. 0 \in T OBVIOUS
<1>2. ASSUME NEW k \in 1..n, k - 1 \in T PROVE k \in T
  <2> SUFFICES ASSUME NEW j \in 0..k PROVE ends[j] <= ends[k] OBVIOUS
  <2>1. CASE j = k BY <2>1
  <2>2. CASE j # k
    <3>1. j \in 0..(k - 1) /\ j \in 0..n /\ k - 1 \in 0..n /\ k \in 0..n BY <2>2
    <3>2. ends[j] <= ends[k - 1] BY <1>2, <3>1
    <3>3. ends[k - 1] < ends[k] OBVIOUS
    <3>4. ends[j] \in Nat /\ ends[k - 1] \in Nat /\ ends[k] \in Nat BY <3>1
    <3> QED BY <3>2, <3>3, <3>4
  <2> QED BY <2>1, <2>2
<1> HIDE DEF T
<1>3. \A k \in 0..n : k \in T BY <1>1, <1>2, UpTo
<1> QED BY <1>3 DEF T

(* Cut segments are in time.                                                *)
LEMMA CutInTime ==
    ASSUME NEW tokens \in Seq(Timed), InOrder(tokens), NEW segs, Len(segs) \in Nat,
           NEW d, NEW ends, IsCut(segs, tokens, d, ends)
    PROVE  InTime(segs)
<1> DEFINE n == Len(segs)  m == Len(tokens)
<1>1. n \in Nat /\ m \in Nat OBVIOUS
<1>2. ends \in [0..n -> 0..m] /\ \A k \in 1..n : ends[k - 1] < ends[k] BY DEF IsCut
<1>3. \A k \in 0..n : \A j \in 0..k : ends[j] <= ends[k]
  <2>1. ends \in [0..n -> Nat] BY <1>1, <1>2
  <2> HIDE DEF n
  <2> QED BY <1>1, <1>2, <2>1, EndsGrow
<1> SUFFICES ASSUME NEW k \in 1..n
             PROVE  /\ segs[k].start_ms < segs[k].end_ms
                    /\ \A j \in 1..(k - 1) : segs[j].end_ms <= segs[k].start_ms
  BY DEF InTime
<1>4. /\ segs[k].start_ms = tokens[ends[k - 1] + 1].frame * FrameMs
      /\ segs[k].end_ms = (tokens[ends[k]].frame + 1) * FrameMs
  BY DEF IsCut
<1> DEFINE a == ends[k - 1]  b == ends[k]
<1>5. a \in 0..m /\ b \in 0..m /\ a < b
  <2>1. k - 1 \in 0..n /\ k \in 0..n BY <1>1
  <2> HIDE DEF n, m
  <2> QED BY <1>2, <2>1
<1>6. a + 1 \in 1..m /\ b \in 1..m /\ a + 1 <= b BY <1>1, <1>5
<1> HIDE DEF a, b
<1>7. tokens[a + 1].frame \in Nat /\ tokens[b].frame \in Nat
      /\ tokens[a + 1].frame <= tokens[b].frame
  BY <1>6, FrameOf DEF InOrder
<1>8. segs[k].start_ms < segs[k].end_ms
  <2> DEFINE x == tokens[a + 1].frame  y == tokens[b].frame + 1
  <2>1. x \in Nat /\ y \in Nat /\ x < y BY <1>7
  <2> HIDE DEF x, y
  <2>2. x * FrameMs < y * FrameMs BY <2>1, Milliseconds
  <2> QED BY <1>4, <2>2 DEF x, y, a, b
<1>9. ASSUME NEW j \in 1..(k - 1) PROVE segs[j].end_ms <= segs[k].start_ms
  <2> DEFINE c == ends[j]
  <2>1. j \in 1..n /\ j + 1 \in 1..n /\ j + 1 > 1 /\ (j + 1) - 1 = j /\ j \in 0..(k - 1)
        /\ j + 1 \in 0..k /\ k - 1 \in 0..n /\ j \in 0..n
    BY <1>1
  <2>2. segs[j].end_ms = (tokens[c].frame + 1) * FrameMs BY <2>1 DEF IsCut
  <2>3. tokens[c].frame < tokens[c + 1].frame
    <3>1. tokens[ends[(j + 1) - 1]].frame < tokens[ends[(j + 1) - 1] + 1].frame
      BY <2>1 DEF IsCut
    <3> QED BY <2>1, <3>1
  <2>4. c \in 0..m /\ c <= a /\ c > 0
    <3>1. c <= a BY <1>3, <2>1 DEF a
    <3>2. ends[j - 1] < ends[j] /\ j - 1 \in 0..n BY <1>1, <1>2, <2>1
    <3>3. ends[j - 1] \in 0..m /\ ends[j] \in 0..m
      <4> HIDE DEF n, m
      <4> QED BY <1>2, <2>1, <3>2
    <3> QED BY <3>1, <3>2, <3>3
  <2>5. c \in 1..m /\ c + 1 \in 1..m /\ c + 1 <= a + 1 BY <1>1, <1>5, <1>6, <2>4
  <2> HIDE DEF c
  <2>6. tokens[c].frame \in Nat /\ tokens[c + 1].frame \in Nat
        /\ tokens[c + 1].frame <= tokens[a + 1].frame
    BY <1>6, <2>5, FrameOf DEF InOrder
  <2> DEFINE x == tokens[c].frame + 1  y == tokens[a + 1].frame
  <2>7. x \in Nat /\ y \in Nat /\ x <= y
    <3> DEFINE p == tokens[c].frame  q == tokens[c + 1].frame
    <3>1. p \in Nat /\ q \in Nat /\ q <= y BY <2>6
    <3>2. y \in Nat BY <1>7
    <3>3. p < q BY <2>3
    <3>4. x = p + 1 OBVIOUS
    <3> HIDE DEF p, q, x, y
    <3> QED BY <3>1, <3>2, <3>3, <3>4
  <2> HIDE DEF x, y
  <2>8. x * FrameMs <= y * FrameMs BY <2>7, Milliseconds
  <2> QED BY <1>4, <2>2, <2>8 DEF x, y, a, c
<1> QED BY <1>8, <1>9

(* The turns that are shown: the tokens as they were decided, under labels  *)
(* that start no new turn.                                                  *)
LEMMA TurnsAre ==
    ASSUME NEW f, Fused(f), NEW d, DecidedTo(f, d)
    PROVE  LET turns == Turns(f)
           IN  /\ turns.labeled \in Seq(Labels(Timed, Speakers)) /\ Len(turns.labeled) = d
               /\ turns.labeled \in Relabelled(Labeled(f), Timed, Speakers)
               /\ \A i \in 1..d : turns.labeled[i].token = f.tokens[i]
               /\ turns.groups = GroupLabeled(turns.labeled)
               /\ AreGroups(turns.labeled, turns.groups)
               /\ turns.groups \in Seq(Groups(turns.labeled))
               /\ \A i \in Starts(turns.labeled) :
                     i > 1 => f.tokens[i - 1].frame < f.tokens[i].frame
<1> DEFINE raw == Labeled(f)  m == AntiFlicker(raw)  L == Labels(Timed, Speakers)
<1>1. /\ raw \in Seq(L) /\ Len(raw) = d
      /\ \A i \in 1..d : raw[i].token = f.tokens[i]
      /\ \A i \in Starts(raw) : i > 1 => f.tokens[i - 1].frame < f.tokens[i].frame
  BY LabeledFacts
<1>2. m \in Relabelled(raw, Timed, Speakers)
  <2> HIDE DEF raw
  <2>1. PICK rounds \in [0..Len(raw) -> Relabelled(raw, Timed, Speakers)] :
            LastRound(raw) \in 0..Len(raw) /\ AntiFlicker(raw) = rounds[LastRound(raw)]
    BY <1>1, Rounds
  <2> QED BY <2>1
<1>3. Turns(f).labeled = m /\ Turns(f).groups = GroupLabeled(m) BY DEF Turns, WithGroups
<1> HIDE DEF m, raw
<1>4. m \in Seq(L) /\ Len(m) = d /\ Starts(m) \subseteq Starts(raw)
      /\ \A i \in 1..d : m[i].token = f.tokens[i]
  BY <1>1, <1>2 DEF Relabelled
<1>5. AreGroups(m, GroupLabeled(m)) /\ GroupLabeled(m) \in Seq(Groups(m))
  <2> HIDE DEF L
  <2> QED BY <1>4, GroupFacts
<1> QED BY <1>1, <1>2, <1>3, <1>4, <1>5 DEF raw

(* The final segments spell the tokens that are decided.                    *)
LEMMA FinalsAreCut ==
    ASSUME NEW f, Fused(f), NEW S \in SUBSET Timed, f.tokens \in Seq(S), Decodable(f.tokens),
           NEW d, DecidedTo(f, d), NEW segs, segs = FinalSegments(Turns(f))
    PROVE  /\ segs \in Seq(Segs(S)) /\ \A k \in 1..Len(segs) : segs[k].final = TRUE
           /\ \E ends : IsCut(segs, f.tokens, d, ends)
<1> DEFINE t == f.tokens  n == Len(t)  turns == Turns(f)  m == turns.labeled
           groups == turns.groups  z == Len(groups)
           ends == [k \in 0..z |-> IF k = 0 THEN 0 ELSE groups[k].last]
<1>1. t \in Seq(S) /\ n \in Nat /\ d \in 0..n BY DEF DecidedTo
<1>2. /\ m \in Seq(Labels(Timed, Speakers)) /\ Len(m) = d
      /\ \A i \in 1..d : m[i].token = t[i]
      /\ AreGroups(m, groups) /\ groups \in Seq(Groups(m))
      /\ \A i \in Starts(m) : i > 1 => t[i - 1].frame < t[i].frame
  <2> HIDE DEF n, z, ends
  <2> QED BY TurnsAre
<1>3. z \in Nat /\ DOMAIN groups = 1..z BY <1>2
<1> HIDE DEF turns, ends, n
<1>4. segs = [k \in 1..z |-> BuildSegment(TokensOf(turns, groups[k]), groups[k].speaker, TRUE)]
  BY <1>3 DEF FinalSegments, turns
<1>5. ASSUME NEW k \in 1..z
      PROVE  /\ groups[k].first \in 1..d /\ groups[k].last \in 1..d
             /\ groups[k].first <= groups[k].last
             /\ groups[k].speaker \in Speakers
             /\ groups[k].first \in Starts(m)
             /\ groups[k].first = ends[k - 1] + 1 /\ groups[k].last = ends[k]
             /\ ends[k - 1] \in 0..d /\ ends[k - 1] < ends[k]
  <2>1. /\ groups[k].first \in 1..d /\ groups[k].last \in 1..d
        /\ groups[k].first <= groups[k].last /\ groups[k].first \in Starts(m)
        /\ groups[k].speaker = m[groups[k].first].speaker
    BY <1>2 DEF AreGroups, z
  <2>2. groups[k].speaker \in Speakers
    <3> DEFINE g == groups[k].first
    <3>1. m[g] \in Labels(Timed, Speakers) BY <1>2, <2>1
    <3> HIDE DEF m, g
    <3> QED BY <2>1, <3>1 DEF Labels, g
  <2>3. ends[k] = groups[k].last BY <1>3 DEF ends
  <2>4. CASE k = 1
    <3>1. ends[k - 1] = 0 BY <1>3, <2>4 DEF ends
    <3>2. groups[1].first = 1 BY <1>2, <1>3, <2>4 DEF AreGroups, z
    <3> QED BY <1>1, <2>1, <2>2, <2>3, <2>4, <3>1, <3>2
  <2>5. CASE k # 1
    <3>1. k - 1 \in 1..z /\ k - 1 # 0 /\ k - 1 < z /\ (k - 1) + 1 = k BY <1>3, <2>5
    <3>2. ends[k - 1] = groups[k - 1].last BY <3>1 DEF ends
    <3>3. groups[k].first = groups[k - 1].last + 1 /\ groups[k - 1].last \in 1..d
      BY <1>2, <3>1 DEF AreGroups, z
    <3> QED BY <1>1, <2>1, <2>2, <2>3, <3>2, <3>3
  <2> QED BY <2>4, <2>5
<1>6. ASSUME NEW k \in 1..z
      PROVE  TokensOf(turns, groups[k]) = SubSeq(t, groups[k].first, groups[k].last)
  <2> DEFINE a == groups[k].first  b == groups[k].last  N == b + 1 - a
             x == SubSeq(t, a, b)  y == TokensOf(turns, groups[k])
  <2>1. a \in 1..d /\ b \in 1..d /\ a <= b BY <1>5
  <2>2. y = [i \in 1..N |-> m[a + i - 1].token] BY DEF TokensOf
  <2> HIDE DEF a, b, m
  <2>3. x \in Seq(S) /\ Len(x) = N /\ \A i \in 1..N : x[i] = t[a + i - 1]
    <3>1. a \in Nat /\ b \in Nat /\ 1 <= a /\ a <= b + 1 /\ b <= Len(t) BY <1>1, <2>1 DEF n
    <3> QED BY <1>1, <3>1, Part
  <2>4. \A i \in 1..N : m[a + i - 1].token = t[a + i - 1] /\ t[a + i - 1] \in S
    <3> SUFFICES ASSUME NEW i \in 1..N
                 PROVE m[a + i - 1].token = t[a + i - 1] /\ t[a + i - 1] \in S
      OBVIOUS
    <3>1. a + i - 1 \in 1..d /\ a + i - 1 \in 1..n BY <1>1, <2>1
    <3>2. t[a + i - 1] \in S BY <1>1, <3>1 DEF n
    <3> QED BY <1>2, <3>1, <3>2
  <2>5. N \in Nat BY <1>1, <2>1
  <2> HIDE DEF x, y, t, N
  <2>6. y \in Seq(S) /\ Len(y) = N /\ \A i \in 1..N : y[i] = t[a + i - 1]
    <3>1. y \in [1..N -> S] BY <2>2, <2>4
    <3> QED BY <2>2, <2>4, <2>5, <3>1
  <2>7. x = y BY <2>3, <2>6, Same
  <2> QED BY <2>7 DEF x, y, a, b
<1>7. ASSUME NEW k \in 1..z
      PROVE  /\ segs[k] \in Segs(S) /\ segs[k].final = TRUE
             /\ segs[k].text = Decode(SubSeq(t, ends[k - 1] + 1, ends[k]))
             /\ segs[k].start_ms = t[ends[k - 1] + 1].frame * FrameMs
             /\ segs[k].end_ms = (t[ends[k]].frame + 1) * FrameMs
             /\ k > 1 => t[ends[k - 1]].frame < t[ends[k - 1] + 1].frame
  <2> DEFINE a == groups[k].first  b == groups[k].last
  <2>1. a = ends[k - 1] + 1 /\ b = ends[k] /\ a \in 1..d /\ b \in 1..d /\ a <= b
        /\ groups[k].speaker \in Speakers /\ a \in Starts(m) /\ ends[k - 1] \in 0..d
    BY <1>5
  <2>2. segs[k] = BuildSegment(SubSeq(t, a, b), groups[k].speaker, TRUE) BY <1>4, <1>6
  <2>3. a \in Nat /\ b \in Nat /\ 1 <= a /\ b <= Len(t) BY <1>1, <2>1 DEF n
  <2> DEFINE speaker == groups[k].speaker  seg == segs[k]  yes == TRUE
  <2>4. speaker \in Speakers /\ yes \in BOOLEAN /\ seg = BuildSegment(SubSeq(t, a, b), speaker, yes)
    BY <2>1, <2>2
  <2>5. k > 1 => t[a - 1].frame < t[a].frame
    <3>1. ASSUME k > 1 PROVE a > 1
      <4>1. k - 1 \in 1..z /\ k - 1 # 0 BY <1>3, <3>1
      <4>2. ends[k - 1] \in 1..d BY <1>5, <4>1
      <4> QED BY <2>1, <4>2
    <3> QED BY <1>2, <2>1, <3>1
  <2>6. a - 1 = ends[k - 1] BY <1>1, <2>1
  <2> HIDE DEF a, b, speaker, seg, t, yes
  <2>7. /\ seg \in Segs(S) /\ seg.final = yes
        /\ seg.text = Decode(SubSeq(t, a, b))
        /\ seg.start_ms = t[a].frame * FrameMs
        /\ seg.end_ms = (t[b].frame + 1) * FrameMs
    <3>1. Decodable(t) /\ t \in Seq(S) BY <1>1 DEF t
    <3>2. a <= b BY <2>1
    <3> QED BY <2>3, <2>4, <3>1, <3>2, Built
  <2> QED BY <2>1, <2>5, <2>6, <2>7 DEF seg, yes
<1> DEFINE Q == Segs(S)
<1>8. segs \in Seq(Q) /\ Len(segs) = z
  <2>1. \A k \in 1..z : segs[k] \in Q BY <1>7
  <2> HIDE DEF Q, z
  <2>2. segs \in [1..z -> Q] BY <1>4, <2>1
  <2> QED BY <1>3, <2>2
<1>9. ends \in [0..z -> 0..n] /\ ends[0] = 0 /\ ends[z] = d
  <2>1. ASSUME NEW k \in 0..z PROVE (IF k = 0 THEN 0 ELSE groups[k].last) \in 0..n
    <3>1. CASE k = 0 BY <1>1, <3>1
    <3>2. CASE k # 0
      <4>1. k \in 1..z BY <1>3, <3>2
      <4>2. groups[k].last \in 1..d BY <1>5, <4>1
      <4> QED BY <1>1, <3>2, <4>2
    <3> QED BY <3>1, <3>2
  <2>2. ends \in [0..z -> 0..n] BY <2>1 DEF ends
  <2>3. ends[0] = 0 BY <1>3 DEF ends
  <2>4. CASE z = 0
    <3>1. d = 0 BY <1>2, <2>4 DEF AreGroups, z
    <3> QED BY <2>2, <2>3, <2>4, <3>1
  <2>5. CASE z # 0
    <3>1. groups[z].last = d BY <1>2, <1>3, <2>5 DEF AreGroups, z
    <3>2. ends[z] = groups[z].last BY <1>3, <2>5 DEF ends
    <3> QED BY <2>2, <2>3, <3>1, <3>2
  <2> QED BY <2>4, <2>5
<1>10. IsCut(segs, t, d, ends) BY <1>5, <1>7, <1>8, <1>9 DEF IsCut, n
<1> QED BY <1>7, <1>8, <1>10

(* The final segments and the tail spell all tokens, and only the last of   *)
(* them may be tentative, none once the fusion is flushed.                  *)
CutsAll(f, S, segs) ==
    /\ segs \in Seq(Segs(S))
    /\ \A k \in 1..Len(segs) : k < Len(segs) \/ f.flushed => segs[k].final = TRUE
    /\ \E ends : IsCut(segs, f.tokens, Len(f.tokens), ends)

(* Finals and tail together cut all the tokens.                             *)
LEMMA AllIsCut ==
    ASSUME NEW f, Fused(f), NEW S \in SUBSET Timed, f.tokens \in Seq(S), Decodable(f.tokens),
           NEW finals, finals = FinalSegments(Turns(f)),
           NEW tail, tail = Selected(f.tokens, DOMAIN f.tokens \ Decided(f)),
           NEW segs, segs = finals \o TentativeSegment(finals, tail)
    PROVE  CutsAll(f, S, segs)
<1> USE DEF CutsAll
<1> DEFINE t == f.tokens  n == Len(t)  z == Len(finals)  Q == Segs(S)
<1>1. PICK d : DecidedTo(f, d) BY DecidedIs
<1>2. t \in Seq(S) /\ t \in Seq(Timed) /\ n \in Nat /\ d \in 0..n BY <1>1 DEF DecidedTo, Fused
<1>3. /\ finals \in Seq(Q) /\ (\A k \in 1..z : finals[k].final = TRUE)
      /\ \E ends : IsCut(finals, t, d, ends)
  BY <1>1, FinalsAreCut
<1>4. PICK ends : IsCut(finals, t, d, ends) BY <1>3
<1>5. tail = SubSeq(t, d + 1, n)
  <2>1. \A i \in 1..n : i \in DOMAIN t \ Decided(f) <=> i > d BY <1>1, <1>2 DEF DecidedTo
  <2>2. Selected(t, DOMAIN t \ Decided(f)) = SubSeq(t, d + 1, n)
    <3> DEFINE places == DOMAIN t \ Decided(f)
    <3> HIDE DEF places, t
    <3> QED BY <1>2, <2>1, SelectedRest DEF n, places
  <2> QED BY <2>2
<1> HIDE DEF n, t
<1>6. z \in Nat /\ ends \in [0..z -> 0..n] /\ ends[0] = 0 /\ ends[z] = d
  BY <1>3, <1>4 DEF IsCut, n
<1>7. CASE d = n
  <2>1. tail = <<>> BY <1>2, <1>5, <1>7
  <2>2. segs = finals
    <3>1. segs = finals \o <<>> BY <2>1 DEF TentativeSegment
    <3> HIDE DEF Q
    <3>2. finals \o <<>> = finals BY <1>3
    <3> QED BY <3>1, <3>2
  <2> QED BY <1>3, <1>4, <1>7, <2>2 DEF t, n
<1>8. CASE d < n
  <2> DEFINE speaker == IF finals = <<>> THEN 0 ELSE Last(finals).speaker
             no == FALSE  seg == BuildSegment(tail, speaker, no)  a == d + 1
             longer == [k \in 0..(z + 1) |-> IF k <= z THEN ends[k] ELSE n]
  <2>1. a \in Nat /\ 1 <= a /\ a <= n /\ n <= Len(t) BY <1>2, <1>8 DEF n
  <2>2. tail # <<>>
    <3>1. Len(tail) = n - d BY <1>2, <1>5, <1>8 DEF n
    <3> QED BY <1>2, <1>8, <3>1
  <2>3. speaker \in Speakers
    <3>1. CASE finals = <<>> BY <3>1, FusionAssumption
    <3>2. CASE finals # <<>>
      <4>1. z \in 1..z BY <1>3, <3>2
      <4>2. finals[z] \in Q BY <1>3, <4>1
      <4>3. finals[z].speaker \in Speakers BY <4>2 DEF Segs
      <4> QED BY <3>2, <4>3 DEF Last
    <3> QED BY <3>1, <3>2
  <2>4. segs = finals \o <<seg>> BY <2>2 DEF TentativeSegment
  <2> HIDE DEF speaker, no
  <2>5. no \in BOOLEAN BY DEF no
  <2>6. seg = BuildSegment(SubSeq(t, a, n), speaker, no) BY <1>5
  <2> HIDE DEF seg, a
  <2>7. /\ seg \in Segs(S) /\ seg.text = Decode(SubSeq(t, a, n))
        /\ seg.start_ms = t[a].frame * FrameMs
        /\ seg.end_ms = (t[n].frame + 1) * FrameMs
    <3>1. Decodable(t) BY DEF t
    <3> QED BY <1>2, <2>1, <2>3, <2>5, <2>6, <3>1, Built
  <2>8. segs \in Seq(Q) /\ Len(segs) = z + 1 /\ (\A k \in 1..z : segs[k] = finals[k])
        /\ segs[z + 1] = seg
    <3>1. finals \in Seq(Q) /\ seg \in Q BY <1>3, <2>7
    <3> HIDE DEF Q
    <3>2. finals \o <<seg>> = Append(finals, seg) BY <3>1, JoinedOne
    <3> DEFINE w == Append(finals, seg)
    <3>3. /\ w \in Seq(Q) /\ Len(w) = Len(finals) + 1 /\ w[Len(finals) + 1] = seg
          /\ \A i \in 1..Len(finals) : w[i] = finals[i]
      BY <3>1, Appended
    <3>4. segs = w BY <2>4, <3>2
    <3> HIDE DEF w
    <3> QED BY <3>3, <3>4
  <2>9. ~f.flushed /\ (d > 0 => t[d].frame < t[d + 1].frame)
    <3>1. d + 1 \in 1..n /\ d + 1 \notin Decided(f) BY <1>1, <1>2, <1>8 DEF DecidedTo, t, n
    <3>2. DOMAIN t = 1..n BY <1>2 DEF n
    <3>3. ~IsDecidable(f, t[d + 1].frame) BY <3>1, <3>2 DEF Decided, t
    <3>4. ASSUME d > 0 PROVE t[d].frame < t[d + 1].frame
      <4>1. d \in 1..n BY <1>2, <3>4
      <4>2. d \in Decided(f) BY <1>1, <4>1 DEF DecidedTo, t, n
      <4>3. IsDecidable(f, t[d].frame) BY <3>2, <4>2 DEF Decided, t
      <4>4. t[d].frame \in Nat /\ t[d + 1].frame \in Nat BY <1>2, <3>1, <4>1, FrameOf DEF n
      <4>5. SmoothFrames \in Nat /\ Len(f.diar) \in Nat BY FusionAssumption DEF Fused, Heard
      <4> QED BY <3>3, <4>3, <4>4, <4>5 DEF IsDecidable
    <3> QED BY <3>3, <3>4 DEF IsDecidable
  <2>10. longer \in [0..Len(segs) -> 0..n] /\ longer[0] = 0 /\ longer[Len(segs)] = n
         /\ (\A k \in 0..z : longer[k] = ends[k]) /\ longer[z + 1] = n
    <3>1. \A k \in 0..(z + 1) : (IF k <= z THEN ends[k] ELSE n) \in 0..n BY <1>2, <1>6, SMTT(30)
    <3>2. longer \in [0..(z + 1) -> 0..n] BY <3>1
    <3>3. 0 \in 0..z /\ 0 \in 0..(z + 1) /\ z + 1 \in 0..(z + 1) /\ ~(z + 1 <= z) BY <1>6
    <3>4. \A k \in 0..z : longer[k] = ends[k] BY <1>6
    <3> QED BY <1>6, <2>8, <3>2, <3>3, <3>4
  <2> HIDE DEF longer
  <2>11. ASSUME NEW k \in 1..Len(segs)
         PROVE  /\ longer[k - 1] < longer[k]
                /\ segs[k].text = Decode(SubSeq(t, longer[k - 1] + 1, longer[k]))
                /\ segs[k].start_ms = t[longer[k - 1] + 1].frame * FrameMs
                /\ segs[k].end_ms = (t[longer[k]].frame + 1) * FrameMs
                /\ k > 1 => t[longer[k - 1]].frame < t[longer[k - 1] + 1].frame
    <3>1. CASE k \in 1..z
      <4>1. longer[k - 1] = ends[k - 1] /\ longer[k] = ends[k] /\ segs[k] = finals[k]
        <5>1. k - 1 \in 0..z /\ k \in 0..z BY <1>6, <3>1
        <5> QED BY <2>8, <2>10, <3>1, <5>1
      <4> QED BY <1>4, <3>1, <4>1 DEF IsCut
    <3>2. CASE k \notin 1..z
      <4>1. k = z + 1 /\ k - 1 = z /\ z \in 0..z BY <1>6, <2>8, <3>2
      <4>2. longer[k - 1] = d /\ longer[k] = n /\ segs[k] = seg BY <1>6, <2>8, <2>10, <4>1
      <4>3. k > 1 => d > 0
        <5>1. ASSUME k > 1 PROVE d > 0
          <6>1. z \in 1..z /\ z - 1 \in 0..z BY <1>6, <4>1, <5>1
          <6>2. ends[z - 1] < ends[z] /\ ends[z - 1] \in 0..n BY <1>4, <1>6, <6>1 DEF IsCut
          <6> QED BY <1>2, <1>6, <6>2
        <5> QED BY <5>1
      <4> QED BY <1>2, <1>8, <2>7, <2>9, <4>2, <4>3 DEF a
    <3> QED BY <3>1, <3>2
  <2>12. IsCut(segs, t, n, longer) BY <2>10, <2>11 DEF IsCut, n
  <2>13. ASSUME NEW k \in 1..Len(segs), k < Len(segs) \/ f.flushed PROVE segs[k].final = TRUE
    <3>1. k \in 1..z BY <1>6, <2>8, <2>9, <2>13
    <3> QED BY <1>3, <2>8, <3>1
  <2> QED BY <2>8, <2>12, <2>13 DEF t, n
<1>9. d = n \/ d < n BY <1>2
<1> QED BY <1>7, <1>8, <1>9, Zenon

-----------------------------------------------------------------------------
(* The punctuation moves.                                                   *)

(* The largest number of a set that is bounded is one of it.                *)
LEMMA MaxUpTo ==
    ASSUME NEW n \in Nat, NEW T, T # {}, \A i \in T : i \in 0..n
    PROVE  Max(T) \in T
<1> DEFINE U == {k \in 0..n : n - k \in T}
<1>1. U # {}
  <2>1. PICK i \in T : i \in 0..n OBVIOUS
  <2>2. n - i \in 0..n /\ n - (n - i) = i BY <2>1
  <2>3. n - i \in U BY <2>1, <2>2
  <2> QED BY <2>3
<1>2. PICK k \in U : \A m \in U : k <= m
  <2>1. U \in SUBSET Nat OBVIOUS
  <2> HIDE DEF U
  <2> QED BY <1>1, <2>1, LeastNumber
<1>3. n - k \in T OBVIOUS
<1>4. ASSUME NEW i \in T PROVE n - k >= i
  <2>1. i \in 0..n /\ n - i \in 0..n /\ n - (n - i) = i /\ k \in 0..n OBVIOUS
  <2>2. n - i \in U BY <2>1
  <2>3. k <= n - i BY <1>2, <2>2
  <2> QED BY <2>1, <2>3
<1>5. \E x \in T : \A y \in T : x >= y BY <1>3, <1>4
<1> QED BY <1>5 DEF Max

(* The leading punctuation is a part of the text.                           *)
LEMMA LeadingIs ==
    ASSUME NEW S, NEW text \in Seq(S)
    PROVE  LeadingPunctuation(text) \in 0..Len(text)
<1> DEFINE T == {n \in 0..Len(text) : \A i \in 1..n : text[i].id = "punctuation"}
<1>1. Len(text) \in Nat /\ 0 \in T OBVIOUS
<1>2. \A i \in T : i \in 0..Len(text) OBVIOUS
<1>3. LeadingPunctuation(text) = Max(T) BY DEF LeadingPunctuation
<1> HIDE DEF T
<1>4. Max(T) \in T BY <1>1, <1>2, MaxUpTo
<1> QED BY <1>2, <1>3, <1>4

(* The names of ShiftBoundaryPunctuation, and what moves to a segment that  *)
(* stays: the heads of those up to the next that stays.                     *)
Moved(segs) ==
    [n \in DOMAIN segs |-> IF n = 1 THEN 0 ELSE LeadingPunctuation(segs[n].text)]
Stays(segs) == {n \in DOMAIN segs : n = 1 \/ Len(segs[n].text) > Moved(segs)[n]}
Kept(segs) == Selected([n \in DOMAIN segs |-> n], Stays(segs))
NextKept(segs, n) == IF n = Len(Kept(segs)) THEN Len(segs) ELSE Kept(segs)[n + 1]
Heads(segs, n) ==
    [k \in 1..(NextKept(segs, n) - Kept(segs)[n]) |->
       SubSeq(segs[Kept(segs)[n] + k].text, 1, Moved(segs)[Kept(segs)[n] + k])]

(* The shift of punctuation, segment by segment.                            *)
LEMMA ShiftIs ==
    ASSUME NEW segs
    PROVE  ShiftBoundaryPunctuation(segs) = JoinPunctuation(segs, Moved(segs), Kept(segs))
BY DEF ShiftBoundaryPunctuation, Moved, Stays, Kept

(* What moves of each segment.                                              *)
LEMMA MovedIs ==
    ASSUME NEW S, NEW segs \in Seq(Segs(S)), NEW n \in 1..Len(segs)
    PROVE  /\ segs[n] \in Segs(S) /\ segs[n].text \in Seq(S)
           /\ Moved(segs)[n] \in 0..Len(segs[n].text) /\ (n = 1 => Moved(segs)[n] = 0)
           /\ n \notin Stays(segs) => Moved(segs)[n] = Len(segs[n].text)
<1>1. segs[n] \in Segs(S) /\ n \in DOMAIN segs OBVIOUS
<1>2. segs[n].text \in Seq(S) BY <1>1 DEF Segs
<1> DEFINE text == segs[n].text  k == Moved(segs)[n]
<1>3. k = IF n = 1 THEN 0 ELSE LeadingPunctuation(text) BY <1>1 DEF Moved
<1>4. n \notin Stays(segs) => ~(Len(text) > k) BY <1>1 DEF Stays
<1>5. text \in Seq(S) BY <1>2
<1> HIDE DEF text, k
<1>6. Len(text) \in Nat /\ LeadingPunctuation(text) \in 0..Len(text) BY <1>5, LeadingIs
<1>7. k \in 0..Len(text) /\ (n = 1 => k = 0) BY <1>3, <1>6
<1>8. n \notin Stays(segs) => k = Len(text) BY <1>4, <1>6, <1>7
<1> QED BY <1>1, <1>5, <1>7, <1>8 DEF text, k

(* The segments that stay, in their order, the first of them among them.    *)
LEMMA KeptFacts ==
    ASSUME NEW S, NEW segs \in Seq(Segs(S))
    PROVE  /\ Ascends(Kept(segs), Stays(segs)) /\ Len(Kept(segs)) \in Nat
           /\ \A i \in 1..Len(Kept(segs)) : Kept(segs)[i] \in 1..Len(segs)
           /\ Len(segs) > 0 => Len(Kept(segs)) > 0 /\ Kept(segs)[1] = 1
           /\ Len(segs) = 0 => Len(Kept(segs)) = 0
<1> DEFINE n == Len(segs)  places == [i \in DOMAIN segs |-> i]  kept == Kept(segs)
           T == Stays(segs)
<1>1. n \in Nat /\ DOMAIN segs = 1..n OBVIOUS
<1>2. places \in Seq(Nat) /\ Len(places) = n /\ \A i \in 1..n : places[i] = i
  <2>1. places = [i \in 1..n |-> i] BY <1>1
  <2> HIDE DEF n, places
  <2> QED BY <1>1, <2>1
<1>3. \A i \in T : i \in 1..n BY <1>1 DEF Stays
<1>4. n > 0 => 1 \in T BY <1>1 DEF Stays
<1>5. kept = Selected(places, T) BY DEF Kept
<1> HIDE DEF n, places, T, kept
<1>6. Ascends(kept, T) BY <1>1, <1>2, <1>3, <1>5, Ascending
<1>7. kept \in Seq(T) /\ Len(kept) \in Nat BY <1>6 DEF Ascends
<1>8. \A i \in 1..Len(kept) : kept[i] \in T BY <1>7
<1>9. \A i \in 1..Len(kept) : kept[i] \in 1..n BY <1>3, <1>8
<1>10. ASSUME n > 0 PROVE Len(kept) > 0 /\ kept[1] = 1
  <2>1. PICK i \in 1..Len(kept) : kept[i] = 1 BY <1>4, <1>6, <1>10 DEF Ascends
  <2>2. Len(kept) > 0 /\ 1 \in 1..Len(kept) BY <1>7, <2>1
  <2>3. i = 1
    <3>1. ASSUME i # 1 PROVE FALSE
      <4>1. 1 < i BY <1>7, <3>1
      <4>2. kept[1] < kept[i] BY <1>6, <2>2, <4>1 DEF Ascends
      <4>3. kept[1] \in 1..n BY <1>9, <2>2
      <4> QED BY <1>1, <2>1, <4>2, <4>3
    <3> QED BY <3>1
  <2> QED BY <2>1, <2>2, <2>3
<1>11. ASSUME n = 0 PROVE Len(kept) = 0
  <2>1. ASSUME Len(kept) # 0 PROVE FALSE
    <3>1. 1 \in 1..Len(kept) BY <1>7, <2>1
    <3>2. kept[1] \in 1..n BY <1>9, <3>1
    <3> QED BY <1>11, <3>2
  <2> QED BY <2>1
<1> QED BY <1>6, <1>7, <1>9, <1>10, <1>11 DEF n, T, kept

(* No segment between one that stays and the next that does stays itself.   *)
LEMMA Between ==
    ASSUME NEW S, NEW segs \in Seq(Segs(S)), NEW n \in 1..Len(Kept(segs))
    PROVE  /\ Kept(segs)[n] \in 1..Len(segs) /\ NextKept(segs, n) \in 1..Len(segs)
           /\ Kept(segs)[n] <= NextKept(segs, n)
           /\ n < Len(Kept(segs)) => Kept(segs)[n] < NextKept(segs, n)
           /\ \A q \in (Kept(segs)[n] + 1)..NextKept(segs, n) :
                 q \in Stays(segs) => n < Len(Kept(segs)) /\ q = NextKept(segs, n)
<1> DEFINE kept == Kept(segs)  z == Len(kept)  T == Stays(segs)  next == NextKept(segs, n)
           p == kept[n]  last == Len(segs)
<1>1. /\ Ascends(kept, T) /\ z \in Nat /\ last \in Nat
      /\ \A i \in 1..z : kept[i] \in 1..last
  <2> QED BY KeptFacts
<1>2. p \in 1..last /\ n \in 1..z BY <1>1
<1>3. next = IF n = z THEN last ELSE kept[n + 1] BY DEF NextKept
<1> HIDE DEF kept, z, T, next, last
<1>4. n < z => n + 1 \in 1..z /\ p < kept[n + 1] /\ kept[n + 1] \in 1..last
  <2> SUFFICES ASSUME n < z PROVE n + 1 \in 1..z /\ p < kept[n + 1] /\ kept[n + 1] \in 1..last
    OBVIOUS
  <2>1. n + 1 \in 1..z /\ n < n + 1 BY <1>1, <1>2
  <2> QED BY <1>1, <1>2, <2>1 DEF Ascends, z
<1>5. next \in 1..last /\ p <= next /\ (n < z => p < next) BY <1>1, <1>2, <1>3, <1>4
<1>6. ASSUME NEW q \in (p + 1)..next, q \in T PROVE n < z /\ q = next
  <2>1. PICK i \in 1..z : kept[i] = q BY <1>1, <1>6 DEF Ascends, z
  <2>2. i > n
    <3>1. ASSUME i <= n PROVE FALSE
      <4>1. CASE i = n BY <1>1, <1>2, <1>6, <2>1, <4>1
      <4>2. CASE i < n
        <5>1. kept[i] < kept[n] BY <1>1, <1>2, <4>2 DEF Ascends, z
        <5>2. q \in Nat /\ p \in Nat BY <1>2, <1>5, <1>6
        <5> QED BY <1>6, <2>1, <5>1, <5>2
      <4> QED BY <1>1, <1>2, <3>1, <4>1, <4>2
    <3> QED BY <1>1, <1>2, <3>1
  <2>3. n < z BY <1>1, <1>2, <2>2
  <2>4. next = kept[n + 1] BY <1>1, <1>2, <1>3, <2>3
  <2>5. CASE i = n + 1 BY <2>1, <2>3, <2>4, <2>5
  <2>6. CASE i # n + 1
    <3>1. n + 1 < i BY <1>1, <1>2, <2>2, <2>6
    <3>2. next < q BY <1>1, <1>4, <2>1, <2>3, <2>4, <3>1 DEF Ascends, z
    <3> QED BY <1>5, <1>6, <3>2
  <2> QED BY <2>5, <2>6
<1> QED BY <1>2, <1>5, <1>6 DEF kept, z, T, next, last

(* The heads that move are texts.                                           *)
LEMMA HeadsAre ==
    ASSUME NEW S, NEW segs \in Seq(Segs(S)), NEW n \in 1..Len(Kept(segs))
    PROVE  /\ Heads(segs, n) \in Seq(Seq(S))
           /\ Len(Heads(segs, n)) = NextKept(segs, n) - Kept(segs)[n]
           /\ NextKept(segs, n) - Kept(segs)[n] \in Nat
           /\ \A k \in 1..Len(Heads(segs, n)) :
                 Heads(segs, n)[k] = SubSeq(segs[Kept(segs)[n] + k].text, 1,
                                            Moved(segs)[Kept(segs)[n] + k])
<1> DEFINE p == Kept(segs)[n]  next == NextKept(segs, n)  N == next - p  Q == Seq(S)
           Piece(k) == SubSeq(segs[p + k].text, 1, Moved(segs)[p + k])
<1>1. p \in 1..Len(segs) /\ next \in 1..Len(segs) /\ p <= next BY Between
<1>2. Len(segs) \in Nat OBVIOUS
<1>3. N \in Nat BY <1>1
<1>4. Heads(segs, n) = [k \in 1..N |-> Piece(k)] BY DEF Heads
<1>5. ASSUME NEW k \in 1..N PROVE Piece(k) \in Q
  <2> DEFINE q == p + k  text == segs[q].text  m == Moved(segs)[q]
  <2>1. q \in 1..Len(segs) BY <1>1, <1>2
  <2> HIDE DEF q, p, next
  <2>2. text \in Seq(S) /\ m \in 0..Len(text) BY <2>1, MovedIs
  <2> HIDE DEF text, m
  <2>3. SubSeq(text, 1, m) \in Seq(S)
    <3>1. m \in Nat /\ 1 <= m + 1 /\ m <= Len(text) /\ 1 \in Nat BY <2>2
    <3> QED BY <2>2, <3>1, Part
  <2> QED BY <2>3 DEF text, m, q
<1> HIDE DEF Piece, Q, N, p, next
<1>6. Heads(segs, n) \in [1..N -> Q] BY <1>4, <1>5
<1>7. Heads(segs, n) \in Seq(Q) /\ Len(Heads(segs, n)) = N BY <1>3, <1>6
<1>8. \A k \in 1..N : Heads(segs, n)[k] = Piece(k) BY <1>4
<1> QED BY <1>3, <1>7, <1>8 DEF Q, N, p, next, Piece

(* The text of a segment after the move.                                    *)
Rest(segs, n) ==
    SubSeq(segs[Kept(segs)[n]].text, Moved(segs)[Kept(segs)[n]] + 1, Len(segs[Kept(segs)[n]].text))

(* What stays of a text when its leading punctuation has moved.             *)
LEMMA RestIs ==
    ASSUME NEW S, NEW segs \in Seq(Segs(S)), NEW n \in 1..Len(Kept(segs))
    PROVE  /\ Rest(segs, n) \in Seq(S) /\ FlattenSeq(Heads(segs, n)) \in Seq(S)
           /\ Rest(segs, n) \o FlattenSeq(Heads(segs, n)) \in Seq(S)
<1> DEFINE p == Kept(segs)[n]  text == segs[p].text  m == Moved(segs)[p]  h == Heads(segs, n)
           r == SubSeq(text, m + 1, Len(text))
<1>1. p \in 1..Len(segs) BY Between
<1>2. Rest(segs, n) = r BY DEF Rest
<1> HIDE DEF p
<1>3. text \in Seq(S) /\ m \in 0..Len(text) BY <1>1, MovedIs
<1> HIDE DEF text, m
<1>4. r \in Seq(S)
  <2> DEFINE a == m + 1  b == Len(text)
  <2>1. a \in Nat /\ b \in Nat /\ 1 <= a /\ a <= b + 1 /\ b <= Len(text) BY <1>3
  <2> HIDE DEF a, b
  <2>2. SubSeq(text, a, b) \in Seq(S) BY <1>3, <2>1, Part
  <2> QED BY <2>2 DEF a, b
<1>5. h \in Seq(Seq(S)) BY HeadsAre
<1> HIDE DEF h
<1>6. PICK flat \in [0..Len(h) -> Seq(S)] : FlattenSeq(h) = flat[Len(h)] BY <1>5, Flattening
<1>7. FlattenSeq(h) \in Seq(S)
  <2>1. Len(h) \in 0..Len(h) BY <1>5
  <2> QED BY <1>6, <2>1
<1> HIDE DEF r
<1>8. r \o FlattenSeq(h) \in Seq(S) BY <1>4, <1>7
<1> QED BY <1>2, <1>4, <1>7, <1>8 DEF h

(* What the segments are after the move: those that stay, with the heads of *)
(* those up to the next.                                                    *)
Joins(segs, out) ==
    \A n \in 1..Len(out) :
       /\ Kept(segs)[n] \in 1..Len(segs)
       /\ out[n].start_ms = segs[Kept(segs)[n]].start_ms
       /\ out[n].end_ms = segs[Kept(segs)[n]].end_ms
       /\ out[n].final = segs[Kept(segs)[n]].final
       /\ out[n].text = Rest(segs, n) \o FlattenSeq(Heads(segs, n))

(* The kept segments have their type, time and new text.                    *)
LEMMA ShiftFacts ==
    ASSUME NEW S, NEW segs \in Seq(Segs(S)), NEW out, out = ShiftBoundaryPunctuation(segs)
    PROVE  /\ out \in Seq(Segs(S)) /\ Len(out) = Len(Kept(segs)) /\ Len(out) \in Nat
           /\ Joins(segs, out)
<1> DEFINE kept == Kept(segs)  z == Len(kept)  Q == Segs(S)
           Own(n) == segs[kept[n]]
           Text(n) == Rest(segs, n) \o FlattenSeq(Heads(segs, n))
           Seg(n) == [Own(n) EXCEPT !.text = Text(n)]
<1>1. z \in Nat /\ (\A n \in 1..z : kept[n] \in 1..Len(segs)) /\ DOMAIN kept = 1..z
  <2>1. Ascends(kept, Stays(segs)) /\ z \in Nat /\ \A n \in 1..z : kept[n] \in 1..Len(segs)
    BY KeptFacts
  <2> QED BY <2>1 DEF Ascends
<1>2. out = [n \in 1..z |-> Seg(n)]
  <2>1. out = JoinPunctuation(segs, Moved(segs), kept) BY ShiftIs
  <2>2. \A n \in 1..z : Seg(n) =
          LET next == IF n = Len(kept) THEN Len(segs) ELSE kept[n + 1]
              own  == segs[kept[n]]
          IN  [own EXCEPT !.text =
                 SubSeq(@, Moved(segs)[kept[n]] + 1, Len(@))
                   \o FlattenSeq([k \in 1..(next - kept[n]) |->
                        SubSeq(segs[kept[n] + k].text, 1, Moved(segs)[kept[n] + k])])]
    BY DEF Rest, Heads, NextKept
  <2> HIDE DEF Seg
  <2> QED BY <1>1, <2>1, <2>2 DEF JoinPunctuation
<1>3. ASSUME NEW n \in 1..z
      PROVE  /\ Seg(n) \in Q /\ Seg(n).start_ms = Own(n).start_ms
             /\ Seg(n).end_ms = Own(n).end_ms /\ Seg(n).final = Own(n).final
             /\ Seg(n).text = Text(n)
  <2> DEFINE own == Own(n)  text == Text(n)
  <2>1. own \in Segs(S) BY <1>1
  <2>2. text \in Seq(S) BY RestIs
  <2> HIDE DEF own, text
  <2>3. LET s == [own EXCEPT !.text = text]
        IN  /\ s \in Segs(S) /\ s.start_ms = own.start_ms /\ s.end_ms = own.end_ms
            /\ s.final = own.final /\ s.text = text
    BY <2>1, <2>2 DEF Segs
  <2> QED BY <2>3 DEF own, text
<1> HIDE DEF Seg, Q, z, Text
<1>4. out \in Seq(Q) /\ Len(out) = z
  <2>1. out \in [1..z -> Q] BY <1>2, <1>3
  <2> QED BY <1>1, <2>1
<1>5. \A n \in 1..z : out[n] = Seg(n) BY <1>2
<1>6. Joins(segs, out) BY <1>1, <1>3, <1>4, <1>5 DEF Joins, z, Text
<1> QED BY <1>1, <1>4, <1>6 DEF Q, z

(* The move keeps segments in time, and does not make a final one tentative.*)
LEMMA ShiftInTime ==
    ASSUME NEW S, NEW segs \in Seq(Segs(S)), InTime(segs),
           NEW out, out = ShiftBoundaryPunctuation(segs)
    PROVE  /\ InTime(out)
           /\ \A flushed \in BOOLEAN :
                 (\A k \in 1..Len(segs) : k < Len(segs) \/ flushed => segs[k].final = TRUE)
                    => \A k \in 1..Len(out) : k < Len(out) \/ flushed => out[k].final = TRUE
<1> DEFINE kept == Kept(segs)  z == Len(out)
<1>1. /\ z = Len(kept) /\ z \in Nat
      /\ \A n \in 1..z : /\ kept[n] \in 1..Len(segs)
                         /\ out[n].start_ms = segs[kept[n]].start_ms
                         /\ out[n].end_ms = segs[kept[n]].end_ms
                         /\ out[n].final = segs[kept[n]].final
  <2>1. z = Len(kept) /\ z \in Nat /\ Joins(segs, out) BY ShiftFacts
  <2> QED BY <2>1 DEF Joins
<1>2. \A i, j \in 1..z : i < j => kept[i] < kept[j]
  <2>1. Ascends(kept, Stays(segs)) BY KeptFacts
  <2> QED BY <1>1, <2>1 DEF Ascends
<1> HIDE DEF kept, z
<1>3. ASSUME NEW n \in 1..z
      PROVE  /\ out[n].start_ms < out[n].end_ms
             /\ \A j \in 1..(n - 1) : out[j].end_ms <= out[n].start_ms
  <2>1. out[n].start_ms < out[n].end_ms BY <1>1 DEF InTime
  <2>2. ASSUME NEW j \in 1..(n - 1) PROVE out[j].end_ms <= out[n].start_ms
    <3>1. j \in 1..z /\ j < n BY <1>1
    <3>2. kept[j] \in 1..(kept[n] - 1)
      <4>1. kept[j] < kept[n] /\ kept[j] \in 1..Len(segs) /\ kept[n] \in 1..Len(segs)
        BY <1>1, <1>2, <3>1
      <4> QED BY <4>1
    <3> QED BY <1>1, <3>1, <3>2 DEF InTime
  <2> QED BY <2>1, <2>2
<1>4. ASSUME NEW flushed \in BOOLEAN,
             \A k \in 1..Len(segs) : k < Len(segs) \/ flushed => segs[k].final = TRUE,
             NEW k \in 1..z, k < z \/ flushed
      PROVE  out[k].final = TRUE
  <2>1. kept[k] \in 1..Len(segs) /\ out[k].final = segs[kept[k]].final BY <1>1
  <2>2. CASE flushed BY <1>4, <2>1, <2>2
  <2>3. CASE k < z
    <3>1. z \in 1..z BY <1>1, <2>3
    <3>2. kept[k] < kept[z] /\ kept[z] \in 1..Len(segs) BY <1>1, <1>2, <2>3, <3>1
    <3>3. kept[k] < Len(segs)
      <4>1. Len(segs) \in Nat OBVIOUS
      <4> QED BY <2>1, <3>2, <4>1
    <3> QED BY <1>4, <2>1, <3>3
  <2> QED BY <1>4, <2>2, <2>3
<1>5. InTime(out) BY <1>3 DEF InTime, z
<1> QED BY <1>4, <1>5 DEF z

(* The texts of segments.                                                   *)
TextsOf(segs) == [n \in DOMAIN segs |-> segs[n].text]

(* The texts of segments, one by one.                                       *)
LEMMA TextsAre ==
    ASSUME NEW S, NEW segs \in Seq(Segs(S))
    PROVE  /\ TextsOf(segs) \in Seq(Seq(S)) /\ Len(TextsOf(segs)) = Len(segs)
           /\ Len(segs) \in Nat
           /\ \A k \in 1..Len(segs) : TextsOf(segs)[k] = segs[k].text
<1> DEFINE n == Len(segs)  Q == Seq(S)
<1>1. n \in Nat /\ DOMAIN segs = 1..n OBVIOUS
<1>2. \A k \in 1..n : segs[k].text \in Q
  <2> SUFFICES ASSUME NEW k \in 1..n PROVE segs[k].text \in Seq(S) OBVIOUS
  <2>1. segs[k] \in Segs(S) OBVIOUS
  <2> QED BY <2>1 DEF Segs
<1>3. TextsOf(segs) = [k \in 1..n |-> segs[k].text] BY <1>1 DEF TextsOf
<1> HIDE DEF n, Q
<1>4. TextsOf(segs) \in [1..n -> Q] BY <1>2, <1>3
<1>5. TextsOf(segs) \in Seq(Q) /\ Len(TextsOf(segs)) = n BY <1>1, <1>4
<1> QED BY <1>1, <1>3, <1>5 DEF n, Q

(* All texts before a segment, and its head.                                *)
ToHead(segs, flat, q) == flat[q - 1] \o SubSeq(segs[q].text, 1, Moved(segs)[q])

(* A segment that does not stay is all head; the rest of one that does      *)
(* completes its text.                                                      *)
LEMMA ToHeadIs ==
    ASSUME NEW S, NEW segs \in Seq(Segs(S)), NEW flat \in [0..Len(segs) -> Seq(S)],
           FlattenedBy(TextsOf(segs), flat), NEW q \in 1..Len(segs)
    PROVE  /\ ToHead(segs, flat, q) \in Seq(S) /\ flat[q] \in Seq(S) /\ flat[q - 1] \in Seq(S)
           /\ SubSeq(segs[q].text, 1, Moved(segs)[q]) \in Seq(S)
           /\ q \notin Stays(segs) => ToHead(segs, flat, q) = flat[q]
           /\ Cat(ToHead(segs, flat, q),
                  SubSeq(segs[q].text, Moved(segs)[q] + 1, Len(segs[q].text))) = flat[q]
           /\ q = 1 => ToHead(segs, flat, q) = <<>>
<1> DEFINE text == segs[q].text  m == Moved(segs)[q]  n == Len(text)  before == flat[q - 1]
           head == SubSeq(text, 1, m)  rest == SubSeq(text, m + 1, n)
<1>1. text \in Seq(S) /\ m \in 0..n /\ n \in Nat /\ (q = 1 => m = 0)
      /\ (q \notin Stays(segs) => m = n)
  BY MovedIs
<1>2. Len(segs) \in Nat /\ q - 1 \in 0..Len(segs) /\ q \in 0..Len(segs) OBVIOUS
<1>3. before \in Seq(S) /\ flat[q] \in Seq(S) BY <1>2
<1>4. flat[q] = before \o text
  <2>1. Len(TextsOf(segs)) = Len(segs) /\ TextsOf(segs)[q] = segs[q].text BY TextsAre
  <2> QED BY <2>1 DEF FlattenedBy
<1>5. (q = 1 => before = <<>>) BY DEF FlattenedBy
<1> HIDE DEF text, m, n, before
<1>6. head \in Seq(S) /\ rest \in Seq(S) /\ head \o rest = text /\ (m = n => head = text)
      /\ (m = 0 => head = <<>>)
  <2>1. m \in Nat /\ m + 1 \in Nat /\ 1 <= m + 1 /\ m <= n /\ n <= Len(text) /\ m <= Len(text)
        /\ n = Len(text) /\ m + 1 <= n + 1
    BY <1>1 DEF n
  <2>2. SubSeq(text, 1, n) = text BY <1>1, <2>1
  <2>3. head \in Seq(S) BY <1>1, <2>1, Part
  <2>4. rest \in Seq(S) BY <1>1, <2>1, Part
  <2>5. head \o rest = text
    <3>1. Cat(SubSeq(text, 1, m), SubSeq(text, m + 1, Len(text))) = text BY <1>1, CutJoins DEF n
    <3> QED BY <3>1 DEF Cat, n
  <2>6. SubSeq(text, 1, 0) = <<>> OBVIOUS
  <2> QED BY <2>2, <2>3, <2>4, <2>5, <2>6
<1>7. ToHead(segs, flat, q) = before \o head BY DEF ToHead, text, m, before
<1> HIDE DEF head, rest
<1>8. before \o head \in Seq(S) BY <1>3, <1>6
<1>9. (before \o head) \o rest = before \o (head \o rest)
  <2>1. Cat(Cat(before, head), rest) = Cat(before, Cat(head, rest)) BY <1>3, <1>6, Associates
  <2> QED BY <2>1 DEF Cat
<1>10. m = n => before \o head = flat[q] BY <1>4, <1>6
<1>11. q = 1 => before \o head = <<>> BY <1>1, <1>5, <1>6
<1>12. Cat(ToHead(segs, flat, q), rest) = flat[q] BY <1>4, <1>6, <1>7, <1>9 DEF Cat
<1> QED BY <1>1, <1>3, <1>6, <1>7, <1>8, <1>10, <1>11, <1>12 DEF text, m, n, before, head, rest

(* The heads that a segment takes complete the texts up to the next that    *)
(* stays.                                                                   *)
LEMMA HeadsSpell ==
    ASSUME NEW S, NEW segs \in Seq(Segs(S)), NEW flat \in [0..Len(segs) -> Seq(S)],
           FlattenedBy(TextsOf(segs), flat), NEW n \in 1..Len(Kept(segs))
    PROVE  flat[Kept(segs)[n]] \o FlattenSeq(Heads(segs, n)) =
             IF NextKept(segs, n) = Kept(segs)[n] THEN flat[Kept(segs)[n]]
             ELSE ToHead(segs, flat, NextKept(segs, n))
<1> DEFINE p == Kept(segs)[n]  next == NextKept(segs, n)  h == Heads(segs, n)  N == next - p
           L == Len(segs)
<1>1. /\ p \in 1..L /\ next \in 1..L /\ p <= next
      /\ \A q \in (p + 1)..next : q \in Stays(segs) => q = next
  <2>1. /\ p \in 1..L /\ next \in 1..L /\ p <= next
        /\ \A q \in (p + 1)..next : q \in Stays(segs) => n < Len(Kept(segs)) /\ q = next
    BY Between
  <2> HIDE DEF p, next, L
  <2> QED BY <2>1
<1>2. /\ h \in Seq(Seq(S)) /\ Len(h) = N /\ N \in Nat
      /\ \A k \in 1..Len(h) : h[k] = SubSeq(segs[p + k].text, 1, Moved(segs)[p + k])
  BY HeadsAre
<1>3. PICK inner \in [0..Len(h) -> Seq(S)] :
         FlattenedBy(h, inner) /\ FlattenSeq(h) = inner[Len(h)]
  <2> HIDE DEF h
  <2> QED BY <1>2, Flattening
<1>4. L \in Nat /\ p \in 0..L BY <1>1
<1> HIDE DEF p, next, h, L
<1>5. flat[p] \in Seq(S) /\ inner[0] = <<>> BY <1>3, <1>4 DEF FlattenedBy, L
<1> DEFINE T == {j \in 0..N : flat[p] \o inner[j] = IF j = 0 THEN flat[p]
                                                    ELSE ToHead(segs, flat, p + j)}
<1>6. 0 \in T
  <2>1. flat[p] \o <<>> = flat[p] BY <1>5
  <2> QED BY <1>2, <1>5, <2>1
<1>7. ASSUME NEW j \in 1..N, j - 1 \in T PROVE j \in T
  <2> DEFINE q == p + j  head == SubSeq(segs[q].text, 1, Moved(segs)[q])
  <2>1. q \in 1..L /\ q \in (p + 1)..next /\ j - 1 \in 0..N /\ j \in 0..N /\ j # 0
        /\ q - 1 = p + (j - 1)
    BY <1>1, <1>2, <1>4
  <2>2. inner[j] = inner[j - 1] \o head /\ inner[j - 1] \in Seq(S)
    BY <1>2, <1>3, <2>1 DEF FlattenedBy
  <2>3. flat[p] \o inner[j - 1] = flat[q - 1]
    <3>1. CASE j = 1
      <4>1. j - 1 = 0 /\ q - 1 = p BY <1>4, <3>1
      <4>2. flat[p] \o inner[j - 1] = flat[p] BY <1>7, <4>1
      <4> QED BY <4>1, <4>2
    <3>2. CASE j # 1
      <4> DEFINE r == p + (j - 1)
      <4>1. r \in 1..L /\ r \in (p + 1)..next /\ r # next /\ j - 1 # 0
        BY <1>1, <1>2, <1>4, <3>2
      <4>2. flat[p] \o inner[j - 1] = ToHead(segs, flat, r) BY <1>7, <4>1
      <4>3. r \notin Stays(segs) BY <1>1, <4>1
      <4> HIDE DEF r
      <4>4. ToHead(segs, flat, r) = flat[r] BY <4>1, <4>3, ToHeadIs DEF L
      <4> QED BY <2>1, <4>2, <4>4 DEF r
    <3> QED BY <3>1, <3>2
  <2> HIDE DEF q
  <2>4. head \in Seq(S) /\ ToHead(segs, flat, q) = flat[q - 1] \o head
    <3>1. head \in Seq(S) BY <2>1, ToHeadIs DEF L
    <3> QED BY <3>1 DEF ToHead
  <2> HIDE DEF head
  <2> DEFINE w == flat[p]  u == inner[j - 1]
  <2>5. w \in Seq(S) /\ u \in Seq(S) BY <1>5, <2>2
  <2> HIDE DEF w, u
  <2>6. (w \o u) \o head = w \o (u \o head)
    <3>1. Cat(Cat(w, u), head) = Cat(w, Cat(u, head)) BY <2>4, <2>5, Associates
    <3> QED BY <3>1 DEF Cat
  <2>7. flat[p] \o inner[j] = ToHead(segs, flat, q) BY <2>2, <2>3, <2>4, <2>6 DEF w, u
  <2> QED BY <2>1, <2>7 DEF q
<1> HIDE DEF T, N
<1>8. \A j \in 0..N : j \in T BY <1>2, <1>6, <1>7, UpTo
<1>9. N \in T BY <1>2, <1>8
<1>10. flat[p] \o inner[N] = IF N = 0 THEN flat[p] ELSE ToHead(segs, flat, p + N) BY <1>9 DEF T
<1>11. (N = 0 <=> next = p) /\ p + N = next BY <1>1, <1>4 DEF N
<1> QED BY <1>2, <1>3, <1>10, <1>11 DEF p, next, h

(* No token is lost, doubled or moved when the punctuation changes sides.   *)
LEMMA ShiftSpells ==
    ASSUME NEW S, NEW segs \in Seq(Segs(S)), NEW out, out = ShiftBoundaryPunctuation(segs)
    PROVE  FlattenSeq(TextsOf(out)) = FlattenSeq(TextsOf(segs))
<1> DEFINE L == Len(segs)  kept == Kept(segs)  z == Len(kept)
<1>1. PICK flat \in [0..L -> Seq(S)] :
         FlattenedBy(TextsOf(segs), flat) /\ FlattenSeq(TextsOf(segs)) = flat[L]
  <2>1. TextsOf(segs) \in Seq(Seq(S)) /\ Len(TextsOf(segs)) = L BY TextsAre
  <2>2. \E flat \in [0..Len(TextsOf(segs)) -> Seq(S)] :
           FlattenedBy(TextsOf(segs), flat) /\ FlattenSeq(TextsOf(segs)) = flat[Len(TextsOf(segs))]
    BY <2>1, Flattening
  <2> QED BY <2>1, <2>2
<1>2. /\ z \in Nat /\ (\A i \in 1..z : kept[i] \in 1..L)
      /\ (L > 0 => z > 0 /\ kept[1] = 1) /\ (L = 0 => z = 0)
  BY KeptFacts
<1>3. out \in Seq(Segs(S)) /\ Len(out) = z /\ Joins(segs, out) BY ShiftFacts
<1>4. TextsOf(out) \in Seq(Seq(S)) /\ Len(TextsOf(out)) = z
      /\ \A n \in 1..z : TextsOf(out)[n] = out[n].text
  <2> HIDE DEF z
  <2> QED BY <1>3, TextsAre
<1> DEFINE G == [n \in 0..z |-> IF n = z THEN flat[L] ELSE ToHead(segs, flat, kept[n + 1])]
<1>5. G[0] = <<>>
  <2>1. L \in Nat /\ 0 \in 0..z BY <1>2
  <2>2. CASE L = 0
    <3>1. G[0] = flat[0] BY <1>2, <2>1, <2>2
    <3> QED BY <1>1, <3>1 DEF FlattenedBy
  <2>3. CASE L # 0
    <3>1. 0 # z /\ kept[0 + 1] = 1 /\ 1 \in 1..L BY <1>2, <2>1, <2>3
    <3>2. G[0] = ToHead(segs, flat, 1) BY <2>1, <3>1
    <3> QED BY <1>1, <3>1, <3>2, ToHeadIs
  <2> QED BY <2>2, <2>3
<1>6. ASSUME NEW n \in 1..z PROVE G[n] = G[n - 1] \o TextsOf(out)[n]
  <2> DEFINE p == kept[n]  next == NextKept(segs, n)  heads == FlattenSeq(Heads(segs, n))
             rest == Rest(segs, n)  head == ToHead(segs, flat, p)
  <2>1. p \in 1..L /\ n - 1 \in 0..z /\ n \in 0..z /\ n - 1 # z /\ (n - 1) + 1 = n BY <1>2
  <2>2. G[n - 1] = head BY <2>1
  <2>3. TextsOf(out)[n] = rest \o heads BY <1>3, <1>4 DEF Joins
  <2>4. rest \in Seq(S) /\ heads \in Seq(S) BY RestIs
  <2>5. head \in Seq(S) /\ Cat(head, rest) = flat[p]
    <3>1. rest = SubSeq(segs[p].text, Moved(segs)[p] + 1, Len(segs[p].text)) BY DEF Rest
    <3> HIDE DEF p, rest
    <3> QED BY <1>1, <2>1, <3>1, ToHeadIs
  <2>6. flat[p] \o heads = IF next = p THEN flat[p] ELSE ToHead(segs, flat, next)
    BY <1>1, HeadsSpell
  <2>7. IF next = p THEN G[n] = flat[p] ELSE G[n] = ToHead(segs, flat, next)
    <3>1. /\ next \in 1..L /\ p <= next /\ (n < z => p < next)
          /\ \A q \in (p + 1)..next : q \in Stays(segs) => n < z /\ q = next
      BY Between
    <3>2. next = IF n = z THEN L ELSE kept[n + 1] BY DEF NextKept
    <3> HIDE DEF p, next, z, L, kept
    <3>3. CASE n = z
      <4>1. G[n] = flat[L] /\ next = L BY <2>1, <3>2, <3>3
      <4>2. ASSUME next # p PROVE ToHead(segs, flat, next) = flat[L]
        <5>1. next \in (p + 1)..next BY <2>1, <3>1, <4>2
        <5>2. next \notin Stays(segs) BY <1>2, <3>1, <3>3, <5>1
        <5> QED BY <1>1, <3>1, <4>1, <5>2, ToHeadIs DEF L
      <4> QED BY <4>1, <4>2
    <3>4. CASE n # z
      <4>1. n < z BY <1>2, <3>4
      <4>2. next = kept[n + 1] /\ next # p BY <2>1, <3>1, <3>2, <4>1
      <4>3. G[n] = ToHead(segs, flat, next) BY <2>1, <3>4, <4>2
      <4> QED BY <4>2, <4>3
    <3> QED BY <3>3, <3>4
  <2> HIDE DEF p, next, heads, rest, head, G
  <2>8. (head \o rest) \o heads = head \o (rest \o heads)
    <3>1. Cat(Cat(head, rest), heads) = Cat(head, Cat(rest, heads)) BY <2>4, <2>5, Associates
    <3> QED BY <3>1 DEF Cat
  <2> QED BY <2>2, <2>3, <2>5, <2>6, <2>7, <2>8 DEF Cat
<1>7. G[z] = flat[L] BY <1>2
<1> HIDE DEF G, z, L, kept
<1>8. FlattenedBy(TextsOf(out), G) BY <1>4, <1>5, <1>6 DEF FlattenedBy
<1>9. FlattenSeq(TextsOf(out)) = G[z] BY <1>4, <1>8, FlattenedIs
<1> QED BY <1>1, <1>7, <1>9

-----------------------------------------------------------------------------
(* What the fusion promises.                                                *)

(* The segments spell the tokens, follow each other in time, and only the   *)
(* last of them may be tentative, none once the fusion is flushed.          *)
LEMMA SegmentsFacts ==
    ASSUME NEW f, Fused(f), NEW S \in SUBSET Timed, f.tokens \in Seq(S), Decodable(f.tokens),
           NEW segs, segs = Segments(f)
    PROVE  /\ segs \in Seq(Segs(S)) /\ InTime(segs)
           /\ FlattenSeq(TextsOf(segs)) = Decode(f.tokens)
           /\ \A k \in 1..Len(segs) : k < Len(segs) \/ f.flushed => segs[k].final = TRUE
<1>1. PICK finals : finals = FinalSegments(Turns(f)) OBVIOUS
<1>2. PICK tail : tail = Selected(f.tokens, DOMAIN f.tokens \ Decided(f)) OBVIOUS
<1>3. PICK raw : raw = finals \o TentativeSegment(finals, tail) OBVIOUS
<1>4. /\ raw \in Seq(Segs(S))
      /\ \A k \in 1..Len(raw) : k < Len(raw) \/ f.flushed => raw[k].final = TRUE
      /\ \E ends : IsCut(raw, f.tokens, Len(f.tokens), ends)
  <2>1. CutsAll(f, S, raw) BY <1>1, <1>2, <1>3, AllIsCut
  <2> QED BY <2>1 DEF CutsAll
<1>5. segs = ShiftBoundaryPunctuation(raw) BY <1>1, <1>2, <1>3 DEF Segments, WithTail
<1>6. PICK ends : IsCut(raw, f.tokens, Len(f.tokens), ends) BY <1>4
<1>7. InTime(raw)
  <2>1. f.tokens \in Seq(Timed) /\ InOrder(f.tokens) /\ Len(raw) \in Nat BY <1>4 DEF Fused
  <2> QED BY <1>6, <2>1, CutInTime
<1>8. FlattenSeq(TextsOf(raw)) = Decode(f.tokens) BY <1>4, <1>6, CutSpells DEF TextsOf
<1>9. segs \in Seq(Segs(S)) BY <1>4, <1>5, ShiftFacts
<1>10. FlattenSeq(TextsOf(segs)) = FlattenSeq(TextsOf(raw)) BY <1>4, <1>5, ShiftSpells
<1>11. /\ InTime(segs)
       /\ \A flushed \in BOOLEAN :
             (\A k \in 1..Len(raw) : k < Len(raw) \/ flushed => raw[k].final = TRUE)
                => \A k \in 1..Len(segs) : k < Len(segs) \/ flushed => segs[k].final = TRUE
  BY <1>4, <1>5, <1>7, ShiftInTime
<1>12. f.flushed \in BOOLEAN BY DEF Fused
<1>13. \A k \in 1..Len(segs) : k < Len(segs) \/ f.flushed => segs[k].final = TRUE
  BY <1>4, <1>11, <1>12
<1> QED BY <1>8, <1>9, <1>10, <1>11, <1>13

(* A short turn is only shown where the one that would absorb it is short.  *)
LEMMA ShortTurns ==
    ASSUME NEW f, Fused(f), NEW turns, turns = Turns(f)
    PROVE  \A n \in DOMAIN turns.groups :
              Len(turns.groups) > 1 /\ IsShort(turns.labeled, turns.groups[n])
                 => IsShort(turns.labeled, turns.groups[Target(n)])
<1>1. PICK d : DecidedTo(f, d) BY DecidedIs
<1>2. Labeled(f) \in Seq(Labels(Timed, Speakers)) BY <1>1, LabeledFacts
<1>3. PICK m : m = AntiFlicker(Labeled(f)) OBVIOUS
<1>4. Absorbable(m, GroupLabeled(m)) = {} BY <1>2, <1>3, RoundsEnd
<1>5. turns.labeled = m /\ turns.groups = GroupLabeled(m) BY <1>3 DEF Turns, WithGroups
<1> QED BY <1>4, <1>5 DEF Absorbable

(* The tokens before a time are the first ones.                             *)
LEMMA BeforeIs ==
    ASSUME NEW tokens \in Seq(Timed), InOrder(tokens), NEW cutoff \in Nat
    PROVE  \E d \in 0..Len(tokens) : Before(tokens, cutoff) = SubSeq(tokens, 1, d)
<1> DEFINE n == Len(tokens)
           P == {i \in DOMAIN tokens : tokens[i].frame * FrameMs < cutoff}
<1>1. n \in Nat /\ DOMAIN tokens = 1..n OBVIOUS
<1>2. ASSUME NEW i \in 1..n, NEW j \in 1..i, i \in P PROVE j \in P
  <2>1. j \in 1..n /\ j <= i BY <1>1
  <2> DEFINE a == tokens[j].frame  b == tokens[i].frame
  <2>2. a \in Nat /\ b \in Nat BY <2>1, FrameOf
  <2>3. a <= b BY <2>1 DEF InOrder
  <2>4. b * FrameMs < cutoff BY <1>2
  <2> HIDE DEF a, b
  <2>5. a * FrameMs \in Nat /\ b * FrameMs \in Nat /\ a * FrameMs <= b * FrameMs
    BY <2>2, <2>3, Milliseconds
  <2>6. a * FrameMs < cutoff
    <3> DEFINE x == a * FrameMs  y == b * FrameMs
    <3>1. x \in Nat /\ y \in Nat /\ x <= y /\ y < cutoff BY <2>4, <2>5
    <3> HIDE DEF x, y
    <3>2. x < cutoff BY <3>1
    <3> QED BY <3>2 DEF x
  <2> QED BY <1>1, <2>1, <2>6 DEF a
<1>3. Before(tokens, cutoff) = Selected(tokens, P) BY DEF Before
<1> HIDE DEF n, P
<1>4. PICK d \in 0..n : \A i \in 1..n : i \in P <=> i <= d BY <1>1, <1>2, Downward
<1>5. Selected(tokens, P) = SubSeq(tokens, 1, d) BY <1>4, SelectedPart DEF n
<1> QED BY <1>3, <1>5 DEF n

(* The first tokens are as well ordered, known and typed as all of them.    *)
LEMMA FirstTokens ==
    ASSUME NEW S \in SUBSET Timed, NEW tokens \in Seq(S), NEW d \in 0..Len(tokens),
           NEW first, first = SubSeq(tokens, 1, d)
    PROVE  /\ first \in Seq(S) /\ Len(first) = d /\ \A i \in 1..d : first[i] = tokens[i]
           /\ InOrder(tokens) => InOrder(first)
           /\ Decodable(tokens) => Decodable(first)
<1>1. d \in Nat /\ 1 <= d + 1 /\ d <= Len(tokens) /\ 1 \in Nat /\ Len(tokens) \in Nat OBVIOUS
<1>2. /\ first \in Seq(S) /\ Len(first) = d + 1 - 1
      /\ \A i \in 1..(d + 1 - 1) : first[i] = tokens[1 + i - 1]
  BY <1>1, Part
<1>3. d + 1 - 1 = d /\ \A i \in 1..d : 1 + i - 1 = i /\ i \in 1..Len(tokens) BY <1>1
<1>4. Len(first) = d /\ \A i \in 1..d : first[i] = tokens[i] BY <1>2, <1>3
<1>5. DOMAIN first = 1..d /\ DOMAIN tokens = 1..Len(tokens) BY <1>2, <1>4
<1>6. InOrder(tokens) => InOrder(first) BY <1>3, <1>4 DEF InOrder
<1>7. Decodable(tokens) => Decodable(first) BY <1>3, <1>4, <1>5 DEF Decodable
<1> QED BY <1>2, <1>4, <1>6, <1>7

(* Later tokens can be added.                                               *)
LEMMA LaterTokens ==
    ASSUME NEW tokens \in Seq(Timed), InOrder(tokens), NEW more \in Seq(Timed), InOrder(more),
           NEW clock \in Nat, \A i \in 1..Len(tokens) : tokens[i].frame < clock,
           \A i \in 1..Len(more) : more[i].frame >= clock
    PROVE  InOrder(tokens \o more)
<1> DEFINE all == tokens \o more  n == Len(tokens)  m == Len(more)
<1>1. /\ all \in Seq(Timed) /\ Len(all) = n + m /\ n \in Nat /\ m \in Nat
      /\ \A i \in 1..n : all[i] = tokens[i]
      /\ \A i \in 1..m : all[n + i] = more[i]
  BY Joined
<1> HIDE DEF all
<1> SUFFICES ASSUME NEW i \in 1..Len(all), NEW j \in 1..Len(all), i <= j
             PROVE  all[i].frame <= all[j].frame
  BY DEF InOrder, all
<1>2. CASE j <= n
  <2>1. i \in 1..n /\ j \in 1..n BY <1>1, <1>2
  <2> QED BY <1>1, <2>1 DEF InOrder
<1>3. CASE ~(j <= n)
  <2>1. j - n \in 1..m /\ n + (j - n) = j BY <1>1, <1>3
  <2>2. all[j] = more[j - n] BY <1>1, <2>1
  <2>3. CASE i <= n
    <3>1. i \in 1..n BY <1>1, <2>3
    <3>2. all[i].frame < clock /\ all[j].frame >= clock BY <1>1, <2>1, <2>2, <3>1
    <3>3. all[i].frame \in Nat /\ all[j].frame \in Nat BY <1>1, FrameOf
    <3> QED BY <3>2, <3>3
  <2>4. CASE ~(i <= n)
    <3>1. i - n \in 1..m /\ n + (i - n) = i /\ i - n <= j - n BY <1>1, <2>1, <2>4
    <3>2. all[i] = more[i - n] BY <1>1, <3>1
    <3> QED BY <2>1, <2>2, <3>1, <3>2 DEF InOrder
  <2> QED BY <2>3, <2>4
<1> QED BY <1>2, <1>3

-----------------------------------------------------------------------------
(* Long turns.                                                              *)

(* The labelled tokens follow each other in time; the labels from a to b    *)
(* are of one speaker and not short.                                        *)
LabelsInOrder(labeled) ==
    \A i, j \in 1..Len(labeled) : i <= j => labeled[i].token.frame <= labeled[j].token.frame
LongRun(labeled, a, b) ==
    /\ a \in 1..Len(labeled) /\ b \in a..Len(labeled)
    /\ \A i \in a..b : labeled[i].speaker = labeled[a].speaker
    /\ ~((labeled[b].token.frame + 1 - labeled[a].token.frame) * FrameMs < MinTurnMs)

(* A round does not touch a long run.                                       *)
LEMMA LongRunStays ==
    ASSUME NEW R, NEW labeled \in Seq(Labels(Timed, R)), LabelsInOrder(labeled),
           NEW a, NEW b, LongRun(labeled, a, b),
           NEW m, m = AbsorbIn(labeled, GroupLabeled(labeled))
    PROVE  \A i \in a..b : m[i] = labeled[i]
<1> DEFINE n == Len(labeled)  groups == GroupLabeled(labeled)  z == Len(groups)
           Frame(i) == labeled[i].token.frame
<1>1. n \in Nat /\ a \in 1..n /\ b \in 1..n /\ a <= b BY DEF LongRun
<1>2. AreGroups(labeled, groups) /\ z \in Nat
  <2>1. AreGroups(labeled, groups) BY GroupFacts
  <2>2. z \in Nat BY GroupsCount
  <2> QED BY <2>1, <2>2
<1> HIDE DEF groups
<1>3. PICK g \in 1..z : a \in groups[g].first..groups[g].last BY <1>1, <1>2, InGroup
<1> DEFINE first == groups[g].first  last == groups[g].last
<1>4. first \in 1..n /\ last \in 1..n /\ first <= a /\ a <= last
  <2>1. first \in 1..n /\ last \in 1..n BY <1>2 DEF AreGroups
  <2> QED BY <1>3, <2>1
<1>5. b <= last
  <2> SUFFICES ASSUME ~(b <= last) PROVE FALSE OBVIOUS
  <2>1. g < z
    <3>1. ASSUME g = z PROVE FALSE
      <4>1. groups[z].last = n
        <5>1. z > 0 BY <1>2, <1>3
        <5> QED BY <1>2, <5>1 DEF AreGroups
      <4> QED BY <1>1, <3>1, <4>1
    <3> QED BY <1>2, <1>3, <3>1
  <2>2. groups[g + 1].first = last + 1 BY <1>2, <2>1 DEF AreGroups
  <2>3. last + 1 \in Starts(labeled)
    <3>1. g + 1 \in 1..z BY <1>2, <2>1
    <3> QED BY <1>2, <2>2, <3>1 DEF AreGroups
  <2>4. last + 1 # 1 /\ (last + 1) - 1 = last BY <1>4
  <2>5. labeled[last + 1].speaker # labeled[last].speaker BY <2>3, <2>4 DEF Starts
  <2>6. last \in a..b /\ last + 1 \in a..b BY <1>1, <1>4
  <2> HIDE DEF last
  <2> QED BY <2>5, <2>6 DEF LongRun
<1>6. \A i \in 1..n : Frame(i) \in Nat
  <2> SUFFICES ASSUME NEW i \in 1..n PROVE Frame(i) \in Nat OBVIOUS
  <2>1. labeled[i] \in Labels(Timed, R) OBVIOUS
  <2>2. labeled[i].token \in Timed BY <2>1 DEF Labels
  <2> QED BY <2>2 DEF Timed
<1>7. Frame(first) <= Frame(a) /\ Frame(a) <= Frame(b) /\ Frame(b) <= Frame(last)
  BY <1>1, <1>4, <1>5 DEF LabelsInOrder
<1>8. ~IsShort(labeled, groups[g])
  <2> DEFINE x == Frame(b) + 1 - Frame(a)  y == Frame(last) + 1 - Frame(first)
  <2>1. x \in Nat /\ y \in Nat /\ x <= y
    <3> DEFINE p == Frame(first)  q == Frame(a)  r == Frame(b)  s == Frame(last)
    <3>1. p \in Nat /\ q \in Nat /\ r \in Nat /\ s \in Nat BY <1>1, <1>4, <1>6
    <3>2. p <= q /\ q <= r /\ r <= s BY <1>7
    <3>3. x = r + 1 - q /\ y = s + 1 - p OBVIOUS
    <3> HIDE DEF p, q, r, s, x, y
    <3> QED BY <3>1, <3>2, <3>3
  <2>2. ~(x * FrameMs < MinTurnMs) BY DEF LongRun
  <2>3. DurationMs(labeled, groups[g]) = y * FrameMs BY DEF DurationMs
  <2> HIDE DEF x, y
  <2>4. x * FrameMs \in Nat /\ y * FrameMs \in Nat /\ x * FrameMs <= y * FrameMs
    BY <2>1, Milliseconds
  <2> DEFINE v == x * FrameMs  w == y * FrameMs
  <2>5. v \in Nat /\ w \in Nat /\ v <= w /\ ~(v < MinTurnMs) BY <2>2, <2>4
  <2> HIDE DEF v, w
  <2>6. MinTurnMs \in Nat BY FusionAssumption
  <2>7. ~(w < MinTurnMs) BY <2>5, <2>6
  <2> QED BY <2>3, <2>7 DEF IsShort, w
<1>9. \A k \in 1..z : \A i \in groups[k].first..groups[k].last :
         ~IsShort(labeled, groups[k]) => m[i] = labeled[i]
  <2>1. groups = GroupLabeled(labeled) /\ m = AbsorbIn(labeled, groups) BY DEF groups
  <2> HIDE DEF z, n, first, last
  <2>2. \A k \in 1..Len(groups) : \A i \in groups[k].first..groups[k].last :
           ~IsShort(labeled, groups[k]) => m[i] = labeled[i]
    BY <2>1, AbsorbFacts
  <2> QED BY <2>2 DEF z
<1>10. \A i \in a..b : i \in groups[g].first..groups[g].last BY <1>1, <1>4, <1>5
<1> QED BY <1>8, <1>9, <1>10

(* Anti-flicker does not touch a long run.                                  *)
LEMMA LongRunKept ==
    ASSUME NEW R, NEW labeled \in Seq(Labels(Timed, R)), LabelsInOrder(labeled),
           NEW a, NEW b, LongRun(labeled, a, b)
    PROVE  \A i \in a..b : AntiFlicker(labeled)[i] = labeled[i]
<1> DEFINE n == Len(labeled)  V == Relabelled(labeled, Timed, R)
<1>1. n \in Nat /\ a \in 1..n /\ b \in 1..n BY DEF LongRun
<1>2. PICK rounds \in [0..n -> V] :
         RoundsOf(labeled, rounds) /\ LastRound(labeled) \in 0..n
         /\ AntiFlicker(labeled) = rounds[LastRound(labeled)]
  BY Rounds
<1> DEFINE T == {k \in 0..n : \A i \in a..b : rounds[k][i] = labeled[i]}
<1>3. 0 \in T BY <1>1, <1>2 DEF RoundsOf
<1>4. ASSUME NEW k \in 1..n, k - 1 \in T PROVE k \in T
  <2> DEFINE x == rounds[k - 1]  m == rounds[k]
  <2>1. x \in V
    <3>1. k - 1 \in 0..n BY <1>1
    <3> QED BY <1>2, <3>1
  <2>2. m = AbsorbIn(x, GroupLabeled(x)) BY <1>2 DEF RoundsOf
  <2>3. \A i \in a..b : x[i] = labeled[i] BY <1>4
  <2> HIDE DEF x, m
  <2>4. x \in Seq(Labels(Timed, R)) /\ Len(x) = n /\ \A i \in 1..n : x[i].token = labeled[i].token
    BY <2>1 DEF Relabelled
  <2>5. LabelsInOrder(x) BY <2>4 DEF LabelsInOrder
  <2>6. LongRun(x, a, b)
    <3>1. a \in a..b /\ b \in a..b BY <1>1 DEF LongRun
    <3> QED BY <2>3, <2>4, <3>1 DEF LongRun
  <2>7. \A i \in a..b : m[i] = x[i] BY <2>2, <2>4, <2>5, <2>6, LongRunStays
  <2> QED BY <1>1, <2>3, <2>7 DEF m
<1> HIDE DEF T, n
<1>5. \A k \in 0..n : k \in T BY <1>1, <1>3, <1>4, UpTo
<1>6. LastRound(labeled) \in T BY <1>2, <1>5
<1> QED BY <1>2, <1>6 DEF T

(* The fusion of an utterance that has only grown.                          *)
Grows(f, g) ==
    /\ Len(f.tokens) <= Len(g.tokens) /\ \A i \in 1..Len(f.tokens) : g.tokens[i] = f.tokens[i]
    /\ Continues(f.diar, g.diar)

(* The labels of what was decided stay.                                     *)
LEMMA LabelsStay ==
    ASSUME NEW f, NEW g, Fused(f), Fused(g), Grows(f, g), ~f.flushed,
           NEW d, DecidedTo(f, d), NEW e, DecidedTo(g, e)
    PROVE  d <= e /\ \A i \in 1..d : Labeled(g)[i] = Labeled(f)[i]
<1>1. /\ d \in Nat /\ e \in Nat /\ d <= Len(f.tokens) /\ Len(f.tokens) \in Nat
      /\ Len(g.tokens) \in Nat /\ Len(f.tokens) <= Len(g.tokens) /\ f.tokens \in Seq(Timed)
      /\ f.diar \in Heard /\ g.diar \in Heard /\ Continues(f.diar, g.diar)
  BY DEF DecidedTo, Fused, Grows
<1>2. ASSUME NEW i \in 1..d
      PROVE  /\ f.tokens[i].frame \in Nat /\ f.tokens[i].frame + SmoothFrames < Len(f.diar)
             /\ g.tokens[i] = f.tokens[i] /\ i \in 1..Len(g.tokens)
  <2>1. i \in 1..Len(f.tokens) /\ i \in 1..Len(g.tokens) BY <1>1
  <2>2. i \in Decided(f) BY <2>1 DEF DecidedTo
  <2>3. f.tokens[i].frame + SmoothFrames < Len(f.diar) BY <2>2 DEF Decided, IsDecidable
  <2>4. f.tokens[i].frame \in Nat BY <1>1, <2>1, FrameOf
  <2> QED BY <2>1, <2>3, <2>4 DEF Grows
<1>3. d <= e
  <2>1. CASE d = 0 BY <1>1, <2>1
  <2>2. CASE d # 0
    <3>1. d \in 1..d BY <1>1, <2>2
    <3>2. d \in 1..Len(g.tokens) /\ DOMAIN g.tokens = 1..Len(g.tokens)
      BY <1>2, <3>1 DEF Fused
    <3>3. g.tokens[d].frame + SmoothFrames < Len(g.diar)
      <4> DEFINE x == f.tokens[d].frame
      <4>1. x \in Nat /\ x + SmoothFrames < Len(f.diar) /\ g.tokens[d].frame = x BY <1>2, <3>1
      <4>2. Len(f.diar) \in Nat /\ Len(g.diar) \in Nat /\ Len(f.diar) <= Len(g.diar)
            /\ SmoothFrames \in Nat
        BY <1>1, FusionAssumption DEF Continues, Heard
      <4> HIDE DEF x
      <4> QED BY <4>1, <4>2
    <3>4. d \in Decided(g) BY <3>2, <3>3 DEF Decided, IsDecidable
    <3> QED BY <3>2, <3>4 DEF DecidedTo
  <2> QED BY <2>1, <2>2
<1>4. PICK p : SpeakersOf(f, d, p)
               /\ Labeled(f) = [i \in 1..d |-> [token |-> f.tokens[i], speaker |-> p[i]]]
  BY LabeledIs
<1>5. PICK q : SpeakersOf(g, e, q)
               /\ Labeled(g) = [i \in 1..e |-> [token |-> g.tokens[i], speaker |-> q[i]]]
  BY LabeledIs
<1> DEFINE T == {i \in 0..d : q[i] = p[i]}
<1>6. 0 \in T BY <1>1, <1>4, <1>5 DEF SpeakersOf
<1>7. ASSUME NEW i \in 1..d, i - 1 \in T PROVE i \in T
  <2> DEFINE frame == f.tokens[i].frame  s == p[i - 1]
  <2>1. i \in 1..e /\ i \in 0..d /\ i - 1 \in 0..d BY <1>1, <1>3
  <2>2. q[i] = AttributeSpeaker(g.diar, frame, s)
    <3>1. q[i] = AttributeSpeaker(g.diar, g.tokens[i].frame, q[i - 1])
      BY <1>5, <2>1 DEF SpeakersOf
    <3>2. q[i - 1] = p[i - 1] /\ g.tokens[i] = f.tokens[i] BY <1>2, <1>7
    <3> QED BY <3>1, <3>2
  <2>3. p[i] = AttributeSpeaker(f.diar, frame, s) BY <1>4 DEF SpeakersOf
  <2>4. frame \in Nat /\ frame + SmoothFrames < Len(f.diar) BY <1>2
  <2>5. s \in Speakers BY <1>4, <2>1 DEF SpeakersOf
  <2> HIDE DEF frame, s
  <2>6. q[i] = p[i] BY <1>1, <2>2, <2>3, <2>4, <2>5, AttributedForGood
  <2> QED BY <2>1, <2>6
<1> HIDE DEF T
<1>8. \A i \in 0..d : i \in T BY <1>1, <1>6, <1>7, UpTo
<1>9. ASSUME NEW i \in 1..d PROVE Labeled(g)[i] = Labeled(f)[i]
  <2>1. i \in 0..d /\ i \in 1..e BY <1>1, <1>3
  <2>2. q[i] = p[i] BY <1>8, <2>1 DEF T
  <2>3. g.tokens[i] = f.tokens[i] BY <1>2
  <2> QED BY <1>4, <1>5, <2>1, <2>2, <2>3
<1> QED BY <1>3, <1>9

(* A token of a long turn is shown under its speaker, and keeps it while    *)
(* the fusion grows.                                                        *)
LEMMA LongTurnsStay ==
    ASSUME NEW f, NEW g, Fused(f), Fused(g), Grows(f, g), ~f.flushed,
           NEW n \in DOMAIN RawTurns(f).groups,
           NEW i \in RawTurns(f).groups[n].first..RawTurns(f).groups[n].last,
           ~IsShort(RawTurns(f).labeled, RawTurns(f).groups[n])
    PROVE  /\ Turns(f).labeled[i] = RawTurns(f).labeled[i]
           /\ Turns(g).labeled[i] = RawTurns(f).labeled[i]
<1> DEFINE labeled == Labeled(f)  later == Labeled(g)  groups == GroupLabeled(labeled)
           a == groups[n].first  b == groups[n].last  L == Labels(Timed, Speakers)
<1>1. PICK d : DecidedTo(f, d) BY DecidedIs
<1>2. PICK e : DecidedTo(g, e) BY DecidedIs
<1>3. labeled \in Seq(L) /\ Len(labeled) = d /\ \A j \in 1..d : labeled[j].token = f.tokens[j]
  BY <1>1, LabeledFacts
<1>4. later \in Seq(L) /\ Len(later) = e /\ \A j \in 1..e : later[j].token = g.tokens[j]
  BY <1>2, LabeledFacts
<1>5. d <= e /\ \A j \in 1..d : later[j] = labeled[j] BY <1>1, <1>2, LabelsStay
<1>6. RawTurns(f).labeled = labeled /\ RawTurns(f).groups = groups BY DEF RawTurns, WithGroups
<1>7. Turns(f).labeled = AntiFlicker(labeled) /\ Turns(g).labeled = AntiFlicker(later)
  BY DEF Turns, WithGroups
<1>8. d \in Nat /\ e \in Nat /\ d <= Len(f.tokens) /\ e <= Len(g.tokens)
      /\ Len(f.tokens) \in Nat /\ Len(g.tokens) \in Nat
  BY <1>1, <1>2 DEF DecidedTo, Fused
<1> HIDE DEF labeled, later, L
<1>9. LabelsInOrder(labeled)
  <2>1. \A j \in 1..d : j \in 1..Len(f.tokens) BY <1>8
  <2> QED BY <1>3, <2>1 DEF LabelsInOrder, Fused, InOrder
<1>10. LabelsInOrder(later)
  <2>1. \A j \in 1..e : j \in 1..Len(g.tokens) BY <1>8
  <2> QED BY <1>4, <2>1 DEF LabelsInOrder, Fused, InOrder
<1>11. /\ a \in 1..d /\ b \in 1..d /\ a <= b
       /\ \A j \in a..b : labeled[j].speaker = labeled[a].speaker
  <2>1. AreGroups(labeled, groups) /\ groups \in Seq(Groups(labeled)) BY <1>3, GroupFacts
  <2>2. n \in 1..Len(groups) BY <1>6, <2>1
  <2> HIDE DEF groups
  <2>3. /\ a \in 1..d /\ b \in 1..d /\ a <= b
        /\ groups[n].speaker = labeled[a].speaker
        /\ \A j \in a..b : labeled[j].speaker = groups[n].speaker
    BY <1>3, <2>1, <2>2 DEF AreGroups
  <2> QED BY <2>3
<1>12. ~((labeled[b].token.frame + 1 - labeled[a].token.frame) * FrameMs < MinTurnMs)
  BY <1>6 DEF IsShort, DurationMs
<1>13. i \in a..b BY <1>6
<1> HIDE DEF a, b, groups
<1>14. LongRun(labeled, a, b)
  <2>1. b \in a..d BY <1>8, <1>11
  <2> QED BY <1>3, <1>11, <1>12, <2>1 DEF LongRun
<1>15. LongRun(later, a, b)
  <2>1. a \in 1..e /\ b \in a..e /\ \A j \in a..b : j \in 1..d BY <1>5, <1>8, <1>11
  <2>2. a \in a..b /\ b \in a..b BY <1>8, <1>11
  <2>3. \A j \in a..b : later[j] = labeled[j] BY <1>5, <2>1
  <2> QED BY <1>4, <1>11, <1>12, <2>1, <2>2, <2>3 DEF LongRun
<1>16. AntiFlicker(labeled)[i] = labeled[i] BY <1>3, <1>9, <1>13, <1>14, LongRunKept DEF L
<1>17. AntiFlicker(later)[i] = later[i] BY <1>4, <1>10, <1>13, <1>15, LongRunKept DEF L
<1>18. i \in 1..d BY <1>8, <1>11, <1>13
<1> QED BY <1>5, <1>6, <1>7, <1>16, <1>17, <1>18

=============================================================================
