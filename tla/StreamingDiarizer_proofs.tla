---------------------- MODULE StreamingDiarizer_proofs ----------------------
(***************************************************************************)
(* Proofs about StreamingDiarizer and SortformerModel for every geometry,  *)
(* every size of push and of model, and a recording of any length: first   *)
(* the queues of the diarizer, then what the forward pass computes of the  *)
(* rows it is given, and what a chunk's window of the audio leaves in them.*)
(***************************************************************************)
EXTENDS SortformerModel, SequenceTheorems, FiniteSetTheorems, NaturalsInduction,
        WellFoundedInduction, TLAPS

-----------------------------------------------------------------------------
(* Division                                                                *)

\* Rounding up is monotone, and whole multiples of the divisor pass through.
LEMMA CeilDivFacts ==
    ASSUME NEW a \in Nat, NEW b \in Nat, NEW q \in Nat, NEW s \in Nat \ {0}
    PROVE  /\ CeilDiv(a, s) \in Nat
           /\ a <= b => CeilDiv(a, s) <= CeilDiv(b, s)
           /\ CeilDiv(q * s + a, s) = q + CeilDiv(a, s)
           /\ CeilDiv(q * s, s) = q
<1>1. CeilDiv(a, s) \in Nat
  BY DEF CeilDiv
<1>2. a <= b => CeilDiv(a, s) <= CeilDiv(b, s)
  BY DEF CeilDiv
<1>3. CeilDiv(q * s + a, s) = q + CeilDiv(a, s)
  BY DEF CeilDiv
<1>4. CeilDiv(q * s, s) = q
  BY DEF CeilDiv
<1> QED
  BY <1>1, <1>2, <1>3, <1>4

\* Division is monotone, and stays within the naturals.
LEMMA DivMonotone ==
    ASSUME NEW a \in Nat, NEW b \in Nat, NEW s \in Nat \ {0}, a <= b
    PROVE  a \div s \in Nat /\ b \div s \in Nat /\ a \div s <= b \div s
OBVIOUS

\* The left context is a whole number of rows, which rounding gives back.
LEMMA RoundMultiple ==
    ASSUME NEW q \in Nat, NEW s \in Nat \ {0}
    PROVE  (2 * (q * s) + s) \div (2 * s) = q /\ (q * s) \div s = q
OBVIOUS

\* The lesser of two multiples is the multiple of the lesser.
LEMMA LeastMultiple ==
    ASSUME NEW a \in Nat, NEW b \in Nat, NEW s \in Nat \ {0}
    PROVE  /\ Least(a * s, b * s) = Least(a, b) * s
           /\ Least(a, b) \in Nat /\ Least(a, b) <= a /\ Least(a, b) <= b
<1>1. CASE a < b
  <2>1. a * s < b * s
    BY <1>1
  <2> QED
    BY <1>1, <2>1 DEF Least
<1>2. CASE ~(a < b)
  <2>1. ~(a * s < b * s)
    BY <1>2
  <2> QED
    BY <1>2, <2>1 DEF Least
<1> QED
  BY <1>1, <1>2

-----------------------------------------------------------------------------
(* The window of a chunk                                                   *)

\* A chunk is processed only when audio is left for it.
LEMMA MoreChunksFacts ==
    ASSUME audio \in Nat, next_chunk \in Nat, MoreChunks
    PROVE  /\ total_mel \in Nat /\ chunk_mel \in Nat \ {0}
           /\ chunk_start \in Nat /\ chunk_start < total_mel
           /\ call = "push" => chunk_start + chunk_mel <= total_mel
<1>1. total_mel \in Nat
  BY DiarizerAssumption DEF total_mel, FrameCount
<1>2. chunk_mel \in Nat \ {0}
  BY DiarizerAssumption DEF chunk_mel
<1>3. right_max \in Nat
  BY DiarizerAssumption DEF right_max
<1>4. chunk_start \in Nat /\ (next_chunk + 1) * chunk_mel = chunk_start + chunk_mel
  BY <1>2 DEF chunk_start
<1> QED
  BY <1>1, <1>2, <1>3, <1>4 DEF MoreChunks, chunk_start

\* The rows that stand for the chunk are those of its own frames, in order,
\* and lie inside the window; a chunk that is not the last has ChunkLen.
LEMMA ChunkGeometry ==
    ASSUME audio \in Nat, next_chunk \in Nat, MoreChunks
    PROVE  /\ chunk_rows \in Seq(Nat)
           /\ lc \in Nat /\ chunk_len \in Nat /\ lc + chunk_len <= Len(chunk_rows)
           /\ \A i \in 1..chunk_len : chunk_rows[lc + i] = next_chunk * ChunkLen + i
           /\ chunk_len = CeilDiv(chunk_end - chunk_start, Sub)
<1> DEFINE left  == Least(LeftContext, next_chunk * ChunkLen)
           first == next_chunk * ChunkLen
           own   == chunk_end - chunk_start
<1>1. /\ total_mel \in Nat /\ chunk_mel \in Nat \ {0}
      /\ chunk_start \in Nat /\ chunk_start < total_mel
  BY MoreChunksFacts
<1>2. Sub \in Nat \ {0} /\ LeftContext \in Nat /\ first \in Nat
  BY DiarizerAssumption
<1>3. chunk_end \in Nat /\ chunk_end <= total_mel /\ own \in Nat \ {0}
      /\ own <= chunk_mel
  BY <1>1 DEF chunk_end, Least
<1>4. right_off \in Nat
  BY <1>1, <1>3, DiarizerAssumption DEF right_off, right_max, Least
<1>5. chunk_start = first * Sub
  BY <1>2, DiarizerAssumption DEF chunk_start, chunk_mel
<1>6. left_off = left * Sub /\ left \in Nat /\ left <= first
  BY <1>2, <1>5, LeastMultiple DEF left_off
<1>7. lc = left
  BY <1>2, <1>6, RoundMultiple DEF lc
<1>8. window_start \div Sub = first - left
  <2>1. window_start = (first - left) * Sub
    BY <1>2, <1>5, <1>6 DEF window_start
  <2>2. first - left \in Nat
    BY <1>2, <1>6
  <2> HIDE DEF left, first
  <2>3. ((first - left) * Sub) \div Sub = first - left
    BY <1>2, <2>2, RoundMultiple
  <2> QED
    BY <2>1, <2>3
<1>9. CeilDiv(window_len, Sub) = left + CeilDiv(own + right_off, Sub)
  <2>1. window_len = left * Sub + (own + right_off) /\ own + right_off \in Nat
    BY <1>3, <1>4, <1>6, <1>2, <1>1 DEF window_len
  <2> QED
    BY <1>2, <1>6, <2>1, CeilDivFacts, SMTT(30)
<1>10. rc = CeilDiv(right_off, Sub) /\ rc \in Nat
  BY <1>2, <1>4, CeilDivFacts DEF rc
<1>11. CeilDiv(own + right_off, Sub) \in Nat /\ rc <= CeilDiv(own + right_off, Sub)
  <2>1. own + right_off \in Nat /\ right_off <= own + right_off
    BY <1>3, <1>4
  <2> HIDE DEF own
  <2> QED
    BY <1>2, <1>4, <1>10, <2>1, CeilDivFacts
<1>12. /\ chunk_rows = [j \in 1..(left + CeilDiv(own + right_off, Sub)) |-> (first - left) + j]
       /\ chunk_rows \in Seq(Nat)
       /\ Len(chunk_rows) = left + CeilDiv(own + right_off, Sub)
  <2> DEFINE rows == left + CeilDiv(own + right_off, Sub)
  <2>1. chunk_rows = [j \in 1..rows |-> (first - left) + j]
    BY <1>8, <1>9 DEF chunk_rows
  <2>2. rows \in Nat /\ first - left \in Nat
    BY <1>2, <1>6, <1>11
  <2> HIDE DEF rows, left, first
  <2>3. \A j \in 1..rows : (first - left) + j \in Nat
    BY <2>2
  <2>4. chunk_rows \in Seq(Nat) /\ Len(chunk_rows) = rows
    BY <2>1, <2>2, <2>3
  <2> QED
    BY <2>1, <2>4 DEF rows
<1>13. chunk_len = CeilDiv(own + right_off, Sub) - rc
  BY <1>6, <1>7, <1>10, <1>11, <1>12 DEF chunk_len
<1>14. chunk_len = CeilDiv(own, Sub)
  <2>1. CASE chunk_start + chunk_mel < total_mel
    <3>1. own = ChunkLen * Sub
      BY <1>1, <2>1 DEF chunk_end, chunk_mel, Least
    <3>2. /\ CeilDiv(ChunkLen * Sub + right_off, Sub) = ChunkLen + CeilDiv(right_off, Sub)
          /\ CeilDiv(ChunkLen * Sub, Sub) = ChunkLen
      BY <1>2, <1>4, CeilDivFacts, DiarizerAssumption
    <3> HIDE DEF own
    <3> QED
      BY <1>2, <1>10, <1>13, <3>1, <3>2, DiarizerAssumption
  <2>2. CASE ~(chunk_start + chunk_mel < total_mel)
    <3>1. right_off = 0
      BY <1>1, <2>2, DiarizerAssumption DEF right_off, chunk_end, right_max, Least
    <3>2. CeilDiv(0, Sub) = 0
      BY <1>2 DEF CeilDiv
    <3>3. own + 0 = own
      BY <1>3
    <3> HIDE DEF own
    <3> QED
      BY <1>2, <1>10, <1>13, <1>11, <3>1, <3>2, <3>3
  <2> QED
    BY <2>1, <2>2
<1>15. \A i \in 1..chunk_len : chunk_rows[lc + i] = first + i
  <2> HIDE DEF left, first, own
  <2>1. chunk_len \in Nat /\ left + chunk_len <= Len(chunk_rows)
    BY <1>6, <1>10, <1>11, <1>12, <1>13, SMTT(30)
  <2>2. ASSUME NEW i \in 1..chunk_len
        PROVE  chunk_rows[lc + i] = first + i
    <3>1. left + i \in 1..(left + CeilDiv(own + right_off, Sub))
      BY <1>6, <1>11, <1>12, <2>1
    <3>2. chunk_rows[left + i] = (first - left) + (left + i)
      BY <1>12, <3>1
    <3>3. left \in Nat /\ first \in Nat /\ i \in Nat
      BY <1>2, <1>6
    <3> QED
      BY <1>7, <3>2, <3>3
  <2> QED
    BY <2>2
<1> QED
  BY <1>6, <1>7, <1>10, <1>11, <1>12, <1>13, <1>14, <1>15, SMTT(30)

-----------------------------------------------------------------------------
(* Slices of the forward pass                                              *)

\* n elements of a sequence, after its first m.
LEMMA Slice ==
    ASSUME NEW S, NEW s \in Seq(S), NEW m \in Nat, NEW n \in Nat, m + n <= Len(s)
    PROVE  /\ SubSeq(s, m + 1, m + n) \in Seq(S)
           /\ Len(SubSeq(s, m + 1, m + n)) = n
           /\ \A i \in 1..n : SubSeq(s, m + 1, m + n)[i] = s[m + i]
<1>1. \A i \in (m + 1)..(m + n) : s[i] \in S
  BY ElementOfSeq
<1>2. /\ SubSeq(s, m + 1, m + n) \in Seq(S)
      /\ Len(SubSeq(s, m + 1, m + n)) = IF m + 1 <= m + n THEN m + n - (m + 1) + 1 ELSE 0
      /\ \A i \in 1..(m + n - (m + 1) + 1) :
            SubSeq(s, m + 1, m + n)[i] = s[m + 1 + i - 1]
  BY <1>1, SubSeqProperties
<1>3. m + n - (m + 1) + 1 = n /\ \A i \in 1..n : m + 1 + i - 1 = m + i
  OBVIOUS
<1> QED
  BY <1>2, <1>3

\* The pass over [cache | fifo | rows] gives back its three regions.
LEMMA Regions ==
    ASSUME NEW S, NEW a \in Seq(S), NEW b \in Seq(S), NEW c \in Seq(S),
           NEW m \in Nat, NEW n \in Nat, m + n <= Len(c)
    PROVE  /\ SubSeq(a \o b \o c, 1, Len(a)) = a
           /\ SubSeq(a \o b \o c, Len(a) + 1, Len(a) + Len(b)) = b
           /\ SubSeq(a \o b \o c, Len(a) + Len(b) + m + 1, Len(a) + Len(b) + m + n)
                = SubSeq(c, m + 1, m + n)
<1> DEFINE pass == a \o b \o c
<1>1. /\ a \o b \in Seq(S) /\ Len(a \o b) = Len(a) + Len(b)
      /\ \A i \in 1..(Len(a) + Len(b)) :
            (a \o b)[i] = IF i <= Len(a) THEN a[i] ELSE b[i - Len(a)]
  BY ConcatProperties
<1>2. /\ pass \in Seq(S) /\ Len(pass) = Len(a) + Len(b) + Len(c)
      /\ \A i \in 1..(Len(a) + Len(b) + Len(c)) :
            pass[i] = IF i <= Len(a) + Len(b) THEN (a \o b)[i]
                      ELSE c[i - (Len(a) + Len(b))]
  BY <1>1, ConcatProperties
<1>3. Len(a) \in Nat /\ Len(b) \in Nat /\ Len(c) \in Nat
  OBVIOUS
<1> HIDE DEF pass
<1>4. SubSeq(pass, 1, Len(a)) = a
  <2>1. /\ SubSeq(pass, 0 + 1, 0 + Len(a)) \in Seq(S)
        /\ Len(SubSeq(pass, 0 + 1, 0 + Len(a))) = Len(a)
        /\ \A i \in 1..Len(a) : SubSeq(pass, 0 + 1, 0 + Len(a))[i] = pass[0 + i]
    BY <1>2, <1>3, Slice
  <2>2. 0 + 1 = 1 /\ 0 + Len(a) = Len(a)
    BY <1>3
  <2>3. \A i \in 1..Len(a) : SubSeq(pass, 1, Len(a))[i] = a[i]
    BY <1>1, <1>2, <1>3, <2>1, <2>2
  <2> QED
    BY <2>1, <2>2, <2>3, SeqEqual
<1>5. SubSeq(pass, Len(a) + 1, Len(a) + Len(b)) = b
  <2>1. /\ SubSeq(pass, Len(a) + 1, Len(a) + Len(b)) \in Seq(S)
        /\ Len(SubSeq(pass, Len(a) + 1, Len(a) + Len(b))) = Len(b)
        /\ \A i \in 1..Len(b) :
              SubSeq(pass, Len(a) + 1, Len(a) + Len(b))[i] = pass[Len(a) + i]
    BY <1>2, <1>3, Slice, SMTT(30)
  <2>2. \A i \in 1..Len(b) : pass[Len(a) + i] = b[i]
    BY <1>1, <1>2, <1>3
  <2> QED
    BY <2>1, <2>2, SeqEqual
<1>6. SubSeq(pass, Len(a) + Len(b) + m + 1, Len(a) + Len(b) + m + n)
        = SubSeq(c, m + 1, m + n)
  <2>1. /\ SubSeq(pass, (Len(a) + Len(b) + m) + 1, (Len(a) + Len(b) + m) + n) \in Seq(S)
        /\ Len(SubSeq(pass, (Len(a) + Len(b) + m) + 1, (Len(a) + Len(b) + m) + n)) = n
        /\ \A i \in 1..n :
              SubSeq(pass, (Len(a) + Len(b) + m) + 1, (Len(a) + Len(b) + m) + n)[i]
                = pass[(Len(a) + Len(b) + m) + i]
    BY <1>2, <1>3, Slice
  <2>2. /\ SubSeq(c, m + 1, m + n) \in Seq(S) /\ Len(SubSeq(c, m + 1, m + n)) = n
        /\ \A i \in 1..n : SubSeq(c, m + 1, m + n)[i] = c[m + i]
    BY Slice
  <2>3. \A i \in 1..n : pass[(Len(a) + Len(b) + m) + i] = c[m + i]
    BY <1>2, <1>3
  <2> QED
    BY <2>1, <2>2, <2>3, SeqEqual
<1> QED
  BY <1>4, <1>5, <1>6 DEF pass

-----------------------------------------------------------------------------
(* The inductive invariant                                                 *)

\* A call runs only on a diarizer that is there and open, and the frames of a
\* call that is over have been handed on.
CallIsOpen ==
    /\ call # "none" => diarizer /\ ~finished
    /\ call = "none" => output = <<>>

\* The frames produced so far: whole chunks up to the cursor, or, once the
\* last chunk is flushed, all of the recording.
Position ==
    diarizer =>
        /\ finished => total_mel <= next_chunk * chunk_mel
        /\ \/ /\ next_chunk * chunk_mel <= total_mel
              /\ Len(diar) + Len(output) = next_chunk * ChunkLen
           \/ /\ call = "finish" \/ finished
              /\ total_mel <= next_chunk * chunk_mel
              /\ Len(diar) + Len(output) = CeilDiv(total_mel, Sub)

\* The frames of the running call continue those Fusion already holds.
OutputInOrder == \A i \in 1..Len(output) : output[i] = Len(diar) + i

IInv ==
    /\ TypeOK /\ PredsFollowRows /\ FifoIsTheTail
    /\ CallIsOpen /\ Position /\ OutputInOrder /\ FramesInOrder

-----------------------------------------------------------------------------
(* One chunk through streaming_update                                      *)

\* What ProcessChunk finds: the cursor stands where the frames end, and the
\* chunk it adds is the next frames.
LEMMA ChunkFacts ==
    ASSUME IInv, MoreChunks
    PROVE  /\ chunk_len \in Nat /\ chunk_preds = chunk
           /\ chunk \in Seq(Nat) /\ Len(chunk) = chunk_len
           /\ Len(diar) + Len(output) = next_chunk * ChunkLen
           /\ \A i \in 1..chunk_len : chunk[i] = Len(diar) + Len(output) + i
<1>1. audio \in Nat /\ next_chunk \in Nat /\ spkcache \in Seq(Nat) /\ fifo \in Seq(Nat)
  BY DEF IInv, TypeOK, Rows
<1>2. /\ chunk_rows \in Seq(Nat) /\ lc \in Nat /\ chunk_len \in Nat
      /\ lc + chunk_len <= Len(chunk_rows)
      /\ \A i \in 1..chunk_len : chunk_rows[lc + i] = next_chunk * ChunkLen + i
  BY <1>1, ChunkGeometry
<1>3. Len(diar) + Len(output) = next_chunk * ChunkLen
  <2>1. next_chunk * chunk_mel < total_mel /\ total_mel \in Nat /\ chunk_mel \in Nat
    BY <1>1, MoreChunksFacts DEF chunk_start
  <2>2. diarizer
    BY DEF IInv, CallIsOpen, MoreChunks
  <2> QED
    BY <1>1, <2>1, <2>2 DEF IInv, Position
<1>4. /\ chunk \in Seq(Nat) /\ Len(chunk) = chunk_len
      /\ \A i \in 1..chunk_len : chunk[i] = chunk_rows[lc + i]
  <2> DEFINE c == SubSeq(chunk_rows, lc + 1, lc + chunk_len)
  <2>1. /\ c \in Seq(Nat) /\ Len(c) = chunk_len
        /\ \A i \in 1..chunk_len : c[i] = chunk_rows[lc + i]
    BY <1>2, Slice
  <2>2. chunk = c
    BY DEF chunk
  <2> QED
    BY <2>1, <2>2
<1>5. chunk_preds = chunk
  BY <1>1, <1>2, Regions DEF chunk_preds, chunk, preds
<1> QED
  BY <1>2, <1>3, <1>4, <1>5

\* The FIFO and the cache as they grow: predictions stay with their rows, and
\* the pop brings the FIFO back to its length.
LEMMA GrowthFacts ==
    ASSUME IInv, MoreChunks
    PROVE  /\ grown_fifo \in Seq(Nat) /\ grown_preds = grown_fifo
           /\ Len(grown_fifo) = Len(fifo) + chunk_len
           /\ pop \in Nat /\ pop <= Len(grown_fifo) /\ Len(grown_fifo) - pop <= FifoLen
           /\ grown_cache \in Seq(Nat) /\ grown_cache_preds = grown_cache
           /\ Len(grown_cache) = Len(spkcache) + pop
           /\ \A i \in 1..Len(grown_fifo) :
                 grown_fifo[i] = Len(diar) + Len(output) - Len(fifo) + i
           /\ \A i \in 1..Len(grown_cache) :
                 grown_cache[i] <= Len(diar) + Len(output) - Len(fifo) + pop
<1> DEFINE done == Len(diar) + Len(output)
<1>1. /\ spkcache \in Seq(Nat) /\ fifo \in Seq(Nat) /\ fifo_preds = fifo
      /\ spkcache_preds \in {<<>>, <<spkcache>>} /\ done \in Nat
  BY DEF IInv, TypeOK, PredsFollowRows, Rows
<1>2. /\ chunk_len \in Nat /\ chunk_preds = chunk
      /\ chunk \in Seq(Nat) /\ Len(chunk) = chunk_len
      /\ \A i \in 1..chunk_len : chunk[i] = done + i
  BY ChunkFacts
<1>3. /\ \A i \in 1..Len(fifo) : fifo[i] = done - Len(fifo) + i
      /\ \A i \in 1..Len(spkcache) : spkcache[i] <= done - Len(fifo)
  BY DEF IInv, FifoIsTheTail, CallIsOpen, MoreChunks
<1> HIDE DEF done
<1>4. /\ grown_fifo \in Seq(Nat) /\ Len(grown_fifo) = Len(fifo) + chunk_len
      /\ \A i \in 1..Len(fifo) + chunk_len :
            grown_fifo[i] = IF i <= Len(fifo) THEN fifo[i] ELSE chunk[i - Len(fifo)]
  BY <1>1, <1>2, ConcatProperties DEF grown_fifo
<1>5. ASSUME NEW i \in 1..Len(grown_fifo)
      PROVE  grown_fifo[i] = done - Len(fifo) + i
  <2>1. CASE i <= Len(fifo)
    <3>1. i \in 1..Len(fifo) /\ i \in 1..Len(fifo) + chunk_len
      BY <1>1, <1>2, <1>4, <2>1
    <3> QED
      BY <1>3, <1>4, <2>1, <3>1
  <2>2. CASE ~(i <= Len(fifo))
    <3>1. i - Len(fifo) \in 1..chunk_len
      BY <1>1, <1>2, <1>4, <2>2
    <3>2. grown_fifo[i] = done + (i - Len(fifo))
      BY <1>1, <1>2, <1>4, <2>2, <3>1
    <3> QED
      BY <1>1, <3>2
  <2> QED
    BY <2>1, <2>2
<1>6. /\ SubSeq(preds, 1, Len(spkcache)) = spkcache
      /\ SubSeq(preds, Len(spkcache) + 1, Len(spkcache) + Len(fifo)) = fifo
  <2>1. chunk_rows \in Seq(Nat)
    BY ChunkGeometry DEF IInv, TypeOK
  <2>2. 0 + 0 <= Len(chunk_rows)
    BY <2>1
  <2> QED
    BY <1>1, <2>1, <2>2, Regions DEF preds
<1>7. grown_preds = grown_fifo
  BY <1>2, <1>6 DEF grown_preds, grown_fifo
<1>8. pop \in Nat /\ pop <= Len(grown_fifo) /\ Len(grown_fifo) - pop <= FifoLen
  BY <1>1, <1>2, <1>4, DiarizerAssumption, SMTT(30) DEF pop, Least, Greatest
<1>9. /\ SubSeq(grown_fifo, 0 + 1, 0 + pop) \in Seq(Nat)
      /\ Len(SubSeq(grown_fifo, 0 + 1, 0 + pop)) = pop
      /\ \A i \in 1..pop : SubSeq(grown_fifo, 0 + 1, 0 + pop)[i] = grown_fifo[0 + i]
  BY <1>4, <1>8, Slice
<1>10. /\ SubSeq(grown_fifo, 1, pop) \in Seq(Nat)
       /\ Len(SubSeq(grown_fifo, 1, pop)) = pop
       /\ \A i \in 1..pop : SubSeq(grown_fifo, 1, pop)[i] = grown_fifo[i]
  BY <1>8, <1>9
<1>11. /\ grown_cache \in Seq(Nat) /\ Len(grown_cache) = Len(spkcache) + pop
       /\ \A i \in 1..Len(spkcache) + pop :
             grown_cache[i] = IF i <= Len(spkcache) THEN spkcache[i]
                              ELSE SubSeq(grown_fifo, 1, pop)[i - Len(spkcache)]
  BY <1>1, <1>10, ConcatProperties DEF grown_cache
<1>12. grown_cache_preds = grown_cache
  <2>1. (IF spkcache_preds = <<>> THEN SubSeq(preds, 1, Len(spkcache))
         ELSE spkcache_preds[1]) = spkcache
    <3>1. CASE spkcache_preds = <<>>
      BY <1>6, <3>1
    <3>2. CASE spkcache_preds = <<spkcache>> /\ spkcache_preds # <<>>
      BY <3>2
    <3> QED
      BY <1>1, <3>1, <3>2
  <2> QED
    BY <1>7, <2>1 DEF grown_cache_preds, grown_cache
<1>13. ASSUME NEW i \in 1..Len(grown_cache)
       PROVE  grown_cache[i] <= done - Len(fifo) + pop
  <2>1. CASE i <= Len(spkcache)
    <3>1. i \in 1..Len(spkcache) /\ i \in 1..Len(spkcache) + pop
      BY <1>1, <1>8, <1>11, <2>1
    <3>2. grown_cache[i] = spkcache[i] /\ spkcache[i] \in Nat
      BY <1>1, <1>11, <3>1
    <3>3. spkcache[i] <= done - Len(fifo)
      BY <1>3, <3>1
    <3> QED
      BY <1>1, <1>8, <3>2, <3>3
  <2>2. CASE ~(i <= Len(spkcache))
    <3>1. i - Len(spkcache) \in 1..pop
      BY <1>1, <1>8, <1>11, <2>2
    <3>2. grown_cache[i] = done - Len(fifo) + (i - Len(spkcache))
      BY <1>4, <1>5, <1>8, <1>10, <1>11, <2>2, <3>1, SMTT(30)
    <3> QED
      BY <1>1, <1>8, <3>1, <3>2
  <2> QED
    BY <2>1, <2>2
<1> QED
  BY <1>4, <1>5, <1>7, <1>8, <1>11, <1>12, <1>13 DEF done

\* Compression fills at most SpkcacheLen slots, each with mean silence or with
\* a row it was given.
LEMMA GatherFacts ==
    ASSUME NEW rows \in Seq(Nat), Len(rows) > 0, NEW chosen \in SUBSET Int
    PROVE  /\ Gather(rows, chosen) \in Seq(Nat)
           /\ Len(Gather(rows, chosen)) <= SpkcacheLen
           /\ \A i \in 1..Len(Gather(rows, chosen)) :
                 \/ Gather(rows, chosen)[i] = Silence
                 \/ \E j \in 1..Len(rows) : Gather(rows, chosen)[i] = rows[j]
<1> DEFINE n         == Len(rows)
           size      == Least(SpkcacheLen, NumSpeakers * (n + SilFramesPerSpk))
           Ranked(i) == {x \in chosen : Cardinality({y \in chosen : y <= x}) = i}
           RowAt(x)  == IF FrameOf(x, n) > n THEN Silence ELSE rows[FrameOf(x, n)]
           Slot(i)   == IF Ranked(i) = {} THEN Silence
                        ELSE RowAt(CHOOSE x \in Ranked(i) : TRUE)
<1>1. Gather(rows, chosen) = [i \in 1..size |-> Slot(i)]
  BY DEF Gather
<1>2. n \in Nat /\ size \in Nat /\ size <= SpkcacheLen
  BY DiarizerAssumption DEF Least
<1>3. ASSUME NEW i \in 1..size
      PROVE  Slot(i) = Silence \/ \E j \in 1..n : Slot(i) = rows[j]
  <2>1. CASE Ranked(i) = {}
    BY <2>1
  <2>2. CASE Ranked(i) # {}
    <3> DEFINE x == CHOOSE y \in Ranked(i) : TRUE
    <3>1. x \in Int
      BY <2>2
    <3>2. n + SilFramesPerSpk \in Nat \ {0}
      BY <1>2, DiarizerAssumption
    <3> HIDE DEF x, n
    <3>3. FrameOf(x, n) \in Int /\ FrameOf(x, n) >= 1
      BY <3>1, <3>2 DEF FrameOf
    <3>4. RowAt(x) = Silence \/ \E j \in 1..n : RowAt(x) = rows[j]
      BY <1>2, <3>3
    <3> QED
      BY <2>2, <3>4 DEF x
  <2> QED
    BY <2>1, <2>2
<1>4. \A i \in 1..size : Slot(i) \in Nat
  <2>1. \A j \in 1..n : rows[j] \in Nat
    BY ElementOfSeq
  <2> HIDE DEF Slot, size, n
  <2> QED
    BY <1>3, <2>1 DEF Silence
<1> HIDE DEF size, Slot
<1>5. Gather(rows, chosen) \in Seq(Nat) /\ Len(Gather(rows, chosen)) = size
  BY <1>1, <1>2, <1>4
<1> QED
  BY <1>1, <1>2, <1>3, <1>5

\* Every choice is a set of flat indices.
LEMMA ChoicesFacts ==
    ASSUME NEW p \in Seq(Nat), NEW chosen \in Choices(p)
    PROVE  chosen \in SUBSET Int
<1>1. Pads(Len(p)) \subseteq Int
  BY DiarizerAssumption DEF Pads, Flat, Speakers
<1>2. Voiced(p) \subseteq Int
  BY DiarizerAssumption DEF Voiced, Flat, Speakers
<1>3. PICK best \in [1..(SpkcacheLen - Cardinality(Pads(Len(p)))) -> Voiced(p) \union {0}] :
          chosen = Pads(Len(p)) \union
                     ({best[i] : i \in 1..(SpkcacheLen - Cardinality(Pads(Len(p))))} \ {0})
  BY DEF Choices
<1> QED
  BY <1>1, <1>2, <1>3

\* Whatever streaming_update does, both queues keep their bounds, their
\* predictions and their place among the frames.
LEMMA UpdateFacts ==
    ASSUME IInv, MoreChunks, streaming_update
    PROVE  /\ fifo' \in Seq(Nat) /\ Len(fifo') <= FifoLen /\ fifo_preds' = fifo'
           /\ spkcache' \in Seq(Nat) /\ Len(spkcache') <= SpkcacheLen
           /\ spkcache_preds' \in {<<>>, <<spkcache'>>}
           /\ \A i \in 1..Len(fifo') :
                 fifo'[i] = Len(diar) + Len(output) + chunk_len - Len(fifo') + i
           /\ \A i \in 1..Len(spkcache') :
                 spkcache'[i] <= Len(diar) + Len(output) + chunk_len - Len(fifo')
<1> DEFINE done == Len(diar) + Len(output)
<1>1. /\ grown_fifo \in Seq(Nat) /\ grown_preds = grown_fifo
      /\ Len(grown_fifo) = Len(fifo) + chunk_len
      /\ pop \in Nat /\ pop <= Len(grown_fifo) /\ Len(grown_fifo) - pop <= FifoLen
      /\ grown_cache \in Seq(Nat) /\ grown_cache_preds = grown_cache
      /\ Len(grown_cache) = Len(spkcache) + pop
      /\ \A i \in 1..Len(grown_fifo) : grown_fifo[i] = done - Len(fifo) + i
      /\ \A i \in 1..Len(grown_cache) : grown_cache[i] <= done - Len(fifo) + pop
  BY GrowthFacts
<1>2. /\ spkcache \in Seq(Nat) /\ fifo \in Seq(Nat) /\ Len(spkcache) <= SpkcacheLen
      /\ spkcache_preds \in {<<>>, <<spkcache>>} /\ done \in Nat
      /\ \A i \in 1..Len(spkcache) : spkcache[i] <= done - Len(fifo)
  BY SMTT(30) DEF IInv, TypeOK, PredsFollowRows, Rows, FifoIsTheTail, CallIsOpen, MoreChunks
<1>3. chunk_len \in Nat
  BY ChunkFacts
<1>4. FifoLen \in Nat /\ SpkcacheLen \in Nat
  BY DiarizerAssumption
<1> HIDE DEF done
<1>5. CASE Len(fifo) + chunk_len <= FifoLen
  <2>1. /\ fifo' = grown_fifo /\ fifo_preds' = grown_fifo
        /\ spkcache' = spkcache /\ spkcache_preds' = spkcache_preds
    BY <1>1, <1>5 DEF streaming_update, KeepFifo
  <2>2. Len(fifo') = Len(fifo) + chunk_len
    BY <1>1, <2>1
  <2>3. ASSUME NEW i \in 1..Len(fifo')
        PROVE  fifo'[i] = done + chunk_len - Len(fifo') + i
    <3>1. fifo'[i] = done - Len(fifo) + i
      BY <1>1, <2>1
    <3>2. done - Len(fifo) = done + chunk_len - Len(fifo')
      BY <1>2, <1>3, <2>2
    <3> QED
      BY <3>1, <3>2
  <2>4. \A i \in 1..Len(spkcache') : spkcache'[i] <= done + chunk_len - Len(fifo')
    BY <1>2, <1>3, <2>1, <2>2
  <2> QED
    BY <1>1, <1>2, <1>5, <2>1, <2>2, <2>3, <2>4 DEF done
<1>6. CASE ~(Len(fifo) + chunk_len <= FifoLen)
  <2> DEFINE rest == Len(grown_fifo) - pop
  <2>1. /\ fifo' = SubSeq(grown_fifo, pop + 1, Len(grown_fifo)) /\ fifo_preds' = fifo'
        /\ IF Len(grown_cache) > SpkcacheLen THEN CompressCache ELSE GrowCache
    BY <1>1, <1>6 DEF streaming_update, PopFifo, Drop
  <2>2. /\ rest \in Nat /\ pop + rest = Len(grown_fifo)
        /\ rest = Len(fifo) + chunk_len - pop /\ rest <= FifoLen
    BY <1>1, <1>2, <1>3
  <2> HIDE DEF rest
  <2>3. /\ SubSeq(grown_fifo, pop + 1, pop + rest) \in Seq(Nat)
        /\ Len(SubSeq(grown_fifo, pop + 1, pop + rest)) = rest
        /\ \A i \in 1..rest :
              SubSeq(grown_fifo, pop + 1, pop + rest)[i] = grown_fifo[pop + i]
    <3>1. pop + rest <= Len(grown_fifo) /\ grown_fifo \in Seq(Nat)
      BY <1>1, <2>2
    <3>2. pop \in Nat /\ rest \in Nat
      BY <1>1, <2>2
    <3> QED
      BY <3>1, <3>2, Slice
  <2>4. /\ fifo' \in Seq(Nat) /\ Len(fifo') = rest
        /\ \A i \in 1..rest : fifo'[i] = grown_fifo[pop + i]
    BY <2>1, <2>2, <2>3
  <2>5. ASSUME NEW i \in 1..rest
        PROVE  fifo'[i] = done + chunk_len - rest + i
    <3>1. pop + i \in 1..Len(grown_fifo)
      BY <1>1, <2>2
    <3>2. fifo'[i] = done - Len(fifo) + (pop + i)
      BY <1>1, <2>4, <3>1
    <3> QED
      BY <1>1, <1>2, <1>3, <2>2, <3>2
  <2>6. \A i \in 1..Len(grown_cache) : grown_cache[i] <= done + chunk_len - rest
    <3>1. done - Len(fifo) + pop = done + chunk_len - rest
      BY <1>1, <1>2, <1>3, <2>2
    <3> QED
      BY <1>1, <3>1
  <2>7. /\ spkcache' \in Seq(Nat) /\ Len(spkcache') <= SpkcacheLen
        /\ spkcache_preds' \in {<<>>, <<spkcache'>>}
        /\ \A i \in 1..Len(spkcache') : spkcache'[i] <= done + chunk_len - rest
    <3>1. CASE Len(grown_cache) > SpkcacheLen
      <4>1. PICK chosen \in Choices(grown_cache) :
                 /\ spkcache' = Gather(grown_cache, chosen)
                 /\ spkcache_preds' = <<Gather(grown_cache, chosen)>>
        BY <1>1, <2>1, <3>1 DEF CompressCache
      <4>2. chosen \in SUBSET Int
        BY <1>1, <4>1, ChoicesFacts
      <4>3. Len(grown_cache) > 0
        BY <1>1, <1>4, <3>1
      <4>4. /\ spkcache' \in Seq(Nat) /\ Len(spkcache') <= SpkcacheLen
            /\ \A i \in 1..Len(spkcache') :
                  \/ spkcache'[i] = Silence
                  \/ \E j \in 1..Len(grown_cache) : spkcache'[i] = grown_cache[j]
        <5> DEFINE kept == Gather(grown_cache, chosen)
        <5>1. /\ kept \in Seq(Nat) /\ Len(kept) <= SpkcacheLen
              /\ \A i \in 1..Len(kept) :
                    \/ kept[i] = Silence
                    \/ \E j \in 1..Len(grown_cache) : kept[i] = grown_cache[j]
          <6>1. grown_cache \in Seq(Nat)
            BY <1>1
          <6> QED
            BY <4>2, <4>3, <6>1, GatherFacts
        <5> HIDE DEF kept
        <5>2. spkcache' = kept
          BY <4>1 DEF kept
        <5> QED
          BY <5>1, <5>2
      <4>5. Silence <= done + chunk_len - rest
        <5>1. 1 \in 1..Len(grown_cache) /\ grown_cache[1] \in Nat
          BY <1>1, <4>3
        <5>2. grown_cache[1] <= done + chunk_len - rest
          BY <2>6, <5>1
        <5> QED
          BY <1>2, <1>3, <2>2, <5>1, <5>2 DEF Silence
      <4> QED
        BY <2>6, <4>1, <4>4, <4>5
    <3>2. CASE ~(Len(grown_cache) > SpkcacheLen)
      <4>1. /\ spkcache' = grown_cache
            /\ spkcache_preds' \in {<<>>, <<grown_cache>>}
        BY <1>1, <2>1, <3>2 DEF GrowCache
      <4> QED
        BY <1>1, <1>2, <1>4, <2>6, <3>2, <4>1
    <3> QED
      BY <3>1, <3>2
  <2>8. Len(fifo') <= FifoLen /\ fifo_preds' = fifo'
    BY <2>1, <2>2, <2>4
  <2>9. \A i \in 1..Len(fifo') : fifo'[i] = done + chunk_len - Len(fifo') + i
    BY <2>4, <2>5
  <2>10. \A i \in 1..Len(spkcache') : spkcache'[i] <= done + chunk_len - Len(fifo')
    BY <2>4, <2>7
  <2> QED
    BY <2>4, <2>7, <2>8, <2>9, <2>10 DEF done
<1> QED
  BY <1>5, <1>6

-----------------------------------------------------------------------------
(* Every step keeps the invariant                                          *)

\* The queues of a new recording are empty sequences.
LEMMA EmptyQueue ==
    /\ <<>> \in Seq(Nat) /\ <<>> \in Seq(Seq(Nat)) /\ Len(<<>>) = 0
    /\ 1..0 = {}
BY EmptySeq

\* A handle that has just been created is at the start of a recording.
LEMMA InitInvariant == Init => IInv
<1> SUFFICES ASSUME Init PROVE IInv
  OBVIOUS
<1>1. TypeOK
  <2>1. diarizer \in BOOLEAN /\ finished \in BOOLEAN
    BY DEF Init
  <2>2. spkcache_preds \in Seq(Seq(Rows)) /\ Len(spkcache_preds) <= 1
    BY EmptyQueue DEF Init, Rows
  <2>3. /\ spkcache \in Seq(Rows) /\ Len(spkcache) <= SpkcacheLen
        /\ fifo \in Seq(Rows) /\ Len(fifo) <= FifoLen
        /\ fifo_preds \in Seq(Rows) /\ output \in Seq(Rows) /\ diar \in Seq(Rows)
    BY EmptyQueue, DiarizerAssumption DEF Init, Rows
  <2> QED
    BY <2>1, <2>2, <2>3 DEF Init, TypeOK
<1>2. PredsFollowRows /\ CallIsOpen /\ OutputInOrder /\ FramesInOrder /\ FifoIsTheTail
  BY EmptyQueue
     DEF Init, PredsFollowRows, CallIsOpen, OutputInOrder, FramesInOrder, FifoIsTheTail
<1>3. Position
  <2>1. total_mel \in Nat /\ chunk_mel \in Nat
    BY DiarizerAssumption DEF Init, total_mel, FrameCount, chunk_mel
  <2> QED
    BY <2>1, EmptyQueue, DiarizerAssumption DEF Init, Position
<1> QED
  BY <1>1, <1>2, <1>3 DEF IInv

\* reset forgets queues, cursor and frames together.
LEMMA StartKeeps == ASSUME IInv, Start PROVE IInv'
<1> USE DEF Start, Reset
<1>0. call = "none" /\ output = <<>>
  BY DEF IInv, CallIsOpen
<1>1. TypeOK'
  <2>1. diarizer' \in BOOLEAN /\ finished' \in BOOLEAN
    BY DEF IInv, TypeOK
  <2>2. spkcache_preds' \in Seq(Seq(Rows)) /\ Len(spkcache_preds') <= 1
    BY EmptyQueue DEF Rows
  <2>3. /\ spkcache' \in Seq(Rows) /\ Len(spkcache') <= SpkcacheLen
        /\ fifo' \in Seq(Rows) /\ Len(fifo') <= FifoLen
        /\ fifo_preds' \in Seq(Rows) /\ output' \in Seq(Rows) /\ diar' \in Seq(Rows)
    BY <1>0, EmptyQueue, DiarizerAssumption DEF Rows
  <2> QED
    BY <1>0, <2>1, <2>2, <2>3 DEF TypeOK
<1>2. PredsFollowRows' /\ CallIsOpen' /\ OutputInOrder' /\ FramesInOrder' /\ FifoIsTheTail'
  BY <1>0, EmptyQueue
     DEF PredsFollowRows, CallIsOpen, OutputInOrder, FramesInOrder, FifoIsTheTail
<1>3. Position'
  <2>1. total_mel' \in Nat /\ chunk_mel' \in Nat
    BY DiarizerAssumption DEF total_mel, FrameCount, chunk_mel
  <2>2. Len(diar') + Len(output') = 0
    BY <1>0, EmptyQueue
  <2> QED
    BY <2>1, <2>2, DiarizerAssumption DEF Position
<1> QED
  BY <1>1, <1>2, <1>3 DEF IInv

\* More audio moves the end of the recording away from the cursor.
LEMMA PushKeeps == ASSUME IInv, NEW n \in PushSizes, PushSamples(n) PROVE IInv'
<1>1. /\ UNCHANGED <<diarizer, next_chunk, finished, state, output, diar>>
      /\ audio' = audio + n /\ call' = "push" /\ n \in Nat
      /\ call = "none" /\ diarizer /\ ~finished
  BY DiarizerAssumption DEF PushSamples
<1>2. TypeOK'
  BY <1>1 DEF IInv, TypeOK, state
<1>3. PredsFollowRows' /\ FifoIsTheTail' /\ CallIsOpen' /\ OutputInOrder' /\ FramesInOrder'
  BY <1>1 DEF IInv, PredsFollowRows, FifoIsTheTail, CallIsOpen, OutputInOrder,
              FramesInOrder, state
<1>4. Position'
  <2>1. /\ next_chunk * chunk_mel <= total_mel
        /\ Len(diar) + Len(output) = next_chunk * ChunkLen
    BY <1>1 DEF IInv, Position
  <2>2. total_mel \in Nat /\ total_mel' \in Nat /\ total_mel <= total_mel'
    <3>1. /\ audio \in Nat /\ audio' \in Nat /\ audio <= audio'
          /\ Hop \in Nat \ {0}
      BY <1>1, DiarizerAssumption DEF IInv, TypeOK
    <3> QED
      BY <3>1, DivMonotone DEF total_mel, FrameCount
  <2>3. next_chunk * chunk_mel \in Nat
    BY DiarizerAssumption DEF IInv, TypeOK, chunk_mel
  <2>4. chunk_mel' = chunk_mel
    BY DEF chunk_mel
  <2> QED
    BY <1>1, <2>1, <2>2, <2>3, <2>4 DEF Position
<1> QED
  BY <1>2, <1>3, <1>4 DEF IInv

\* finish only opens its call.
LEMMA FinishKeeps == ASSUME IInv, Finish PROVE IInv'
<1>1. /\ UNCHANGED <<diarizer, audio, next_chunk, finished, state, output, diar>>
      /\ call' = "finish" /\ call = "none" /\ diarizer /\ ~finished
  BY DEF Finish
<1>2. TypeOK'
  BY <1>1 DEF IInv, TypeOK, state
<1>3. PredsFollowRows' /\ FifoIsTheTail' /\ CallIsOpen' /\ OutputInOrder' /\ FramesInOrder'
  BY <1>1 DEF IInv, PredsFollowRows, FifoIsTheTail, CallIsOpen, OutputInOrder,
              FramesInOrder, state
<1>4. total_mel' = total_mel /\ chunk_mel' = chunk_mel
  BY <1>1 DEF total_mel, chunk_mel, FrameCount
<1>5. Position'
  BY <1>1, <1>4 DEF IInv, Position
<1> QED
  BY <1>2, <1>3, <1>5 DEF IInv

\* The frames of a chunk continue the frames before it, and a last, shorter
\* chunk ends with the recording.
LEMMA ProcessKeeps == ASSUME IInv, ProcessChunk PROVE IInv'
<1> DEFINE done == Len(diar) + Len(output)
<1>1. /\ MoreChunks /\ streaming_update
      /\ UNCHANGED <<diarizer, call, audio, finished, diar>>
      /\ next_chunk' = next_chunk + 1 /\ output' = output \o chunk_preds
  BY DEF ProcessChunk
<1>2. /\ audio \in Nat /\ next_chunk \in Nat
      /\ diar \in Seq(Nat) /\ output \in Seq(Nat) /\ done \in Nat
  BY DEF IInv, TypeOK, Rows
<1>3. /\ chunk_len \in Nat /\ chunk \in Seq(Nat) /\ Len(chunk) = chunk_len
      /\ done = next_chunk * ChunkLen
      /\ \A i \in 1..chunk_len : chunk[i] = done + i
      /\ output' = output \o chunk
  BY <1>1, ChunkFacts
<1>4. /\ output' \in Seq(Nat) /\ Len(output') = Len(output) + chunk_len
      /\ \A i \in 1..Len(output) + chunk_len :
            output'[i] = IF i <= Len(output) THEN output[i] ELSE chunk[i - Len(output)]
  BY <1>2, <1>3, ConcatProperties
<1>5. Len(diar') + Len(output') = done + chunk_len
  BY <1>1, <1>2, <1>3, <1>4
<1>6. /\ fifo' \in Seq(Nat) /\ Len(fifo') <= FifoLen /\ fifo_preds' = fifo'
      /\ spkcache' \in Seq(Nat) /\ Len(spkcache') <= SpkcacheLen
      /\ spkcache_preds' \in {<<>>, <<spkcache'>>}
      /\ \A i \in 1..Len(fifo') : fifo'[i] = done + chunk_len - Len(fifo') + i
      /\ \A i \in 1..Len(spkcache') : spkcache'[i] <= done + chunk_len - Len(fifo')
  BY <1>1, UpdateFacts
<1> HIDE DEF done
<1>7. TypeOK'
  <2>1. spkcache_preds' \in Seq(Seq(Nat)) /\ Len(spkcache_preds') <= 1
    <3>1. CASE spkcache_preds' = <<>>
      BY <3>1, EmptyQueue
    <3>2. CASE spkcache_preds' = <<spkcache'>>
      <4>1. <<spkcache'>> \in Seq(Seq(Nat)) /\ Len(<<spkcache'>>) = 1
        BY <1>6
      <4> QED
        BY <3>2, <4>1
    <3> QED
      BY <1>6, <3>1, <3>2
  <2> QED
    BY <1>1, <1>2, <1>4, <1>6, <2>1 DEF IInv, TypeOK, Rows
<1>8. PredsFollowRows' /\ CallIsOpen' /\ FramesInOrder'
  BY <1>1, <1>6 DEF IInv, PredsFollowRows, CallIsOpen, FramesInOrder, MoreChunks
<1>9. FifoIsTheTail'
  <2>1. ASSUME NEW i \in 1..Len(fifo')
        PROVE  fifo'[i] = Len(diar') + Len(output') - Len(fifo') + i
    <3>1. fifo'[i] = done + chunk_len - Len(fifo') + i
      BY <1>6
    <3>2. done \in Int /\ chunk_len \in Int /\ Len(fifo') \in Int
      BY <1>2, <1>3, <1>6
    <3> QED
      BY <1>5, <3>1, <3>2
  <2>2. ASSUME NEW i \in 1..Len(spkcache')
        PROVE  spkcache'[i] <= Len(diar') + Len(output') - Len(fifo')
    <3>1. spkcache'[i] <= done + chunk_len - Len(fifo')
      BY <1>6
    <3>2. done \in Int /\ chunk_len \in Int /\ Len(fifo') \in Int
      BY <1>2, <1>3, <1>6
    <3> QED
      BY <1>5, <3>1, <3>2
  <2> QED
    BY <2>1, <2>2 DEF FifoIsTheTail
<1>10. OutputInOrder'
  <2> SUFFICES ASSUME NEW i \in 1..Len(output')
               PROVE  output'[i] = Len(diar) + i
    BY <1>1 DEF OutputInOrder
  <2>1. CASE i <= Len(output)
    <3>1. i \in 1..Len(output) /\ i \in 1..Len(output) + chunk_len
      BY <1>2, <1>3, <1>4, <2>1
    <3> QED
      BY <1>4, <2>1, <3>1 DEF IInv, OutputInOrder
  <2>2. CASE ~(i <= Len(output))
    <3>1. i - Len(output) \in 1..chunk_len
      BY <1>2, <1>3, <1>4, <2>2
    <3>2. output'[i] = done + (i - Len(output))
      BY <1>3, <1>4, <2>2, <3>1
    <3> QED
      BY <1>2, <3>2 DEF done
  <2> QED
    BY <2>1, <2>2
<1>11. Position'
  <2>1. /\ total_mel \in Nat /\ chunk_mel \in Nat \ {0}
        /\ chunk_start \in Nat /\ chunk_start < total_mel
        /\ call = "push" => chunk_start + chunk_mel <= total_mel
    BY <1>1, <1>2, MoreChunksFacts
  <2>2. total_mel' = total_mel /\ chunk_mel' = chunk_mel
    BY <1>1 DEF total_mel, chunk_mel, FrameCount
  <2>3. next_chunk' * chunk_mel = chunk_start + chunk_mel
    BY <1>1, <1>2, <2>1 DEF chunk_start
  <2>4. chunk_len = CeilDiv(chunk_end - chunk_start, Sub)
    BY <1>1, <1>2, ChunkGeometry
  <2>5. Sub \in Nat \ {0} /\ ChunkLen \in Nat
    BY DiarizerAssumption
  <2>6. ~finished /\ call \in {"push", "finish"}
    BY <1>1 DEF IInv, CallIsOpen, MoreChunks
  <2>7. CASE chunk_start + chunk_mel <= total_mel
    <3>1. chunk_end - chunk_start = ChunkLen * Sub
      BY <2>1, <2>7 DEF chunk_end, Least, chunk_mel
    <3>2. chunk_len = ChunkLen
      BY <2>4, <2>5, <3>1, CeilDivFacts
    <3>3. done + chunk_len = next_chunk' * ChunkLen
      BY <1>1, <1>2, <1>3, <2>5, <3>2
    <3>4. next_chunk' * chunk_mel <= total_mel
      BY <2>3, <2>7
    <3> QED
      BY <1>1, <1>5, <2>2, <2>6, <3>3, <3>4 DEF Position
  <2>8. CASE ~(chunk_start + chunk_mel <= total_mel)
    <3>1. chunk_end = total_mel
      BY <2>1, <2>8 DEF chunk_end, Least
    <3>2. chunk_start = done * Sub
      BY <1>2, <1>3, <2>5 DEF chunk_start, chunk_mel
    <3>3. total_mel - chunk_start \in Nat
      BY <2>1
    <3>4. CeilDiv(done * Sub + (total_mel - chunk_start), Sub)
             = done + CeilDiv(total_mel - chunk_start, Sub)
      <4> DEFINE left == total_mel - chunk_start
      <4>1. left \in Nat
        BY <3>3
      <4> HIDE DEF left
      <4>2. CeilDiv(done * Sub + left, Sub) = done + CeilDiv(left, Sub)
        BY <1>2, <2>5, <4>1, CeilDivFacts
      <4> QED
        BY <4>2 DEF left
    <3>5. done * Sub + (total_mel - chunk_start) = total_mel
      BY <2>1, <3>2
    <3>6. done + chunk_len = CeilDiv(total_mel, Sub)
      BY <2>4, <3>1, <3>4, <3>5
    <3>7. total_mel <= next_chunk' * chunk_mel
      BY <2>1, <2>3, <2>8
    <3> QED
      BY <1>1, <1>5, <2>1, <2>2, <2>6, <2>8, <3>6, <3>7 DEF Position
  <2> QED
    BY <2>7, <2>8
<1> QED
  BY <1>7, <1>8, <1>9, <1>10, <1>11 DEF IInv

\* A diarizer that is dropped takes its unreturned frames with it.
LEMMA FailKeeps == ASSUME IInv, ChunkFails PROVE IInv'
<1>1. /\ diarizer' = FALSE /\ output' = <<>> /\ call' = "none"
      /\ UNCHANGED <<audio, next_chunk, finished, state, diar>>
  BY DEF ChunkFails
<1>2. TypeOK'
  BY <1>1, EmptyQueue DEF IInv, TypeOK, state, Rows
<1>3. PredsFollowRows' /\ FramesInOrder'
  BY <1>1 DEF IInv, PredsFollowRows, FramesInOrder, state
<1>4. CallIsOpen' /\ OutputInOrder' /\ FifoIsTheTail' /\ Position'
  BY <1>1, EmptyQueue DEF CallIsOpen, OutputInOrder, FifoIsTheTail, Position
<1> QED
  BY <1>2, <1>3, <1>4 DEF IInv

\* Return moves the frames of the call behind those of the calls before it.
LEMMA ReturnKeeps == ASSUME IInv, Return PROVE IInv'
<1>1. /\ call # "none" /\ ~MoreChunks /\ call' = "none" /\ output' = <<>>
      /\ diar' = diar \o output /\ finished' = (call = "finish")
      /\ UNCHANGED <<diarizer, audio, next_chunk, state>>
      /\ diarizer /\ ~finished
  BY DEF Return, IInv, CallIsOpen
<1>2. diar \in Seq(Nat) /\ output \in Seq(Nat)
  BY DEF IInv, TypeOK, Rows
<1>3. /\ diar' \in Seq(Nat) /\ Len(diar') = Len(diar) + Len(output)
      /\ \A i \in 1..Len(diar) + Len(output) :
            diar'[i] = IF i <= Len(diar) THEN diar[i] ELSE output[i - Len(diar)]
  BY <1>1, <1>2, ConcatProperties
<1>4. Len(diar') + Len(output') = Len(diar) + Len(output)
  BY <1>1, <1>2, <1>3, EmptyQueue
<1>5. TypeOK'
  <2>1. diarizer' \in BOOLEAN /\ finished' \in BOOLEAN
    BY <1>1 DEF IInv, TypeOK
  <2> QED
    BY <1>1, <1>3, <2>1, EmptyQueue DEF IInv, TypeOK, state, Rows
<1>6. PredsFollowRows' /\ CallIsOpen' /\ OutputInOrder'
  BY <1>1, EmptyQueue DEF IInv, PredsFollowRows, CallIsOpen, OutputInOrder, state
<1>7. FifoIsTheTail'
  BY <1>1, <1>4 DEF IInv, FifoIsTheTail, state
<1>8. FramesInOrder'
  <2> SUFFICES ASSUME NEW i \in 1..Len(diar') PROVE diar'[i] = i
    BY DEF FramesInOrder
  <2>1. CASE i <= Len(diar)
    <3>1. i \in 1..Len(diar) /\ i \in 1..Len(diar) + Len(output)
      BY <1>2, <1>3, <2>1
    <3> QED
      BY <1>3, <2>1, <3>1 DEF IInv, FramesInOrder
  <2>2. CASE ~(i <= Len(diar))
    <3>1. i - Len(diar) \in 1..Len(output)
      BY <1>2, <1>3, <2>2
    <3>2. diar'[i] = output[i - Len(diar)]
      BY <1>2, <1>3, <2>2
    <3>3. output[i - Len(diar)] = Len(diar) + (i - Len(diar))
      BY <3>1 DEF IInv, OutputInOrder
    <3> QED
      BY <1>2, <3>2, <3>3
  <2> QED
    BY <2>1, <2>2
<1>9. Position'
  <2>1. total_mel' = total_mel /\ chunk_mel' = chunk_mel
    BY <1>1 DEF total_mel, chunk_mel, FrameCount
  <2>2. total_mel \in Nat /\ next_chunk * chunk_mel \in Nat
    <3>1. audio \in Nat /\ next_chunk \in Nat
      BY DEF IInv, TypeOK
    <3> QED
      BY <3>1, DiarizerAssumption DEF total_mel, FrameCount, chunk_mel
  <2>3. call = "finish" => total_mel <= next_chunk * chunk_mel
    BY <1>1, <2>2 DEF MoreChunks
  <2> QED
    BY <1>1, <1>4, <2>1, <2>2, <2>3 DEF IInv, Position
<1> QED
  BY <1>5, <1>6, <1>7, <1>8, <1>9 DEF IInv

\* The invariant is inductive.
LEMMA NextKeeps == IInv /\ [Next]_vars => IInv'
<1> SUFFICES ASSUME IInv, [Next]_vars PROVE IInv'
  OBVIOUS
<1>1. CASE Start
  BY <1>1, StartKeeps
<1>2. CASE \E n \in PushSizes : PushSamples(n)
  BY <1>2, PushKeeps
<1>3. CASE Finish
  BY <1>3, FinishKeeps
<1>4. CASE ProcessChunk
  BY <1>4, ProcessKeeps
<1>5. CASE ChunkFails
  BY <1>5, FailKeeps
<1>6. CASE Return
  BY <1>6, ReturnKeeps
<1>7. CASE UNCHANGED vars
  <2> USE <1>7 DEF vars, state
  <2>1. TypeOK' /\ PredsFollowRows' /\ FifoIsTheTail' /\ CallIsOpen'
    BY DEF IInv, TypeOK, PredsFollowRows, FifoIsTheTail, CallIsOpen
  <2>2. total_mel' = total_mel /\ chunk_mel' = chunk_mel
    BY DEF total_mel, chunk_mel, FrameCount
  <2>3. Position' /\ OutputInOrder' /\ FramesInOrder'
    BY <2>2 DEF IInv, Position, OutputInOrder, FramesInOrder
  <2> QED
    BY <2>1, <2>3 DEF IInv
<1> QED
  BY <1>1, <1>2, <1>3, <1>4, <1>5, <1>6, <1>7 DEF Next

-----------------------------------------------------------------------------
(* Numbers                                                                 *)

\* A set of numbers that is not empty has a least one.
LEMMA LeastNumber ==
    ASSUME NEW T \in SUBSET Nat, T # {}
    PROVE  \E n \in T : \A m \in T : n <= m
<1> DEFINE R == {ss \in Nat \X Nat : ss[1] < ss[2]}
<1>1. IsWellFoundedOn(R, Nat)
  <2>1. R = OpToRel(<, Nat)
    BY DEF OpToRel
  <2> QED
    BY <2>1, NatLessThanWellFounded
<1>2. PICK n \in T : \A y \in T : ~(<<y, n>> \in R)
  <2> HIDE DEF R
  <2> QED
    BY <1>1, WFMin
<1>3. ASSUME NEW m \in T
      PROVE  n <= m
  <2>1. <<m, n>> \notin R /\ m \in Nat /\ n \in Nat
    BY <1>2
  <2>2. ~(m < n)
    BY <2>1
  <2> QED
    BY <2>1, <2>2
<1> QED
  BY <1>3

\* A set that has 0, and with each number up to n the next, has them all.
LEMMA UpTo ==
    ASSUME NEW n \in Nat, NEW T, 0 \in T, \A i \in 1..n : i - 1 \in T => i \in T
    PROVE  \A i \in 0..n : i \in T
<1> DEFINE M == (0..n) \ T
<1>1. M = {}
  <2> SUFFICES ASSUME M # {}
               PROVE  FALSE
    OBVIOUS
  <2>1. PICK i \in M : \A m \in M : i <= m
    <3>1. M \in SUBSET Nat
      OBVIOUS
    <3> HIDE DEF M
    <3> QED
      BY <3>1, LeastNumber
  <2>2. i \in 1..n /\ i \notin T
    OBVIOUS
  <2>3. i - 1 \notin M
    <3>1. i \in Nat /\ ~(i <= i - 1)
      BY <2>2
    <3> QED
      BY <2>1, <3>1
  <2> QED
    BY <2>2, <2>3
<1> QED
  BY <1>1

\* A multiple of n other than 0 is at least n away from 0.
LEMMA Times ==
    ASSUME NEW n \in Nat \ {0}, NEW a \in Int
    PROVE  /\ a >= 1 => a * n >= n
           /\ a <= -1 => a * n <= -n
OBVIOUS

\* Division undoes the index of a row and a column.
LEMMA DivMod ==
    ASSUME NEW n \in Nat \ {0}, NEW q \in Nat, NEW r \in 0..(n - 1)
    PROVE  (q * n + r) \div n = q /\ (q * n + r) % n = r
<1> DEFINE x == q * n + r
           k == x \div n
           m == x % n
<1>1. x \in Int /\ q * n \in Int
  OBVIOUS
<1>2. k \in Int /\ m \in 0..(n - 1) /\ x = n * k + m
  BY <1>1
<1> HIDE DEF k, m
<1>3. (k - q) \in Int /\ (k - q) * n = r - m
  BY <1>2
<1>4. ~(k - q >= 1) /\ ~(k - q <= -1)
  BY <1>2, <1>3, Times
<1>5. k = q
  BY <1>2, <1>4
<1>6. m = r
  BY <1>2, <1>5
<1> QED
  BY <1>5, <1>6 DEF k, m

\* A row and a column lie inside the array.
LEMMA Within ==
    ASSUME NEW n \in Nat \ {0}, NEW b \in Nat, NEW q \in 0..(b - 1), NEW r \in 0..(n - 1)
    PROVE  q * n + r \in 0..(b * n - 1)
<1>1. b - q \in Int /\ b - q >= 1 /\ q * n \in Nat /\ b * n \in Nat
  OBVIOUS
<1>2. (b - q) * n >= n
  BY <1>1, Times
<1>3. (b - q) * n = b * n - q * n
  OBVIOUS
<1> QED
  BY <1>1, <1>2, <1>3

\* An index of the array has a row and a column.
LEMMA Cells ==
    ASSUME NEW n \in Nat \ {0}, NEW b \in Nat, NEW i \in 0..(b * n - 1)
    PROVE  /\ i \div n \in 0..(b - 1) /\ i % n \in 0..(n - 1)
           /\ i = (i \div n) * n + (i % n)
<1> DEFINE k == i \div n
           m == i % n
<1>1. i \in Int /\ b * n \in Nat /\ i < b * n /\ i >= 0
  OBVIOUS
<1>2. k \in Int /\ m \in 0..(n - 1) /\ i = n * k + m
  BY <1>1
<1> HIDE DEF k, m
<1>3. k * n = n * k /\ i = k * n + m
  BY <1>2
<1>4. ~(k <= -1)
  BY <1>1, <1>2, <1>3, Times
<1>5. ~(k - b >= 0)
  <2> SUFFICES ASSUME k - b >= 0
               PROVE  FALSE
    OBVIOUS
  <2>1. (k - b) \in Nat /\ (k - b) * n \in Nat
    BY <1>2
  <2>2. (k - b) * n = k * n - b * n
    BY <1>2
  <2> QED
    BY <1>1, <1>2, <1>3, <2>1, <2>2
<1>6. k \in 0..(b - 1)
  BY <1>2, <1>4, <1>5
<1> QED
  BY <1>2, <1>3, <1>6 DEF k, m

\* The product of two sizes is a size.
LEMMA Product ==
    ASSUME NEW a \in Nat \ {0}, NEW b \in Nat \ {0}
    PROVE  a * b \in Nat \ {0}
<1>1. a * b >= b /\ a * b \in Int
  BY Times
<1> QED
  BY <1>1

-----------------------------------------------------------------------------
(* Arrays that are made of rows                                            *)

\* Each of the n rows is the entry of a hidden tensor.
Entries(rows, n) ==
    \A t \in 0..(n - 1) : rows[t] = [own |-> rows[t].own, seen |-> rows[t].seen]

\* Merging one entry alone gives it back.
LEMMA MergeOne ==
    ASSUME NEW e, e = [own |-> e.own, seen |-> e.seen]
    PROVE  Merge({e}) = e
<1>1. UNION {x.own : x \in {e}} = e.own /\ UNION {x.seen : x \in {e}} = e.seen
  OBVIOUS
<1> QED
  BY <1>1 DEF Merge

\* Merging two entries joins what they carry and what they have seen.
LEMMA MergeTwo ==
    ASSUME NEW a, NEW b
    PROVE  Merge({a, b}) = [own |-> a.own \cup b.own, seen |-> a.seen \cup b.seen]
<1>1. /\ UNION {x.own : x \in {a, b}} = a.own \cup b.own
      /\ UNION {x.seen : x \in {a, b}} = a.seen \cup b.seen
  OBVIOUS
<1> QED
  BY <1>1 DEF Merge

\* An array of n rows, each spread over its width.
LEMMA SpreadSize ==
    ASSUME NEW n \in Nat \ {0}, NEW w \in Nat \ {0}, NEW rows
    PROVE  DOMAIN Spread(rows, n, w) = 0..(n * w - 1) /\ Size(Spread(rows, n, w)) = n * w
<1>1. PICK top \in Nat : top = n * w - 1
  BY Product
<1>2. Cardinality(0..top) = n * w
  <2>1. Cardinality(0..top) = IF 0 > top THEN 0 ELSE (top - 0) + 1
    BY FS_Interval
  <2> QED
    BY <1>1, <2>1
<1>3. DOMAIN Spread(rows, n, w) = 0..top
  BY <1>1 DEF Spread
<1> QED
  BY <1>1, <1>2, <1>3 DEF Size

\* The value at row t, column c of a spread is row t.
LEMMA CellIs ==
    ASSUME NEW n \in Nat \ {0}, NEW w \in Nat \ {0}, NEW rows,
           NEW t \in 0..(n - 1), NEW c \in 0..(w - 1)
    PROVE  Spread(rows, n, w)[t * w + c] = rows[t]
<1>1. PICK i \in 0..(n * w - 1) : i = t * w + c
  BY Within
<1>2. i \div w = t
  BY <1>1, DivMod
<1>3. Spread(rows, n, w)[i] = rows[i \div w]
  BY DEF Spread
<1> QED
  BY <1>1, <1>2, <1>3

\* A spread depends on its rows only.
LEMMA SameSpread ==
    ASSUME NEW n \in Nat \ {0}, NEW w \in Nat \ {0}, NEW a, NEW b,
           \A t \in 0..(n - 1) : a[t] = b[t]
    PROVE  Spread(a, n, w) = Spread(b, n, w)
<1>1. \A i \in 0..(n * w - 1) : i \div w \in 0..(n - 1)
  BY Cells
<1>2. \A i \in 0..(n * w - 1) : a[i \div w] = b[i \div w]
  BY <1>1
<1> QED
  BY <1>2 DEF Spread

\* What is merged from a row of a spread is that row.
LEMMA RowIs ==
    ASSUME NEW n \in Nat \ {0}, NEW w \in Nat \ {0}, NEW rows, Entries(rows, n),
           NEW t \in 0..(n - 1)
    PROVE  RowOf(Spread(rows, n, w), t, w) = rows[t]
<1> DEFINE x == Spread(rows, n, w)
<1>1. ASSUME NEW i \in 0..(w - 1)
      PROVE  x[t * w + i] = rows[t]
  BY CellIs
<1>2. 0 \in 0..(w - 1)
  OBVIOUS
<1> HIDE DEF x
<1>3. {x[t * w + i] : i \in 0..(w - 1)} = {rows[t]}
  BY <1>1, <1>2
<1>4. Merge({rows[t]}) = rows[t]
  BY MergeOne DEF Entries
<1> QED
  BY <1>3, <1>4 DEF RowOf, x

\* A linear layer and a norm keep the rows; the width may change.
LEMMA LinearIs ==
    ASSUME NEW n \in Nat \ {0}, NEW ins \in Nat \ {0}, NEW outs \in Nat \ {0},
           NEW rows, Entries(rows, n)
    PROVE  Linear(Spread(rows, n, ins), n, ins, outs) = Spread(rows, n, outs)
<1> DEFINE x == Spread(rows, n, ins)
           merged == [t \in 0..(n - 1) |-> RowOf(x, t, ins)]
<1>1. Size(x) = n * ins
  BY SpreadSize
<1>2. \A t \in 0..(n - 1) : merged[t] = rows[t]
  BY RowIs
<1>3. Linear(x, n, ins, outs) = Spread(merged, n, outs)
  BY <1>1 DEF Linear
<1> HIDE DEF merged
<1>4. Spread(merged, n, outs) = Spread(rows, n, outs)
  BY <1>2, SameSpread
<1> QED
  BY <1>3, <1>4

\* Layer normalization leaves every row in its place.
LEMMA NormIs ==
    ASSUME NEW n \in Nat \ {0}, NEW w \in Nat \ {0}, NEW rows, Entries(rows, n)
    PROVE  Norm(Spread(rows, n, w), n, w) = Spread(rows, n, w)
<1> DEFINE x == Spread(rows, n, w)
           merged == [t \in 0..(n - 1) |-> RowOf(x, t, w)]
<1>1. Size(x) = n * w
  BY SpreadSize
<1>2. \A t \in 0..(n - 1) : merged[t] = rows[t]
  BY RowIs
<1>3. Norm(x, n, w) = Spread(merged, n, w)
  BY <1>1 DEF Norm
<1> HIDE DEF merged
<1>4. Spread(merged, n, w) = Spread(rows, n, w)
  BY <1>2, SameSpread
<1> QED
  BY <1>3, <1>4

\* So do the two linear layers of a feed-forward network.
LEMMA FeedForwardIs ==
    ASSUME NEW n \in Nat \ {0}, NEW w \in Nat \ {0}, NEW rows, Entries(rows, n)
    PROVE  FeedForward(Spread(rows, n, w), n, w) = Spread(rows, n, w)
<1>1. 2 * w \in Nat \ {0}
  OBVIOUS
<1>2. Linear(Spread(rows, n, w), n, w, 2 * w) = Spread(rows, n, 2 * w)
  BY <1>1, LinearIs
<1>3. Linear(Spread(rows, n, 2 * w), n, 2 * w, w) = Spread(rows, n, w)
  BY <1>1, LinearIs
<1> QED
  BY <1>2, <1>3 DEF FeedForward

\* A residual unites what the two arrays have in each row.
Both(a, b, n) ==
    [t \in 0..(n - 1) |-> [own |-> a[t].own \cup b[t].own, seen |-> a[t].seen \cup b[t].seen]]

\* A residual connection joins two spreads row by row.
LEMMA ResidualIs ==
    ASSUME NEW n \in Nat \ {0}, NEW w \in Nat \ {0}, NEW a, NEW b
    PROVE  /\ Residual(Spread(a, n, w), Spread(b, n, w)) = Spread(Both(a, b, n), n, w)
           /\ Entries(Both(a, b, n), n)
<1> DEFINE x == Spread(a, n, w)
           y == Spread(b, n, w)
           c == Both(a, b, n)
<1>1. DOMAIN x \cap DOMAIN y = 0..(n * w - 1)
  BY SpreadSize
<1>2. ASSUME NEW i \in 0..(n * w - 1)
      PROVE  Merge({x[i], y[i]}) = c[i \div w]
  <2>1. x[i] = a[i \div w] /\ y[i] = b[i \div w]
    BY DEF Spread
  <2>2. i \div w \in 0..(n - 1)
    BY Cells
  <2>3. Merge({a[i \div w], b[i \div w]}) = c[i \div w]
    BY <2>2, MergeTwo DEF Both
  <2> QED
    BY <2>1, <2>3
<1>3. Residual(x, y) = [i \in 0..(n * w - 1) |-> Merge({x[i], y[i]})]
  BY <1>1 DEF Residual
<1>4. Spread(c, n, w) = [i \in 0..(n * w - 1) |-> c[i \div w]]
  BY DEF Spread
<1> HIDE DEF x, y, c
<1>5. Residual(x, y) = Spread(c, n, w)
  BY <1>2, <1>3, <1>4
<1>6. Entries(Both(a, b, n), n)
  BY DEF Entries, Both
<1> QED
  BY <1>5, <1>6 DEF x, y, c

-----------------------------------------------------------------------------
(* Heads                                                                   *)

\* The width of all heads.
Width(heads, dim) == heads * dim

\* Every head and dimension carries the same row.
Carries(y, rows, n, heads, dim) ==
    \A h \in 0..(heads - 1), t \in 0..(n - 1), d \in 0..(dim - 1) : y[h][t][d] = rows[t]

\* Every head sees the rows.
LEMMA SplitIs ==
    ASSUME NEW n \in Nat \ {0}, NEW heads \in Nat \ {0}, NEW dim \in Nat \ {0},
           NEW w \in Nat \ {0}, w = Width(heads, dim), NEW rows
    PROVE  Carries(Split(Spread(rows, n, w), n, heads, dim), rows, n, heads, dim)
<1> DEFINE x == Spread(rows, n, w)
<1>0. w = heads * dim
  BY DEF Width
<1>1. ASSUME NEW h \in 0..(heads - 1), NEW t \in 0..(n - 1), NEW d \in 0..(dim - 1)
      PROVE  Split(x, n, heads, dim)[h][t][d] = rows[t]
  <2>1. PICK r \in 0..(w - 1) : r = h * dim + d
    BY <1>0, Within
  <2>2. x[t * w + r] = rows[t]
    BY CellIs
  <2>3. (t * heads + h) * dim + d = t * w + r
    BY <1>0, <2>1
  <2>4. Split(x, n, heads, dim)[h][t][d] = x[(t * heads + h) * dim + d]
    BY DEF Split
  <2> HIDE DEF x
  <2> QED
    BY <2>2, <2>3, <2>4
<1> QED
  BY <1>1 DEF Carries

\* The vectors of the heads were computed from the row.
LEMMA VectorIs ==
    ASSUME NEW n \in Nat \ {0}, NEW heads \in Nat \ {0}, NEW dim \in Nat \ {0}, NEW rows, NEW y,
           Carries(y, rows, n, heads, dim)
    PROVE  \A h \in 0..(heads - 1), t \in 0..(n - 1) : Vector(y, h, t, dim) = rows[t].own
<1> SUFFICES ASSUME NEW h \in 0..(heads - 1), NEW t \in 0..(n - 1)
             PROVE  Vector(y, h, t, dim) = rows[t].own
  OBVIOUS
<1>1. 0 \in 0..(dim - 1)
  OBVIOUS
<1>2. \A d \in 0..(dim - 1) : y[h][t][d] = rows[t]
  BY DEF Carries
<1>3. {y[h][t][d].own : d \in 0..(dim - 1)} = {rows[t].own}
  BY <1>1, <1>2
<1> QED
  BY <1>3 DEF Vector

\* What every head and dimension gives the same row is the spread of the rows.
LEMMA JoinIs ==
    ASSUME NEW n \in Nat \ {0}, NEW heads \in Nat \ {0}, NEW dim \in Nat \ {0},
           NEW w \in Nat \ {0}, w = Width(heads, dim), NEW rows, NEW y,
           Carries(y, rows, n, heads, dim)
    PROVE  Join(y, n, heads, dim) = Spread(rows, n, w)
<1>0. w = heads * dim
  BY DEF Width
<1>1. PICK b \in Nat : b = n * heads
  BY Product
<1>2. n * heads * dim = n * w /\ b * dim = n * w
  BY <1>0, <1>1
<1>3. ASSUME NEW i \in 0..(n * w - 1)
      PROVE  y[(i \div dim) % heads][i \div w][i % dim] = rows[i \div w]
  <2>1. i \div w \in 0..(n - 1)
    BY Cells
  <2>2. i \in 0..(b * dim - 1)
    BY <1>2
  <2>3. i \div dim \in 0..(b - 1) /\ i % dim \in 0..(dim - 1)
    BY <2>2, Cells
  <2>4. (i \div dim) % heads \in 0..(heads - 1)
    <3>1. PICK k \in Nat : k = i \div dim
      BY <2>3
    <3>2. k % heads \in 0..(heads - 1)
      OBVIOUS
    <3> QED
      BY <3>1, <3>2
  <2> QED
    BY <2>1, <2>3, <2>4 DEF Carries
<1>4. Join(y, n, heads, dim)
        = [i \in 0..(n * w - 1) |-> y[(i \div dim) % heads][i \div w][i % dim]]
  <2>1. Join(y, n, heads, dim)
          = [i \in 0..(n * heads * dim - 1) |-> y[(i \div dim) % heads][i \div (heads * dim)][i % dim]]
    BY DEF Join
  <2> QED
    BY <1>0, <1>2, <2>1
<1> QED
  BY <1>3, <1>4 DEF Spread

\* The heads share the width out.
LEMMA HeadIs ==
    ASSUME NEW dims \in Nat \ {0}, NEW heads \in Nat \ {0}, dims % heads = 0
    PROVE  dims \div heads \in Nat \ {0} /\ dims = Width(heads, dims \div heads)
<1> DEFINE dim == dims \div heads
<1>1. dim \in Int /\ dims = heads * dim + 0
  OBVIOUS
<1> HIDE DEF dim
<1>2. ~(dim <= -1)
  <2> SUFFICES ASSUME dim <= -1
               PROVE  FALSE
    OBVIOUS
  <2>1. dim * heads <= -heads
    BY <1>1, Times
  <2> QED
    BY <1>1, <2>1
<1>3. dim # 0
  BY <1>1
<1>4. dim \in Nat \ {0} /\ dims = heads * dim
  BY <1>1, <1>2, <1>3
<1> QED
  BY <1>4 DEF dim, Width

\* The query, key and value vectors of a row are made of that row.
LEMMA ProjectedIs ==
    ASSUME NEW n \in Nat \ {0}, NEW heads \in Nat \ {0}, NEW dim \in Nat \ {0},
           NEW dims \in Nat \ {0}, dims = Width(heads, dim), dim = dims \div heads,
           NEW rows, Entries(rows, n)
    PROVE  Carries(Projected(Spread(rows, n, dims), n, dims, heads), rows, n, heads, dim)
<1>1. Linear(Spread(rows, n, dims), n, dims, dims) = Spread(rows, n, dims)
  BY LinearIs
<1>2. Projected(Spread(rows, n, dims), n, dims, heads)
        = Split(Spread(rows, n, dims), n, heads, dim)
  BY <1>1 DEF Projected
<1>3. Carries(Split(Spread(rows, n, dims), n, heads, dim), rows, n, heads, dim)
  BY SplitIs
<1> QED
  BY <1>2, <1>3

-----------------------------------------------------------------------------
(* Attention and convolution                                               *)

\* The shift puts the score of position n - 1 - q + k at query q and key k.
LEMMA ShiftIs ==
    ASSUME NEW n \in Nat \ {0}, NEW heads \in Nat \ {0}, NEW raw,
           NEW h \in 0..(heads - 1), NEW q \in 0..(n - 1), NEW k \in 0..(n - 1),
           NEW positions, positions = 2 * n - 1, NEW at, at = (n - 1 - q) + k
    PROVE  RelativeShift(raw, heads, n, positions)[h][q][k] = raw[h][q][at]
<1> DEFINE i == n + q * positions + k
           r == n - q + k
           w == positions + 1
<1>1. w = 2 * n /\ w \in Nat \ {0} /\ r \in 1..(w - 1) /\ r - 1 = at
  OBVIOUS
<1>2. i = q * w + r
  OBVIOUS
<1>3. RelativeShift(raw, heads, n, positions)[h][q][k]
        = IF i % w = 0 THEN <<{}, {}>> ELSE raw[h][i \div w][(i % w) - 1]
  BY DEF RelativeShift
<1> HIDE DEF i, r, w
<1>4. i \div w = q /\ i % w = r
  <2>1. r \in 0..(w - 1)
    BY <1>1
  <2> QED
    BY <1>1, <1>2, <2>1, DivMod
<1>5. r # 0
  BY <1>1
<1> QED
  BY <1>1, <1>3, <1>4, <1>5

\* The rows of the position table.
Distances(n) == [j \in 0..(2 * n - 2) |-> [own |-> {n - 1 - j}, seen |-> {}]]

\* The position table holds the distances n - 1 down to 1 - n, a row for each.
LEMMA PositionsIs ==
    ASSUME NEW n \in Nat \ {0}
    PROVE  /\ 2 * n - 1 \in Nat \ {0} /\ Entries(Distances(n), 2 * n - 1)
           /\ Positions(n) = Spread(Distances(n), 2 * n - 1, EncoderDim)
<1>1. 2 * n - 1 \in Nat \ {0} /\ (2 * n - 1) - 1 = 2 * n - 2
  OBVIOUS
<1>2. EncoderDim \in Nat \ {0}
  BY ModelAssumption
<1>3. Entries(Distances(n), 2 * n - 1)
  BY <1>1 DEF Entries, Distances
<1>4. \A i \in 0..((2 * n - 1) * EncoderDim - 1) : i \div EncoderDim \in 0..(2 * n - 2)
  BY <1>1, <1>2, Cells
<1>5. \A i \in 0..((2 * n - 1) * EncoderDim - 1) :
         Distances(n)[i \div EncoderDim] = [own |-> {n - 1 - (i \div EncoderDim)}, seen |-> {}]
  BY <1>4 DEF Distances
<1> QED
  BY <1>1, <1>3, <1>5 DEF Positions, Spread

\* What the relative attention mixes into a row: every row at its distance.
Weighed(rows, n) ==
    [t \in 0..(n - 1) |->
        [own  |-> {},
         seen |-> {<<rows[t].own, rows[t].own, {t - j}, rows[j].own, rows[j].own>> :
                      j \in 0..(n - 1)}]]

\* After the shift, every row is weighed with every other at their distance.
LEMMA RelativeAttentionIs ==
    ASSUME NEW n \in Nat \ {0}, NEW rows, Entries(rows, n)
    PROVE  RelativeAttention(Spread(rows, n, EncoderDim), n)
             = Spread(Weighed(rows, n), n, EncoderDim)
<1> DEFINE x == Spread(rows, n, EncoderDim)
           dim == EncoderDim \div EncoderHeads
           m == 2 * n - 1
           q == Projected(x, n, EncoderDim, EncoderHeads)
           p == Projected(Positions(n), m, EncoderDim, EncoderHeads)
           raw == Positional(q, p, EncoderHeads, n, dim)
           shifted == RelativeShift(raw, EncoderHeads, n, m)
           y == AttendedRelative(q, q, q, shifted, EncoderHeads, n, dim)
<1>1. /\ EncoderDim \in Nat \ {0} /\ EncoderHeads \in Nat \ {0}
      /\ EncoderDim % EncoderHeads = 0
  BY ModelAssumption
<1>2. dim \in Nat \ {0} /\ EncoderDim = Width(EncoderHeads, dim) /\ dim = EncoderDim \div EncoderHeads
  BY <1>1, HeadIs
<1> HIDE DEF dim
<1>10. Carries(q, rows, n, EncoderHeads, dim)
  BY <1>1, <1>2, ProjectedIs
<1>11. Carries(p, Distances(n), m, EncoderHeads, dim)
  <2>1. /\ m \in Nat \ {0} /\ Entries(Distances(n), m)
        /\ Positions(n) = Spread(Distances(n), m, EncoderDim)
    BY PositionsIs
  <2> HIDE DEF m
  <2> QED
    BY <1>1, <1>2, <2>1, ProjectedIs
<1> HIDE DEF q, p
<1>12. /\ \A h \in 0..(EncoderHeads - 1), t \in 0..(n - 1) : Vector(q, h, t, dim) = rows[t].own
       /\ \A h \in 0..(EncoderHeads - 1), j \in 0..(m - 1) :
             Vector(p, h, j, dim) = Distances(n)[j].own
  <2>1. EncoderHeads \in Nat \ {0} /\ dim \in Nat \ {0} /\ m \in Nat \ {0}
    BY <1>1, <1>2
  <2> HIDE DEF x, y, m, raw, shifted
  <2>2. \A h \in 0..(EncoderHeads - 1), t \in 0..(n - 1) : Vector(q, h, t, dim) = rows[t].own
    BY <1>10, <2>1, VectorIs
  <2>3. \A h \in 0..(EncoderHeads - 1), j \in 0..(m - 1) : Vector(p, h, j, dim) = Distances(n)[j].own
    BY <1>11, <2>1, VectorIs
  <2> QED
    BY <2>2, <2>3
<1>3. ASSUME NEW h \in 0..(EncoderHeads - 1), NEW j \in 0..(2 * n - 2)
      PROVE  Vector(p, h, j, dim) = {n - 1 - j}
  <2>1. j \in 0..(m - 1)
    OBVIOUS
  <2>2. Vector(p, h, j, dim) = Distances(n)[j].own
    BY <1>12, <2>1
  <2> QED
    BY <2>2 DEF Distances
<1>4. ASSUME NEW h \in 0..(EncoderHeads - 1), NEW t \in 0..(n - 1), NEW j \in 0..(n - 1)
      PROVE  shifted[h][t][j] = <<rows[t].own, {t - j}>>
  <2>1. PICK i \in 0..(2 * n - 2) : i = (n - 1 - t) + j
    OBVIOUS
  <2>2. raw[h][t][i] = <<Vector(q, h, t, dim), Vector(p, h, i, dim)>>
    BY DEF Positional
  <2> HIDE DEF raw
  <2>3. shifted[h][t][j] = raw[h][t][i]
    <3>1. m = 2 * n - 1
      OBVIOUS
    <3> HIDE DEF m
    <3> QED
      BY <1>1, <2>1, <3>1, ShiftIs
  <2>4. n - 1 - i = t - j
    BY <2>1
  <2>5. Vector(q, h, t, dim) = rows[t].own /\ Vector(p, h, i, dim) = {n - 1 - i}
    BY <1>3, <1>12
  <2> HIDE DEF shifted
  <2> QED
    BY <2>2, <2>3, <2>4, <2>5
<1> HIDE DEF raw, shifted
<1>5. ASSUME NEW h \in 0..(EncoderHeads - 1), NEW t \in 0..(n - 1), NEW d \in 0..(dim - 1)
      PROVE  y[h][t][d] = Weighed(rows, n)[t]
  <2> DEFINE Look(j) == <<Vector(q, h, t, dim), shifted[h][t][j][1], shifted[h][t][j][2],
                          Vector(q, h, j, dim), q[h][j][d].own>>
             Weigh(j) == <<rows[t].own, rows[t].own, {t - j}, rows[j].own, rows[j].own>>
  <2>1. ASSUME NEW j \in 0..(n - 1)
        PROVE  Look(j) = Weigh(j)
    <3>1. shifted[h][t][j][1] = rows[t].own /\ shifted[h][t][j][2] = {t - j}
      <4>1. shifted[h][t][j] = <<rows[t].own, {t - j}>>
        BY <1>4
      <4> QED
        BY <4>1
    <3>2. Vector(q, h, t, dim) = rows[t].own /\ Vector(q, h, j, dim) = rows[j].own
      BY <1>12
    <3>3. q[h][j][d] = rows[j]
      BY <1>10 DEF Carries
    <3> QED
      BY <3>1, <3>2, <3>3
  <2>2. Looks(q, q, q, shifted, h, t, d, n, dim) = {Look(j) : j \in 0..(n - 1)}
    BY DEF Looks
  <2>3. y[h][t][d] = [own |-> {}, seen |-> Looks(q, q, q, shifted, h, t, d, n, dim)]
    BY DEF AttendedRelative
  <2>4. Weighed(rows, n)[t] = [own |-> {}, seen |-> {Weigh(j) : j \in 0..(n - 1)}]
    BY DEF Weighed
  <2> HIDE DEF Look, Weigh, y
  <2>5. {Look(j) : j \in 0..(n - 1)} = {Weigh(j) : j \in 0..(n - 1)}
    BY <2>1
  <2> QED
    BY <2>2, <2>3, <2>4, <2>5
<1>6. RelativeAttention(x, n)
        = Linear(Join(y, n, EncoderHeads, dim), n, EncoderDim, EncoderDim)
  BY DEF RelativeAttention, dim, m, q, p, raw, shifted
<1> HIDE DEF y, x
<1>7. Join(y, n, EncoderHeads, dim) = Spread(Weighed(rows, n), n, EncoderDim)
  <2>1. Carries(y, Weighed(rows, n), n, EncoderHeads, dim)
    BY <1>5 DEF Carries
  <2> QED
    BY <1>1, <1>2, <2>1, JoinIs
<1>8. Entries(Weighed(rows, n), n)
  BY DEF Entries, Weighed
<1>9. Linear(Spread(Weighed(rows, n), n, EncoderDim), n, EncoderDim, EncoderDim)
        = Spread(Weighed(rows, n), n, EncoderDim)
  BY <1>1, <1>8, LinearIs
<1> QED
  BY <1>6, <1>7, <1>9 DEF x

\* What the attention of the Transformer mixes into a row.
Attending(rows, n) ==
    [t \in 0..(n - 1) |->
        [own |-> {}, seen |-> {<<rows[t].own, rows[j].own, rows[j].own>> : j \in 0..(n - 1)}]]

\* The Transformer weighs every row with every other, without a distance.
LEMMA SelfAttentionIs ==
    ASSUME NEW n \in Nat \ {0}, NEW rows, Entries(rows, n)
    PROVE  SelfAttention(Spread(rows, n, TransformerDim), n)
             = Spread(Attending(rows, n), n, TransformerDim)
<1> DEFINE x == Spread(rows, n, TransformerDim)
           dim == TransformerDim \div TransformerHeads
           q == Projected(x, n, TransformerDim, TransformerHeads)
           y == Attended(q, q, q, TransformerHeads, n, dim)
<1>1. /\ TransformerDim \in Nat \ {0} /\ TransformerHeads \in Nat \ {0}
      /\ TransformerDim % TransformerHeads = 0
  BY ModelAssumption
<1>2. /\ dim \in Nat \ {0} /\ TransformerDim = Width(TransformerHeads, dim)
      /\ dim = TransformerDim \div TransformerHeads
  BY <1>1, HeadIs
<1> HIDE DEF dim
<1>10. Carries(q, rows, n, TransformerHeads, dim)
  BY <1>1, <1>2, ProjectedIs
<1> HIDE DEF q
<1>12. \A h \in 0..(TransformerHeads - 1), t \in 0..(n - 1) : Vector(q, h, t, dim) = rows[t].own
  <2>1. TransformerHeads \in Nat \ {0} /\ dim \in Nat \ {0}
    BY <1>1, <1>2
  <2> HIDE DEF x, y
  <2> QED
    BY <1>10, <2>1, VectorIs
<1>3. ASSUME NEW h \in 0..(TransformerHeads - 1), NEW t \in 0..(n - 1), NEW d \in 0..(dim - 1)
      PROVE  y[h][t][d] = Attending(rows, n)[t]
  <2>1. ASSUME NEW j \in 0..(n - 1)
        PROVE  <<Vector(q, h, t, dim), Vector(q, h, j, dim), q[h][j][d].own>>
                 = <<rows[t].own, rows[j].own, rows[j].own>>
    <3>1. Vector(q, h, t, dim) = rows[t].own /\ Vector(q, h, j, dim) = rows[j].own
      BY <1>12
    <3>2. q[h][j][d] = rows[j]
      BY <1>10 DEF Carries
    <3> QED
      BY <3>1, <3>2
  <2>2. {<<Vector(q, h, t, dim), Vector(q, h, j, dim), q[h][j][d].own>> : j \in 0..(n - 1)}
          = {<<rows[t].own, rows[j].own, rows[j].own>> : j \in 0..(n - 1)}
    BY <2>1
  <2>3. y[h][t][d]
          = [own  |-> {},
             seen |-> {<<Vector(q, h, t, dim), Vector(q, h, j, dim), q[h][j][d].own>> :
                          j \in 0..(n - 1)}]
    BY DEF Attended
  <2>4. Attending(rows, n)[t]
          = [own |-> {}, seen |-> {<<rows[t].own, rows[j].own, rows[j].own>> : j \in 0..(n - 1)}]
    BY DEF Attending
  <2> QED
    BY <2>2, <2>3, <2>4
<1>6. SelfAttention(x, n)
        = Linear(Join(y, n, TransformerHeads, dim), n, TransformerDim, TransformerDim)
  BY DEF SelfAttention, dim, q
<1> HIDE DEF y, x
<1>7. Join(y, n, TransformerHeads, dim) = Spread(Attending(rows, n), n, TransformerDim)
  <2>1. Carries(y, Attending(rows, n), n, TransformerHeads, dim)
    BY <1>3 DEF Carries
  <2> QED
    BY <1>1, <1>2, <2>1, JoinIs
<1>8. Entries(Attending(rows, n), n)
  BY DEF Entries, Attending
<1>9. Linear(Spread(Attending(rows, n), n, TransformerDim), n, TransformerDim, TransformerDim)
        = Spread(Attending(rows, n), n, TransformerDim)
  BY <1>1, <1>8, LinearIs
<1> QED
  BY <1>6, <1>7, <1>9 DEF x

\* What the convolution mixes into a row: the rows under its taps.
Filtered(rows, n) ==
    [t \in 0..(n - 1) |->
        [own  |-> {},
         seen |-> {<<tap - ((ConvKernel - 1) \div 2),
                     rows[t + tap - ((ConvKernel - 1) \div 2)].own>> :
                      tap \in {k \in 0..(ConvKernel - 1) :
                                 (t + k - ((ConvKernel - 1) \div 2)) \in 0..(n - 1)}}]]

\* The gated linear unit halves the width and leaves the rows in their places.
LEMMA GatedIs ==
    ASSUME NEW n \in Nat \ {0}, NEW rows, Entries(rows, n)
    PROVE  Gated(Spread(rows, n, 2 * EncoderDim), n) = Spread(rows, n, EncoderDim)
<1> DEFINE x == Spread(rows, n, 2 * EncoderDim)
<1>1. EncoderDim \in Nat \ {0} /\ 2 * EncoderDim \in Nat \ {0}
  BY ModelAssumption
<1>2. ASSUME NEW i \in 0..(n * EncoderDim - 1)
      PROVE  Merge({x[(i \div EncoderDim) * 2 * EncoderDim + (i % EncoderDim)],
                    x[((i \div EncoderDim) * 2 * EncoderDim + (i % EncoderDim)) + EncoderDim]})
               = rows[i \div EncoderDim]
  <2>1. PICK t \in 0..(n - 1), c \in 0..(EncoderDim - 1) : t = i \div EncoderDim /\ c = i % EncoderDim
    BY <1>1, Cells
  <2>2. PICK w \in Nat \ {0} : w = 2 * EncoderDim
    BY <1>1
  <2>3. PICK e \in 0..(w - 1) : e = c + EncoderDim
    BY <1>1, <2>2
  <2>4. Spread(rows, n, w)[t * w + e] = rows[t]
    BY ONLY n \in Nat \ {0}, w \in Nat \ {0}, t \in 0..(n - 1), e \in 0..(w - 1), CellIs
  <2>5. Spread(rows, n, w)[t * w + c] = rows[t]
    <3>1. c \in 0..(w - 1)
      BY <1>1, <2>2
    <3> QED
      BY <3>1, CellIs
  <2>6. {x[t * 2 * EncoderDim + c], x[(t * 2 * EncoderDim + c) + EncoderDim]} = {rows[t]}
    <3>1. t * 2 * EncoderDim + c = t * w + c /\ (t * 2 * EncoderDim + c) + EncoderDim = t * w + e
      BY <1>1, <2>2, <2>3
    <3>2. x = Spread(rows, n, w)
      BY <2>2
    <3> HIDE DEF x
    <3> QED
      BY <2>4, <2>5, <3>1, <3>2
  <2>7. Merge({rows[t]}) = rows[t]
    BY MergeOne DEF Entries
  <2> HIDE DEF x
  <2> QED
    BY <2>1, <2>6, <2>7
<1>3. Gated(x, n)
        = [i \in 0..(n * EncoderDim - 1) |->
             Merge({x[(i \div EncoderDim) * 2 * EncoderDim + (i % EncoderDim)],
                    x[((i \div EncoderDim) * 2 * EncoderDim + (i % EncoderDim)) + EncoderDim]})]
  BY DEF Gated
<1> HIDE DEF x
<1>4. Gated(x, n) = Spread(rows, n, EncoderDim)
  BY <1>2, <1>3 DEF Spread
<1> QED
  BY <1>4 DEF x

\* The depthwise convolution sees the rows that its taps reach, and no padding.
LEMMA ConvolutionIs ==
    ASSUME NEW n \in Nat \ {0}, NEW rows, Entries(rows, n)
    PROVE  Convolution(Spread(rows, n, EncoderDim), n) = Spread(Filtered(rows, n), n, EncoderDim)
<1> DEFINE x == Spread(rows, n, EncoderDim)
           half == (ConvKernel - 1) \div 2
           gated == Gated(Linear(x, n, EncoderDim, 2 * EncoderDim), n)
           Taps(frame) == {tap \in 0..(ConvKernel - 1) : (frame + tap - half) \in 0..(n - 1)}
           Convolved(frame, channel) ==
              {<<tap - half, gated[(frame + tap - half) * EncoderDim + channel].own>> :
                  tap \in Taps(frame)}
           mixed == [i \in 0..(n * EncoderDim - 1) |->
                       [own |-> {}, seen |-> Convolved(i \div EncoderDim, i % EncoderDim)]]
<1>1. EncoderDim \in Nat \ {0} /\ 2 * EncoderDim \in Nat \ {0}
  BY ModelAssumption
<1>2. gated = Spread(rows, n, EncoderDim)
  <2>1. Linear(x, n, EncoderDim, 2 * EncoderDim) = Spread(rows, n, 2 * EncoderDim)
    BY <1>1, LinearIs
  <2> QED
    BY <2>1, GatedIs
<1>3. Convolution(x, n) = Linear(mixed, n, EncoderDim, EncoderDim)
  BY DEF Convolution
<1> HIDE DEF half, gated
<1>4. ASSUME NEW t \in 0..(n - 1), NEW c \in 0..(EncoderDim - 1)
      PROVE  Convolved(t, c) = {<<tap - half, rows[t + tap - half].own>> : tap \in Taps(t)}
  <2>1. ASSUME NEW tap \in Taps(t)
        PROVE  gated[(t + tap - half) * EncoderDim + c] = rows[t + tap - half]
    <3>1. PICK u \in 0..(n - 1) : u = t + tap - half
      OBVIOUS
    <3>2. Spread(rows, n, EncoderDim)[u * EncoderDim + c] = rows[u]
      BY <1>1, CellIs
    <3> QED
      BY <1>2, <3>1, <3>2
  <2> HIDE DEF Taps
  <2> QED
    BY <2>1
<1>5. mixed = Spread(Filtered(rows, n), n, EncoderDim)
  <2>1. ASSUME NEW i \in 0..(n * EncoderDim - 1)
        PROVE  Filtered(rows, n)[i \div EncoderDim]
                 = [own |-> {}, seen |-> Convolved(i \div EncoderDim, i % EncoderDim)]
    <3>1. PICK t \in 0..(n - 1), c \in 0..(EncoderDim - 1) : t = i \div EncoderDim /\ c = i % EncoderDim
      BY <1>1, Cells
    <3>2. Filtered(rows, n)[t]
            = [own |-> {}, seen |-> {<<tap - half, rows[t + tap - half].own>> : tap \in Taps(t)}]
      BY DEF Filtered, half
    <3> HIDE DEF Convolved, Taps
    <3> QED
      BY <1>4, <3>1, <3>2
  <2> HIDE DEF Convolved
  <2> QED
    BY <2>1 DEF Spread
<1> HIDE DEF mixed, x
<1>6. Entries(Filtered(rows, n), n)
  BY DEF Entries, Filtered
<1>7. Linear(Spread(Filtered(rows, n), n, EncoderDim), n, EncoderDim, EncoderDim)
        = Spread(Filtered(rows, n), n, EncoderDim)
  BY <1>1, <1>6, LinearIs
<1> QED
  BY <1>3, <1>5, <1>7 DEF x

-----------------------------------------------------------------------------
(* Blocks                                                                  *)

\* The rows of a hidden tensor that still are themselves: row t (from 0) is the
\* assembled row t + 1, and has looked at S[t].
Placed(S, n) == [t \in 0..(n - 1) |-> [own |-> {t + 1}, seen |-> S[t]]]

\* What row t sees of rows in their places.
Distant(t, n) == {<<{t + 1}, {t + 1}, {t - j}, {j + 1}, {j + 1}>> : j \in 0..(n - 1)}
Near(t, n) ==
    {<<tap - ((ConvKernel - 1) \div 2), {(t + tap - ((ConvKernel - 1) \div 2)) + 1}>> :
        tap \in {k \in 0..(ConvKernel - 1) : (t + k - ((ConvKernel - 1) \div 2)) \in 0..(n - 1)}}
Plain(t, n) == {<<{t + 1}, {j + 1}, {j + 1}>> : j \in 0..(n - 1)}

\* The rows have looked at U[t] as well.
More(S, U, n) == [t \in 0..(n - 1) |-> S[t] \cup U[t]]

\* A row that is placed carries itself; joined with itself it does not change.
LEMMA PlacedFacts ==
    ASSUME NEW n \in Nat \ {0}, NEW S
    PROVE  /\ Entries(Placed(S, n), n)
           /\ \A t \in 0..(n - 1) : Placed(S, n)[t] = [own |-> {t + 1}, seen |-> S[t]]
           /\ Both(Placed(S, n), Placed(S, n), n) = Placed(S, n)
<1>1. \A t \in 0..(n - 1) : Placed(S, n)[t] = [own |-> {t + 1}, seen |-> S[t]]
  BY DEF Placed
<1>2. Entries(Placed(S, n), n)
  <2>1. ASSUME NEW t \in 0..(n - 1)
        PROVE  Placed(S, n)[t] = [own |-> Placed(S, n)[t].own, seen |-> Placed(S, n)[t].seen]
    <3>1. Placed(S, n)[t] = [own |-> {t + 1}, seen |-> S[t]]
      BY <1>1
    <3>2. Placed(S, n)[t].own = {t + 1} /\ Placed(S, n)[t].seen = S[t]
      BY <3>1
    <3> QED
      BY <3>1, <3>2
  <2> QED
    BY <2>1 DEF Entries
<1>3. ASSUME NEW t \in 0..(n - 1)
      PROVE  [own  |-> Placed(S, n)[t].own \cup Placed(S, n)[t].own,
              seen |-> Placed(S, n)[t].seen \cup Placed(S, n)[t].seen]
               = [own |-> {t + 1}, seen |-> S[t]]
  BY <1>1
<1>4. Both(Placed(S, n), Placed(S, n), n) = [t \in 0..(n - 1) |-> [own |-> {t + 1}, seen |-> S[t]]]
  BY <1>3 DEF Both
<1> QED
  BY <1>1, <1>2, <1>4 DEF Placed

\* Mixing adds to what a row has seen and leaves it in its place.
LEMMA MoreIs ==
    ASSUME NEW n \in Nat \ {0}, NEW S, NEW U, NEW b,
           \A t \in 0..(n - 1) : b[t].own = {} /\ b[t].seen = U[t]
    PROVE  Both(Placed(S, n), b, n) = Placed(More(S, U, n), n)
<1>1. ASSUME NEW t \in 0..(n - 1)
      PROVE  [own  |-> Placed(S, n)[t].own \cup b[t].own,
              seen |-> Placed(S, n)[t].seen \cup b[t].seen]
               = [own |-> {t + 1}, seen |-> More(S, U, n)[t]]
  <2>1. Placed(S, n)[t].own = {t + 1} /\ Placed(S, n)[t].seen = S[t]
    BY DEF Placed
  <2>2. More(S, U, n)[t] = S[t] \cup U[t]
    BY DEF More
  <2>3. {t + 1} \cup {} = {t + 1}
    OBVIOUS
  <2> QED
    BY <2>1, <2>2, <2>3
<1> QED
  BY <1>1 DEF Both, Placed

\* What attention and convolution see in placed rows is what the offline pass sees.
LEMMA MixturesArePlaced ==
    ASSUME NEW n \in Nat \ {0}, NEW S, NEW t \in 0..(n - 1)
    PROVE  /\ Weighed(Placed(S, n), n)[t].own = {} /\ Weighed(Placed(S, n), n)[t].seen = Distant(t, n)
           /\ Filtered(Placed(S, n), n)[t].own = {} /\ Filtered(Placed(S, n), n)[t].seen = Near(t, n)
           /\ Attending(Placed(S, n), n)[t].own = {} /\ Attending(Placed(S, n), n)[t].seen = Plain(t, n)
<1> DEFINE rows == Placed(S, n)
           half == (ConvKernel - 1) \div 2
           Taps == {k \in 0..(ConvKernel - 1) : (t + k - half) \in 0..(n - 1)}
<1>1. \A j \in 0..(n - 1) : rows[j].own = {j + 1}
  BY DEF Placed
<1> HIDE DEF rows
<1>2. Weighed(rows, n)[t].own = {} /\ Weighed(rows, n)[t].seen = Distant(t, n)
  <2>1. Weighed(rows, n)[t]
          = [own |-> {}, seen |-> {<<rows[t].own, rows[t].own, {t - j}, rows[j].own, rows[j].own>> :
                                      j \in 0..(n - 1)}]
    BY DEF Weighed
  <2>2. {<<rows[t].own, rows[t].own, {t - j}, rows[j].own, rows[j].own>> : j \in 0..(n - 1)}
          = Distant(t, n)
    BY <1>1 DEF Distant
  <2> QED
    BY <2>1, <2>2
<1>3. Filtered(rows, n)[t].own = {} /\ Filtered(rows, n)[t].seen = Near(t, n)
  <2>1. Filtered(rows, n)[t]
          = [own |-> {}, seen |-> {<<tap - half, rows[t + tap - half].own>> : tap \in Taps}]
    BY DEF Filtered
  <2>2. ASSUME NEW tap \in Taps
        PROVE  rows[t + tap - half].own = {(t + tap - half) + 1}
    BY <1>1
  <2>3. Near(t, n) = {<<tap - half, {(t + tap - half) + 1}>> : tap \in Taps}
    BY DEF Near
  <2> HIDE DEF Taps, half
  <2>4. {<<tap - half, rows[t + tap - half].own>> : tap \in Taps} = Near(t, n)
    BY <2>2, <2>3
  <2> QED
    BY <2>1, <2>4
<1>4. Attending(rows, n)[t].own = {} /\ Attending(rows, n)[t].seen = Plain(t, n)
  <2>1. Attending(rows, n)[t]
          = [own |-> {}, seen |-> {<<rows[t].own, rows[j].own, rows[j].own>> : j \in 0..(n - 1)}]
    BY DEF Attending
  <2>2. {<<rows[t].own, rows[j].own, rows[j].own>> : j \in 0..(n - 1)} = Plain(t, n)
    BY <1>1 DEF Plain
  <2> QED
    BY <2>1, <2>2
<1> QED
  BY <1>2, <1>3, <1>4 DEF rows

DistantRows(n) == [t \in 0..(n - 1) |-> Distant(t, n)]
NearRows(n)    == [t \in 0..(n - 1) |-> Near(t, n)]
PlainRows(n)   == [t \in 0..(n - 1) |-> Plain(t, n)]

\* A Conformer block leaves every row in its place, after a look at every row at
\* its distance and at the rows under the taps.
LEMMA ConformerBlockIs ==
    ASSUME NEW n \in Nat \ {0}, NEW S
    PROVE  ConformerBlock(Spread(Placed(S, n), n, EncoderDim), n)
             = Spread(Placed(More(More(S, DistantRows(n), n), NearRows(n), n), n), n, EncoderDim)
<1> DEFINE D == EncoderDim
           S2 == More(S, DistantRows(n), n)
           S3 == More(S2, NearRows(n), n)
           P1 == Placed(S, n)
           P2 == Placed(S2, n)
           P3 == Placed(S3, n)
           x == Spread(P1, n, D)
           first    == Residual(x, FeedForward(Norm(x, n, D), n, D))
           attended == Residual(first, RelativeAttention(Norm(first, n, D), n))
           mixed    == Residual(attended, Convolution(Norm(attended, n, D), n))
           last     == Residual(mixed, FeedForward(Norm(mixed, n, D), n, D))
<1>0. ConformerBlock(x, n) = Norm(last, n, D)
  BY DEF ConformerBlock
<1>1. D \in Nat \ {0}
  BY ModelAssumption
<1>2. /\ Entries(P1, n) /\ Both(P1, P1, n) = P1
      /\ Entries(P2, n)
      /\ Entries(P3, n) /\ Both(P3, P3, n) = P3
  BY PlacedFacts
<1>3. Both(P1, Weighed(P1, n), n) = P2
  <2>1. \A t \in 0..(n - 1) : Weighed(P1, n)[t].own = {} /\ Weighed(P1, n)[t].seen = DistantRows(n)[t]
    BY MixturesArePlaced DEF DistantRows
  <2> QED
    BY <2>1, MoreIs
<1>4. Both(P2, Filtered(P2, n), n) = P3
  <2>1. \A t \in 0..(n - 1) : Filtered(P2, n)[t].own = {} /\ Filtered(P2, n)[t].seen = NearRows(n)[t]
    BY MixturesArePlaced DEF NearRows
  <2> QED
    BY <2>1, MoreIs
<1> HIDE DEF D, S2, S3, P1, P2, P3, first, attended, mixed, last
<1>5. first = x
  BY <1>1, <1>2, NormIs, FeedForwardIs, ResidualIs DEF first
<1>6. attended = Spread(P2, n, D)
  <2>1. RelativeAttention(x, n) = Spread(Weighed(P1, n), n, D)
    BY <1>2, RelativeAttentionIs DEF D
  <2>2. Norm(first, n, D) = x
    BY <1>1, <1>2, <1>5, NormIs
  <2> QED
    BY <1>1, <1>3, <1>5, <2>1, <2>2, ResidualIs DEF attended
<1>7. mixed = Spread(P3, n, D)
  <2>1. Convolution(Spread(P2, n, D), n) = Spread(Filtered(P2, n), n, D)
    BY <1>2, ConvolutionIs DEF D
  <2>2. Norm(attended, n, D) = Spread(P2, n, D)
    BY <1>1, <1>2, <1>6, NormIs
  <2> QED
    BY <1>1, <1>4, <1>6, <2>1, <2>2, ResidualIs DEF mixed
<1>8. last = Spread(P3, n, D)
  <2>1. Norm(mixed, n, D) = Spread(P3, n, D)
    BY <1>1, <1>2, <1>7, NormIs
  <2>2. FeedForward(Spread(P3, n, D), n, D) = Spread(P3, n, D)
    BY <1>1, <1>2, FeedForwardIs
  <2> QED
    BY <1>1, <1>2, <1>7, <2>1, <2>2, ResidualIs DEF last
<1>9. Norm(last, n, D) = Spread(P3, n, D)
  BY <1>1, <1>2, <1>8, NormIs
<1> QED
  BY <1>0, <1>9 DEF D, P1, P3, S2, S3

\* A Transformer layer leaves every row in its place, after a look at every row.
LEMMA TransformerLayerIs ==
    ASSUME NEW n \in Nat \ {0}, NEW S
    PROVE  TransformerLayer(Spread(Placed(S, n), n, TransformerDim), n)
             = Spread(Placed(More(S, PlainRows(n), n), n), n, TransformerDim)
<1> DEFINE D == TransformerDim
           S2 == More(S, PlainRows(n), n)
           P1 == Placed(S, n)
           P2 == Placed(S2, n)
           x == Spread(P1, n, D)
           hidden == Norm(Residual(x, SelfAttention(x, n)), n, D)
<1>0. TransformerLayer(x, n) = Norm(Residual(hidden, FeedForward(hidden, n, D)), n, D)
  BY DEF TransformerLayer
<1>1. D \in Nat \ {0}
  BY ModelAssumption
<1>2. /\ Entries(P1, n)
      /\ Entries(P2, n) /\ Both(P2, P2, n) = P2
  BY PlacedFacts
<1>3. Both(P1, Attending(P1, n), n) = P2
  <2>1. \A t \in 0..(n - 1) : Attending(P1, n)[t].own = {} /\ Attending(P1, n)[t].seen = PlainRows(n)[t]
    BY MixturesArePlaced DEF PlainRows
  <2> QED
    BY <2>1, MoreIs
<1> HIDE DEF D, S2, P1, P2, hidden
<1>4. hidden = Spread(P2, n, D)
  <2>1. SelfAttention(x, n) = Spread(Attending(P1, n), n, D)
    BY <1>2, SelfAttentionIs DEF D
  <2>2. Residual(x, SelfAttention(x, n)) = Spread(P2, n, D)
    BY <1>1, <1>3, <2>1, ResidualIs
  <2> QED
    BY <1>1, <1>2, <2>2, NormIs DEF hidden
<1>5. Residual(hidden, FeedForward(hidden, n, D)) = Spread(P2, n, D)
  <2>1. FeedForward(Spread(P2, n, D), n, D) = Spread(P2, n, D)
    BY <1>1, <1>2, FeedForwardIs
  <2> QED
    BY <1>1, <1>2, <1>4, <2>1, ResidualIs
<1>6. Norm(Spread(P2, n, D), n, D) = Spread(P2, n, D)
  BY <1>1, <1>2, NormIs
<1> QED
  BY <1>0, <1>5, <1>6 DEF D, P1, P2, S2

-----------------------------------------------------------------------------
(* The whole pass                                                          *)

Nothing(n) == [t \in 0..(n - 1) |-> {}]

\* What the rows have seen after the Conformer, and after the tail.
AfterEncoder(n) == More(DistantRows(n), NearRows(n), n)
AfterTail(n)    == More(AfterEncoder(n), PlainRows(n), n)

\* A second block shows a row nothing that the first did not.
LEMMA BlockAfterNothing ==
    ASSUME NEW n \in Nat \ {0}
    PROVE  /\ More(More(Nothing(n), DistantRows(n), n), NearRows(n), n) = AfterEncoder(n)
           /\ More(More(AfterEncoder(n), DistantRows(n), n), NearRows(n), n) = AfterEncoder(n)
           /\ More(AfterTail(n), PlainRows(n), n) = AfterTail(n)
<1>1. \A t \in 0..(n - 1) :
         /\ Nothing(n)[t] = {}
         /\ AfterEncoder(n)[t] = DistantRows(n)[t] \cup NearRows(n)[t]
         /\ AfterTail(n)[t] = AfterEncoder(n)[t] \cup PlainRows(n)[t]
  BY DEF Nothing, AfterEncoder, AfterTail, More
<1>2. More(More(Nothing(n), DistantRows(n), n), NearRows(n), n)
        = [t \in 0..(n - 1) |-> (Nothing(n)[t] \cup DistantRows(n)[t]) \cup NearRows(n)[t]]
  BY DEF More
<1>3. More(More(AfterEncoder(n), DistantRows(n), n), NearRows(n), n)
        = [t \in 0..(n - 1) |-> (AfterEncoder(n)[t] \cup DistantRows(n)[t]) \cup NearRows(n)[t]]
  BY DEF More
<1>4. \A t \in 0..(n - 1) :
         /\ (Nothing(n)[t] \cup DistantRows(n)[t]) \cup NearRows(n)[t]
              = DistantRows(n)[t] \cup NearRows(n)[t]
         /\ (AfterEncoder(n)[t] \cup DistantRows(n)[t]) \cup NearRows(n)[t]
              = DistantRows(n)[t] \cup NearRows(n)[t]
         /\ AfterTail(n)[t] \cup PlainRows(n)[t] = AfterEncoder(n)[t] \cup PlainRows(n)[t]
  BY <1>1
<1>5. /\ AfterEncoder(n) = [t \in 0..(n - 1) |-> DistantRows(n)[t] \cup NearRows(n)[t]]
      /\ AfterTail(n) = [t \in 0..(n - 1) |-> AfterEncoder(n)[t] \cup PlainRows(n)[t]]
      /\ More(AfterTail(n), PlainRows(n), n) = [t \in 0..(n - 1) |-> AfterTail(n)[t] \cup PlainRows(n)[t]]
  BY DEF AfterEncoder, AfterTail, More
<1> QED
  BY <1>2, <1>3, <1>4, <1>5

\* The Conformer encoder over the assembled sequence.
LEMMA ForwardEmbeddedIs ==
    ASSUME NEW n \in Nat \ {0}
    PROVE  ForwardEmbedded(Spread(Placed(Nothing(n), n), n, EncoderDim), n)
             = Spread(Placed(AfterEncoder(n), n), n, EncoderDim)
<1> DEFINE embedded == Spread(Placed(Nothing(n), n), n, EncoderDim)
           encoded == Spread(Placed(AfterEncoder(n), n), n, EncoderDim)
           Step(f) == [l \in 0..EncoderLayers |->
                         IF l = 0 THEN embedded ELSE ConformerBlock(f[l - 1], n)]
           chosen == CHOOSE f : f = Step(f)
           g == [l \in 0..EncoderLayers |-> IF l = 0 THEN embedded ELSE encoded]
<1>1. EncoderLayers \in Nat \ {0}
  BY ModelAssumption
<1>2. ConformerBlock(embedded, n) = encoded /\ ConformerBlock(encoded, n) = encoded
  BY ConformerBlockIs, BlockAfterNothing
<1> HIDE DEF embedded, encoded
<1>3. g = Step(g)
  <2>1. ASSUME NEW l \in 0..EncoderLayers, l # 0
        PROVE  ConformerBlock(g[l - 1], n) = encoded
    <3>1. l - 1 \in 0..EncoderLayers
      BY <1>1, <2>1
    <3>2. g[l - 1] \in {embedded, encoded}
      BY <3>1
    <3> QED
      BY <1>2, <3>2
  <2> QED
    BY <2>1
<1>4. chosen = Step(chosen)
  <2> HIDE DEF Step
  <2> QED
    BY <1>3
<1>5. ForwardEmbedded(embedded, n) = chosen[EncoderLayers]
  BY DEF ForwardEmbedded
<1> HIDE DEF chosen
<1>6. \A l \in 0..EncoderLayers : chosen[l] = g[l]
  <2> DEFINE T == {l \in 0..EncoderLayers : chosen[l] = g[l]}
  <2>1. 0 \in T
    <3>1. Step(chosen)[0] = embedded /\ g[0] = embedded
      BY <1>1
    <3> HIDE DEF Step, g
    <3> QED
      BY <1>1, <1>4, <3>1
  <2>2. ASSUME NEW l \in 1..EncoderLayers, l - 1 \in T
        PROVE  l \in T
    <3>1. Step(chosen)[l] = ConformerBlock(chosen[l - 1], n) /\ Step(g)[l] = ConformerBlock(g[l - 1], n)
      BY <1>1
    <3>2. chosen[l - 1] = g[l - 1] /\ l \in 0..EncoderLayers
      BY <1>1, <2>2
    <3> HIDE DEF Step, g
    <3>3. chosen[l] = g[l]
      BY <1>3, <1>4, <3>1, <3>2
    <3> QED
      BY <3>2, <3>3
  <2> HIDE DEF T
  <2>3. \A l \in 0..EncoderLayers : l \in T
    BY <1>1, <2>1, <2>2, UpTo
  <2> QED
    BY <2>3 DEF T
<1>7. chosen[EncoderLayers] = encoded
  <2>1. EncoderLayers \in 0..EncoderLayers /\ EncoderLayers # 0
    BY <1>1
  <2>2. g[EncoderLayers] = encoded
    BY <2>1
  <2> HIDE DEF g
  <2> QED
    BY <1>6, <2>1, <2>2
<1> QED
  BY <1>5, <1>7 DEF embedded, encoded

\* The Transformer tail over the encoded sequence.
LEMMA TransformerTailIs ==
    ASSUME NEW n \in Nat \ {0}
    PROVE  TransformerTail(Spread(Placed(AfterEncoder(n), n), n, EncoderDim), n)
             = Spread(Placed(AfterTail(n), n), n, TransformerDim)
<1> DEFINE encoded == Spread(Placed(AfterEncoder(n), n), n, EncoderDim)
           start == Spread(Placed(AfterEncoder(n), n), n, TransformerDim)
           end == Spread(Placed(AfterTail(n), n), n, TransformerDim)
           Step(f) == [l \in 0..TransformerLayers |->
                         IF l = 0 THEN Linear(encoded, n, EncoderDim, TransformerDim)
                         ELSE TransformerLayer(f[l - 1], n)]
           chosen == CHOOSE f : f = Step(f)
           g == [l \in 0..TransformerLayers |-> IF l = 0 THEN start ELSE end]
<1>1. /\ TransformerLayers \in Nat \ {0}
      /\ EncoderDim \in Nat \ {0} /\ TransformerDim \in Nat \ {0}
  BY ModelAssumption
<1>2. /\ Linear(encoded, n, EncoderDim, TransformerDim) = start
      /\ TransformerLayer(start, n) = end /\ TransformerLayer(end, n) = end
  <2>1. Entries(Placed(AfterEncoder(n), n), n)
    BY PlacedFacts
  <2>2. Linear(encoded, n, EncoderDim, TransformerDim) = start
    BY <1>1, <2>1, LinearIs
  <2>3. TransformerLayer(start, n) = end
    BY TransformerLayerIs DEF AfterTail
  <2>4. TransformerLayer(end, n) = end
    BY TransformerLayerIs, BlockAfterNothing
  <2> QED
    BY <2>2, <2>3, <2>4
<1>5. TransformerTail(encoded, n) = chosen[TransformerLayers]
  BY DEF TransformerTail
<1> HIDE DEF encoded, start, end
<1>3. g = Step(g)
  <2>1. ASSUME NEW l \in 0..TransformerLayers, l # 0
        PROVE  TransformerLayer(g[l - 1], n) = end
    <3>1. l - 1 \in 0..TransformerLayers
      BY <1>1, <2>1
    <3>2. g[l - 1] \in {start, end}
      BY <3>1
    <3> QED
      BY <1>2, <3>2
  <2> QED
    BY <1>2, <2>1
<1>4. chosen = Step(chosen)
  <2> HIDE DEF Step
  <2> QED
    BY <1>3
<1> HIDE DEF chosen
<1>6. \A l \in 0..TransformerLayers : chosen[l] = g[l]
  <2> DEFINE T == {l \in 0..TransformerLayers : chosen[l] = g[l]}
  <2>1. 0 \in T
    <3>1. Step(chosen)[0] = start /\ g[0] = start
      BY <1>1, <1>2
    <3> HIDE DEF Step, g
    <3> QED
      BY <1>1, <1>4, <3>1
  <2>2. ASSUME NEW l \in 1..TransformerLayers, l - 1 \in T
        PROVE  l \in T
    <3>1. /\ Step(chosen)[l] = TransformerLayer(chosen[l - 1], n)
          /\ Step(g)[l] = TransformerLayer(g[l - 1], n)
      BY <1>1
    <3>2. chosen[l - 1] = g[l - 1] /\ l \in 0..TransformerLayers
      BY <1>1, <2>2
    <3> HIDE DEF Step, g
    <3>3. chosen[l] = g[l]
      BY <1>3, <1>4, <3>1, <3>2
    <3> QED
      BY <3>2, <3>3
  <2> HIDE DEF T
  <2>3. \A l \in 0..TransformerLayers : l \in T
    BY <1>1, <2>1, <2>2, UpTo
  <2> QED
    BY <2>3 DEF T
<1>7. chosen[TransformerLayers] = end
  <2>1. TransformerLayers \in 0..TransformerLayers /\ TransformerLayers # 0
    BY <1>1
  <2>2. g[TransformerLayers] = end
    BY <2>1
  <2> HIDE DEF g
  <2> QED
    BY <1>6, <2>1, <2>2
<1> QED
  BY <1>5, <1>7 DEF encoded, end

\* What a row has seen, in the words of the property.
LEMMA SeenIs ==
    ASSUME NEW n \in Nat \ {0}, NEW r \in 1..n
    PROVE  Placed(AfterTail(n), n)[r - 1] = Expected(r, n)
<1> DEFINE half == (ConvKernel - 1) \div 2
           Taps == {k \in 0..(ConvKernel - 1) : ((r - 1) + k - half) \in 0..(n - 1)}
<1>1. r - 1 \in 0..(n - 1) /\ (r - 1) + 1 = r
  OBVIOUS
<1>2. Placed(AfterTail(n), n)[r - 1]
        = [own |-> {r}, seen |-> (Distant(r - 1, n) \cup Near(r - 1, n)) \cup Plain(r - 1, n)]
  <2>1. Placed(AfterTail(n), n)[r - 1] = [own |-> {r}, seen |-> AfterTail(n)[r - 1]]
    BY <1>1 DEF Placed
  <2>2. AfterTail(n)[r - 1] = AfterEncoder(n)[r - 1] \cup PlainRows(n)[r - 1]
    BY <1>1 DEF AfterTail, More
  <2>3. AfterEncoder(n)[r - 1] = DistantRows(n)[r - 1] \cup NearRows(n)[r - 1]
    BY <1>1 DEF AfterEncoder, More
  <2>4. /\ DistantRows(n)[r - 1] = Distant(r - 1, n)
        /\ NearRows(n)[r - 1] = Near(r - 1, n)
        /\ PlainRows(n)[r - 1] = Plain(r - 1, n)
    BY <1>1 DEF DistantRows, NearRows, PlainRows
  <2> QED
    BY <2>1, <2>2, <2>3, <2>4
<1>3. Distant(r - 1, n) = {<<{r}, {r}, {r - j}, {j}, {j}>> : j \in 1..n}
  <2> DEFINE A(j) == <<{(r - 1) + 1}, {(r - 1) + 1}, {(r - 1) - j}, {j + 1}, {j + 1}>>
             B(j) == <<{r}, {r}, {r - j}, {j}, {j}>>
  <2>1. ASSUME NEW j \in 0..(n - 1)
        PROVE  j + 1 \in 1..n /\ A(j) = B(j + 1)
    <3>1. (r - 1) + 1 = r /\ (r - 1) - j = r - (j + 1) /\ j + 1 \in 1..n
      OBVIOUS
    <3> QED
      BY <3>1
  <2>2. ASSUME NEW j \in 1..n
        PROVE  j - 1 \in 0..(n - 1) /\ B(j) = A(j - 1)
    <3>1. (r - 1) + 1 = r /\ (r - 1) - (j - 1) = r - j /\ (j - 1) + 1 = j /\ j - 1 \in 0..(n - 1)
      OBVIOUS
    <3> QED
      BY <3>1
  <2>3. Distant(r - 1, n) = {A(j) : j \in 0..(n - 1)}
    BY DEF Distant
  <2> HIDE DEF A, B
  <2>4. {A(j) : j \in 0..(n - 1)} = {B(j) : j \in 1..n}
    BY <2>1, <2>2
  <2> QED
    BY <2>3, <2>4 DEF B
<1>4. Plain(r - 1, n) = {<<{r}, {j}, {j}>> : j \in 1..n}
  <2> DEFINE A(j) == <<{(r - 1) + 1}, {j + 1}, {j + 1}>>
             B(j) == <<{r}, {j}, {j}>>
  <2>1. ASSUME NEW j \in 0..(n - 1)
        PROVE  j + 1 \in 1..n /\ A(j) = B(j + 1)
    BY <1>1
  <2>2. ASSUME NEW j \in 1..n
        PROVE  j - 1 \in 0..(n - 1) /\ B(j) = A(j - 1)
    <3>1. (r - 1) + 1 = r /\ (j - 1) + 1 = j /\ j - 1 \in 0..(n - 1)
      OBVIOUS
    <3> QED
      BY <3>1
  <2>3. Plain(r - 1, n) = {A(j) : j \in 0..(n - 1)}
    BY DEF Plain
  <2> HIDE DEF A, B
  <2>4. {A(j) : j \in 0..(n - 1)} = {B(j) : j \in 1..n}
    BY <2>1, <2>2
  <2> QED
    BY <2>3, <2>4 DEF B
<1>5. Near(r - 1, n) = {<<o, {r + o}>> : o \in {x \in -half..half : r + x \in 1..n}}
  <2> DEFINE A(k) == <<k - half, {((r - 1) + k - half) + 1}>>
             B(o) == <<o, {r + o}>>
             Offsets == {x \in -half..half : r + x \in 1..n}
  <2>1. half \in Nat /\ ConvKernel = 2 * half + 1
    BY ModelAssumption
  <2>2. Near(r - 1, n) = {A(k) : k \in Taps}
    BY DEF Near
  <2> HIDE DEF half
  <2>3. ASSUME NEW k \in Taps
        PROVE  k - half \in Offsets /\ A(k) = B(k - half)
    <3>1. /\ k - half \in -half..half /\ r + (k - half) \in 1..n
          /\ ((r - 1) + k - half) + 1 = r + (k - half)
      BY <2>1
    <3> QED
      BY <3>1
  <2>4. ASSUME NEW o \in Offsets
        PROVE  o + half \in Taps /\ B(o) = A(o + half)
    <3>1. /\ o + half \in 0..(ConvKernel - 1) /\ ((r - 1) + (o + half) - half) \in 0..(n - 1)
          /\ ((r - 1) + (o + half) - half) + 1 = r + o /\ (o + half) - half = o
      BY <2>1
    <3> QED
      BY <3>1
  <2> HIDE DEF A, B, Taps, Offsets
  <2>5. {A(k) : k \in Taps} = {B(o) : o \in Offsets}
    BY <2>3, <2>4
  <2> QED
    BY <2>2, <2>5 DEF B, Offsets
<1>6. Expected(r, n)
        = [own |-> {r},
           seen |-> {<<{r}, {r}, {r - j}, {j}, {j}>> : j \in 1..n}
                      \cup {<<{r}, {j}, {j}>> : j \in 1..n}
                      \cup {<<o, {r + o}>> : o \in {x \in -half..half : r + x \in 1..n}}]
  BY DEF Expected
<1> HIDE DEF half
<1>7. Expected(r, n) = [own |-> {r}, seen |-> (Distant(r - 1, n) \cup Plain(r - 1, n)) \cup Near(r - 1, n)]
  BY <1>3, <1>4, <1>5, <1>6
<1>8. (Distant(r - 1, n) \cup Plain(r - 1, n)) \cup Near(r - 1, n)
        = (Distant(r - 1, n) \cup Near(r - 1, n)) \cup Plain(r - 1, n)
  OBVIOUS
<1> QED
  BY <1>2, <1>7, <1>8

\* The forward pass answers every assembled row, in order.
LEMMA ForwardPassIs ==
    ASSUME NEW n \in Nat \ {0}
    PROVE  ForwardEmbeddedPreds(Assembled(n), n) = [t \in 1..n |-> Expected(t, n)]
<1> DEFINE rows == Placed(AfterTail(n), n)
           flat == Spread(rows, n, NumSpeakers)
<1>1. /\ EncoderDim \in Nat \ {0} /\ TransformerDim \in Nat \ {0} /\ NumSpeakers \in Nat \ {0}
  BY ModelAssumption, DiarizerAssumption
<1>2. Assembled(n) = Spread(Placed(Nothing(n), n), n, EncoderDim)
  <2>1. ASSUME NEW i \in 0..(n * EncoderDim - 1)
        PROVE  Placed(Nothing(n), n)[i \div EncoderDim]
                 = [own |-> {(i \div EncoderDim) + 1}, seen |-> {}]
    <3>1. i \div EncoderDim \in 0..(n - 1)
      BY <1>1, Cells
    <3> QED
      BY <3>1 DEF Placed, Nothing
  <2> QED
    BY <2>1 DEF Assembled, Spread
<1>3. Entries(rows, n)
  BY PlacedFacts
<1>4. TransformerTail(ForwardEmbedded(Assembled(n), n), n) = Spread(rows, n, TransformerDim)
  BY <1>2, ForwardEmbeddedIs, TransformerTailIs
<1> HIDE DEF rows
<1>5. SigmoidHead(Spread(rows, n, TransformerDim), n) = flat
  <2>1. Linear(Spread(rows, n, TransformerDim), n, TransformerDim, TransformerDim)
          = Spread(rows, n, TransformerDim)
    BY <1>1, <1>3, LinearIs
  <2>2. Linear(Spread(rows, n, TransformerDim), n, TransformerDim, NumSpeakers) = flat
    BY <1>1, <1>3, LinearIs
  <2> QED
    BY <2>1, <2>2 DEF SigmoidHead
<1>6. Size(flat) \div NumSpeakers = n
  <2>1. Size(flat) = n * NumSpeakers
    BY <1>1, SpreadSize
  <2>2. (n * NumSpeakers + 0) \div NumSpeakers = n
    <3>1. 0 \in 0..(NumSpeakers - 1)
      BY <1>1
    <3> QED
      BY <1>1, <3>1, DivMod
  <2>3. n * NumSpeakers + 0 = n * NumSpeakers
    BY <1>1
  <2> QED
    BY <2>1, <2>2, <2>3
<1>7. ASSUME NEW r \in 1..n
      PROVE  RowOf(flat, r - 1, NumSpeakers) = Expected(r, n)
  <2>1. r - 1 \in 0..(n - 1)
    OBVIOUS
  <2>2. RowOf(flat, r - 1, NumSpeakers) = rows[r - 1]
    BY <1>1, <1>3, <2>1, RowIs
  <2> QED
    BY <2>2, SeenIs DEF rows
<1>8. ForwardEmbeddedPreds(Assembled(n), n) = SpeakerRows(flat)
  BY <1>4, <1>5 DEF ForwardEmbeddedPreds
<1> HIDE DEF flat
<1>9. SpeakerRows(flat) = [r \in 1..n |-> RowOf(flat, r - 1, NumSpeakers)]
  BY <1>6 DEF SpeakerRows
<1> QED
  BY <1>7, <1>8, <1>9

-----------------------------------------------------------------------------
(* The subsampled window                                                   *)

\* The mel frames of n under row t after stages that take a frames to a row.
Field(t, a, n) == {m \in 1..n : a * t - 2 * (a - 1) <= m /\ m <= a * t}

\* The rows of n frames after such stages: each unites its frames.
Stage(rows, frames, a, n) ==
    /\ \E S : rows \in Seq(S)
    /\ Len(rows) = CeilDiv(n, a)
    /\ \A t \in 1..CeilDiv(n, a) : rows[t] = UNION {frames[m] : m \in Field(t, a, n)}

\* A function on 1..k is a sequence of k entries.
LEMMA Listed ==
    ASSUME NEW k \in Nat, NEW f, f = [t \in 1..k |-> f[t]]
    PROVE  (\E S : f \in Seq(S)) /\ Len(f) = k
<1> DEFINE S == {f[t] : t \in 1..k}
<1>1. \A t \in 1..k : f[t] \in S
  OBVIOUS
<1> HIDE DEF S
<1>2. f \in [1..k -> S]
  BY <1>1
<1>3. f \in Seq(S) /\ Len(f) = k
  BY <1>2
<1> QED
  BY <1>3

\* A row after one more stage lies over the frames of three rows.
LEMMA FieldGrows ==
    ASSUME NEW n \in Nat \ {0}, NEW a \in {1, 2, 4}, NEW t \in 1..CeilDiv(n, 2 * a)
    PROVE  /\ CeilDiv(n, a) \in Nat \ {0} /\ CeilDiv(n, 2 * a) = (CeilDiv(n, a) - 1) \div 2 + 1
           /\ \A i \in {2 * t - 2, 2 * t - 1, 2 * t} \cap 1..CeilDiv(n, a) :
                 Field(i, a, n) \subseteq Field(t, 2 * a, n)
           /\ \A m \in Field(t, 2 * a, n) :
                 \E i \in {2 * t - 2, 2 * t - 1, 2 * t} \cap 1..CeilDiv(n, a) : m \in Field(i, a, n)
<1>1. CASE a = 1
  <2>1. CeilDiv(n, a) = n /\ CeilDiv(n, 2 * a) = (n - 1) \div 2 + 1 /\ 2 * t - 1 <= n /\ t >= 1
    BY <1>1 DEF CeilDiv
  <2>2. /\ \A i : Field(i, a, n) = {m \in 1..n : 1 * i - 0 <= m /\ m <= 1 * i}
        /\ Field(t, 2 * a, n) = {m \in 1..n : 2 * t - 2 <= m /\ m <= 2 * t}
    BY <1>1 DEF Field
  <2>3. ASSUME NEW m \in Field(t, 2 * a, n)
        PROVE  \E i \in {2 * t - 2, 2 * t - 1, 2 * t} \cap 1..CeilDiv(n, a) : m \in Field(i, a, n)
    BY <2>1, <2>2
  <2>4. ASSUME NEW i \in {2 * t - 2, 2 * t - 1, 2 * t} \cap 1..CeilDiv(n, a)
        PROVE  Field(i, a, n) \subseteq Field(t, 2 * a, n)
    BY <2>1, <2>2
  <2> QED
    BY <2>1, <2>3, <2>4
<1>2. CASE a = 2
  <2>1. /\ CeilDiv(n, a) = (n + 1) \div 2 /\ CeilDiv(n, 2 * a) = (n + 3) \div 4
        /\ t \in Int /\ 4 * t - 3 <= n /\ t >= 1
    BY <1>2 DEF CeilDiv
  <2>2. /\ \A i : Field(i, a, n) = {m \in 1..n : 2 * i - 2 <= m /\ m <= 2 * i}
        /\ Field(t, 2 * a, n) = {m \in 1..n : 4 * t - 6 <= m /\ m <= 4 * t}
    BY <1>2 DEF Field
  <2>3. ASSUME NEW m \in Field(t, 2 * a, n)
        PROVE  \E i \in {2 * t - 2, 2 * t - 1, 2 * t} \cap 1..CeilDiv(n, a) : m \in Field(i, a, n)
    <3>1. m \in 1..n /\ 4 * t - 6 <= m /\ m <= 4 * t
      BY <2>2
    <3>2. CASE m <= 4 * t - 4
      <4>1. 2 * t - 2 \in 1..CeilDiv(n, a) /\ m \in Field(2 * t - 2, a, n)
        BY <2>1, <2>2, <3>1, <3>2
      <4> QED
        BY <4>1
    <3>3. CASE m > 4 * t - 4 /\ m <= 4 * t - 2
      <4>1. 2 * t - 1 \in 1..CeilDiv(n, a) /\ m \in Field(2 * t - 1, a, n)
        BY <2>1, <2>2, <3>1, <3>3
      <4> QED
        BY <4>1
    <3>4. CASE m > 4 * t - 2
      <4>1. 2 * t \in 1..CeilDiv(n, a) /\ m \in Field(2 * t, a, n)
        BY <2>1, <2>2, <3>1, <3>4
      <4> QED
        BY <4>1
    <3> QED
      BY <2>1, <3>1, <3>2, <3>3, <3>4
  <2>4. ASSUME NEW i \in {2 * t - 2, 2 * t - 1, 2 * t} \cap 1..CeilDiv(n, a)
        PROVE  Field(i, a, n) \subseteq Field(t, 2 * a, n)
    BY <2>1, <2>2
  <2> QED
    BY <2>1, <2>3, <2>4
<1>3. CASE a = 4
  <2>1. /\ CeilDiv(n, a) = (n + 3) \div 4 /\ CeilDiv(n, 2 * a) = (n + 7) \div 8
        /\ t \in Int /\ 8 * t - 7 <= n /\ t >= 1
    BY <1>3 DEF CeilDiv
  <2>2. /\ \A i : Field(i, a, n) = {m \in 1..n : 4 * i - 6 <= m /\ m <= 4 * i}
        /\ Field(t, 2 * a, n) = {m \in 1..n : 8 * t - 14 <= m /\ m <= 8 * t}
    BY <1>3 DEF Field
  <2>3. ASSUME NEW m \in Field(t, 2 * a, n)
        PROVE  \E i \in {2 * t - 2, 2 * t - 1, 2 * t} \cap 1..CeilDiv(n, a) : m \in Field(i, a, n)
    <3>1. m \in 1..n /\ 8 * t - 14 <= m /\ m <= 8 * t
      BY <2>2
    <3>2. CASE m <= 8 * t - 8
      <4>1. 2 * t - 2 \in 1..CeilDiv(n, a) /\ m \in Field(2 * t - 2, a, n)
        BY <2>1, <2>2, <3>1, <3>2
      <4> QED
        BY <4>1
    <3>3. CASE m > 8 * t - 8 /\ m <= 8 * t - 4
      <4>1. 2 * t - 1 \in 1..CeilDiv(n, a) /\ m \in Field(2 * t - 1, a, n)
        BY <2>1, <2>2, <3>1, <3>3
      <4> QED
        BY <4>1
    <3>4. CASE m > 8 * t - 4
      <4>1. 2 * t \in 1..CeilDiv(n, a) /\ m \in Field(2 * t, a, n)
        BY <2>1, <2>2, <3>1, <3>4
      <4> QED
        BY <4>1
    <3> QED
      BY <2>1, <3>1, <3>2, <3>3, <3>4
  <2>4. ASSUME NEW i \in {2 * t - 2, 2 * t - 1, 2 * t} \cap 1..CeilDiv(n, a)
        PROVE  Field(i, a, n) \subseteq Field(t, 2 * a, n)
    BY <2>1, <2>2
  <2> QED
    BY <2>1, <2>3, <2>4
<1> QED
  BY <1>1, <1>2, <1>3

\* One more strided convolution doubles the frames to a row.
LEMMA StageIs ==
    ASSUME NEW n \in Nat \ {0}, NEW a \in {1, 2, 4}, NEW frames, NEW rows, Stage(rows, frames, a, n)
    PROVE  Stage(SymmetricConv(rows), frames, 2 * a, n)
<1> DEFINE L == CeilDiv(n, a)
           K == CeilDiv(n, 2 * a)
           conv == SymmetricConv(rows)
           Three(t) == {2 * t - 2, 2 * t - 1, 2 * t}
<1>1. K \in Nat \ {0}
  <2>1. 2 * a \in Nat \ {0}
    OBVIOUS
  <2>2. CeilDiv(n, 2 * a) \in Nat \ {0}
    <3>1. CASE a = 1 BY <3>1 DEF CeilDiv
    <3>2. CASE a = 2 BY <3>2 DEF CeilDiv
    <3>3. CASE a = 4 BY <3>3 DEF CeilDiv
    <3> QED
      BY <3>1, <3>2, <3>3
  <2> QED
    BY <2>2
<1>2. L \in Nat \ {0} /\ K = (L - 1) \div 2 + 1
  <2>1. 1 \in 1..K
    BY <1>1
  <2> QED
    BY <2>1, FieldGrows
<1>3. Len(rows) = L /\ DOMAIN rows = 1..L
  BY DEF Stage
<1> HIDE DEF L, K
<1>4. conv = [t \in 1..K |-> UNION {rows[i] : i \in Three(t) \cap 1..L}]
  <2>1. (L + 2 - 3) \div 2 + 1 = K
    BY <1>2
  <2> QED
    BY <1>3, <2>1 DEF SymmetricConv
<1>5. ASSUME NEW t \in 1..K
      PROVE  conv[t] = UNION {frames[m] : m \in Field(t, 2 * a, n)}
  <2>1. /\ \A i \in Three(t) \cap 1..L : Field(i, a, n) \subseteq Field(t, 2 * a, n)
        /\ \A m \in Field(t, 2 * a, n) : \E i \in Three(t) \cap 1..L : m \in Field(i, a, n)
    BY FieldGrows DEF K, L
  <2>2. \A i \in 1..L : rows[i] = UNION {frames[m] : m \in Field(i, a, n)}
    BY DEF Stage, L
  <2>3. conv[t] = UNION {rows[i] : i \in Three(t) \cap 1..L}
    BY <1>4
  <2> HIDE DEF conv, Three
  <2>4. ASSUME NEW e \in conv[t]
        PROVE  e \in UNION {frames[m] : m \in Field(t, 2 * a, n)}
    <3>1. PICK i \in Three(t) \cap 1..L : e \in rows[i]
      BY <2>3
    <3>2. PICK m \in Field(i, a, n) : e \in frames[m]
      BY <2>2, <3>1
    <3>3. m \in Field(t, 2 * a, n)
      BY <2>1
    <3> QED
      BY <3>2, <3>3
  <2>5. ASSUME NEW e \in UNION {frames[m] : m \in Field(t, 2 * a, n)}
        PROVE  e \in conv[t]
    <3>1. PICK m \in Field(t, 2 * a, n) : e \in frames[m]
      OBVIOUS
    <3>2. PICK i \in Three(t) \cap 1..L : m \in Field(i, a, n)
      BY <2>1
    <3>3. e \in rows[i]
      BY <2>2, <3>1, <3>2
    <3> QED
      BY <2>3, <3>3
  <2> QED
    BY <2>4, <2>5
<1>6. conv = [t \in 1..K |-> conv[t]]
  BY <1>4
<1> HIDE DEF conv
<1>7. (\E S : conv \in Seq(S)) /\ Len(conv) = K
  BY <1>1, <1>6, Listed
<1> QED
  BY <1>5, <1>7 DEF Stage, conv, K

\* The stem and the two stages after it unite the frames up to 14 before 8 t.
LEMMA PreEncodeIs ==
    ASSUME NEW n \in Nat \ {0}, NEW f, NEW frames, frames = [m \in 1..n |-> f[m]]
    PROVE  Stage(PreEncode(frames), frames, 8, n)
<1>1. frames = [m \in 1..n |-> frames[m]]
  OBVIOUS
<1>2. (\E S : frames \in Seq(S)) /\ Len(frames) = n
  BY <1>1, Listed
<1>3. Stage(frames, frames, 1, n)
  <2>1. CeilDiv(n, 1) = n
    BY DEF CeilDiv
  <2>2. ASSUME NEW t \in 1..n
        PROVE  frames[t] = UNION {frames[m] : m \in Field(t, 1, n)}
    <3>1. Field(t, 1, n) = {t}
      BY DEF Field
    <3> QED
      BY <3>1
  <2> QED
    BY <1>2, <2>1, <2>2 DEF Stage
<1>4. Stage(SymmetricConv(frames), frames, 2, n)
  BY <1>3, StageIs
<1>5. Stage(SymmetricConv(SymmetricConv(frames)), frames, 4, n)
  BY <1>4, StageIs
<1>6. Stage(SymmetricConv(SymmetricConv(SymmetricConv(frames))), frames, 8, n)
  BY <1>5, StageIs
<1>7. frames # <<>>
  BY <1>2
<1> QED
  BY <1>6, <1>7 DEF PreEncode, Subsampling

\* Where a row of a window and a row of the whole audio lie over the same frames,
\* they are equal: a window that starts q rows in, and ends inside the audio.
LEMMA WindowRows ==
    ASSUME NEW samples, NEW total \in Nat, NEW count \in Nat \ {0}, NEW q \in Nat,
           8 * q + count <= total, NEW t \in 1..CeilDiv(count, 8),
           q = 0 \/ t >= 2, 8 * q + count = total \/ 8 * t <= count
    PROVE  /\ q + t \in 1..CeilDiv(total, 8)
           /\ PreEncode(ExtractFrames(samples, 8 * q, count))[t]
                = PreEncode(ExtractFrames(samples, 0, total))[q + t]
<1> DEFINE near == ExtractFrames(samples, 8 * q, count)
           all  == ExtractFrames(samples, 0, total)
<1>1. total \in Nat \ {0}
  OBVIOUS
<1>2. t \in Nat \ {0} /\ 8 * t - 7 <= count
  BY DEF CeilDiv
<1>3. q + t \in 1..CeilDiv(total, 8)
  BY <1>2 DEF CeilDiv
<1>4. /\ near = [m \in 1..count |-> near[m]] /\ all = [m \in 1..total |-> all[m]]
      /\ \A m \in 1..count : near[m] = {FrameMel(samples, 8 * q + m - 1)}
      /\ \A m \in 1..total : all[m] = {FrameMel(samples, 0 + m - 1)}
  BY DEF ExtractFrames
<1> HIDE DEF near, all
<1>5. /\ PreEncode(near)[t] = UNION {near[m] : m \in Field(t, 8, count)}
      /\ PreEncode(all)[q + t] = UNION {all[m] : m \in Field(q + t, 8, total)}
  <2>1. Stage(PreEncode(near), near, 8, count)
    BY <1>4, PreEncodeIs
  <2>2. Stage(PreEncode(all), all, 8, total)
    BY <1>1, <1>4, PreEncodeIs
  <2> QED
    BY <1>3, <2>1, <2>2 DEF Stage
<1>6. \A m \in Field(t, 8, count) :
         8 * q + m \in Field(q + t, 8, total) /\ all[8 * q + m] = near[m]
  <2> SUFFICES ASSUME NEW m \in Field(t, 8, count)
               PROVE  8 * q + m \in Field(q + t, 8, total) /\ all[8 * q + m] = near[m]
    OBVIOUS
  <2>1. m \in 1..count /\ 8 * t - 14 <= m /\ m <= 8 * t
    BY DEF Field
  <2>2. 8 * q + m \in Field(q + t, 8, total)
    BY <1>2, <2>1 DEF Field
  <2>3. 8 * q + m \in 1..total /\ 0 + (8 * q + m) - 1 = 8 * q + m - 1
    BY <2>1
  <2>4. all[8 * q + m] = {FrameMel(samples, 0 + (8 * q + m) - 1)}
    BY <1>4, <2>3
  <2> QED
    BY <1>4, <2>1, <2>2, <2>3, <2>4
<1>7. \A m \in Field(q + t, 8, total) : m - 8 * q \in Field(t, 8, count) /\ near[m - 8 * q] = all[m]
  <2> SUFFICES ASSUME NEW m \in Field(q + t, 8, total)
               PROVE  m - 8 * q \in Field(t, 8, count) /\ near[m - 8 * q] = all[m]
    OBVIOUS
  <2>1. m \in 1..total /\ 8 * (q + t) - 14 <= m /\ m <= 8 * (q + t)
    BY DEF Field
  <2>2. PICK k \in 1..count : k = m - 8 * q
    BY <1>2, <2>1
  <2>3. k \in Field(t, 8, count) /\ 8 * q + k = m
    BY <1>2, <2>1, <2>2 DEF Field
  <2> QED
    BY <1>6, <2>2, <2>3
<1>8. UNION {near[m] : m \in Field(t, 8, count)} = UNION {all[m] : m \in Field(q + t, 8, total)}
  BY <1>6, <1>7
<1> QED
  BY <1>3, <1>5, <1>8 DEF near, all

-----------------------------------------------------------------------------
(* A chunk against one pass over the audio                                 *)

\* The window of a chunk in rows: it starts a whole number of rows into the
\* audio, behind at least one row of context unless at its start, and it ends
\* with the audio or holds every frame of the rows of its chunk.
LEMMA WindowFacts ==
    ASSUME audio \in Nat, next_chunk \in Nat, MoreChunks, LeftContext >= 1
    PROVE  /\ total_mel \in Nat /\ window_len \in Nat \ {0}
           /\ window_start \div Sub \in Nat
           /\ window_start = 8 * (window_start \div Sub) /\ window_start + window_len <= total_mel
           /\ lc \in Nat
           /\ \/ window_start = 0
              \/ lc >= 1
           /\ \/ window_start + window_len = total_mel
              \/ 8 * (lc + chunk_len) <= window_len
           /\ Len(chunk_rows) = CeilDiv(window_len, 8)
           /\ Len(chunk_rows) \in 1..(LeftContext + ChunkLen + RightContext)
           /\ lc + chunk_len <= Len(chunk_rows)
<1> DEFINE left  == Least(LeftContext, next_chunk * ChunkLen)
           first == next_chunk * ChunkLen
           own   == chunk_end - chunk_start
<1>0. Sub = 8
  BY ModelAssumption
<1>1. /\ total_mel \in Nat /\ chunk_mel \in Nat \ {0}
      /\ chunk_start \in Nat /\ chunk_start < total_mel
  BY MoreChunksFacts
<1>2. /\ LeftContext \in Nat \ {0} /\ RightContext \in Nat /\ ChunkLen \in Nat \ {0}
      /\ first \in Nat
  BY DiarizerAssumption
<1>3. /\ chunk_end = Least(chunk_start + chunk_mel, total_mel) /\ own \in Nat \ {0}
      /\ chunk_end = chunk_start + own /\ chunk_end <= total_mel /\ own <= chunk_mel
      /\ chunk_end < total_mel => own = chunk_mel
  BY <1>1 DEF chunk_end, Least
<1> HIDE DEF own
<1>4. /\ right_off \in Nat /\ right_off <= RightContext * 8
      /\ chunk_end + right_off <= total_mel
  <2>1. right_off = Least(RightContext * 8, total_mel - chunk_end)
    BY <1>0 DEF right_off, right_max
  <2>2. RightContext * 8 \in Nat /\ total_mel - chunk_end \in Nat /\ chunk_end \in Nat
    BY <1>1, <1>2, <1>3
  <2> QED
    BY <1>1, <1>3, <2>1, <2>2 DEF Least
<1>5. chunk_start = first * 8 /\ chunk_mel = ChunkLen * 8
  BY <1>0, <1>2, DiarizerAssumption DEF chunk_start, chunk_mel
<1>6. /\ left_off = left * 8 /\ left \in Nat /\ left <= first /\ left <= LeftContext
      /\ \/ left = first
         \/ left >= 1
  BY <1>0, <1>2, <1>5, LeastMultiple DEF left_off, Least
<1> HIDE DEF left, first
<1>7. lc = left
  BY <1>0, <1>6, RoundMultiple DEF lc
<1>8. /\ lc \in Nat /\ chunk_len \in Nat /\ lc + chunk_len <= Len(chunk_rows)
      /\ chunk_len = CeilDiv(own, Sub) /\ chunk_rows \in Seq(Nat)
  BY ChunkGeometry DEF own
<1>9. window_start = (first - left) * 8 /\ window_len = left * 8 + own + right_off
  <2>1. window_start = chunk_start - left_off /\ window_len = left_off + (chunk_end - chunk_start) + right_off
    BY DEF window_start, window_len
  <2>2. chunk_end - chunk_start = own
    BY DEF own
  <2> QED
    BY <1>2, <1>5, <1>6, <2>1, <2>2
<1>10. window_start \div Sub = first - left
  BY <1>0, <1>2, <1>6, <1>9
<1>11. window_start + window_len = chunk_end + right_off
  BY <1>2, <1>3, <1>4, <1>5, <1>6, <1>9
<1>12. Len(chunk_rows) = CeilDiv(window_len, 8)
  <2>1. CeilDiv(window_len, 8) \in Nat
    BY <1>2, <1>3, <1>4, <1>6, <1>9 DEF CeilDiv
  <2>2. chunk_rows = [j \in 1..CeilDiv(window_len, 8) |-> chunk_rows[j]]
    BY <1>0 DEF chunk_rows
  <2> QED
    BY <2>1, <2>2, Listed
<1>13. window_start = 0 \/ lc >= 1
  BY <1>2, <1>6, <1>7, <1>9
<1>14. window_start + window_len = total_mel \/ 8 * (lc + chunk_len) <= window_len
  <2> SUFFICES ASSUME window_start + window_len # total_mel
               PROVE  8 * (lc + chunk_len) <= window_len
    OBVIOUS
  <2>1. chunk_end < total_mel \/ (chunk_end = total_mel /\ right_off = 0)
    BY <1>1, <1>3, <1>4, <1>5, <1>2
  <2>2. chunk_end < total_mel
    BY <1>1, <1>11, <2>1
  <2>3. own = ChunkLen * 8
    BY <1>3, <1>5, <2>2
  <2>4. chunk_len = ChunkLen
    BY <1>0, <1>2, <1>8, <2>3 DEF CeilDiv
  <2> QED
    BY <1>2, <1>4, <1>6, <1>7, <1>9, <2>3, <2>4
<1>15. Len(chunk_rows) \in 1..(LeftContext + ChunkLen + RightContext)
  <2>1. window_len \in Nat /\ window_len >= 1 /\ window_len <= 8 * (LeftContext + ChunkLen + RightContext)
    BY <1>2, <1>3, <1>4, <1>5, <1>6, <1>9
  <2> QED
    BY <1>2, <1>12, <2>1 DEF CeilDiv
<1>16. window_len \in Nat \ {0} /\ window_start \div Sub \in Nat
  BY <1>2, <1>3, <1>4, <1>6, <1>9, <1>10
<1> QED
  BY <1>1, <1>2, <1>4, <1>6, <1>8, <1>9, <1>10, <1>11, <1>12, <1>13, <1>14, <1>15, <1>16

\* The audio of a recording stays within the bound of the model.
AudioBounded == audio <= MaxAudio

\* push_samples is the only operation that adds audio.
LEMMA AudioStaysBounded == Spec => []AudioBounded
<1>1. Init => AudioBounded
  BY DiarizerAssumption DEF Init, AudioBounded
<1>2. AudioBounded /\ [Next]_vars => AudioBounded'
  <2> SUFFICES ASSUME AudioBounded, [Next]_vars
               PROVE  AudioBounded'
    OBVIOUS
  <2>1. audio' = audio \/ audio' = 0 \/ audio' <= MaxAudio
    BY DEF Next, Start, Reset, PushSamples, Finish, ProcessChunk, ChunkFails, Return, vars
  <2> QED
    BY <2>1, DiarizerAssumption DEF AudioBounded
<1> QED
  BY <1>1, <1>2, PTL DEF Spec

\* What one chunk shows of the encoder and the forward pass.
LEMMA ChunkIsOffline ==
    ASSUME LeftContext >= 1, TypeOK, AudioBounded
    PROVE  ChunkIsEncodedOffline
<1> SUFFICES ASSUME MoreChunks
             PROVE  /\ Len(PreEncode(ExtractFrames(audio, window_start, window_len)))
                         = Len(chunk_rows)
                    /\ \A i \in (lc + 1)..(lc + chunk_len) :
                          PreEncode(ExtractFrames(audio, window_start, window_len))[i]
                            = OfflineRows[audio][(window_start \div Sub) + i]
                    /\ Predictions[Len(preds)] = [t \in 1..Len(preds) |-> Expected(t, Len(preds))]
  BY DEF ChunkIsEncodedOffline
<1> DEFINE q    == window_start \div Sub
           near == ExtractFrames(audio, window_start, window_len)
<1>1. audio \in Nat /\ next_chunk \in Nat /\ audio \in 0..MaxAudio
  BY DiarizerAssumption DEF TypeOK, AudioBounded
<1>2. /\ total_mel \in Nat /\ window_len \in Nat \ {0} /\ q \in Nat
      /\ window_start = 8 * q /\ window_start + window_len <= total_mel
      /\ lc \in Nat
      /\ \/ window_start = 0
         \/ lc >= 1
      /\ \/ window_start + window_len = total_mel
         \/ 8 * (lc + chunk_len) <= window_len
      /\ Len(chunk_rows) = CeilDiv(window_len, 8)
      /\ Len(chunk_rows) \in 1..(LeftContext + ChunkLen + RightContext)
      /\ lc + chunk_len <= Len(chunk_rows)
  BY <1>1, WindowFacts
<1>3. chunk_len \in Nat /\ chunk_rows \in Seq(Nat)
  BY <1>1, ChunkGeometry
<1>4. OfflineRows[audio] = PreEncode(ExtractFrames(audio, 0, total_mel))
  BY <1>1 DEF OfflineRows, total_mel
<1> HIDE DEF q
<1>5. Len(PreEncode(near)) = Len(chunk_rows)
  <2>1. near = [m \in 1..window_len |-> near[m]]
    BY DEF ExtractFrames
  <2> HIDE DEF near
  <2>2. Stage(PreEncode(near), near, 8, window_len)
    BY <1>2, <2>1, PreEncodeIs
  <2> QED
    BY <1>2, <2>2 DEF Stage
<1>6. ASSUME NEW i \in (lc + 1)..(lc + chunk_len)
      PROVE  PreEncode(near)[i] = OfflineRows[audio][q + i]
  <2>1. /\ i \in 1..CeilDiv(window_len, 8)
        /\ \/ q = 0
           \/ i >= 2
        /\ \/ 8 * q + window_len = total_mel
           \/ 8 * i <= window_len
    BY <1>2, <1>3
  <2>2. 8 * q + window_len <= total_mel
    BY <1>2
  <2>3. PreEncode(ExtractFrames(audio, 8 * q, window_len))[i]
          = PreEncode(ExtractFrames(audio, 0, total_mel))[q + i]
    BY <1>2, <2>1, <2>2, WindowRows
  <2> QED
    BY <1>2, <1>4, <2>3
<1>7. /\ Len(preds) \in 1..(SpkcacheLen + FifoLen + LeftContext + ChunkLen + RightContext)
      /\ Len(preds) \in Nat \ {0}
  <2>1. /\ spkcache \in Seq(Nat) /\ Len(spkcache) <= SpkcacheLen
        /\ fifo \in Seq(Nat) /\ Len(fifo) <= FifoLen
    BY DEF TypeOK, Rows
  <2>2. Len(preds) = Len(spkcache) + Len(fifo) + Len(chunk_rows)
    BY <1>3, <2>1 DEF preds
  <2>3. /\ SpkcacheLen \in Nat /\ FifoLen \in Nat
        /\ LeftContext \in Nat /\ ChunkLen \in Nat /\ RightContext \in Nat
    BY DiarizerAssumption
  <2>4. Len(spkcache) \in Nat /\ Len(fifo) \in Nat
    BY <2>1
  <2> QED
    BY <1>2, <2>1, <2>2, <2>3, <2>4
<1>8. Predictions[Len(preds)] = ForwardEmbeddedPreds(Assembled(Len(preds)), Len(preds))
  BY <1>7 DEF Predictions
<1>9. Predictions[Len(preds)] = [t \in 1..Len(preds) |-> Expected(t, Len(preds))]
  BY <1>7, <1>8, ForwardPassIs
<1> QED
  BY <1>5, <1>6, <1>9 DEF q

-----------------------------------------------------------------------------
(* The theorems                                                            *)

\* In every reachable state the queues are bounded, aligned and in order, a call
\* is open only with its diarizer, and the frames produced end where the cursor is.
THEOREM Inductive == Spec => []IInv
<1> QED
  BY InitInvariant, NextKeeps, PTL DEF Spec

\* Between two chunks the FIFO and the speaker cache never exceed their
\* configured lengths, whatever these are and however compression chooses.
THEOREM QueuesAreBounded == Spec => []TypeOK
<1>1. IInv => TypeOK
  BY DEF IInv
<1> QED
  BY <1>1, Inductive, PTL

\* Refresh, pop and compression never part a prediction from its embedding.
THEOREM PredictionsStayAligned == Spec => []PredsFollowRows
<1>1. IInv => PredsFollowRows
  BY DEF IInv
<1> QED
  BY <1>1, Inductive, PTL

\* The FIFO is the unbroken end of what was diarized, and the cache is older.
THEOREM QueuesKeepOrder == Spec => []FifoIsTheTail
<1>1. IInv => FifoIsTheTail
  BY DEF IInv
<1> QED
  BY <1>1, Inductive, PTL

\* Fusion gets every frame once and in order, for every way of cutting the
\* audio into pushes.
THEOREM FusionTimeline == Spec => []FramesInOrder
<1>1. IInv => FramesInOrder
  BY DEF IInv
<1> QED
  BY <1>1, Inductive, PTL

\* After finish the frames cover the whole recording, the last part included.
THEOREM FinishFlushesAll == Spec => []FinishCoversAll
<1>1. IInv => FinishCoversAll
  <2> SUFFICES ASSUME IInv, diarizer, finished
               PROVE  Len(diar) = CeilDiv(total_mel, Sub)
    BY DEF FinishCoversAll
  <2>1. /\ audio \in Nat /\ next_chunk \in Nat /\ diar \in Seq(Nat)
        /\ call = "none" /\ output = <<>>
    BY DEF IInv, TypeOK, CallIsOpen, Rows
  <2>2. Len(diar) + Len(output) = Len(diar)
    BY <2>1, EmptyQueue
  <2>3. total_mel \in Nat /\ next_chunk * chunk_mel \in Nat
        /\ Sub \in Nat \ {0} /\ ChunkLen \in Nat
    BY <2>1, DiarizerAssumption DEF total_mel, FrameCount, chunk_mel
  <2>4. CASE Len(diar) + Len(output) = CeilDiv(total_mel, Sub)
    BY <2>2, <2>4
  <2>5. CASE /\ next_chunk * chunk_mel <= total_mel
             /\ Len(diar) + Len(output) = next_chunk * ChunkLen
    <3>1. total_mel = (next_chunk * ChunkLen) * Sub
      BY <2>1, <2>3, <2>5 DEF IInv, Position, chunk_mel
    <3>2. CeilDiv((next_chunk * ChunkLen) * Sub, Sub) = next_chunk * ChunkLen
      <4>1. next_chunk * ChunkLen \in Nat
        BY <2>1, <2>3
      <4> QED
        BY <2>3, <4>1, CeilDivFacts
    <3> QED
      BY <2>2, <2>5, <3>1, <3>2
  <2> QED
    BY <2>4, <2>5 DEF IInv, Position
<1> QED
  BY <1>1, Inductive, PTL

\* With one row of left context, as low_latency_v2 configures, cutting the audio
\* into chunks shows nowhere: pre_encode gives the rows of a chunk what one pass
\* over the audio so far would give them, and the forward pass answers every
\* assembled row, in order, with a prediction that weighs all the rows at their
\* true distances, for every geometry, size of model and length of queue.  Without
\* left context it is false: the first row of a window would lack frames.
THEOREM ChunkingIsHidden ==
    ASSUME LeftContext >= 1
    PROVE  Spec => []ChunkIsEncodedOffline
<1>1. TypeOK /\ AudioBounded => ChunkIsEncodedOffline
  BY ChunkIsOffline
<1> QED
  BY <1>1, QueuesAreBounded, AudioStaysBounded, PTL

=============================================================================
