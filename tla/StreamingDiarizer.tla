------------------------- MODULE StreamingDiarizer --------------------------
(***************************************************************************)
(* The streaming speaker diarizer: StreamingDiarizer of sortformer-mlx     *)
(* with the AOSC speaker cache behind it (streaming_update), and the use   *)
(* catcher-ffi makes of it: start, push, finish, and the degradation to    *)
(* "no diarizer" when a chunk fails.                                       *)
(*                                                                         *)
(* Audio is a number of samples.  An embedding row is named by the output  *)
(* frame it stands for, counted from 1 at the start of the recording, and  *)
(* Silence is the mean-silence row.  A row of predictions is named by the  *)
(* embedding row the forward pass computed it for, so "predictions aligned *)
(* with rows" is the equality of two sequences.  Scores are abstracted:    *)
(* any frame that holds speech may win a slot of the compressed cache.     *)
(***************************************************************************)
EXTENDS Integers, Sequences, FiniteSets

CONSTANTS
    Hop,          \* samples from one mel frame to the next
    Reach,        \* samples a mel frame reads after its own position
    Sub,          \* mel frames of one output frame
    ChunkLen, LeftContext, RightContext,        \* in output frames
    FifoLen, SpkcacheLen, UpdatePeriod,
    NumSpeakers, SilFramesPerSpk,
    PushSizes,    \* sizes of the pieces the caller pushes
    MaxAudio      \* bound: samples of one recording

ASSUME DiarizerAssumption ==
    /\ Hop \in Nat \ {0} /\ Reach \in Nat /\ Sub \in Nat \ {0}
    /\ ChunkLen \in Nat \ {0} /\ LeftContext \in Nat /\ RightContext \in Nat
    /\ FifoLen \in Nat /\ SpkcacheLen \in Nat /\ UpdatePeriod \in Nat
    /\ NumSpeakers \in Nat \ {0} /\ SilFramesPerSpk \in Nat
    /\ PushSizes \subseteq Nat /\ MaxAudio \in Nat

Silence == 0
Rows    == Nat      \* Silence, or the frame a row stands for

VARIABLES
    diarizer,    \* is one attached to the handle?
    call,        \* none, push or finish: the call that runs
    audio,       \* samples pushed so far
    next_chunk,  \* the next chunk to emit
    finished,
    spkcache, spkcache_preds,   \* <<>>, or <<the predictions>> (an Option)
    fifo, fifo_preds,
    output,      \* frames the running call has produced
    diar         \* frames Fusion holds, by position

state == <<spkcache, spkcache_preds, fifo, fifo_preds>>
vars  == <<diarizer, call, audio, next_chunk, finished, state, output, diar>>

Init ==
    /\ diarizer = TRUE
    /\ call = "none"
    /\ audio = 0 /\ next_chunk = 0 /\ finished = FALSE
    /\ spkcache = <<>> /\ spkcache_preds = <<>>
    /\ fifo = <<>> /\ fifo_preds = <<>>
    /\ output = <<>> /\ diar = <<>>

-----------------------------------------------------------------------------
(* Chunk geometry                                                          *)

Least(a, b)    == IF a < b THEN a ELSE b
Greatest(a, b) == IF a < b THEN b ELSE a
CeilDiv(a, b)  == (a + b - 1) \div b

FrameCount(samples) == samples \div Hop
total_mel  == FrameCount(audio)
chunk_mel  == ChunkLen * Sub
right_max  == RightContext * Sub

chunk_start  == next_chunk * chunk_mel
chunk_end    == Least(chunk_start + chunk_mel, total_mel)
left_off     == Least(LeftContext * Sub, chunk_start)
right_off    == Least(right_max, total_mel - chunk_end)
window_start == chunk_start - left_off
window_len   == left_off + (chunk_end - chunk_start) + right_off

\* The context sizes in rows: the left one rounded, the right one rounded up.
lc == (2 * left_off + Sub) \div (2 * Sub)
rc == CeilDiv(right_off, Sub)

\* pre_encode: one row for every Sub mel frames of the window, or a part.
chunk_rows ==
    [j \in 1..CeilDiv(window_len, Sub) |-> (window_start \div Sub) + j]

chunk_len == Len(chunk_rows) - lc - rc

-----------------------------------------------------------------------------
(* streaming_update                                                        *)

\* The sequence of the forward pass, which answers with one row for each.
preds == spkcache \o fifo \o chunk_rows

chunk == SubSeq(chunk_rows, lc + 1, lc + chunk_len)
\* mutant: the left context is not skipped
chunk_preds_NoLeft ==
    LET base == Len(spkcache) + Len(fifo)
    IN  SubSeq(preds, base + 1, base + chunk_len)

chunk_preds ==
    LET base == Len(spkcache) + Len(fifo) + lc
    IN  SubSeq(preds, base + 1, base + chunk_len)

\* fifo_preds is refreshed from this pass before the chunk is appended.
grown_fifo  == fifo \o chunk
grown_preds ==
    SubSeq(preds, Len(spkcache) + 1, Len(spkcache) + Len(fifo)) \o chunk_preds

pop ==
    LET len  == Len(fifo) + chunk_len
        over == IF len < FifoLen THEN 0 ELSE len - FifoLen
    IN  Least(Greatest(UpdatePeriod, over), len)

Drop(s, n) == SubSeq(s, n + 1, Len(s))

\* The flat index of frame f in the band of speaker s; the silence pad
\* follows the n frames of every band.
Flat(s, f, n) == s * (n + SilFramesPerSpk) + f
FrameOf(x, n) == ((x - 1) % (n + SilFramesPerSpk)) + 1
Speakers      == 0..(NumSpeakers - 1)
Pads(n)  == {Flat(s, f, n) : s \in Speakers, f \in (n + 1)..(n + SilFramesPerSpk)}
Voiced(p) == {Flat(s, f, Len(p)) :
                 s \in Speakers, f \in {g \in 1..Len(p) : p[g] # Silence}}

\* get_topk_indices: the pads always win, then the best speech frames, and a
\* slot that is left over (index 0) is disabled.
Choices(p) ==
    LET pads  == Pads(Len(p))
        slots == 1..(SpkcacheLen - Cardinality(pads))
    IN  {pads \union ({best[i] : i \in slots} \ {0}) :
            best \in [slots -> Voiced(p) \union {0}]}

\* gather: the chosen indices in ascending order, then the disabled slots.
Gather(rows, chosen) ==
    LET n == Len(rows)
        Ranked(i) == {x \in chosen : Cardinality({y \in chosen : y <= x}) = i}
        RowAt(x)  == IF FrameOf(x, n) > n THEN Silence ELSE rows[FrameOf(x, n)]
    IN  [i \in 1..Least(SpkcacheLen, NumSpeakers * (n + SilFramesPerSpk)) |->
            IF Ranked(i) = {} THEN Silence ELSE RowAt(CHOOSE x \in Ranked(i) : TRUE)]

\* The cache with the popped rows, and its predictions once there are any.
grown_cache == spkcache \o SubSeq(grown_fifo, 1, pop)
grown_cache_preds ==
    (IF spkcache_preds = <<>> THEN SubSeq(preds, 1, Len(spkcache))
     ELSE spkcache_preds[1]) \o SubSeq(grown_preds, 1, pop)

KeepFifo ==
    /\ fifo' = grown_fifo /\ fifo_preds' = grown_preds
    /\ UNCHANGED <<spkcache, spkcache_preds>>

\* mutant: the popped predictions stay
PopFifo_KeepsPreds ==
    /\ fifo' = Drop(grown_fifo, pop)
    /\ fifo_preds' = grown_preds

PopFifo ==
    /\ fifo' = Drop(grown_fifo, pop)
    /\ fifo_preds' = Drop(grown_preds, pop)

CompressCache ==
    \E chosen \in Choices(grown_cache_preds) :
        /\ spkcache' = Gather(grown_cache, chosen)
        /\ spkcache_preds' = <<Gather(grown_cache_preds, chosen)>>

GrowCache ==
    /\ spkcache' = grown_cache
    /\ spkcache_preds' =
          IF spkcache_preds = <<>> THEN <<>> ELSE <<grown_cache_preds>>

\* mutant: the limit is tested before the popped rows are appended
streaming_update_LateLimit ==
    IF Len(fifo) + chunk_len <= FifoLen THEN KeepFifo
    ELSE /\ PopFifo
         /\ IF Len(spkcache) > SpkcacheLen THEN CompressCache ELSE GrowCache

streaming_update ==
    IF Len(fifo) + chunk_len <= FifoLen THEN KeepFifo
    ELSE /\ PopFifo
         /\ IF Len(grown_cache) > SpkcacheLen THEN CompressCache ELSE GrowCache

-----------------------------------------------------------------------------
(* The diarizer and its caller                                             *)

\* mutant: reset leaves the AOSC state of the last recording
Start_KeepsState ==
    /\ call = "none"
    /\ diarizer' \in {diarizer, TRUE}
    /\ audio' = 0 /\ next_chunk' = 0 /\ finished' = FALSE
    /\ diar' = <<>>
    /\ UNCHANGED <<call, output, state>>

\* StreamingDiarizer::reset, which is also the state of a new one.
Reset ==
    /\ audio' = 0 /\ next_chunk' = 0 /\ finished' = FALSE
    /\ spkcache' = <<>> /\ spkcache_preds' = <<>>
    /\ fifo' = <<>> /\ fifo_preds' = <<>>

\* catcher_start: reset, or rebuild a diarizer that degraded to none.  The
\* rebuild may fail; Fusion is reset either way.
Start ==
    /\ call = "none"
    /\ diarizer' \in {diarizer, TRUE}
    /\ Reset
    /\ diar' = <<>>
    /\ UNCHANGED <<call, output>>

\* push_samples; after finish it returns without a change.
PushSamples(n) ==
    /\ call = "none" /\ diarizer /\ ~finished
    /\ audio + n <= MaxAudio
    /\ audio' = audio + n
    /\ call' = "push"
    /\ UNCHANGED <<diarizer, next_chunk, finished, state, output, diar>>

Finish ==
    /\ call = "none" /\ diarizer /\ ~finished
    /\ call' = "finish"
    /\ UNCHANGED <<diarizer, audio, next_chunk, finished, state, output, diar>>

\* mutant: finish flushes whole chunks only
MoreChunks_Whole ==
    \/ call = "push"   /\ (next_chunk + 1) * chunk_mel + right_max <= total_mel
    \/ call = "finish" /\ (next_chunk + 1) * chunk_mel <= total_mel

\* The loop conditions of push_samples and of finish.
MoreChunks ==
    \/ call = "push"   /\ (next_chunk + 1) * chunk_mel + right_max <= total_mel
    \/ call = "finish" /\ next_chunk * chunk_mel < total_mel

ProcessChunk ==
    /\ MoreChunks
    /\ output' = output \o chunk_preds
    /\ streaming_update
    /\ next_chunk' = next_chunk + 1
    /\ UNCHANGED <<diarizer, call, audio, finished, diar>>

\* The encoder or the forward pass fails: the handle drops the diarizer, and
\* the frames of this call with it.
ChunkFails ==
    /\ MoreChunks
    /\ diarizer' = FALSE
    /\ output' = <<>> /\ call' = "none"
    /\ UNCHANGED <<audio, next_chunk, finished, state, diar>>

\* The call returns, and the handle hands its frames to Fusion.
Return ==
    /\ call # "none" /\ ~MoreChunks
    /\ diar' = diar \o output
    /\ output' = <<>>
    /\ finished' = (call = "finish")
    /\ call' = "none"
    /\ UNCHANGED <<diarizer, audio, next_chunk, state>>

Next ==
    \/ Start
    \/ \E n \in PushSizes : PushSamples(n)
    \/ Finish
    \/ ProcessChunk
    \/ ChunkFails
    \/ Return

Spec == Init /\ [][Next]_vars

-----------------------------------------------------------------------------
(* Properties                                                              *)

\* The type of every variable, with the bounds of the two queues: between two
\* chunks neither exceeds its configured length.
TypeOK ==
    /\ diarizer \in BOOLEAN /\ call \in {"none", "push", "finish"}
    /\ audio \in Nat /\ next_chunk \in Nat /\ finished \in BOOLEAN
    /\ spkcache \in Seq(Rows) /\ Len(spkcache) <= SpkcacheLen
    /\ spkcache_preds \in Seq(Seq(Rows)) /\ Len(spkcache_preds) <= 1
    /\ fifo \in Seq(Rows) /\ Len(fifo) <= FifoLen
    /\ fifo_preds \in Seq(Rows)
    /\ output \in Seq(Rows) /\ diar \in Seq(Rows)

\* The predictions kept for the cache and the FIFO belong, row by row, to the
\* embeddings kept beside them, through refresh, pop and compression.
PredsFollowRows ==
    /\ fifo_preds = fifo
    /\ spkcache_preds \in {<<>>, <<spkcache>>}

\* The FIFO holds the last frames that were diarized, every one, in order, and
\* the cache only frames older than those.
FifoIsTheTail ==
    LET done == Len(diar) + Len(output)
    IN  diarizer =>
            /\ \A i \in 1..Len(fifo) : fifo[i] = done - Len(fifo) + i
            /\ \A i \in 1..Len(spkcache) : spkcache[i] <= done - Len(fifo)

\* Fusion reads the time of a frame from its position, so it must get every
\* frame of the recording once and in order, however the audio was cut into
\* pushes, and nothing of the recording before.
FramesInOrder == \A i \in 1..Len(diar) : diar[i] = i

\* When finish has returned, the frames cover the recording to its end.
FinishCoversAll ==
    diarizer /\ finished => Len(diar) = CeilDiv(total_mel, Sub)

\* stream/diarizer.rs:97-98: "Process a chunk only once its full right context
\* is available, so a push mid-recording sees the same look-ahead NeMo's
\* offline loader did": a chunk that push emits has read no sample that had
\* not arrived.
FullLookAhead ==
    [][(call = "push" /\ next_chunk' = next_chunk + 1) =>
          (window_start + window_len - 1) * Hop + Reach <= audio]_vars

=============================================================================
