-------------------------- MODULE StreamingEncoder --------------------------
(***************************************************************************)
(* The cache-aware Nemotron encoder as functions: the framing of the audio *)
(* (StreamingChunkPlan, LogMelFrontend), the causal Conv2D subsampling and *)
(* the FastConformer layers with their caches, and the flat index          *)
(* arithmetic of attention.  A value is what a tensor entry was computed   *)
(* from: a subsampled frame is the set of mel frames it has seen, a key is *)
(* <<frame, head, dimension>>, a score <<query, distance>>.  Flat arrays   *)
(* are functions on 0..n-1, as in the code; time is a sequence.            *)
(***************************************************************************)
EXTENDS Integers, Sequences, FiniteSets

CONSTANTS Lookahead,      \* encoder frames of right context
          SlidingWindow,  \* EncoderConfig::sliding_window, 57 in the checkpoint
          Heads, HeadDim, NumLayers,
          KernelSize,     \* of the depthwise convolution, 9 in the checkpoint
          NumPrompts,     \* one-hot inputs of the language prompt
          Prompt          \* LanguagePrompt of the session

ASSUME LookaheadAssumption == Lookahead \in {0, 3, 6, 13}
ASSUME ConfigAssumption ==
    /\ SlidingWindow \in Nat /\ SlidingWindow >= 2
    /\ {Heads, HeadDim, NumLayers, KernelSize, NumPrompts} \subseteq Nat \ {0}
    /\ Prompt \in 0..(NumPrompts - 1)

-----------------------------------------------------------------------------
(* StreamingChunkPlan: mel frames and PCM samples of the windows.           *)

FirstMelFrames         == 1 + 8 * Lookahead
SubsequentMelFrames    == 8 * (Lookahead + 1)
FirstAudioSamples      == (FirstMelFrames - 1) * 160 + 200
SubsequentAudioSamples == SubsequentMelFrames * 160 + 400
EncoderFramesPerChunk  == Lookahead + 1

(* LogMelFrontend::extract.  A mel frame is the sample its Hann window is   *)
(* centred on; it is whole if the window's 400 samples, and the one before  *)
(* each that pre-emphasis subtracts, are in the slice or before the start   *)
(* of the utterance.                                                        *)

FrameCount(w) == IF w.center THEN w.length \div 160
                 ELSE IF w.length < 512 THEN 0 ELSE (w.length - 512) \div 160 + 1

\* Mutant: every window is centred.
FrameStart_Mistake(w, m) == m * 160 - 256

FrameStart(w, m) == m * 160 - (IF w.center THEN 256 ELSE 0)

MelFrame(w, m) ==
    LET first == FrameStart(w, m) + 56
        last  == FrameStart(w, m) + 455
    IN  [at    |-> w.start + FrameStart(w, m) + 256,
         whole |-> last < w.length /\ (first >= 1 \/ w.start = 0)]

Extract(w) == [m \in 1..FrameCount(w) |-> MelFrame(w, m - 1)]

-----------------------------------------------------------------------------
(* Causal Conv2D subsampling: kernel 3, stride 2, three stages.             *)

NewSubsamplingCache == [s \in 1..3 |-> [first |-> TRUE, frame |-> {}]]

StreamingOutputLength(n) == IF n + 1 < 3 THEN 0 ELSE (n + 1 - 3) \div 2 + 1

\* Mutant: the first chunk is padded by one frame, as every later one.
PrependFrame_Mistake(cache, frames) ==
    [combined |-> <<cache.frame>> \o frames,
     cache    |-> [cache EXCEPT !.first = FALSE,
                                !.frame = (<<cache.frame>> \o frames)[Len(frames) + 1]]]

\* CausalConv2dCache::prepend_and_update: one frame is kept, and the first chunk
\* of an utterance has one more frame of silence before it.
PrependFrame(cache, frames) ==
    [combined |-> (IF cache.first THEN <<{}, cache.frame>> ELSE <<cache.frame>>) \o frames,
     cache    |-> [cache EXCEPT !.first = FALSE,
                                !.frame = (<<cache.frame>> \o frames)[Len(frames) + 1]]]

\* Fp16Conv2d::forward_causal
Convolved(combined) ==
    [t \in 1..((Len(combined) - 3) \div 2 + 1) |->
        combined[2 * t - 1] \cup combined[2 * t] \cup combined[2 * t + 1]]

CausalConv(cache, frames) ==
    LET prepended == PrependFrame(cache, frames)
    IN  [frames |-> Convolved(prepended.combined), cache |-> prepended.cache]

MaskInvalidTime(frames, valid) ==
    [t \in DOMAIN frames |-> IF t <= valid THEN frames[t] ELSE {}]

\* One stage of the subsampling: its convolution, and the frames past the valid
\* length silenced.
SubsamplingStage(s, before) ==
    LET conv  == CausalConv(before.caches[s], before.frames)
        valid == StreamingOutputLength(before.valid)
    IN  [frames |-> MaskInvalidTime(conv.frames, valid),
         valid  |-> valid,
         caches |-> [before.caches EXCEPT ![s] = conv.cache]]

\* Conv2dSubsampling::forward
Subsample(caches, mel) ==
    SubsamplingStage(3, SubsamplingStage(2, SubsamplingStage(1,
        [frames |-> mel, valid |-> Len(mel), caches |-> caches])))

-----------------------------------------------------------------------------
(* Attention with a sliding key/value cache.                                *)

Hidden == Heads * HeadDim

TokenMajor(ids) ==
    [i \in 0..(Len(ids) * Hidden - 1) |->
        <<ids[i \div Hidden + 1], (i % Hidden) \div HeadDim, i % HeadDim>>]

TokenMajorToHeadMajor(values, frames) ==
    [i \in 0..(frames * Hidden - 1) |->
        LET head  == i \div (frames * HeadDim)
            frame == (i % (frames * HeadDim)) \div HeadDim
        IN  values[frame * Hidden + head * HeadDim + (i % HeadDim)]]

\* AttentionKvCache::update: what the call sees, and the newest frames kept.
KvUpdate(kv, current, frames) ==
    LET total    == kv.frames + frames
        kept     == IF total < SlidingWindow - 1 THEN total ELSE SlidingWindow - 1
        keys     == [i \in 0..(Heads * total * HeadDim - 1) |->
                       LET head == i \div (total * HeadDim)
                           r    == i % (total * HeadDim)
                       IN  IF r < kv.frames * HeadDim
                           THEN kv.keys[head * kv.frames * HeadDim + r]
                           ELSE current[head * frames * HeadDim + r - kv.frames * HeadDim]]
        retained == [i \in 0..(Heads * kept * HeadDim - 1) |->
                       keys[((i \div (kept * HeadDim)) * total + total - kept) * HeadDim
                              + (i % (kept * HeadDim))]]
    IN  [visible |-> [frames |-> total, keys |-> keys],
         cache   |-> [frames |-> kept, keys |-> retained]]

\* relative_position_encoding: distances total-1 down to -(total-1).
RelativePositions(total) == [p \in 0..(2 * total - 2) |-> total - 1 - p]

\* Mutant: one entry too many is dropped.
RelativeShift_Mistake(scores, queries, positions, zero) ==
    LET padded == [i \in 0..(queries * (positions + 1)) |->
                     IF i % (positions + 1) = 0 THEN zero
                     ELSE scores[(i \div (positions + 1)) * positions + (i % (positions + 1)) - 1]]
    IN  [i \in 0..(queries * positions - 1) |-> padded[i + queries + 1]]

\* relative_shift: a zero before every row, then the first queries entries dropped.
RelativeShift(scores, queries, positions, zero) ==
    LET padded == [i \in 0..(queries * (positions + 1) - 1) |->
                     IF i % (positions + 1) = 0 THEN zero
                     ELSE scores[(i \div (positions + 1)) * positions + (i % (positions + 1)) - 1]]
    IN  [i \in 0..(queries * positions - 1) |-> padded[i + queries]]

\* The score of every query and key: the query and the distance it was made of.
Scores(queries, total) ==
    RelativeShift([i \in 0..(queries * (2 * total - 1) - 1) |->
                     <<i \div (2 * total - 1), RelativePositions(total)[i % (2 * total - 1)]>>],
                  queries, 2 * total - 1, <<-1, 0>>)

\* A key frame, the distance its score assumed, and whether head, dimension
\* and query of the two entries are those asked for.
Look(q, h, d, key, score) == <<key[1], score[2], <<h, d, q>> = <<key[2], key[3], score[1]>> >>

Weighed(queries, visible, scores) ==
    [q \in 1..queries |->
        {Look(q - 1, h, d, visible.keys[(h * visible.frames + k) * HeadDim + d],
              scores[(q - 1) * (2 * visible.frames - 1) + k]) :
            h \in 0..(Heads - 1), k \in 0..(visible.frames - 1), d \in 0..(HeadDim - 1)}]

\* RelativePositionAttention::forward_streaming: for every query of the chunk
\* what it weighs.
Attend(kv, ids) ==
    LET update == KvUpdate(kv, TokenMajorToHeadMajor(TokenMajor(ids), Len(ids)), Len(ids))
    IN  [cache |-> update.cache,
         views |-> Weighed(Len(ids), update.visible, Scores(Len(ids), update.visible.frames))]

NewKvCache == [frames |-> 0, keys |-> [i \in 0..-1 |-> <<0, 0, 0>>]]

\* chunked_attention_mask, the offline form: the keys that query sees.
OfflineKeys(query, frames, left, right) ==
    LET chunk == right + 1
    IN  {key \in 0..(frames - 1) : /\ query \div chunk >= key \div chunk
                                   /\ query \div chunk - key \div chunk <= left \div chunk}

-----------------------------------------------------------------------------
(* Depthwise causal convolution and the FastConformer stack.                *)

Silence == {}

NewConvCache == [i \in 1..(KernelSize - 1) |-> Silence]

\* The gate of ConformerConvolution: pointwise1 doubles the channels of a frame,
\* and a channel is gated by the one Hidden places on.  A gated frame is the
\* frames its channels were made of.
Gated(ids) ==
    LET projected == [i \in 0..(2 * Hidden * Len(ids) - 1) |-> ids[i \div (2 * Hidden) + 1]]
    IN  [t \in 1..Len(ids) |->
            UNION {{projected[(t - 1) * 2 * Hidden + c],
                    projected[(t - 1) * 2 * Hidden + Hidden + c]} : c \in 0..(Hidden - 1)}]

\* CausalConv1dCache::prepend_and_update
PrependFrames(cache, frames) ==
    [combined |-> cache \o frames,
     cache    |-> SubSeq(cache \o frames, Len(frames) + 1, Len(frames) + Len(cache))]

\* DepthwiseConv1d::forward_f32
Depthwise(cache, frames) ==
    LET prepended == PrependFrames(cache, frames)
    IN  [cache |-> prepended.cache,
         views |-> [t \in 1..Len(frames) |-> SubSeq(prepended.combined, t, t + KernelSize - 1)]]

NewLayerCache == [attention |-> NewKvCache, convolution |-> NewConvCache]

\* FastConformerLayer::forward when the first of its cache updates are made: the
\* attention's, then the convolution's.
LayerForward(cache, ids, updates) ==
    LET att  == Attend(cache.attention, ids)
        conv == Depthwise(cache.convolution, Gated(ids))
    IN  [cache |-> [attention   |-> IF updates >= 1 THEN att.cache ELSE cache.attention,
                    convolution |-> IF updates >= 2 THEN conv.cache ELSE cache.convolution],
         views |-> [attention |-> att.views, convolution |-> conv.views]]

\* PromptProjector::forward_f32: the rows fused with the one-hot prompt, as the
\* frames and the prompts each row of the projection is made of.
Prompted(hidden, rows) ==
    LET width == Hidden + NumPrompts
        Fused(row, column) ==
            IF column < Hidden THEN [frames |-> {hidden[row * Hidden + column][1]}, prompts |-> {}]
            ELSE [frames |-> {}, prompts |-> IF column = Hidden + Prompt THEN {Prompt} ELSE {}]
        Columns(row) == {Fused(row, column) : column \in 0..(width - 1)}
    IN  [t \in 1..rows |-> [frames  |-> UNION {c.frames : c \in Columns(t - 1)},
                            prompts |-> UNION {c.prompts : c \in Columns(t - 1)}]]

NewEncoderCache ==
    [subsampling |-> NewSubsamplingCache, layers |-> [l \in 1..NumLayers |-> NewLayerCache]]

\* The cache updates of one chunk: three stages, then layer after layer.
CacheUpdates == 3 + 2 * NumLayers

\* StreamingEncoder::encode_chunk when its first done cache updates are made:
\* all of them unless some tensor operation in between fails.
EncodeChunk(cache, mel, base, done) ==
    LET sub    == Subsample(cache.subsampling, mel)
        ids    == [t \in 1..Len(sub.frames) |-> base + t - 1]
        layers == [l \in 1..NumLayers |-> LayerForward(cache.layers[l], ids, done - 1 - 2 * l)]
    IN  [cache |->
           [subsampling |-> [s \in 1..3 |-> IF s <= done THEN sub.caches[s]
                                            ELSE cache.subsampling[s]],
            layers      |-> [l \in 1..NumLayers |-> layers[l].cache]],
         frames |-> sub.frames, ids |-> ids, rows |-> Prompted(TokenMajor(ids), Len(ids)),
         views  |-> [l \in 1..NumLayers |-> layers[l].views]]
=============================================================================
