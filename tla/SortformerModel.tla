-------------------------- MODULE SortformerModel ---------------------------
(***************************************************************************)
(* What process_chunk of the streaming diarizer computes: the mel window,  *)
(* the three-stage subsampling of pre_encode, the Conformer blocks over    *)
(* the assembled sequence, the Transformer tail and the speaker head.  A   *)
(* subsampled row is the set of mel frames it was computed from.  An entry *)
(* of a hidden tensor is the assembled rows it carries on through the      *)
(* residuals and linear layers (own), and what attention and convolution   *)
(* mixed into it (seen).  Flat arrays are functions on 0..n-1, as in the   *)
(* code, and an operation that is given the wrong number of values answers *)
(* with Err, the empty array.                                              *)
(***************************************************************************)
EXTENDS StreamingDiarizer

CONSTANTS EncoderDim, EncoderHeads, EncoderLayers,
          ConvKernel,                             \* odd
          TransformerDim, TransformerHeads, TransformerLayers

ASSUME ModelAssumption ==
    /\ {EncoderDim, EncoderHeads, EncoderLayers, ConvKernel, TransformerDim,
        TransformerHeads, TransformerLayers} \subseteq Nat \ {0}
    /\ EncoderDim % EncoderHeads = 0 /\ EncoderDim % 2 = 0
    /\ TransformerDim % TransformerHeads = 0
    /\ ConvKernel % 2 = 1
    /\ Sub = 8

-----------------------------------------------------------------------------
(* The mel window                                                          *)

\* frame_mel: a centred window reads Reach samples on each side, and one more
\* for the pre-emphasis; samples outside the audio are zeros.
FrameMel(samples, frame) ==
    [frame |-> frame,
     from  |-> Greatest(0, frame * Hop - Reach - 1),
     to    |-> Least(samples, frame * Hop + Reach)]

ExtractFrames(samples, start, count) ==
    [m \in 1..count |-> {FrameMel(samples, start + m - 1)}]

\* Mutant: the padding is all on the left, as in the causal Conv2D of nemotron.
SymmetricConv_Causal(frames) ==
    [t \in 1..CeilDiv(Len(frames), 2) |->
        UNION {frames[i] : i \in {2 * t - 3, 2 * t - 2, 2 * t - 1} \cap DOMAIN frames}]

\* SymmetricConv2d::forward along time: kernel 3, stride 2, one frame of zeros
\* on each side.
SymmetricConv(frames) ==
    [t \in 1..((Len(frames) + 2 - 3) \div 2 + 1) |->
        UNION {frames[i] : i \in {2 * t - 2, 2 * t - 1, 2 * t} \cap DOMAIN frames}]

\* Subsampling::forward: the stem and two depthwise stages.
Subsampling(frames) == SymmetricConv(SymmetricConv(SymmetricConv(frames)))

\* Encoder::pre_encode
PreEncode(frames) == IF frames = <<>> THEN <<>> ELSE Subsampling(frames)

-----------------------------------------------------------------------------
(* Layers over rows                                                        *)

Err     == <<>>
Size(x) == Cardinality(DOMAIN x)

Merge(entries) == [own  |-> UNION {e.own : e \in entries},
                   seen |-> UNION {e.seen : e \in entries}]

RowOf(x, t, width) == Merge({x[t * width + i] : i \in 0..(width - 1)})

Spread(rows, n, width) == [i \in 0..(n * width - 1) |-> rows[i \div width]]

\* Linear::forward: every output of a row is made of all its inputs.
Linear(x, n, ins, outs) ==
    IF Size(x) # n * ins THEN Err
    ELSE Spread([t \in 0..(n - 1) |-> RowOf(x, t, ins)], n, outs)

\* Norm::forward
Norm(x, n, dims) ==
    IF Size(x) # n * dims THEN Err
    ELSE Spread([t \in 0..(n - 1) |-> RowOf(x, t, dims)], n, dims)

\* The residual additions.
Residual(x, update) ==
    [i \in DOMAIN x \cap DOMAIN update |-> Merge({x[i], update[i]})]

\* FeedForward::forward, with a wider layer in between.
FeedForward(x, n, dims) == Linear(Linear(x, n, dims, 2 * dims), n, 2 * dims, dims)

\* Row-major [n, heads * dim] as [heads, n, dim], and back.
Split(x, n, heads, dim) ==
    [h \in 0..(heads - 1) |-> [t \in 0..(n - 1) |-> [d \in 0..(dim - 1) |->
        x[(t * heads + h) * dim + d]]]]

Join(y, n, heads, dim) ==
    [i \in 0..(n * heads * dim - 1) |->
        y[(i \div dim) % heads][i \div (heads * dim)][i % dim]]

\* The rows that the vector of one head at one time was computed from.
Vector(y, h, t, dim) == UNION {y[h][t][d].own : d \in 0..(dim - 1)}

-----------------------------------------------------------------------------
(* The Conformer encoder                                                   *)

\* relative_position_encoding: distances from n - 1 down to -(n - 1).
Positions(n) ==
    [i \in 0..((2 * n - 1) * EncoderDim - 1) |->
        [own |-> {n - 1 - (i \div EncoderDim)}, seen |-> {}]]

\* gpu_relative_shift: a zero column on the left, the first n entries of the
\* flattened head dropped, and the first n columns of what is left.
RelativeShift(raw, heads, n, positions) ==
    LET Padded(h, i) ==
          IF i % (positions + 1) = 0 THEN <<{}, {}>>
          ELSE raw[h][i \div (positions + 1)][(i % (positions + 1)) - 1]
    IN  [h \in 0..(heads - 1) |-> [q \in 0..(n - 1) |-> [k \in 0..(n - 1) |->
            Padded(h, n + q * positions + k)]]]

Positional(q, p, heads, n, dim) ==
    [h \in 0..(heads - 1) |-> [t \in 0..(n - 1) |-> [j \in 0..(2 * n - 2) |->
        <<Vector(q, h, t, dim), Vector(p, h, j, dim)>>]]]

\* Every key a query weighs: the query of the content score, query and distance
\* of the positional score, the key, and the row whose value it takes.
Looks(q, k, v, shifted, h, t, d, n, dim) ==
    {<<Vector(q, h, t, dim), shifted[h][t][j][1], shifted[h][t][j][2],
       Vector(k, h, j, dim), v[h][j][d].own>> : j \in 0..(n - 1)}

AttendedRelative(q, k, v, shifted, heads, n, dim) ==
    [h \in 0..(heads - 1) |-> [t \in 0..(n - 1) |-> [d \in 0..(dim - 1) |->
        [own |-> {}, seen |-> Looks(q, k, v, shifted, h, t, d, n, dim)]]]]

Projected(x, n, dims, heads) == Split(Linear(x, n, dims, dims), n, heads, dims \div heads)

\* SelfAttention::forward of the encoder.
RelativeAttention(x, n) ==
    LET dim == EncoderDim \div EncoderHeads
        q   == Projected(x, n, EncoderDim, EncoderHeads)
        k   == Projected(x, n, EncoderDim, EncoderHeads)
        v   == Projected(x, n, EncoderDim, EncoderHeads)
        p   == Projected(Positions(n), 2 * n - 1, EncoderDim, EncoderHeads)
        shifted == RelativeShift(Positional(q, p, EncoderHeads, n, dim),
                                 EncoderHeads, n, 2 * n - 1)
    IN  Linear(Join(AttendedRelative(q, k, v, shifted, EncoderHeads, n, dim),
                    n, EncoderHeads, dim), n, EncoderDim, EncoderDim)

\* The gate of the convolution module: both halves of a doubled channel row.
Gated(x, n) ==
    [i \in 0..(n * EncoderDim - 1) |->
        LET at == (i \div EncoderDim) * 2 * EncoderDim + (i % EncoderDim)
        IN  Merge({x[at], x[at + EncoderDim]})]

\* ConvModule::forward: taps on both sides of a frame, none outside the frames.
Convolution(x, n) ==
    LET half  == (ConvKernel - 1) \div 2
        gated == Gated(Linear(x, n, EncoderDim, 2 * EncoderDim), n)
        Taps(frame) == {tap \in 0..(ConvKernel - 1) : (frame + tap - half) \in 0..(n - 1)}
        Convolved(frame, channel) ==
            {<<tap - half, gated[(frame + tap - half) * EncoderDim + channel].own>> :
                tap \in Taps(frame)}
    IN  Linear([i \in 0..(n * EncoderDim - 1) |->
                  [own |-> {}, seen |-> Convolved(i \div EncoderDim, i % EncoderDim)]],
               n, EncoderDim, EncoderDim)

\* ConformerBlock::forward
ConformerBlock(x, n) ==
    LET first    == Residual(x, FeedForward(Norm(x, n, EncoderDim), n, EncoderDim))
        attended == Residual(first, RelativeAttention(Norm(first, n, EncoderDim), n))
        mixed    == Residual(attended, Convolution(Norm(attended, n, EncoderDim), n))
        last     == Residual(mixed, FeedForward(Norm(mixed, n, EncoderDim), n, EncoderDim))
    IN  Norm(last, n, EncoderDim)

\* Encoder::run_embedded over an assembled sequence of n rows.
ForwardEmbedded(embedded, n) ==
    LET layer[l \in 0..EncoderLayers] ==
          IF l = 0 THEN embedded ELSE ConformerBlock(layer[l - 1], n)
    IN  layer[EncoderLayers]

-----------------------------------------------------------------------------
(* The Transformer tail and the speaker head                               *)

Attended(q, k, v, heads, n, dim) ==
    [h \in 0..(heads - 1) |-> [t \in 0..(n - 1) |-> [d \in 0..(dim - 1) |->
        [own  |-> {},
         seen |-> {<<Vector(q, h, t, dim), Vector(k, h, j, dim), v[h][j][d].own>> :
                      j \in 0..(n - 1)}]]]]

\* SelfAttention::forward of the Transformer: no positions, no mask.
SelfAttention(x, n) ==
    LET dim == TransformerDim \div TransformerHeads
        q   == Projected(x, n, TransformerDim, TransformerHeads)
        k   == Projected(x, n, TransformerDim, TransformerHeads)
        v   == Projected(x, n, TransformerDim, TransformerHeads)
    IN  Linear(Join(Attended(q, k, v, TransformerHeads, n, dim), n, TransformerHeads, dim),
               n, TransformerDim, TransformerDim)

\* TransformerLayer::forward: every residual before its norm.
TransformerLayer(x, n) ==
    LET hidden == Norm(Residual(x, SelfAttention(x, n)), n, TransformerDim)
    IN  Norm(Residual(hidden, FeedForward(hidden, n, TransformerDim)), n, TransformerDim)

TransformerTail(encoded, n) ==
    LET layer[l \in 0..TransformerLayers] ==
          IF l = 0 THEN Linear(encoded, n, EncoderDim, TransformerDim)
          ELSE TransformerLayer(layer[l - 1], n)
    IN  layer[TransformerLayers]

SigmoidHead(x, n) ==
    Linear(Linear(x, n, TransformerDim, TransformerDim), n, TransformerDim, NumSpeakers)

SpeakerRows(flat) ==
    [r \in 1..(Size(flat) \div NumSpeakers) |-> RowOf(flat, r - 1, NumSpeakers)]

\* Diarizer::forward_embedded_preds
ForwardEmbeddedPreds(embedded, n) ==
    SpeakerRows(SigmoidHead(TransformerTail(ForwardEmbedded(embedded, n), n), n))

\* The assembled sequence, each row named by its place.
Assembled(n) ==
    [i \in 0..(n * EncoderDim - 1) |-> [own |-> {(i \div EncoderDim) + 1}, seen |-> {}]]

-----------------------------------------------------------------------------
(* Properties                                                              *)

\* Diarizer::diarize: the rows of one pass over the whole audio.
OfflineRows ==
    [samples \in 0..MaxAudio |->
        PreEncode(ExtractFrames(samples, 0, FrameCount(samples)))]

\* The forward pass over sequences of every length a chunk can assemble.
Predictions ==
    [n \in 1..(SpkcacheLen + FifoLen + LeftContext + ChunkLen + RightContext) |->
        ForwardEmbeddedPreds(Assembled(n), n)]

\* What the prediction of row t is made of: its own row, every row at its true
\* distance with its own key and value, and the taps around it.
Expected(t, n) ==
    LET half == (ConvKernel - 1) \div 2
    IN  [own  |-> {t},
         seen |-> {<<{t}, {t}, {t - j}, {j}, {j}>> : j \in 1..n}
             \cup {<<{t}, {j}, {j}>> : j \in 1..n}
             \cup {<<o, {t + o}>> : o \in {x \in -half..half : t + x \in 1..n}}]

\* One left frame of context is enough to hide the chunking, and the answer of
\* the forward pass can be cut by row number (process_chunk, forward_embedded):
\* the window is encoded into one row for each row that lc, rc and the AOSC
\* update count with, every row of the chunk is made of the mel frames and
\* samples that one pass over the audio so far would give it, and the forward
\* pass answers every assembled row, in order, with a prediction that weighs all
\* the rows at their distances from it.
ChunkIsEncodedOffline ==
    MoreChunks =>
        LET rows == PreEncode(ExtractFrames(audio, window_start, window_len))
            n    == Len(preds)
        IN  /\ Len(rows) = Len(chunk_rows)
            /\ \A i \in (lc + 1)..(lc + chunk_len) :
                  rows[i] = OfflineRows[audio][(window_start \div Sub) + i]
            /\ Predictions[n] = [t \in 1..n |-> Expected(t, n)]

=============================================================================
