---------------------- MODULE StreamingEncoder_proofs ----------------------
(***************************************************************************)
(* What one chunk does to the encoder's caches, how many frames it makes   *)
(* and what they look at: the lemmas that the transcriber's frame clock    *)
(* and its equality with an offline pass rest on.                          *)
(***************************************************************************)
EXTENDS StreamingEncoder, SequenceTheorems, TLAPS

(* Caches and frames: a frame stands for the mel positions it was made of.  *)
ConvCaches == [first : BOOLEAN, frame : SUBSET Int]
Frames     == Seq(SUBSET Int)

(* Frames that a convolution makes of n, after the padding of its cache.    *)
ConvLength(first, n) == (n + (IF first THEN 2 ELSE 1) - 3) \div 2 + 1

(* A stride of two over windows of three stays within its input.            *)
LEMMA Halves ==
    ASSUME NEW n \in Int, n >= -2
    PROVE  /\ n \div 2 + 1 \in Nat
           /\ \A t \in 1..(n \div 2 + 1) : 2 * t - 1 \in 1..(n + 3) /\ 2 * t \in 1..(n + 3)
                                           /\ 2 * t + 1 \in 1..(n + 3)
OBVIOUS

(* A causal convolution halves its input and its padding, and its cache is  *)
(* no longer new.                                                           *)
LEMMA Convolution ==
    ASSUME NEW c \in ConvCaches, NEW f \in Frames
    PROVE  /\ CausalConv(c, f).frames \in Frames
           /\ Len(CausalConv(c, f).frames) = ConvLength(c.first, Len(f))
           /\ ConvLength(c.first, Len(f)) \in Nat
           /\ CausalConv(c, f).cache \in ConvCaches /\ ~CausalConv(c, f).cache.first
<1> DEFINE head == IF c.first THEN <<{}, c.frame>> ELSE <<c.frame>>
           all  == head \o f
           n    == Len(f) + (IF c.first THEN 2 ELSE 1) - 3
<1>1. c.first \in BOOLEAN /\ c.frame \in SUBSET Int /\ Len(f) \in Nat
  BY DEF ConvCaches, Frames
<1>2. head \in Frames /\ Len(head) = IF c.first THEN 2 ELSE 1
  <2>1. {} \in SUBSET Int OBVIOUS
  <2>2. <<{}, c.frame>> \in Seq(SUBSET Int) /\ Len(<<{}, c.frame>>) = 2 BY <1>1, <2>1
  <2>3. <<c.frame>> \in Seq(SUBSET Int) /\ Len(<<c.frame>>) = 1 BY <1>1
  <2> QED BY <1>1, <2>2, <2>3 DEF Frames
<1>3. all \in Frames /\ Len(all) = n + 3
  <2> HIDE DEF head
  <2>1. \A u, v \in Seq(SUBSET Int) : u \o v \in Seq(SUBSET Int) /\ Len(u \o v) = Len(u) + Len(v)
    OBVIOUS
  <2>2. head \o f \in Seq(SUBSET Int) /\ Len(head \o f) = Len(head) + Len(f)
    BY <1>2, <2>1 DEF Frames
  <2> QED BY <1>1, <1>2, <2>2 DEF Frames
<1>4. n \in Int /\ n >= -2 BY <1>1
<1>5. CausalConv(c, f).frames = Convolved(all)
  BY DEF CausalConv, PrependFrame
<1> HIDE DEF all
<1>6. Convolved(all) \in Frames /\ Len(Convolved(all)) = n \div 2 + 1
  <2> DEFINE k == n \div 2 + 1
  <2>1. k \in Nat BY <1>4, Halves
  <2>2. \A t \in 1..k : all[2 * t - 1] \cup all[2 * t] \cup all[2 * t + 1] \in SUBSET Int
    <3>1. \A i \in 1..(n + 3) : all[i] \in SUBSET Int BY <1>3 DEF Frames
    <3> QED BY <1>4, <3>1, Halves
  <2>3. Convolved(all) = [t \in 1..k |-> all[2 * t - 1] \cup all[2 * t] \cup all[2 * t + 1]]
    <3>1. Len(all) - 3 = n BY <1>3, <1>4
    <3> QED BY <3>1 DEF Convolved
  <2> HIDE DEF k
  <2>4. Convolved(all) \in [1..k -> SUBSET Int] BY <2>2, <2>3
  <2>5. Convolved(all) \in Frames /\ Len(Convolved(all)) = k BY <2>1, <2>4 DEF Frames
  <2> QED BY <2>5 DEF k
<1>7. CausalConv(c, f).cache \in ConvCaches /\ ~CausalConv(c, f).cache.first
  <2>1. CausalConv(c, f).cache
          = [c EXCEPT !.first = FALSE, !.frame = (<<c.frame>> \o f)[Len(f) + 1]]
    BY DEF CausalConv, PrependFrame
  <2>2. (<<c.frame>> \o f)[Len(f) + 1] \in SUBSET Int
    <3>1. <<c.frame>> \o f \in Seq(SUBSET Int) /\ Len(<<c.frame>> \o f) = Len(f) + 1
      BY <1>1 DEF Frames
    <3>2. Len(f) + 1 \in 1..Len(<<c.frame>> \o f) BY <1>1, <3>1
    <3> QED BY <3>1, <3>2
  <2> QED BY <2>1, <2>2 DEF ConvCaches
<1> QED BY <1>4, <1>5, <1>6, <1>7, Halves DEF ConvLength

(* The frames between two stages, with the caches of all three.             *)
Stages == [frames : Frames, valid : Int, caches : [1..3 -> ConvCaches]]

(* A stage moves its own cache and no other.                                *)
LEMMA Stage ==
    ASSUME NEW s \in 1..3, NEW b \in Stages
    PROVE  /\ SubsamplingStage(s, b) \in Stages
           /\ Len(SubsamplingStage(s, b).frames) = ConvLength(b.caches[s].first, Len(b.frames))
           /\ ~SubsamplingStage(s, b).caches[s].first
           /\ \A r \in (1..3) \ {s} : SubsamplingStage(s, b).caches[r] = b.caches[r]
<1> DEFINE conv == CausalConv(b.caches[s], b.frames)
           valid == StreamingOutputLength(b.valid)
<1>1. b.caches[s] \in ConvCaches /\ b.frames \in Frames /\ b.valid \in Int
      /\ b.caches \in [1..3 -> ConvCaches]
  BY DEF Stages
<1>2. /\ conv.frames \in Frames /\ Len(conv.frames) = ConvLength(b.caches[s].first, Len(b.frames))
      /\ conv.cache \in ConvCaches /\ ~conv.cache.first
  BY <1>1, Convolution
<1>3. valid \in Int BY <1>1 DEF StreamingOutputLength
<1> HIDE DEF conv, valid
<1>4. MaskInvalidTime(conv.frames, valid) \in Frames
      /\ Len(MaskInvalidTime(conv.frames, valid)) = Len(conv.frames)
  <2> DEFINE n == Len(conv.frames)
  <2>1. n \in Nat /\ DOMAIN conv.frames = 1..n /\ \A t \in 1..n : conv.frames[t] \in SUBSET Int
    BY <1>2 DEF Frames
  <2>2. MaskInvalidTime(conv.frames, valid) \in [1..n -> SUBSET Int]
    BY <2>1 DEF MaskInvalidTime
  <2> HIDE DEF n
  <2>3. MaskInvalidTime(conv.frames, valid) \in Frames
        /\ Len(MaskInvalidTime(conv.frames, valid)) = n
    BY <2>1, <2>2 DEF Frames
  <2> QED BY <2>3 DEF n
<1>5. SubsamplingStage(s, b) = [frames |-> MaskInvalidTime(conv.frames, valid), valid |-> valid,
                                caches |-> [b.caches EXCEPT ![s] = conv.cache]]
  BY DEF SubsamplingStage, conv, valid
<1> QED BY <1>1, <1>2, <1>3, <1>4, <1>5 DEF Stages

(* The three stages together.                                               *)
LEMMA Subsampled ==
    ASSUME NEW caches \in [1..3 -> ConvCaches], NEW mel \in Frames
    PROVE  LET out == Subsample(caches, mel)
           IN  /\ out \in Stages
               /\ \A s \in 1..3 : ~out.caches[s].first
               /\ Len(out.frames) = ConvLength(caches[3].first,
                                       ConvLength(caches[2].first,
                                         ConvLength(caches[1].first, Len(mel))))
<1> DEFINE b0 == [frames |-> mel, valid |-> Len(mel), caches |-> caches]
           b1 == SubsamplingStage(1, b0)
           b2 == SubsamplingStage(2, b1)
           b3 == SubsamplingStage(3, b2)
<1>1. b0 \in Stages /\ b0.caches = caches /\ b0.frames = mel
  <2>1. Len(mel) \in Int BY DEF Frames
  <2> QED BY <2>1 DEF Stages
<1>2. Subsample(caches, mel) = b3 BY DEF Subsample
<1> HIDE DEF b0
<1>3. /\ b1 \in Stages /\ Len(b1.frames) = ConvLength(caches[1].first, Len(mel))
      /\ ~b1.caches[1].first /\ b1.caches[2] = caches[2] /\ b1.caches[3] = caches[3]
  BY <1>1, Stage
<1> HIDE DEF b1
<1>4. /\ b2 \in Stages
      /\ Len(b2.frames) = ConvLength(caches[2].first, ConvLength(caches[1].first, Len(mel)))
      /\ ~b2.caches[1].first /\ ~b2.caches[2].first /\ b2.caches[3] = caches[3]
  BY <1>3, Stage
<1> HIDE DEF b2
<1>5. /\ b3 \in Stages
      /\ Len(b3.frames) = ConvLength(caches[3].first, ConvLength(caches[2].first,
                             ConvLength(caches[1].first, Len(mel))))
      /\ ~b3.caches[1].first /\ ~b3.caches[2].first /\ ~b3.caches[3].first
  BY <1>4, Stage
<1> HIDE DEF b3
<1>6. \A s \in 1..3 : ~b3.caches[s].first
  <2>1. \A s \in 1..3 : s = 1 \/ s = 2 \/ s = 3 OBVIOUS
  <2> QED BY <1>5, <2>1
<1> QED BY <1>2, <1>5, <1>6

(* Each chunk of the plan makes the same number of encoder frames: the      *)
(* first one, padded by two at every stage, and the later ones whatever     *)
(* their padding.                                                           *)
LEMMA ChunkLengths ==
    /\ ConvLength(TRUE, ConvLength(TRUE, ConvLength(TRUE, FirstMelFrames))) = EncoderFramesPerChunk
    /\ \A a, b, c \in BOOLEAN :
          ConvLength(a, ConvLength(b, ConvLength(c, SubsequentMelFrames))) = EncoderFramesPerChunk
<1> USE DEF ConvLength, FirstMelFrames, SubsequentMelFrames, EncoderFramesPerChunk
<1>1. CASE Lookahead = 0 BY <1>1
<1>2. CASE Lookahead = 3 BY <1>2
<1>3. CASE Lookahead = 6 BY <1>3
<1>4. CASE Lookahead = 13 BY <1>4
<1> QED BY <1>1, <1>2, <1>3, <1>4, LookaheadAssumption

(* Frames that a cache keeps of n (KvCache::update).                        *)
Retained(n) == IF n < SlidingWindow - 1 THEN n ELSE SlidingWindow - 1

(* A failed chunk leaves the caches well formed.                            *)
LEMMA PartlyEncoded ==
    ASSUME NEW c, c.subsampling \in [1..3 -> ConvCaches], NEW mel \in Frames, NEW base, NEW done
    PROVE  EncodeChunk(c, mel, base, done).cache.subsampling \in [1..3 -> ConvCaches]
<1> DEFINE sub == Subsample(c.subsampling, mel)
<1>1. sub.caches \in [1..3 -> ConvCaches] BY Subsampled DEF Stages
<1>2. EncodeChunk(c, mel, base, done).cache.subsampling
        = [s \in 1..3 |-> IF s <= done THEN sub.caches[s] ELSE c.subsampling[s]]
  BY DEF EncodeChunk
<1> HIDE DEF sub
<1> QED BY <1>1, <1>2

(* An encoded chunk moves every cache: no convolution is at its first       *)
(* chunk, and each layer keeps the last of its frames.                      *)
LEMMA FullyEncoded ==
    ASSUME NEW c, c.subsampling \in [1..3 -> ConvCaches], NEW mel \in Frames, NEW base
    PROVE  LET out == EncodeChunk(c, mel, base, CacheUpdates)
           IN  /\ out.frames = Subsample(c.subsampling, mel).frames
               /\ \A s \in 1..3 : ~out.cache.subsampling[s].first
               /\ \A l \in 1..NumLayers : out.cache.layers[l].attention.frames
                    = Retained(c.layers[l].attention.frames + Len(out.frames))
<1> DEFINE out == EncodeChunk(c, mel, base, CacheUpdates)
           sub == Subsample(c.subsampling, mel)
           ids == [t \in 1..Len(sub.frames) |-> base + t - 1]
<1>1. out.frames = sub.frames BY DEF EncodeChunk
<1>2. NumLayers \in Nat \ {0} BY ConfigAssumption
<1>3. \A s \in 1..3 : ~out.cache.subsampling[s].first
  <2>1. \A s \in 1..3 : s <= CacheUpdates BY <1>2 DEF CacheUpdates
  <2>2. out.cache.subsampling
          = [s \in 1..3 |-> IF s <= CacheUpdates THEN sub.caches[s] ELSE c.subsampling[s]]
    BY DEF EncodeChunk
  <2>3. \A s \in 1..3 : ~sub.caches[s].first BY Subsampled
  <2> HIDE DEF out, sub
  <2> QED BY <2>1, <2>2, <2>3
<1>4. ASSUME NEW l \in 1..NumLayers
      PROVE  out.cache.layers[l].attention.frames
               = Retained(c.layers[l].attention.frames + Len(out.frames))
  <2>1. CacheUpdates - 1 - 2 * l >= 1 BY <1>2 DEF CacheUpdates
  <2>2. out.cache.layers[l]
          = LayerForward(c.layers[l], ids, CacheUpdates - 1 - 2 * l).cache
    BY DEF EncodeChunk
  <2> HIDE DEF out
  <2>3. out.cache.layers[l].attention = Attend(c.layers[l].attention, ids).cache
    BY <2>1, <2>2 DEF LayerForward
  <2>4. Len(ids) = Len(sub.frames)
    <3>1. Len(sub.frames) \in Nat BY Subsampled DEF Stages, Frames
    <3> HIDE DEF sub
    <3> QED BY <3>1
  <2> HIDE DEF ids
  <2>5. Attend(c.layers[l].attention, ids).cache.frames
          = Retained(c.layers[l].attention.frames + Len(ids))
    BY DEF Attend, KvUpdate, Retained
  <2> QED BY <1>1, <2>3, <2>4, <2>5
<1> QED BY <1>1, <1>3, <1>4

-----------------------------------------------------------------------------
(* The stages and an offline pass.                                          *)

(* What a frame of a stage is made of, for every index at once: silence     *)
(* before the utterance.                                                    *)
Heard == [t \in Int |-> IF t >= 0 THEN {160 * t} ELSE {}]

StageOf(p, silent) ==
    [t \in Int |-> IF t >= 0 /\ t # silent THEN p[2 * t - 2] \cup p[2 * t - 1] \cup p[2 * t]
                   ELSE {}]

Profiles == [Int -> SUBSET Int]

(* Before the utterance there is silence.                                   *)
LEMMA HeardProfile == Heard \in Profiles /\ Heard[-1] = {} /\ Heard[-2] = {}
BY DEF Heard, Profiles

(* A stage of a profile is a profile, silent before the utterance too.      *)
LEMMA StageProfile ==
    ASSUME NEW p \in Profiles, NEW silent \in Int
    PROVE  /\ StageOf(p, silent) \in Profiles
           /\ StageOf(p, silent)[-1] = {} /\ StageOf(p, silent)[-2] = {}
<1>1. \A t \in Int : p[2 * t - 2] \cup p[2 * t - 1] \cup p[2 * t] \in SUBSET Int
  BY DEF Profiles
<1>2. StageOf(p, silent) \in [Int -> SUBSET Int] BY <1>1 DEF StageOf
<1> QED BY <1>2 DEF StageOf, Profiles

(* The frames of f are those of the profile p from index b on, and the      *)
(* cache holds the one before; the output then starts at index o.           *)
Follows(p, c, f, b, o) ==
    /\ \A i \in 1..Len(f) : f[i] = p[b + i - 1]
    /\ IF c.first THEN b = 0 /\ o = 0 /\ c.frame = {} ELSE b = 2 * o - 1 /\ c.frame = p[b - 1]

(* A convolution of frames that follow p sees three frames of p, two apart, *)
(* whether the padding or the cache comes before them, and caches the last  *)
(* frame.                                                                   *)
LEMMA ConvolutionFollows ==
    ASSUME NEW p \in Profiles, p[-1] = {}, p[-2] = {}, NEW c \in ConvCaches, NEW f \in Frames,
           NEW b \in Int, NEW o \in Int, Follows(p, c, f, b, o), Len(f) > 0
    PROVE  /\ \A t \in 1..Len(CausalConv(c, f).frames) :
                 CausalConv(c, f).frames[t]
                   = p[2 * (o + t - 1) - 2] \cup p[2 * (o + t - 1) - 1] \cup p[2 * (o + t - 1)]
           /\ CausalConv(c, f).cache.frame = p[b + Len(f) - 1]
<1> DEFINE head == IF c.first THEN <<{}, c.frame>> ELSE <<c.frame>>
           all  == head \o f
           h    == IF c.first THEN 2 ELSE 1
           n    == Len(f) + h - 3
<1>1. c.first \in BOOLEAN /\ c.frame \in SUBSET Int /\ Len(f) \in Nat /\ h \in 1..2
  BY DEF ConvCaches, Frames
<1>2. head \in Seq(SUBSET Int) /\ Len(head) = h
  <2>1. {} \in SUBSET Int OBVIOUS
  <2>2. <<{}, c.frame>> \in Seq(SUBSET Int) /\ Len(<<{}, c.frame>>) = 2 BY <1>1, <2>1
  <2>3. <<c.frame>> \in Seq(SUBSET Int) /\ Len(<<c.frame>>) = 1 BY <1>1
  <2> QED BY <1>1, <2>2, <2>3
<1>3. \A j \in 1..h : head[j] = p[2 * o - 3 + j]
  <2>1. CASE c.first
    <3>1. h = 2 /\ head[1] = {} /\ head[2] = {} /\ o = 0 BY <2>1 DEF Follows
    <3> HIDE DEF head, h
    <3>2. \A j \in 1..2 : j = 1 \/ j = 2 OBVIOUS
    <3>3. 2 * o - 3 + 1 = -2 /\ 2 * o - 3 + 2 = -1 BY <3>1
    <3> QED BY <3>1, <3>2, <3>3
  <2>2. CASE ~c.first
    <3>1. h = 1 /\ head[1] = c.frame /\ c.frame = p[b - 1] /\ b = 2 * o - 1
      BY <2>2 DEF Follows
    <3> HIDE DEF head, h
    <3>2. \A j \in 1..1 : j = 1 OBVIOUS
    <3>3. b - 1 = 2 * o - 3 + 1 BY <3>1
    <3> QED BY <3>1, <3>2, <3>3
  <2> QED BY <2>1, <2>2
<1>4. h = 1 => b = 2 * o - 1
  BY <1>1 DEF Follows
<1>5. h = 2 => b = 0 /\ o = 0 BY <1>1 DEF Follows
<1>6. \A i \in 1..Len(f) : f[i] = p[b + i - 1] BY DEF Follows
<1>7. CausalConv(c, f).frames = Convolved(all)
  BY DEF CausalConv, PrependFrame
<1>8. CausalConv(c, f).cache.frame = (<<c.frame>> \o f)[Len(f) + 1]
  <2>1. CausalConv(c, f).cache
          = [c EXCEPT !.first = FALSE, !.frame = (<<c.frame>> \o f)[Len(f) + 1]]
    BY DEF CausalConv, PrependFrame
  <2> QED BY <2>1 DEF ConvCaches
<1> HIDE DEF head, h
<1>9. all \in Seq(SUBSET Int) /\ Len(all) = h + Len(f)
      /\ (\A j \in 1..h : all[j] = head[j]) /\ (\A i \in 1..Len(f) : all[h + i] = f[i])
  BY <1>1, <1>2 DEF Frames
<1> HIDE DEF all
<1>10. \A j \in 1..(h + Len(f)) : all[j] = p[2 * o - 3 + j]
  <2> SUFFICES ASSUME NEW j \in 1..(h + Len(f)) PROVE all[j] = p[2 * o - 3 + j] OBVIOUS
  <2>1. CASE j \in 1..h BY <1>3, <1>9, <2>1
  <2>2. CASE j \notin 1..h
    <3>1. j - h \in 1..Len(f) /\ h + (j - h) = j BY <1>1, <2>2
    <3>2. all[j] = f[j - h] BY <1>9, <3>1
    <3>3. f[j - h] = p[b + (j - h) - 1] BY <1>6, <3>1
    <3>4. b + (j - h) - 1 = 2 * o - 3 + j
      <4>1. h = 1 \/ h = 2 BY <1>1
      <4> QED BY <1>4, <1>5, <4>1
    <3> QED BY <3>2, <3>3, <3>4
  <2> QED BY <2>1, <2>2
<1>11. ASSUME NEW t \in 1..Len(Convolved(all))
       PROVE  Convolved(all)[t]
                = p[2 * (o + t - 1) - 2] \cup p[2 * (o + t - 1) - 1] \cup p[2 * (o + t - 1)]
  <2> DEFINE k == n \div 2 + 1
  <2>1. n \in Int /\ n >= -2 /\ n + 3 = h + Len(f) BY <1>1
  <2>2. k \in Nat /\ Convolved(all) = [u \in 1..k |-> all[2 * u - 1] \cup all[2 * u] \cup all[2 * u + 1]]
    <3>1. Len(all) - 3 = n BY <1>1, <1>9
    <3>2. k \in Nat BY <2>1, Halves
    <3> QED BY <3>1, <3>2 DEF Convolved
  <2>3. Len(Convolved(all)) = k
    <3> HIDE DEF k
    <3>1. Convolved(all) \in [1..k -> UNION {SUBSET Int, {Convolved(all)[u] : u \in 1..k}}]
      BY <2>2
    <3> QED BY <2>2, <3>1
  <2>4. t \in 1..k BY <2>3
  <2>5. 2 * t - 1 \in 1..(n + 3) /\ 2 * t \in 1..(n + 3) /\ 2 * t + 1 \in 1..(n + 3)
    BY <2>1, <2>4, Halves
  <2>6. Convolved(all)[t] = all[2 * t - 1] \cup all[2 * t] \cup all[2 * t + 1]
    <3> HIDE DEF k
    <3> QED BY <2>2, <2>4
  <2>7. /\ all[2 * t - 1] = p[2 * o - 3 + (2 * t - 1)]
        /\ all[2 * t] = p[2 * o - 3 + 2 * t] /\ all[2 * t + 1] = p[2 * o - 3 + (2 * t + 1)]
    BY <1>10, <2>1, <2>5
  <2>8. /\ 2 * o - 3 + (2 * t - 1) = 2 * (o + t - 1) - 2
        /\ 2 * o - 3 + 2 * t = 2 * (o + t - 1) - 1
        /\ 2 * o - 3 + (2 * t + 1) = 2 * (o + t - 1)
    <3>1. t \in Int BY <2>2, <2>4
    <3> HIDE DEF k, n
    <3> QED BY <3>1
  <2> QED BY <2>6, <2>7, <2>8
<1>12. (<<c.frame>> \o f)[Len(f) + 1] = p[b + Len(f) - 1]
  <2>1. \A i \in 1..Len(f) : (<<c.frame>> \o f)[i + 1] = f[i]
    BY <1>1 DEF Frames
  <2>2. Len(f) \in 1..Len(f) BY <1>1
  <2>3. (<<c.frame>> \o f)[Len(f) + 1] = f[Len(f)] BY <2>1, <2>2
  <2> QED BY <1>6, <2>2, <2>3
<1> QED BY <1>7, <1>8, <1>11, <1>12

(* Of n frames the first "valid" are heard: all but frame "silent".         *)
Heeds(o, silent, n, valid) == \A t \in 1..n : t <= valid <=> o + t - 1 # silent

(* A stage's output follows p from index o, and its cache holds "last".     *)
Yields(s, out, p, o, last) ==
    /\ \A t \in 1..Len(out.frames) : out.frames[t] = p[o + t - 1]
    /\ out.caches[s].frame = last

(* A stage of frames that follow p follows the stage of p.                  *)
LEMMA StageFollows ==
    ASSUME NEW p \in Profiles, p[-1] = {}, p[-2] = {}, NEW s \in 1..3, NEW before \in Stages,
           NEW b \in Int, NEW o \in Nat, NEW silent \in Int,
           Follows(p, before.caches[s], before.frames, b, o), Len(before.frames) > 0,
           Heeds(o, silent, ConvLength(before.caches[s].first, Len(before.frames)),
                 StreamingOutputLength(before.valid))
    PROVE  /\ Yields(s, SubsamplingStage(s, before), StageOf(p, silent), o,
                     p[b + Len(before.frames) - 1])
           /\ SubsamplingStage(s, before).valid = StreamingOutputLength(before.valid)
<1> DEFINE conv == CausalConv(before.caches[s], before.frames)
           valid == StreamingOutputLength(before.valid)
           out == SubsamplingStage(s, before)
<1>1. before.caches[s] \in ConvCaches /\ before.frames \in Frames /\ before.valid \in Int
      /\ before.caches \in [1..3 -> ConvCaches]
  BY DEF Stages
<1>2. /\ \A t \in 1..Len(conv.frames) :
            conv.frames[t] = p[2 * (o + t - 1) - 2] \cup p[2 * (o + t - 1) - 1] \cup p[2 * (o + t - 1)]
      /\ conv.cache.frame = p[b + Len(before.frames) - 1]
  <2> DEFINE c == before.caches[s]
             f == before.frames
  <2>1. /\ c \in ConvCaches /\ f \in Frames /\ Follows(p, c, f, b, o) /\ Len(f) > 0
        /\ o \in Int
    BY <1>1
  <2> HIDE DEF c, f
  <2>2. /\ \A t \in 1..Len(CausalConv(c, f).frames) :
              CausalConv(c, f).frames[t]
                = p[2 * (o + t - 1) - 2] \cup p[2 * (o + t - 1) - 1] \cup p[2 * (o + t - 1)]
        /\ CausalConv(c, f).cache.frame = p[b + Len(f) - 1]
    BY <2>1, ConvolutionFollows
  <2> QED BY <2>2 DEF c, f
<1>3. /\ conv.frames \in Frames
      /\ Len(conv.frames) = ConvLength(before.caches[s].first, Len(before.frames))
      /\ Len(conv.frames) \in Nat
  BY <1>1, Convolution
<1>4. out = [frames |-> MaskInvalidTime(conv.frames, valid), valid |-> valid,
             caches |-> [before.caches EXCEPT ![s] = conv.cache]]
  BY DEF SubsamplingStage
<1>5. \A t \in 1..Len(conv.frames) : t <= valid <=> o + t - 1 # silent BY <1>3 DEF Heeds
<1> HIDE DEF conv, valid, out
<1>6. out.frames = [t \in 1..Len(conv.frames) |-> IF t <= valid THEN conv.frames[t] ELSE {}]
  BY <1>3, <1>4 DEF MaskInvalidTime, Frames
<1>7. Len(out.frames) = Len(conv.frames)
  <2> DEFINE n == Len(conv.frames)
  <2>1. \A t \in 1..n : conv.frames[t] \in SUBSET Int BY <1>3 DEF Frames
  <2>2. out.frames \in [1..n -> SUBSET Int] BY <1>6, <2>1
  <2> HIDE DEF n
  <2>3. n \in Nat BY <1>3 DEF n
  <2>4. Len(out.frames) = n BY <2>2, <2>3
  <2> QED BY <2>4 DEF n
<1>8. ASSUME NEW t \in 1..Len(conv.frames)
      PROVE  out.frames[t] = StageOf(p, silent)[o + t - 1]
  <2>1. o + t - 1 \in Int /\ o + t - 1 >= 0 BY <1>3
  <2>2. CASE t <= valid
    <3>1. out.frames[t] = conv.frames[t] BY <1>6, <2>2
    <3>2. o + t - 1 # silent BY <1>5, <2>2
    <3>3. StageOf(p, silent)[o + t - 1]
            = p[2 * (o + t - 1) - 2] \cup p[2 * (o + t - 1) - 1] \cup p[2 * (o + t - 1)]
      BY <2>1, <3>2 DEF StageOf
    <3> QED BY <1>2, <3>1, <3>3
  <2>3. CASE ~(t <= valid)
    <3>1. out.frames[t] = {} BY <1>6, <2>3
    <3>2. o + t - 1 = silent BY <1>5, <2>3
    <3>3. StageOf(p, silent)[o + t - 1] = {} BY <2>1, <3>2 DEF StageOf
    <3> QED BY <3>1, <3>3
  <2> QED BY <2>2, <2>3
<1>9. out.caches[s].frame = p[b + Len(before.frames) - 1] BY <1>1, <1>2, <1>4
<1>10. out.valid = valid BY <1>4
<1> QED BY <1>7, <1>8, <1>9, <1>10 DEF out, valid, Yields

(* The lengths of a stage, of the first chunk and of the others.            *)
LEMMA StageLengths ==
    ASSUME NEW a \in Nat, a > 0
    PROVE  /\ ConvLength(TRUE, 2 * a + 1) = a + 1 /\ ConvLength(FALSE, 2 * a) = a
           /\ StreamingOutputLength(2 * a) = a /\ StreamingOutputLength(2 * a + 1) = a
<1>1. (2 * a) \div 2 = a /\ (2 * a - 2) \div 2 = a - 1 /\ (2 * a - 1) \div 2 = a - 1 OBVIOUS
<1>2. /\ 2 * a + 1 + 2 - 3 = 2 * a /\ 2 * a + 1 - 3 = 2 * a - 2
      /\ 2 * a + 1 + 1 - 3 = 2 * a - 1 /\ a - 1 + 1 = a
      /\ ~(2 * a + 1 < 3) /\ ~(2 * a + 1 + 1 < 3)
  OBVIOUS
<1> QED BY <1>1, <1>2 DEF ConvLength, StreamingOutputLength

(* What a stage is given: frames that follow p, of the first chunk (start)  *)
(* or from frame 2q on, and a cache that holds the frame before.            *)
Given(s, before, p, start, k, a, q) ==
    /\ before \in Stages
    /\ before.caches[s].first = start
    /\ start => before.caches[s].frame = {}
    /\ ~start => before.caches[s].frame = p[2 * q - 2 * k]
    /\ Len(before.frames) = IF start THEN 2 * a + 1 ELSE 2 * (a + k)
    /\ start => before.valid = 2 * a \/ before.valid = 2 * a + 1
    /\ ~start => before.valid = 2 * (a + k)
    /\ \A i \in 1..Len(before.frames) :
          before.frames[i] = p[(IF start THEN 0 ELSE 2 * q + 1 - 2 * k) + i - 1]

(* A chunk adds 2(a + k) frames before and a + k after, and k is the frames *)
(* of this stage for one of the encoder.                                    *)
Scale(start, k, a, q) ==
    /\ start \in BOOLEAN /\ k \in Nat /\ a \in Nat /\ q \in Nat /\ k > 0 /\ a > 0
    /\ start => q = 0
    /\ ~start => q >= a + k

(* A stage whose input is silent past frame 2a of the first chunk makes, of *)
(* frames that follow p up to 2q, frames that follow the stage of p up to q.*)
LEMMA StageStep ==
    ASSUME NEW p \in Profiles, p[-1] = {}, p[-2] = {}, NEW s \in 1..3, NEW before,
           NEW start, NEW k, NEW a, NEW q,
           Scale(start, k, a, q), Given(s, before, p, start, k, a, q)
    PROVE  LET out == SubsamplingStage(s, before)
           IN  /\ Yields(s, out, StageOf(p, a), IF start THEN 0 ELSE q + 1 - k,
                         p[2 * (q + a + k) - 2 * k])
               /\ out.valid = (IF start THEN a ELSE a + k)
               /\ Len(out.frames) = IF start THEN a + 1 ELSE a + k
<1> DEFINE b   == IF start THEN 0 ELSE 2 * q + 1 - 2 * k
           o   == IF start THEN 0 ELSE q + 1 - k
           out == SubsamplingStage(s, before)
           n   == IF start THEN a + 1 ELSE a + k
           v   == IF start THEN a ELSE a + k
<1>0. /\ start \in BOOLEAN /\ k \in Nat /\ a \in Nat /\ q \in Nat /\ k > 0 /\ a > 0
      /\ (start => q = 0) /\ (~start => q >= a + k)
      /\ before \in Stages /\ before.caches[s].first = start
      /\ (start => before.caches[s].frame = {})
      /\ (~start => before.caches[s].frame = p[2 * q - 2 * k])
      /\ Len(before.frames) = (IF start THEN 2 * a + 1 ELSE 2 * (a + k))
      /\ (start => before.valid = 2 * a \/ before.valid = 2 * a + 1)
      /\ (~start => before.valid = 2 * (a + k))
      /\ \A i \in 1..Len(before.frames) :
            before.frames[i] = p[(IF start THEN 0 ELSE 2 * q + 1 - 2 * k) + i - 1]
  BY DEF Scale, Given
<1>1. b \in Int /\ o \in Nat /\ a \in Int /\ (~start => b = 2 * o - 1)
  <2>1. CASE start
    <3>1. b = 0 /\ o = 0 BY <2>1
    <3> HIDE DEF b, o
    <3> QED BY <1>0, <2>1, <3>1
  <2>2. CASE ~start
    <3>1. b = 2 * q + 1 - 2 * k /\ o = q + 1 - k BY <2>2
    <3> HIDE DEF b, o
    <3> QED BY <1>0, <2>2, <3>1
  <2> QED BY <1>0, <2>1, <2>2
<1>2. Len(before.frames) > 0 /\ b + Len(before.frames) - 1 = 2 * (q + a + k) - 2 * k
  <2>1. CASE start
    <3>1. Len(before.frames) = 2 * a + 1 /\ b = 0 BY <1>0, <2>1
    <3> HIDE DEF b
    <3> QED BY <1>0, <2>1, <3>1
  <2>2. CASE ~start
    <3>1. Len(before.frames) = 2 * (a + k) /\ b = 2 * q + 1 - 2 * k BY <1>0, <2>2
    <3> HIDE DEF b
    <3> QED BY <1>0, <2>2, <3>1
  <2> QED BY <1>0, <2>1, <2>2
<1>3. ConvLength(before.caches[s].first, Len(before.frames)) = n
  <2>1. a + k \in Nat /\ a + k > 0 BY <1>0
  <2>2. CASE start
    <3>1. ConvLength(TRUE, 2 * a + 1) = a + 1 BY <1>0, StageLengths
    <3>2. before.caches[s].first = TRUE /\ Len(before.frames) = 2 * a + 1 BY <1>0, <2>2
    <3>3. n = a + 1 BY <1>0, <2>2
    <3> QED BY <1>0, <3>1, <3>2, <3>3
  <2>3. CASE ~start
    <3>1. ConvLength(FALSE, 2 * (a + k)) = a + k BY <1>0, <2>1, StageLengths
    <3>2. before.caches[s].first = FALSE /\ Len(before.frames) = 2 * (a + k) BY <1>0, <2>3
    <3>3. n = a + k BY <1>0, <2>3
    <3> QED BY <1>0, <3>1, <3>2, <3>3
  <2> QED BY <1>0, <2>2, <2>3
<1>4. StreamingOutputLength(before.valid) = v
  <2>1. a + k \in Nat /\ a + k > 0 BY <1>0
  <2>2. CASE start BY <1>0, <2>2, StageLengths
  <2>3. CASE ~start
    <3>1. StreamingOutputLength(2 * (a + k)) = a + k BY <1>0, <2>1, StageLengths
    <3> QED BY <1>0, <2>3, <3>1
  <2> QED BY <1>0, <2>2, <2>3
<1>5. Heeds(o, a, n, v)
  BY <1>0 DEF Heeds
<1>6. Follows(p, before.caches[s], before.frames, b, o)
  <2>1. \A i \in 1..Len(before.frames) : before.frames[i] = p[b + i - 1] BY <1>0
  <2>2. CASE start
    <3>1. b = 0 /\ o = 0 BY <1>0, <2>2
    <3> HIDE DEF b, o
    <3> QED BY <1>0, <2>1, <2>2, <3>1 DEF Follows
  <2>3. CASE ~start
    <3>1. b = 2 * o - 1 /\ b - 1 = 2 * q - 2 * k BY <1>0, <2>3
    <3> HIDE DEF b, o
    <3> QED BY <1>0, <2>1, <2>3, <3>1 DEF Follows
  <2> QED BY <1>0, <2>2, <2>3
<1> HIDE DEF b, o, n, v
<1>7. Heeds(o, a, ConvLength(before.caches[s].first, Len(before.frames)),
            StreamingOutputLength(before.valid))
  BY <1>3, <1>4, <1>5
<1>8. /\ Yields(s, out, StageOf(p, a), o, p[b + Len(before.frames) - 1])
      /\ out.valid = StreamingOutputLength(before.valid)
  BY <1>0, <1>1, <1>2, <1>6, <1>7, StageFollows
<1>9. Len(out.frames) = n BY <1>0, <1>3, Stage
<1> QED BY <1>2, <1>4, <1>8, <1>9 DEF o, n, v

-----------------------------------------------------------------------------
(* The layers and the offline mask.                                         *)

(* A multiple of n by one or more is n or more.                             *)
LEMMA Times ==
    ASSUME NEW n \in Nat, n > 0, NEW a \in Int
    PROVE  /\ a >= 1 => a * n >= n
           /\ a <= -1 => a * n <= -n
OBVIOUS

(* Division undoes the index of a row and a column.                         *)
LEMMA DivMod ==
    ASSUME NEW n \in Nat, n > 0, NEW q \in Nat, NEW r \in 0..(n - 1)
    PROVE  (q * n + r) \div n = q /\ (q * n + r) % n = r
<1> DEFINE x == q * n + r
           k == x \div n
           m == x % n
<1>1. x \in Int /\ q * n \in Int OBVIOUS
<1>2. k \in Int /\ m \in 0..(n - 1) /\ x = n * k + m
  BY <1>1
<1> HIDE DEF k, m
<1>3. (k - q) \in Int /\ (k - q) * n = r - m BY <1>2
<1>4. ~(k - q >= 1) /\ ~(k - q <= -1) BY <1>2, <1>3, Times
<1>5. k = q BY <1>2, <1>4
<1>6. m = r BY <1>2, <1>5
<1> QED BY <1>5, <1>6 DEF k, m

(* And that index is within the rows.                                       *)
LEMMA Within ==
    ASSUME NEW n \in Nat, n > 0, NEW b \in Nat, NEW q \in 0..(b - 1), NEW r \in 0..(n - 1)
    PROVE  q * n + r \in 0..(b * n - 1)
<1>1. b - q \in Int /\ b - q >= 1 /\ q * n \in Nat /\ b * n \in Nat OBVIOUS
<1>2. (b - q) * n >= n BY <1>1, Times
<1>3. (b - q) * n = b * n - q * n OBVIOUS
<1> QED BY <1>1, <1>2, <1>3

(* The sizes of the heads.                                                  *)
LEMMA Dims ==
    /\ Heads \in Nat /\ Heads > 0 /\ HeadDim \in Nat /\ HeadDim > 0
    /\ Hidden \in Nat /\ Hidden > 0 /\ Hidden = Heads * HeadDim
<1>1. Heads \in Nat /\ Heads > 0 /\ HeadDim \in Nat /\ HeadDim > 0 BY ConfigAssumption
<1>2. Heads * HeadDim \in Nat BY <1>1
<1>3. Heads * HeadDim >= HeadDim BY <1>1, Times
<1> QED BY <1>1, <1>2, <1>3 DEF Hidden

(* The place of a head, a frame and a dimension in head-major order.        *)
Laid(n, h, f, d, i) ==
           /\ i \in 0..(Heads * n * HeadDim - 1)
           /\ i \div (n * HeadDim) = h
           /\ i % (n * HeadDim) = f * HeadDim + d
           /\ (f * HeadDim + d) \div HeadDim = f
           /\ (f * HeadDim + d) % HeadDim = d
           /\ i % HeadDim = d
           /\ f * HeadDim + d \in 0..(n * HeadDim - 1)

LEMMA Place ==
    ASSUME NEW n \in Nat, n > 0, NEW h \in 0..(Heads - 1), NEW f \in 0..(n - 1),
           NEW d \in 0..(HeadDim - 1)
    PROVE  Laid(n, h, f, d, (h * n + f) * HeadDim + d)
<1> DEFINE i == (h * n + f) * HeadDim + d
<1>1. n * HeadDim \in Nat /\ n * HeadDim >= HeadDim /\ n * HeadDim > 0
  <2>1. n * HeadDim \in Nat BY Dims
  <2>2. n * HeadDim >= HeadDim BY Dims, Times
  <2> QED BY <2>1, <2>2, Dims
<1>2. f * HeadDim + d \in 0..(n * HeadDim - 1) BY Within, Dims
<1>3. h * n + f \in 0..(Heads * n - 1) BY Within, Dims
<1>4. Heads * n \in Nat BY Dims
<1>5. i \in 0..((Heads * n) * HeadDim - 1) BY <1>3, <1>4, Within, Dims
<1>6. i = h * (n * HeadDim) + (f * HeadDim + d) BY Dims
<1>7. i \div (n * HeadDim) = h /\ i % (n * HeadDim) = f * HeadDim + d
  <2> DEFINE w == n * HeadDim
             r == f * HeadDim + d
  <2>1. w \in Nat /\ w > 0 /\ r \in 0..(w - 1) /\ i = h * w + r /\ h \in Nat
    BY <1>1, <1>2, <1>6
  <2> HIDE DEF w, r, i
  <2>2. (h * w + r) \div w = h /\ (h * w + r) % w = r BY <2>1, DivMod
  <2>3. i \div w = h /\ i % w = r BY <2>1, <2>2
  <2> QED BY <2>3 DEF w, r
<1>8. (f * HeadDim + d) \div HeadDim = f /\ (f * HeadDim + d) % HeadDim = d
  BY DivMod, Dims
<1>9. i % HeadDim = d
  <2>1. h * n + f \in Nat BY <1>3
  <2> QED BY <2>1, DivMod, Dims
<1> HIDE DEF i
<1>10. Laid(n, h, f, d, i) BY <1>2, <1>5, <1>7, <1>8, <1>9 DEF Laid
<1> QED BY <1>10 DEF i

(* What the projection of the chunk has at every place, token by token.     *)
LEMMA TokenMajorAt ==
    ASSUME NEW ids \in Seq(Int), NEW f \in 0..(Len(ids) - 1), NEW h \in 0..(Heads - 1),
           NEW d \in 0..(HeadDim - 1)
    PROVE  TokenMajor(ids)[f * Hidden + h * HeadDim + d] = <<ids[f + 1], h, d>>
<1> DEFINE r == h * HeadDim + d
           i == f * Hidden + r
<1>1. r \in 0..(Hidden - 1) BY Within, Dims
<1>2. i \in 0..(Len(ids) * Hidden - 1) BY <1>1, Within, Dims
<1>3. i \div Hidden = f /\ i % Hidden = r BY <1>1, DivMod, Dims
<1>4. r \div HeadDim = h BY DivMod, Dims
<1>5. i % HeadDim = d
  <2>1. f * Heads + h \in Nat BY Dims
  <2>2. i = (f * Heads + h) * HeadDim + d BY Dims
  <2> QED BY <2>1, <2>2, DivMod, Dims
<1>6. f * Hidden + h * HeadDim + d = i BY Dims
<1> HIDE DEF i, r
<1> QED BY <1>2, <1>3, <1>4, <1>5, <1>6 DEF TokenMajor

(* And head by head.                                                        *)
LEMMA HeadMajorAt ==
    ASSUME NEW ids \in Seq(Int), NEW f \in 0..(Len(ids) - 1), NEW h \in 0..(Heads - 1),
           NEW d \in 0..(HeadDim - 1)
    PROVE  TokenMajorToHeadMajor(TokenMajor(ids), Len(ids))[(h * Len(ids) + f) * HeadDim + d]
             = <<ids[f + 1], h, d>>
<1> DEFINE n == Len(ids)
           i == (h * n + f) * HeadDim + d
           values == TokenMajor(ids)
<1>1. n \in Nat /\ n > 0 /\ f \in 0..(n - 1) OBVIOUS
<1>2. /\ i \in 0..(Heads * n * HeadDim - 1) /\ i \div (n * HeadDim) = h
      /\ i % (n * HeadDim) = f * HeadDim + d /\ (f * HeadDim + d) \div HeadDim = f
      /\ i % HeadDim = d
  <2> HIDE DEF n
  <2>1. Laid(n, h, f, d, i) BY <1>1, Place
  <2> HIDE DEF i
  <2> QED BY <2>1 DEF Laid
<1>3. Heads * n * HeadDim = n * Hidden BY <1>1, Dims
<1>4. values[f * Hidden + h * HeadDim + d] = <<ids[f + 1], h, d>> BY TokenMajorAt
<1> HIDE DEF n, i, values
<1>5. TokenMajorToHeadMajor(values, n)[i] = values[f * Hidden + h * HeadDim + d]
  <2>1. i \in 0..(n * Hidden - 1) BY <1>2, <1>3
  <2> QED BY <1>2, <2>1 DEF TokenMajorToHeadMajor
<1> QED BY <1>4, <1>5 DEF n, i, values

(* The keys of kv are those of the frames from "first" on.                  *)
KeysFrom(kv, first) ==
    \A h \in 0..(Heads - 1), k \in 0..(kv.frames - 1), d \in 0..(HeadDim - 1) :
        kv.keys[(h * kv.frames + k) * HeadDim + d] = <<first + k, h, d>>

(* The update of a cache shows the cached keys and then those of the chunk, *)
(* and keeps the newest.                                                    *)
LEMMA KvUpdateKeys ==
    ASSUME NEW kv, kv.frames \in Nat, NEW base \in Int, NEW ids \in Seq(Int), Len(ids) > 0,
           \A t \in 1..Len(ids) : ids[t] = base + t - 1,
           KeysFrom(kv, base - kv.frames)
    PROVE  LET total  == kv.frames + Len(ids)
               update == KvUpdate(kv, TokenMajorToHeadMajor(TokenMajor(ids), Len(ids)), Len(ids))
           IN  /\ update.visible.frames = total /\ update.cache.frames = Retained(total)
               /\ KeysFrom(update.visible, base - kv.frames)
               /\ KeysFrom(update.cache, base + Len(ids) - Retained(total))
<1> DEFINE K == kv.frames
           n == Len(ids)
           total == K + n
           kept  == Retained(total)
           current == TokenMajorToHeadMajor(TokenMajor(ids), n)
           keys == [i \in 0..(Heads * total * HeadDim - 1) |->
                       LET head == i \div (total * HeadDim)
                           r    == i % (total * HeadDim)
                       IN  IF r < K * HeadDim
                           THEN kv.keys[head * K * HeadDim + r]
                           ELSE current[head * n * HeadDim + r - K * HeadDim]]
           retained == [i \in 0..(Heads * kept * HeadDim - 1) |->
                       keys[((i \div (kept * HeadDim)) * total + total - kept) * HeadDim
                              + (i % (kept * HeadDim))]]
           update == KvUpdate(kv, current, n)
<1>1. /\ update.visible.frames = total /\ update.visible.keys = keys
      /\ update.cache.frames = kept /\ update.cache.keys = retained
  BY DEF KvUpdate, Retained
<1>2. /\ K \in Nat /\ n \in Nat /\ n > 0 /\ total \in Nat /\ total > 0
      /\ kept \in Nat /\ kept <= total /\ kept > 0
  <2>1. K \in Nat /\ n \in Nat /\ n > 0 OBVIOUS
  <2>2. SlidingWindow \in Nat /\ SlidingWindow >= 2 BY ConfigAssumption
  <2>3. kept = IF total < SlidingWindow - 1 THEN total ELSE SlidingWindow - 1 BY DEF Retained
  <2> HIDE DEF K, n, kept
  <2> QED BY <2>1, <2>2, <2>3
<1>3. \A f \in 0..(n - 1), h \in 0..(Heads - 1), d \in 0..(HeadDim - 1) :
         current[(h * n + f) * HeadDim + d] = <<base + f, h, d>>
  <2> SUFFICES ASSUME NEW f \in 0..(n - 1), NEW h \in 0..(Heads - 1), NEW d \in 0..(HeadDim - 1)
               PROVE  current[(h * n + f) * HeadDim + d] = <<base + f, h, d>>
    OBVIOUS
  <2>1. current[(h * n + f) * HeadDim + d] = <<ids[f + 1], h, d>> BY HeadMajorAt
  <2>2. f + 1 \in 1..Len(ids) /\ base + (f + 1) - 1 = base + f BY <1>2
  <2>3. ids[f + 1] = base + f BY <2>2
  <2> HIDE DEF current
  <2> QED BY <2>1, <2>3
<1>4. \A h \in 0..(Heads - 1), k \in 0..(K - 1), d \in 0..(HeadDim - 1) :
         kv.keys[(h * K + k) * HeadDim + d] = <<base - K + k, h, d>>
  BY DEF KeysFrom
<1> HIDE DEF K, n, current, kept
<1>5. ASSUME NEW h \in 0..(Heads - 1), NEW k \in 0..(total - 1), NEW d \in 0..(HeadDim - 1)
      PROVE  keys[(h * total + k) * HeadDim + d] = <<base - K + k, h, d>>
  <2> DEFINE i == (h * total + k) * HeadDim + d
             r == k * HeadDim + d
  <2>1. /\ i \in 0..(Heads * total * HeadDim - 1)
        /\ i \div (total * HeadDim) = h /\ i % (total * HeadDim) = r
    <3> HIDE DEF total
    <3>1. Laid(total, h, k, d, i) BY <1>2, Place
    <3> HIDE DEF i, r
    <3> QED BY <3>1 DEF Laid, r
  <2> HIDE DEF i, r, total
  <2>2. keys[i] = IF r < K * HeadDim THEN kv.keys[h * K * HeadDim + r]
                  ELSE current[h * n * HeadDim + r - K * HeadDim]
    BY <2>1
  <2> HIDE DEF keys
  <2>3. CASE k < K
    <3>1. k \in 0..(K - 1) BY <1>2, <2>3
    <3>2. r < K * HeadDim
      <4>1. r \in 0..(K * HeadDim - 1) BY <3>1, <1>2, Within, Dims DEF r
      <4> QED BY <4>1, <1>2, Dims
    <3>3. h * K * HeadDim + r = (h * K + k) * HeadDim + d BY <1>2, <3>1, Dims DEF r
    <3> QED BY <1>4, <2>2, <3>1, <3>2, <3>3 DEF i
  <2>4. CASE ~(k < K)
    <3>1. k - K \in 0..(n - 1) BY <1>2, <2>4 DEF total
    <3>2. ~(r < K * HeadDim)
      <4>1. k - K \in Nat /\ (k - K) * HeadDim \in Nat BY <3>1, <1>2, Dims
      <4>2. r = K * HeadDim + ((k - K) * HeadDim + d) BY <1>2, Dims DEF r
      <4>3. K * HeadDim \in Nat BY <1>2, Dims
      <4> QED BY <4>1, <4>2, <4>3
    <3>3. h * n * HeadDim + r - K * HeadDim = (h * n + (k - K)) * HeadDim + d
      BY <1>2, Dims DEF r
    <3>4. base + (k - K) = base - K + k BY <1>2
    <3> QED BY <1>3, <2>2, <3>1, <3>2, <3>3, <3>4 DEF i
  <2> QED BY <2>3, <2>4
<1> HIDE DEF keys, total
<1>6. ASSUME NEW h \in 0..(Heads - 1), NEW k \in 0..(kept - 1), NEW d \in 0..(HeadDim - 1)
      PROVE  retained[(h * kept + k) * HeadDim + d] = <<base + n - kept + k, h, d>>
  <2> DEFINE i == (h * kept + k) * HeadDim + d
             j == total - kept + k
  <2>1. /\ i \in 0..(Heads * kept * HeadDim - 1)
        /\ i \div (kept * HeadDim) = h /\ i % (kept * HeadDim) = k * HeadDim + d
    <3>1. Laid(kept, h, k, d, i) BY <1>2, Place
    <3> HIDE DEF i
    <3> QED BY <3>1 DEF Laid
  <2> HIDE DEF i
  <2>2. retained[i] = keys[(h * total + total - kept) * HeadDim + (k * HeadDim + d)]
    BY <2>1
  <2>3. (h * total + total - kept) * HeadDim + (k * HeadDim + d) = (h * total + j) * HeadDim + d
    BY <1>2, Dims
  <2>4. j \in 0..(total - 1) BY <1>2
  <2>5. base - K + j = base + n - kept + k BY <1>2 DEF total
  <2> HIDE DEF j, retained
  <2> QED BY <1>5, <2>2, <2>3, <2>4, <2>5 DEF i
<1> HIDE DEF retained, update
<1>7. KeysFrom(update.visible, base - K) BY <1>1, <1>5 DEF KeysFrom
<1>8. KeysFrom(update.cache, base + n - kept) BY <1>1, <1>6 DEF KeysFrom
<1> QED BY <1>1, <1>7, <1>8 DEF update, K, n, current, kept, total

(* The score of a query and a key is made of that query and of the distance *)
(* from the key, k places after the oldest of the total, to the query,      *)
(* which is the q-th of the newest n.                                       *)
ScoreAt(n, total, q, k) ==
    Scores(n, total)[q * (2 * total - 1) + k] = <<q, total - n + q - k>>

LEMMA ScoresAt ==
    ASSUME NEW n \in Nat, n > 0, NEW total \in Nat, n <= total,
           NEW q \in 0..(n - 1), NEW k \in 0..(total - 1)
    PROVE  ScoreAt(n, total, q, k)
<1> DEFINE P == 2 * total - 1
           w == P + 1
           made == [i \in 0..(n * P - 1) |-> <<i \div P, RelativePositions(total)[i % P]>>]
           padded == [i \in 0..(n * w - 1) |->
                     IF i % w = 0 THEN <<-1, 0>>
                     ELSE made[(i \div w) * P + (i % w) - 1]]
           shifted == [i \in 0..(n * P - 1) |-> padded[i + n]]
           c == k + n - q
           j == q * P + k
<1>1. Scores(n, total) = shifted BY DEF Scores, RelativeShift
<1>2. /\ P \in Nat /\ P > 0 /\ w \in Nat /\ w > 0 /\ w = P + 1 /\ k \in 0..(P - 1)
      /\ c \in 1..P /\ c - 1 \in 0..(P - 1) /\ c \in 0..(w - 1) /\ q \in Nat
  OBVIOUS
<1>3. RelativePositions(total)[c - 1] = total - n + q - k
  BY <1>2 DEF RelativePositions
<1> HIDE DEF P, w, c
<1>4. j \in 0..(n * P - 1) BY <1>2, Within
<1>5. q * P + (c - 1) \in 0..(n * P - 1) BY <1>2, Within
<1>6. q * w + c \in 0..(n * w - 1) BY <1>2, Within
<1>7. j + n = q * w + c
  <2>1. q * w = q * P + q BY <1>2
  <2>2. q * P \in Nat BY <1>2
  <2> QED BY <2>1, <2>2, <1>2 DEF c
<1>8. made[q * P + (c - 1)] = <<q, total - n + q - k>>
  <2>1. (q * P + (c - 1)) \div P = q /\ (q * P + (c - 1)) % P = c - 1 BY <1>2, DivMod
  <2> QED BY <2>1, <1>3, <1>5
<1> HIDE DEF made, j
<1>9. padded[q * w + c] = <<q, total - n + q - k>>
  <2>1. (q * w + c) \div w = q /\ (q * w + c) % w = c BY <1>2, DivMod
  <2>2. c # 0 BY <1>2
  <2>3. padded[q * w + c] = made[q * P + c - 1] BY <2>1, <2>2, <1>6
  <2>4. q * P + c - 1 = q * P + (c - 1) BY <1>2
  <2> QED BY <2>3, <2>4, <1>8
<1> HIDE DEF padded
<1>10. shifted[j] = <<q, total - n + q - k>> BY <1>4, <1>7, <1>9
<1> HIDE DEF shifted
<1> QED BY <1>1, <1>10 DEF j, P, ScoreAt

(* What a query of frame id looks at when its keys are those of the frames  *)
(* from first up to last: each with its distance.                           *)
Sighted(key, distance) == <<key, distance, TRUE>>

Sight(id, key) == Sighted(key, id - key)

Reach(id, first, last) == {Sight(id, key) : key \in first..last}

(* A key and a score of the same head, dimension and query.                 *)
LEMMA LookAt ==
    ASSUME NEW x, NEW h, NEW d, NEW q, NEW y
    PROVE  Look(q, h, d, <<x, h, d>>, <<q, y>>) = Sighted(x, y)
<1>1. <<x, h, d>>[1] = x /\ <<x, h, d>>[2] = h /\ <<x, h, d>>[3] = d OBVIOUS
<1>2. <<q, y>>[1] = q /\ <<q, y>>[2] = y OBVIOUS
<1>3. (<<h, d, q>> = <<h, d, q>>) = TRUE OBVIOUS
<1> QED BY <1>1, <1>2, <1>3, Zenon DEF Look, Sighted

(* The frames of a chunk are numbered from its base on.                     *)
Numbered(ids, base) == \A t \in 1..Len(ids) : ids[t] = base + t - 1

(* The views and the cache of an attention that had so many frames cached.  *)
Attended(att, base, ids, had) ==
    LET kept == Retained(had + Len(ids))
    IN  /\ att.cache.frames = kept
        /\ KeysFrom(att.cache, base + Len(ids) - kept)
        /\ DOMAIN att.views = 1..Len(ids)
        /\ \A t \in 1..Len(ids) :
              att.views[t] = Reach(ids[t], base - had, base + Len(ids) - 1)

(* The attention of a chunk looks at the cached frames and the chunk's own, *)
(* each with its distance, and keeps the newest of them.                    *)
LEMMA AttendsAt ==
    ASSUME NEW kv, kv.frames \in Nat, NEW base \in Int, NEW ids \in Seq(Int), Len(ids) > 0,
           Numbered(ids, base), KeysFrom(kv, base - kv.frames)
    PROVE  Attended(Attend(kv, ids), base, ids, kv.frames)
<1> USE DEF Numbered
<1> DEFINE K == kv.frames
           n == Len(ids)
           total == K + n
           update == KvUpdate(kv, TokenMajorToHeadMajor(TokenMajor(ids), Len(ids)), Len(ids))
           visible == update.visible
           scores == Scores(n, visible.frames)
           att == Attend(kv, ids)
<1>1. /\ visible.frames = total /\ update.cache.frames = Retained(total)
      /\ KeysFrom(visible, base - K) /\ KeysFrom(update.cache, base + n - Retained(total))
  BY KvUpdateKeys
<1>2. K \in Nat /\ n \in Nat /\ n > 0 /\ total = K + n /\ n <= total /\ total \in Nat OBVIOUS
<1>3. att.cache = update.cache /\ att.views = Weighed(n, visible, scores) BY DEF Attend
<1>4. ASSUME NEW t \in 1..n
      PROVE  Weighed(n, visible, scores)[t] = Reach(base + t - 1, base - K, base + n - 1)
  <2> DEFINE q == t - 1
             Seen(h, k, d) == Look(q, h, d, visible.keys[(h * visible.frames + k) * HeadDim + d],
                                   scores[q * (2 * visible.frames - 1) + k])
             Row == {Seen(h, k, d) : h \in 0..(Heads - 1), k \in 0..(total - 1), d \in 0..(HeadDim - 1)}
  <2>1. q \in 0..(n - 1) /\ base + t - 1 = base + q BY <1>2
  <2>2. Weighed(n, visible, scores)[t]
          = Row
    <3> HIDE DEF n, visible, scores, total
    <3> QED BY <1>1 DEF Weighed
  <2> HIDE DEF n, K, total, update, q
  <2> DEFINE Entry(k) == Sight(base + q, base - K + k)
  <2>3. ASSUME NEW h \in 0..(Heads - 1), NEW k \in 0..(total - 1), NEW d \in 0..(HeadDim - 1)
        PROVE  Seen(h, k, d) = Entry(k)
    <3>1. visible.keys[(h * visible.frames + k) * HeadDim + d] = <<base - K + k, h, d>>
      BY <1>1 DEF KeysFrom
    <3>2. scores[q * (2 * visible.frames - 1) + k] = <<q, total - n + q - k>>
      <4>1. ScoreAt(n, total, q, k) BY <1>2, <2>1, ScoresAt
      <4> QED BY <4>1, <1>1 DEF ScoreAt
    <3>3. Seen(h, k, d) = Look(q, h, d, <<base - K + k, h, d>>, <<q, total - n + q - k>>)
      BY <3>1, <3>2 DEF Seen
    <3> HIDE DEF Seen
    <3>4. Seen(h, k, d) = Sighted(base - K + k, total - n + q - k) BY <3>3, LookAt
    <3>5. total - n + q - k = base + q - (base - K + k) BY <1>2, <2>1
    <3>6. Entry(k) = Sighted(base - K + k, base + q - (base - K + k)) BY <1>2, <2>1 DEF Sight
    <3> HIDE DEF Entry
    <3> QED BY <3>4, <3>5, <3>6
  <2> HIDE DEF Seen
  <2>4. 0 \in 0..(Heads - 1) /\ 0 \in 0..(HeadDim - 1) BY Dims
  <2>5. Row
          = {Entry(k) : k \in 0..(total - 1)}
    <3> HIDE DEF Entry
    <3> QED BY <2>3, <2>4
  <2>6. {Entry(k) : k \in 0..(total - 1)} = Reach(base + q, base - K, base + n - 1)
    <3>1. \A k \in 0..(total - 1) : base - K + k \in (base - K)..(base + n - 1) BY <1>2
    <3>2. \A key \in (base - K)..(base + n - 1) :
            key - (base - K) \in 0..(total - 1) /\ base - K + (key - (base - K)) = key
      BY <1>2
    <3> QED BY <3>1, <3>2 DEF Reach
  <2> HIDE DEF Entry, Row, visible, scores
  <2>8. Weighed(n, visible, scores)[t] = Reach(base + q, base - K, base + n - 1)
    BY <1>2, <2>1, <2>2, <2>5, <2>6
  <2> QED BY <2>1, <2>8
<1>5. DOMAIN Weighed(n, visible, scores) = 1..n BY DEF Weighed
<1> HIDE DEF visible, scores, att, update
<1> QED BY <1>1, <1>3, <1>4, <1>5 DEF att, Attended

(* The frame of number x, silence before the first.                         *)
Past(x) == IF x < 0 THEN Silence ELSE {x}

(* A gated frame is made of its own channels alone.                         *)
LEMMA GatedAt ==
    ASSUME NEW ids \in Seq(Int), Len(ids) > 0, NEW t \in 1..Len(ids)
    PROVE  Gated(ids)[t] = {ids[t]}
<1> DEFINE w == 2 * Hidden
           n == Len(ids)
           projected == [i \in 0..(w * n - 1) |-> ids[i \div w + 1]]
           At(c) == {projected[(t - 1) * w + c], projected[(t - 1) * w + Hidden + c]}
<1>1. w \in Nat /\ w > 0 /\ n \in Nat /\ t - 1 \in 0..(n - 1) /\ t - 1 + 1 = t BY Dims
<1>2. ASSUME NEW c \in 0..(w - 1) PROVE projected[(t - 1) * w + c] = ids[t]
  <2> DEFINE j == (t - 1) * w + c
  <2> HIDE DEF w, n
  <2>1. j \in 0..(n * w - 1) BY <1>1, Within
  <2>2. n * w = w * n BY <1>1
  <2>3. t - 1 \in Nat BY <1>1
  <2>4. j \div w = t - 1 BY <1>1, <2>3, DivMod
  <2> HIDE DEF j
  <2>5. projected[j] = ids[t] BY <1>1, <2>1, <2>2, <2>4
  <2> QED BY <2>5 DEF j
<1>3. ASSUME NEW c \in 0..(Hidden - 1) PROVE At(c) = {ids[t]}
  <2>1. c \in 0..(w - 1) /\ Hidden + c \in 0..(w - 1) BY Dims
  <2>2. (t - 1) * w + Hidden + c = (t - 1) * w + (Hidden + c) BY Dims
  <2> HIDE DEF projected, w
  <2>3. projected[(t - 1) * w + c] = ids[t] BY <1>2, <2>1
  <2>4. projected[(t - 1) * w + (Hidden + c)] = ids[t] BY <1>2, <2>1
  <2> QED BY <2>2, <2>3, <2>4
<1>4. 0 \in 0..(Hidden - 1) BY Dims
<1>5. (t - 1) * 2 * Hidden = (t - 1) * w BY Dims
<1>6. Gated(ids)[t] = UNION {At(c) : c \in 0..(Hidden - 1)}
  <2>1. 2 * Hidden * Len(ids) = w * n BY Dims
  <2> QED BY <1>5, <2>1 DEF Gated
<1> HIDE DEF At
<1> QED BY <1>3, <1>4, <1>6

(* The convolution's cache holds the frames just before frame f.            *)
Recent(f) == [i \in 1..(KernelSize - 1) |-> Past(f - KernelSize + i)]

(* The views and the cache of the convolution of a chunk.                   *)
Convolves(conv, base, ids) ==
    /\ conv.cache = Recent(base + Len(ids))
    /\ \A t \in 1..Len(ids) :
          conv.views[t] = [i \in 1..KernelSize |-> Past(ids[t] - KernelSize + i)]

(* The depthwise convolution of a chunk sees of every frame itself and      *)
(* those just before, and its cache moves on.                               *)
LEMMA ConvolvesAt ==
    ASSUME NEW base \in Nat, NEW ids \in Seq(Int), Len(ids) > 0,
           Numbered(ids, base)
    PROVE  Convolves(Depthwise(Recent(base), Gated(ids)), base, ids)
<1> USE DEF Numbered
<1> DEFINE n == Len(ids)
           K == KernelSize
           S == SUBSET Int
           c == Recent(base)
           g == Gated(ids)
           whole == c \o g
<1>1. K \in Nat /\ K > 0 /\ n \in Nat /\ n > 0 BY ConfigAssumption
<1>2. \A x \in Int : Past(x) \in S BY DEF Past, Silence
<1>3. c \in Seq(S) /\ Len(c) = K - 1 /\ \A i \in 1..(K - 1) : c[i] = Past(base - K + i)
  BY <1>1, <1>2 DEF Recent
<1>4. g \in Seq(S) /\ Len(g) = n /\ \A t \in 1..n : g[t] = Past(base - K + (K - 1 + t))
  <2>1. \A t \in 1..n : g[t] = {ids[t]} /\ ids[t] = base + t - 1 BY GatedAt
  <2>2. \A t \in 1..n : g[t] = Past(base - K + (K - 1 + t)) /\ g[t] \in S
    <3> SUFFICES ASSUME NEW t \in 1..n
                 PROVE  g[t] = Past(base - K + (K - 1 + t)) /\ g[t] \in S
      OBVIOUS
    <3> DEFINE x == base + t - 1
    <3> HIDE DEF n, g, S
    <3>1. x \in Int /\ ~(x < 0) /\ base - K + (K - 1 + t) = x BY <1>1
    <3>2. g[t] = {x} BY <2>1
    <3> HIDE DEF x
    <3>3. Past(x) = {x} BY <3>1 DEF Past
    <3> QED BY <1>2, <3>1, <3>2, <3>3
  <2>3. DOMAIN g = 1..n /\ g = [t \in 1..n |-> g[t]] BY DEF Gated
  <2> HIDE DEF g, n, S
  <2>4. g \in [1..n -> S] BY <2>2, <2>3
  <2>5. g \in Seq(S) BY <1>1, <2>4, SeqDef
  <2>6. Len(g) = n BY <1>1, <2>3, <2>5, LenProperties
  <2> QED BY <2>2, <2>5, <2>6
<1> HIDE DEF c, g, n, S
<1>5. /\ whole \in Seq(S) /\ Len(whole) = K - 1 + n
      /\ \A i \in 1..(K - 1 + n) : whole[i] = Past(base - K + i)
  <2>0. whole \in Seq(S) /\ Len(whole) = Len(c) + Len(g)
    BY <1>3, <1>4, ConcatProperties, Zenon
  <2>1. whole \in Seq(S) /\ Len(whole) = K - 1 + n BY <1>3, <1>4, <2>0
  <2>2. ASSUME NEW i \in 1..(K - 1 + n) PROVE whole[i] = Past(base - K + i)
    <3>1. CASE i <= K - 1
      <4>1. i \in 1..(K - 1) BY <1>1, <3>1
      <4>2. whole[i] = c[i] BY <1>3, <1>4, <4>1, ConcatProperties
      <4> QED BY <1>3, <4>1, <4>2
    <3>2. CASE ~(i <= K - 1)
      <4>1. i - (K - 1) \in 1..n /\ base - K + (K - 1 + (i - (K - 1))) = base - K + i
        BY <1>1, <3>2
      <4>2. whole[i] = g[i - (K - 1)] BY <1>1, <1>3, <1>4, <3>2, ConcatProperties
      <4> QED BY <1>4, <4>1, <4>2
    <3> QED BY <3>1, <3>2
  <2> QED BY <2>1, <2>2
<1> HIDE DEF whole
<1>6. SubSeq(whole, n + 1, n + (K - 1)) = Recent(base + n)
  <2>1. SubSeq(whole, n + 1, n + (K - 1)) = [i \in 1..(K - 1) |-> whole[n + i]]
    BY <1>1, <1>5
  <2>2. \A i \in 1..(K - 1) : whole[n + i] = Past(base + n - K + i)
    <3>1. \A i \in 1..(K - 1) : n + i \in 1..(K - 1 + n) /\ base - K + (n + i) = base + n - K + i
      BY <1>1
    <3> QED BY <1>5, <3>1
  <2>3. [i \in 1..(K - 1) |-> whole[n + i]] = [i \in 1..(K - 1) |-> Past(base + n - K + i)]
    <3> HIDE DEF K
    <3> QED BY <2>2
  <2>4. Recent(base + n) = [i \in 1..(K - 1) |-> Past(base + n - K + i)] BY <1>1 DEF Recent
  <2> DEFINE W == [i \in 1..(K - 1) |-> whole[n + i]]
             Q == [i \in 1..(K - 1) |-> Past(base + n - K + i)]
  <2>5. SubSeq(whole, n + 1, n + (K - 1)) = W /\ W = Q /\ Recent(base + n) = Q BY <2>1, <2>3, <2>4
  <2> HIDE DEF W, Q
  <2> QED BY <2>5
<1>7. ASSUME NEW t \in 1..n
      PROVE  SubSeq(whole, t, t + K - 1) = [i \in 1..K |-> Past(ids[t] - K + i)]
  <2>1. SubSeq(whole, t, t + K - 1) = [i \in 1..K |-> whole[t + i - 1]] BY <1>1, <1>5
  <2>2. ids[t] = base + t - 1 BY DEF n
  <2>3. \A i \in 1..K : /\ t + i - 1 \in 1..(K - 1 + n)
                        /\ base - K + (t + i - 1) = base + t - 1 - K + i
    BY <1>1
  <2>4. \A i \in 1..K : whole[t + i - 1] = Past(ids[t] - K + i)
    <3> SUFFICES ASSUME NEW i \in 1..K PROVE whole[t + i - 1] = Past(ids[t] - K + i)
      OBVIOUS
    <3> HIDE DEF K
    <3>1. whole[t + i - 1] = Past(base - K + (t + i - 1)) BY <1>5, <2>3
    <3>2. base - K + (t + i - 1) = ids[t] - K + i BY <1>1, <2>2, <2>3
    <3> QED BY <3>1, <3>2
  <2> HIDE DEF K
  <2> QED BY <2>1, <2>4
<1>8. /\ Depthwise(c, g).cache = SubSeq(whole, Len(g) + 1, Len(g) + Len(c))
      /\ Depthwise(c, g).views = [t \in 1..Len(g) |-> SubSeq(whole, t, t + K - 1)]
  BY DEF Depthwise, PrependFrames, whole
<1> QED BY <1>3, <1>4, <1>6, <1>7, <1>8 DEF c, g, n, Convolves

(* The row the decoder gets of every frame is that frame with the prompt.   *)
LEMMA PromptedAt ==
    ASSUME NEW ids \in Seq(Int), Len(ids) > 0, NEW t \in 1..Len(ids)
    PROVE  Prompted(TokenMajor(ids), Len(ids))[t] = [frames |-> {ids[t]}, prompts |-> {Prompt}]
<1> DEFINE n == Len(ids)
           hidden == TokenMajor(ids)
           width == Hidden + NumPrompts
           row == t - 1
           Fused(column) ==
            IF column < Hidden THEN [frames |-> {hidden[row * Hidden + column][1]}, prompts |-> {}]
            ELSE [frames |-> {}, prompts |-> IF column = Hidden + Prompt THEN {Prompt} ELSE {}]
           Columns == {Fused(column) : column \in 0..(width - 1)}
<1>1. /\ n \in Nat /\ row \in 0..(n - 1) /\ row \in Nat /\ row + 1 = t
      /\ NumPrompts \in Nat /\ Prompt \in 0..(NumPrompts - 1)
  BY ConfigAssumption
<1>2. ASSUME NEW c \in 0..(Hidden - 1) PROVE hidden[row * Hidden + c][1] = ids[t]
  <2> DEFINE j == row * Hidden + c
  <2> HIDE DEF n, row
  <2>1. j \in 0..(n * Hidden - 1) BY <1>1, Within, Dims
  <2>2. j \div Hidden = row BY <1>1, DivMod, Dims
  <2> HIDE DEF j
  <2>3. hidden[j] = <<ids[row + 1], (j % Hidden) \div HeadDim, j % HeadDim>>
    BY <2>1, <2>2 DEF TokenMajor, n
  <2>4. hidden[j][1] = ids[t] BY <1>1, <2>3
  <2> QED BY <2>4 DEF j
<1>3. Prompted(hidden, n)[t] = [frames  |-> UNION {c.frames : c \in Columns},
                                prompts |-> UNION {c.prompts : c \in Columns}]
  BY DEF Prompted
<1> HIDE DEF hidden, row, n
<1>4. ASSUME NEW c \in 0..(width - 1)
      PROVE  /\ c < Hidden => Fused(c).frames = {ids[t]} /\ Fused(c).prompts = {}
             /\ ~(c < Hidden) => /\ Fused(c).frames = {}
                                 /\ Fused(c).prompts = IF c = Hidden + Prompt THEN {Prompt} ELSE {}
  <2>1. c < Hidden => c \in 0..(Hidden - 1) BY Dims
  <2> QED BY <1>2, <2>1
<1>5. /\ 0 \in 0..(width - 1) /\ 0 < Hidden /\ Hidden + Prompt \in 0..(width - 1)
      /\ ~(Hidden + Prompt < Hidden)
  BY <1>1, Dims
<1> HIDE DEF Fused, width
<1>6. UNION {c.frames : c \in Columns} = {ids[t]} BY <1>4, <1>5
<1>7. UNION {c.prompts : c \in Columns} = {Prompt} BY <1>4, <1>5
<1> HIDE DEF Columns
<1> QED BY <1>3, <1>6, <1>7 DEF hidden, n

(* A layer's caches at the frame clock: the newest frames' keys and gated   *)
(* frames.                                                                  *)
LayerAt(layer, seen) ==
    /\ layer.attention.frames = Retained(seen)
    /\ KeysFrom(layer.attention, seen - Retained(seen))
    /\ layer.convolution = Recent(seen)

(* What the frame id makes a layer look at in a stream of which "oldest" to *)
(* "newest" are at hand.                                                    *)
ViewAt(view, t, id, oldest, newest) ==
    /\ view.attention[t] = Reach(id, oldest, newest)
    /\ view.convolution[t] = [i \in 1..KernelSize |-> Past(id - KernelSize + i)]

(* Trimming a cache at every chunk keeps what trimming it once would.       *)
LEMMA RetainedTwice ==
    ASSUME NEW f \in Nat, NEW n \in Nat
    PROVE  Retained(Retained(f) + n) = Retained(f + n)
BY ConfigAssumption DEF Retained

(* Never more frames are retained than there were.                          *)
LEMMA RetainedType ==
    ASSUME NEW f \in Nat
    PROVE  Retained(f) \in Nat /\ Retained(f) <= f
BY ConfigAssumption DEF Retained

(* A layer takes its caches from the clock before the chunk to the clock    *)
(* after it, and every frame of the chunk looks at the frames retained and  *)
(* the chunk.                                                               *)
LEMMA LayerFollows ==
    ASSUME NEW layer, NEW seen \in Nat, LayerAt(layer, seen), NEW ids \in Seq(Int), Len(ids) > 0,
           \A t \in 1..Len(ids) : ids[t] = seen + t - 1, NEW updates \in Int, updates >= 2
    PROVE  LET out == LayerForward(layer, ids, updates)
           IN  /\ LayerAt(out.cache, seen + Len(ids))
               /\ \A t \in 1..Len(ids) :
                     ViewAt(out.views, t, ids[t], seen - Retained(seen), seen + Len(ids) - 1)
<1> DEFINE n == Len(ids)
           kv == layer.attention
           att == Attend(kv, ids)
           conv == Depthwise(layer.convolution, Gated(ids))
           out == LayerForward(layer, ids, updates)
           kept == Retained(Retained(seen) + n)
<1>1. /\ out.cache.attention = att.cache /\ out.cache.convolution = conv.cache
      /\ out.views.attention = att.views /\ out.views.convolution = conv.views
  BY DEF LayerForward
<1>2. n \in Nat /\ n > 0 /\ Retained(seen) \in Nat /\ kept = Retained(seen + n)
      /\ kept \in Nat /\ seen + n \in Nat
  <2>1. n \in Nat /\ n > 0 OBVIOUS
  <2> HIDE DEF n
  <2>2. seen + n \in Nat BY <2>1
  <2>3. Retained(seen + n) \in Nat BY <2>2, RetainedType
  <2>4. kept = Retained(seen + n) BY <2>1, RetainedTwice
  <2>5. Retained(seen) \in Nat BY RetainedType
  <2> HIDE DEF kept
  <2> QED BY <2>1, <2>2, <2>3, <2>4, <2>5
<1>3. kv.frames = Retained(seen) /\ KeysFrom(kv, seen - Retained(seen))
      /\ layer.convolution = Recent(seen)
  BY DEF LayerAt
<1>4. /\ att.cache.frames = kept /\ KeysFrom(att.cache, seen + n - kept)
      /\ \A t \in 1..n : att.views[t] = Reach(ids[t], seen - Retained(seen), seen + n - 1)
  <2>1. kv.frames \in Nat /\ KeysFrom(kv, seen - kv.frames) BY <1>2, <1>3
  <2>2. seen \in Int /\ Numbered(ids, seen) BY DEF Numbered
  <2> HIDE DEF kv
  <2>3. Attended(Attend(kv, ids), seen, ids, kv.frames) BY <2>1, <2>2, AttendsAt
  <2>4. Attended(att, seen, ids, Retained(seen)) BY <1>3, <2>3
  <2> HIDE DEF att
  <2> QED BY <2>4 DEF Attended
<1>5. /\ conv.cache = Recent(seen + n)
      /\ \A t \in 1..n : conv.views[t] = [i \in 1..KernelSize |-> Past(ids[t] - KernelSize + i)]
  <2>1. Numbered(ids, seen) BY DEF Numbered
  <2>2. Convolves(Depthwise(Recent(seen), Gated(ids)), seen, ids) BY <2>1, ConvolvesAt
  <2>3. Convolves(conv, seen, ids) BY <1>3, <2>2
  <2> HIDE DEF conv
  <2> QED BY <2>3 DEF Convolves
<1> HIDE DEF n, kv, att, conv, out, kept
<1>6. LayerAt(out.cache, seen + n) BY <1>1, <1>2, <1>4, <1>5 DEF LayerAt
<1>7. \A t \in 1..n : ViewAt(out.views, t, ids[t], seen - Retained(seen), seen + n - 1)
  BY <1>1, <1>4, <1>5 DEF ViewAt
<1> QED BY <1>6, <1>7 DEF out, n

(* Quotient and remainder.                                                  *)
LEMMA Divided ==
    ASSUME NEW n \in Nat, n > 0, NEW x \in Int
    PROVE  x = n * (x \div n) + (x % n) /\ x \div n \in Int
OBVIOUS

(* The window holds whole chunks, as the checkpoint's 56 frames do.         *)
WholeChunks == (SlidingWindow - 1) % (Lookahead + 1) = 0

(* The offline mask shows a chunk the frames that are at hand in a stream.  *)
LEMMA MaskIsReach ==
    ASSUME WholeChunks, NEW c \in Nat, NEW seen, seen = c * (Lookahead + 1),
           NEW id \in seen..(seen + Lookahead)
    PROVE  OfflineKeys(id, seen + (Lookahead + 1), SlidingWindow - 1, Lookahead)
             = (seen - Retained(seen))..(seen + Lookahead)
<1> DEFINE n == Lookahead + 1
           left == SlidingWindow - 1
           m == left \div n
           past == c - m
<1>1. n \in Nat /\ n > 0 /\ n = Lookahead + 1 /\ Lookahead = n - 1 /\ left \in Nat /\ left % n = 0
  BY LookaheadAssumption, ConfigAssumption DEF WholeChunks
<1> HIDE DEF n, left
<1>2. m \in Nat /\ left = m * n
  <2>1. left = n * (left \div n) + (left % n) /\ left \div n \in Int BY <1>1
  <2>2. ~(left \div n <= -1)
    <3>1. left \div n <= -1 => (left \div n) * n <= -n BY <1>1, <2>1, Times
    <3> QED BY <1>1, <2>1, <3>1
  <2> QED BY <1>1, <2>1, <2>2
<1> HIDE DEF m
<1>3. seen \in Nat /\ seen = c * n /\ id \in Nat /\ id - seen \in 0..(n - 1)
      /\ seen + Lookahead = seen + n - 1
  <2>1. seen \in Nat BY <1>1
  <2> QED BY <1>1, <2>1
<1>4. id \div n = c
  <2>1. id = c * n + (id - seen) BY <1>1, <1>3
  <2> QED BY <1>1, <1>3, <2>1, DivMod
<1>5. Retained(seen) = IF seen < left THEN seen ELSE left BY DEF Retained, left
<1>6. ASSUME NEW key \in 0..(seen + n - 1)
      PROVE  (c >= key \div n /\ c - key \div n <= m) <=> key >= seen - left
  <2> DEFINE k == key \div n
             r == key % n
  <2>1. k \in Int /\ r \in 0..(n - 1) /\ key = n * k + r BY <1>1, <1>3
  <2> HIDE DEF k, r
  <2>2. k <= c
    <3>1. k - c \in Int /\ (k - c) * n = key - r - seen BY <1>1, <1>3, <2>1
    <3>2. ~(k - c >= 1) BY <1>1, <1>3, <2>1, <3>1, Times
    <3> QED BY <2>1, <3>2
  <2> DEFINE a == k - (c - m)
  <2>3. a \in Int /\ a * n = key - r - (seen - left) BY <1>1, <1>2, <1>3, <2>1
  <2>4. a >= 0 => key >= seen - left
    <3>1. a >= 1 => a * n >= n BY <1>1, <2>3, Times
    <3>2. a = 0 => a * n = 0 BY <1>1
    <3>3. a >= 0 => a * n >= 0 BY <1>1, <2>3, <3>1, <3>2
    <3> HIDE DEF a
    <3> QED BY <1>1, <1>3, <2>1, <2>3, <3>3
  <2>5. a <= -1 => ~(key >= seen - left)
    <3>1. a <= -1 => a * n <= -n BY <1>1, <2>3, Times
    <3> HIDE DEF a
    <3> QED BY <1>1, <1>3, <2>1, <2>3, <3>1
  <2>6. c - k <= m <=> a >= 0 BY <1>2, <2>1
  <2>7. a >= 0 \/ a <= -1 BY <2>3
  <2> HIDE DEF a
  <2> QED BY <2>1, <2>2, <2>4, <2>5, <2>6, <2>7 DEF k
<1>7. OfflineKeys(id, seen + n, left, Lookahead)
        = {key \in 0..(seen + n - 1) : key >= seen - left}
  <2>1. OfflineKeys(id, seen + n, left, Lookahead)
          = {key \in 0..(seen + n - 1) : c >= key \div n /\ c - key \div n <= m}
    BY <1>1, <1>4 DEF OfflineKeys, m
  <2> QED BY <1>6, <2>1
<1>8. {key \in 0..(seen + n - 1) : key >= seen - left}
        = (seen - Retained(seen))..(seen + n - 1)
  BY <1>1, <1>3, <1>5
<1> QED BY <1>1, <1>3, <1>7, <1>8 DEF n, left

(* A new layer's caches are those of frame 0.                               *)
LEMMA NewLayerAt == LayerAt(NewLayerCache, 0)
<1>1. Retained(0) = 0 BY ConfigAssumption DEF Retained
<1>2. NewConvCache = Recent(0)
  <2>1. KernelSize \in Nat BY ConfigAssumption
  <2>2. \A i \in 1..(KernelSize - 1) : Past(0 - KernelSize + i) = Silence
    BY <2>1 DEF Past
  <2> QED BY <2>2 DEF NewConvCache, Recent
<1>3. KeysFrom(NewKvCache, 0 - 0)
  <2>1. NewKvCache.frames = 0 BY DEF NewKvCache
  <2>2. 0..(0 - 1) = {} OBVIOUS
  <2> QED BY <2>1, <2>2 DEF KeysFrom
<1>4. NewLayerCache.attention = NewKvCache /\ NewLayerCache.convolution = NewConvCache
      /\ NewKvCache.frames = 0
  BY DEF NewLayerCache, NewKvCache
<1> QED BY <1>1, <1>2, <1>3, <1>4 DEF LayerAt
============================================================================
