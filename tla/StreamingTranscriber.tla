------------------------ MODULE StreamingTranscriber ------------------------
(***************************************************************************)
(* One Nemotron session: AudioChunkScheduler cuts the audio into windows,  *)
(* StreamingTranscriber encodes them one after the other and decodes them  *)
(* greedily.  A call of push_samples or finish is one handler: it appends, *)
(* cuts windows until none is complete and then decodes them in a loop     *)
(* that the first error leaves; "pc" is the place in that call, and        *)
(* nothing else runs before it returns (&mut self).  A tensor operation    *)
(* may fail between any two cache updates.                                 *)
(***************************************************************************)
EXTENDS StreamingEncoder

CONSTANTS Blocks,             \* sample counts of one push
          MaxAudio,           \* bound: samples of an utterance
          MaxFaults,          \* bound: failing chunks of a run
          MaxSymbolsPerStep,  \* max_symbols_per_step, 10 in the code
          ScorePatterns       \* symbols the joint network finds, frame by frame

ASSUME BlockAssumption ==
    /\ Blocks \subseteq Nat /\ MaxAudio \in Nat /\ MaxFaults \in Nat
    /\ MaxSymbolsPerStep \in Nat
    /\ ScorePatterns \subseteq [1..EncoderFramesPerChunk -> Nat]

VARIABLES audio, firstProcessed, melFrameIndex, finished,  \* AudioChunkScheduler
          cache, framesSeen, prediction,                    \* StreamingTranscriber
          pc, queue, reply,        \* the call under way and the last one's result
          output,                  \* frames of the tokens the call has decoded
          tokens,                  \* frames of the tokens returned so far
          views,                   \* what the last encoded chunk looked at
          encodedMel, skippedMel,  \* mel frames consumed and lost
          faults                   \* kinds of the failures so far, in order

scheduler   == <<audio, firstProcessed, melFrameIndex, finished>>
transcriber == <<cache, framesSeen, prediction>>
ghosts      == <<output, tokens, views, encodedMel, skippedMel, faults>>
vars        == <<scheduler, transcriber, pc, queue, reply, ghosts>>

Outcomes == {"none", "ok", "closed", "underflow", "failed"}

NewPrediction == [layers |-> <<0, 0>>, cached |-> 0, initialized |-> FALSE]

NoViews == [frames |-> <<>>, ids |-> <<>>, rows |-> <<>>, views |-> <<>>]

Init == /\ audio = 0 /\ firstProcessed = FALSE /\ melFrameIndex = 0 /\ finished = FALSE
        /\ cache = NewEncoderCache /\ framesSeen = 0 /\ prediction = NewPrediction
        /\ pc = "idle" /\ queue = <<>> /\ reply = "none"
        /\ output = <<>> /\ tokens = <<>> /\ views = NoViews
        /\ encodedMel = 0 /\ skippedMel = 0 /\ faults = <<>>

-----------------------------------------------------------------------------
(* AudioChunkScheduler                                                      *)

Window(start, length, center, frames) ==
    [start |-> start, length |-> length, center |-> center, frames |-> frames,
     mel |-> melFrameIndex]

FirstWindow == Window(0, FirstAudioSamples, TRUE, FirstMelFrames)

\* next_start() is checked_sub: below zero it is an error.
NextStart   == melFrameIndex * 160 - 256
Underflow   == firstProcessed /\ NextStart < 0

SubsequentWindow == Window(NextStart, SubsequentAudioSamples, FALSE, SubsequentMelFrames)

NextWindow  == IF firstProcessed THEN SubsequentWindow ELSE FirstWindow

\* Mutant: the last 56 samples, outside the last Hann window, are not waited for.
IsComplete_Mistake(w) == audio >= w.start + w.length - 56

IsComplete(w) == audio >= w.start + w.length

\* push: refused once finished.
Push(n) ==
    /\ pc = "idle" /\ audio + n <= MaxAudio
    /\ IF finished
       THEN reply' = "closed" /\ UNCHANGED <<audio, pc>>
       ELSE audio' = audio + n /\ pc' = "scheduling" /\ reply' = "none"
    /\ UNCHANGED <<firstProcessed, melFrameIndex, finished, transcriber, queue, ghosts>>

CutWindow ==
    /\ pc = "scheduling" /\ ~Underflow /\ IsComplete(NextWindow)
    /\ queue' = Append(queue, NextWindow)
    /\ firstProcessed' = TRUE
    /\ melFrameIndex' = melFrameIndex + NextWindow.frames
    /\ UNCHANGED <<audio, finished, transcriber, pc, reply, ghosts>>

\* Mutant: the scheduler waits for a window before the call goes on.
CutIsDone_Mistake ==
    /\ pc = "scheduling"
    /\ IF Underflow
       THEN /\ queue' = <<>> /\ pc' = "idle" /\ reply' = "underflow"
            /\ skippedMel' = melFrameIndex - encodedMel
       ELSE /\ ~IsComplete(NextWindow) /\ queue # <<>>
            /\ pc' = "decoding" /\ UNCHANGED <<queue, reply, skippedMel>>
    /\ UNCHANGED <<scheduler, transcriber, output, tokens, views, encodedMel, faults>>

\* The loop ends when no window is complete; an error of next_start() drops
\* the windows that this push has cut.
CutIsDone ==
    /\ pc = "scheduling"
    /\ IF Underflow
       THEN /\ queue' = <<>> /\ pc' = "idle" /\ reply' = "underflow"
            /\ skippedMel' = melFrameIndex - encodedMel
       ELSE /\ ~IsComplete(NextWindow)
            /\ pc' = "decoding" /\ UNCHANGED <<queue, reply, skippedMel>>
    /\ UNCHANGED <<scheduler, transcriber, output, tokens, views, encodedMel, faults>>

\* Mutant: finish only closes the scheduler.
Finish_Mistake ==
    /\ pc = "idle"
    /\ IF finished THEN reply' = "closed" /\ UNCHANGED <<finished, pc>>
       ELSE finished' = TRUE /\ reply' = "none" /\ pc' = "decoding"
    /\ UNCHANGED <<audio, firstProcessed, melFrameIndex, queue, transcriber, ghosts>>

\* finish: at most one more window, padded with silence.
Finish ==
    /\ pc = "idle"
    /\ IF finished THEN reply' = "closed" /\ UNCHANGED <<scheduler, pc, queue>>
       ELSE /\ finished' = TRUE
            /\ UNCHANGED audio
            /\ IF audio > 0 /\ Underflow
               THEN reply' = "underflow" /\ UNCHANGED <<firstProcessed, melFrameIndex, pc, queue>>
               ELSE /\ reply' = "none" /\ pc' = "decoding"
                    /\ IF audio > NextWindow.start
                       THEN /\ queue' = <<NextWindow>>
                            /\ firstProcessed' = TRUE
                            /\ melFrameIndex' = melFrameIndex + NextWindow.frames
                       ELSE UNCHANGED <<queue, firstProcessed, melFrameIndex>>
    /\ UNCHANGED <<transcriber, ghosts>>

ResetScheduler ==
    audio' = 0 /\ firstProcessed' = FALSE /\ melFrameIndex' = 0 /\ finished' = FALSE

-----------------------------------------------------------------------------
(* decode_chunk: features, encoder, then the greedy RNNT search.            *)

Chunk == Head(queue)

Mel == LET features == Extract(Chunk)
       IN  [m \in DOMAIN features |-> {features[m].at}]

\* The encoder frame that the first mel frame of the chunk belongs to.
BaseFrame == (Chunk.mel + 7) \div 8

Encoded(done) == EncodeChunk(cache, Mel, BaseFrame, done)

\* LstmCell::step_f32: a layer's state stands for the symbols it has been fed;
\* hidden and cell are replaced together, once both are computed.
LstmFed(layer, symbols) == layer + symbols

\* PredictionNetwork::step for every symbol; the first step of an utterance
\* feeds the blank.  After "steps" steps and "partial" more LSTM layers.
Predicted(steps, partial) ==
    [layers      |-> [i \in 1..2 |-> LstmFed(prediction.layers[i],
                                            steps + (IF i <= partial THEN 1 ELSE 0))],
     cached      |-> IF steps = 0 THEN prediction.cached ELSE prediction.layers[1] + steps,
     initialized |-> prediction.initialized \/ steps > 0]

\* At most MaxSymbolsPerStep symbols of a frame are taken, then the next frame.
Emitted(pattern, offset) ==
    LET upTo[t \in 0..Len(pattern)] ==
          IF t = 0 THEN <<>>
          ELSE upTo[t - 1] \o [i \in 1..(IF pattern[t] < MaxSymbolsPerStep THEN pattern[t]
                                         ELSE MaxSymbolsPerStep) |-> offset + t - 1]
    IN  upTo[Len(pattern)]

\* Mutant: a new utterance is not started with the blank.
StepsFor_Mistake(emitted) == Len(emitted)

StepsFor(emitted) == Len(emitted) + (IF prediction.initialized THEN 0 ELSE 1)

\* The encoder's part of a chunk that it completes: the window counts as
\* consumed, and the clock advances, whatever decoding does next.
EncodeDone ==
    LET encoded == Encoded(CacheUpdates)
    IN  /\ framesSeen' = framesSeen + Len(encoded.frames)
        /\ cache' = encoded.cache
        /\ views' = [frames |-> encoded.frames, ids |-> encoded.ids, rows |-> encoded.rows,
                      views  |-> encoded.views]

DecodeChunk(pattern) ==
    /\ pc = "decoding" /\ queue # <<>>
    /\ queue' = Tail(queue) /\ encodedMel' = encodedMel + Chunk.frames
    /\ UNCHANGED <<scheduler, pc, reply, tokens, skippedMel, faults>>
    /\ LET emitted == Emitted(pattern, framesSeen)
       IN  output' = output \o emitted /\ prediction' = Predicted(StepsFor(emitted), 0)
    /\ EncodeDone

\* The first error ends the loop: what the call has decoded so far is dropped.
CallFails(kind) ==
    /\ pc = "decoding" /\ queue # <<>> /\ Len(faults) < MaxFaults
    /\ queue' = <<>> /\ output' = <<>> /\ pc' = "idle" /\ reply' = "failed"
    /\ faults' = Append(faults, kind)
    /\ UNCHANGED <<scheduler, tokens>>

\* encode_chunk fails after some of its cache updates: the frame clock stays.
EncodeFails(done) ==
    /\ CallFails("encode")
    /\ skippedMel' = melFrameIndex - encodedMel
    /\ UNCHANGED <<framesSeen, prediction, views, encodedMel>>
    /\ cache' = Encoded(done).cache

\* Mutant: the clock only counts the frames of chunks that were decoded.
DecodeFails_Mistake(pattern, steps, partial) ==
    /\ CallFails("decode")
    /\ LET total == StepsFor(Emitted(pattern, framesSeen))
       IN  steps <= total /\ (steps = total => partial = 0)
    /\ prediction' = Predicted(steps, partial)
    /\ encodedMel' = encodedMel + Chunk.frames
    /\ skippedMel' = melFrameIndex - encodedMel'
    /\ cache' = Encoded(CacheUpdates).cache
    /\ UNCHANGED <<framesSeen, views>>

\* decode_frames fails after some symbols: the window counts, its tokens are lost.
DecodeFails(pattern, steps, partial) ==
    /\ CallFails("decode")
    /\ LET total == StepsFor(Emitted(pattern, framesSeen))
       IN  steps <= total /\ (steps = total => partial = 0)
    /\ prediction' = Predicted(steps, partial)
    /\ encodedMel' = encodedMel + Chunk.frames
    /\ skippedMel' = melFrameIndex - encodedMel'
    /\ EncodeDone

Return == /\ pc = "decoding" /\ queue = <<>>
          /\ pc' = "idle" /\ reply' = "ok"
          /\ tokens' = tokens \o output /\ output' = <<>>
          /\ UNCHANGED <<scheduler, transcriber, queue, views, encodedMel, skippedMel, faults>>

\* Mutant: the scheduler is not reset with the transcriber.
Reset_Mistake ==
    /\ pc = "idle"
    /\ cache' = NewEncoderCache /\ framesSeen' = 0 /\ prediction' = NewPrediction
    /\ output' = <<>> /\ tokens' = <<>> /\ views' = NoViews /\ encodedMel' = 0 /\ skippedMel' = 0
    /\ faults' = <<>> /\ reply' = "none"
    /\ audio' = 0 /\ firstProcessed' = FALSE /\ UNCHANGED <<melFrameIndex, finished, pc, queue>>

Reset == /\ pc = "idle"
         /\ ResetScheduler
         /\ cache' = NewEncoderCache /\ framesSeen' = 0 /\ prediction' = NewPrediction
         /\ output' = <<>> /\ tokens' = <<>> /\ views' = NoViews /\ encodedMel' = 0 /\ skippedMel' = 0
         /\ faults' = <<>> /\ reply' = "none"
         /\ UNCHANGED <<pc, queue>>

Running == \/ CutWindow \/ CutIsDone \/ Return
           \/ \E pattern \in ScorePatterns : DecodeChunk(pattern)
           \/ \E done \in 0..CacheUpdates : EncodeFails(done)
           \/ \E pattern \in ScorePatterns, steps \in 0..(EncoderFramesPerChunk * MaxSymbolsPerStep),
                 partial \in 0..2 : DecodeFails(pattern, steps, partial)

Next == (\E n \in Blocks : Push(n)) \/ Finish \/ Reset \/ Running

\* The next step of the call under way; a chunk is decoded or fails whatever
\* the tensors hold, so its step is said without them.
ChunkProceeds == /\ pc = "decoding" /\ queue # <<>>
                 /\ queue' \in {<<>>, Tail(queue)} /\ pc' \in {"idle", "decoding"}

CallProceeds == CutWindow \/ CutIsDone \/ Return \/ ChunkProceeds

Spec == Init /\ [][Next]_vars /\ WF_<<pc, queue>>(CallProceeds)

-----------------------------------------------------------------------------
(* Properties.                                                              *)

(* Types, and what ties the scheduler's fields together.                    *)
TypeOK ==
    /\ {audio, melFrameIndex, encodedMel, skippedMel} \subseteq Nat
    /\ {firstProcessed, finished} \subseteq BOOLEAN
    /\ pc \in {"idle", "scheduling", "decoding"} /\ reply \in Outcomes
    /\ firstProcessed <=> melFrameIndex > 0
    /\ Len(faults) <= MaxFaults

(* Every window yields the mel frames the plan counts on, the m-th of the   *)
(* utterance centred on sample 160 * m, and no Hann window reads past the   *)
(* slice or misses the sample pre-emphasis needs: the frames a window in    *)
(* mid-stream gives are those an offline pass gives.                        *)
WindowsAreWhole ==
    \A i \in DOMAIN queue : LET w == queue[i] IN
        /\ FrameCount(w) = w.frames
        /\ \A m \in DOMAIN Extract(w) :
              Extract(w)[m] = [at |-> 160 * (w.mel + m - 1), whole |-> TRUE]

\* The subsampling of an utterance that has no chunks, over mel frame numbers:
\* frame t of a stage sees 2t-2, 2t-1 and 2t of the one before.
OfflineStage(last, before) ==
    [t \in 0..last |-> UNION {before[u] : u \in {2 * t - 2, 2 * t - 1, 2 * t} \cap Nat}]

OfflineSubsampled(frame) ==
    OfflineStage(frame, OfflineStage(2 * frame, OfflineStage(4 * frame,
        [t \in 0..(8 * frame) |-> {t}])))[frame]

(* The stages' one-frame caches make a chunked pass the convolution of the  *)
(* utterance at every frame but two.  Each stage convolves one frame more   *)
(* of the first chunk than is valid and silences it, but the cache of the   *)
(* next stage takes it for a frame: the last frame of the first chunk has   *)
(* seen nothing, the one after it only mel frames from its own first one    *)
(* on, and the seven before that are lost.                                  *)
SubsamplingIsOfflineButForTheSeam ==
    faults = <<>> => \A t \in DOMAIN views.frames :
        LET id   == views.ids[t]
            lost == CASE id = Lookahead     -> OfflineSubsampled(id)
                      [] id = Lookahead + 1 -> {m \in OfflineSubsampled(id) : m < 8 * Lookahead}
                      [] OTHER              -> {}
        IN  views.frames[t] = {160 * m : m \in OfflineSubsampled(id) \ lost}

(* In every layer a query looks at exactly the keys of the offline chunked  *)
(* mask, each with the distance between the two frames, in its own head,    *)
(* and the convolution at the frames just before, silence before the first; *)
(* the row the decoder gets is that frame with the session's prompt.        *)
LayersSeeOffline ==
    faults = <<>> => \A l \in DOMAIN views.views, t \in DOMAIN views.ids :
        LET id == views.ids[t]
        IN  /\ views.rows[t] = [frames |-> {id}, prompts |-> {Prompt}]
            /\ views.views[l].attention[t] =
                 {<<k, id - k, TRUE>> :
                    k \in OfflineKeys(id, framesSeen, SlidingWindow - 1, Lookahead)}
            /\ views.views[l].convolution[t] =
                 [i \in 1..KernelSize |-> IF id - KernelSize + i < 0 THEN Silence
                                          ELSE {id - KernelSize + i}]

NoEncoderFault == \A i \in DOMAIN faults : faults[i] # "encode"

(* A decode error cannot desync the frame clock from the encoder's caches,  *)
(* as decode_features promises, and the clock is behind the audio by        *)
(* exactly the windows that were lost.                                      *)
FrameClockFollowsCaches ==
    NoEncoderFault =>
        /\ \A l \in 1..NumLayers : cache.layers[l].attention.frames =
              IF framesSeen < SlidingWindow - 1 THEN framesSeen ELSE SlidingWindow - 1
        /\ \A s \in 1..3 : cache.subsampling[s].first <=> framesSeen = 0
        /\ framesSeen * 8 = encodedMel + (IF framesSeen = 0 THEN 0 ELSE 7)
        /\ pc = "idle" => encodedMel + skippedMel = melFrameIndex

(* Tokens come in the order of their frames, all within the clock, and the  *)
(* prediction network has been fed the start symbol and exactly the tokens  *)
(* the caller has or will get, unless a failure lost some.                  *)
TokensFollowTheClock ==
    LET decoded == tokens \o output
    IN  /\ \A i \in DOMAIN decoded :
              /\ decoded[i] < framesSeen
              /\ \A j \in DOMAIN decoded : i < j => decoded[i] <= decoded[j]
              /\ i + MaxSymbolsPerStep \in DOMAIN decoded =>
                    decoded[i] < decoded[i + MaxSymbolsPerStep]
        /\ faults = <<>> /\ prediction.initialized =>
              /\ prediction.cached = 1 + Len(decoded)
              /\ prediction.layers = <<1 + Len(decoded), 1 + Len(decoded)>>

(* After finish less than one hop of the audio is past the Hann window of   *)
(* the last mel frame encoded (the window is longer than its last frame     *)
(* needs, so up to 104 samples do stay unread), if no chunk failed.         *)
FinishCoversAudio ==
    finished /\ pc = "idle" /\ faults = <<>> /\ audio > 0 =>
        encodedMel > 0 /\ audio - ((encodedMel - 1) * 160 + 200) < 160

(* README.md supports lookahead 0: no call of an open session fails because *)
(* of the position of the next window.                                      *)
SupportedLookaheadStreams == reply # "underflow"

(* Every call returns: the scheduler's loop and the decoding loop end.      *)
CallsReturn == pc # "idle" ~> pc = "idle"

(* The windows are a function of the audio heard, not of the blocks it came *)
(* in: the transcriber implements AudioWindows.                             *)
Windows == INSTANCE AudioWindows WITH
    First <- FirstMelFrames, Subsequent <- SubsequentMelFrames,
    heard <- audio, encoded <- encodedMel, skipped <- skippedMel,
    status <- IF ~finished THEN "open"
              ELSE IF pc = "decoding" /\ queue # <<>> THEN "padding" ELSE "closed"

WindowsAreOfTheAudio == Windows!Spec
=============================================================================
