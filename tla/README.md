# Verification of Catcher and Tippi

TLA+ models, model-checking runs and machine-checked proofs for the state
machines of this repository: the macOS app Tippi, the Rust libraries behind it
(ASR handle, streaming transcriber, streaming diarizer, their fusion, the model
converter) and the tomato-ears recipe that drives an engine host from a web
page.

The models keep control: who calls whom, what is suspended where, what fails,
what is thrown away and what must come out in the end. Of neural inference they
keep which entry of which tensor an operation reads and which cache it writes,
because chunked inference goes wrong there; the numbers themselves are left out,
and so are file formats and layout.

## 1. Inventory

### The macOS app (`apps/tippi/Sources`)

| Part | State | Operations | What makes it correct |
|---|---|---|---|
| `TranscriptionController` | `state`, `activeMode`, `catcher`, `keywordSpotter`, `audioContinuation`, `audioTask`, `messages`, voice preparation | prepare, prepareVoiceInput, toggleRecording, clearTranscript; one audio task per recording; two failure paths | one live session; microphone off unless a mode is active; Stop loses no chunk of the stream; every click ends |
| `AudioRecorder` | engine, converter, sink under a lock | start, stop, tap callback | delivers only to the sink it was started with |
| `CatcherClient`, `KeywordSpotterClient` | an FFI handle inside an actor | start, push, text(before:), finish, finish(before:), reset | calls take effect in order |
| `TextInjectionCoordinator`, `VoiceInputTiming`, `TextInjector` | `injectedPrefix`, `commandInFlight`; the sample clock lives in the controller | consume, submit, resetTurn | the command is never typed, typed text is a prefix of what was said, Return sends all of it |
| `ModelStore`, `KeywordModelInstaller`, `ModelDirectoryMigrator` | directories | install, repair, migrate | a directory under the final name is complete, whatever was interrupted |
| Transcript values, exporter, views | none | formatting | |

The main actor runs every handler of the controller but gives it up at each
`await`, so a handler is a chain of steps between which other handlers run. The
two clients are actors of their own. `AudioRecorder` runs outside every actor,
and its tap feeds an `AsyncStream` that the audio task drains.

### The Rust libraries (`crates`)

| Part | State | Operations | What makes it correct |
|---|---|---|---|
| `catcher-ffi` handle | `state`, timed tokens, diarizer or none, fusion, strings | start, push, finish, finish_before, text_before, segments | refuses what the state does not allow; diarizer failure never hurts transcription |
| `catcher-ffi` keyword spotter | stream, `latched` | push, reset | one detection per turn |
| `sortformer-mlx` streaming diarizer | audio, chunk cursor, AOSC cache and FIFO with their predictions | push_samples, finish, reset | one prediction per frame of the recording, in order, from bounded queues |
| `nemotron-mlx` fusion | tokens, speaker frames, `flushed` | push, retain, flush, segments | the segments spell the transcript in time order, at most the last is tentative, a turn that is long enough keeps its speaker |
| `nemotron-mlx` transcriber | chunk scheduler, subsampling, attention and convolution caches, `frames_seen`, prediction state | push_samples, finish, reset | the windows depend on the audio and not on the blocks it comes in; a chunk computes what an offline pass computes, but for the seam after the first; the clock counts the frames the caches hold; every call returns |
| `nemotron-mlx` converter | a staging directory, the output directory | convert_model | a model that loads is one conversion's, whole |
| `sortformer-mlx` model | none | pre_encode, forward | one prediction for each row, over all rows at their distances |
| `catcher-asr-host` | `accumulated` | start, audio, stop over JSON lines | one final per session |

### tomato-ears (`recipes/tomato-ears/reference`)

| Part | State | Operations | What makes it correct |
|---|---|---|---|
| `ui/app.js` | buttons, `session`, one WebSocket | start, chunks, stop with flush | |
| `server.ts` | none of its own; reassigns callbacks | forward | two pages do not mix |
| `engine.ts` | `#pendingStop`, pipes | start, pushPcm, stop, read loop | each stop is settled once, by its own final |
| `downloader.ts`, `main.ts`, `setup.ts` | files | verified download, pinning, profile | an interrupted setup can be repeated |
| downsampler | carried samples, partial chunk | push, flush | no sample lost across blocks |

### Others

`apps/tippi-windows` is a second app (WPF) with its own engines and installers,
`apps/nemotron-asr-host` a second host for the same protocol, `nemotron-cli` and
the converters are batch programs. `PROJECT.json` lists all of them with
their status.

### What is hard

Handlers that resume after a failure has been handled by somebody else;
recording that stops while a chunk is being processed; a spoken command that
restarts three clocks in three objects; a host that dies between a command and
its answer; unsigned chunk arithmetic whose remainder differs at the beginning,
in the middle and at the end of a recording; queues whose limits are tested
before some appends and after others; attention over flat arrays that are
padded, shifted and sliced by hand; a chunk that fails between two cache
updates; segments that are recomputed at every call from two streams that arrive
at different times; interrupted and concurrent conversions and installations.
`PROJECT.json` "hazards" lists each of these at the line where it bites, with
the property that would notice, or why there is none yet.

## 2. Modules

| Module | Models | Used by |
|---|---|---|
| `TranscriptionController` | the controller, the recorder and the session states of its clients | runs `controller`, `controller_table` |
| `TranscriptionController_proofs` | its type invariant, and its five safety properties for a user who waits | |
| `VoiceTurn` | one voice turn from microphone to keystrokes, over sessions and turns | `MCVoiceTurn`: `voice`, `voice_phrases` |
| `VoiceTurn_proofs` | its four invariants | |
| `EngineSession` | pages, server, engine client and host | `MCEngine`: `engine`, `engine_tabs`, `engine_host` |
| `RecordingAnswers` | abstract: what tomato-ears promises of a recording | refined by `EngineSession` |
| `EngineSession_proofs` | its type invariant, that answers stand, what a careful user's sessions keep, and the refinement | |
| `StreamingDiarizer` | diarizer, AOSC, and their use by the FFI handle | `SortformerModel` |
| `SortformerModel` | what the diarizer computes for one chunk | `MCDiarizer`: `diarizer`, `diarizer_look` |
| `StreamingDiarizer_proofs` | the five invariants of the diarizer's queues, and that chunking does not show in the model | |
| `StreamingEncoder` | framing, subsampling, FastConformer layers and their caches, as functions | `StreamingTranscriber` |
| `StreamingEncoder_proofs` | what those functions keep: one call of a stage or a layer continues an offline pass | extended by `StreamingTranscriber_proofs` |
| `AudioWindows` | abstract: which windows an utterance is encoded in | refined by `StreamingTranscriber` |
| `StreamingTranscriber` | scheduler, encoding and decoding loop, clock, prediction state | `MCTranscriber`: `transcriber`, `transcriber_lookahead` |
| `StreamingTranscriber_proofs` | its eight invariants and the refinement | |
| `Fusion` | tokens and speaker frames to segments, as functions | `CatcherHandle` |
| `CatcherHandle` | one FFI handle: transcriber, diarizer, fusion, strings, warnings | `CatcherLifecycle` |
| `ModelConversion` | concurrent, failing and killed conversions into one directory | `CatcherLifecycle` |
| `CatcherLifecycle` | both composed: conversion, `catcher_create`, recordings | `MCLifecycle`: `lifecycle` |
| `Fusion_proofs` | what the functions of `Fusion` keep of tokens, time and speakers | `CatcherLifecycle_proofs` |
| `CatcherLifecycle_proofs` | a loaded model is whole, warnings tell the truth, and what a handle shows is what was said | |

`TranscriptionController` and `VoiceTurn` look at the same Swift code at two
grains: the first has every interleaving and no audio content, the second has
the content and one session at a time. Definitions whose name ends in an
underscore and a word (`StopDetach_NoJoin`, `Publish_Mistake`) are deliberate
mistakes; a comment says which. They are not part of any specification and serve to show that each
property notices a mistake of the kind it is there for.

### TranscriptionController

A task is one click on Start or Stop (`pc[t]` says at which `await` it is
suspended, with `mode[t]`, `cat[t]`, `joins[t]` for its local variables `mode`,
`catcher`, `task`). A task that starts a recording names the session, so
`continuation`, `audioTask`, `sink` and `messages` hold a task or `None`.
`stream[s]` is the position of the session's audio task, `queue[s]` the number
of chunks in its `AsyncStream`. `tap` is a callback of the recorder's tap
between reading the sink under the lock (`Capture`) and calling it after the
conversion (`Deliver`): a `stop()` that comes in between is not noticed, and a
chunk that finds its stream finished is dropped, so `StopKeepsAllAudio` is about
the chunks that reached the stream. `asr[c]` is the session state of the ASR handle
that the c-th `prepare()` built. An action is what a handler does between two
awaits: the `await` on a client performs the operation and chooses its answer at
once, and the action that follows reads the answer. `await task?.value`
suspends only when there is a task, which is why `CleanupDetach` and
`StopDetach` have two alternatives. `AnswersInOrder` is the serial actor: a
`finish` called later cannot answer before one called earlier.

`Patient = TRUE` restricts the user, not the program: no click falls between two
jobs that the main actor has queued already, or into the moment in which
`audio.start()`, `audio.stop()` or an ended task is about to resume its caller
(`Settled` names the positions). Slow calls, their failures and all their
interleavings remain, those of the program inside these moments included: run
`controller_table` needs one of them and no click. It is a real restriction. With
`Patient = FALSE` and the bounds of `controller`, `OneLiveSession`,
`TranscriptIsOfTheNewest` and `EveryClickEnds` still hold. Other things break with clicks that the code does not guard against:

* Retry clicked twice before the first click has run its handler. `prepare()`
  has no guard of its own, so two runs overlap, and the second writes `.ready`
  into a session that has failed or is recording (`MicrophoneFollowsMode`,
  `PushIsNeverRefused`, `StopKeepsAllAudio`).
* Clear clicked after the first chunk was shown and before `startRecording` has
  resumed: `state` is still `.ready`, and the live transcript is wiped. No property
  speaks of it (see "Disagreements without a run").

### VoiceTurn

A turn has three clocks, and the model converts between them as the code does.
Audio comes in samples: `audio` is what both engines have heard in this turn,
sample by sample, in chunks of any length, and `received` counts it. The cutoff is in
milliseconds: `Cutoff` rounds the sample clock down and takes the holdback off. A
token is timed by the frame in which it begins (`FrameOf`), and `TokensBefore`
keeps it if that frame begins strictly before the cutoff, so a frame that
straddles the cutoff is typed. `decoded` says how many frames the ASR has turned
into tokens, whole ones while it listens (`WholeFrames`), all that have begun
once it is flushed (`AllFrames`); it may lag behind arbitrarily.
Texts are sequences of words, each rendered alone or as
part of a phrase, which is all of s2twp that the properties can tell apart. One
turn contains at most one command, and the spotter reports it at most `Latency`
samples after its end. `kws` is the spotter's handle: whether a session has been
started and whether a detection is latched, after which it hears nothing more
until `start` or `reset`; a command that failed to reset it would make the rest of
the session deaf to commands, and type the next one. `VoiceAssumption` says what the holdback is sized for:
command, latency and the longest chunk fit in it, with what the roundings lose, up to
a frame where a token begins and up to a millisecond where the audio ends. `typed` and `returned` are
history variables.

### EngineSession

Every WebSocket, stdin and stdout is a FIFO. `world` says what kind of user and
engine a behaviour has, and never changes: `careful` is a user who waits for the
answer to one Stop before the next click and who stops before leaving a page,
otherwise clicks come in any order; `mayFail` names what may go wrong;
`recordings` and `chunks` bound it. The page's startup (permission, worklet) is
one step.

A page sends its stop when the worklet has confirmed the flush or after two
seconds, and `port.onmessage` outlives the recording. `port` says of which
recordings a worklet still has a chunk to post then, `Straggle` sends it, behind
the stop and perhaps behind the next start, as chunk 0 of its recording. `"late"` in
`mayFail` allows that. A chunk that fails at the engine is not taken; if it is
the partial transcript that fails, it is (`HostAudio`). Both answer with an error
that says nothing of the command it belongs to, which the read loop hands to the
`stop()` that waits; its final then finds none.

What is promised depends on what may fail. Of a careful user, whatever fails:
no start finds a session at the host (`StartFindsNoSession`), and no final mixes two
recordings (`FinalIsOneRecording`); which recording it is, or how much of it, is not
said, since a lost chunk or an answer that was meant for another stop can change
both, and late chunks are left out of it. Of `Orderly` worlds, those of a careful
user in which only finish and the host fail: a final finds its own stop
(`FinalHasItsStop`) and is the whole of its recording (`RecordingsAreAnswered`). Of every
world: an answer comes once, after its Stop, of audio that was sent.

`RecordingAnswers` knows recordings and nothing between them and the engine: no
page, socket, process or event. A recording is begun, spoken, ended and answered
at most once, by an error or a final; a final is of audio that was spoken, the
last of it perhaps after the end, and among `orderly` recordings of all its own and
nothing else. `RecordingsAreAnswered`
says that `EngineSession` implements it: `phase` is `answer` (where the page is with
a recording), `spoken` is `sent`, `heard` keeps its name, and recordings are orderly
in the worlds of a careful user whose engine fails only on finish or by dying.
What happens on the way (messages read, commands handled, events for nobody, the
loss of the host with no `stop()` waiting) is a stutter.

### StreamingDiarizer and SortformerModel

A row of embeddings is the number of the output frame it stands for, and a
prediction is the row it was computed for, so "aligned" is equality. The chunk
geometry is translated literally, including both roundings. Compression is any
choice that the scoring code could make: all silence pads, then any frames with
speech, in flat speaker-major order. The rebuild of a degraded diarizer at the
next start may fail. `diar` is what Fusion has been given.

`SortformerModel` opens the box that `StreamingDiarizer` uses as "one row for
each row". A mel frame is the span of samples its window reads, a subsampled row
the set of mel frames below it. In the Conformer and the Transformer an entry of
the flat hidden array is a record: `own`, the assembled rows it carries on
through residuals and linear layers, and `seen`, what attention mixed in
(`<<query, query of the position, distance, key, value>>`) and what the
convolution did (`<<offset, rows>>`). So a stride, a shift or a transposition
that is wrong shows up as a wrong row, head or distance. An operation that gets
the wrong number of values answers with the empty array, as the code answers
with an error. The forward pass depends on the length of the sequence alone,
hence `Predictions` is computed once for every length a chunk can assemble.

### StreamingTranscriber, StreamingEncoder and AudioWindows

A call of `push_samples` or `finish` is one handler with `&mut self`; `pc` is
the place in it: the scheduler's loop, which cuts windows into `queue`, then the
decoding loop. `EncodeFails(done)` is a tensor operation that fails after the
first `done` cache updates of a chunk (three subsampling stages, then attention
and convolution of each layer), `DecodeFails` one that fails after some symbols
of the greedy search and some of the LSTM layers. `output` is what the call has
decoded so far, `tokens` what earlier calls returned. `encodedMel`,
`skippedMel`, `views` and `faults` are history variables. What the joint network
finds is a choice among `ScorePatterns`, how many symbols in each frame.

`StreamingEncoder` is functions only: a subsampled frame is the set of mel
frames it has seen; keys, queries and scores are indices of the flat,
head-major arrays, sliced and shifted as in the code; the prompt row is fused
with the hidden row. What the caches hold is therefore visible in what a chunk
`views`. The properties compare that with definitions that know no chunks:
`OfflineSubsampled` is the convolution of the whole utterance, `OfflineKeys` the
chunked attention mask.

At one place the two differ, and `SubsamplingIsOfflineButForTheSeam` says where.
The first call of each convolution computes one frame more than is valid and
silences it (`mask_invalid_time`), and the next stage counts and caches that frame
as input. So with lookahead L encoder frame L, the last of the first chunk, has
seen nothing, and frame L + 1 reads mel frames 8L to 8L + 8 only: 8L - 7 to 8L - 1
reach no frame that is not silent. Every other frame is the convolution's. One
call over the utterance silences its own last frame instead, so the chunked
result is not quite the one-shot result (see "Disagreements without a run").

`AudioWindows` knows a number of samples, the mel frames encoded and skipped,
and whether the session is open; a block, a queue or a cache does not occur in
it. `WindowsAreOfTheAudio` says that the transcriber implements it.

### Fusion, CatcherHandle, ModelConversion and CatcherLifecycle

`Fusion` translates attribution, grouping, anti-flicker, segments, boundary
punctuation and the tentative tail as functions of its three fields. A token is
`[id, frame]`, its text one of four kinds (word, closing punctuation, a special
token that spells nothing, an id that cannot be decoded); a text is the sequence
of the tokens spelt in it. Spaces and the conversion to traditional characters
are left out here, the latter is in `VoiceTurn`. Probabilities are percentages.
`retain`, the partition of decided and undecided tokens and the filters in
`shift_boundary_punctuation` are `Selected(seq, places)`, a recursive function
rather than the RECURSIVE operator behind `SelectSeq`, so that it can be proved about.

In `CatcherHandle` a call is one step, since the handle has one caller at a
time. A finish pads one more window whenever audio was pushed (`Padding`). Windows and diarizer chunks arrive as often as the audio allows, with any
content among the patterns, and either may fail: a failing window loses the
windows after it in the same call and the tokens of those before it, and the
diarizer does not hear that call's samples; a failing diarizer is dropped.

In `ModelConversion` the steps are the file operations of the Rust converter; a
process may fail or be killed at each, and start again. A staging directory that
a killed process leaves has a name nobody uses again, and is forgotten.
`CatcherLifecycle` reads the output file by file in between. Once a handle
exists nothing reads the directory any more and the converters stand still; they
go on when it is destroyed.

## 3. Runs

| Run | Bounds | What it shows |
|---|---|---|
| `controller` | 3 clicks, 2 prepare() runs, queue of 2, both modes | sessions never overlap, the microphone follows the mode, a push never meets a finished ASR session, Stop keeps every chunk of the stream, no late answer puts an older transcript back on the screen, each click ends |
| `controller_table` | 2 clicks, 1 mode | counterexample: failed to recording |
| `voice` | 2 samples to a millisecond, 2 ms to a frame; 12 samples per turn, two words and one phrase, command of 3 samples, holdback of 3 ms, chunks of 1 or 2 samples | no command typed, typed text is the safe prefix, Return sends all of it |
| `voice_phrases` | same | counterexample: the safe text is not append-only |
| `engine` | 2 tabs, four worlds: careful, 3 recordings of 2 chunks, failing finish and dying host; careful, 2 of 1, every failure of a live host and late chunks; careless, 2 of 1, every failure of the engine; careless, 2 with late chunks only, every failure | no final mixes recordings, start finds no session, a final finds its stop, a stop() before the loss of the host is settled, recordings are answered as `RecordingAnswers` says |
| `engine_tabs` | 2 tabs, no failures | counterexample: two pages mix |
| `engine_host` | 1 tab, dying host | counterexample: a stop that is never settled |
| `diarizer` | 100 samples (of 160 each), chunk 2, contexts 1 and 1, FIFO 3, cache 4, 2 speakers; encoder of 2 heads, 4 dimensions, 2 layers, kernel 3, Transformer of 1 layer | queues bounded and aligned, frames in order, finish covers all, a chunk is encoded as an offline pass would |
| `diarizer_look` | same | counterexample: look-ahead computed before its samples came |
| `transcriber` | lookahead 3, window of 5 frames, 2 layers, 2 heads, kernel 6, 10700 samples in blocks of 1340, 4040 and 7924, one failing chunk, 2 symbols per frame | windows whole and those of the audio, subsampling as offline but for the seam, layers as offline, clock follows caches, tokens follow the clock, finish covers the audio, calls return |
| `transcriber_lookahead` | lookahead 0, no failures | counterexample: the second window underflows |
| `lifecycle` | 2 converters, 2 conversions; utterances of 5 frames in pushes of 2 and 3, windows of 2, diarizer chunks of 3, 2 speakers, smoothing of 1 frame, minimum turn of 2 frames, two failures | segments spell the transcript and follow time, anti-flicker has reached its fixpoint, long turns keep their speaker, NO_UPDATE and the warning tell the truth, the loaded model is whole |

Why the bounds suffice. Three clicks are a start, its stop and the next start,
or a start, a failure and a retry; two `prepare()` runs give a second client
while handlers hold the first; a queue of two holds a chunk behind the one in
work. In `voice` two samples make a
millisecond and four a frame, so chunks end within both, and the cutoff, which is any
whole number of milliseconds, falls on a frame's start and inside one. The
command, a chunk and the two roundings fill the holdback to the last sample (with one
sample more in the command, `VoiceAssumption` is false and a command is typed); a
turn has room for a word older than the holdback, one within it and the whole
command, and a session has any number of turns. In `engine` three recordings
leave one to be damaged by a session that a failed finish left behind; two
are a stop and the next one that its error, its final or its late chunk can meet.
The worlds are four because the failures have to meet and the clicks of a
careless user multiply the interleavings of all of them.

In `diarizer` a sample stands for 160, one hop, and a mel frame reads two hops
on each side (200 samples, rounded up): 100 samples are 100 mel frames, 13
output frames, seven chunks. The FIFO overflows, the cache is compressed and
compressed again, and the pushes of 5, 16 and 23 end inside an output frame, at a
chunk and across chunks. Two heads of two dimensions are the fewest with which a
confusion of the two strides shows, two layers the fewest that compose.

In `transcriber` the first window needs 4040 samples, every later one 5520 and
advances by 5120. So 10700 samples hold the centred window, a shifted one, and
audio for `finish` to pad; the blocks end inside a window, exactly on one, and
two windows into a call. Four frames of left context slide out of the cache from
the second chunk on. One fault suffices for every position in a chunk, with
windows behind it and resets after it.

In `lifecycle` the minimum turn of 160 ms makes a turn of one frame short and
one of two long, so runs of one, two and more frames meet at the decided end of
the diarizer's frames; the cutoff 160 falls among the tokens. Two conversions
are a crash and its repetition, or a race. Two failures are a diarizer that
is lost and the reload at the next start that fails as well. Converters are interchangeable, so
their symmetry is sound (no liveness is checked there).

Deadlock is checked in `voice`, `transcriber` and `transcriber_lookahead`; the
other models really stop, when clicks, recordings or audio are used up.

Fairness. `controller`: an awaited call answers and a ready job on the main
actor runs; the user and the microphone owe nothing. `engine`: messages
arrive, a live host handles its commands one by one, the read loop reads, and
the page's flush has a timeout of two seconds. `transcriber`: a call that has
begun takes its next step (weak fairness of `CallProceeds`, in which a chunk is
decoded or fails), which is what running a thread means; nothing makes the
caller call. Nothing is assumed of clicks, of blocks or of failures.

### Counterexamples worth reading

1. `controller_table`: the tap delivers a chunk before `startRecording` has
   resumed from `audio.start`; the chunk fails, the failure is handled to its
   end, and the resumed start writes `.recording`. No button does anything then:
   Stop needs `activeMode`, Start needs `.ready`.
2. `voice_phrases`: the first word of a phrase becomes stable alone, is typed,
   and is rendered differently once its partner is stable too.
3. `engine_tabs`: a second page records while the first does.
4. `engine_host`: Stop after the host's end has been noticed.
5. `diarizer_look`: the right context ends with the audio, and the window of
   its last mel frame reaches half a window further.
6. `transcriber_lookahead`: with lookahead 0, which the repository's README
   lists as supported, the first window has one mel frame and the next would
   start at sample 160 - 256. `checked_sub` fails, that push drops the window it
   has cut, and so do all pushes after it.

### Disagreements without a run

At four more places a comment or a test says more than the code does. The models
have the behaviour of the code, and no property says the contrary.

* `TranscriptionController.swift:132-133`, "No-op unless idle: recording keeps its
  live transcript". `clearTranscript` asks for `.ready`, which also holds while a
  start waits for `audio.start()` and its audio task already shows text. A Clear
  clicked then (`ClearTranscript` before `Recording`) empties `messages`.
* `engine.ts:237`, a session has exactly one final, and only after `stop()`; 247-248, an
  error after a stop ends the session. A chunk that fails makes the host
  emit an error and keep its session (`session.rs:54`). If `stop()` waits when the error is
  read, it is rejected, and its final comes later and finds none (`HostAudio`,
  then `HandleLine` with no `pendingStop`), or meets the next stop.
* `app.js:374-375`, what the worklet still has after the flush is lost. It is sent
  (`Straggle`), and if the user has started again by then, the host takes it into
  the next recording's session, or answers with an error that meets the next stop.
* `encoder_streaming.rs:158-210`, subsampling in chunks equals one call across the
  chunk boundary. It does within the test's tolerance; frame L + 1 of the chunked
  pass lacks the mel frames below 8L, as described under StreamingEncoder.

## 4. Proofs

`StreamingDiarizer_proofs` proves the five invariants of the diarizer's queues for every
chunk, context, FIFO, cache and speaker count. Alone they are not inductive:
that Fusion's frames are in order follows from where the cursor is, and that the
predictions stay aligned needs the region of the forward pass each is cut from
to be the right one, hence the length of the FIFO and the cache. The
inductive invariant `IInv` adds three facts to them:

* `CallIsOpen`: frames are pending only during a call, a call has a diarizer;
* `Position`: the frames produced are as many as the cursor says, that is
  `next_chunk * ChunkLen`, or the whole recording after a last, ragged chunk,
  and after that last chunk `call` is `finish` or the recording is finished;
* `OutputInOrder`: the frames of the running call continue those in Fusion.

The argument runs through `ChunkGeometry` (the rows between the two contexts
are exactly the frames of the chunk, and lie inside the window, so the unsigned
subtraction does not underflow), `Regions` (the pass gives back cache, FIFO and
rows), `GrowthFacts` (the pop returns the FIFO to its bound), `GatherFacts`
(compression returns at most `SpkcacheLen` rows, the same for embeddings and
predictions) and `UpdateFacts` (one update keeps all of it). The only
assumption is `DiarizerAssumption`: the sizes are naturals, the hop, the
subsampling factor, the chunk length and the number of speakers not zero.

The same module proves `ChunkIsEncodedOffline` (`ChunkingIsHidden`) for every geometry
with at least one row of left context (the code configures one), every size of
Conformer and Transformer that `ModelAssumption` admits (heads divide dimensions,
the kernel is odd, three stages subsample by 8), and every length of queue. The
proof has two halves.

The forward pass, `ForwardPassIs`, over n rows:

* A flat array is a `Spread` of rows: value i belongs to row i \div width. The index
  arithmetic is in `DivMod`, `Within`, `Cells`; `CellIs`, `RowIs` and `SameSpread` lift
  it to rows, and after that no lemma speaks of an index again.
* Norm, linear layers, residuals and the gate keep rows in their places (`NormIs`,
  `LinearIs`, `FeedForwardIs`, `ResidualIs`, `GatedIs`). Splitting into heads and
  joining them again, token-major to head-major and back, is `SplitIs`, `JoinIs`,
  `VectorIs` and `ProjectedIs`.
* `ShiftIs` and `PositionsIs`: after the relative shift, score (i, j) is that of the
  distance i - j. Hence what each layer mixes in, `RelativeAttentionIs`,
  `SelfAttentionIs`, `ConvolutionIs`, in terms of rows (`Weighed`, `Attending`, `Filtered`).
* `ConformerBlockIs` and `TransformerLayerIs` then say that rows in their places stay
  there and have seen more; a second block adds nothing to the set
  (`BlockAfterNothing`), so the layers, however many, end where the first did
  (`ForwardEmbeddedIs`, `TransformerTailIs`, with `UpTo` for the recursion).

The chunk's rows: `FieldGrows` and `StageIs` show that one strided convolution doubles
the mel frames below a row, so that row t of `pre_encode` lies over the frames 8t - 14
to 8t that exist (`PreEncodeIs`). `WindowFacts` says of the window what that needs: it
starts a whole number of rows into the audio, has a row before the chunk unless it
starts with the audio, and ends with the audio or holds every frame of the
chunk's rows. `WindowRows` puts them together. Without left context the first
row of a chunk would lack the frames before the window, so the hypothesis is needed.

`TranscriptionController_proofs` proves, for any number of tasks, `prepare()`
runs and queue length, the type invariant, and for a `Patient` user, the one of
run `controller`, `OneLiveSession` (which TLC finds true of impatient ones too),
`TranscriptIsOfTheNewest` (likewise), `MicrophoneFollowsMode`, `PushIsNeverRefused` and
the step property `StopKeepsAllAudio` (which it refutes for them). None of them is inductive: a handler
that resumes after an `await` relies on what every other handler may have done
meanwhile. `Session` says so place by place:

* `Alone`: at most one start or stop task, one audio task and one preparation
  are at work, and a preparation has the app to itself;
* `IdleInv`: with nobody at work no mode is active and no stream is open;
* `RecInv`, `FreshInv`: the tap, the stream and the task that reads it belong
  to one session, and nothing waits in a stream that never was;
* `StartInv`, `CleanInv`, `StopInv`: what a start, a failed start and a stop own
  and what of the session is left, at each of their `await`s;
* `WorkInv`, `AsrInv`: an audio task at work owns mode and client, the client is
  started wherever it may push, and its stream is open or somebody joins it;
* `TapInv`: an open stream is the one the controller has at hand, and a callback of
  the tap holds the sink of a session that got to record.

`TranscriptIsOfTheNewest` needs `NewInv` on top, which says who may still write on the
screen: an audio task at work and a stop that waits for its client are those of
the newest session with a stream, because clicks come in order and a start that has not
opened its stream yet is the last click so far.

`VoiceTurn_proofs` proves the four invariants of a voice turn, for any words,
commands, spotter latency, chunk length and any sizes of millisecond, frame and
holdback, from `VoiceAssumption`, which is how the code sizes the holdback. `CommandIsNeverTyped` is the interesting one:
what is typed is the text of an initial part of the turn older than the holdback
(`TypedInv`), and a command in the turn is so young when the spotter reports it
that no part of it is that old (`YoungInv`, `CommandIsYoung`). Between the samples of
the one and the frames of the other lies the arithmetic of the two roundings: the
samples whose frame begins before the cutoff are an initial part of the audio,
and each is older than command, latency and chunk together. `ReturnInv` ties
Return to what has been typed when it is sent.

`StreamingTranscriber_proofs` proves, for every lookahead but 0, every set of
blocks, any number of failures and any scores: the type invariant, that no call
fails because of the position of a window, that every window in the queue yields
exactly the mel frames of an offline pass, and that the transcriber implements
`AudioWindows`. The assumptions are `LookaheadAssumption` (the four lookaheads
`StreamingChunkPlan::new` accepts), `ConfigAssumption` and `BlockAssumption`;
lookahead 0 is excluded in the theorems because there the statements are false
(counterexample 6). The inductive invariant `IInv` has three parts:

* `Types`, with `firstProcessed` tied to `melFrameIndex`;
* `QueueInv`: the queue holds the windows between what was consumed or lost and
  the next cut, back to back, each placed where `AudioWindows` puts it, and
  complete as long as the session is open;
* `CutInv`: the cut itself is where the audio puts it, and outside the
  scheduler's loop no window of an open session is complete, so that `finish`
  has at most one window to pad.

Each lemma takes one action. The step of a failing call is the delicate one: the
windows lost with it are not a prefix of the queue but all of it, and the last
of them was due (`LostWasDue`, `CutIsComplete`), which is what `Skip` and
`EncodeThenSkip` of `AudioWindows` ask.

On top of it are five more invariants of the runs:

* `FinishCoversEverything`: after `finish` less than one hop is unread, unless a
  call failed;
* `ClockFollowsCaches` (`ClockInv`): a decode error leaves the frame clock and
  all caches together, and the clock lags the audio by the lost windows;
* `TokensAreInOrder` (`TokensInv`): the tokens come in frame order, at most
  `MaxSymbolsPerStep` for a frame, and the prediction network was fed exactly
  them, whatever scores the joint network gives;
* `ChunksSubsampleButForTheSeam` (`CachesAt`): every frame has seen the mel frames that
  the convolution of the whole utterance gives it, except the two at the first
  seam, and the theorem says what those lack. Each stage has a profile
  (`After1`..`After3`: which mel frames an output frame has heard), `StageFollows` says
  that one call continues it, `SeamOfProfile` compares the last profile with the
  convolution, and `OfflineSees` says what the convolution is;
* `ChunksLookAsOnePass` (`LayerInv`, `LookInv`): in every layer and head, a frame of a
  chunk attends to the frames of the offline chunked mask at their true
  distances, its convolution sees the frames just before it, and its row carries
  the prompt. `LayerAt` says what a layer's caches hold at a frame count, `LayerFollows`
  that one call keeps it (through the flat arrays: `Place`, `TokenMajorAt`,
  `HeadMajorAt`, `KvUpdateKeys`, `ScoresAt`), and `MaskIsReach` that the window the
  cache leaves and the offline mask are the same frames. That last step needs
  `WholeChunks`: the left context is a whole number of chunks, as the checkpoint's
  56 frames are for all its lookaheads (`encoder.rs`, `tests/encoder_streaming.rs`);
  with a ragged left context the two masks differ.

Induction over data is only possible here with one fixed set at a time, since
the library's induction theorems take an operator. Where a function is recursive
(emission, text rendering) the proofs take the least number that fails instead
(`LeastNumber`, from the well-foundedness of the naturals) and reach a
contradiction at it.

`EngineSession_proofs` proves the type invariant and `AnswersStand`, a step
property that the run checks as part of `RecordingsAreAnswered`, for any tabs,
recordings, chunks and worlds. That a late event cannot
settle a recording again rests on `StopsInv`: a recording that is stopping has
exactly one stop message, either on its WebSocket or as the promise that waits,
and every other recording has none. `PagesInv` feeds it: a page at work has a
recording of its own that nobody has answered, so the stop it sends is the first.
The delicate step is a stop that finds another one waiting: it is answered with
an error, and must not be the one that waits. `EngineAssumption` bounds the
worlds; nothing is assumed of the user or the engine.

For a careful user, one who waits for each answer, it proves
`FinalsAreOfOneRecording` and `StartsTakeTurns`, whatever fails. What the answer to a
stop says is then of no use: an error of a chunk may answer it while its final is
still to come, and the next recording begins on top of both. The argument is one
of order, `CarefulInv`:

* `OneAtATime`: at most one recording has no answer, and it is on one page;
* `SocketOrder`: late chunks apart, a socket holds the end of what its page's
  recording has to say, its start first and its stop last;
* `LineInv`: read the host's session, then stdin, then what may still come from the
  pages as one line. Between two recordings on it, and before every start that has
  something in front of it, there is a stop (`StopsApart`).

The host gives up its session on every stop, whether finish fails or not, so by
the time it takes a start it has none, and what it adds to a session is of the
recording that the session is of.

The others are about orderly recordings, where only finish and the host fail. There
`TurnInv` follows the commands of the one active recording along the pipeline:
`QuietInv` (between two recordings nothing is under way), `SocketInv` (what the socket
still holds is the end of the recording's script), `HostInv` (stdin holds the part
before it, and the host has taken the rest), `AnswerInv` (events name no other
recording, at most one answer is on its way) and `HeardInv` (what the host has heard
is what the script says up to there). `FinalsFindTheirStop` follows from it.

`SessionsAnswer` proves the refinement of `RecordingAnswers` for every world, careful or
not, with late chunks or without. It needs one more invariant, `SpokenInv`: messages,
commands, the host's session and events hold nothing but audio that some page has
sent, a late chunk only of a recording that was stopped (`SpokenGrows`: and what
is sent stays sent), and nothing is heard of a recording without a final. Each
action is then one step of the abstract module or a stutter: the clicks begin,
speak and end a recording, a page's answer refuses or transcribes it. For orderly
recordings `TurnInv` makes the final the whole recording and lets none begin while
another is at work.

`CatcherLifecycle_proofs` proves `LoadedModelIsWhole` and
`WarningTellsDegraded`. For the first, `StagingInv` says what a staging directory
holds at each step, `OutputInv` that the output appears with weights and manifest
together, and `ReadingInv` that what `catcher_create` has read so far is still in
the output; the rename, which refuses an output that has files, keeps the last
one. The second needs only that a diarizer is lost and announced in one step
(`OnlyADiarizerFails`, `DiarizedWarns`).

`Fusion_proofs` proves what `Fusion` computes, for every sequence of tokens in the
order of their frames and every sequence of probabilities (`Fused`). TLAPS cannot
instantiate the library's induction theorems, so each recursion is proved with
`UpTo`, which takes a set instead of a predicate. The argument has five parts:

* `SelectedPart`, `DecidedIs`, `BeforeIs`: tokens are in the order of their
  frames, so the decided ones and those before a cutoff are the first ones;
* `LabeledIs`, `AttributedForGood`: a decided token has its whole smoothing
  window, which no later frame changes, hence `LabelsStay`;
* `GroupFacts`, `Rounds`, `Smaller`, `RoundsEnd`: groups cut the tokens in runs
  of one speaker, every round of anti-flicker that changes something has fewer
  of them, and so the bounded number of rounds ends at the fixpoint of the loop;
* `AllIsCut`, `CutInTime`, `ShiftSpells`, `ShiftInTime`: segments and tail cut all the
  tokens between places that grow; a turn starts at a later frame than the one
  before it ends, because a frame has one speaker; the punctuation that changes
  sides leaves the text as a whole, the order in time and the final marks;
* `LongRunStays`, `LongRunKept`: tokens of a run that is not short lie in one group
  in every round, which is not short either and is never absorbed.

`CatcherLifecycle_proofs` then proves of every handle, from the invariant
`HandleInv`, all that the run `lifecycle` checks: `CallInv` (types of the scalars),
`ClockInv` (an open transcriber has cut exactly the whole windows of its audio, and
its clock is at the start of some window), `FusionInv` (the tokens of handle and
fusion are the same, in order and behind the clock, the diarizer's frames are of
audio it has heard, and only a finish flushes) and `StringsInv` (text and segments
were rebuilt together). `ClockInv` is why tokens stay in order: a failing window may
leave the clock behind, never ahead of the next one. `HandleSteps` shows that a step
begins an utterance, goes on with it, or leaves tokens and strings alone;
`LongTurnsStayPut` and `NoUpdateIsNoNews` follow from that. About the constants
`HandleAssumption` says that every pattern has the length of its window or chunk.

The proof corrected one property. `NoUpdateMeansUnchanged` used to hold for any
strings that agree with the tokens; if a window decodes a word and, in a later
frame, an id that the tokenizer does not know, that push fails with an empty
text, and without a diarizer a `finish_before` that cuts the id away answers
NO_UPDATE with a text the caller has not seen. It is now stated of a call that
follows one that decoded; the run has no pattern that reaches the exception.

Only model-checked: liveness (`EveryClickEnds`, `StopBeforeLossSettles`,
`CallsReturn`), which rests on fairness and is out of TLAPS's reach. Every
invariant and every step property that a passing run checks is a theorem.

## 5. Not modelled

* Arithmetic on tensor values, scores, quantization, the loading of weights and
  the parsing of configurations (`manifest.rs`, `weights.rs`, `config.rs`, most
  of `artifact.rs`): the properties ask where a value comes from, not what it is.
* The diarizer's scores and its running mean of silence: compression is any
  choice the scoring could make, so the order between two copies of a frame in
  the cache is not asserted.
* `segments.rs`: post-processing of the offline command.
* The Swift installers and the migrator, and the recipe's downloader. Their
  crash windows are listed as a hazard; the Rust converter, which stages and
  renames in the same way, stands for the pattern only.
* The page's downsampler, and the awaits inside the page's start.
* Tippi for Windows and its services, a second implementation of the app.
* JSON and C strings, AVFoundation, CoreGraphics and AppKit beyond what the
  controller sees of them, the command-line tools (the converter is one call of
  `ModelConversion`), the machine probe, layout, display strings and download
  progress. The accessibility permission is left out of the guard of Start (it
  only forbids starts).
* The composition of the transcriber, the diarizer and the handle at their own
  grain: `CatcherHandle` uses what the runs of the first two show (windows and
  chunks come in order, each once, or are lost with a failing call).

## 6. Plan

1. `ModelInstall`: `ModelStore`, `KeywordModelInstaller` and
   `ModelDirectoryMigrator` over one file system with crashes and two
   concurrent callers; "complete under its final name or absent".
2. The counterpart of `RecordingAnswers` for `TranscriptionController`, whose recordings
   end with a transcript on the screen instead of an event.
3. The awaits of the page's start in `EngineSession`, where a closing WebSocket
   takes the session away from a start that is suspended.
4. The Windows window and its engines; the C# host's back-end fallback.
