----------------------- MODULE TranscriptionController -----------------------
(***************************************************************************)
(* The session life cycle of the macOS app: TranscriptionController, a     *)
(* MainActor class whose handlers give the actor up at every await.        *)
(*                                                                         *)
(* A step is what one handler does between two awaits.  The operations of  *)
(* the ASR actor and of the keyword spotter take effect when they are      *)
(* called (one caller, a serial actor, a FIFO mailbox) and answer later:   *)
(* a pc such as "push" means "the answer is on its way", and ok[t] or      *)
(* okS[s] is that answer.  AudioRecorder runs outside every actor, so its  *)
(* effect is a step of its own between the call and the resumption.        *)
(*                                                                         *)
(* A task is one click on Start or Stop.  A task that starts a recording   *)
(* also names the session: its AsyncStream, audio task and tap.            *)
(***************************************************************************)
EXTENDS Naturals, FiniteSets

CONSTANTS
    MaxTasks,     \* bound: clicks on Start and Stop in a behaviour
    MaxPrepares,  \* bound: runs of prepare() in a behaviour
    MaxQueue,     \* bound: chunks waiting in one AsyncStream
    Modes,        \* the recording modes offered to the user
    Patient       \* timing: does the user act only when nothing local and
                  \* short, such as audio.stop(), is on its way?  See Settled.

ASSUME ControllerAssumption ==
    /\ MaxTasks \in Nat \ {0} /\ MaxPrepares \in Nat \ {0}
    /\ MaxQueue \in Nat \ {0}
    /\ Modes \subseteq {"transcription", "voiceInput"}
    /\ Patient \in BOOLEAN

Tasks    == 1..MaxTasks
Prepares == 1..MaxPrepares
None     == 0

VARIABLES
    state,          \* TippiState
    activeMode,     \* RecordingMode?
    catcher,        \* the prepare() run that built the current ASR client
    asr,            \* session state of each ASR client
    voicePrep,      \* voiceInputPreparation, which also says where
                    \* prepareVoiceInput() is suspended
    prepPc,         \* where each prepare() is suspended
    continuation,   \* session of audioContinuation
    audioTask,      \* session of audioTask
    sink,           \* session the running microphone delivers to
    tap,            \* session whose sink a callback of the tap has read
    messages,       \* session whose transcript is on screen
    pc, mode, cat, joins, ok,            \* a task: startRecording, stopRecording
    stream, queue, closed, cancelled, okS \* a session's audio task and stream

appVars  == <<state, activeMode, catcher, asr, messages>>
prepVars == <<voicePrep, prepPc>>
recVars  == <<continuation, audioTask, sink, tap>>
taskVars == <<pc, mode, cat, joins, ok>>
sessVars == <<stream, queue, closed, cancelled, okS>>
vars     == <<appVars, prepVars, recVars, taskVars, sessVars>>

Init ==
    /\ state = "modelMissing" /\ activeMode = "none" /\ catcher = None
    /\ asr = [p \in Prepares |-> "absent"]
    /\ messages = None
    /\ voicePrep = "notPrepared"
    /\ prepPc = [p \in Prepares |-> "unused"]
    /\ continuation = None /\ audioTask = None
    /\ sink = None /\ tap = None
    /\ pc = [t \in Tasks |-> "unused"]
    /\ mode = [t \in Tasks |-> "none"]
    /\ cat = [t \in Tasks |-> None]
    /\ joins = [t \in Tasks |-> None]
    /\ ok = [t \in Tasks |-> TRUE]
    /\ stream = [t \in Tasks |-> "none"]
    /\ queue = [t \in Tasks |-> 0]
    /\ closed = [t \in Tasks |-> FALSE]
    /\ cancelled = [t \in Tasks |-> FALSE]
    /\ okS = [t \in Tasks |-> TRUE]

-----------------------------------------------------------------------------
(* The ASR client.  push and finish want a started session, start and text *)
(* do not; any of them may also fail inside the model.                     *)

\* start() on client c, answering r.
AsrStart(c, r) ==
    asr' = IF r THEN [asr EXCEPT ![c] = "started"] ELSE asr

\* finish() on client c, answering r.  A finish that fails inside the model has
\* already closed the audio scheduler: until the next start it refuses push and
\* finish as a finished session does.
AsrFinish(c, r) ==
    /\ r => asr[c] = "started"
    /\ asr' = IF asr[c] = "started" THEN [asr EXCEPT ![c] = "finished"] ELSE asr

\* push() on client c, answering r.
AsrPush(c, r) == r => asr[c] = "started"

\* The actors answer in the order of the calls: the finish (and the reset) of
\* an audio task that failed were called before those of whoever ends after it.
AnswersInOrder(t) == \A s \in Tasks : stream[s] = "failFinish" => cat[s] # cat[t]

-----------------------------------------------------------------------------
(* prepare() and prepareVoiceInput()                                       *)

\* The window's .task when the model is missing, or a Retry button.
ClickPrepare(p) ==
    /\ state \in {"modelMissing", "failed"}
    /\ prepPc[p] = "unused"
    /\ \A q \in Prepares : q < p => prepPc[q] # "unused"
    /\ prepPc' = [prepPc EXCEPT ![p] = "clicked"]
    /\ UNCHANGED <<appVars, voicePrep, recVars, taskVars, sessVars>>

\* prepare() up to the installer's await; failed passes through modelMissing.
RunPrepare(p) ==
    /\ prepPc[p] = "clicked"
    /\ prepPc' = [prepPc EXCEPT ![p] = "install"]
    /\ state' = "downloading"
    /\ UNCHANGED <<activeMode, catcher, asr, messages,
                   voicePrep, recVars, taskVars, sessVars>>

PrepareInstalled(p) ==
    /\ prepPc[p] = "install"
    /\ prepPc' = [prepPc EXCEPT ![p] = "load"]
    /\ state' = "loading"
    /\ UNCHANGED <<activeMode, catcher, asr, messages,
                   voicePrep, recVars, taskVars, sessVars>>

PrepareLoaded(p) ==
    /\ prepPc[p] = "load"
    /\ prepPc' = [prepPc EXCEPT ![p] = "done"]
    /\ catcher' = p
    /\ asr' = [asr EXCEPT ![p] = "idle"]
    /\ state' = "ready"
    /\ UNCHANGED <<activeMode, messages,
                   voicePrep, recVars, taskVars, sessVars>>

PrepareFailed(p) ==
    /\ prepPc[p] \in {"install", "load"}
    /\ prepPc' = [prepPc EXCEPT ![p] = "done"]
    /\ state' = "failed"
    /\ UNCHANGED <<activeMode, catcher, asr, messages,
                   voicePrep, recVars, taskVars, sessVars>>

PrepareVoiceInput ==
    /\ voicePrep \in {"notPrepared", "failed"}
    /\ voicePrep' = "downloading"
    /\ UNCHANGED <<appVars, prepPc, recVars, taskVars, sessVars>>

VoiceInstalled ==
    /\ voicePrep = "downloading"
    /\ voicePrep' = "loading"
    /\ UNCHANGED <<appVars, prepPc, recVars, taskVars, sessVars>>

VoiceLoaded ==
    /\ voicePrep = "loading"
    /\ voicePrep' = "ready"
    /\ UNCHANGED <<appVars, prepPc, recVars, taskVars, sessVars>>

VoiceFailed ==
    /\ voicePrep \in {"downloading", "loading"}
    /\ voicePrep' = "failed"
    /\ UNCHANGED <<appVars, prepPc, recVars, taskVars, sessVars>>

-----------------------------------------------------------------------------
(* startRecording                                                          *)

\* keywordSpotter is set and cleared together with voiceInputPreparation.
keywordSpotter == voicePrep = "ready"

NextTask(t) ==
    /\ pc[t] = "unused"
    /\ \A u \in Tasks : u < t => pc[u] # "unused"

\* Mutant: the guard on activeMode is dropped.
ToggleStart_Reentrant(t, m) ==
    /\ NextTask(t)
    /\ state = "ready" /\ catcher # None
    /\ m = "voiceInput" => keywordSpotter
    /\ activeMode' = m
    /\ mode' = [mode EXCEPT ![t] = m]
    /\ cat' = [cat EXCEPT ![t] = catcher]
    /\ pc' = [pc EXCEPT ![t] = "catcherStart"]
    /\ \E r \in BOOLEAN : AsrStart(catcher, r) /\ ok' = [ok EXCEPT ![t] = r]
    /\ UNCHANGED <<state, catcher, messages, prepVars, recVars, joins, sessVars>>

\* toggleRecording in .ready, up to the call of catcher.start().
ToggleStart(t, m) ==
    /\ NextTask(t)
    /\ state = "ready" /\ activeMode = "none" /\ catcher # None
    /\ m = "voiceInput" => keywordSpotter
    /\ activeMode' = m
    /\ mode' = [mode EXCEPT ![t] = m]
    /\ cat' = [cat EXCEPT ![t] = catcher]
    /\ pc' = [pc EXCEPT ![t] = "catcherStart"]
    /\ \E r \in BOOLEAN : AsrStart(catcher, r) /\ ok' = [ok EXCEPT ![t] = r]
    /\ UNCHANGED <<state, catcher, messages, prepVars, recVars,
                   joins, sessVars>>

\* The stream, its audio task and the call of audio.start().
OpenStream(t) ==
    /\ messages' = IF mode[t] = "transcription" THEN None ELSE messages
    /\ continuation' = t
    /\ audioTask' = t
    /\ stream' = [stream EXCEPT ![t] = "wait"]
    /\ pc' = [pc EXCEPT ![t] = "audioStart"]
    /\ UNCHANGED <<sink, tap, ok>>

\* A throw in startRecording: cleanupAfterStartFailure up to audio.stop().
BeginCleanup(t) ==
    /\ pc' = [pc EXCEPT ![t] = "cleanupAudioStop"]
    /\ UNCHANGED <<messages, recVars, stream>>

StartedCatcher(t) ==
    /\ pc[t] = "catcherStart"
    /\ \/ ~ok[t] /\ BeginCleanup(t) /\ UNCHANGED ok
       \/ ok[t] /\ mode[t] = "transcription" /\ OpenStream(t)
       \/ /\ ok[t] /\ mode[t] = "voiceInput"
          /\ pc' = [pc EXCEPT ![t] = "kwsStart"]
          /\ \E r \in BOOLEAN : ok' = [ok EXCEPT ![t] = r]
          /\ UNCHANGED <<messages, recVars, stream>>
    /\ UNCHANGED <<state, activeMode, catcher, asr, prepVars,
                   mode, cat, joins, queue, closed, cancelled, okS>>

\* catcherStarted stays true here, which ok records for the cleanup.
StartedSpotter(t) ==
    /\ pc[t] = "kwsStart"
    /\ \/ ok[t] /\ OpenStream(t)
       \/ ~ok[t] /\ BeginCleanup(t) /\ ok' = [ok EXCEPT ![t] = TRUE]
    /\ UNCHANGED <<state, activeMode, catcher, asr, prepVars,
                   mode, cat, joins, queue, closed, cancelled, okS>>

\* AudioRecorder.start, outside the actor: the tap delivers from here on.
EngineStart(t) ==
    /\ pc[t] = "audioStart"
    /\ sink' = t
    /\ pc' = [pc EXCEPT ![t] = "audioOn"]
    /\ UNCHANGED <<appVars, prepVars, continuation, audioTask, tap,
                   mode, cat, joins, ok, sessVars>>

\* Permission denied, no input format, or the engine does not start.
EngineStartFails(t) ==
    /\ pc[t] = "audioStart"
    /\ pc' = [pc EXCEPT ![t] = "cleanupAudioStop"]
    /\ UNCHANGED <<appVars, prepVars, recVars, mode, cat, joins, ok, sessVars>>

\* startRecording resumes after audio.start(): state = .recording, whatever
\* happened to the session meanwhile.
Recording(t) ==
    /\ pc[t] = "audioOn"
    /\ state' = "recording"
    /\ pc' = [pc EXCEPT ![t] = "done"]
    /\ UNCHANGED <<activeMode, catcher, asr, messages,
                   prepVars, recVars, mode, cat, joins, ok, sessVars>>

-----------------------------------------------------------------------------
(* What the three ways out of a session share                              *)

\* audioContinuation?.finish(); audioContinuation = nil
CloseContinuation ==
    /\ closed' = IF continuation = None THEN closed
                 ELSE [closed EXCEPT ![continuation] = TRUE]
    /\ continuation' = None

\* audioTask?.cancel(); audioTask = nil
CancelAudioTask ==
    /\ cancelled' = IF audioTask = None THEN cancelled
                    ELSE [cancelled EXCEPT ![audioTask] = TRUE]
    /\ audioTask' = None

-----------------------------------------------------------------------------
(* cleanupAfterStartFailure                                                *)

CleanupAudioOff(t) ==
    /\ pc[t] = "cleanupAudioStop"
    /\ sink' = None
    /\ pc' = [pc EXCEPT ![t] = "cleanupAudioOff"]
    /\ UNCHANGED <<appVars, prepVars, continuation, audioTask, tap,
                   mode, cat, joins, ok, sessVars>>

\* The task is over: catcher.finish() if start() had succeeded, then reset.
CleanupFinish(t) ==
    /\ \/ ok[t] /\ \E r \in BOOLEAN : AsrFinish(cat[t], r)
       \/ ~ok[t] /\ UNCHANGED asr
    /\ pc' = [pc EXCEPT ![t] = "cleanupFinish"]

\* await task?.value suspends only if there is a task.
CleanupDetach(t) ==
    /\ pc[t] = "cleanupAudioOff"
    /\ CloseContinuation /\ CancelAudioTask
    /\ joins' = [joins EXCEPT ![t] = audioTask]
    /\ \/ audioTask = None /\ CleanupFinish(t)
       \/ /\ audioTask # None
          /\ pc' = [pc EXCEPT ![t] = "cleanupJoin"]
          /\ UNCHANGED asr
    /\ UNCHANGED <<state, activeMode, catcher, messages, prepVars, sink, tap,
                   mode, cat, ok, stream, queue, okS>>

CleanupJoined(t) ==
    /\ pc[t] = "cleanupJoin" /\ stream[joins[t]] = "done"
    /\ CleanupFinish(t)
    /\ UNCHANGED <<state, activeMode, catcher, messages,
                   prepVars, recVars, mode, cat, joins, ok, sessVars>>

CleanupEnds(t) ==
    /\ pc[t] = "cleanupFinish" /\ AnswersInOrder(t)
    /\ activeMode' = "none"
    /\ state' = "failed"
    /\ pc' = [pc EXCEPT ![t] = "done"]
    /\ UNCHANGED <<catcher, asr, messages,
                   prepVars, recVars, mode, cat, joins, ok, sessVars>>

-----------------------------------------------------------------------------
(* stopRecording                                                           *)

ToggleStop(t, m) ==
    /\ NextTask(t)
    /\ state = "recording" /\ activeMode = m /\ catcher # None
    /\ state' = "finishing"
    /\ mode' = [mode EXCEPT ![t] = m]
    /\ cat' = [cat EXCEPT ![t] = catcher]
    /\ pc' = [pc EXCEPT ![t] = "stopAudioStop"]
    /\ UNCHANGED <<activeMode, catcher, asr, messages,
                   prepVars, recVars, joins, ok, sessVars>>

StopAudioOff(t) ==
    /\ pc[t] = "stopAudioStop"
    /\ sink' = None
    /\ pc' = [pc EXCEPT ![t] = "stopAudioOff"]
    /\ UNCHANGED <<appVars, prepVars, continuation, audioTask, tap,
                   mode, cat, joins, ok, sessVars>>

\* if case .failed = state { return }, else catcher.finish().
StopFinish(t) ==
    \/ /\ state = "failed"
       /\ pc' = [pc EXCEPT ![t] = "done"]
       /\ UNCHANGED <<asr, ok>>
    \/ /\ state # "failed"
       /\ pc' = [pc EXCEPT ![t] = "stopFinish"]
       /\ \E r \in BOOLEAN : AsrFinish(cat[t], r) /\ ok' = [ok EXCEPT ![t] = r]

\* Mutant: the audio task is not awaited.
StopDetach_NoJoin(t) ==
    /\ pc[t] = "stopAudioOff"
    /\ CloseContinuation
    /\ audioTask' = None
    /\ joins' = [joins EXCEPT ![t] = audioTask]
    /\ StopFinish(t)
    /\ UNCHANGED <<state, activeMode, catcher, messages, prepVars, sink, tap,
                   mode, cat, stream, queue, cancelled, okS>>

\* Mutant: the stream is left open.
StopDetach_LeftOpen(t) ==
    /\ pc[t] = "stopAudioOff"
    /\ audioTask' = None
    /\ joins' = [joins EXCEPT ![t] = audioTask]
    /\ \/ audioTask = None /\ StopFinish(t)
       \/ /\ audioTask # None
          /\ pc' = [pc EXCEPT ![t] = "stopJoin"]
          /\ UNCHANGED <<asr, ok>>
    /\ UNCHANGED <<state, activeMode, catcher, messages, prepVars, sink, tap,
                   continuation, closed, mode, cat, stream, queue, cancelled, okS>>

StopDetach(t) ==
    /\ pc[t] = "stopAudioOff"
    /\ CloseContinuation
    /\ audioTask' = None
    /\ joins' = [joins EXCEPT ![t] = audioTask]
    /\ \/ audioTask = None /\ StopFinish(t)
       \/ /\ audioTask # None
          /\ pc' = [pc EXCEPT ![t] = "stopJoin"]
          /\ UNCHANGED <<asr, ok>>
    /\ UNCHANGED <<state, activeMode, catcher, messages, prepVars, sink, tap,
                   mode, cat, stream, queue, cancelled, okS>>

StopJoined(t) ==
    /\ pc[t] = "stopJoin" /\ stream[joins[t]] = "done"
    /\ StopFinish(t)
    /\ UNCHANGED <<state, activeMode, catcher, messages,
                   prepVars, recVars, mode, cat, joins, sessVars>>

\* The tail of stopRecording; in voice mode the spotter's reset may throw.
StopEnds(t) ==
    /\ pc[t] = "stopFinish" /\ AnswersInOrder(t)
    /\ \/ ok[t] /\ state' = "ready"
       \/ (~ok[t] \/ mode[t] = "voiceInput") /\ state' = "failed"
    /\ messages' = IF ok[t] /\ mode[t] = "transcription"
                   THEN joins[t] ELSE messages
    /\ activeMode' = "none"
    /\ pc' = [pc EXCEPT ![t] = "done"]
    /\ UNCHANGED <<catcher, asr,
                   prepVars, recVars, mode, cat, joins, ok, sessVars>>

-----------------------------------------------------------------------------
(* The audio task of session s: for await samples in stream                *)

\* A callback of the tap reads the sink under the lock.  One callback is at
\* work at a time.
Capture(s) ==
    /\ sink = s /\ tap = None
    /\ tap' = s
    /\ UNCHANGED <<appVars, prepVars, continuation, audioTask, sink,
                   taskVars, sessVars>>

\* It converts the buffer and yields it to the sink it has read, whether or not
\* stop() has taken the sink away meanwhile; a finished stream drops it.
Deliver(s) ==
    /\ tap = s /\ (closed[s] \/ queue[s] < MaxQueue)
    /\ tap' = None
    /\ queue' = IF closed[s] THEN queue ELSE [queue EXCEPT ![s] = @ + 1]
    /\ UNCHANGED <<appVars, prepVars, continuation, audioTask, sink, taskVars,
                   stream, closed, cancelled, okS>>

\* Calls an operation of session s whose answer r comes later.
Call(s, at, r) ==
    /\ stream' = [stream EXCEPT ![s] = at]
    /\ okS' = [okS EXCEPT ![s] = r]

\* Mutant: a chunk is taken from an empty stream.
TakeChunk_Empty(s) ==
    /\ stream[s] = "wait" /\ queue[s] >= 0 /\ ~cancelled[s]
    /\ queue' = [queue EXCEPT ![s] = @ - 1]
    /\ \E r \in BOOLEAN : AsrPush(cat[s], r) /\ Call(s, "push", r)
    /\ UNCHANGED <<appVars, prepVars, recVars, taskVars, closed, cancelled>>

TakeChunk(s) ==
    /\ stream[s] = "wait" /\ queue[s] > 0 /\ ~cancelled[s]
    /\ queue' = [queue EXCEPT ![s] = @ - 1]
    /\ \E r \in BOOLEAN : AsrPush(cat[s], r) /\ Call(s, "push", r)
    /\ UNCHANGED <<appVars, prepVars, recVars, taskVars, closed, cancelled>>

StreamEnds(s) ==
    /\ stream[s] = "wait" /\ (cancelled[s] \/ (closed[s] /\ queue[s] = 0))
    /\ stream' = [stream EXCEPT ![s] = "done"]
    /\ UNCHANGED <<appVars, prepVars, recVars, taskVars,
                   queue, closed, cancelled, okS>>

\* catcher.push answered: show the update, or go on to the spotter.
Pushed(s) ==
    /\ stream[s] = "push" /\ okS[s]
    /\ \/ /\ mode[s] = "transcription"
          /\ messages' \in {messages, s}
          /\ stream' = [stream EXCEPT ![s] = "wait"]
          /\ UNCHANGED okS
       \/ /\ mode[s] = "voiceInput"
          /\ \E r \in BOOLEAN : Call(s, "kwsPush", r)
          /\ UNCHANGED messages
    /\ UNCHANGED <<state, activeMode, catcher, asr, prepVars,
                   recVars, taskVars, queue, closed, cancelled>>

\* catcher.start() and then keywordSpotter.reset(): the tail of a turn.
RestartTurn(s) ==
    \E r1, r2 \in BOOLEAN : AsrStart(cat[s], r1) /\ Call(s, "restart", r1 /\ r2)

\* No command: text(before:).  A command: finish(before:), or, when it repeats
\* the previous one at once, straight to the restart.
KwsPushed(s) ==
    /\ stream[s] = "kwsPush" /\ okS[s]
    /\ \/ /\ \E r \in BOOLEAN : Call(s, "text", r)
          /\ UNCHANGED asr
       \/ \E r \in BOOLEAN : AsrFinish(cat[s], r) /\ Call(s, "cut", r)
       \/ RestartTurn(s)
    /\ UNCHANGED <<state, activeMode, catcher, messages, prepVars,
                   recVars, taskVars, queue, closed, cancelled>>

\* Mutant: only the spotter is reset after a command.
TurnCut_NoStart(s) ==
    /\ stream[s] = "cut" /\ okS[s]
    /\ \E r \in BOOLEAN : Call(s, "restart", r)
    /\ UNCHANGED <<appVars, prepVars, recVars, taskVars, queue, closed, cancelled>>

\* The final text is submitted, then the next turn begins.
TurnCut(s) ==
    /\ stream[s] = "cut" /\ okS[s]
    /\ RestartTurn(s)
    /\ UNCHANGED <<state, activeMode, catcher, messages, prepVars,
                   recVars, taskVars, queue, closed, cancelled>>

\* The stable text is injected, or the turn has been restarted.
ChunkDone(s) ==
    /\ stream[s] \in {"text", "restart"} /\ okS[s]
    /\ stream' = [stream EXCEPT ![s] = "wait"]
    /\ UNCHANGED <<appVars, prepVars, recVars, taskVars,
                   queue, closed, cancelled, okS>>

\* An operation, or the injection after it, throws: handleStreamFailure up to
\* audio.stop().
FailStream(s) ==
    /\ \/ stream[s] \in {"push", "kwsPush", "restart"} /\ ~okS[s]
       \/ stream[s] \in {"text", "cut"}
    /\ state' = "finishing"
    /\ stream' = [stream EXCEPT ![s] = "failAudioStop"]
    /\ UNCHANGED <<activeMode, catcher, asr, messages, prepVars,
                   recVars, taskVars, queue, closed, cancelled, okS>>

\* Mutant: the microphone is left on.
FailAudioOff_MicOn(s) ==
    /\ stream[s] = "failAudioStop"
    /\ stream' = [stream EXCEPT ![s] = "failAudioOff"]
    /\ UNCHANGED <<appVars, prepVars, recVars, taskVars,
                   queue, closed, cancelled, okS>>

FailAudioOff(s) ==
    /\ stream[s] = "failAudioStop"
    /\ sink' = None
    /\ stream' = [stream EXCEPT ![s] = "failAudioOff"]
    /\ UNCHANGED <<appVars, prepVars, continuation, audioTask, tap, taskVars,
                   queue, closed, cancelled, okS>>

FailDetach(s) ==
    /\ stream[s] = "failAudioOff"
    /\ CloseContinuation /\ CancelAudioTask
    /\ \E r \in BOOLEAN : AsrFinish(cat[s], r)
    /\ stream' = [stream EXCEPT ![s] = "failFinish"]
    /\ UNCHANGED <<state, activeMode, catcher, messages, prepVars,
                   sink, tap, taskVars, queue, okS>>

FailEnds(s) ==
    /\ stream[s] = "failFinish"
    /\ activeMode' = "none"
    /\ state' = "failed"
    /\ stream' = [stream EXCEPT ![s] = "done"]
    /\ UNCHANGED <<catcher, asr, messages, prepVars,
                   recVars, taskVars, queue, closed, cancelled, okS>>

-----------------------------------------------------------------------------

ClearTranscript ==
    /\ state = "ready"
    /\ messages' = None
    /\ UNCHANGED <<state, activeMode, catcher, asr,
                   prepVars, recVars, taskVars, sessVars>>

\* What the program does by itself once called.
PrepareStep(p) == RunPrepare(p) \/ PrepareInstalled(p) \/ PrepareLoaded(p) \/ PrepareFailed(p)

VoiceStep == VoiceInstalled \/ VoiceLoaded \/ VoiceFailed

TaskStep(t) ==
    \/ StartedCatcher(t) \/ StartedSpotter(t) \/ EngineStart(t)
    \/ EngineStartFails(t) \/ Recording(t)
    \/ CleanupAudioOff(t) \/ CleanupDetach(t) \/ CleanupJoined(t) \/ CleanupEnds(t)
    \/ StopAudioOff(t) \/ StopDetach(t) \/ StopJoined(t) \/ StopEnds(t)

StreamStep(s) ==
    \/ TakeChunk(s) \/ StreamEnds(s) \/ Pushed(s) \/ KwsPushed(s) \/ TurnCut(s)
    \/ ChunkDone(s) \/ FailStream(s) \/ FailAudioOff(s) \/ FailDetach(s) \/ FailEnds(s)

\* No click waits for its handler to run, and nothing that takes no time waits
\* for its caller to resume: the audio recorder, the end of an audio task, the
\* refusal of a second finish.
Settled ==
    /\ \A p \in Prepares : prepPc[p] # "clicked"
    /\ \A t \in Tasks :
          /\ pc[t] \notin {"audioOn", "cleanupAudioStop", "cleanupAudioOff",
                           "stopAudioStop", "stopAudioOff"}
          /\ stream[t] \notin {"failAudioStop", "failAudioOff"}
          /\ pc[t] = "stopFinish" => ok[t]
          /\ pc[t] \in {"cleanupJoin", "stopJoin"} => stream[joins[t]] # "done"

\* What the user does.
UserStep ==
  /\ Patient => Settled
  /\ \/ \E p \in Prepares : ClickPrepare(p)
     \/ \E t \in Tasks, m \in Modes : ToggleStart(t, m) \/ ToggleStop(t, m)
     \/ PrepareVoiceInput
     \/ ClearTranscript

Next ==
    \/ UserStep
    \/ \E p \in Prepares : PrepareStep(p)
    \/ VoiceStep
    \/ \E t \in Tasks : TaskStep(t) \/ StreamStep(t) \/ Capture(t) \/ Deliver(t)

\* Every awaited call answers and the main actor runs what is ready; the user
\* and the microphone owe nothing.
Fairness ==
    /\ \A p \in Prepares : WF_vars(PrepareStep(p))
    /\ WF_vars(VoiceStep)
    /\ \A t \in Tasks : WF_vars(TaskStep(t)) /\ WF_vars(StreamStep(t))

Spec == Init /\ [][Next]_vars

FairSpec == Spec /\ Fairness

-----------------------------------------------------------------------------
(* Properties                                                              *)

TaskPcs == {"unused", "catcherStart", "kwsStart", "audioStart", "audioOn",
            "cleanupAudioStop", "cleanupAudioOff", "cleanupJoin", "cleanupFinish",
            "stopAudioStop", "stopAudioOff", "stopJoin", "stopFinish", "done"}

StreamPcs == {"none", "wait", "push", "kwsPush", "text", "cut", "restart",
              "failAudioStop", "failAudioOff", "failFinish", "done"}

\* Every variable has its type; in particular a stream never holds less than
\* nothing, nor more than the bound.
TypeOK ==
    /\ state \in {"modelMissing", "downloading", "loading", "ready",
                  "recording", "finishing", "failed"}
    /\ activeMode \in Modes \cup {"none"}
    /\ catcher \in Prepares \cup {None}
    /\ asr \in [Prepares -> {"absent", "idle", "started", "finished"}]
    /\ messages \in Tasks \cup {None}
    /\ voicePrep \in {"notPrepared", "downloading", "loading", "ready", "failed"}
    /\ prepPc \in [Prepares -> {"unused", "clicked", "install", "load", "done"}]
    /\ continuation \in Tasks \cup {None}
    /\ audioTask \in Tasks \cup {None}
    /\ sink \in Tasks \cup {None}
    /\ tap \in Tasks \cup {None}
    /\ pc \in [Tasks -> TaskPcs]
    /\ mode \in [Tasks -> Modes \cup {"none"}]
    /\ cat \in [Tasks -> Prepares \cup {None}]
    /\ joins \in [Tasks -> Tasks \cup {None}]
    /\ ok \in [Tasks -> BOOLEAN]
    /\ stream \in [Tasks -> StreamPcs]
    /\ queue \in [Tasks -> 0..MaxQueue]
    /\ closed \in [Tasks -> BOOLEAN]
    /\ cancelled \in [Tasks -> BOOLEAN]
    /\ okS \in [Tasks -> BOOLEAN]

\* Is the audio task of s between two chunks, or inside one?
Live(s) == stream[s] \in {"wait", "push", "kwsPush", "text", "cut", "restart"}

\* The microphone is on only for the mode the controller says is active: no
\* order of a failure, a stop and a retry leaves it recording behind an idle or
\* failed window (audio.stop() on every way out of a session).
MicrophoneFollowsMode == sink # None => activeMode = mode[sink]

\* The two modes share one microphone and cannot record at the same time: two
\* sessions never both have an audio task that still takes chunks.
OneLiveSession == \A s, u \in Tasks : Live(s) /\ Live(u) => s = u

\* An audio task that can take a chunk finds its ASR session started, also
\* between the turns of voice input, when another task is stopping, and after a
\* retry has built a new client.
PushIsNeverRefused == \A s \in Tasks : stream[s] = "wait" => asr[cat[s]] = "started"

\* A stop that succeeds has handed every chunk that reached its stream to the
\* ASR before its finish, those included that the tap yields while the stop
\* awaits the recorder: stopRecording awaits the audio task, which drains the
\* stream.  (A chunk that is still being converted when the stream is closed
\* never reaches it.)
StopKeepsAllAudio ==
    [][\A t \in Tasks : pc[t] = "stopFinish" /\ ok[t] /\ pc'[t] = "done" =>
            joins[t] # None /\ queue[joins[t]] = 0 /\ stream[joins[t]] = "done"]_vars

\* The screen never goes back to an older session: once a recording has wiped it
\* for itself, no audio task of a session before and no stop writes there what
\* they have left to say (the update of a push answers after its await).
TranscriptIsOfTheNewest ==
    \A t \in Tasks : stream[t] # "none" /\ mode[t] = "transcription" =>
        messages = None \/ messages >= t

\* Whatever Start or Stop set in motion ends: no stop waits for an audio task
\* that waits for the stop, whoever fails meanwhile.
EveryClickEnds ==
    \A t \in Tasks : pc[t] \notin {"unused", "done"} ~> pc[t] = "done"

\* TippiStateMachine's table: the only way into .recording is from .ready.
RecordingOnlyFromReady ==
    [][state' = "recording" => state \in {"ready", "recording"}]_state
=============================================================================
