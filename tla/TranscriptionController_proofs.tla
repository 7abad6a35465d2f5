------------------- MODULE TranscriptionController_proofs -------------------
(***************************************************************************)
(* TranscriptionController for any number of clicks, preparations and      *)
(* waiting chunks.  Type correctness holds for impatient users too; that   *)
(* the microphone, the clients and the transcripts have one owner at a     *)
(* time is proved for a user who lets a click take effect before the next  *)
(* (Patient), from an inductive invariant over what every handler at an    *)
(* await takes for granted (Session).                                      *)
(***************************************************************************)
EXTENDS TranscriptionController, TLAPS

\* prepare() and prepareVoiceInput(): the handlers and the clicks that call them.
LEMMA PrepareKeepsType ==
    ASSUME TypeOK, NEW p \in Prepares,
           (\/ ClickPrepare(p)
            \/ RunPrepare(p)
            \/ PrepareInstalled(p)
            \/ PrepareLoaded(p)
            \/ PrepareFailed(p))
    PROVE  TypeOK'
<1> USE ControllerAssumption DEF TypeOK, TaskPcs, StreamPcs, Tasks, Prepares, None,
                             appVars, prepVars, recVars, taskVars, sessVars
<1>1. CASE ClickPrepare(p)
  BY <1>1 DEF ClickPrepare
<1>2. CASE RunPrepare(p)
  BY <1>2 DEF RunPrepare
<1>3. CASE PrepareInstalled(p)
  BY <1>3 DEF PrepareInstalled
<1>4. CASE PrepareLoaded(p)
  BY <1>4 DEF PrepareLoaded
<1>5. CASE PrepareFailed(p)
  BY <1>5 DEF PrepareFailed
<1> QED
  BY <1>1, <1>2, <1>3, <1>4, <1>5

\* The keyword spotter's preparation, and Clear.
LEMMA VoiceKeepsType ==
    ASSUME TypeOK,
           (\/ PrepareVoiceInput
            \/ VoiceInstalled
            \/ VoiceLoaded
            \/ VoiceFailed
            \/ ClearTranscript)
    PROVE  TypeOK'
<1> USE ControllerAssumption DEF TypeOK, TaskPcs, StreamPcs, Tasks, Prepares, None,
                             appVars, prepVars, recVars, taskVars, sessVars
<1>1. CASE PrepareVoiceInput
  BY <1>1 DEF PrepareVoiceInput
<1>2. CASE VoiceInstalled
  BY <1>2 DEF VoiceInstalled
<1>3. CASE VoiceLoaded
  BY <1>3 DEF VoiceLoaded
<1>4. CASE VoiceFailed
  BY <1>4 DEF VoiceFailed
<1>5. CASE ClearTranscript
  BY <1>5 DEF ClearTranscript
<1> QED
  BY <1>1, <1>2, <1>3, <1>4, <1>5

\* A click on Start or Stop.
LEMMA ClickKeepsType ==
    ASSUME TypeOK, NEW t \in Tasks, NEW m \in Modes,
           (\/ ToggleStart(t, m)
            \/ ToggleStop(t, m))
    PROVE  TypeOK'
<1> USE ControllerAssumption DEF TypeOK, TaskPcs, StreamPcs, Tasks, Prepares, None,
                             appVars, prepVars, recVars, taskVars, sessVars
<1>1. CASE ToggleStart(t, m)
  BY <1>1 DEF ToggleStart, AsrStart
<1>2. CASE ToggleStop(t, m)
  BY <1>2 DEF ToggleStop
<1> QED
  BY <1>1, <1>2

-----------------------------------------------------------------------------
(* The pieces that several handlers share                                  *)

AsrType    == asr \in [Prepares -> {"absent", "idle", "started", "finished"}]
ClosedType == closed \in [Tasks -> BOOLEAN] /\ continuation \in Tasks \cup {None}
CancelType == cancelled \in [Tasks -> BOOLEAN] /\ audioTask \in Tasks \cup {None}
CallType   == stream \in [Tasks -> StreamPcs] /\ okS \in [Tasks -> BOOLEAN]
PcType     == pc \in [Tasks -> TaskPcs]
OkType     == ok \in [Tasks -> BOOLEAN]

\* start and finish leave every client in one of its session states.
LEMMA AsrKeeps ==
    ASSUME AsrType, NEW c, NEW r \in BOOLEAN, AsrStart(c, r) \/ AsrFinish(c, r)
    PROVE  AsrType'
BY DEF AsrType, AsrStart, AsrFinish

\* Closing the stream and cancelling the task touch only a session that is there.
LEMMA CloseKeeps ==
    ASSUME ClosedType, CloseContinuation
    PROVE  ClosedType'
BY DEF ClosedType, CloseContinuation

\* Cancelling marks only a session that is there.
LEMMA CancelKeeps ==
    ASSUME CancelType, CancelAudioTask
    PROVE  CancelType'
BY DEF CancelType, CancelAudioTask

\* A call leaves the audio task at one of its awaits, with an answer to come.
LEMMA CallKeeps ==
    ASSUME CallType, NEW s \in Tasks, NEW at \in StreamPcs, NEW r \in BOOLEAN,
           Call(s, at, r)
    PROVE  CallType'
<1>1. stream' \in [Tasks -> StreamPcs]
  BY DEF CallType, Call
<1>2. okS' \in [Tasks -> BOOLEAN]
  BY DEF CallType, Call
<1> QED
  BY <1>1, <1>2 DEF CallType

\* An answer to come is a Boolean.
LEMMA OkKeeps ==
    ASSUME OkType, NEW t \in Tasks, NEW r \in BOOLEAN, ok' = [ok EXCEPT ![t] = r]
    PROVE  OkType'
BY DEF OkType

\* The tail of a turn restarts the client and leaves the task in its restart.
LEMMA RestartKeeps ==
    ASSUME AsrType, CallType, NEW s \in Tasks, RestartTurn(s)
    PROVE  AsrType' /\ CallType'
<1>1. PICK r1 \in BOOLEAN, r2 \in BOOLEAN :
         AsrStart(cat[s], r1) /\ Call(s, "restart", r1 /\ r2)
  BY DEF RestartTurn
<1>2. (r1 /\ r2) \in BOOLEAN /\ "restart" \in StreamPcs
  BY DEF StreamPcs
<1> QED
  BY <1>1, <1>2, AsrKeeps, CallKeeps

\* After the audio task is gone, stop either returns or waits for finish.
LEMMA StopFinishKeeps ==
    ASSUME AsrType, PcType, OkType, NEW t \in Tasks, StopFinish(t)
    PROVE  AsrType' /\ PcType' /\ OkType'
<1>1. CASE state = "failed" /\ pc' = [pc EXCEPT ![t] = "done"] /\ UNCHANGED <<asr, ok>>
  BY <1>1 DEF AsrType, PcType, OkType, TaskPcs
<1>2. CASE /\ pc' = [pc EXCEPT ![t] = "stopFinish"]
           /\ \E r \in BOOLEAN : AsrFinish(cat[t], r) /\ ok' = [ok EXCEPT ![t] = r]
  <2>1. AsrType' /\ OkType'
    BY <1>2, AsrKeeps, OkKeeps
  <2>2. PcType'
    BY <1>2 DEF PcType, TaskPcs
  <2> QED
    BY <2>1, <2>2
<1> QED
  BY <1>1, <1>2 DEF StopFinish

\* The end of a cleanup, with or without the finish of a started client.
LEMMA CleanupFinishKeeps ==
    ASSUME AsrType, PcType, NEW t \in Tasks, CleanupFinish(t)
    PROVE  AsrType' /\ PcType'
<1>1. PcType'
  BY DEF CleanupFinish, PcType, TaskPcs
<1>2. AsrType'
  <2>1. CASE \E r \in BOOLEAN : AsrFinish(cat[t], r)
    BY <2>1, AsrKeeps
  <2>2. CASE UNCHANGED asr
    BY <2>2 DEF AsrType
  <2> QED
    BY <2>1, <2>2 DEF CleanupFinish
<1> QED
  BY <1>1, <1>2

\* The parts of the type invariant the pieces are stated on.
LEMMA Parts ==
    ASSUME TypeOK
    PROVE  AsrType /\ ClosedType /\ CancelType /\ CallType /\ PcType /\ OkType
BY DEF TypeOK, AsrType, ClosedType, CancelType, CallType, PcType, OkType

-----------------------------------------------------------------------------
(* The handlers                                                            *)

\* startRecording and its cleanup.
LEMMA StartKeepsType ==
    ASSUME TypeOK, NEW t \in Tasks,
           (\/ StartedCatcher(t)
            \/ StartedSpotter(t)
            \/ EngineStart(t)
            \/ EngineStartFails(t)
            \/ Recording(t)
            \/ CleanupAudioOff(t)
            \/ CleanupDetach(t)
            \/ CleanupJoined(t)
            \/ CleanupEnds(t))
    PROVE  TypeOK'
<1> USE ControllerAssumption DEF TypeOK, TaskPcs, StreamPcs, Tasks, Prepares, None,
                             appVars, prepVars, recVars, taskVars, sessVars
<1>1. CASE StartedCatcher(t)
  <2> USE <1>1 DEF StartedCatcher
  <2>1. CASE ~ok[t] /\ BeginCleanup(t) /\ UNCHANGED ok
    BY <2>1 DEF BeginCleanup
  <2>2. CASE ok[t] /\ mode[t] = "transcription" /\ OpenStream(t)
    BY <2>2 DEF OpenStream
  <2>3. CASE /\ pc' = [pc EXCEPT ![t] = "kwsStart"]
             /\ \E r \in BOOLEAN : ok' = [ok EXCEPT ![t] = r]
             /\ UNCHANGED <<messages, recVars, stream>>
    <3>1. OkType'
      BY <2>3, Parts, OkKeeps
    <3> QED
      BY <2>3, <3>1 DEF OkType
  <2> QED
    BY <2>1, <2>2, <2>3
<1>2. CASE StartedSpotter(t)
  <2> USE <1>2 DEF StartedSpotter
  <2>1. CASE ok[t] /\ OpenStream(t)
    BY <2>1 DEF OpenStream
  <2>2. CASE ~ok[t] /\ BeginCleanup(t) /\ ok' = [ok EXCEPT ![t] = TRUE]
    <3>1. OkType'
      BY <2>2, Parts, OkKeeps
    <3> QED
      BY <2>2, <3>1 DEF BeginCleanup, OkType
  <2> QED
    BY <2>1, <2>2
<1>3. CASE EngineStart(t)
  BY <1>3 DEF EngineStart
<1>4. CASE EngineStartFails(t)
  BY <1>4 DEF EngineStartFails
<1>5. CASE Recording(t)
  BY <1>5 DEF Recording
<1>6. CASE CleanupAudioOff(t)
  BY <1>6 DEF CleanupAudioOff
<1>7. CASE CleanupDetach(t)
  <2> USE <1>7 DEF CleanupDetach
  <2>1. ClosedType' /\ CancelType'
    BY Parts, CloseKeeps, CancelKeeps
  <2>2. AsrType' /\ PcType'
    <3>1. CASE CleanupFinish(t)
      BY <3>1, Parts, CleanupFinishKeeps
    <3>2. CASE pc' = [pc EXCEPT ![t] = "cleanupJoin"] /\ UNCHANGED asr
      BY <3>2 DEF AsrType, PcType
    <3> QED
      BY <3>1, <3>2
  <2>3. joins' \in [Tasks -> Tasks \cup {None}]
    OBVIOUS
  <2> QED
    BY <2>1, <2>2, <2>3, SMTT(30) DEF ClosedType, CancelType, AsrType, PcType
<1>8. CASE CleanupJoined(t)
  BY <1>8, SMTT(30) DEF CleanupJoined, CleanupFinish, AsrFinish
<1>9. CASE CleanupEnds(t)
  BY <1>9 DEF CleanupEnds
<1> QED
  BY <1>1, <1>2, <1>3, <1>4, <1>5, <1>6, <1>7, <1>8, <1>9

\* stopRecording.
LEMMA StopKeepsType ==
    ASSUME TypeOK, NEW t \in Tasks,
           (\/ StopAudioOff(t)
            \/ StopDetach(t)
            \/ StopJoined(t)
            \/ StopEnds(t))
    PROVE  TypeOK'
<1> USE ControllerAssumption DEF TypeOK, TaskPcs, StreamPcs, Tasks, Prepares, None,
                             appVars, prepVars, recVars, taskVars, sessVars
<1>1. CASE StopAudioOff(t)
  BY <1>1 DEF StopAudioOff
<1>2. CASE StopDetach(t)
  <2> USE <1>2 DEF StopDetach
  <2>1. ClosedType'
    BY Parts, CloseKeeps
  <2>2. AsrType' /\ PcType' /\ OkType'
    <3>1. CASE StopFinish(t)
      BY <3>1, Parts, StopFinishKeeps
    <3>2. CASE pc' = [pc EXCEPT ![t] = "stopJoin"] /\ UNCHANGED <<asr, ok>>
      BY <3>2 DEF AsrType, PcType, OkType
    <3> QED
      BY <3>1, <3>2
  <2>3. joins' \in [Tasks -> Tasks \cup {None}]
    OBVIOUS
  <2> QED
    BY <2>1, <2>2, <2>3, SMTT(30) DEF ClosedType, AsrType, PcType, OkType
<1>3. CASE StopJoined(t)
  <2>1. AsrType' /\ PcType' /\ OkType'
    BY <1>3, Parts, StopFinishKeeps DEF StopJoined
  <2> QED
    BY <1>3, <2>1 DEF StopJoined, AsrType, PcType, OkType
<1>4. CASE StopEnds(t)
  BY <1>4 DEF StopEnds
<1> QED
  BY <1>1, <1>2, <1>3, <1>4

\* The audio task, and the microphone that feeds it.
LEMMA StreamKeepsType ==
    ASSUME TypeOK, NEW s \in Tasks,
           (\/ Capture(s)
            \/ Deliver(s)
            \/ TakeChunk(s)
            \/ StreamEnds(s)
            \/ Pushed(s)
            \/ KwsPushed(s)
            \/ TurnCut(s)
            \/ ChunkDone(s)
            \/ FailStream(s)
            \/ FailAudioOff(s)
            \/ FailDetach(s)
            \/ FailEnds(s))
    PROVE  TypeOK'
<1> USE ControllerAssumption DEF TypeOK, TaskPcs, StreamPcs, Tasks, Prepares, None,
                             appVars, prepVars, recVars, taskVars, sessVars
<1>1. CASE Capture(s) \/ Deliver(s)
  <2>1. CASE Capture(s) BY <2>1 DEF Capture
  <2>2. CASE Deliver(s) BY <2>2, SMTT(30) DEF Deliver
  <2> QED BY <1>1, <2>1, <2>2
<1>2. CASE TakeChunk(s)
  BY <1>2, SMTT(30) DEF TakeChunk, Call
<1>3. CASE StreamEnds(s)
  BY <1>3 DEF StreamEnds
<1>4. CASE Pushed(s)
  <2> USE <1>4 DEF Pushed
  <2>1. CASE messages' \in {messages, s} /\ stream' = [stream EXCEPT ![s] = "wait"]
             /\ UNCHANGED okS
    BY <2>1
  <2>2. CASE (\E r \in BOOLEAN : Call(s, "kwsPush", r)) /\ UNCHANGED messages
    <3>1. CallType'
      BY <2>2, Parts, CallKeeps, SMTT(30)
    <3> QED
      BY <2>2, <3>1 DEF CallType
  <2> QED
    BY <2>1, <2>2
<1>5. CASE KwsPushed(s)
  <2> USE <1>5 DEF KwsPushed
  <2>1. AsrType' /\ CallType'
    <3>1. CASE (\E r \in BOOLEAN : Call(s, "text", r)) /\ UNCHANGED asr
      BY <3>1, Parts, CallKeeps, SMTT(30) DEF AsrType
    <3>2. CASE \E r \in BOOLEAN : AsrFinish(cat[s], r) /\ Call(s, "cut", r)
      BY <3>2, Parts, AsrKeeps, CallKeeps, SMTT(30)
    <3>3. CASE RestartTurn(s)
      BY <3>3, Parts, RestartKeeps
    <3> QED
      BY <3>1, <3>2, <3>3
  <2> QED
    BY <2>1, SMTT(30) DEF AsrType, CallType
<1>6. CASE TurnCut(s)
  <2>1. AsrType' /\ CallType'
    BY <1>6, Parts, RestartKeeps DEF TurnCut
  <2> QED
    BY <1>6, <2>1 DEF TurnCut, AsrType, CallType
<1>7. CASE ChunkDone(s)
  BY <1>7 DEF ChunkDone
<1>8. CASE FailStream(s)
  BY <1>8 DEF FailStream
<1>9. CASE FailAudioOff(s)
  BY <1>9 DEF FailAudioOff
<1>10. CASE FailDetach(s)
  <2> USE <1>10 DEF FailDetach
  <2>1. ClosedType' /\ CancelType' /\ AsrType'
    BY Parts, CloseKeeps, CancelKeeps, AsrKeeps, SMTT(30)
  <2>2. stream' \in [Tasks -> StreamPcs]
    OBVIOUS
  <2> QED
    BY <2>1, <2>2 DEF ClosedType, CancelType, AsrType
<1>11. CASE FailEnds(s)
  BY <1>11 DEF FailEnds
<1> QED
  BY <1>1, <1>2, <1>3, <1>4, <1>5, <1>6, <1>7, <1>8, <1>9, <1>10, <1>11

\* The first state has the types.
LEMMA InitType == Init => TypeOK
BY ControllerAssumption DEF Init, TypeOK, TaskPcs, StreamPcs, Tasks, Prepares, None

\* Every step keeps the types.
LEMMA StepKeepsType == TypeOK /\ [Next]_vars => TypeOK'
<1> SUFFICES ASSUME TypeOK, [Next]_vars PROVE TypeOK'
  OBVIOUS
<1>1. CASE UserStep
  BY <1>1, PrepareKeepsType, VoiceKeepsType, ClickKeepsType DEF UserStep
<1>2. CASE \E p \in Prepares : PrepareStep(p)
  BY <1>2, PrepareKeepsType DEF PrepareStep
<1>3. CASE VoiceStep
  BY <1>3, VoiceKeepsType DEF VoiceStep
<1>4. CASE \E t \in Tasks : TaskStep(t) \/ StreamStep(t) \/ Capture(t) \/ Deliver(t)
  BY <1>4, StartKeepsType, StopKeepsType, StreamKeepsType DEF TaskStep, StreamStep
<1>5. CASE UNCHANGED vars
  BY <1>5 DEF vars, appVars, prepVars, recVars, taskVars, sessVars, TypeOK
<1> QED
  BY <1>1, <1>2, <1>3, <1>4, <1>5 DEF Next

\* Every variable of the controller keeps its type whatever the order of
\* clicks, answers and failures: a session or a client it names exists, every
\* handler is at one of its awaits, and no stream exceeds its bound.
THEOREM TypeCorrect == Spec => []TypeOK
BY InitType, StepKeepsType, PTL DEF Spec

-----------------------------------------------------------------------------
(* What every handler takes for granted                                    *)

\* A start or stop task that runs, an audio task that runs, a preparation
\* that is wanted.
Acting(t)     == pc[t] \notin {"unused", "done"}
Working(s)    == stream[s] \notin {"none", "done"}
InProgress(p) == prepPc[p] \in {"clicked", "install", "load"}

\* The places of the handlers: a start that waits for its engines, a start that
\* cleans up, a stop, and the end of an audio task that failed.
Starting == {"catcherStart", "kwsStart"}
Cleaning == {"cleanupAudioStop", "cleanupAudioOff", "cleanupJoin", "cleanupFinish"}
Stopping == {"stopAudioStop", "stopAudioOff", "stopJoin", "stopFinish"}
Failing  == {"failAudioStop", "failAudioOff", "failFinish"}

\* What the handlers take for granted: whose session is open, whether a task
\* stops it or waits for its audio task, and whose mode and client it has.
NoSession == \A s \in Tasks : ~Working(s)
NoOther(t) == \A s \in Tasks : Working(s) => s = t
StopOn == \E t \in Tasks : pc[t] \in Stopping
Joined(s) == \E t \in Tasks : pc[t] \in {"cleanupJoin", "stopJoin"} /\ joins[t] = s
Owns(t) == activeMode = mode[t] /\ mode[t] \in Modes /\ cat[t] = catcher /\ catcher \in Prepares

\* At most one start or stop task, one audio task and one preparation are at
\* work, and a preparation has the app to itself.
Alone ==
    /\ \A t, u \in Tasks : Acting(t) /\ Acting(u) => t = u
    /\ \A s, u \in Tasks : Working(s) /\ Working(u) => s = u
    /\ \A p, q \in Prepares : InProgress(p) /\ InProgress(q) => p = q
    /\ \A p \in Prepares, t \in Tasks : InProgress(p) => ~Acting(t) /\ ~Working(t)

\* With nobody at work no mode is active; a preparation shows in the state.
IdleInv ==
    /\ (\A t \in Tasks : ~Acting(t) /\ ~Working(t)) =>
          activeMode = "none" /\ state # "finishing" /\ continuation = None
    /\ \A p \in Prepares :
          /\ prepPc[p] = "clicked" => state \in {"modelMissing", "failed"}
          /\ prepPc[p] = "install" => state = "downloading"
          /\ prepPc[p] = "load" => state = "loading"

\* The stream, the task that reads it and the tap belong to one session, whose
\* audio task still runs and is not cancelled.
RecInv ==
    /\ audioTask = continuation
    /\ sink # None =>
          /\ sink = continuation /\ activeMode = mode[sink]
          /\ stream[sink] \notin {"failAudioOff", "failFinish"}
    /\ continuation # None =>
          /\ Working(continuation) /\ stream[continuation] # "failFinish"
          /\ ~closed[continuation] /\ ~cancelled[continuation]

\* A task has no stream before its microphone is on, and no chunk waits in one
\* that never was.
FreshInv == \A t \in Tasks :
    /\ pc[t] \in {"unused"} \cup Starting \cup Stopping => stream[t] = "none"
    /\ stream[t] = "none" => queue[t] = 0 /\ ~closed[t] /\ ~cancelled[t]

\* A start task owns the app: nobody else does anything until it is done or its
\* own audio task has failed.
StartInv == \A t \in Tasks :
    /\ pc[t] \in Starting =>
          /\ state = "ready" /\ Owns(t) /\ continuation = None /\ NoSession
          /\ ok[t] \/ pc[t] = "kwsStart" => asr[cat[t]] = "started"
    /\ pc[t] = "audioStart" =>
          /\ state = "ready" /\ Owns(t) /\ sink = None /\ ok[t]
          /\ continuation = t /\ stream[t] = "wait" /\ queue[t] = 0
    /\ pc[t] = "audioOn" =>
          /\ stream[t] # "none" /\ NoOther(t)
          /\ Live(t) => state = "ready" /\ Owns(t)
          /\ stream[t] \in Failing => state = "finishing"
          /\ stream[t] = "done" => state = "failed" /\ activeMode = "none"

\* A start that failed still owns the app, and undoes exactly what it did.
CleanInv == \A t \in Tasks :
    /\ pc[t] \in Cleaning => state = "ready" /\ Owns(t) /\ sink = None /\ NoOther(t)
    /\ pc[t] \in {"cleanupAudioStop", "cleanupAudioOff"} =>
          \/ stream[t] = "none" /\ continuation = None
          \/ stream[t] = "wait" /\ continuation = t /\ queue[t] = 0 /\ ok[t]
    /\ pc[t] = "cleanupJoin" =>
          /\ joins[t] = t /\ continuation = None /\ cancelled[t] /\ ok[t]
          /\ stream[t] \in {"wait", "done"}
    /\ pc[t] = "cleanupFinish" => stream[t] \in {"none", "done"} /\ continuation = None

\* An audio task that runs owns the mode and the client, and has an open stream
\* or a task that waits for its end.
WorkInv == \A s \in Tasks : Working(s) =>
    /\ Owns(s)
    /\ pc[s] \in {"audioStart", "audioOn", "done"} \cup Cleaning
    /\ pc[s] = "done" /\ Live(s) =>
          state = "recording" \/ StopOn
    /\ pc[s] = "done" /\ stream[s] \in Failing => state \in {"recording", "finishing"}
    /\ stream[s] # "failFinish" =>
          \/ continuation = s
          \/ Joined(s)

\* An audio task that may push has a started client.
AsrInv == \A s \in Tasks :
    /\ stream[s] \in {"wait", "push", "kwsPush", "text"} => asr[cat[s]] = "started"
    /\ stream[s] = "restart" /\ okS[s] => asr[cat[s]] = "started"
    /\ stream[s] = "failFinish" => asr[cat[s]] # "started"

\* A stop task: what of the session it stops is left, place by place.
StopInv == \A t \in Tasks :
    /\ pc[t] \in Stopping =>
          /\ state \in {"finishing", "failed"}
          /\ mode[t] \in Modes /\ cat[t] = catcher
          /\ state = "finishing" => activeMode = mode[t]
          /\ state = "failed" => NoSession /\ activeMode = "none"
    /\ pc[t] \in {"stopAudioStop", "stopAudioOff"} => state = "failed" \/ ~NoSession
    /\ pc[t] \in {"stopAudioOff", "stopJoin", "stopFinish"} => sink = None
    /\ pc[t] = "stopJoin" =>
          /\ joins[t] \in Tasks /\ continuation = None /\ NoOther(joins[t])
          /\ closed[joins[t]] /\ stream[joins[t]] # "none"
          /\ Live(joins[t]) => ~cancelled[joins[t]]
          /\ stream[joins[t]] = "done" /\ state # "failed" => queue[joins[t]] = 0
    /\ pc[t] = "stopFinish" =>
          /\ continuation = None
          /\ \A s \in Tasks : Working(s) => stream[s] = "failFinish"
          /\ ok[t] => /\ state = "finishing" /\ NoSession /\ joins[t] \in Tasks
                      /\ stream[joins[t]] = "done" /\ queue[joins[t]] = 0

\* A stream that is open is the one the controller has at hand, and a callback
\* of the tap holds the sink of a session that got to record.
TapInv ==
    /\ \A s \in Tasks : stream[s] # "none" /\ ~closed[s] => continuation = s
    /\ tap # None => stream[tap] # "none" /\ pc[tap] \in {"audioOn", "done"}

\* The invariant.
Session == /\ Alone /\ IdleInv /\ RecInv /\ FreshInv /\ StartInv
           /\ CleanInv /\ WorkInv /\ AsrInv /\ StopInv /\ TapInv

IInv == TypeOK /\ Session

\* No task is called None, and no mode "none".
LEMMA Names == None \notin Tasks /\ None \notin Prepares /\ "none" \notin Modes
BY ControllerAssumption DEF None, Tasks, Prepares

\* While a task is at work no other is, and nothing is being prepared.
LEMMA OnlyTask ==
    ASSUME IInv, NEW t \in Tasks, Acting(t)
    PROVE  /\ \A u \in Tasks : u # t => pc[u] \in {"unused", "done"}
           /\ \A p \in Prepares : ~InProgress(p)
BY DEF IInv, Session, Alone, Acting

\* While an audio task runs no other does, and nothing is being prepared.
LEMMA OnlySession ==
    ASSUME IInv, NEW s \in Tasks, Working(s)
    PROVE  /\ \A u \in Tasks : u # s => stream[u] \in {"none", "done"}
           /\ \A p \in Prepares : ~InProgress(p)
BY DEF IInv, Session, Alone, Working

\* A preparation has the app to itself.
LEMMA OnlyPrepare ==
    ASSUME IInv, NEW p \in Prepares, InProgress(p)
    PROVE  /\ \A q \in Prepares : q # p => ~InProgress(q)
           /\ \A t \in Tasks : ~Acting(t) /\ ~Working(t)
BY DEF IInv, Session, Alone

\* While nobody is at work, what happens to the state, the client and the
\* preparations disturbs no session.
LEMMA Asleep ==
    ASSUME IInv, \A t \in Tasks : ~Acting(t) /\ ~Working(t),
           UNCHANGED <<activeMode, messages, recVars, taskVars, sessVars>>
    PROVE  /\ RecInv' /\ FreshInv' /\ StartInv' /\ CleanInv'
           /\ WorkInv' /\ AsrInv' /\ StopInv' /\ TapInv'
<1> USE DEF recVars, taskVars, sessVars
<1>1. \A t \in Tasks : pc[t] \in {"unused", "done"} /\ stream[t] \in {"none", "done"}
  BY DEF Acting, Working
<1>2. RecInv' BY DEF IInv, Session, RecInv, Working
<1>3. FreshInv' BY DEF IInv, Session, FreshInv
<1>4. StartInv' BY <1>1 DEF StartInv, Starting
<1>5. CleanInv' BY <1>1 DEF CleanInv, Cleaning
<1>6. WorkInv' BY <1>1 DEF WorkInv, Working
<1>7. AsrInv' BY <1>1 DEF AsrInv
<1>8. StopInv' BY <1>1 DEF StopInv, Stopping
<1>9. TapInv' BY DEF IInv, Session, TapInv
<1> QED BY <1>2, <1>3, <1>4, <1>5, <1>6, <1>7, <1>8, <1>9

-----------------------------------------------------------------------------
(* Every action keeps it                                                   *)

\* A preparation begins to install.
LEMMA RunPrepareKeeps ==
    ASSUME IInv, NEW p \in Prepares, RunPrepare(p)
    PROVE  Session'
<1> USE DEF RunPrepare, appVars, prepVars, recVars, taskVars, sessVars
<1>1. InProgress(p) BY DEF InProgress
<1>2. /\ \A t \in Tasks : ~Acting(t) /\ ~Working(t)
      /\ \A q \in Prepares : q # p => ~InProgress(q)
  BY <1>1, OnlyPrepare
<1>3. /\ RecInv' /\ FreshInv' /\ StartInv' /\ CleanInv'
      /\ WorkInv' /\ AsrInv' /\ StopInv' /\ TapInv'
  BY <1>2, Asleep
<1>4. Alone' BY <1>2 DEF Alone, Acting, Working, InProgress
<1>5. IdleInv' BY <1>2 DEF IInv, Session, TypeOK, IdleInv, InProgress
<1> QED BY <1>3, <1>4, <1>5 DEF Session

\* A preparation has installed its model and loads it.
LEMMA PrepareInstalledKeeps ==
    ASSUME IInv, NEW p \in Prepares, PrepareInstalled(p)
    PROVE  Session'
<1> USE DEF PrepareInstalled, appVars, prepVars, recVars, taskVars, sessVars
<1>1. InProgress(p) BY DEF InProgress
<1>2. /\ \A t \in Tasks : ~Acting(t) /\ ~Working(t)
      /\ \A q \in Prepares : q # p => ~InProgress(q)
  BY <1>1, OnlyPrepare
<1>3. /\ RecInv' /\ FreshInv' /\ StartInv' /\ CleanInv'
      /\ WorkInv' /\ AsrInv' /\ StopInv' /\ TapInv'
  BY <1>2, Asleep
<1>4. Alone' BY <1>2 DEF Alone, Acting, Working, InProgress
<1>5. IdleInv' BY <1>2 DEF IInv, Session, TypeOK, IdleInv, InProgress
<1> QED BY <1>3, <1>4, <1>5 DEF Session

\* A preparation has loaded its client.
LEMMA PrepareLoadedKeeps ==
    ASSUME IInv, NEW p \in Prepares, PrepareLoaded(p)
    PROVE  Session'
<1> USE DEF PrepareLoaded, appVars, prepVars, recVars, taskVars, sessVars
<1>1. InProgress(p) BY DEF InProgress
<1>2. /\ \A t \in Tasks : ~Acting(t) /\ ~Working(t)
      /\ \A q \in Prepares : q # p => ~InProgress(q)
  BY <1>1, OnlyPrepare
<1>3. /\ RecInv' /\ FreshInv' /\ StartInv' /\ CleanInv'
      /\ WorkInv' /\ AsrInv' /\ StopInv' /\ TapInv'
  BY <1>2, Asleep
<1>4. Alone' BY <1>2 DEF Alone, Acting, Working, InProgress
<1>5. IdleInv' BY <1>2 DEF IInv, Session, TypeOK, IdleInv, InProgress
<1> QED BY <1>3, <1>4, <1>5 DEF Session

\* A preparation has failed.
LEMMA PrepareFailedKeeps ==
    ASSUME IInv, NEW p \in Prepares, PrepareFailed(p)
    PROVE  Session'
<1> USE DEF PrepareFailed, appVars, prepVars, recVars, taskVars, sessVars
<1>1. InProgress(p) BY DEF InProgress
<1>2. /\ \A t \in Tasks : ~Acting(t) /\ ~Working(t)
      /\ \A q \in Prepares : q # p => ~InProgress(q)
  BY <1>1, OnlyPrepare
<1>3. /\ RecInv' /\ FreshInv' /\ StartInv' /\ CleanInv'
      /\ WorkInv' /\ AsrInv' /\ StopInv' /\ TapInv'
  BY <1>2, Asleep
<1>4. Alone' BY <1>2 DEF Alone, Acting, Working, InProgress
<1>5. IdleInv' BY <1>2 DEF IInv, Session, TypeOK, IdleInv, InProgress
<1> QED BY <1>3, <1>4, <1>5 DEF Session

\* A settled controller with no mode active has nobody at work.
LEMMA NobodyAtWork ==
    ASSUME IInv, Settled, state \in {"ready", "modelMissing", "failed"}, activeMode = "none"
    PROVE  \A t \in Tasks : ~Acting(t) /\ ~Working(t)
<1>1. NoSession BY Names DEF IInv, Session, WorkInv, Owns, NoSession
<1>2. ASSUME NEW t \in Tasks, Acting(t) PROVE FALSE
  <2>1. pc[t] \in {"catcherStart", "kwsStart", "audioStart", "audioOn"} \cup Cleaning \cup Stopping
    BY <1>2 DEF IInv, TypeOK, TaskPcs, Acting, Cleaning, Stopping
  <2>2. pc[t] \notin {"catcherStart", "kwsStart", "audioStart", "audioOn"} \cup Cleaning
    BY Names DEF IInv, Session, StartInv, CleanInv, Starting, Owns, Settled
  <2>3. CASE pc[t] \in Stopping
    <3>1. state = "failed" BY <2>3 DEF IInv, Session, StopInv
    <3>2. CASE pc[t] = "stopJoin"
      <4>1. joins[t] \in Tasks /\ stream[joins[t]] # "none" /\ stream[joins[t]] # "done"
        BY <3>2 DEF IInv, Session, StopInv, Settled
      <4> QED BY <1>1, <4>1 DEF NoSession, Working
    <3>3. CASE pc[t] = "stopFinish"
      BY <3>1, <3>3 DEF IInv, Session, StopInv, Settled
    <3> QED BY <2>3, <3>2, <3>3 DEF Stopping, Settled
  <2> QED BY <2>1, <2>2, <2>3
<1> QED BY <1>1, <1>2 DEF NoSession

\* Nor is anybody at work while the model is missing or a failure is shown.
LEMMA NoModeActive ==
    ASSUME IInv, Settled, state \in {"modelMissing", "failed"}
    PROVE  activeMode = "none"
<1>1. ASSUME NEW s \in Tasks, Working(s) PROVE FALSE
  <2>1. pc[s] \notin {"audioStart", "audioOn"} \cup Cleaning
    BY DEF IInv, Session, StartInv, CleanInv, Settled
  <2>2. pc[s] = "done" BY <1>1, <2>1 DEF IInv, Session, WorkInv
  <2>3. CASE Live(s)
    <3>1. PICK t \in Tasks : pc[t] \in Stopping
      BY <1>1, <2>2, <2>3 DEF IInv, Session, WorkInv, StopOn
    <3> QED BY <1>1, <3>1 DEF IInv, Session, StopInv, NoSession
  <2>4. CASE ~Live(s)
    <3>1. stream[s] \in Failing
      BY <1>1, <2>4 DEF IInv, TypeOK, StreamPcs, Live, Failing, Working
    <3> QED BY <1>1, <2>2, <3>1 DEF IInv, Session, WorkInv
  <2> QED BY <2>3, <2>4
<1>2. CASE \E t \in Tasks : pc[t] \in Stopping
  BY <1>2 DEF IInv, Session, StopInv
<1>3. CASE \A t \in Tasks : pc[t] \notin Stopping
  <2>1. ASSUME NEW t \in Tasks, Acting(t) PROVE FALSE
    <3>1. pc[t] \in {"catcherStart", "kwsStart", "audioStart", "audioOn"} \cup Cleaning
      BY <1>3, <2>1 DEF IInv, TypeOK, TaskPcs, Acting, Cleaning, Stopping
    <3> QED BY <3>1 DEF IInv, Session, StartInv, CleanInv, Starting, Settled
  <2> QED BY <1>1, <2>1 DEF IInv, Session, IdleInv
<1> QED BY <1>2, <1>3

\* The window's task and Retry find the app asleep.
LEMMA ClickPrepareKeeps ==
    ASSUME IInv, NEW p \in Prepares, Settled, ClickPrepare(p)
    PROVE  Session'
<1> USE DEF ClickPrepare, appVars, prepVars, recVars, taskVars, sessVars
<1>1. activeMode = "none" BY NoModeActive
<1>2. \A t \in Tasks : ~Acting(t) /\ ~Working(t) BY <1>1, NobodyAtWork
<1>3. \A q \in Prepares : ~InProgress(q)
  BY DEF IInv, Session, IdleInv, InProgress, Settled
<1>4. /\ RecInv' /\ FreshInv' /\ StartInv' /\ CleanInv'
      /\ WorkInv' /\ AsrInv' /\ StopInv' /\ TapInv'
  BY <1>2, Asleep
<1>5. Alone' BY <1>2, <1>3 DEF Alone, Acting, Working, InProgress
<1>6. IdleInv' BY DEF IInv, Session, IdleInv, Acting, Working
<1> QED BY <1>4, <1>5, <1>6 DEF Session

\* Start finds the app asleep, and its client answers for the session to come.
LEMMA ToggleStartKeeps ==
    ASSUME IInv, NEW t \in Tasks, NEW m \in Modes, Settled, ToggleStart(t, m)
    PROVE  Session'
<1> USE Names DEF TypeOK, appVars, prepVars, recVars, taskVars, sessVars, ToggleStart
<1>1. /\ \A u \in Tasks : pc[u] \in {"unused", "done"} /\ stream[u] \in {"none", "done"}
      /\ continuation = None /\ sink = None /\ catcher \in Prepares
  BY NobodyAtWork DEF IInv, Session, IdleInv, RecInv, Acting, Working
<1>2. \A p \in Prepares : ~InProgress(p)
  BY DEF IInv, Session, IdleInv, InProgress
<1>3. /\ \A u \in Tasks : u # t => pc'[u] = pc[u]
      /\ pc'[t] = "catcherStart" /\ stream[t] = "none" /\ queue[t] = 0
      /\ mode'[t] = m /\ cat'[t] = catcher /\ (ok'[t] => asr'[catcher] = "started")
  BY DEF NextTask, AsrStart, IInv, Session, FreshInv
<1>4. Alone' BY <1>1, <1>2 DEF Alone, Acting, Working, InProgress
<1>5. IdleInv' BY DEF IInv, Session, IdleInv, Acting
<1>6. RecInv' BY <1>1 DEF IInv, Session, RecInv
<1>7. FreshInv' BY <1>3 DEF IInv, Session, FreshInv
<1>8. StartInv' BY <1>1, <1>3 DEF StartInv, Starting, Owns, NoSession, Working
<1>9. CleanInv' BY DEF IInv, Session, CleanInv, Cleaning, Owns
<1>10. WorkInv' BY DEF IInv, Session, WorkInv, Working, Owns
<1>11. AsrInv' BY <1>1 DEF AsrInv
<1>12. StopInv' BY DEF IInv, Session, StopInv, Stopping
<1>13. TapInv' BY DEF IInv, Session, TapInv, NextTask
<1> QED BY <1>4, <1>5, <1>6, <1>7, <1>8, <1>9, <1>10, <1>11, <1>12, <1>13 DEF Session

\* Stop finds a session of its own mode and client, and no other task.
LEMMA ToggleStopKeeps ==
    ASSUME IInv, NEW t \in Tasks, NEW m \in Modes, Settled, ToggleStop(t, m)
    PROVE  Session'
<1> USE Names DEF TypeOK, appVars, prepVars, recVars, taskVars, sessVars, ToggleStop
<1>1. /\ \A u \in Tasks : pc[u] \in {"unused", "done"}
      /\ \A p \in Prepares : ~InProgress(p)
  BY DEF IInv, Session, IdleInv, StartInv, CleanInv, StopInv, InProgress, Starting,
     Cleaning, Stopping, Settled, TaskPcs
<1>2. ~NoSession
  BY <1>1 DEF IInv, Session, IdleInv, Acting, Working, NoSession
<1>3. /\ \A u \in Tasks : u # t => pc'[u] = pc[u]
      /\ pc'[t] = "stopAudioStop" /\ pc[t] = "unused" /\ stream[t] = "none"
      /\ mode'[t] = m /\ cat'[t] = catcher /\ StopOn'
  BY DEF NextTask, IInv, Session, FreshInv, StopOn, Stopping
<1>4. /\ \A u \in Tasks : u # t => cat'[u] = cat[u] /\ mode'[u] = mode[u]
      /\ \A u \in Tasks : Working(u) => u # t /\ pc[u] = "done" /\ catcher = cat[u]
            /\ activeMode = mode[u] /\ (continuation = u \/ stream[u] = "failFinish")
  BY <1>1, <1>3 DEF IInv, Session, WorkInv, Owns, Working, Joined, Cleaning
<1>5. Alone' BY <1>1 DEF IInv, Session, Alone, Acting, Working, InProgress
<1>6. IdleInv' BY DEF IInv, Session, IdleInv, Acting
<1>7. RecInv' BY DEF IInv, Session, RecInv, Working
<1>8. FreshInv' BY <1>3 DEF IInv, Session, FreshInv
<1>9. StartInv' BY DEF IInv, Session, StartInv, Starting, NoOther, Working, Live
<1>10. CleanInv' BY DEF IInv, Session, CleanInv, Cleaning
<1>11. WorkInv' BY <1>3, <1>4 DEF IInv, WorkInv, Working, Owns
<1>12. AsrInv' BY <1>3 DEF IInv, Session, AsrInv
<1>13. StopInv' BY <1>2 DEF IInv, Session, StopInv, NoSession, Working, NoOther, Live
<1>14. TapInv' BY <1>3 DEF IInv, Session, TapInv
<1> QED BY <1>5, <1>6, <1>7, <1>8, <1>9, <1>10, <1>11, <1>12, <1>13, <1>14 DEF Session

\* Clearing the transcript touches no session.
LEMMA ClearTranscriptKeeps ==
    ASSUME IInv, ClearTranscript
    PROVE  Session'
<1> USE Names DEF TypeOK, appVars, prepVars, recVars, taskVars, sessVars, ClearTranscript
<1>1. (StopOn' <=> StopOn) /\ \A s \in Tasks : Joined(s)' <=> Joined(s)
  BY DEF StopOn, Joined
<1>2. Alone' BY DEF IInv, Session, Alone, Acting, Working, InProgress
<1>3. IdleInv' BY DEF IInv, Session, IdleInv, Acting, Working
<1>4. RecInv' BY DEF IInv, Session, RecInv, Working
<1>5. FreshInv' BY DEF IInv, Session, FreshInv
<1>6. StartInv' BY DEF IInv, Session, StartInv, Owns, NoSession, NoOther, Working, Live
<1>7. CleanInv' BY DEF IInv, Session, CleanInv, Owns, NoOther, Working
<1>8. WorkInv' BY <1>1 DEF IInv, Session, WorkInv, Working, Owns, Live
<1>9. AsrInv' BY DEF IInv, Session, AsrInv
<1>10. StopInv' BY DEF IInv, Session, StopInv, NoSession, Working, NoOther, Live
<1>11. TapInv' BY DEF IInv, Session, TapInv
<1> QED BY <1>2, <1>3, <1>4, <1>5, <1>6, <1>7, <1>8, <1>9, <1>10, <1>11 DEF Session

\* The client has answered: no session is open yet.
LEMMA StartedCatcherKeeps ==
    ASSUME IInv, NEW t \in Tasks, StartedCatcher(t)
    PROVE  Session'
<1> USE Names DEF TypeOK, appVars, prepVars, recVars, taskVars, sessVars, StartedCatcher,
             BeginCleanup, OpenStream
<1>1. /\ \A u \in Tasks : u # t => pc[u] \in {"unused", "done"} /\ pc'[u] = pc[u]
      /\ \A p \in Prepares : ~InProgress(p)
  BY OnlyTask DEF IInv, Acting
<1>2. /\ state = "ready" /\ Owns(t) /\ NoSession /\ stream[t] = "none" /\ queue[t] = 0
      /\ ~closed[t] /\ ~cancelled[t]
      /\ continuation = None /\ audioTask = None /\ sink = None
      /\ (ok[t] \/ pc[t] = "kwsStart" => asr[cat[t]] = "started")
  BY DEF IInv, Session, StartInv, FreshInv, RecInv, Starting
<1>3. \A u \in Tasks : u # t => stream[u] \in {"none", "done"} /\ stream'[u] = stream[u] /\ ok'[u] = ok[u]
  BY <1>2 DEF IInv, NoSession, Working, BeginCleanup, OpenStream
<1>4. continuation' # None => continuation' = t /\ audioTask' = t /\ stream'[t] = "wait"
  BY <1>2 DEF IInv, BeginCleanup, OpenStream
<1>5. Alone' BY <1>3 DEF IInv, Session, Alone, Acting, Working, InProgress
<1>6. IdleInv' BY DEF IInv, Session, IdleInv, Acting
<1>7. RecInv' BY <1>2 DEF IInv, RecInv, Working
<1>8. FreshInv' BY DEF IInv, Session, FreshInv, Starting, Stopping
<1>9. StartInv' BY <1>1, <1>2 DEF IInv, StartInv, Starting, Owns, NoSession, Working
<1>10. CleanInv' BY <1>1, <1>2, <1>3 DEF IInv, CleanInv, Cleaning, Owns, NoOther, Working
<1>11. WorkInv' BY <1>2 DEF IInv, WorkInv, Working, NoSession, Owns
<1>12. AsrInv' BY <1>2 DEF IInv, Session, AsrInv
<1>13. StopInv' BY <1>2 DEF IInv, Session, StopInv, Stopping
<1>14. TapInv' BY <1>1, <1>2, <1>3, <1>4 DEF IInv, Session, TapInv
<1> QED BY <1>5, <1>6, <1>7, <1>8, <1>9, <1>10, <1>11, <1>12, <1>13, <1>14 DEF Session

\* The spotter has answered: no session is open yet.
LEMMA StartedSpotterKeeps ==
    ASSUME IInv, NEW t \in Tasks, StartedSpotter(t)
    PROVE  Session'
<1> USE Names DEF TypeOK, appVars, prepVars, recVars, taskVars, sessVars, StartedSpotter,
             BeginCleanup, OpenStream
<1>1. /\ \A u \in Tasks : u # t => pc[u] \in {"unused", "done"} /\ pc'[u] = pc[u]
      /\ \A p \in Prepares : ~InProgress(p)
  BY OnlyTask DEF IInv, Acting
<1>2. /\ state = "ready" /\ Owns(t) /\ NoSession /\ stream[t] = "none" /\ queue[t] = 0
      /\ ~closed[t] /\ ~cancelled[t]
      /\ continuation = None /\ audioTask = None /\ sink = None
      /\ (ok[t] \/ pc[t] = "kwsStart" => asr[cat[t]] = "started")
  BY DEF IInv, Session, StartInv, FreshInv, RecInv, Starting
<1>3. \A u \in Tasks : u # t => stream[u] \in {"none", "done"} /\ stream'[u] = stream[u] /\ ok'[u] = ok[u]
  BY <1>2 DEF IInv, NoSession, Working, BeginCleanup, OpenStream
<1>4. continuation' # None => continuation' = t /\ audioTask' = t /\ stream'[t] = "wait"
  BY <1>2 DEF IInv, BeginCleanup, OpenStream
<1>5. Alone' BY <1>3 DEF IInv, Session, Alone, Acting, Working, InProgress
<1>6. IdleInv' BY DEF IInv, Session, IdleInv, Acting
<1>7. RecInv' BY <1>2 DEF IInv, RecInv, Working
<1>8. FreshInv' BY DEF IInv, Session, FreshInv, Starting, Stopping
<1>9. StartInv' BY <1>1, <1>2 DEF IInv, StartInv, Starting, Owns
<1>10. CleanInv' BY <1>1, <1>2, <1>3 DEF IInv, CleanInv, Cleaning, Owns, NoOther, Working
<1>11. WorkInv' BY <1>2 DEF IInv, WorkInv, Working, NoSession, Owns
<1>12. AsrInv' BY <1>2 DEF IInv, Session, AsrInv
<1>13. StopInv' BY <1>2 DEF IInv, Session, StopInv, Stopping
<1>14. TapInv' BY <1>1, <1>2, <1>3, <1>4 DEF IInv, Session, TapInv
<1> QED BY <1>5, <1>6, <1>7, <1>8, <1>9, <1>10, <1>11, <1>12, <1>13, <1>14 DEF Session

\* The microphone is on.
LEMMA EngineStartKeeps ==
    ASSUME IInv, NEW t \in Tasks, EngineStart(t)
    PROVE  Session'
<1> USE Names DEF TypeOK, appVars, prepVars, recVars, taskVars, sessVars, EngineStart
<1>1. /\ \A u \in Tasks : u # t => pc[u] \in {"unused", "done"} /\ pc'[u] = pc[u]
      /\ \A p \in Prepares : ~InProgress(p)
  BY OnlyTask DEF IInv, Acting
<1>2. /\ state = "ready" /\ Owns(t) /\ sink = None /\ ok[t]
      /\ continuation = t /\ stream[t] = "wait" /\ queue[t] = 0
      /\ \A u \in Tasks : u # t => ~Working(u)
  BY OnlySession DEF IInv, Session, StartInv, Working
<1>3. StopOn' <=> StopOn
  BY <1>1 DEF StopOn, Stopping
<1>4. Alone' BY DEF IInv, Session, Alone, Acting, Working, InProgress
<1>5. IdleInv' BY DEF IInv, Session, IdleInv, Acting
<1>6. RecInv' BY <1>2 DEF IInv, Session, RecInv, Working, Owns
<1>7. FreshInv' BY DEF IInv, Session, FreshInv, Starting, Stopping
<1>8. StartInv' BY <1>2 DEF IInv, Session, StartInv, Starting, Owns, NoOther, Working, Failing
<1>9. CleanInv' BY <1>2 DEF IInv, Session, CleanInv, Cleaning
<1>10. WorkInv' BY <1>2 DEF WorkInv, Working, Owns
<1>11. AsrInv' BY DEF IInv, Session, AsrInv
<1>12. StopInv' BY <1>2 DEF IInv, Session, StopInv, Stopping
<1>13. TapInv' BY DEF IInv, Session, TapInv
<1> QED BY <1>4, <1>5, <1>6, <1>7, <1>8, <1>9, <1>10, <1>11, <1>12, <1>13 DEF Session

\* The microphone did not start.
LEMMA EngineStartFailsKeeps ==
    ASSUME IInv, NEW t \in Tasks, EngineStartFails(t)
    PROVE  Session'
<1> USE Names DEF TypeOK, appVars, prepVars, recVars, taskVars, sessVars, EngineStartFails
<1>1. /\ \A u \in Tasks : u # t => pc[u] \in {"unused", "done"} /\ pc'[u] = pc[u]
      /\ \A p \in Prepares : ~InProgress(p)
  BY OnlyTask DEF IInv, Acting
<1>2. /\ state = "ready" /\ Owns(t) /\ sink = None /\ ok[t]
      /\ continuation = t /\ stream[t] = "wait" /\ queue[t] = 0
      /\ \A u \in Tasks : u # t => ~Working(u)
  BY OnlySession DEF IInv, Session, StartInv, Working
<1>3. StopOn' <=> StopOn
  BY <1>1 DEF StopOn, Stopping
<1>4. Alone' BY DEF IInv, Session, Alone, Acting, Working, InProgress
<1>5. IdleInv' BY DEF IInv, Session, IdleInv, Acting
<1>6. RecInv' BY DEF IInv, Session, RecInv, Working
<1>7. FreshInv' BY DEF IInv, Session, FreshInv, Starting, Stopping
<1>8. StartInv' BY DEF IInv, Session, StartInv, Starting, NoOther, Working
<1>9. CleanInv' BY <1>2 DEF IInv, Session, CleanInv, Owns, NoOther, Working
<1>10. WorkInv' BY <1>2 DEF WorkInv, Working, Owns, Cleaning
<1>11. AsrInv' BY DEF IInv, Session, AsrInv
<1>12. StopInv' BY DEF IInv, Session, StopInv, Stopping, NoSession, Working, NoOther, Live
<1>13. TapInv' BY DEF IInv, Session, TapInv
<1> QED BY <1>4, <1>5, <1>6, <1>7, <1>8, <1>9, <1>10, <1>11, <1>12, <1>13 DEF Session

\* The start task ends, whatever has become of its session.
LEMMA RecordingKeeps ==
    ASSUME IInv, NEW t \in Tasks, Recording(t)
    PROVE  Session'
<1> USE Names DEF TypeOK, appVars, prepVars, recVars, taskVars, sessVars, Recording
<1>1. /\ \A u \in Tasks : u # t => pc[u] \in {"unused", "done"} /\ pc'[u] = pc[u]
      /\ \A p \in Prepares : ~InProgress(p)
  BY OnlyTask DEF IInv, Acting
<1>2. /\ stream[t] # "none" /\ NoOther(t)
      /\ stream[t] = "done" => activeMode = "none"
  BY DEF IInv, Session, StartInv
<1>3. /\ \A u \in Tasks : pc'[u] \in {"unused", "done"}
      /\ ~StopOn /\ \A s \in Tasks : ~Joined(s)
  BY <1>1 DEF IInv, StopOn, Stopping, Joined
<1>4. (\A u \in Tasks : ~Acting(u)' /\ ~Working(u)') => activeMode = "none" /\ continuation = None
  BY <1>2 DEF IInv, Session, RecInv, StreamPcs, Working
<1>5. Alone' BY DEF IInv, Session, Alone, Acting, Working, InProgress
<1>6. IdleInv' BY <1>1, <1>4 DEF IdleInv, InProgress
<1>7. RecInv' BY DEF IInv, Session, RecInv, Working
<1>8. FreshInv' BY DEF IInv, Session, FreshInv, Starting, Stopping
<1>9. StartInv' BY <1>3 DEF StartInv, Starting
<1>10. CleanInv' BY <1>3 DEF CleanInv, Cleaning
<1>11. WorkInv' BY <1>3 DEF IInv, Session, WorkInv, Working, Owns
<1>12. AsrInv' BY DEF IInv, Session, AsrInv
<1>13. StopInv' BY <1>3 DEF StopInv, Stopping
<1>14. TapInv' BY DEF IInv, Session, TapInv
<1> QED BY <1>5, <1>6, <1>7, <1>8, <1>9, <1>10, <1>11, <1>12, <1>13, <1>14 DEF Session

\* The microphone is off, or was never on.
LEMMA CleanupAudioOffKeeps ==
    ASSUME IInv, NEW t \in Tasks, CleanupAudioOff(t)
    PROVE  Session'
<1> USE Names DEF TypeOK, appVars, prepVars, recVars, taskVars, sessVars, CleanupAudioOff
<1>1. /\ \A u \in Tasks : u # t => pc[u] \in {"unused", "done"} /\ pc'[u] = pc[u]
      /\ \A p \in Prepares : ~InProgress(p)
  BY OnlyTask DEF IInv, Acting
<1>2. /\ state = "ready" /\ Owns(t) /\ NoOther(t)
      /\ stream[t] = "none" \/ continuation = t
  BY DEF IInv, Session, CleanInv, Cleaning
<1>3. StopOn' <=> StopOn
  BY <1>1 DEF StopOn, Stopping
<1>4. Alone' BY DEF IInv, Session, Alone, Acting, Working, InProgress
<1>5. IdleInv' BY DEF IInv, Session, IdleInv, Acting
<1>6. RecInv' BY DEF IInv, Session, RecInv, Working
<1>7. FreshInv' BY DEF IInv, Session, FreshInv, Starting, Stopping
<1>8. StartInv'
  BY DEF IInv, Session, StartInv, Starting, Owns, NoSession, NoOther, Working, Live
<1>9. CleanInv' BY DEF IInv, Session, CleanInv, Cleaning, Owns, NoOther, Working
<1>10. WorkInv' BY <1>2 DEF WorkInv, Working, NoOther, Owns, Cleaning
<1>11. AsrInv' BY DEF IInv, Session, AsrInv
<1>12. StopInv' BY DEF IInv, Session, StopInv, Stopping, NoSession, Working, NoOther, Live
<1>13. TapInv' BY DEF IInv, Session, TapInv
<1> QED BY <1>4, <1>5, <1>6, <1>7, <1>8, <1>9, <1>10, <1>11, <1>12, <1>13 DEF Session

\* A cleanup cancels the audio task it has started, if there is one.
LEMMA CleanupDetachKeeps ==
    ASSUME IInv, NEW t \in Tasks, CleanupDetach(t)
    PROVE  Session'
<1> USE Names DEF TypeOK, appVars, prepVars, recVars, taskVars, sessVars, CleanupDetach
<1>1. /\ \A u \in Tasks : u # t => pc[u] \in {"unused", "done"} /\ pc'[u] = pc[u]
      /\ \A p \in Prepares : ~InProgress(p)
  BY OnlyTask DEF IInv, Acting, CleanupFinish
<1>2. /\ state = "ready" /\ Owns(t) /\ NoOther(t) /\ sink = None /\ audioTask = continuation
  BY DEF IInv, Session, CleanInv, RecInv, Cleaning
<1>3. continuation' = None /\ audioTask' = None /\ joins'[t] = continuation
  BY <1>2 DEF IInv, CloseContinuation, CancelAudioTask
<1>4. \/ /\ stream[t] = "none" /\ continuation = None
      \/ /\ stream[t] = "wait" /\ continuation = t /\ queue[t] = 0 /\ ok[t]
  BY DEF IInv, Session, CleanInv
<1>5. continuation = None => /\ NoSession /\ UNCHANGED <<closed, cancelled>> /\ pc'[t] = "cleanupFinish"
  BY <1>2, <1>4 DEF IInv, NoOther, NoSession, Working, CloseContinuation, CancelAudioTask,
     CleanupFinish
<1>6. continuation = t => /\ pc'[t] = "cleanupJoin" /\ UNCHANGED asr /\ Joined(t)'
         /\ closed' = [closed EXCEPT ![t] = TRUE] /\ cancelled' = [cancelled EXCEPT ![t] = TRUE]
  BY <1>2, <1>3 DEF IInv, CloseContinuation, CancelAudioTask, Joined
<1>7. Alone' BY <1>1 DEF IInv, Session, Alone, Acting, Working, InProgress
<1>8. IdleInv' BY <1>4, <1>5 DEF IInv, Session, IdleInv, Acting, Working
<1>9. RecInv' BY <1>2, <1>3 DEF RecInv
<1>10. FreshInv' BY <1>1, <1>4, <1>5, <1>6 DEF IInv, Session, FreshInv, Starting, Stopping
<1>11. StartInv' BY <1>1, <1>4, <1>5, <1>6 DEF StartInv, Starting
<1>12. CleanInv'
  BY <1>1, <1>3, <1>5, <1>6 DEF IInv, Session, CleanInv, Cleaning, Owns, NoOther, Working
<1>13. WorkInv' BY <1>2, <1>4, <1>6 DEF WorkInv, Working, NoOther, Owns, Cleaning
<1>14. AsrInv' BY <1>4, <1>5, <1>6 DEF IInv, Session, AsrInv, NoSession, Working
<1>15. StopInv' BY <1>1, <1>4, <1>5, <1>6 DEF StopInv, Stopping
<1>16. TapInv'
  <2>1. CASE continuation = None
    BY <2>1, <1>1, <1>2, <1>4, <1>5 DEF IInv, Session, TapInv
  <2>2. CASE continuation = t
    BY <2>2, <1>1, <1>2, <1>4, <1>6 DEF IInv, Session, TapInv
  <2> QED BY <1>4, <2>1, <2>2
<1> QED BY <1>7, <1>8, <1>9, <1>10, <1>11, <1>12, <1>13, <1>14, <1>15, <1>16 DEF Session

\* The audio task that was cancelled has ended.
LEMMA CleanupJoinedKeeps ==
    ASSUME IInv, NEW t \in Tasks, CleanupJoined(t)
    PROVE  Session'
<1> USE Names DEF TypeOK, appVars, prepVars, recVars, taskVars, sessVars, CleanupJoined,
             CleanupFinish
<1>1. /\ \A u \in Tasks : u # t => pc[u] \in {"unused", "done"} /\ pc'[u] = pc[u]
      /\ \A p \in Prepares : ~InProgress(p)
  BY OnlyTask DEF IInv, Acting
<1>2. /\ state = "ready" /\ Owns(t) /\ NoOther(t) /\ sink = None
  BY DEF IInv, Session, CleanInv, Cleaning
<1>3. /\ stream[t] = "done" /\ continuation = None /\ NoSession
      /\ pc'[t] = "cleanupFinish"
  BY <1>2 DEF IInv, Session, CleanInv, NoOther, NoSession, Working, CleanupFinish
<1>4. \A u \in Tasks : stream[u] \in {"none", "done"}
  BY <1>3 DEF NoSession, Working
<1>5. Alone' BY DEF IInv, Session, Alone, Acting, Working, InProgress
<1>6. IdleInv' BY DEF IInv, Session, IdleInv, Acting
<1>7. RecInv' BY DEF IInv, Session, RecInv, Working
<1>8. FreshInv' BY DEF IInv, Session, FreshInv, Starting, Stopping
<1>9. StartInv' BY <1>1 DEF StartInv, Starting
<1>10. CleanInv' BY DEF IInv, Session, CleanInv, Cleaning, Owns, NoOther, Working
<1>11. WorkInv' BY <1>4 DEF WorkInv, Working
<1>12. AsrInv' BY <1>4 DEF AsrInv
<1>13. StopInv' BY DEF IInv, Session, StopInv, Stopping, NoSession, Working, NoOther, Live
<1>14. TapInv' BY DEF IInv, Session, TapInv
<1> QED BY <1>5, <1>6, <1>7, <1>8, <1>9, <1>10, <1>11, <1>12, <1>13, <1>14 DEF Session

\* A failed start ends in the failed state, with nobody at work.
LEMMA CleanupEndsKeeps ==
    ASSUME IInv, NEW t \in Tasks, CleanupEnds(t)
    PROVE  Session'
<1> USE Names DEF TypeOK, appVars, prepVars, recVars, taskVars, sessVars, CleanupEnds
<1>1. /\ \A u \in Tasks : u # t => pc[u] \in {"unused", "done"} /\ pc'[u] = pc[u]
      /\ \A p \in Prepares : ~InProgress(p)
  BY OnlyTask DEF IInv, Acting
<1>2. /\ state = "ready" /\ Owns(t) /\ NoOther(t) /\ sink = None
  BY DEF IInv, Session, CleanInv, Cleaning
<1>3. /\ continuation = None
      /\ \A u \in Tasks : stream[u] \in {"none", "done"}
  BY <1>2 DEF IInv, Session, CleanInv, NoOther, Working
<1>4. \A u \in Tasks : pc'[u] \in {"unused", "done"}
  BY <1>1 DEF IInv
<1>5. Alone' BY DEF IInv, Session, Alone, Acting, Working, InProgress
<1>6. IdleInv' BY <1>2, <1>3 DEF IInv, Session, IdleInv
<1>7. RecInv' BY <1>3 DEF IInv, Session, RecInv
<1>8. FreshInv' BY DEF IInv, Session, FreshInv, Starting, Stopping
<1>9. StartInv' BY <1>4 DEF StartInv, Starting
<1>10. CleanInv' BY <1>4 DEF CleanInv, Cleaning
<1>11. WorkInv' BY <1>3 DEF WorkInv, Working
<1>12. AsrInv' BY DEF IInv, Session, AsrInv
<1>13. StopInv' BY <1>4 DEF StopInv, Stopping
<1>14. TapInv' BY DEF IInv, Session, TapInv
<1> QED BY <1>5, <1>6, <1>7, <1>8, <1>9, <1>10, <1>11, <1>12, <1>13, <1>14 DEF Session

\* The microphone is off, for whatever session there is.
LEMMA StopAudioOffKeeps ==
    ASSUME IInv, NEW t \in Tasks, StopAudioOff(t)
    PROVE  Session'
<1> USE Names DEF TypeOK, appVars, prepVars, recVars, taskVars, sessVars, StopAudioOff
<1>1. /\ \A u \in Tasks : u # t => pc[u] \in {"unused", "done"} /\ pc'[u] = pc[u]
      /\ \A p \in Prepares : ~InProgress(p)
  BY OnlyTask DEF IInv, Acting
<1>2. /\ state \in {"finishing", "failed"} /\ mode[t] \in Modes /\ cat[t] = catcher /\ stream[t] = "none"
      /\ state = "finishing" => activeMode = mode[t]
      /\ state = "failed" => NoSession /\ activeMode = "none"
  BY DEF IInv, Session, StopInv, FreshInv, Stopping
<1>3. /\ pc'[t] = "stopAudioOff" /\ StopOn /\ StopOn'
      /\ \A s \in Tasks : ~Joined(s)
  BY <1>1 DEF IInv, StopOn, Stopping, Joined
<1>4. Alone' BY DEF IInv, Session, Alone, Acting, Working, InProgress
<1>5. IdleInv' BY DEF IInv, Session, IdleInv, Acting
<1>6. RecInv' BY DEF IInv, Session, RecInv, Working
<1>7. FreshInv' BY DEF IInv, Session, FreshInv, Stopping
<1>8. StartInv'
  BY DEF IInv, Session, StartInv, Starting, Owns, NoSession, NoOther, Working, Live
<1>9. CleanInv' BY DEF IInv, Session, CleanInv, Cleaning, Owns, NoOther, Working
<1>10. WorkInv' BY <1>3 DEF IInv, Session, WorkInv, Working, Owns, Cleaning
<1>11. AsrInv' BY DEF IInv, Session, AsrInv
<1>12. StopInv' BY DEF IInv, Session, StopInv, Stopping, NoSession, Working, NoOther, Live
<1>13. TapInv' BY DEF IInv, Session, TapInv
<1> QED BY <1>4, <1>5, <1>6, <1>7, <1>8, <1>9, <1>10, <1>11, <1>12, <1>13 DEF Session

\* A stop closes the stream that is open, and then waits for its audio task.
LEMMA StopDetachKeeps ==
    ASSUME IInv, NEW t \in Tasks, StopDetach(t)
    PROVE  Session'
<1> USE Names DEF TypeOK, appVars, prepVars, recVars, taskVars, sessVars, StopDetach
<1>1. /\ \A u \in Tasks : u # t => pc[u] \in {"unused", "done"} /\ pc'[u] = pc[u]
      /\ \A p \in Prepares : ~InProgress(p)
  BY OnlyTask DEF IInv, Acting, StopFinish
<1>2. /\ state \in {"finishing", "failed"} /\ mode[t] \in Modes /\ cat[t] = catcher /\ stream[t] = "none"
      /\ state = "finishing" => activeMode = mode[t]
      /\ state = "failed" => NoSession /\ activeMode = "none"
      /\ sink = None /\ audioTask = continuation /\ ~(state # "failed" /\ NoSession)
  BY DEF IInv, Session, StopInv, FreshInv, RecInv, Stopping
<1>3. continuation' = None /\ audioTask' = None /\ joins'[t] = continuation /\ StopOn
  BY <1>2 DEF IInv, CloseContinuation, StopOn, Stopping
<1>4. continuation = None => /\ UNCHANGED <<closed, asr>> /\ \A s \in Tasks : Working(s) => stream[s] = "failFinish"
         /\ \/ state = "failed" /\ pc'[t] = "done" /\ UNCHANGED ok
            \/ state = "finishing" /\ pc'[t] = "stopFinish" /\ ~ok'[t]
  <2> SUFFICES ASSUME continuation = None
               PROVE  /\ UNCHANGED <<closed, asr>>
                      /\ \A s \in Tasks : Working(s) => stream[s] = "failFinish"
                      /\ \/ state = "failed" /\ pc'[t] = "done" /\ UNCHANGED ok
                         \/ state = "finishing" /\ pc'[t] = "stopFinish" /\ ~ok'[t]
    OBVIOUS
  <2>1. StopFinish(t) /\ UNCHANGED closed BY <1>2 DEF CloseContinuation
  <2>2. \A s \in Tasks : Working(s) => stream[s] = "failFinish" /\ cat[s] = catcher
    BY <1>1 DEF IInv, Session, WorkInv, Owns, Joined
  <2>3. CASE state = "failed" BY <2>1, <2>2, <2>3 DEF IInv, StopFinish
  <2>4. CASE state # "failed"
    <3>1. PICK s \in Tasks : Working(s) BY <1>2, <2>4 DEF NoSession
    <3>2. asr[cat[t]] # "started" BY <1>2, <2>2, <3>1 DEF IInv, Session, AsrInv
    <3> QED BY <1>2, <2>1, <2>2, <2>4, <3>2 DEF IInv, StopFinish, AsrFinish
  <2> QED BY <2>3, <2>4
<1>5. continuation # None => /\ continuation \in Tasks /\ continuation # t /\ Working(continuation)
         /\ ~cancelled[continuation] /\ closed' = [closed EXCEPT ![continuation] = TRUE]
  BY <1>2 DEF IInv, Session, RecInv, Working, CloseContinuation
<1>6. continuation # None => NoOther(continuation)
  BY <1>5, OnlySession DEF NoOther, Working
<1>7. continuation # None => /\ pc'[t] = "stopJoin" /\ UNCHANGED <<asr, ok>>
         /\ StopOn' /\ \A s \in Tasks : s = continuation => Joined(s)'
  BY <1>2, <1>3, <1>5 DEF IInv, StopOn, Stopping, Joined
<1>8. Alone' BY <1>1 DEF IInv, Session, Alone, Acting, Working, InProgress
<1>9. IdleInv' BY <1>2, <1>3, <1>4 DEF IInv, Session, IdleInv, Acting
<1>10. RecInv' BY <1>2, <1>3 DEF RecInv
<1>11. FreshInv'
  <2> SUFFICES ASSUME NEW u \in Tasks
               PROVE  /\ pc'[u] \in {"unused"} \cup Starting \cup Stopping => stream'[u] = "none"
                      /\ stream'[u] = "none" => queue'[u] = 0 /\ ~closed'[u] /\ ~cancelled'[u]
    BY DEF FreshInv
  <2>1. pc'[u] \in {"unused"} \cup Starting \cup Stopping => stream[u] = "none"
    BY <1>1, <1>2 DEF IInv, Session, FreshInv, Starting, Stopping
  <2>2. stream[u] = "none" => closed'[u] = closed[u]
    BY <1>4, <1>5 DEF IInv, Working
  <2> QED BY <2>1, <2>2 DEF IInv, Session, FreshInv
<1>12. StartInv' BY <1>1, <1>4, <1>7 DEF StartInv, Starting
<1>13. CleanInv' BY <1>1, <1>4, <1>7 DEF CleanInv, Cleaning
<1>14. WorkInv'
  <2>1. CASE continuation = None
    BY <2>1, <1>1, <1>2, <1>3, <1>4, <1>5, <1>6, <1>7 DEF IInv, Session, WorkInv, Working,
       NoSession, NoOther, Owns, Cleaning, Live, Failing
  <2>2. CASE continuation # None
    BY <2>2, <1>1, <1>2, <1>3, <1>4, <1>5, <1>6, <1>7 DEF IInv, Session, WorkInv, Working,
       NoSession, NoOther, Owns, Cleaning, Live, Failing
  <2> QED BY <2>1, <2>2
<1>15. AsrInv' BY <1>4, <1>7 DEF IInv, Session, AsrInv
<1>16. StopInv'
  BY <1>1, <1>3, <1>4, <1>5, <1>6 DEF IInv, Session, StopInv, Stopping, NoSession, Working,
     NoOther
<1>17. TapInv'
  <2>1. CASE continuation = None
    BY <2>1, <1>1, <1>2, <1>4 DEF IInv, Session, TapInv, CloseContinuation
  <2>2. CASE continuation # None
    BY <2>2, <1>1, <1>2, <1>3, <1>5 DEF IInv, Session, TapInv
  <2> QED BY <2>1, <2>2
<1> QED BY <1>8, <1>9, <1>10, <1>11, <1>12, <1>13, <1>14, <1>15, <1>16, <1>17 DEF Session

\* The audio task that a stop has waited for is over.
LEMMA StopJoinedKeeps ==
    ASSUME IInv, NEW t \in Tasks, StopJoined(t)
    PROVE  Session'
<1> USE Names DEF TypeOK, appVars, prepVars, recVars, taskVars, sessVars, StopJoined
<1>1. /\ \A u \in Tasks : u # t => pc[u] \in {"unused", "done"} /\ pc'[u] = pc[u]
      /\ \A p \in Prepares : ~InProgress(p)
  BY OnlyTask DEF IInv, Acting, StopFinish
<1>2. /\ state \in {"finishing", "failed"} /\ mode[t] \in Modes /\ cat[t] = catcher /\ stream[t] = "none"
      /\ state = "finishing" => activeMode = mode[t]
      /\ state = "failed" => NoSession /\ activeMode = "none"
  BY DEF IInv, Session, StopInv, FreshInv, Stopping
<1>3. /\ joins[t] \in Tasks /\ stream[joins[t]] = "done" /\ continuation = None /\ sink = None
      /\ (state = "failed" \/ queue[joins[t]] = 0)
      /\ \A s \in Tasks : stream[s] \in {"none", "done"}
  BY DEF IInv, Session, StopInv, NoOther, Working
<1>4. \/ state = "failed" /\ pc'[t] = "done"
      \/ state = "finishing" /\ pc'[t] = "stopFinish"
  BY <1>2 DEF IInv, StopFinish
<1>5. Alone' BY <1>1 DEF IInv, Session, Alone, Acting, Working, InProgress
<1>6. IdleInv' BY <1>2, <1>3, <1>4 DEF IInv, Session, IdleInv, Acting
<1>7. RecInv' BY DEF IInv, Session, RecInv, Working
<1>8. FreshInv' BY <1>1 DEF IInv, Session, FreshInv, Stopping
<1>9. StartInv' BY <1>1, <1>4 DEF StartInv, Starting
<1>10. CleanInv' BY <1>1, <1>4 DEF CleanInv, Cleaning
<1>11. WorkInv' BY <1>3 DEF WorkInv, Working
<1>12. AsrInv' BY <1>3 DEF AsrInv
<1>13. StopInv'
  BY <1>1, <1>4 DEF IInv, Session, StopInv, Stopping, NoSession, Working, NoOther
<1>14. TapInv' BY <1>1 DEF IInv, Session, TapInv
<1> QED BY <1>5, <1>6, <1>7, <1>8, <1>9, <1>10, <1>11, <1>12, <1>13, <1>14 DEF Session

\* A stop ends with nobody at work.
LEMMA StopEndsKeeps ==
    ASSUME IInv, NEW t \in Tasks, StopEnds(t)
    PROVE  Session'
<1> USE Names DEF TypeOK, appVars, prepVars, recVars, taskVars, sessVars, StopEnds
<1>1. /\ \A u \in Tasks : u # t => pc[u] \in {"unused", "done"} /\ pc'[u] = pc[u]
      /\ \A p \in Prepares : ~InProgress(p)
  BY OnlyTask DEF IInv, Acting
<1>2. /\ state \in {"finishing", "failed"} /\ mode[t] \in Modes /\ cat[t] = catcher /\ stream[t] = "none"
      /\ state = "finishing" => activeMode = mode[t]
      /\ state = "failed" => NoSession /\ activeMode = "none"
  BY DEF IInv, Session, StopInv, FreshInv, Stopping
<1>3. \A s \in Tasks : stream[s] \in {"none", "done"}
  BY <1>2 DEF IInv, Session, StopInv, WorkInv, Working, Owns, AnswersInOrder
<1>4. /\ continuation = None /\ sink = None
      /\ ok[t] => joins[t] \in Tasks /\ joins[t] # t /\ stream[joins[t]] = "done"
  BY <1>2 DEF IInv, Session, StopInv
<1>5. /\ \A u \in Tasks : pc'[u] \in {"unused", "done"}
      /\ ok[t] => pc'[joins[t]] = "done"
  BY <1>1, <1>4 DEF IInv, Session, FreshInv
<1>6. Alone' BY DEF IInv, Session, Alone, Acting, Working, InProgress
<1>7. IdleInv' BY <1>1, <1>4 DEF IdleInv, InProgress
<1>8. RecInv' BY <1>4 DEF IInv, Session, RecInv
<1>9. FreshInv' BY DEF IInv, Session, FreshInv, Stopping
<1>10. StartInv' BY <1>5 DEF StartInv, Starting
<1>11. CleanInv' BY <1>5 DEF CleanInv, Cleaning
<1>12. WorkInv' BY <1>3 DEF WorkInv, Working
<1>13. AsrInv' BY DEF IInv, Session, AsrInv
<1>14. StopInv' BY <1>5 DEF StopInv, Stopping
<1>15. TapInv' BY <1>4, <1>5 DEF IInv, Session, TapInv
<1> QED BY <1>6, <1>7, <1>8, <1>9, <1>10, <1>11, <1>12, <1>13, <1>14, <1>15 DEF Session

\* Beside a running session there is only its own task, or one that stops it.
LEMMA Beside ==
    ASSUME IInv, NEW s \in Tasks, Working(s)
    PROVE  /\ \A u \in Tasks : u # s => pc[u] \in {"unused", "done"} \cup Stopping
           /\ \A u \in Tasks : pc[u] \in Stopping => u # s /\ state = "finishing"
           /\ \A u \in Tasks : pc[u] \notin Starting
<1>1. \A u \in Tasks : pc[u] \notin Starting
  BY DEF IInv, Session, StartInv, NoSession
<1>2. \A u \in Tasks : u # s => pc[u] \notin {"audioStart", "audioOn"} \cup Cleaning
  BY OnlySession DEF IInv, Session, StartInv, CleanInv, NoOther, Working
<1>3. \A u \in Tasks : u # s => pc[u] \in {"unused", "done"} \cup Stopping
  BY <1>1, <1>2 DEF IInv, TypeOK, TaskPcs, Starting, Cleaning, Stopping
<1>4. \A u \in Tasks : pc[u] \in Stopping => u # s /\ state = "finishing"
  BY DEF IInv, Session, StopInv, FreshInv, NoSession, Working
<1> QED BY <1>1, <1>3, <1>4

\* Inside a chunk an audio task disturbs nobody: of the invariant only what it
\* says of the clients is left to show.
LEMMA ChunkStep ==
    ASSUME IInv, NEW s \in Tasks, Live(s), Live(s)', pc[s] \in {"audioOn", "done"},
           \A u \in Tasks : u # s => stream'[u] = stream[u] /\ queue'[u] = queue[u],
           UNCHANGED <<state, activeMode, catcher, prepVars, recVars, taskVars,
                       closed, cancelled>>,
           messages' \in {messages, s}
    PROVE  /\ Alone' /\ IdleInv' /\ RecInv' /\ FreshInv' /\ StartInv'
           /\ CleanInv' /\ WorkInv' /\ StopInv' /\ TapInv'
<1> USE Names DEF prepVars, recVars, taskVars
<1>1. Working(s) /\ stream[s] # "none" /\ stream'[s] # "none" /\ Working(s)'
  BY DEF Live, Working
<1>2. /\ \A u \in Tasks : u # s => stream[u] \in {"none", "done"}
      /\ \A p \in Prepares : ~InProgress(p)
      /\ \A u \in Tasks : u # s => pc[u] \in {"unused", "done"} \cup Stopping
  BY <1>1, OnlySession, Beside
<1>3. (StopOn' <=> StopOn) /\ \A u \in Tasks : Joined(u)' <=> Joined(u)
  BY DEF StopOn, Joined
<1>4. Alone' BY DEF IInv, Session, Alone, Acting, Working, InProgress, Live
<1>5. IdleInv' BY DEF IInv, Session, IdleInv, Working, Live
<1>6. RecInv' BY DEF IInv, Session, RecInv, Working, Live, TypeOK
<1>7. FreshInv' BY DEF IInv, Session, FreshInv, Live
<1>8. StartInv'
  BY DEF IInv, Session, StartInv, Owns, NoSession, NoOther, Working, Live, Failing
<1>9. CleanInv' BY DEF IInv, Session, CleanInv, Owns, NoOther, Working, Live
<1>10. WorkInv' BY <1>3 DEF IInv, Session, WorkInv, Working, Owns, Live, Failing
<1>11. StopInv' BY DEF IInv, Session, StopInv, NoSession, Working, NoOther, Live
<1>12. TapInv' BY DEF IInv, Session, TapInv, Live, TypeOK
<1> QED BY <1>4, <1>5, <1>6, <1>7, <1>8, <1>9, <1>10, <1>11, <1>12

\* A chunk is taken from the stream of a session that has one.
LEMMA TakeChunkKeeps ==
    ASSUME IInv, NEW s \in Tasks, TakeChunk(s)
    PROVE  Session'
<1> USE DEF appVars, prepVars, recVars, taskVars, sessVars
<1>1. pc[s] \in {"audioOn", "done"} /\ Working(s)
  BY DEF IInv, Session, WorkInv, StartInv, CleanInv, Working, Cleaning, TakeChunk
<1>2. /\ Alone' /\ IdleInv' /\ RecInv' /\ FreshInv' /\ StartInv'
      /\ CleanInv' /\ WorkInv' /\ StopInv' /\ TapInv'
  BY <1>1, ChunkStep DEF IInv, TypeOK, Live, TakeChunk, Call
<1>3. AsrInv'
  BY DEF IInv, Session, TypeOK, AsrInv, TakeChunk, Call
<1> QED BY <1>2, <1>3 DEF Session

\* The client has taken the chunk.
LEMMA PushedKeeps ==
    ASSUME IInv, NEW s \in Tasks, Pushed(s)
    PROVE  Session'
<1> USE DEF appVars, prepVars, recVars, taskVars, sessVars
<1>1. pc[s] \in {"audioOn", "done"} /\ Working(s)
  BY DEF IInv, Session, WorkInv, StartInv, CleanInv, Working, Cleaning, Pushed
<1>2. /\ Alone' /\ IdleInv' /\ RecInv' /\ FreshInv' /\ StartInv'
      /\ CleanInv' /\ WorkInv' /\ StopInv' /\ TapInv'
  BY <1>1, ChunkStep DEF IInv, TypeOK, Live, Pushed, Call
<1>3. AsrInv'
  BY DEF IInv, Session, TypeOK, AsrInv, Pushed, Call
<1> QED BY <1>2, <1>3 DEF Session

\* The chunk is done.
LEMMA ChunkDoneKeeps ==
    ASSUME IInv, NEW s \in Tasks, ChunkDone(s)
    PROVE  Session'
<1> USE DEF appVars, prepVars, recVars, taskVars, sessVars
<1>1. pc[s] \in {"audioOn", "done"} /\ Working(s)
  BY DEF IInv, Session, WorkInv, StartInv, CleanInv, Working, Cleaning, ChunkDone
<1>2. /\ Alone' /\ IdleInv' /\ RecInv' /\ FreshInv' /\ StartInv'
      /\ CleanInv' /\ WorkInv' /\ StopInv' /\ TapInv'
  BY <1>1, ChunkStep DEF IInv, TypeOK, Live, ChunkDone
<1>3. AsrInv'
  BY DEF IInv, Session, TypeOK, AsrInv, ChunkDone
<1> QED BY <1>2, <1>3 DEF Session

\* The spotter has taken the chunk: the turn goes on, is cut or starts again.
LEMMA KwsPushedKeeps ==
    ASSUME IInv, NEW s \in Tasks, KwsPushed(s)
    PROVE  Session'
<1> USE DEF appVars, prepVars, recVars, taskVars, sessVars
<1>1. pc[s] \in {"audioOn", "done"} /\ Working(s)
  BY DEF IInv, Session, WorkInv, StartInv, CleanInv, Working, Cleaning, KwsPushed
<1>2. /\ Alone' /\ IdleInv' /\ RecInv' /\ FreshInv' /\ StartInv'
      /\ CleanInv' /\ WorkInv' /\ StopInv' /\ TapInv'
  BY <1>1, ChunkStep DEF IInv, TypeOK, Live, KwsPushed, RestartTurn, Call
<1>3. AsrInv'
  BY <1>1, OnlySession DEF IInv, Session, TypeOK, AsrInv, WorkInv, Owns, Working,
     KwsPushed, RestartTurn, AsrStart, AsrFinish, Call
<1> QED BY <1>2, <1>3 DEF Session

\* The turn that was cut is followed by another.
LEMMA TurnCutKeeps ==
    ASSUME IInv, NEW s \in Tasks, TurnCut(s)
    PROVE  Session'
<1> USE DEF appVars, prepVars, recVars, taskVars, sessVars
<1>1. pc[s] \in {"audioOn", "done"} /\ Working(s)
  BY DEF IInv, Session, WorkInv, StartInv, CleanInv, Working, Cleaning, TurnCut
<1>2. /\ Alone' /\ IdleInv' /\ RecInv' /\ FreshInv' /\ StartInv'
      /\ CleanInv' /\ WorkInv' /\ StopInv' /\ TapInv'
  BY <1>1, ChunkStep DEF IInv, TypeOK, Live, TurnCut, RestartTurn, Call
<1>3. AsrInv'
  BY <1>1, OnlySession DEF IInv, Session, TypeOK, AsrInv, WorkInv, Owns, Working, TurnCut,
     RestartTurn, AsrStart, Call
<1> QED BY <1>2, <1>3 DEF Session

\* An audio task ends when it is cancelled, or when its closed stream is empty.
LEMMA StreamEndsKeeps ==
    ASSUME IInv, NEW s \in Tasks, StreamEnds(s)
    PROVE  Session'
<1> USE Names DEF TypeOK, appVars, prepVars, recVars, taskVars, sessVars, StreamEnds
<1>1. Working(s)
  BY DEF Working
<1>2. /\ \A u \in Tasks : u # s => stream[u] \in {"none", "done"} /\ stream'[u] = stream[u]
      /\ \A p \in Prepares : ~InProgress(p)
  BY <1>1, OnlySession DEF IInv
<1>3. /\ \A u \in Tasks : u # s => pc[u] \in {"unused", "done"} \cup Stopping
      /\ \A u \in Tasks : pc[u] \in Stopping => u # s /\ state = "finishing"
      /\ Owns(s) /\ (continuation = None \/ continuation = s)
  BY <1>1, OnlySession, Beside DEF IInv, Session, WorkInv, RecInv, Working
<1>4. (StopOn' <=> StopOn) /\ \A u \in Tasks : Joined(u)' <=> Joined(u)
  BY DEF StopOn, Joined
<1>5. continuation = None /\ sink = None /\ Joined(s)
  BY <1>1, <1>3 DEF IInv, Session, RecInv, WorkInv
<1>6. PICK t \in Tasks : pc[t] \in {"cleanupJoin", "stopJoin"} /\ joins[t] = s
  BY <1>5 DEF Joined
<1>7. pc[s] \in {"cleanupJoin", "done"}
  BY <1>1, <1>5, <1>6, OnlyTask DEF IInv, Session, WorkInv, CleanInv, StartInv, Cleaning,
     Acting
<1>8. \A u \in Tasks : pc[u] \in Stopping => pc[u] = "stopJoin" /\ joins[u] = s /\ queue[s] = 0
  BY <1>1, <1>6 DEF IInv, Session, Alone, Acting, StopInv, Stopping, Live
<1>9. Alone' BY DEF IInv, Session, Alone, Acting, Working, InProgress
<1>10. IdleInv' BY <1>6 DEF IInv, Session, IdleInv, Acting
<1>11. RecInv' BY DEF IInv, Session, RecInv, Working
<1>12. FreshInv' BY DEF IInv, Session, FreshInv
<1>13. StartInv' BY <1>7 DEF IInv, Session, StartInv, Owns, NoSession, NoOther, Working
<1>14. CleanInv' BY <1>7 DEF IInv, Session, CleanInv, Owns, NoOther, Working
<1>15. WorkInv' BY <1>4 DEF IInv, Session, WorkInv, Working, Owns, Live
<1>16. AsrInv' BY DEF IInv, Session, AsrInv
<1>17. StopInv'
  BY <1>8 DEF IInv, Session, StopInv, Stopping, NoSession, Working, NoOther, Live
<1>18. TapInv' BY DEF IInv, Session, TapInv
<1> QED BY <1>9, <1>10, <1>11, <1>12, <1>13, <1>14, <1>15, <1>16, <1>17, <1>18 DEF Session

\* An operation of the audio task throws.
LEMMA FailStreamKeeps ==
    ASSUME IInv, NEW s \in Tasks, FailStream(s)
    PROVE  Session'
<1> USE Names DEF TypeOK, appVars, prepVars, recVars, taskVars, sessVars, FailStream
<1>1. Working(s)
  BY DEF Working
<1>2. /\ \A u \in Tasks : u # s => stream[u] \in {"none", "done"} /\ stream'[u] = stream[u]
      /\ \A p \in Prepares : ~InProgress(p)
  BY <1>1, OnlySession DEF IInv
<1>3. /\ \A u \in Tasks : u # s => pc[u] \in {"unused", "done"} \cup Stopping
      /\ \A u \in Tasks : pc[u] \in Stopping => u # s /\ state = "finishing"
      /\ Owns(s) /\ (continuation = None \/ continuation = s)
  BY <1>1, OnlySession, Beside DEF IInv, Session, WorkInv, RecInv, Working
<1>4. (StopOn' <=> StopOn) /\ \A u \in Tasks : Joined(u)' <=> Joined(u)
  BY DEF StopOn, Joined
<1>5. pc[s] \in {"audioOn", "done"}
  BY <1>1 DEF IInv, Session, WorkInv, StartInv, CleanInv, Cleaning
<1>6. Live(s)
  BY DEF Live
<1>7. Alone' BY DEF IInv, Session, Alone, Acting, Working, InProgress
<1>8. IdleInv' BY <1>2 DEF IdleInv, Working, InProgress
<1>9. RecInv' BY DEF IInv, Session, RecInv, Working
<1>10. FreshInv' BY DEF IInv, Session, FreshInv
<1>11. StartInv' BY <1>3 DEF IInv, Session, StartInv, NoSession, NoOther, Working, Live
<1>12. CleanInv' BY DEF IInv, Session, CleanInv, Cleaning, NoOther, Working
<1>13. WorkInv' BY <1>2, <1>4 DEF IInv, Session, WorkInv, Working, Owns, Live
<1>14. AsrInv' BY DEF IInv, Session, AsrInv
<1>15. StopInv' BY DEF IInv, Session, StopInv, NoSession, Working, NoOther, Live
<1>16. TapInv' BY DEF IInv, Session, TapInv
<1> QED BY <1>7, <1>8, <1>9, <1>10, <1>11, <1>12, <1>13, <1>14, <1>15, <1>16 DEF Session

\* The failed session has switched the microphone off.
LEMMA FailAudioOffKeeps ==
    ASSUME IInv, NEW s \in Tasks, FailAudioOff(s)
    PROVE  Session'
<1> USE Names DEF TypeOK, appVars, prepVars, recVars, taskVars, sessVars, FailAudioOff
<1>1. Working(s)
  BY DEF Working
<1>2. /\ \A u \in Tasks : u # s => stream[u] \in {"none", "done"} /\ stream'[u] = stream[u]
      /\ \A p \in Prepares : ~InProgress(p)
  BY <1>1, OnlySession DEF IInv
<1>3. /\ \A u \in Tasks : u # s => pc[u] \in {"unused", "done"} \cup Stopping
      /\ \A u \in Tasks : pc[u] \in Stopping => u # s /\ state = "finishing"
      /\ Owns(s) /\ (continuation = None \/ continuation = s)
  BY <1>1, OnlySession, Beside DEF IInv, Session, WorkInv, RecInv, Working
<1>4. (StopOn' <=> StopOn) /\ \A u \in Tasks : Joined(u)' <=> Joined(u)
  BY DEF StopOn, Joined
<1>5. Alone' BY DEF IInv, Session, Alone, Acting, Working, InProgress
<1>6. IdleInv' BY DEF IInv, Session, IdleInv, Working
<1>7. RecInv' BY DEF IInv, Session, RecInv, Working
<1>8. FreshInv' BY DEF IInv, Session, FreshInv
<1>9. StartInv'
  BY DEF IInv, Session, StartInv, Owns, NoSession, NoOther, Working, Live, Failing
<1>10. CleanInv' BY DEF IInv, Session, CleanInv, Owns, NoOther, Working
<1>11. WorkInv' BY <1>4 DEF IInv, Session, WorkInv, Working, Owns, Live, Failing
<1>12. AsrInv' BY DEF IInv, Session, AsrInv
<1>13. StopInv' BY DEF IInv, Session, StopInv, NoSession, Working, NoOther, Live
<1>14. TapInv' BY DEF IInv, Session, TapInv
<1> QED BY <1>5, <1>6, <1>7, <1>8, <1>9, <1>10, <1>11, <1>12, <1>13, <1>14 DEF Session

\* The failed session closes its stream and finishes its client.
LEMMA FailDetachKeeps ==
    ASSUME IInv, NEW s \in Tasks, FailDetach(s)
    PROVE  Session'
<1> USE Names DEF TypeOK, appVars, prepVars, recVars, taskVars, sessVars, FailDetach
<1>1. Working(s)
  BY DEF Working
<1>2. /\ \A u \in Tasks : u # s => stream[u] \in {"none", "done"} /\ stream'[u] = stream[u]
      /\ \A p \in Prepares : ~InProgress(p)
  BY <1>1, OnlySession DEF IInv
<1>3. /\ \A u \in Tasks : u # s => pc[u] \in {"unused", "done"} \cup Stopping
      /\ \A u \in Tasks : pc[u] \in Stopping => u # s /\ state = "finishing"
      /\ Owns(s) /\ (continuation = None \/ continuation = s)
  BY <1>1, OnlySession, Beside DEF IInv, Session, WorkInv, RecInv, Working
<1>4. (StopOn' <=> StopOn) /\ \A u \in Tasks : Joined(u)' <=> Joined(u)
  BY DEF StopOn, Joined
<1>5. sink = None /\ audioTask = continuation /\ continuation' = None /\ audioTask' = None
  BY <1>3 DEF IInv, Session, RecInv, CloseContinuation, CancelAudioTask
<1>6. \A u \in Tasks : u # s => closed'[u] = closed[u] /\ cancelled'[u] = cancelled[u]
  BY <1>3, <1>5 DEF IInv, CloseContinuation, CancelAudioTask
<1>7. \A u \in Tasks : closed[u] => closed'[u]
  BY DEF IInv, CloseContinuation
<1>8. \A u \in Tasks : pc[u] = "stopJoin" => joins[u] = s
  BY <1>1 DEF IInv, Session, StopInv, NoOther
<1>9. asr'[cat[s]] # "started"
  BY <1>3 DEF IInv, Owns, AsrFinish
<1>10. Alone' BY DEF IInv, Session, Alone, Acting, Working, InProgress
<1>11. IdleInv' BY DEF IInv, Session, IdleInv, Working
<1>12. RecInv' BY <1>5 DEF RecInv
<1>13. FreshInv' BY <1>6 DEF IInv, Session, FreshInv
<1>14. StartInv'
  BY <1>3 DEF IInv, Session, StartInv, NoSession, NoOther, Working, Live, Failing
<1>15. CleanInv' BY DEF IInv, Session, CleanInv, Cleaning, NoOther, Working
<1>16. WorkInv' BY <1>3, <1>4 DEF IInv, Session, WorkInv, Working, Owns, Live, Failing
<1>17. AsrInv' BY <1>2, <1>9 DEF AsrInv
<1>18. StopInv' BY <1>5, <1>7 DEF IInv, Session, StopInv, NoSession, Working, NoOther, Live
<1>19. TapInv' BY <1>2, <1>3, <1>5, <1>6 DEF IInv, Session, TapInv, CloseContinuation
<1> QED BY <1>10, <1>11, <1>12, <1>13, <1>14, <1>15, <1>16, <1>17, <1>18, <1>19 DEF Session

\* A failed session ends in the failed state.
LEMMA FailEndsKeeps ==
    ASSUME IInv, NEW s \in Tasks, FailEnds(s)
    PROVE  Session'
<1> USE Names DEF TypeOK, appVars, prepVars, recVars, taskVars, sessVars, FailEnds
<1>1. Working(s)
  BY DEF Working
<1>2. /\ \A u \in Tasks : u # s => stream[u] \in {"none", "done"} /\ stream'[u] = stream[u]
      /\ \A p \in Prepares : ~InProgress(p)
  BY <1>1, OnlySession DEF IInv
<1>3. /\ \A u \in Tasks : u # s => pc[u] \in {"unused", "done"} \cup Stopping
      /\ \A u \in Tasks : pc[u] \in Stopping => u # s /\ state = "finishing"
      /\ Owns(s) /\ (continuation = None \/ continuation = s)
  BY <1>1, OnlySession, Beside DEF IInv, Session, WorkInv, RecInv, Working
<1>4. (StopOn' <=> StopOn) /\ \A u \in Tasks : Joined(u)' <=> Joined(u)
  BY DEF StopOn, Joined
<1>5. continuation = None /\ sink = None
  BY <1>1, <1>3 DEF IInv, Session, RecInv
<1>6. Alone' BY DEF IInv, Session, Alone, Acting, Working, InProgress
<1>7. IdleInv' BY <1>2, <1>5 DEF IdleInv, InProgress
<1>8. RecInv' BY <1>5 DEF IInv, Session, RecInv
<1>9. FreshInv' BY DEF IInv, Session, FreshInv
<1>10. StartInv'
  BY <1>5 DEF IInv, Session, StartInv, NoSession, NoOther, Working, Live, Failing
<1>11. CleanInv' BY DEF IInv, Session, CleanInv, Cleaning, NoOther, Working
<1>12. WorkInv' BY <1>2 DEF IInv, WorkInv, Working
<1>13. AsrInv' BY DEF IInv, Session, AsrInv
<1>14. StopInv' BY <1>2 DEF IInv, Session, StopInv, NoSession, Working, NoOther, Live
<1>15. TapInv' BY DEF IInv, Session, TapInv
<1> QED BY <1>6, <1>7, <1>8, <1>9, <1>10, <1>11, <1>12, <1>13, <1>14, <1>15 DEF Session

\* A callback of the tap starts only for the session that is open.
LEMMA CaptureKeeps ==
    ASSUME IInv, NEW s \in Tasks, Capture(s)
    PROVE  Session'
<1> USE Names DEF TypeOK, appVars, prepVars, recVars, taskVars, sessVars, Capture
<1>1. continuation = s /\ Working(s) /\ stream[s] # "none" /\ stream[s] # "done"
  BY DEF IInv, Session, RecInv, Working
<1>2. pc[s] \in {"audioOn", "done"}
  BY <1>1 DEF IInv, Session, WorkInv, StartInv, CleanInv, Cleaning
<1>3. (StopOn' <=> StopOn) /\ \A u \in Tasks : Joined(u)' <=> Joined(u)
  BY DEF StopOn, Joined
<1>4. Alone' BY DEF IInv, Session, Alone, Acting, Working, InProgress
<1>5. IdleInv' BY DEF IInv, Session, IdleInv, Acting, Working
<1>6. RecInv' BY DEF IInv, Session, RecInv, Working
<1>7. FreshInv' BY DEF IInv, Session, FreshInv
<1>8. StartInv' BY DEF IInv, Session, StartInv, Owns, NoSession, NoOther, Working, Live
<1>9. CleanInv' BY DEF IInv, Session, CleanInv, Owns, NoOther, Working
<1>10. WorkInv' BY <1>3 DEF IInv, Session, WorkInv, Working, Owns, Live
<1>11. AsrInv' BY DEF IInv, Session, AsrInv
<1>12. StopInv' BY DEF IInv, Session, StopInv, NoSession, Working, NoOther, Live
<1>13. TapInv' BY <1>1, <1>2 DEF IInv, Session, TapInv
<1> QED BY <1>4, <1>5, <1>6, <1>7, <1>8, <1>9, <1>10, <1>11, <1>12, <1>13 DEF Session

\* The tap delivers to the session that is open, or the chunk is dropped.
LEMMA DeliverKeeps ==
    ASSUME IInv, NEW s \in Tasks, Deliver(s)
    PROVE  Session'
<1> USE Names DEF TypeOK, appVars, prepVars, recVars, taskVars, sessVars, Deliver
<1>1. /\ pc[s] \in {"audioOn", "done"} /\ stream[s] # "none"
      /\ \A u \in Tasks : u # s => queue'[u] = queue[u]
  BY DEF IInv, Session, TapInv
<1>2. \/ queue' = queue
      \/ continuation = s /\ Working(s) /\ stream[s] # "done" /\ stream[s] # "failFinish"
  BY DEF IInv, Session, TapInv, RecInv, Working
<1>3. (StopOn' <=> StopOn) /\ \A u \in Tasks : Joined(u)' <=> Joined(u)
  BY DEF StopOn, Joined
<1>4. Alone' BY DEF IInv, Session, Alone, Acting, Working, InProgress
<1>5. IdleInv' BY DEF IInv, Session, IdleInv, Acting, Working
<1>6. RecInv' BY DEF IInv, Session, RecInv, Working
<1>7. FreshInv' BY <1>1 DEF IInv, Session, FreshInv
<1>8. StartInv' BY <1>1 DEF IInv, Session, StartInv, Owns, NoSession, NoOther, Working, Live
<1>9. CleanInv' BY <1>1 DEF IInv, Session, CleanInv, Cleaning, Owns, NoOther, Working
<1>10. WorkInv' BY <1>3 DEF IInv, Session, WorkInv, Working, Owns, Live
<1>11. AsrInv' BY DEF IInv, Session, AsrInv
<1>12. StopInv'
  <2>1. \A u \in Tasks : stream[u] = "done" => queue'[u] = queue[u]
    BY <1>1, <1>2
  <2> QED BY <2>1 DEF IInv, Session, StopInv, NoSession, Working, NoOther, Live
<1>13. TapInv'
  <2>1. tap' = None OBVIOUS
  <2> QED BY <2>1 DEF IInv, Session, TapInv
<1> QED BY <1>4, <1>5, <1>6, <1>7, <1>8, <1>9, <1>10, <1>11, <1>12, <1>13 DEF Session

-----------------------------------------------------------------------------
(* What follows                                                            *)

\* Before the first click nobody is at work.
LEMMA InitSession == Init => Session
<1> SUFFICES ASSUME Init PROVE Session
  OBVIOUS
<1> USE DEF Init
<1>1. \A t \in Tasks : pc[t] = "unused" /\ stream[t] = "none"
  OBVIOUS
<1>2. Alone BY <1>1 DEF Alone, Acting, Working, InProgress
<1>3. IdleInv BY DEF IdleInv
<1>4. RecInv BY DEF RecInv
<1>5. FreshInv BY DEF FreshInv
<1>6. StartInv BY <1>1 DEF StartInv, Starting
<1>7. CleanInv BY <1>1 DEF CleanInv, Cleaning
<1>8. WorkInv BY <1>1 DEF WorkInv, Working
<1>9. AsrInv BY <1>1 DEF AsrInv
<1>10. StopInv BY <1>1 DEF StopInv, Stopping
<1>11. TapInv BY DEF TapInv
<1> QED
  BY <1>2, <1>3, <1>4, <1>5, <1>6, <1>7, <1>8, <1>9, <1>10, <1>11 DEF Session

\* The invariant says nothing of the spotter's preparation.
LEMMA SessionFrame ==
    ASSUME Session, UNCHANGED <<appVars, prepPc, recVars, taskVars, sessVars>>
    PROVE  Session'
<1> USE DEF appVars, recVars, taskVars, sessVars
<1>1. (StopOn' <=> StopOn) /\ \A s \in Tasks : Joined(s)' <=> Joined(s)
  BY DEF StopOn, Joined
<1>2. Alone' BY DEF Session, Alone, Acting, Working, InProgress
<1>3. IdleInv' BY DEF Session, IdleInv, Acting, Working
<1>4. RecInv' BY DEF Session, RecInv, Working
<1>5. FreshInv' BY DEF Session, FreshInv
<1>6. StartInv' BY DEF Session, StartInv, Owns, NoSession, NoOther, Working, Live
<1>7. CleanInv' BY DEF Session, CleanInv, Owns, NoOther, Working
<1>8. WorkInv' BY <1>1 DEF Session, WorkInv, Working, Owns, Live
<1>9. AsrInv' BY DEF Session, AsrInv
<1>10. StopInv' BY DEF Session, StopInv, NoSession, Working, NoOther, Live
<1>11. TapInv' BY DEF Session, TapInv
<1> QED BY <1>2, <1>3, <1>4, <1>5, <1>6, <1>7, <1>8, <1>9, <1>10, <1>11 DEF Session

\* The keyword spotter's preparation is no concern of the invariant.
LEMMA VoiceKeeps ==
    ASSUME IInv, PrepareVoiceInput \/ VoiceStep
    PROVE  Session'
<1>1. UNCHANGED <<appVars, prepPc, recVars, taskVars, sessVars>>
  BY DEF PrepareVoiceInput, VoiceStep, VoiceInstalled, VoiceLoaded, VoiceFailed
<1> QED BY <1>1, SessionFrame DEF IInv

\* Every step of a patient user's app keeps the invariant.
LEMMA StepIInv ==
    ASSUME Patient, IInv, [Next]_vars
    PROVE  IInv'
<1>1. TypeOK' BY StepKeepsType DEF IInv
<1>2. CASE UserStep
  <2>1. Settled BY <1>2 DEF UserStep
  <2>2. CASE \E p \in Prepares : ClickPrepare(p)
    BY <1>1, <2>1, <2>2, ClickPrepareKeeps DEF IInv
  <2>3. CASE \E t \in Tasks, m \in Modes : ToggleStart(t, m) \/ ToggleStop(t, m)
    BY <1>1, <2>1, <2>3, ToggleStartKeeps, ToggleStopKeeps DEF IInv
  <2>4. CASE PrepareVoiceInput BY <1>1, <2>4, VoiceKeeps DEF IInv
  <2>5. CASE ClearTranscript BY <1>1, <2>5, ClearTranscriptKeeps DEF IInv
  <2> QED BY <1>2, <2>2, <2>3, <2>4, <2>5 DEF UserStep
<1>3. CASE \E p \in Prepares : PrepareStep(p)
  BY <1>1, <1>3, RunPrepareKeeps, PrepareInstalledKeeps, PrepareLoadedKeeps,
     PrepareFailedKeeps DEF PrepareStep, IInv
<1>4. CASE VoiceStep BY <1>1, <1>4, VoiceKeeps DEF IInv
<1>5. ASSUME NEW t \in Tasks, TaskStep(t) PROVE IInv'
  BY <1>1, <1>5, StartedCatcherKeeps, StartedSpotterKeeps, EngineStartKeeps,
     EngineStartFailsKeeps, RecordingKeeps, CleanupAudioOffKeeps, CleanupDetachKeeps,
     CleanupJoinedKeeps, CleanupEndsKeeps, StopAudioOffKeeps, StopDetachKeeps,
     StopJoinedKeeps, StopEndsKeeps DEF TaskStep, IInv
<1>6. ASSUME NEW s \in Tasks, StreamStep(s) \/ Capture(s) \/ Deliver(s) PROVE IInv'
  BY <1>1, <1>6, TakeChunkKeeps, StreamEndsKeeps, PushedKeeps, KwsPushedKeeps,
     TurnCutKeeps, ChunkDoneKeeps, FailStreamKeeps, FailAudioOffKeeps, FailDetachKeeps,
     FailEndsKeeps, CaptureKeeps, DeliverKeeps DEF StreamStep, IInv
<1>7. CASE UNCHANGED vars
  BY <1>1, <1>7, SessionFrame DEF vars, prepVars, IInv
<1> QED BY <1>2, <1>3, <1>4, <1>5, <1>6, <1>7 DEF Next

\* The app of a patient user keeps the invariant for ever.
LEMMA SessionHolds == ASSUME Patient PROVE Spec => []IInv
<1>1. Init => IInv BY InitSession, InitType DEF IInv
<1>2. IInv /\ [Next]_vars => IInv' BY StepIInv
<1> QED BY <1>1, <1>2, PTL DEF Spec

\* The microphone is on for the session whose mode the app shows, and only while
\* its audio task runs: no order of clicks, answers and failures leaves the tap
\* feeding a session that is over.
THEOREM MicrophoneIsOwned == ASSUME Patient PROVE Spec => []MicrophoneFollowsMode
<1>1. IInv => MicrophoneFollowsMode
  BY DEF IInv, Session, RecInv, MicrophoneFollowsMode
<1> QED BY <1>1, SessionHolds, PTL

\* Two sessions are never alive together, whatever await a start, a stop or a
\* failing audio task is at when the next click comes.
THEOREM SessionsTakeTurns == ASSUME Patient PROVE Spec => []OneLiveSession
<1>1. IInv => OneLiveSession
  BY DEF IInv, Session, Alone, OneLiveSession, Live, Working
<1> QED BY <1>1, SessionHolds, PTL

\* The client of a session that pushes has been started and not finished: no
\* chunk is refused because a cleanup or a stop has overtaken it.
THEOREM ClientsStandReady == ASSUME Patient PROVE Spec => []PushIsNeverRefused
<1>1. IInv => PushIsNeverRefused
  BY DEF IInv, Session, AsrInv, PushIsNeverRefused
<1> QED BY <1>1, SessionHolds, PTL

\* A stop that ends well has waited for an audio task that took every chunk of
\* its stream.
THEOREM StopsKeepAllAudio == ASSUME Patient PROVE Spec => StopKeepsAllAudio
<1>1. IInv => \A t \in Tasks : pc[t] = "stopFinish" /\ ok[t] =>
                  joins[t] # None /\ queue[joins[t]] = 0 /\ stream[joins[t]] = "done"
  BY Names DEF IInv, Session, StopInv
<1>2. IInv /\ [Next]_vars =>
        [\A t \in Tasks : pc[t] = "stopFinish" /\ ok[t] /\ pc'[t] = "done" =>
            joins[t] # None /\ queue[joins[t]] = 0 /\ stream[joins[t]] = "done"]_vars
  BY <1>1
<1> QED BY <1>2, SessionHolds, PTL DEF Spec, StopKeepsAllAudio

-----------------------------------------------------------------------------
(* The transcript on the screen                                            *)

\* No later session has ever had a stream.
Newest(s) == \A u \in Tasks : u > s => stream[u] = "none"

\* Clicks come in the order of the tasks, a start that waits for its engines is the
\* last click so far, and the sessions that may still write are the newest.
NewInv ==
    /\ \A t, u \in Tasks : u < t /\ pc[u] = "unused" => pc[t] = "unused"
    /\ \A t, u \in Tasks : t < u /\ pc[t] \in Starting => pc[u] = "unused"
    /\ \A s \in Tasks : Working(s) => Newest(s)
    /\ \A t \in Tasks : pc[t] \in {"stopJoin", "stopFinish"} /\ joins[t] # None =>
          Newest(joins[t])
    /\ TranscriptIsOfTheNewest

\* A step that makes no click and opens no stream keeps this if what it writes on
\* the screen, or gives a stop to wait for, is of the newest session.
LEMMA NewFrame ==
    ASSUME NewInv, UNCHANGED mode,
           \A t \in Tasks : pc'[t] = "unused" <=> pc[t] = "unused",
           \A t \in Tasks : pc'[t] \in Starting => pc[t] \in Starting,
           \A t \in Tasks : stream'[t] = "none" <=> stream[t] = "none",
           \A t \in Tasks : Working(t)' => Working(t),
           \A t \in Tasks : pc'[t] \in {"stopJoin", "stopFinish"} /\ joins'[t] # None =>
              \/ pc[t] \in {"stopJoin", "stopFinish"} /\ joins'[t] = joins[t]
              \/ Newest(joins'[t]),
           messages' \in {messages, None} \/ (messages' \in Tasks /\ Newest(messages'))
    PROVE  NewInv'
<1>1. \A s : Newest(s)' <=> Newest(s) BY DEF Newest
<1>2. TranscriptIsOfTheNewest'
  <2>1. CASE messages' \in {messages, None}
    BY <2>1 DEF NewInv, TranscriptIsOfTheNewest
  <2>2. CASE messages' \in Tasks /\ Newest(messages')
    BY <2>2 DEF TranscriptIsOfTheNewest, Newest, Tasks
  <2> QED BY <2>1, <2>2
<1>3. \A t \in Tasks : pc'[t] \in {"stopJoin", "stopFinish"} /\ joins'[t] # None =>
          Newest(joins'[t])
  BY DEF NewInv
<1>4. \A s \in Tasks : Working(s)' => Newest(s)' BY <1>1 DEF NewInv
<1>5. /\ \A t, u \in Tasks : u < t /\ pc'[u] = "unused" => pc'[t] = "unused"
      /\ \A t, u \in Tasks : t < u /\ pc'[t] \in Starting => pc'[u] = "unused"
  BY DEF NewInv
<1> QED BY <1>1, <1>2, <1>3, <1>4, <1>5 DEF NewInv

\* A click is the newest task, and no start waits for its engines meanwhile.
LEMMA ClickKeepsNew ==
    ASSUME IInv, NewInv, NEW t \in Tasks, NEW m \in Modes, ToggleStart(t, m) \/ ToggleStop(t, m)
    PROVE  NewInv'
<1> USE Names DEF IInv, Session
<1>1. /\ NextTask(t) /\ UNCHANGED <<messages, joins, stream>>
      /\ mode' = [mode EXCEPT ![t] = m]
      /\ \A u \in Tasks : u # t => pc'[u] = pc[u]
      /\ pc'[t] \in {"catcherStart", "stopAudioStop"}
  BY DEF ToggleStart, ToggleStop, sessVars, TypeOK
<1>2. /\ pc[t] = "unused" /\ \A u \in Tasks : u < t => pc[u] # "unused"
      /\ stream[t] = "none"
  BY <1>1 DEF NextTask, FreshInv
<1>3. \A u \in Tasks : pc[u] \notin Starting
  BY DEF ToggleStart, ToggleStop, StartInv, Owns
<1>4. \A u \in Tasks : u > t => pc[u] = "unused" BY <1>2 DEF NewInv, Tasks
<1>5. \A t1, u \in Tasks : u < t1 /\ pc'[u] = "unused" => pc'[t1] = "unused"
  <2> SUFFICES ASSUME NEW t1 \in Tasks, NEW u \in Tasks, u < t1, pc'[u] = "unused"
               PROVE  pc'[t1] = "unused"
    OBVIOUS
  <2>1. u # t /\ pc[u] = "unused" BY <1>1
  <2>2. t1 # t BY <1>2, <2>1
  <2> QED BY <1>1, <2>1, <2>2 DEF NewInv
<1>6. \A t1, u \in Tasks : t1 < u /\ pc'[t1] \in Starting => pc'[u] = "unused"
  <2> SUFFICES ASSUME NEW t1 \in Tasks, NEW u \in Tasks, t1 < u, pc'[t1] \in Starting
               PROVE  pc'[u] = "unused"
    OBVIOUS
  <2>1. t1 = t BY <1>1, <1>3
  <2>2. u > t /\ u # t BY <2>1 DEF Tasks
  <2> QED BY <1>1, <1>4, <2>2
<1>7. \A s : Newest(s)' <=> Newest(s) BY <1>1 DEF Newest
<1>8. \A s \in Tasks : Working(s)' => Newest(s)' BY <1>1, <1>7 DEF NewInv, Working
<1>9. \A u \in Tasks : pc'[u] \in {"stopJoin", "stopFinish"} /\ joins'[u] # None =>
          Newest(joins[u])'
  <2> SUFFICES ASSUME NEW u \in Tasks, pc'[u] \in {"stopJoin", "stopFinish"},
                      joins'[u] # None
               PROVE  Newest(joins[u])
    BY <1>1 DEF Newest
  <2>1. u # t /\ pc[u] \in {"stopJoin", "stopFinish"} BY <1>1
  <2> QED BY <1>1, <2>1 DEF NewInv
<1>10. TranscriptIsOfTheNewest'
  <2>1. \A u \in Tasks : stream'[u] # "none" => u # t /\ mode'[u] = mode[u]
    BY <1>1, <1>2 DEF TypeOK
  <2> QED BY <1>1, <2>1 DEF NewInv, TranscriptIsOfTheNewest
<1> QED BY <1>5, <1>6, <1>8, <1>9, <1>10 DEF NewInv

\* A start opens the newest stream, and wipes the screen if it is to write there.
LEMMA OpenKeepsNew ==
    ASSUME IInv, NewInv, NEW t \in Tasks, pc[t] \in Starting, OpenStream(t), UNCHANGED <<mode, joins>>
    PROVE  NewInv'
<1> USE DEF IInv, Session
<1>1. /\ stream' = [stream EXCEPT ![t] = "wait"] /\ pc' = [pc EXCEPT ![t] = "audioStart"]
      /\ messages' = IF mode[t] = "transcription" THEN None ELSE messages
  BY DEF OpenStream
<1>2. /\ \A u \in Tasks : u # t => stream'[u] = stream[u] /\ pc'[u] = pc[u]
      /\ pc'[t] = "audioStart" /\ stream'[t] = "wait"
  BY <1>1 DEF TypeOK
<1>3. Newest(t)'
  <2> SUFFICES ASSUME NEW u \in Tasks, u > t PROVE stream'[u] = "none"
    BY DEF Newest
  <2>1. u # t /\ t < u BY DEF Tasks
  <2>2. pc[u] = "unused" BY <2>1 DEF NewInv
  <2> QED BY <1>2, <2>1, <2>2 DEF FreshInv
<1>4. \A s \in Tasks : Working(s)' => s = t
  BY <1>2 DEF StartInv, NoSession, Working
<1>5. \A u \in Tasks : pc'[u] \notin {"stopJoin", "stopFinish"}
  <2>1. Acting(t) BY DEF Acting, Starting
  <2> QED BY <1>2, <2>1, OnlyTask
<1>6. /\ \A t1, u \in Tasks : u < t1 /\ pc'[u] = "unused" => pc'[t1] = "unused"
      /\ \A t1, u \in Tasks : t1 < u /\ pc'[t1] \in Starting => pc'[u] = "unused"
  <2>1. \A u \in Tasks : /\ pc'[u] = "unused" <=> pc[u] = "unused"
                         /\ pc'[u] \in Starting => pc[u] \in Starting
    BY <1>2 DEF Starting
  <2> QED BY <2>1 DEF NewInv
<1>7. TranscriptIsOfTheNewest'
  <2>1. CASE mode[t] = "transcription" BY <1>1, <2>1 DEF TranscriptIsOfTheNewest
  <2>2. CASE mode[t] # "transcription"
    <3>1. \A u \in Tasks : mode'[u] = "transcription" => u # t /\ stream'[u] = stream[u]
      BY <1>2, <2>2
    <3> QED BY <1>1, <2>2, <3>1 DEF NewInv, TranscriptIsOfTheNewest
  <2> QED BY <2>1, <2>2
<1> QED BY <1>3, <1>4, <1>5, <1>6, <1>7 DEF NewInv

\* The stop of a session that still runs is of the newest one.
LEMMA DetachKeepsNew ==
    ASSUME IInv, NewInv, NEW t \in Tasks, StopDetach(t)
    PROVE  NewInv'
<1> USE Names DEF StopDetach
<1>1. /\ UNCHANGED <<mode, stream, messages>>
      /\ \A u \in Tasks : u # t => pc'[u] = pc[u] /\ joins'[u] = joins[u]
      /\ pc'[t] \in {"stopJoin", "stopFinish", "done"} /\ joins'[t] = audioTask
  BY DEF IInv, TypeOK, StopFinish
<1>2. audioTask # None => audioTask \in Tasks /\ Newest(audioTask)
  BY DEF IInv, Session, TypeOK, RecInv, NewInv
<1>3. \A u \in Tasks : /\ pc'[u] = "unused" <=> pc[u] = "unused"
                       /\ pc'[u] \in Starting => pc[u] \in Starting
                       /\ Working(u)' => Working(u)
  BY <1>1 DEF Starting, Working
<1>4. \A u \in Tasks : pc'[u] \in {"stopJoin", "stopFinish"} /\ joins'[u] # None =>
          \/ pc[u] \in {"stopJoin", "stopFinish"} /\ joins'[u] = joins[u]
          \/ Newest(joins'[u])
  BY <1>1, <1>2
<1> QED BY <1>1, <1>3, <1>4, NewFrame

\* A start, the undoing of one and a stop.
LEMMA TaskKeepsNew ==
    ASSUME IInv, NewInv, NEW t \in Tasks, TaskStep(t)
    PROVE  NewInv'
<1>1. CASE (StartedCatcher(t) \/ StartedSpotter(t)) /\ OpenStream(t)
  BY <1>1, OpenKeepsNew DEF StartedCatcher, StartedSpotter, Starting
<1>2. CASE StopDetach(t) BY <1>2, DetachKeepsNew
<1>3. CASE StopEnds(t)
  <2> USE <1>3 DEF StopEnds
  <2>1. /\ UNCHANGED <<mode, stream, joins>>
        /\ \A u \in Tasks : u # t => pc'[u] = pc[u]
        /\ pc'[t] = "done" /\ pc[t] = "stopFinish"
    BY DEF IInv, TypeOK, sessVars
  <2>2. \A u \in Tasks : /\ pc'[u] = "unused" <=> pc[u] = "unused"
                         /\ pc'[u] \in Starting => pc[u] \in Starting
                         /\ Working(u)' => Working(u)
                         /\ pc'[u] \in {"stopJoin", "stopFinish"} =>
                                pc[u] \in {"stopJoin", "stopFinish"}
    BY <2>1 DEF Starting, Working
  <2>3. messages' = messages \/ (messages' \in Tasks /\ Newest(messages'))
    <3>1. CASE ok[t]
      <4>1. joins[t] \in Tasks BY <2>1, <3>1 DEF IInv, Session, StopInv
      <4> QED BY <2>1, <4>1, Names DEF NewInv
    <3>2. CASE ~ok[t] BY <3>2
    <3> QED BY <3>1, <3>2
  <2> QED BY <2>1, <2>2, <2>3, NewFrame
<1>4. CASE /\ ~(StopDetach(t) \/ StopEnds(t))
           /\ ~((StartedCatcher(t) \/ StartedSpotter(t)) /\ OpenStream(t))
  <2>1. UNCHANGED <<mode, stream, messages>>
    <3>1. CASE StartedCatcher(t)
      BY <1>4, <3>1 DEF StartedCatcher, BeginCleanup
    <3>2. CASE StartedSpotter(t)
      BY <1>4, <3>2 DEF StartedSpotter, BeginCleanup
    <3>3. CASE EngineStart(t) \/ EngineStartFails(t) \/ Recording(t)
      BY <3>3 DEF EngineStart, EngineStartFails, Recording, appVars, sessVars
    <3>4. CASE CleanupAudioOff(t) \/ CleanupDetach(t) \/ CleanupJoined(t) \/ CleanupEnds(t)
      BY <3>4 DEF CleanupAudioOff, CleanupDetach, CleanupJoined, CleanupEnds, appVars, sessVars
    <3>5. CASE StopAudioOff(t) \/ StopJoined(t)
      BY <3>5 DEF StopAudioOff, StopJoined, appVars, sessVars
    <3> QED BY <1>4, <3>1, <3>2, <3>3, <3>4, <3>5 DEF TaskStep
  <2>2. /\ \A u \in Tasks : u # t => pc'[u] = pc[u]
        /\ \A u \in Tasks : u # t \/ pc'[t] \in {"stopJoin", "stopFinish"} =>
               joins'[u] = joins[u]
        /\ pc[t] # "unused" /\ pc'[t] # "unused"
        /\ pc'[t] \in Starting => pc[t] \in Starting
        /\ pc'[t] \in {"stopJoin", "stopFinish"} => pc[t] = "stopJoin"
    <3> USE DEF IInv, TypeOK, Starting
    <3>1. CASE StartedCatcher(t) \/ StartedSpotter(t)
      BY <1>4, <3>1 DEF StartedCatcher, StartedSpotter, BeginCleanup
    <3>2. CASE EngineStart(t) \/ EngineStartFails(t) \/ Recording(t)
      BY <3>2 DEF EngineStart, EngineStartFails, Recording
    <3>3. CASE CleanupAudioOff(t) \/ CleanupDetach(t) \/ CleanupJoined(t) \/ CleanupEnds(t)
      BY <3>3 DEF CleanupAudioOff, CleanupDetach, CleanupJoined, CleanupFinish, CleanupEnds
    <3>4. CASE StopAudioOff(t) \/ StopJoined(t)
      BY <3>4 DEF StopAudioOff, StopJoined, StopFinish
    <3> QED BY <1>4, <3>1, <3>2, <3>3, <3>4 DEF TaskStep
  <2>3. \A u \in Tasks : /\ pc'[u] = "unused" <=> pc[u] = "unused"
                         /\ pc'[u] \in Starting => pc[u] \in Starting
                         /\ Working(u)' => Working(u)
                         /\ pc'[u] \in {"stopJoin", "stopFinish"} =>
                                /\ pc[u] \in {"stopJoin", "stopFinish"}
                                /\ joins'[u] = joins[u]
    BY <2>1, <2>2 DEF Working
  <2> QED BY <2>1, <2>3, NewFrame
<1> QED BY <1>1, <1>2, <1>3, <1>4

\* The audio task writes what is its own, and its session is the newest.
LEMMA StreamKeepsNew ==
    ASSUME IInv, NewInv, NEW s \in Tasks, StreamStep(s) \/ Capture(s) \/ Deliver(s)
    PROVE  NewInv'
<1>1. UNCHANGED <<mode, pc, joins>>
  BY DEF StreamStep, Capture, Deliver, TakeChunk, StreamEnds, Pushed, KwsPushed, TurnCut,
     ChunkDone, FailStream, FailAudioOff, FailDetach, FailEnds, taskVars
<1>2. /\ \A u \in Tasks : u # s => stream'[u] = stream[u]
      /\ stream' = stream \/ (Working(s) /\ stream'[s] # "none")
  <2> USE DEF IInv, TypeOK, Working
  <2>1. CASE Capture(s) \/ Deliver(s) BY <2>1 DEF Capture, Deliver, sessVars
  <2>2. CASE TakeChunk(s) \/ StreamEnds(s) \/ Pushed(s) \/ ChunkDone(s)
    BY <2>2 DEF TakeChunk, StreamEnds, Pushed, ChunkDone, Call
  <2>3. CASE KwsPushed(s) BY <2>3 DEF KwsPushed, RestartTurn, Call
  <2>4. CASE TurnCut(s) BY <2>4 DEF TurnCut, RestartTurn, Call
  <2>5. CASE FailStream(s) \/ FailAudioOff(s) \/ FailDetach(s) \/ FailEnds(s)
    BY <2>5 DEF FailStream, FailAudioOff, FailDetach, FailEnds
  <2> QED BY <2>1, <2>2, <2>3, <2>4, <2>5 DEF StreamStep
<1>3. \A u \in Tasks : /\ stream'[u] = "none" <=> stream[u] = "none"
                       /\ Working(u)' => Working(u)
  BY <1>2 DEF Working
<1>4. messages' = messages \/ (messages' \in Tasks /\ Newest(messages'))
  <2>1. CASE Pushed(s)
    <3>1. Working(s) BY <2>1 DEF Pushed, Working
    <3> QED BY <2>1, <3>1 DEF Pushed, NewInv
  <2>2. CASE ~Pushed(s)
    BY <2>2 DEF StreamStep, Capture, Deliver, TakeChunk, StreamEnds, KwsPushed, TurnCut,
       ChunkDone, FailStream, FailAudioOff, FailDetach, FailEnds, appVars
  <2> QED BY <2>1, <2>2
<1> QED BY <1>1, <1>3, <1>4, NewFrame

\* Preparing, Clear and doing nothing write nothing.
LEMMA RestKeepsNew ==
    ASSUME NewInv, UNCHANGED <<taskVars, sessVars>>, messages' \in {messages, None}
    PROVE  NewInv'
BY NewFrame DEF taskVars, sessVars, Working

\* Every step keeps it, as long as the controller's invariant holds.
LEMMA StepNew ==
    ASSUME IInv, NewInv, [Next]_vars
    PROVE  NewInv'
<1>1. CASE UserStep
  <2>1. CASE \E t \in Tasks, m \in Modes : ToggleStart(t, m) \/ ToggleStop(t, m)
    BY <2>1, ClickKeepsNew
  <2>2. CASE PrepareVoiceInput \/ ClearTranscript \/ \E p \in Prepares : ClickPrepare(p)
    BY <2>2, RestKeepsNew DEF PrepareVoiceInput, ClearTranscript, ClickPrepare, appVars
  <2> QED BY <1>1, <2>1, <2>2 DEF UserStep
<1>2. CASE VoiceStep \/ \E p \in Prepares : PrepareStep(p)
  BY <1>2, RestKeepsNew DEF VoiceStep, VoiceInstalled, VoiceLoaded, VoiceFailed,
     PrepareStep, RunPrepare, PrepareInstalled, PrepareLoaded, PrepareFailed, appVars
<1>3. CASE \E t \in Tasks : TaskStep(t) \/ StreamStep(t) \/ Capture(t) \/ Deliver(t)
  BY <1>3, TaskKeepsNew, StreamKeepsNew
<1>4. CASE UNCHANGED vars BY <1>4, RestKeepsNew DEF vars, appVars
<1> QED BY <1>1, <1>2, <1>3, <1>4 DEF Next

\* Before the first click the screen is empty.
LEMMA InitNew == Init => NewInv
BY DEF Init, NewInv, TranscriptIsOfTheNewest, Working, Starting

\* No push that answers late and no stop writes the transcript of an older session
\* over that of a newer one.
THEOREM ScreenShowsTheNewest == ASSUME Patient PROVE Spec => []TranscriptIsOfTheNewest
<1>1. NewInv => TranscriptIsOfTheNewest BY DEF NewInv
<1>2. IInv /\ NewInv /\ [Next]_vars => NewInv' BY StepNew
<1> QED BY <1>1, <1>2, InitNew, SessionHolds, PTL DEF Spec
=============================================================================
