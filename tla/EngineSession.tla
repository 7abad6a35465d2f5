---------------------------- MODULE EngineSession ----------------------------
(***************************************************************************)
(* tomato-ears: recording pages in browser tabs (ui/app.js), the WebSocket *)
(* server (server.ts), EngineClient (engine.ts) and the engine host it     *)
(* talks to over stdin and stdout (Session::handle in catcher-asr-host,    *)
(* mirrored by HostSession.cs).                                            *)
(*                                                                         *)
(* Each link is a FIFO: one WebSocket per tab, stdin, stdout.  A recording *)
(* is one click on Start, <<r, k>> is the k-th chunk of recording r, and   *)
(* <<r, 0>> what its worklet posts too late, behind the stop.              *)
(* Partial transcripts are left out: they answer nothing, and each replaces *)
(* the one before.                                                         *)
(***************************************************************************)
EXTENDS Naturals, Sequences

CONSTANTS
    Tabs,           \* pages that may be opened
    MaxRecordings,  \* bound: clicks on Start
    MaxChunks,      \* bound: chunks of one recording
    Worlds          \* users and engines, one of which a behaviour has:
                    \*   careful: does the user wait for the answer to the last Stop
                    \*     before the next click, and stop before leaving a page?
                    \*   mayFail: "reset", "audio", "finish" of the engine, the "host"
                    \*     process; "late": the flush is not confirmed in two seconds,
                    \*     or a chunk is queued behind the confirmation
                    \*   recordings, chunks: bounds within the two above

ASSUME EngineAssumption ==
    /\ MaxRecordings \in Nat \ {0} /\ MaxChunks \in Nat
    /\ Worlds \subseteq [careful : BOOLEAN,
                         mayFail : SUBSET {"reset", "audio", "finish", "host", "late"},
                         recordings : 1..MaxRecordings, chunks : 0..MaxChunks]

Recordings == 1..MaxRecordings
None       == 0
Chunks     == Recordings \X (0..MaxChunks)
NoSession  == {<<None, 0>>}

VARIABLES
    world,       \* never changes
    tab,         \* what each page is doing
    rec,         \* the recording of each page
    sent,        \* chunks each recording has sent, without the late one
    port,        \* of each page: recordings with a late chunk in their worklet's port
    ws,          \* the WebSocket of each tab, towards the server
    pendingStop, \* #pendingStop: the recording whose stop() waits
    stdin, stdout,
    host,        \* up, dead, or lost: dead and known to be so by EngineClient
    accumulated, \* chunks of the host's session, or NoSession
    answer,      \* what the page was told after its Stop
    heard        \* chunks in the final transcript of each recording

vars == <<world, tab, rec, sent, port, ws, pendingStop, stdin, stdout, host, accumulated,
          answer, heard>>

Init ==
    /\ world \in Worlds
    /\ tab = [t \in Tabs |-> "closed"]
    /\ rec = [t \in Tabs |-> None]
    /\ sent = [r \in Recordings |-> 0]
    /\ port = [t \in Tabs |-> {}]
    /\ ws = [t \in Tabs |-> <<>>]
    /\ pendingStop = None
    /\ stdin = <<>> /\ stdout = <<>>
    /\ host = "up"
    /\ accumulated = NoSession
    /\ answer = [r \in Recordings |-> "unused"]
    /\ heard = [r \in Recordings |-> {}]

-----------------------------------------------------------------------------
(* The page                                                                *)

Idle == \A r \in Recordings : answer[r] \notin {"recording", "stopping"}

\* The page connects; "ready" enables Start.
Open(t) ==
    /\ tab[t] = "closed"
    /\ world.careful => Idle
    /\ tab' = [tab EXCEPT ![t] = "open"]
    /\ UNCHANGED <<world, rec, sent, port, ws, pendingStop, stdin, stdout, host, accumulated,
                   answer, heard>>

\* The tab is closed or reloaded.  The server has no onclose.
Close(t) ==
    /\ tab[t] \in {"open", "recording", "flushing"}
    /\ world.careful => Idle
    /\ tab' = [tab EXCEPT ![t] = "gone"]
    /\ UNCHANGED <<world, rec, sent, port, ws, pendingStop, stdin, stdout, host, accumulated,
                   answer, heard>>

Tell(t, cmd, r, k) ==
    ws' = [ws EXCEPT ![t] = Append(@, [cmd |-> cmd, rec |-> r, k |-> k])]

ClickStart(t) ==
    /\ tab[t] = "open"
    /\ world.careful => Idle
    /\ \E r \in Recordings :
          /\ answer[r] = "unused" /\ r <= world.recordings
          /\ \A q \in Recordings : q < r => answer[q] # "unused"
          /\ rec' = [rec EXCEPT ![t] = r]
          /\ answer' = [answer EXCEPT ![r] = "recording"]
    /\ tab' = [tab EXCEPT ![t] = "recording"]
    /\ Tell(t, "start", rec'[t], 0)
    /\ UNCHANGED <<world, sent, port, pendingStop, stdin, stdout, host, accumulated, heard>>

\* The worklet posts a chunk, also while the page waits for its flush.
Capture(t) ==
    /\ tab[t] \in {"recording", "flushing"}
    /\ sent[rec[t]] < world.chunks
    /\ sent' = [sent EXCEPT ![rec[t]] = @ + 1]
    /\ Tell(t, "audio", rec[t], sent'[rec[t]])
    /\ UNCHANGED <<world, tab, rec, port, pendingStop, stdin, stdout, host, accumulated,
                   answer, heard>>

ClickStop(t) ==
    /\ tab[t] = "recording"
    /\ tab' = [tab EXCEPT ![t] = "flushing"]
    /\ UNCHANGED <<world, rec, sent, port, ws, pendingStop, stdin, stdout, host, accumulated,
                   answer, heard>>

\* The flush is confirmed, or two seconds have passed.  Start is enabled again.  The
\* audio graph is torn down, and port.onmessage stays.
Flushed(t) ==
    /\ tab[t] = "flushing"
    /\ tab' = [tab EXCEPT ![t] = "open"]
    /\ Tell(t, "stop", rec[t], 0)
    /\ \/ UNCHANGED port
       \/ "late" \in world.mayFail /\ port' = [port EXCEPT ![t] = @ \cup {rec[t]}]
    /\ answer' = [answer EXCEPT ![rec[t]] = "stopping"]
    /\ UNCHANGED <<world, rec, sent, pendingStop, stdin, stdout, host, accumulated, heard>>

\* The page sends what the port of a recording before still held.  Bound: one chunk of
\* each recording is late.
Straggle(t) ==
    /\ tab[t] # "gone"
    /\ \E r \in port[t] :
          /\ port' = [port EXCEPT ![t] = @ \ {r}]
          /\ Tell(t, "audio", r, 0)
    /\ UNCHANGED <<world, tab, rec, sent, pendingStop, stdin, stdout, host, accumulated,
                   answer, heard>>

-----------------------------------------------------------------------------
(* server.ts and the commands of EngineClient                              *)

\* A write to a dead host fails, which only calls onError.
Send(msg) == stdin' = IF host = "up" THEN Append(stdin, msg) ELSE stdin

\* stop(), whose promise is settled for the socket it came from.
Stop(msg) ==
    \/ /\ pendingStop # None
       /\ answer' = [answer EXCEPT ![msg.rec] = "error"]
       /\ UNCHANGED <<pendingStop, stdin>>
    \/ /\ pendingStop = None
       /\ pendingStop' = msg.rec
       /\ Send(msg)
       /\ UNCHANGED answer

\* onmessage, from whichever tab
Receive(t) ==
    /\ ws[t] # <<>>
    /\ ws' = [ws EXCEPT ![t] = Tail(@)]
    /\ LET msg == Head(ws[t])
       IN  IF msg.cmd = "stop" THEN Stop(msg)
           ELSE Send(msg) /\ UNCHANGED <<pendingStop, answer>>
    /\ UNCHANGED <<world, tab, rec, sent, port, stdout, host, accumulated, heard>>

-----------------------------------------------------------------------------
(* The host                                                                *)

Emit(event, chunks) ==
    stdout' = Append(stdout, [event |-> event, chunks |-> chunks])

Quiet == UNCHANGED stdout

HostStart ==
    \/ /\ accumulated # NoSession \/ "reset" \in world.mayFail
       /\ Emit("error", {}) /\ UNCHANGED accumulated
    \/ accumulated = NoSession /\ accumulated' = {} /\ Quiet

\* Mutant: audio is taken without a session.
HostAudio_NoSession(msg) ==
    /\ accumulated' = accumulated \cup {<<msg.rec, msg.k>>}
    /\ Quiet

\* The engine may fail on the chunk, or afterwards on the partial transcript.
HostAudio(msg) ==
    \/ accumulated = NoSession /\ Emit("error", {}) /\ UNCHANGED accumulated
    \/ /\ accumulated # NoSession
       /\ accumulated' = accumulated \cup {<<msg.rec, msg.k>>}
       /\ Quiet
    \/ /\ accumulated # NoSession /\ "audio" \in world.mayFail
       /\ accumulated' \in {accumulated, accumulated \cup {<<msg.rec, msg.k>>}}
       /\ Emit("error", {})

\* Mutant: the session stays open when the engine fails to finish.
HostStop_KeepsSession ==
    \/ /\ accumulated = NoSession \/ "finish" \in world.mayFail
       /\ Emit("error", {}) /\ UNCHANGED accumulated
    \/ /\ accumulated # NoSession
       /\ Emit("final", accumulated) /\ accumulated' = NoSession

\* Mutant: the final follows the error of a failed finish.
HostStop_Both ==
    /\ accumulated' = NoSession
    /\ \/ accumulated = NoSession /\ Emit("error", {})
       \/ accumulated # NoSession /\ Emit("final", accumulated)
       \/ /\ accumulated # NoSession /\ "finish" \in world.mayFail
          /\ stdout' = stdout \o <<[event |-> "error", chunks |-> {}],
                                  [event |-> "final", chunks |-> accumulated]>>

\* The session is taken before the engine may fail.
HostStop ==
    \/ /\ accumulated = NoSession \/ "finish" \in world.mayFail
       /\ Emit("error", {}) /\ accumulated' = NoSession
    \/ /\ accumulated # NoSession
       /\ Emit("final", accumulated) /\ accumulated' = NoSession

\* Session::handle, one command at a time
HostStep ==
    /\ host = "up" /\ stdin # <<>>
    /\ stdin' = Tail(stdin)
    /\ LET msg == Head(stdin)
       IN  CASE msg.cmd = "start" -> HostStart
             [] msg.cmd = "audio" -> HostAudio(msg)
             [] msg.cmd = "stop"  -> HostStop
    /\ UNCHANGED <<world, tab, rec, sent, port, ws, pendingStop, host, answer, heard>>

HostDies ==
    /\ "host" \in world.mayFail
    /\ host = "up"
    /\ host' = "dead"
    /\ stdin' = <<>> /\ accumulated' = NoSession
    /\ UNCHANGED <<world, tab, rec, sent, port, ws, pendingStop, stdout, answer, heard>>

-----------------------------------------------------------------------------
(* The read loop of EngineClient                                           *)

\* Mutant: the promise is not forgotten.
Settle_Keeps(kind, chunks) ==
    /\ answer' = [answer EXCEPT ![pendingStop] = kind]
    /\ heard' = [heard EXCEPT ![pendingStop] = chunks]
    /\ UNCHANGED pendingStop

\* pendingStop.resolve or reject; what comes without one only calls onError.
Settle(kind, chunks) ==
    /\ answer' = [answer EXCEPT ![pendingStop] = kind]
    /\ heard' = [heard EXCEPT ![pendingStop] = chunks]
    /\ pendingStop' = None

\* #handleLine
HandleLine ==
    /\ host # "lost" /\ stdout # <<>>
    /\ stdout' = Tail(stdout)
    /\ \/ pendingStop = None /\ UNCHANGED <<answer, heard, pendingStop>>
       \/ pendingStop # None /\ Settle(Head(stdout).event, Head(stdout).chunks)
    /\ UNCHANGED <<world, tab, rec, sent, port, ws, stdin, host, accumulated>>

\* Mutant: the end of stdout is reported and nothing is rejected.
HandleHostFailure_NoReject ==
    /\ host = "dead" /\ stdout = <<>>
    /\ host' = "lost"
    /\ UNCHANGED <<answer, heard, pendingStop>>
    /\ UNCHANGED <<world, tab, rec, sent, port, ws, stdin, stdout, accumulated>>

\* #handleHostFailure, at the end of stdout
HandleHostFailure ==
    /\ host = "dead" /\ stdout = <<>>
    /\ host' = "lost"
    /\ \/ pendingStop = None /\ UNCHANGED <<answer, heard, pendingStop>>
       \/ pendingStop # None /\ Settle("error", {})
    /\ UNCHANGED <<world, tab, rec, sent, port, ws, stdin, stdout, accumulated>>

-----------------------------------------------------------------------------

UserStep == \E t \in Tabs :
    Open(t) \/ Close(t) \/ ClickStart(t) \/ Capture(t) \/ ClickStop(t)

ClientStep == HandleLine \/ HandleHostFailure

Next ==
    \/ UserStep
    \/ \E t \in Tabs : Flushed(t) \/ Straggle(t) \/ Receive(t)
    \/ HostStep \/ HostDies \/ ClientStep

\* Messages arrive, the live host answers, and the page's flush has a timeout.
Fairness ==
    /\ \A t \in Tabs : WF_vars(Flushed(t)) /\ WF_vars(Receive(t))
    /\ WF_vars(HostStep) /\ WF_vars(ClientStep)

Spec == Init /\ [][Next]_vars

FairSpec == Spec /\ Fairness

-----------------------------------------------------------------------------
(* Properties                                                              *)

Messages == [cmd : {"start", "audio", "stop"}, rec : Recordings, k : 0..MaxChunks]
Events   == [event : {"final", "error"}, chunks : SUBSET Chunks]

\* Every variable has its type.
TypeOK ==
    /\ world \in Worlds
    /\ tab \in [Tabs -> {"closed", "open", "recording", "flushing", "gone"}]
    /\ rec \in [Tabs -> Recordings \cup {None}]
    /\ sent \in [Recordings -> 0..MaxChunks]
    /\ port \in [Tabs -> SUBSET Recordings]
    /\ ws \in [Tabs -> Seq(Messages)]
    /\ pendingStop \in Recordings \cup {None}
    /\ stdin \in Seq(Messages)
    /\ stdout \in Seq(Events)
    /\ host \in {"up", "dead", "lost"}
    /\ accumulated \in {NoSession} \cup SUBSET Chunks
    /\ answer \in [Recordings -> {"unused", "recording", "stopping", "final", "error"}]
    /\ heard \in [Recordings -> SUBSET Chunks]

\* What is said of a recording as a whole is said of a careful user whose engine
\* fails only on finish or by dying, and whose pages are in time.
Orderly == world.careful /\ world.mayFail \subseteq {"finish", "host"}

InTime(chunks) == {c \in chunks : c[2] # 0}

\* Whatever fails, a final transcript of a careful user never mixes two recordings,
\* over tabs, failed finishes and errors that reach the wrong stop(): late chunks
\* apart, it is of one recording (Session::handle gives up its session on every stop).
FinalIsOneRecording ==
    world.careful =>
        \A r \in Recordings : \A c, d \in InTime(heard[r]) : c[1] = d[1]

\* "One session per recording": no start of a careful user reaches the host while
\* it still has a session, whatever failed in the session before.
StartFindsNoSession ==
    world.careful /\ stdin # <<>> /\ Head(stdin).cmd = "start" => accumulated = NoSession

\* The final of an orderly recording finds the stop() it answers still waiting (the
\* read loop calls a final without a pending stop a broken protocol).
FinalHasItsStop ==
    Orderly /\ stdout # <<>> /\ Head(stdout).event = "final" => pendingStop # None

\* Two tabs do not mix their streams: the final transcript that answers a tab
\* holds no audio of the other.
TabsDoNotMix ==
    \A r \in Recordings : heard[r] \subseteq {r} \X (0..MaxChunks)

\* A stop() called before EngineClient has seen the end of the host is settled.
StopBeforeLossSettles ==
    \A r \in Recordings : pendingStop = r /\ host # "lost" ~> pendingStop # r

\* The caller of stop() always gets an answer, and never waits for ever.
EveryStopSettles ==
    \A r \in Recordings : answer[r] = "stopping" ~> answer[r] \in {"final", "error"}

\* The pages, the server and the host implement RecordingAnswers: for every user and
\* engine a recording is answered at most once, after its Stop, and with audio that
\* was sent; an orderly one with all of its own audio and nothing else.
Answers == INSTANCE RecordingAnswers WITH phase <- answer, spoken <- sent, orderly <- Orderly

RecordingsAreAnswered == Answers!Spec
=============================================================================
