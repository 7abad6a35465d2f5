--------------------------- MODULE CatcherHandle ---------------------------
(***************************************************************************)
(* One Catcher handle: the transcriber, the optional diarizer, their       *)
(* fusion and the strings the caller reads.  A call is one step.  Time is  *)
(* counted in frames of 80 ms; the transcriber cuts its audio in windows   *)
(* of AsrChunk frames (StreamingTranscriber models them exactly), the      *)
(* diarizer returns its frames DiarChunk at a time (StreamingDiarizer).    *)
(***************************************************************************)
EXTENDS Fusion

CONSTANTS AsrChunk, DiarChunk,
          AsrPatterns,   \* what one window may say: the ids of each frame
          DiarPatterns,  \* what one diarizer chunk may say: each frame's probabilities
          Pushes,        \* frames of one push
          Cutoffs,       \* of finish_before and text_before, in ms
          MaxAudio,      \* bound: frames of an utterance
          MaxFaults      \* bound: failures of the models in one run

ASSUME HandleAssumption ==
    /\ {AsrChunk, DiarChunk} \subseteq Nat \ {0}
    /\ Pushes \cup Cutoffs \cup {MaxAudio, MaxFaults} \subseteq Nat
    /\ AsrPatterns \subseteq [1..AsrChunk -> Seq(Kinds)]
    /\ DiarPatterns \subseteq [1..DiarChunk -> [Speakers -> Nat]]

VARIABLES state,        \* SessionState, or "none" while there is no handle
          diarPath,     \* diar_model_path is Some
          diarizer,     \* the diarizer is Some
          audio, windows, clock, closed,  \* the transcriber's scheduler and frames_seen
          diarAudio,    \* frames the diarizer has heard
          fusion, timedTokens,
          text, textBefore, segments,     \* the borrowed strings
          warning,      \* "none", "disabled" or "unavailable"
          status,       \* of the last call
          faults        \* failures so far

streams    == <<audio, windows, clock, closed, diarAudio>>
strings    == <<text, segments>>
handleVars == <<state, diarPath, diarizer, streams, fusion, timedTokens, strings, textBefore,
                warning, status, faults>>

InitHandle ==
    /\ state = "none" /\ diarPath = FALSE /\ diarizer = FALSE
    /\ audio = 0 /\ windows = 0 /\ clock = 0 /\ closed = FALSE /\ diarAudio = 0
    /\ fusion = NewFusion /\ timedTokens = <<>>
    /\ text = <<>> /\ textBefore = <<>> /\ segments = <<>>
    /\ warning = "none" /\ status = "none" /\ faults = 0

\* Mutant: the clock of the last utterance runs on.
NewUtterance_Mistake ==
    /\ audio' = 0 /\ windows' = 0 /\ UNCHANGED clock /\ closed' = FALSE /\ diarAudio' = 0
    /\ fusion' = NewFusion /\ timedTokens' = <<>>
    /\ text' = <<>> /\ textBefore' = <<>> /\ segments' = <<>>

NewUtterance ==
    /\ audio' = 0 /\ windows' = 0 /\ clock' = 0 /\ closed' = FALSE /\ diarAudio' = 0
    /\ fusion' = NewFusion /\ timedTokens' = <<>>
    /\ text' = <<>> /\ textBefore' = <<>> /\ segments' = <<>>

\* catcher_create, once the models are loaded; a diarizer that was asked for
\* and does not load is an error, and then there is no handle.
Create(withDiarizer) ==
    /\ state = "none" /\ state' = "idle"
    /\ diarPath' = withDiarizer /\ diarizer' = withDiarizer
    /\ NewUtterance
    /\ warning' = "none" /\ status' = "none" /\ UNCHANGED faults

Destroy ==
    /\ state # "none" /\ state' = "none"
    /\ diarPath' = FALSE /\ diarizer' = FALSE
    /\ NewUtterance
    /\ warning' = "none" /\ status' = "none" /\ UNCHANGED faults

\* Mutant: the warning of the last utterance stays when the diarizer is back.
StartUtterance_Mistake ==
    /\ state # "none" /\ state' = "started" /\ status' = "ok"
    /\ NewUtterance
    /\ \/ diarizer' = diarPath /\ UNCHANGED <<warning, faults>>
       \/ /\ diarPath /\ ~diarizer /\ faults < MaxFaults
          /\ faults' = faults + 1 /\ diarizer' = FALSE /\ warning' = "unavailable"
    /\ UNCHANGED diarPath

\* Mutant: a reload that fails says nothing.
StartUtterance_Silent ==
    /\ state # "none" /\ state' = "started" /\ status' = "ok"
    /\ NewUtterance /\ warning' = "none"
    /\ \/ diarizer' = diarPath /\ UNCHANGED faults
       \/ /\ diarPath /\ ~diarizer /\ faults < MaxFaults
          /\ faults' = faults + 1 /\ diarizer' = FALSE
    /\ UNCHANGED diarPath

\* catcher_start, in any state; a diarizer that was lost is loaded again.
StartUtterance ==
    /\ state # "none" /\ state' = "started" /\ status' = "ok"
    /\ NewUtterance
    /\ \/ diarizer' = diarPath /\ warning' = "none" /\ UNCHANGED faults
       \/ /\ diarPath /\ ~diarizer /\ faults < MaxFaults
          /\ faults' = faults + 1 /\ diarizer' = FALSE /\ warning' = "unavailable"
    /\ UNCHANGED diarPath

-----------------------------------------------------------------------------
(* The models behind the handle.                                            *)

\* What the next "due" windows may say, timed from the clock on.
Utterances(due) ==
    {LET said == FlattenSeq(patterns)
     IN  FlattenSeq([i \in DOMAIN said |->
           [n \in DOMAIN said[i] |-> [id |-> said[i][n], frame |-> clock + i - 1]]])
       : patterns \in [1..due -> AsrPatterns]}

\* The frames up to "upTo" that a diarizer returns, or its failure, which the
\* caller does not see but as a warning.
DiarResults(upTo) ==
    LET from   == Len(fusion.diar)
        chunks == (upTo - from + DiarChunk - 1) \div DiarChunk
    IN  IF ~diarizer THEN {[frames |-> <<>>, failed |-> FALSE]}
        ELSE {[frames |-> SubSeq(FlattenSeq(patterns), 1, upTo - from), failed |-> FALSE]
                : patterns \in [1..chunks -> DiarPatterns]}
             \cup (IF faults < MaxFaults THEN {[frames |-> <<>>, failed |-> TRUE]} ELSE {})

\* push_diar_samples and finish_diar.
Diarized(result) ==
    /\ diarizer' = (diarizer /\ ~result.failed)
    /\ warning' = IF result.failed THEN "disabled" ELSE warning
    /\ faults' = faults + (IF result.failed THEN 1 ELSE 0)

\* Mutant: whether the call brings news is judged by its tokens alone.
Rebuild_Mistake(newTokens) ==
    IF Decodable(timedTokens')
    THEN /\ text' = Decode(timedTokens')
         /\ segments' = IF diarPath THEN Segments(fusion') ELSE <<>>
         /\ status' = IF newTokens # <<>> THEN "ok" ELSE "no_update"
    ELSE status' = "runtime_error" /\ UNCHANGED strings

\* rebuild_strings_and_report_segment_change, and what the call returns.
Rebuild(newTokens) ==
    IF Decodable(timedTokens')
    THEN /\ text' = Decode(timedTokens')
         /\ segments' = IF diarPath THEN Segments(fusion') ELSE <<>>
         /\ status' = IF newTokens # <<>> \/ segments' # segments THEN "ok" ELSE "no_update"
    ELSE status' = "runtime_error" /\ UNCHANGED strings

-----------------------------------------------------------------------------
(* The calls of a recording.                                                *)

Due(n) == (audio + n) \div AsrChunk - windows

PushAudio(n) ==
    /\ state = "started" /\ ~closed /\ audio + n <= MaxAudio
    /\ \E tokens \in Utterances(Due(n)),
          result \in DiarResults(((diarAudio + n) \div DiarChunk) * DiarChunk) :
          /\ fusion' = [fusion EXCEPT !.tokens = @ \o tokens, !.diar = @ \o result.frames]
          /\ timedTokens' = timedTokens \o tokens
          /\ Diarized(result)
          /\ Rebuild(tokens)
    /\ audio' = audio + n /\ diarAudio' = diarAudio + (IF diarizer THEN n ELSE 0)
    /\ windows' = windows + Due(n) /\ clock' = clock + Due(n) * AsrChunk
    /\ UNCHANGED <<state, diarPath, closed, textBefore>>

\* A window that fails: the windows after it and the tokens of those before
\* it are lost, and the diarizer does not hear the samples of this call.
PushFails(n) ==
    /\ state = "started" /\ ~closed /\ audio + n <= MaxAudio
    /\ faults < MaxFaults /\ faults' = faults + 1 /\ Due(n) > 0
    /\ audio' = audio + n /\ windows' = windows + Due(n)
    /\ \E encoded \in 0..Due(n) : clock' = clock + encoded * AsrChunk
    /\ status' = "runtime_error"
    /\ UNCHANGED <<state, diarPath, diarizer, closed, diarAudio, fusion, timedTokens,
                   strings, textBefore, warning>>

\* finish pads one more window for every utterance that is not empty: windows
\* overlap, so some audio is always left over.
Padding == IF audio > 0 THEN 1 ELSE 0

\* Past every token: finish_before with it is finish.
Never == (MaxAudio + AsrChunk) * FrameMs

\* Mutant: the cutoff is applied to the fusion only.
Finish_Mistake(cutoff) ==
    /\ state = "started" /\ ~closed
    /\ \E tokens \in Utterances(Padding), result \in DiarResults(diarAudio) :
          /\ fusion' = [tokens  |-> Before(fusion.tokens \o tokens, cutoff),
                        diar    |-> fusion.diar \o result.frames,
                        flushed |-> TRUE]
          /\ timedTokens' = timedTokens \o tokens
          /\ Diarized(result)
          /\ Rebuild(tokens)
    /\ state' = "finished" /\ closed' = TRUE
    /\ windows' = windows + Padding /\ clock' = clock + Padding * AsrChunk
    /\ UNCHANGED <<diarPath, audio, diarAudio, textBefore>>

\* Mutant: the fusion is not flushed.
Finish_NoFlush(cutoff) ==
    /\ state = "started" /\ ~closed
    /\ \E tokens \in Utterances(Padding), result \in DiarResults(diarAudio) :
          /\ fusion' = [fusion EXCEPT !.tokens = Before(@ \o tokens, cutoff),
                                     !.diar = @ \o result.frames]
          /\ timedTokens' = Before(timedTokens \o tokens, cutoff)
          /\ Diarized(result)
          /\ Rebuild(tokens)
    /\ state' = "finished" /\ closed' = TRUE
    /\ windows' = windows + Padding /\ clock' = clock + Padding * AsrChunk
    /\ UNCHANGED <<diarPath, audio, diarAudio, textBefore>>

\* finish_session: the strings are rebuilt after the state has changed.
Finish(cutoff) ==
    /\ state = "started" /\ ~closed
    /\ \E tokens \in Utterances(Padding), result \in DiarResults(diarAudio) :
          /\ fusion' = [tokens  |-> Before(fusion.tokens \o tokens, cutoff),
                        diar    |-> fusion.diar \o result.frames,
                        flushed |-> TRUE]
          /\ timedTokens' = Before(timedTokens \o tokens, cutoff)
          /\ Diarized(result)
          /\ Rebuild(tokens)
    /\ state' = "finished" /\ closed' = TRUE
    /\ windows' = windows + Padding /\ clock' = clock + Padding * AsrChunk
    /\ UNCHANGED <<diarPath, audio, diarAudio, textBefore>>

\* The padded window fails: the session stays started, but its transcriber
\* is closed and only catcher_start opens it again.
FinishFails ==
    /\ state = "started" /\ ~closed /\ Padding = 1
    /\ faults < MaxFaults /\ faults' = faults + 1
    /\ closed' = TRUE /\ windows' = windows + 1 /\ clock' \in {clock, clock + AsrChunk}
    /\ status' = "runtime_error"
    /\ UNCHANGED <<state, diarPath, diarizer, audio, diarAudio, fusion, timedTokens,
                   strings, textBefore, warning>>

\* push and finish outside a recording, or with a closed transcriber.
Refused ==
    /\ \/ state \in {"idle", "finished"} /\ status' = "invalid_state"
       \/ state = "started" /\ closed /\ status' = "runtime_error"
    /\ UNCHANGED <<state, diarPath, diarizer, streams, fusion, timedTokens, strings,
                   textBefore, warning, faults>>

\* catcher_text_before, in any state; it returns no status.
TextBefore(cutoff) ==
    /\ state # "none" /\ Decodable(Before(timedTokens, cutoff))
    /\ textBefore' = Decode(Before(timedTokens, cutoff))
    /\ UNCHANGED <<state, diarPath, diarizer, streams, fusion, timedTokens, strings,
                   warning, status, faults>>

NextHandle ==
    \/ StartUtterance \/ Destroy \/ FinishFails \/ Refused
    \/ \E n \in Pushes : PushAudio(n) \/ PushFails(n)
    \/ \E cutoff \in Cutoffs : TextBefore(cutoff)
    \/ \E cutoff \in Cutoffs \cup {Never} : Finish(cutoff)

-----------------------------------------------------------------------------
(* Properties                                                              *)

TimedTokens == Seq([id : Kinds, frame : 0..(MaxAudio + AsrChunk)])

\* Every variable has its type; the clock of an utterance never runs past the
\* windows of that utterance, and the diarizer is never ahead of the audio.
TypeOK ==
    /\ state \in {"none", "idle", "started", "finished"}
    /\ diarPath \in BOOLEAN /\ diarizer \in {FALSE, diarPath} /\ closed \in BOOLEAN
    /\ audio \in 0..MaxAudio /\ windows \in 0..(MaxAudio + 1)
    /\ clock \in {n * AsrChunk : n \in 0..windows} /\ diarAudio \in 0..audio
    /\ fusion.tokens \in TimedTokens /\ fusion.flushed \in BOOLEAN
    /\ Len(fusion.diar) <= diarAudio
    /\ timedTokens \in TimedTokens /\ {text, textBefore} \subseteq TimedTokens
    /\ segments \in Seq([speaker : Speakers, start_ms : Nat, end_ms : Nat,
                         text : TimedTokens, final : BOOLEAN])
    /\ warning \in {"none", "disabled", "unavailable"}
    /\ status \in {"none", "ok", "no_update", "invalid_state", "runtime_error"}
    /\ faults \in 0..MaxFaults

\* With a diarization model the segments spell the transcript, no token lost,
\* doubled or moved, whatever the speakers, the cutoff of finish_before, the
\* punctuation that changed sides and the failures of the models.
SegmentsSpellTheTranscript ==
    diarPath => /\ FlattenSeq([n \in DOMAIN segments |-> segments[n].text]) = text
                /\ fusion.tokens = timedTokens

\* Segments follow each other in time and do not overlap, "final: false marks at
\* most one trailing segment", and none is left once a finish has decoded.
SegmentsFollowTime ==
    /\ \A n \in DOMAIN segments :
          /\ segments[n].start_ms < segments[n].end_ms
          /\ n > 1 => segments[n - 1].end_ms <= segments[n].start_ms
          /\ n < Len(segments) => segments[n].final
    /\ state = "finished" /\ Decodable(timedTokens) /\ segments # <<>> => Last(segments).final

\* A turn that is shorter than min_turn_ms is shown only where the turn it would
\* be absorbed by is short as well: anti-flicker has reached its fixpoint.
ShortTurnsStandTogether ==
    LET turns == Turns(fusion)
    IN  \A n \in DOMAIN turns.groups :
           Len(turns.groups) > 1 /\ IsShort(turns.labeled, turns.groups[n])
              => IsShort(turns.labeled, turns.groups[Target(n)])

\* While an utterance only grows, a token that was attributed in a run of at
\* least min_turn_ms is shown under that speaker for good; only the speaker of a
\* shorter run may change under a segment that is marked final.
LongTurnsKeepTheirSpeaker ==
    [][fusion' # fusion /\ IsPrefix(fusion.tokens, fusion'.tokens) =>
          \E raw \in {RawTurns(fusion)}, now \in {Turns(fusion)}, next \in {Turns(fusion')} :
              \A n \in DOMAIN raw.groups : \A i \in raw.groups[n].first..raw.groups[n].last :
                 ~IsShort(raw.labeled, raw.groups[n])
                    => now.labeled[i] = raw.labeled[i] /\ next.labeled[i] = raw.labeled[i]]_handleVars

\* CATCHER_NO_UPDATE after a call that decoded means that there is no new text
\* and, with a diarizer, that the segments are the ones the caller has; a handle
\* without one may lose the end of its text to the cutoff of finish_before.
NoUpdateMeansUnchanged ==
    [][status' = "no_update" /\ Decodable(timedTokens) /\ text = Decode(timedTokens) =>
          /\ segments' = segments
          /\ IsPrefix(text', text) /\ (diarPath => text' = text)]_handleVars

\* catcher_warning tells whether a handle that was given a diarization model
\* works without it: no silent degradation, no warning that outlives it.
WarningTellsDegraded == (warning # "none") <=> (diarPath /\ ~diarizer)
=============================================================================
