---------------------- MODULE CatcherLifecycle_proofs ----------------------
(***************************************************************************)
(* A model that loads is whole: for any number of converters, conversions, *)
(* failures and kills, and whatever the handle does once it exists.        *)
(***************************************************************************)
EXTENDS CatcherLifecycle, Fusion_proofs, TLAPS

(* Where a process is decides what its staging directory holds.             *)
StagingInv ==
    \A c \in Converters :
        /\ step[c] \in {"staged", "weights", "manifest"} => staging[c].exists
        /\ step[c] = "weights" => staging[c].weights # <<>>
        /\ step[c] = "manifest" =>
              /\ staging[c].weights # <<>> /\ staging[c].manifest = staging[c].weights

(* The output appears with its weights and their manifest together, and     *)
(* what a process copies into it, it has published itself.                  *)
OutputInv ==
    /\ output.exists => output.weights # <<>> /\ output.manifest = output.weights
    /\ \A c \in Converters : step[c] \in {"published", "copying"} => output.exists

(* catcher_create has read files of one output, which nobody replaces, and  *)
(* the handle does not exist yet.                                           *)
ReadingInv ==
    /\ reading # "nothing" => state = "none"
    /\ reading = "weights" => output.exists /\ loaded.manifest = output.manifest
    /\ reading = "tokenizer" =>
          /\ output.exists
          /\ loaded.manifest = output.manifest /\ loaded.weights = output.weights

(* Shapes of the records that EXCEPT updates.                               *)
Stages == [exists : BOOLEAN, weights : Seq(Converters), manifest : Seq(Converters),
           tokenizer : {"none", "partial", "whole"}]

Shapes ==
    /\ step \in [Converters -> {"off", "checked", "staged", "weights", "manifest",
                                "published", "copying"}]
    /\ staging \in [Converters -> Stages \cup {Absent}]
    /\ output \in Stages \cup {Absent}
    /\ loaded \in [manifest : Seq(Converters), weights : Seq(Converters),
                   tokenizer : {"none", "partial", "whole"}]

IInv == Shapes /\ StagingInv /\ OutputInv /\ ReadingInv /\ LoadedModelIsWhole

-----------------------------------------------------------------------------

(* A directory that exists has the files the records name.                  *)
LEMMA ExistingIsStage ==
    ASSUME NEW d \in Stages \cup {Absent}, d.exists
    PROVE  d \in Stages
BY DEF Absent

(* Before any conversion nothing exists and nothing is read.                *)
LEMMA InitIInv == Init => IInv
<1> SUFFICES ASSUME Init PROVE IInv
  OBVIOUS
<1> USE DEF Init, InitConversion
<1>1. Shapes
  <2>1. <<>> \in Seq(Converters)
    OBVIOUS
  <2> QED BY <2>1 DEF Shapes, NothingLoaded
<1>2. StagingInv BY DEF StagingInv
<1>3. OutputInv BY DEF OutputInv, Absent
<1>4. ReadingInv BY DEF ReadingInv
<1>5. LoadedModelIsWhole BY DEF LoadedModelIsWhole, InitHandle
<1> QED BY <1>1, <1>2, <1>3, <1>4, <1>5 DEF IInv

(* A process that is refused, starts or stops touches no output.            *)
LEMMA StartIInv ==
    ASSUME NEW c \in Converters, IInv, Start(c), UNCHANGED <<handleVars, reading, loaded>>
    PROVE  IInv'
<1> USE DEF Start, Moves
<1>1. step'[c] \in {"off", "checked"} /\ \A d \in Converters \ {c} : step'[d] = step[d]
  BY DEF IInv, Shapes
<1>2. Shapes' BY DEF IInv, Shapes
<1>3. StagingInv' BY <1>1 DEF IInv, StagingInv
<1>4. OutputInv' BY <1>1 DEF IInv, OutputInv
<1>5. ReadingInv' BY DEF IInv, ReadingInv, handleVars
<1>6. LoadedModelIsWhole' BY DEF IInv, LoadedModelIsWhole, handleVars
<1> QED BY <1>2, <1>3, <1>4, <1>5, <1>6 DEF IInv

(* A failure or a kill removes or forgets the staging directory only.       *)
LEMMA StopsIInv ==
    ASSUME NEW c \in Converters, IInv, Stops(c), UNCHANGED <<handleVars, reading, loaded>>
    PROVE  IInv'
<1> USE DEF Stops
<1>1. step'[c] = "off" /\ \A d \in Converters \ {c} : step'[d] = step[d] /\ staging'[d] = staging[d]
  BY DEF IInv, Shapes
<1>2. Shapes' BY DEF IInv, Shapes
<1>3. StagingInv' BY <1>1 DEF IInv, StagingInv
<1>4. OutputInv' BY <1>1 DEF IInv, OutputInv
<1>5. ReadingInv' BY DEF IInv, ReadingInv, handleVars
<1>6. LoadedModelIsWhole' BY DEF IInv, LoadedModelIsWhole, handleVars
<1> QED BY <1>2, <1>3, <1>4, <1>5, <1>6 DEF IInv

(* The staging directory is filled in the order of the steps.               *)
LEMMA StagingIInv ==
    ASSUME NEW c \in Converters, IInv,
           CreateStaging(c) \/ SaveWeights(c) \/ SaveManifest(c),
           UNCHANGED <<handleVars, reading, loaded>>
    PROVE  IInv'
<1> USE DEF CreateStaging, SaveWeights, SaveManifest, Moves
<1>1. /\ UNCHANGED output
      /\ \A d \in Converters \ {c} : step'[d] = step[d] /\ staging'[d] = staging[d]
      /\ step'[c] \in {"staged", "weights", "manifest"}
  BY DEF IInv, Shapes
<1>2. Shapes' /\ StagingInv'
  <2>1. <<>> \in Seq(Converters) /\ <<c>> \in Seq(Converters) /\ <<c>> # <<>>
    OBVIOUS
  <2>2. CASE CreateStaging(c)
    <3>1. NewStage \in Stages BY <2>1 DEF NewStage, Stages
    <3>2. step'[c] = "staged" /\ staging'[c] = NewStage BY <2>2 DEF IInv, Shapes
    <3>3. Shapes' BY <2>2, <3>1 DEF IInv, Shapes
    <3>4. StagingInv' BY <1>1, <3>2 DEF IInv, StagingInv, NewStage
    <3> QED BY <3>3, <3>4
  <2>3. CASE SaveWeights(c)
    <3>1. staging[c] \in Stages
      BY <2>3, ExistingIsStage DEF IInv, Shapes, StagingInv
    <3>2. staging'[c] = [staging[c] EXCEPT !.weights = <<c>>] /\ step'[c] = "weights"
      BY <2>3 DEF IInv, Shapes
    <3>3. staging'[c] \in Stages BY <2>1, <3>1, <3>2 DEF Stages
    <3>4. staging'[c].exists = staging[c].exists /\ staging'[c].weights # <<>>
      BY <2>1, <3>1, <3>2 DEF Stages
    <3>5. Shapes' BY <1>1, <2>3, <3>3 DEF IInv, Shapes
    <3>6. staging[c].exists BY <2>3 DEF IInv, StagingInv
    <3>7. step'[c] = "weights" BY <3>2
    <3>8. StagingInv' BY <1>1, <3>4, <3>6, <3>7 DEF IInv, StagingInv
    <3> QED BY <3>5, <3>8
  <2>4. CASE SaveManifest(c)
    <3>1. staging[c] \in Stages /\ staging[c].exists /\ staging[c].weights # <<>>
      BY <2>4, ExistingIsStage DEF IInv, Shapes, StagingInv
    <3>2. staging'[c] = [staging[c] EXCEPT !.manifest = staging[c].weights] /\ step'[c] = "manifest"
      BY <2>4 DEF IInv, Shapes
    <3>3. staging'[c] \in Stages BY <3>1, <3>2 DEF Stages
    <3>4. /\ staging'[c].exists = staging[c].exists
          /\ staging'[c].weights = staging[c].weights
          /\ staging'[c].manifest = staging[c].weights
      BY <3>1, <3>2 DEF Stages
    <3>5. Shapes' BY <1>1, <2>4, <3>3 DEF IInv, Shapes
    <3>6. step'[c] = "manifest" BY <3>2
    <3>7. StagingInv' BY <1>1, <3>1, <3>4, <3>6 DEF IInv, StagingInv
    <3> QED BY <3>5, <3>7
  <2> QED BY <2>2, <2>3, <2>4
<1>3. OutputInv' BY <1>1 DEF IInv, OutputInv
<1>4. ReadingInv' BY <1>1 DEF IInv, ReadingInv, handleVars
<1>5. LoadedModelIsWhole' BY DEF IInv, LoadedModelIsWhole, handleVars
<1> QED BY <1>2, <1>3, <1>4, <1>5 DEF IInv

(* The rename gives the output both files at once, and only where none was. *)
LEMMA PublishIInv ==
    ASSUME NEW c \in Converters, IInv, Publish(c), UNCHANGED <<handleVars, reading, loaded>>
    PROVE  IInv'
<1> USE DEF Publish, Moves
<1>1. /\ step[c] = "manifest" /\ step'[c] \in {"published", "off"}
      /\ \A d \in Converters \ {c} : step'[d] = step[d] /\ staging'[d] = staging[d]
  BY DEF IInv, Shapes
<1>2. /\ staging[c] \in Stages /\ staging[c].exists
      /\ staging[c].weights # <<>> /\ staging[c].manifest = staging[c].weights
  BY <1>1, ExistingIsStage DEF IInv, Shapes, StagingInv
<1>3. \/ ~output.exists /\ output' = staging[c]
      \/ output.exists /\ UNCHANGED output /\ step'[c] = "off"
  BY DEF IInv, Shapes
<1>4. Shapes' BY <1>2, <1>3 DEF IInv, Shapes
<1>5. StagingInv' BY <1>1 DEF IInv, StagingInv
<1>6. OutputInv' BY <1>1, <1>2, <1>3 DEF IInv, OutputInv
<1>7. ReadingInv' BY <1>3 DEF IInv, ReadingInv, handleVars
<1>8. LoadedModelIsWhole' BY DEF IInv, LoadedModelIsWhole, handleVars
<1> QED BY <1>4, <1>5, <1>6, <1>7, <1>8 DEF IInv

(* Copying changes the tokenizer and nothing that has been read.            *)
LEMMA CopyIInv ==
    ASSUME NEW c \in Converters, IInv, CopyCompanions(c),
           UNCHANGED <<handleVars, reading, loaded>>
    PROVE  IInv'
<1> USE DEF CopyCompanions, Moves
<1>1. /\ step[c] \in {"published", "copying"} /\ step'[c] \in {"copying", "off"}
      /\ \A d \in Converters \ {c} : step'[d] = step[d]
  BY DEF IInv, Shapes
<1>2. output \in Stages BY <1>1, ExistingIsStage DEF IInv, Shapes, OutputInv
<1>3. PICK t \in {"partial", "whole"} : output' = [output EXCEPT !.tokenizer = t]
  OBVIOUS
<1>4. /\ output' \in Stages /\ output'.exists = output.exists
      /\ output'.weights = output.weights /\ output'.manifest = output.manifest
  BY <1>2, <1>3 DEF Stages
<1>5. Shapes' BY <1>4 DEF IInv, Shapes
<1>6. StagingInv' BY <1>1 DEF IInv, StagingInv
<1>7. OutputInv' BY <1>1, <1>4 DEF IInv, OutputInv
<1>8. ReadingInv' BY <1>4 DEF IInv, ReadingInv, handleVars
<1>9. LoadedModelIsWhole' BY DEF IInv, LoadedModelIsWhole, handleVars
<1> QED BY <1>5, <1>6, <1>7, <1>8, <1>9 DEF IInv

(* catcher_create reads manifest, weights and tokenizer of one output.      *)
LEMMA CreateIInv ==
    ASSUME IInv, BeginCreate \/ ReadArtifact \/ CreateFails \/ EndCreate
    PROVE  IInv'
<1>1. UNCHANGED <<step, staging, output>>
  BY DEF BeginCreate, ReadArtifact, CreateFails, EndCreate, conversionVars
<1>2. StagingInv' /\ OutputInv' BY <1>1 DEF IInv, StagingInv, OutputInv
<1>3. loaded' \in [manifest : Seq(Converters), weights : Seq(Converters),
                   tokenizer : {"none", "partial", "whole"}] => Shapes'
  BY <1>1 DEF IInv, Shapes
<1>4. CASE BeginCreate \/ CreateFails
  <2>1. /\ loaded' = NothingLoaded /\ reading' \in {"manifest", "nothing"}
        /\ state = "none" /\ state' = state
    BY <1>4 DEF BeginCreate, CreateFails, handleVars, IInv, ReadingInv
  <2>2. <<>> \in Seq(Converters)
    OBVIOUS
  <2>3. Shapes' BY <1>3, <2>1, <2>2 DEF NothingLoaded
  <2>4. ReadingInv' BY <2>1 DEF ReadingInv
  <2>5. LoadedModelIsWhole' BY <2>1 DEF LoadedModelIsWhole
  <2> QED BY <1>2, <2>3, <2>4, <2>5 DEF IInv
<1>5. CASE ReadArtifact
  <2>1. output.exists /\ output \in Stages /\ state = "none" /\ state' = state
    BY <1>5, ExistingIsStage DEF ReadArtifact, handleVars, IInv, Shapes, ReadingInv
  <2>2. output.manifest \in Seq(Converters) /\ output.weights \in Seq(Converters)
    BY <2>1 DEF Stages
  <2>3. CASE reading = "manifest" /\ reading' = "weights"
             /\ loaded' = [loaded EXCEPT !.manifest = output.manifest]
    <3>1. Shapes' BY <1>3, <2>2, <2>3 DEF IInv, Shapes
    <3>2. loaded'.manifest = output.manifest BY <2>3 DEF IInv, Shapes
    <3>3. ReadingInv' BY <1>1, <2>1, <2>3, <3>2 DEF ReadingInv
    <3> QED BY <1>2, <2>1, <3>1, <3>3 DEF IInv, LoadedModelIsWhole
  <2>4. CASE reading = "weights" /\ reading' = "tokenizer"
             /\ loaded' = [loaded EXCEPT !.weights = output.weights]
    <3>1. Shapes' BY <1>3, <2>2, <2>4 DEF IInv, Shapes
    <3>2. loaded'.weights = output.weights /\ loaded'.manifest = loaded.manifest
      BY <2>4 DEF IInv, Shapes
    <3>3. ReadingInv' BY <1>1, <2>1, <2>4, <3>2 DEF IInv, ReadingInv
    <3> QED BY <1>2, <2>1, <3>1, <3>3 DEF IInv, LoadedModelIsWhole
  <2> QED BY <1>5, <2>3, <2>4 DEF ReadArtifact
<1>6. CASE EndCreate
  <2>1. reading = "tokenizer" /\ reading' = "nothing"
        /\ loaded' = [loaded EXCEPT !.tokenizer = "whole"]
    BY <1>6 DEF EndCreate
  <2>2. /\ loaded'.manifest = loaded.manifest /\ loaded'.weights = loaded.weights
        /\ loaded'.tokenizer = "whole"
    BY <2>1 DEF IInv, Shapes
  <2>3. output.weights # <<>> /\ output.manifest = output.weights
        /\ loaded.manifest = output.manifest /\ loaded.weights = output.weights
    BY <2>1 DEF IInv, ReadingInv, OutputInv
  <2>4. Shapes' BY <1>3, <2>1 DEF IInv, Shapes
  <2>5. ReadingInv' BY <2>1 DEF ReadingInv
  <2>6. LoadedModelIsWhole' BY <2>2, <2>3 DEF LoadedModelIsWhole
  <2> QED BY <1>2, <2>4, <2>5, <2>6 DEF IInv
<1> QED BY <1>4, <1>5, <1>6

(* Every call of the handle needs the handle.                               *)
LEMMA HandleLives == NextHandle => state # "none"
<1> SUFFICES ASSUME NextHandle PROVE state # "none"
  OBVIOUS
<1>1. ASSUME NEW n \in Pushes, PushAudio(n) \/ PushFails(n) PROVE state # "none"
  <2>1. state = "started" BY <1>1 DEF PushAudio, PushFails
  <2> QED BY <2>1
<1>2. ASSUME NEW cutoff \in Cutoffs, TextBefore(cutoff) PROVE state # "none"
  BY <1>2 DEF TextBefore
<1>3. ASSUME NEW cutoff \in Cutoffs \cup {Never}, Finish(cutoff) PROVE state # "none"
  <2>1. state = "started" BY <1>3 DEF Finish
  <2> QED BY <2>1
<1>4. CASE StartUtterance \/ Destroy BY <1>4 DEF StartUtterance, Destroy
<1>5. CASE FinishFails \/ Refused BY <1>5 DEF FinishFails, Refused
<1> QED BY <1>1, <1>2, <1>3, <1>4, <1>5 DEF NextHandle

(* Every step of the specification keeps the invariant.                     *)
LEMMA StepIInv == IInv /\ [Next]_vars => IInv'
<1> SUFFICES ASSUME IInv, [Next]_vars PROVE IInv'
  OBVIOUS
<1>1. CASE NextConversion /\ UNCHANGED <<handleVars, reading, loaded>>
  <2>1. PICK c \in Converters :
            \/ Start(c) \/ CreateStaging(c) \/ SaveWeights(c) \/ SaveManifest(c)
            \/ Publish(c) \/ CopyCompanions(c) \/ Stops(c)
    BY <1>1 DEF NextConversion
  <2>2. UNCHANGED <<handleVars, reading, loaded>> BY <1>1
  <2> QED BY <2>1, <2>2, StartIInv, StopsIInv, StagingIInv, PublishIInv, CopyIInv
<1>2. CASE BeginCreate \/ ReadArtifact \/ CreateFails \/ EndCreate
  BY <1>2, CreateIInv
<1>3. CASE NextHandle /\ UNCHANGED <<conversionVars, reading, loaded>>
  <2>1. UNCHANGED <<step, staging, output, reading, loaded>>
    BY <1>3 DEF conversionVars
  <2>2. state # "none" BY <1>3, HandleLives
  <2>3. Shapes' /\ StagingInv' /\ OutputInv'
    BY <2>1 DEF IInv, Shapes, StagingInv, OutputInv
  <2>4. ReadingInv' BY <2>1, <2>2 DEF IInv, ReadingInv
  <2>5. LoadedModelIsWhole' BY <2>1, <2>2 DEF IInv, LoadedModelIsWhole
  <2> QED BY <2>3, <2>4, <2>5 DEF IInv
<1>4. CASE UNCHANGED vars
  <2>1. UNCHANGED <<step, staging, output, reading, loaded, state>>
    BY <1>4 DEF vars, conversionVars, handleVars
  <2> QED BY <2>1 DEF IInv, Shapes, StagingInv, OutputInv, ReadingInv, LoadedModelIsWhole
<1> QED BY <1>1, <1>2, <1>3, <1>4 DEF Next

(* A handle works with the weights of one conversion, the manifest written  *)
(* for them and a whole tokenizer, for any number of converters and kills   *)
(* (convert.rs, artifact.rs, catcher_create).                               *)
THEOREM ModelIsWhole == Spec => []LoadedModelIsWhole
<1>1. IInv => LoadedModelIsWhole BY DEF IInv
<1> QED BY <1>1, InitIInv, StepIInv, PTL DEF Spec

-----------------------------------------------------------------------------
(* The warning and the diarizer.                                            *)

WarningInv ==
    /\ diarPath \in BOOLEAN /\ diarizer \in BOOLEAN /\ (diarizer => diarPath)
    /\ WarningTellsDegraded

(* Only a diarizer that is there can fail.                                  *)
LEMMA OnlyADiarizerFails ==
    ASSUME NEW upTo, NEW result \in DiarResults(upTo), diarizer \in BOOLEAN
    PROVE  result.failed \in BOOLEAN /\ (result.failed => diarizer)
<1>1. CASE ~diarizer
  <2>1. DiarResults(upTo) = {[frames |-> <<>>, failed |-> FALSE]}
    BY <1>1, Zenon DEF DiarResults
  <2>2. result = [frames |-> <<>>, failed |-> FALSE] BY <2>1, Zenon
  <2> QED BY <2>2
<1>2. CASE diarizer
  <2> DEFINE from   == Len(fusion.diar)
             chunks == (upTo - from + DiarChunk - 1) \div DiarChunk
             heard  == {[frames |-> SubSeq(FlattenSeq(patterns), 1, upTo - from),
                         failed |-> FALSE] : patterns \in [1..chunks -> DiarPatterns]}
             lost   == IF faults < MaxFaults THEN {[frames |-> <<>>, failed |-> TRUE]} ELSE {}
  <2>1. DiarResults(upTo) = heard \cup lost BY <1>2, Zenon DEF DiarResults
  <2>2. CASE result \in heard
    <3>1. PICK frames : result = [frames |-> frames, failed |-> FALSE] BY <2>2, Zenon
    <3> QED BY <3>1
  <2>3. CASE result \in lost
    <3>1. result = [frames |-> <<>>, failed |-> TRUE] BY <2>3, Zenon
    <3> QED BY <1>2, <3>1
  <2> QED BY <2>1, <2>2, <2>3, Zenon
<1> QED BY <1>1, <1>2

(* A diarizer is lost and the caller warned in the same step.               *)
LEMMA DiarizedWarns ==
    ASSUME WarningInv, NEW upTo, NEW result \in DiarResults(upTo), Diarized(result),
           UNCHANGED diarPath
    PROVE  WarningInv'
<1>1. result.failed \in BOOLEAN /\ (result.failed => diarizer)
  BY OnlyADiarizerFails DEF WarningInv
<1>2. CASE result.failed BY <1>1, <1>2 DEF WarningInv, WarningTellsDegraded, Diarized
<1>3. CASE ~result.failed BY <1>1, <1>3 DEF WarningInv, WarningTellsDegraded, Diarized
<1> QED BY <1>2, <1>3

(* Every step of the handle keeps the warning true.                         *)
LEMMA HandleWarns == WarningInv /\ NextHandle => WarningInv'
<1> SUFFICES ASSUME WarningInv, NextHandle PROVE WarningInv'
  OBVIOUS
<1> DEFINE Still == UNCHANGED <<diarPath, diarizer, warning>>
<1>1. Still => WarningInv' BY DEF WarningInv, WarningTellsDegraded
<1>2. ASSUME NEW n \in Pushes, PushAudio(n) PROVE WarningInv'
  <2>1. /\ UNCHANGED diarPath
        /\ \E result \in DiarResults(((diarAudio + n) \div DiarChunk) * DiarChunk) :
              Diarized(result)
    BY <1>2 DEF PushAudio
  <2> QED BY <2>1, DiarizedWarns
<1>3. ASSUME NEW cutoff \in Cutoffs \cup {Never}, Finish(cutoff) PROVE WarningInv'
  <2>1. UNCHANGED diarPath /\ \E result \in DiarResults(diarAudio) : Diarized(result)
    BY <1>3 DEF Finish
  <2> QED BY <2>1, DiarizedWarns
<1>4. ASSUME NEW n \in Pushes, PushFails(n) PROVE WarningInv'
  BY <1>1, <1>4 DEF PushFails
<1>5. ASSUME NEW cutoff \in Cutoffs, TextBefore(cutoff) PROVE WarningInv'
  BY <1>1, <1>5 DEF TextBefore
<1>6. CASE FinishFails \/ Refused BY <1>1, <1>6 DEF FinishFails, Refused
<1>7. CASE Destroy BY <1>7 DEF Destroy, WarningInv, WarningTellsDegraded
<1>8. CASE StartUtterance
  <2>1. /\ diarPath' = diarPath
        /\ \/ diarizer' = diarPath /\ warning' = "none"
           \/ diarPath /\ ~diarizer' /\ diarizer' \in BOOLEAN /\ warning' # "none"
    BY <1>8 DEF StartUtterance
  <2>2. diarPath' \in BOOLEAN /\ diarizer' \in BOOLEAN
    BY <2>1, Zenon DEF WarningInv
  <2>3. (diarizer' => diarPath') /\ (warning' # "none" <=> diarPath' /\ ~diarizer')
    BY <2>1
  <2> QED BY <2>2, <2>3 DEF WarningInv, WarningTellsDegraded
<1> QED BY <1>2, <1>3, <1>4, <1>5, <1>6, <1>7, <1>8 DEF NextHandle

(* catcher_warning tells whether a handle with a diarization model works    *)
(* without it, whatever fails, in whatever order of calls (finish_session,  *)
(* push_diar_samples and catcher_start in lib.rs).                          *)
THEOREM WarningIsTrue == Spec => []WarningTellsDegraded
<1>1. Init => WarningInv
  BY DEF Init, InitHandle, WarningInv, WarningTellsDegraded
<1>2. WarningInv /\ [Next]_vars => WarningInv'
  <2> SUFFICES ASSUME WarningInv, [Next]_vars PROVE WarningInv'
    OBVIOUS
  <2>1. UNCHANGED handleVars => WarningInv'
    BY DEF handleVars, WarningInv, WarningTellsDegraded
  <2>2. CASE EndCreate
    <3>1. PICK withDiarizer \in BOOLEAN : Create(withDiarizer) BY <2>2 DEF EndCreate
    <3> QED BY <3>1 DEF Create, WarningInv, WarningTellsDegraded
  <2>3. CASE BeginCreate \/ ReadArtifact \/ CreateFails
    BY <2>1, <2>3 DEF BeginCreate, ReadArtifact, CreateFails
  <2>4. CASE NextHandle BY <2>4, HandleWarns
  <2>5. CASE UNCHANGED <<handleVars, reading, loaded>> \/ UNCHANGED vars
    BY <2>1, <2>5 DEF vars
  <2> QED BY <2>2, <2>3, <2>4, <2>5 DEF Next
<1>3. WarningInv => WarningTellsDegraded BY DEF WarningInv
<1> QED BY <1>1, <1>2, <1>3, PTL DEF Spec

-----------------------------------------------------------------------------
(* What a handle holds: the inductive invariant.                            *)

Said == [id : Kinds, frame : 0..(MaxAudio + AsrChunk)]

(* The scalars; only a handle that was given a diarizer has one.            *)
CallInv ==
    /\ state \in {"none", "idle", "started", "finished"}
    /\ diarPath \in BOOLEAN /\ diarizer \in BOOLEAN /\ (diarizer => diarPath)
    /\ warning \in {"none", "disabled", "unavailable"}
    /\ status \in {"none", "ok", "no_update", "invalid_state", "runtime_error"}
    /\ faults \in 0..MaxFaults

(* An open transcriber has cut every whole window of its audio, a closed    *)
(* one at most one more; its clock has passed some of the windows.          *)
ClockInv ==
    /\ closed \in BOOLEAN
    /\ audio \in 0..MaxAudio /\ windows \in 0..(audio + 1) /\ diarAudio \in 0..audio
    /\ \E k \in 0..windows : clock = k * AsrChunk
    /\ ~closed => windows = audio \div AsrChunk

(* The tokens of handle and fusion are the same, in order and behind the    *)
(* clock; the diarizer's frames are of audio it has heard; only a finish,   *)
(* which closes the transcriber, flushes.                                   *)
FusionInv ==
    /\ fusion \in [tokens : Seq(Said), diar : Heard, flushed : BOOLEAN]
    /\ fusion.tokens = timedTokens /\ InOrder(fusion.tokens)
    /\ \A i \in 1..Len(fusion.tokens) : fusion.tokens[i].frame < clock
    /\ Len(fusion.diar) <= diarAudio
    /\ fusion.flushed => closed

(* The strings are those of some earlier tokens, text and segments together. *)
StringsInv ==
    /\ text \in Seq(Said) /\ textBefore \in Seq(Said) /\ segments \in Seq(Segs(Said))
    /\ diarPath => FlattenSeq(TextsOf(segments)) = text
    /\ InTime(segments)
    /\ \A k \in 1..Len(segments) : k < Len(segments) => segments[k].final = TRUE
    /\ state = "finished" /\ Decodable(timedTokens) =>
          \A k \in 1..Len(segments) : segments[k].final = TRUE

HandleInv == CallInv /\ ClockInv /\ FusionInv /\ StringsInv

-----------------------------------------------------------------------------
(* The arithmetic of windows.                                               *)

(* A quotient times its divisor, and the rest.                              *)
LEMMA Divided ==
    ASSUME NEW a \in Nat, NEW c \in Nat, c > 0
    PROVE  /\ a \div c \in Nat /\ (a \div c) * c <= a /\ a < (a \div c) * c + c
           /\ a \div c <= a
<1>1. a = c * (a \div c) + (a % c) /\ a \div c \in Int /\ a % c \in 0..(c - 1) OBVIOUS
<1> DEFINE q == a \div c  r == a % c
<1>2. q \in Int /\ r \in 0..(c - 1) /\ a = c * q + r /\ c \in Nat BY <1>1
<1> HIDE DEF q, r
<1>3. q >= 0
  <2> SUFFICES ASSUME q <= -1 PROVE FALSE BY <1>2
  <2>1. c * q <= c * (-1) BY <1>2
  <2> QED BY <1>2, <2>1
<1>4. q * c = c * q /\ c * q >= q BY <1>2, <1>3
<1>5. q \in Nat /\ q * c <= a /\ a < q * c + c /\ q <= a BY <1>2, <1>3, <1>4
<1> QED BY <1>5 DEF q

(* A larger number has no smaller quotient.                                 *)
LEMMA DividedGrows ==
    ASSUME NEW a \in Nat, NEW n \in Nat, NEW c \in Nat, c > 0
    PROVE  (a + n) \div c - a \div c \in Nat
<1> DEFINE p == a \div c  q == (a + n) \div c
<1>1. p \in Nat /\ p * c <= a /\ q \in Nat /\ a + n < q * c + c
  <2>1. a + n \in Nat OBVIOUS
  <2> QED BY <2>1, Divided
<1> HIDE DEF p, q
<1>2. p <= q
  <2> SUFFICES ASSUME q + 1 <= p PROVE FALSE BY <1>1
  <2>1. (q + 1) * c <= p * c BY <1>1
  <2>2. (q + 1) * c = q * c + c BY <1>1
  <2>3. q * c \in Int /\ p * c \in Int BY <1>1
  <2> DEFINE x == q * c  y == p * c  z == (q + 1) * c
  <2>4. x \in Int /\ y \in Int /\ z <= y /\ z = x + c /\ y <= a /\ a + n < x + c
    BY <1>1, <2>1, <2>2, <2>3
  <2> HIDE DEF x, y, z
  <2> QED BY <2>4
<1>3. q - p \in Nat BY <1>1, <1>2
<1> QED BY <1>3 DEF p, q

(* Pieces of one size flatten to as many elements as they have.             *)
LEMMA FlatLength ==
    ASSUME NEW S, NEW size \in Nat, NEW n \in Nat, NEW seqs \in [1..n -> [1..size -> S]]
    PROVE  FlattenSeq(seqs) \in Seq(S) /\ Len(FlattenSeq(seqs)) = n * size
<1>1. seqs \in Seq(Seq(S)) /\ Len(seqs) = n
  <2>1. \A s \in [1..size -> S] : s \in Seq(S) OBVIOUS
  <2>2. \A i \in 1..n : seqs[i] \in Seq(S) BY <2>1
  <2> QED BY <2>2
<1>2. \A i \in 1..n : Len(seqs[i]) = size
  <2>1. \A s \in [1..size -> S] : Len(s) = size OBVIOUS
  <2> QED BY <2>1
<1>3. PICK flat \in [0..n -> Seq(S)] :
         FlattenedBy(seqs, flat) /\ FlattenSeq(seqs) = flat[n]
  BY <1>1, Flattening
<1> DEFINE T == {k \in 0..n : Len(flat[k]) = k * size}
<1>4. \A k \in 0..n : k \in T
  <2>1. 0 \in T
    <3>1. Len(<<>>) = 0 /\ 0 * size = 0 /\ 0 \in 0..n OBVIOUS
    <3> QED BY <1>1, <1>3, <3>1 DEF FlattenedBy
  <2>2. ASSUME NEW k \in 1..n, k - 1 \in T PROVE k \in T
    <3> DEFINE s == flat[k - 1]  u == seqs[k]
    <3>1. flat[k] = s \o u BY <1>1, <1>3 DEF FlattenedBy
    <3>2. k - 1 \in 0..n /\ k \in 0..n OBVIOUS
    <3>3. s \in Seq(S) /\ u \in Seq(S) /\ Len(s) = (k - 1) * size /\ Len(u) = size
      BY <1>1, <1>2, <2>2, <3>2
    <3> HIDE DEF s, u
    <3>4. Len(s \o u) = Len(s) + Len(u) BY <3>3, Joined
    <3>5. (k - 1) * size + size = k * size OBVIOUS
    <3>6. Len(flat[k]) = k * size BY <3>1, <3>3, <3>4, <3>5
    <3> QED BY <3>2, <3>6
  <2> HIDE DEF T
  <2> QED BY <2>1, <2>2, UpTo
<1>5. n \in 0..n OBVIOUS
<1> QED BY <1>3, <1>4, <1>5

-----------------------------------------------------------------------------
(* What the models behind the handle return.                                *)

(* Tokens that are timed frame by frame are in order.                       *)
LEMMA FrameByFrame ==
    ASSUME NEW from \in Nat, NEW seqs \in Seq(Seq(Timed)),
           \A k \in 1..Len(seqs) : \A i \in 1..Len(seqs[k]) : seqs[k][i].frame = from + k - 1,
           NEW tokens, tokens = FlattenSeq(seqs)
    PROVE  /\ tokens \in Seq(Timed) /\ InOrder(tokens)
           /\ \A i \in 1..Len(tokens) :
                 from <= tokens[i].frame /\ tokens[i].frame < from + Len(seqs)
<1> DEFINE n == Len(seqs)
<1>1. n \in Nat OBVIOUS
<1>2. PICK flat \in [0..n -> Seq(Timed)] :
         FlattenedBy(seqs, flat) /\ FlattenSeq(seqs) = flat[n]
  BY Flattening
<1> DEFINE T == {k \in 0..n : /\ InOrder(flat[k])
                              /\ \A i \in 1..Len(flat[k]) :
                                    /\ from <= flat[k][i].frame
                                    /\ flat[k][i].frame < from + k}
<1>3. \A k \in 0..n : k \in T
  <2>1. 0 \in T
    <3>1. flat[0] = <<>> /\ Len(<<>>) = 0 /\ 0 \in 0..n BY <1>1, <1>2 DEF FlattenedBy
    <3>2. 1..Len(flat[0]) = {} BY <3>1
    <3> QED BY <3>1, <3>2 DEF InOrder
  <2>2. ASSUME NEW k \in 1..n, k - 1 \in T PROVE k \in T
    <3> DEFINE s == flat[k - 1]  u == seqs[k]  at == from + k - 1
    <3>1. flat[k] = s \o u BY <1>2 DEF FlattenedBy
    <3>2. k - 1 \in 0..n /\ k \in 0..n /\ k \in Nat /\ at \in Nat BY <1>1
    <3>3. s \in Seq(Timed) /\ u \in Seq(Timed)
      <4>1. s \in Seq(Timed) BY <1>2, <3>2
      <4>2. u \in Seq(Timed) OBVIOUS
      <4> QED BY <4>1, <4>2
    <3>4. /\ InOrder(s)
          /\ \A i \in 1..Len(s) : from <= s[i].frame /\ s[i].frame < from + (k - 1)
      BY <2>2
    <3>5. \A i \in 1..Len(u) : u[i].frame = at OBVIOUS
    <3>6. from + (k - 1) = at /\ at < from + k /\ from <= at BY <3>2
    <3> HIDE DEF s, u, at
    <3>7. InOrder(u) BY <3>2, <3>5 DEF InOrder
    <3>8. InOrder(s \o u)
      <4>1. \A i \in 1..Len(s) : s[i].frame < at BY <3>4, <3>6
      <4>2. \A i \in 1..Len(u) : u[i].frame >= at BY <3>2, <3>5
      <4> QED BY <3>2, <3>3, <3>4, <3>7, <4>1, <4>2, LaterTokens
    <3>9. ASSUME NEW i \in 1..Len(s \o u)
          PROVE  from <= (s \o u)[i].frame /\ (s \o u)[i].frame < from + k
      <4>1. /\ Len(s \o u) = Len(s) + Len(u) /\ Len(s) \in Nat /\ Len(u) \in Nat
            /\ \A j \in 1..Len(s) : (s \o u)[j] = s[j]
            /\ \A j \in 1..Len(u) : (s \o u)[Len(s) + j] = u[j]
        BY <3>3, Joined
      <4>2. CASE i <= Len(s)
        <5>1. i \in 1..Len(s) BY <4>1, <4>2
        <5>2. s[i].frame \in Nat BY <3>3, <5>1, FrameOf
        <5> QED BY <3>2, <3>4, <4>1, <5>1, <5>2, SMTT(30)
      <4>3. CASE ~(i <= Len(s))
        <5>1. i - Len(s) \in 1..Len(u) /\ Len(s) + (i - Len(s)) = i BY <4>1, <4>3
        <5>2. (s \o u)[i] = u[i - Len(s)] BY <4>1, <5>1
        <5> QED BY <3>5, <3>6, <5>1, <5>2
      <4> QED BY <4>2, <4>3
    <3> QED BY <3>1, <3>2, <3>8, <3>9
  <2> HIDE DEF T
  <2> QED BY <1>1, <2>1, <2>2, UpTo
<1>4. n \in 0..n BY <1>1
<1>5. flat[n] \in Seq(Timed) BY <1>2, <1>4
<1> QED BY <1>2, <1>3, <1>4, <1>5

(* The tokens of the next windows are in order and between the clock and    *)
(* what the clock will be.                                                  *)
LEMMA UtteranceIs ==
    ASSUME clock \in Nat, NEW due \in Nat, NEW tokens \in Utterances(due)
    PROVE  /\ tokens \in Seq(Timed) /\ InOrder(tokens)
           /\ \A i \in 1..Len(tokens) :
                 clock <= tokens[i].frame /\ tokens[i].frame < clock + due * AsrChunk
<1> DEFINE framed(said) ==
             [i \in DOMAIN said |->
                [n \in DOMAIN said[i] |-> [id |-> said[i][n], frame |-> clock + i - 1]]]
<1>1. PICK patterns \in [1..due -> AsrPatterns] : tokens = FlattenSeq(framed(FlattenSeq(patterns)))
  BY Zenon DEF Utterances
<1>2. AsrChunk \in Nat /\ AsrPatterns \subseteq [1..AsrChunk -> Seq(Kinds)]
  BY HandleAssumption
<1>3. PICK said : said = FlattenSeq(patterns) OBVIOUS
<1>4. said \in Seq(Seq(Kinds)) /\ Len(said) = due * AsrChunk
  <2>1. patterns \in [1..due -> [1..AsrChunk -> Seq(Kinds)]] BY <1>2
  <2> QED BY <1>2, <1>3, <2>1, FlatLength
<1>5. PICK seqs : seqs = framed(said) OBVIOUS
<1>6. DOMAIN said = 1..Len(said) /\ Len(said) \in Nat BY <1>4
<1>7. ASSUME NEW k \in 1..Len(said)
      PROVE  /\ seqs[k] \in Seq(Timed)
             /\ \A i \in 1..Len(seqs[k]) : seqs[k][i].frame = clock + k - 1
  <2> DEFINE s == said[k]  at == clock + k - 1
  <2>1. s \in Seq(Kinds) /\ at \in Nat BY <1>4, <1>6
  <2>2. seqs[k] = [n \in DOMAIN s |-> [id |-> s[n], frame |-> at]] BY <1>5, <1>6
  <2> HIDE DEF s, at
  <2>3. DOMAIN s = 1..Len(s) /\ Len(s) \in Nat /\ \A n \in 1..Len(s) : s[n] \in Kinds BY <2>1
  <2>4. \A n \in 1..Len(s) : [id |-> s[n], frame |-> at] \in Timed BY <2>1, <2>3 DEF Timed
  <2>5. seqs[k] \in [1..Len(s) -> Timed] BY <2>2, <2>3, <2>4
  <2>6. seqs[k] \in Seq(Timed) /\ Len(seqs[k]) = Len(s)
    <3>1. \A n \in Nat : \A q \in [1..n -> Timed] : q \in Seq(Timed) /\ Len(q) = n OBVIOUS
    <3> QED BY <2>3, <2>5, <3>1
  <2>7. \A i \in 1..Len(s) : seqs[k][i].frame = at BY <2>2, <2>3
  <2> QED BY <2>6, <2>7 DEF at
<1>8. seqs \in Seq(Seq(Timed)) /\ Len(seqs) = Len(said)
  <2>1. DOMAIN seqs = 1..Len(said) /\ seqs = [k \in 1..Len(said) |-> seqs[k]] BY <1>5, <1>6
  <2>2. seqs \in [1..Len(said) -> Seq(Timed)] BY <1>7, <2>1
  <2> QED BY <1>6, <2>2
<1>9. tokens = FlattenSeq(seqs) BY <1>1, <1>3, <1>5
<1> HIDE DEF framed
<1> QED BY <1>4, <1>7, <1>8, <1>9, FrameByFrame

(* The diarizer's frames follow those it has returned, up to the given      *)
(* time at most; a failure has none, and is counted.                        *)
LEMMA DiarResultIs ==
    ASSUME fusion.diar \in Heard, diarizer \in BOOLEAN, NEW upTo \in Nat,
           NEW result \in DiarResults(upTo)
    PROVE  /\ result.frames \in Heard /\ result.failed \in BOOLEAN
           /\ \/ Len(result.frames) = 0
              \/ diarizer /\ Len(fusion.diar) + Len(result.frames) <= upTo
           /\ result.failed => faults < MaxFaults
<1> DEFINE from   == Len(fusion.diar)
           due    == upTo - from
           chunks == (due + DiarChunk - 1) \div DiarChunk
           heard  == {[frames |-> SubSeq(FlattenSeq(patterns), 1, due), failed |-> FALSE]
                        : patterns \in [1..chunks -> DiarPatterns]}
           lost   == IF faults < MaxFaults THEN {[frames |-> <<>>, failed |-> TRUE]} ELSE {}
<1>1. <<>> \in Heard /\ Len(<<>>) = 0 BY DEF Heard
<1>2. CASE ~diarizer
  <2>1. DiarResults(upTo) = {[frames |-> <<>>, failed |-> FALSE]}
    BY <1>2, Zenon DEF DiarResults
  <2>2. result = [frames |-> <<>>, failed |-> FALSE] BY <2>1, Zenon
  <2> QED BY <1>1, <2>2
<1>3. CASE diarizer
  <2>1. DiarResults(upTo) = heard \cup lost BY <1>3, Zenon DEF DiarResults
  <2>2. CASE result \in lost
    <3>1. result = [frames |-> <<>>, failed |-> TRUE] /\ faults < MaxFaults BY <2>2, Zenon
    <3> QED BY <1>1, <3>1
  <2>3. CASE result \in heard
    <3>1. PICK patterns \in [1..chunks -> DiarPatterns] :
             result = [frames |-> SubSeq(FlattenSeq(patterns), 1, due), failed |-> FALSE]
      BY <2>3, Zenon
    <3>2. result.frames = SubSeq(FlattenSeq(patterns), 1, due) /\ result.failed = FALSE
      BY <3>1
    <3>3. from \in Nat /\ due \in Int /\ DiarChunk \in Nat /\ DiarChunk > 0
      BY HandleAssumption DEF Heard
    <3>4. CASE due < 1
      <4> DEFINE flat == FlattenSeq(patterns)  none == due
      <4>1. none \in Int /\ none < 1 BY <3>3, <3>4
      <4> HIDE DEF flat, none
      <4>2. SubSeq(flat, 1, none) = <<>> BY <4>1
      <4>3. result.frames = <<>> BY <3>2, <4>2 DEF flat, none
      <4> QED BY <1>1, <3>2, <4>3
    <3>5. CASE due >= 1
      <4>1. due \in Nat /\ due + DiarChunk - 1 \in Nat BY <3>3, <3>5
      <4>2. chunks \in Nat /\ due + DiarChunk - 1 < chunks * DiarChunk + DiarChunk
        BY <3>3, <4>1, Divided
      <4>10. from + due = upTo BY <3>3
      <4> HIDE DEF chunks, due, from
      <4>3. chunks * DiarChunk \in Nat BY <3>3, <4>2
      <4>4. due <= chunks * DiarChunk
        <5> DEFINE c == chunks * DiarChunk
        <5>1. c \in Nat /\ due + DiarChunk - 1 < c + DiarChunk BY <4>2, <4>3
        <5> HIDE DEF c
        <5>2. due <= c BY <3>3, <4>1, <5>1
        <5> QED BY <5>2 DEF c
      <4>5. patterns \in [1..chunks -> [1..DiarChunk -> [Speakers -> Nat]]]
        BY HandleAssumption
      <4>6. /\ FlattenSeq(patterns) \in Seq([Speakers -> Nat])
            /\ Len(FlattenSeq(patterns)) = chunks * DiarChunk
        BY <3>3, <4>2, <4>5, FlatLength
      <4> DEFINE flat == FlattenSeq(patterns)
      <4>7. flat \in Seq([Speakers -> Nat]) /\ due <= Len(flat) BY <4>4, <4>6
      <4> HIDE DEF flat
      <4>8. /\ SubSeq(flat, 1, due) \in Seq([Speakers -> Nat])
            /\ Len(SubSeq(flat, 1, due)) = due + 1 - 1
        <5>1. 1 \in Nat /\ 1 <= 1 /\ 1 <= due + 1 BY <4>1
        <5> QED BY <4>1, <4>7, <5>1, Part
      <4>9. result.frames \in Heard /\ Len(result.frames) = due
        <5>1. result.frames = SubSeq(flat, 1, due) BY <3>2 DEF flat
        <5>2. due + 1 - 1 = due BY <4>1
        <5> QED BY <4>8, <5>1, <5>2 DEF Heard
      <4>11. diarizer /\ from + Len(result.frames) <= upTo BY <1>3, <4>9, <4>10
      <4> QED BY <3>2, <4>9, <4>11 DEF from
    <3> HIDE DEF due
    <3>6. due < 1 \/ due >= 1 BY <3>3
    <3> QED BY <3>4, <3>5, <3>6, Zenon
  <2> QED BY <2>1, <2>2, <2>3, Zenon
<1> QED BY <1>2, <1>3

-----------------------------------------------------------------------------
(* The invariant, action by action.                                         *)

(* Frames that the model can reach are among the times of tokens.           *)
LEMMA SaidIs ==
    /\ Said \in SUBSET Timed /\ TimedTokens = Seq(Said)
    /\ MaxAudio \in Nat /\ MaxFaults \in Nat
    /\ AsrChunk \in Nat /\ AsrChunk > 0 /\ DiarChunk \in Nat /\ DiarChunk > 0
    /\ \A n \in Pushes : n \in Nat
    /\ \A cutoff \in Cutoffs \cup {Never} : cutoff \in Nat
<1>1. /\ MaxAudio \in Nat /\ MaxFaults \in Nat
      /\ AsrChunk \in Nat /\ AsrChunk > 0 /\ DiarChunk \in Nat /\ DiarChunk > 0
      /\ \A n \in Pushes : n \in Nat
      /\ \A cutoff \in Cutoffs : cutoff \in Nat
  BY HandleAssumption
<1>2. Never \in Nat
  <2> DEFINE a == MaxAudio + AsrChunk
  <2>1. a \in Nat BY <1>1
  <2> HIDE DEF a
  <2>2. a * FrameMs \in Nat BY <2>1, Milliseconds
  <2> QED BY <2>2 DEF a, Never
<1>3. 0..(MaxAudio + AsrChunk) \subseteq Nat OBVIOUS
<1>4. Said \in SUBSET Timed BY <1>3 DEF Said, Timed
<1> QED BY <1>1, <1>2, <1>4 DEF TimedTokens, Said

(* No segments spell no text.                                               *)
LEMMA NothingSpelt ==
    /\ <<>> \in Seq(Segs(Said)) /\ <<>> \in Seq(Said)
    /\ FlattenSeq(TextsOf(<<>>)) = <<>> /\ InTime(<<>>)
    /\ Len(<<>>) = 0 /\ 1..Len(<<>>) = {}
<1>1. <<>> \in Seq(Segs(Said)) /\ <<>> \in Seq(Said) /\ Len(<<>>) = 0 /\ 1..Len(<<>>) = {}
  OBVIOUS
<1>2. TextsOf(<<>>) \in Seq(Seq(Said)) /\ Len(TextsOf(<<>>)) = 0 BY <1>1, TextsAre
<1> DEFINE none == TextsOf(<<>>)
<1>3. none \in Seq(Seq(Said)) /\ Len(none) = 0 BY <1>2
<1> HIDE DEF none
<1>4. FlattenSeq(none) = <<>> BY <1>3, Flattening, ZenonT(30) DEF FlattenedBy
<1> QED BY <1>1, <1>4 DEF none, InTime

(* A new utterance, or none, starts from nothing.                           *)
LEMMA NewUtteranceInv ==
    ASSUME NewUtterance, state' # "finished"
    PROVE  ClockInv' /\ FusionInv' /\ StringsInv'
<1> USE SaidIs
<1>1. ClockInv'
  <2>1. audio' = 0 /\ windows' = 0 /\ clock' = 0 /\ closed' = FALSE /\ diarAudio' = 0
    BY DEF NewUtterance
  <2>2. 0 \div AsrChunk = 0
    <3>1. 0 \div AsrChunk \in Nat /\ 0 \div AsrChunk <= 0
      <4>1. 0 \in Nat OBVIOUS
      <4> QED BY <4>1, Divided
    <3> QED BY <3>1
  <2>3. 0 = 0 * AsrChunk /\ 0 \in 0..0 /\ 0 \in 0..(0 + 1) /\ 0 \in 0..MaxAudio OBVIOUS
  <2> QED BY <2>1, <2>2, <2>3 DEF ClockInv
<1>2. FusionInv'
  <2>1. fusion' = [tokens |-> <<>>, diar |-> <<>>, flushed |-> FALSE] /\ timedTokens' = <<>>
        /\ diarAudio' = 0
    BY DEF NewUtterance, NewFusion
  <2>2. <<>> \in Seq(Said) /\ <<>> \in Heard /\ Len(<<>>) = 0 /\ 1..Len(<<>>) = {} BY DEF Heard
  <2>3. InOrder(<<>>) BY <2>2 DEF InOrder
  <2>4. fusion'.tokens = <<>> /\ fusion'.diar = <<>> /\ fusion'.flushed = FALSE BY <2>1
  <2>5. fusion' \in [tokens : Seq(Said), diar : Heard, flushed : BOOLEAN] BY <2>1, <2>2
  <2>6. Len(fusion'.diar) <= diarAudio' BY <2>1, <2>2, <2>4
  <2>7. InOrder(fusion'.tokens) /\ 1..Len(fusion'.tokens) = {} BY <2>2, <2>3, <2>4
  <2> QED BY <2>1, <2>4, <2>5, <2>6, <2>7 DEF FusionInv
<1>3. StringsInv'
  <2>1. text' = <<>> /\ textBefore' = <<>> /\ segments' = <<>> BY DEF NewUtterance
  <2> QED BY <2>1, NothingSpelt DEF StringsInv
<1> QED BY <1>1, <1>2, <1>3

(* A sequence whose elements are in a set is a sequence over it.            *)
LEMMA MadeOf ==
    ASSUME NEW S, NEW P, NEW s \in Seq(S), \A i \in 1..Len(s) : s[i] \in P
    PROVE  s \in Seq(P)
OBVIOUS

(* What has been said grows by tokens that are behind the next clock.       *)
LEMMA SaidGrows ==
    ASSUME FusionInv, clock \in Nat, NEW due \in Nat, NEW tokens \in Utterances(due),
           NEW next \in Nat, next = clock + due * AsrChunk, next <= MaxAudio + AsrChunk,
           NEW all, all = fusion.tokens \o tokens
    PROVE  /\ all \in Seq(Said) /\ InOrder(all) /\ Len(fusion.tokens) <= Len(all)
           /\ \A i \in 1..Len(fusion.tokens) : all[i] = fusion.tokens[i]
           /\ \A i \in 1..Len(all) : all[i].frame < next
           /\ tokens = <<>> => all = fusion.tokens
<1> USE SaidIs
<1>1. PICK before : before = fusion.tokens OBVIOUS
<1>2. /\ before \in Seq(Said) /\ before \in Seq(Timed) /\ InOrder(before)
      /\ \A i \in 1..Len(before) : before[i].frame < clock
  <2>1. /\ before \in Seq(Said) /\ InOrder(before)
        /\ \A i \in 1..Len(before) : before[i].frame < clock
    BY <1>1 DEF FusionInv
  <2>2. before \in Seq(Timed) BY <2>1
  <2> QED BY <2>1, <2>2
<1>3. /\ tokens \in Seq(Timed) /\ InOrder(tokens)
      /\ \A i \in 1..Len(tokens) : clock <= tokens[i].frame /\ tokens[i].frame < next
  BY UtteranceIs
<1>4. /\ all \in Seq(Timed) /\ Len(all) = Len(before) + Len(tokens)
      /\ Len(before) \in Nat /\ Len(tokens) \in Nat
      /\ \A i \in 1..Len(before) : all[i] = before[i]
      /\ \A i \in 1..Len(tokens) : all[Len(before) + i] = tokens[i]
  BY <1>1, <1>2, <1>3, Joined
<1>5. InOrder(all)
  <2>1. \A i \in 1..Len(tokens) : tokens[i].frame >= clock
    <3> SUFFICES ASSUME NEW i \in 1..Len(tokens) PROVE tokens[i].frame >= clock OBVIOUS
    <3>1. tokens[i].frame \in Nat BY <1>3, FrameOf
    <3> QED BY <1>3, <3>1
  <2> QED BY <1>1, <1>2, <1>3, <2>1, LaterTokens
<1>6. clock <= next
  <2>1. due * AsrChunk \in Nat OBVIOUS
  <2> QED BY <2>1
<1>7. ASSUME NEW i \in 1..Len(all) PROVE all[i] \in Said /\ all[i].frame < next
  <2>1. all[i] \in Timed /\ all[i].frame \in Nat BY <1>4, FrameOf
  <2>2. all[i].frame < next
    <3>1. CASE i <= Len(before)
      <4>1. i \in 1..Len(before) BY <1>4, <3>1
      <4>2. all[i].frame < clock BY <1>2, <1>4, <4>1
      <4> QED BY <1>6, <2>1, <4>2
    <3>2. CASE ~(i <= Len(before))
      <4>1. i - Len(before) \in 1..Len(tokens) /\ Len(before) + (i - Len(before)) = i
        BY <1>4, <3>2
      <4> QED BY <1>3, <1>4, <4>1
    <3> QED BY <3>1, <3>2
  <2>3. all[i].frame \in 0..(MaxAudio + AsrChunk) BY <2>1, <2>2
  <2> QED BY <2>1, <2>2, <2>3 DEF Timed, Said
<1>8. all \in Seq(Said) BY <1>4, <1>7, MadeOf
<1>9. tokens = <<>> => all = before
  <2>1. \A s \in Seq(Said) : s \o <<>> = s OBVIOUS
  <2> QED BY <1>1, <1>2, <2>1
<1> QED BY <1>1, <1>4, <1>5, <1>7, <1>8, <1>9

(* What has been heard grows by frames of audio up to the given time.       *)
LEMMA HeardGrows ==
    ASSUME FusionInv, diarizer \in BOOLEAN, NEW upTo \in Nat,
           NEW result \in DiarResults(upTo), NEW all, all = fusion.diar \o result.frames
    PROVE  /\ all \in Heard /\ Continues(fusion.diar, all)
           /\ Len(all) = Len(fusion.diar) \/ (diarizer /\ Len(all) <= upTo)
<1>1. PICK before : before = fusion.diar OBVIOUS
<1>2. before \in Heard BY <1>1 DEF FusionInv
<1>3. PICK frames : frames = result.frames OBVIOUS
<1>4. /\ frames \in Heard
      /\ Len(frames) = 0 \/ (diarizer /\ Len(before) + Len(frames) <= upTo)
  BY <1>1, <1>2, <1>3, DiarResultIs
<1>5. /\ all \in Seq([Speakers -> Nat]) /\ Len(all) = Len(before) + Len(frames)
      /\ Len(before) \in Nat /\ Len(frames) \in Nat
      /\ \A i \in 1..Len(before) : all[i] = before[i]
  <2> DEFINE P == [Speakers -> Nat]
  <2>1. before \in Seq(P) /\ frames \in Seq(P) BY <1>2, <1>4 DEF Heard
  <2> HIDE DEF P
  <2>2. /\ before \o frames \in Seq(P) /\ Len(before \o frames) = Len(before) + Len(frames)
        /\ Len(before) \in Nat /\ Len(frames) \in Nat
        /\ \A i \in 1..Len(before) : (before \o frames)[i] = before[i]
    BY <2>1, Joined
  <2> QED BY <1>1, <1>3, <2>2 DEF P
<1>6. Len(all) = Len(before) \/ (diarizer /\ Len(all) <= upTo) BY <1>4, <1>5
<1>7. all \in Heard BY <1>5 DEF Heard
<1>8. Continues(before, all)
  <2>1. Len(before) <= Len(all)
    <3> DEFINE a == Len(before)  b == Len(frames)  c == Len(all)
    <3>1. a \in Nat /\ b \in Nat /\ c = a + b BY <1>5
    <3> HIDE DEF a, b, c
    <3>2. a <= c BY <3>1
    <3> QED BY <3>2 DEF a, c
  <2>2. \A i \in 1..Len(before) : all[i] = before[i] BY <1>5
  <2> QED BY <2>1, <2>2, Zenon DEF Continues
<1> QED BY <1>1, <1>6, <1>7, <1>8

(* A call that rebuilds the strings leaves them spelling what the fusion    *)
(* has, or leaves them alone.                                               *)
LEMMA RebuildInv ==
    ASSUME StringsInv, FusionInv', UNCHANGED <<diarPath, textBefore>>, diarPath \in BOOLEAN,
           NEW tokens, Rebuild(tokens), state' = "finished" => fusion'.flushed
    PROVE  /\ StringsInv' /\ status' \in {"ok", "no_update", "runtime_error"}
           /\ Decodable(timedTokens') => text' = Decode(timedTokens')
<1>1. PICK f : f = fusion' OBVIOUS
<1>2. /\ f \in [tokens : Seq(Said), diar : Heard, flushed : BOOLEAN]
      /\ f.tokens = timedTokens' /\ InOrder(f.tokens)
  BY <1>1 DEF FusionInv
<1>3. f.tokens \in Seq(Said) /\ f.diar \in Heard /\ f.flushed \in BOOLEAN BY <1>2
<1>4. f.tokens \in Seq(Timed) BY <1>3, SaidIs
<1>5. Fused(f) BY <1>2, <1>3, <1>4 DEF Fused
<1>6. CASE Decodable(timedTokens')
  <2>1. text' = Decode(timedTokens') /\ status' \in {"ok", "no_update"}
        /\ segments' = IF diarPath THEN Segments(fusion') ELSE <<>>
    BY <1>6 DEF Rebuild
  <2>2. text' \in Seq(Said) BY <1>2, <1>3, <2>1, DecodeType
  <2>3. textBefore' \in Seq(Said) BY DEF StringsInv
  <2>4. CASE diarPath
    <3>1. PICK segs : segs = Segments(f) OBVIOUS
    <3>2. /\ segs \in Seq(Segs(Said)) /\ InTime(segs)
          /\ FlattenSeq(TextsOf(segs)) = Decode(f.tokens)
          /\ \A k \in 1..Len(segs) : k < Len(segs) \/ f.flushed => segs[k].final = TRUE
      BY <1>2, <1>3, <1>5, <1>6, <3>1, SaidIs, SegmentsFacts
    <3>3. segments' = segs BY <1>1, <2>1, <2>4, <3>1
    <3>4. state' = "finished" => f.flushed = TRUE BY <1>1, <1>3
    <3>5. FlattenSeq(TextsOf(segments')) = text' BY <1>2, <2>1, <3>2, <3>3
    <3>6. /\ segments' \in Seq(Segs(Said)) /\ InTime(segments')
          /\ \A k \in 1..Len(segments') : k < Len(segments') => segments'[k].final = TRUE
          /\ state' = "finished" => \A k \in 1..Len(segments') : segments'[k].final = TRUE
      BY <3>2, <3>3, <3>4
    <3> QED BY <1>2, <2>1, <2>2, <2>3, <3>5, <3>6 DEF StringsInv
  <2>5. CASE ~diarPath
    <3>1. segments' = <<>> /\ ~diarPath' BY <2>1, <2>5
    <3> QED BY <2>1, <2>2, <2>3, <3>1, NothingSpelt DEF StringsInv
  <2> QED BY <2>4, <2>5
<1>7. CASE ~Decodable(timedTokens')
  <2>1. status' = "runtime_error" /\ UNCHANGED <<text, segments>>
    BY <1>7 DEF Rebuild, strings
  <2> QED BY <1>7, <2>1 DEF StringsInv
<1> QED BY <1>6, <1>7

(* The clock after due windows, and the audio that they need.               *)
LEMMA ClockIs ==
    ASSUME ClockInv
    PROVE  /\ clock \in Nat /\ windows \in Nat /\ audio \in Nat /\ diarAudio \in Nat
           /\ clock <= windows * AsrChunk
           /\ ~closed => windows * AsrChunk <= audio
<1>1. /\ audio \in Nat /\ windows \in Nat /\ diarAudio \in Nat
      /\ ~closed => windows = audio \div AsrChunk
  BY SaidIs DEF ClockInv
<1>2. PICK k \in 0..windows : clock = k * AsrChunk BY DEF ClockInv
<1>3. k \in Nat /\ k <= windows /\ AsrChunk \in Nat BY <1>1, <1>2, SaidIs
<1>4. k * AsrChunk \in Nat /\ k * AsrChunk <= windows * AsrChunk BY <1>1, <1>3
<1>5. ~closed => windows * AsrChunk <= audio BY <1>1, Divided, SaidIs
<1> QED BY <1>1, <1>2, <1>4, <1>5

(* The clock of some of the windows and due more.                           *)
LEMMA ClockMoves ==
    ASSUME ClockInv, NEW due \in Nat, NEW next, next = clock + due * AsrChunk
    PROVE  /\ next \in Nat /\ clock <= next
           /\ \E k \in 0..(windows + due) : next = k * AsrChunk
           /\ next <= (windows + due) * AsrChunk
<1>1. PICK k \in 0..windows : clock = k * AsrChunk BY DEF ClockInv
<1>2. windows \in Nat /\ AsrChunk \in Nat BY ClockIs, SaidIs
<1>3. k \in Nat /\ k <= windows BY <1>1, <1>2
<1> DEFINE j == k + due  w == windows + due
<1>4. j \in 0..w /\ j \in Nat /\ w \in Nat /\ j <= w BY <1>2, <1>3
<1>5. next = j * AsrChunk BY <1>1, <1>2, <1>3
<1>6. clock <= next
  <2>1. k * AsrChunk \in Nat /\ due * AsrChunk \in Nat BY <1>2, <1>3
  <2> DEFINE a == k * AsrChunk  b == due * AsrChunk
  <2>2. a \in Nat /\ b \in Nat /\ clock = a /\ next = a + b BY <1>1, <2>1
  <2> HIDE DEF a, b
  <2> QED BY <2>2
<1> HIDE DEF j
<1>7. j * AsrChunk \in Nat /\ j * AsrChunk <= w * AsrChunk
  <2> HIDE DEF w
  <2> QED BY <1>2, <1>4
<1> QED BY <1>4, <1>5, <1>6, <1>7

(* push: what the windows say is appended, what the diarizer returns as     *)
(* well, and the utterance only grows.                                      *)
LEMMA PushInv ==
    ASSUME HandleInv, NEW n \in Pushes, PushAudio(n)
    PROVE  HandleInv' /\ Continues(fusion.diar, fusion'.diar) /\ ~fusion.flushed
           /\ Fused(fusion')
<1> USE SaidIs
<1> DEFINE due == Due(n)  upTo == ((diarAudio + n) \div DiarChunk) * DiarChunk
<1>1. CallInv /\ ClockInv /\ FusionInv /\ StringsInv BY DEF HandleInv
<1>2. /\ state = "started" /\ ~closed /\ audio + n <= MaxAudio /\ n \in Nat
      /\ audio' = audio + n /\ diarAudio' = diarAudio + (IF diarizer THEN n ELSE 0)
      /\ windows' = windows + due /\ clock' = clock + due * AsrChunk
      /\ UNCHANGED <<state, diarPath, closed, textBefore>>
  BY DEF PushAudio
<1>3. PICK tokens \in Utterances(due), result \in DiarResults(upTo) :
         /\ fusion' = [fusion EXCEPT !.tokens = @ \o tokens, !.diar = @ \o result.frames]
         /\ timedTokens' = timedTokens \o tokens
         /\ Diarized(result)
         /\ Rebuild(tokens)
  BY DEF PushAudio
<1>4. /\ clock \in Nat /\ windows \in Nat /\ audio \in Nat /\ diarAudio \in Nat
      /\ windows = audio \div AsrChunk
  BY <1>1, <1>2, ClockIs DEF ClockInv
<1>5. due \in Nat /\ windows + due = (audio + n) \div AsrChunk
  <2>1. due = (audio + n) \div AsrChunk - audio \div AsrChunk BY <1>4 DEF Due
  <2>2. due \in Nat BY <1>2, <1>4, <2>1, DividedGrows
  <2>3. (audio + n) \div AsrChunk \in Nat /\ audio \div AsrChunk \in Nat
    <3>1. audio + n \in Nat BY <1>2, <1>4
    <3> QED BY <1>4, <3>1, Divided
  <2> QED BY <1>4, <2>1, <2>2, <2>3
<1>6. upTo \in Nat /\ upTo <= diarAudio + n
  <2>1. diarAudio + n \in Nat BY <1>2, <1>4
  <2> DEFINE q == (diarAudio + n) \div DiarChunk
  <2>2. q \in Nat /\ q * DiarChunk <= diarAudio + n BY <2>1, Divided
  <2> HIDE DEF q
  <2>3. q * DiarChunk \in Nat BY <2>2
  <2> QED BY <2>2, <2>3 DEF q
<1> HIDE DEF due, upTo
<1>7. /\ clock' \in Nat /\ clock <= clock'
      /\ \E k \in 0..windows' : clock' = k * AsrChunk
      /\ clock' <= windows' * AsrChunk
  <2>1. PICK next : next = clock + due * AsrChunk OBVIOUS
  <2>2. /\ next \in Nat /\ clock <= next
        /\ \E k \in 0..(windows + due) : next = k * AsrChunk
        /\ next <= (windows + due) * AsrChunk
    BY <1>1, <1>5, <2>1, ClockMoves
  <2>3. clock' = next /\ windows' = windows + due BY <1>2, <2>1
  <2> QED BY <2>2, <2>3
<1>8. audio' \in Nat /\ windows' \in Nat /\ windows' * AsrChunk <= audio' /\ windows' <= audio'
  <2>1. audio + n \in Nat BY <1>2, <1>4
  <2> QED BY <1>2, <1>5, <2>1, Divided
<1>9. clock' <= MaxAudio + AsrChunk
  <2> DEFINE w == windows' * AsrChunk
  <2>1. w \in Nat /\ clock' <= w /\ w <= audio' /\ audio' <= MaxAudio BY <1>2, <1>7, <1>8
  <2> HIDE DEF w
  <2> QED BY <1>7, <1>8, <2>1
<1>10. ClockInv'
  <2>1. diarizer \in BOOLEAN /\ diarAudio <= audio BY <1>1 DEF CallInv, ClockInv
  <2>2. diarAudio' \in 0..audio' BY <1>2, <1>4, <2>1
  <2>3. audio' \in 0..MaxAudio /\ windows' \in 0..(audio' + 1) BY <1>2, <1>8
  <2>4. windows' = audio' \div AsrChunk BY <1>2, <1>5
  <2>5. closed' \in BOOLEAN BY <1>1, <1>2 DEF ClockInv
  <2> QED BY <1>7, <2>2, <2>3, <2>4, <2>5 DEF ClockInv
<1>11. PICK said : said = fusion.tokens \o tokens OBVIOUS
<1>12. PICK heard : heard = fusion.diar \o result.frames OBVIOUS
<1>13. /\ said \in Seq(Said) /\ InOrder(said)
       /\ \A i \in 1..Len(said) : said[i].frame < clock'
  BY <1>1, <1>2, <1>4, <1>5, <1>7, <1>9, <1>11, SaidGrows, ZenonT(30)
<1>14. /\ heard \in Heard /\ Continues(fusion.diar, heard)
       /\ Len(heard) = Len(fusion.diar) \/ (diarizer /\ Len(heard) <= upTo)
  BY <1>1, <1>6, <1>12, HeardGrows DEF CallInv
<1>15. fusion' = [tokens |-> said, diar |-> heard, flushed |-> fusion.flushed]
  BY <1>1, <1>3, <1>11, <1>12 DEF FusionInv
<1>16. fusion'.tokens = said /\ fusion'.diar = heard /\ fusion'.flushed = fusion.flushed
  BY <1>15
<1>17. FusionInv'
  <2>1. fusion' \in [tokens : Seq(Said), diar : Heard, flushed : BOOLEAN]
    BY <1>1, <1>13, <1>14, <1>15 DEF FusionInv
  <2>2. timedTokens' = said BY <1>1, <1>3, <1>11 DEF FusionInv
  <2>3. Len(fusion'.diar) <= diarAudio'
    <3>1. Len(heard) \in Nat /\ Len(fusion.diar) \in Nat /\ Len(fusion.diar) <= diarAudio
      BY <1>1, <1>14 DEF FusionInv, Heard
    <3>2. Len(heard) <= diarAudio'
      <4>1. CASE diarizer BY <1>2, <1>4, <1>6, <1>14, <3>1, <4>1
      <4>2. CASE ~diarizer BY <1>2, <1>4, <1>14, <3>1, <4>2
      <4> QED BY <4>1, <4>2
    <3> QED BY <1>16, <3>2
  <2>4. ~fusion'.flushed BY <1>1, <1>2, <1>16 DEF FusionInv
  <2>5. InOrder(fusion'.tokens) /\ \A i \in 1..Len(fusion'.tokens) : fusion'.tokens[i].frame < clock'
    BY <1>13, <1>16
  <2> QED BY <1>16, <2>1, <2>2, <2>3, <2>4, <2>5 DEF FusionInv
<1>18. diarPath \in BOOLEAN /\ state' # "finished" BY <1>1, <1>2 DEF CallInv
<1>19. StringsInv' /\ status' \in {"ok", "no_update", "runtime_error"}
  BY <1>1, <1>2, <1>3, <1>17, <1>18, RebuildInv
<1>20. CallInv'
  <2>1. result.failed \in BOOLEAN /\ (result.failed => faults < MaxFaults)
    <3>1. fusion.diar \in Heard /\ diarizer \in BOOLEAN BY <1>1 DEF FusionInv, CallInv
    <3> QED BY <1>6, <3>1, DiarResultIs
  <2>2. /\ diarizer' = (diarizer /\ ~result.failed)
        /\ warning' = IF result.failed THEN "disabled" ELSE warning
        /\ faults' = faults + (IF result.failed THEN 1 ELSE 0)
    BY <1>3 DEF Diarized
  <2>3. faults' \in 0..MaxFaults BY <1>1, <2>1, <2>2 DEF CallInv
  <2>4. diarizer' \in BOOLEAN /\ (diarizer' => diarizer) BY <1>1, <2>1, <2>2, Zenon DEF CallInv
  <2>5. warning' \in {"none", "disabled", "unavailable"} BY <1>1, <2>2 DEF CallInv
  <2> QED BY <1>1, <1>2, <1>19, <2>3, <2>4, <2>5 DEF CallInv
<1>21. ~fusion.flushed BY <1>1, <1>2 DEF FusionInv
<1>22. Fused(fusion')
  <2>1. said \in Seq(Timed) BY <1>13
  <2>2. fusion'.flushed \in BOOLEAN BY <1>1, <1>16 DEF FusionInv
  <2> QED BY <1>13, <1>14, <1>16, <2>1, <2>2 DEF Fused
<1> QED BY <1>10, <1>14, <1>16, <1>17, <1>19, <1>20, <1>21, <1>22 DEF HandleInv

(* A cut keeps the first tokens.                                            *)
LEMMA CutIs ==
    ASSUME NEW said \in Seq(Said), InOrder(said), NEW cutoff \in Nat,
           NEW cut, cut = Before(said, cutoff)
    PROVE  /\ cut \in Seq(Said) /\ InOrder(cut) /\ Len(cut) \in Nat /\ Len(cut) <= Len(said)
           /\ \A i \in 1..Len(cut) : cut[i] = said[i]
           /\ \E d \in 0..Len(said) : cut = SubSeq(said, 1, d)
<1>1. said \in Seq(Timed) /\ Len(said) \in Nat BY SaidIs
<1>2. PICK d \in 0..Len(said) : cut = SubSeq(said, 1, d) BY <1>1, BeforeIs
<1>3. /\ cut \in Seq(Said) /\ Len(cut) = d /\ \A i \in 1..d : cut[i] = said[i]
      /\ InOrder(said) => InOrder(cut)
  <2>1. Said \in SUBSET Timed BY SaidIs
  <2>2. /\ cut \in Seq(Said) /\ Len(cut) = d /\ \A i \in 1..d : cut[i] = said[i]
        /\ InOrder(said) => InOrder(cut)
        /\ Decodable(said) => Decodable(cut)
    BY <1>2, <2>1, FirstTokens, Zenon
  <2> QED BY <2>2
<1>4. d \in Nat /\ d <= Len(said) BY <1>1, <1>2
<1> QED BY <1>2, <1>3, <1>4

(* finish and finish_before: the last window, the cut and the flush.        *)
LEMMA FinishInv ==
    ASSUME HandleInv, NEW cutoff \in Cutoffs \cup {Never}, Finish(cutoff)
    PROVE  HandleInv' /\ Continues(fusion.diar, fusion'.diar) /\ ~fusion.flushed
           /\ Fused(fusion')
<1> USE SaidIs
<1>1. CallInv /\ ClockInv /\ FusionInv /\ StringsInv BY DEF HandleInv
<1>2. /\ state = "started" /\ ~closed /\ state' = "finished" /\ closed' = TRUE
      /\ windows' = windows + Padding /\ clock' = clock + Padding * AsrChunk
      /\ UNCHANGED <<diarPath, audio, diarAudio, textBefore>>
  BY DEF Finish
<1>3. PICK tokens \in Utterances(Padding), result \in DiarResults(diarAudio) :
         /\ fusion' = [tokens  |-> Before(fusion.tokens \o tokens, cutoff),
                       diar    |-> fusion.diar \o result.frames,
                       flushed |-> TRUE]
         /\ timedTokens' = Before(timedTokens \o tokens, cutoff)
         /\ Diarized(result)
         /\ Rebuild(tokens)
  BY DEF Finish
<1>4. /\ clock \in Nat /\ windows \in Nat /\ audio \in Nat /\ diarAudio \in Nat
      /\ clock <= windows * AsrChunk /\ windows * AsrChunk <= audio /\ audio <= MaxAudio
  BY <1>1, <1>2, ClockIs DEF ClockInv
<1>5. Padding \in {0, 1} BY DEF Padding
<1>6. /\ clock' \in Nat /\ clock <= clock'
      /\ \E k \in 0..windows' : clock' = k * AsrChunk
  <2>1. PICK next : next = clock + Padding * AsrChunk OBVIOUS
  <2>2. /\ next \in Nat /\ clock <= next
        /\ \E k \in 0..(windows + Padding) : next = k * AsrChunk
    <3>1. Padding \in Nat BY <1>5
    <3> QED BY <1>1, <2>1, <3>1, ClockMoves
  <2>3. clock' = next /\ windows' = windows + Padding BY <1>2, <2>1
  <2> QED BY <2>2, <2>3
<1>7. windows' \in 0..(audio + 1)
  <2>1. windows <= audio BY <1>1, <1>2, <1>4, Divided DEF ClockInv
  <2>2. CASE Padding = 0 BY <1>2, <1>4, <2>1, <2>2
  <2>3. CASE Padding = 1 BY <1>2, <1>4, <2>1, <2>3
  <2> QED BY <1>5, <2>2, <2>3
<1>8. clock' <= MaxAudio + AsrChunk
  <2> DEFINE w == windows * AsrChunk
  <2>1. w \in Nat /\ clock <= w /\ w <= audio BY <1>4
  <2>2. Padding * AsrChunk \in Nat /\ Padding * AsrChunk <= AsrChunk BY <1>5
  <2> DEFINE p == Padding * AsrChunk
  <2>3. p \in Nat /\ p <= AsrChunk /\ clock' = clock + p BY <1>2, <2>2
  <2> HIDE DEF w, p
  <2> QED BY <1>4, <2>1, <2>3
<1>9. ClockInv'
  <2>1. closed' \in BOOLEAN /\ audio' \in 0..MaxAudio /\ diarAudio' \in 0..audio'
        /\ windows' \in 0..(audio' + 1)
    BY <1>1, <1>2, <1>7 DEF ClockInv
  <2> QED BY <1>2, <1>6, <2>1 DEF ClockInv
<1>10. PICK said : said = fusion.tokens \o tokens OBVIOUS
<1>11. PICK heard : heard = fusion.diar \o result.frames OBVIOUS
<1>12. /\ said \in Seq(Said) /\ InOrder(said)
       /\ \A i \in 1..Len(said) : said[i].frame < clock'
  <2>1. Padding \in Nat BY <1>5
  <2> QED BY <1>1, <1>2, <1>4, <1>6, <1>8, <1>10, <2>1, SaidGrows
<1>13. /\ heard \in Heard /\ Continues(fusion.diar, heard)
       /\ Len(heard) = Len(fusion.diar) \/ (diarizer /\ Len(heard) <= diarAudio)
  BY <1>1, <1>4, <1>11, HeardGrows DEF CallInv
<1>14. PICK cut : cut = Before(said, cutoff) OBVIOUS
<1>15. /\ cut \in Seq(Said) /\ InOrder(cut)
       /\ \A i \in 1..Len(cut) : cut[i].frame < clock'
  <2>1. /\ cut \in Seq(Said) /\ InOrder(cut) /\ Len(cut) \in Nat /\ Len(cut) <= Len(said)
        /\ \A i \in 1..Len(cut) : cut[i] = said[i]
    BY <1>12, <1>14, CutIs
  <2>2. Len(said) \in Nat BY <1>12
  <2>3. \A i \in 1..Len(cut) : i \in 1..Len(said) BY <2>1, <2>2
  <2> QED BY <1>12, <2>1, <2>3
<1>16. fusion' = [tokens |-> cut, diar |-> heard, flushed |-> TRUE]
  BY <1>3, <1>10, <1>11, <1>14
<1>17. fusion'.tokens = cut /\ fusion'.diar = heard /\ fusion'.flushed = TRUE BY <1>16
<1>18. FusionInv'
  <2>1. fusion' \in [tokens : Seq(Said), diar : Heard, flushed : BOOLEAN]
    BY <1>13, <1>15, <1>16
  <2>2. timedTokens' = cut BY <1>1, <1>3, <1>10, <1>14 DEF FusionInv
  <2>3. Len(fusion'.diar) <= diarAudio'
    <3>1. Len(fusion.diar) <= diarAudio BY <1>1 DEF FusionInv
    <3>2. Len(heard) <= diarAudio' BY <1>2, <1>13, <3>1
    <3> QED BY <1>17, <3>2
  <2>4. closed' = TRUE BY <1>2
  <2>5. InOrder(fusion'.tokens) /\ \A i \in 1..Len(fusion'.tokens) : fusion'.tokens[i].frame < clock'
    BY <1>15, <1>17
  <2> QED BY <1>17, <2>1, <2>2, <2>3, <2>4, <2>5 DEF FusionInv
<1>19. diarPath \in BOOLEAN BY <1>1 DEF CallInv
<1>20. StringsInv' /\ status' \in {"ok", "no_update", "runtime_error"}
  BY <1>1, <1>2, <1>3, <1>17, <1>18, <1>19, RebuildInv
<1>21. CallInv'
  <2>1. result.failed \in BOOLEAN /\ (result.failed => faults < MaxFaults)
    <3>1. fusion.diar \in Heard /\ diarizer \in BOOLEAN BY <1>1 DEF FusionInv, CallInv
    <3> QED BY <1>4, <3>1, DiarResultIs
  <2>2. /\ diarizer' = (diarizer /\ ~result.failed)
        /\ warning' = IF result.failed THEN "disabled" ELSE warning
        /\ faults' = faults + (IF result.failed THEN 1 ELSE 0)
    BY <1>3 DEF Diarized
  <2>3. faults' \in 0..MaxFaults BY <1>1, <2>1, <2>2 DEF CallInv
  <2>4. diarizer' \in BOOLEAN /\ (diarizer' => diarizer) BY <1>1, <2>1, <2>2, Zenon DEF CallInv
  <2>5. warning' \in {"none", "disabled", "unavailable"} BY <1>1, <2>2 DEF CallInv
  <2> QED BY <1>1, <1>2, <1>20, <2>3, <2>4, <2>5 DEF CallInv
<1>22. ~fusion.flushed BY <1>1, <1>2 DEF FusionInv
<1>23. Fused(fusion')
  <2>1. cut \in Seq(Timed) BY <1>15
  <2>2. fusion'.flushed \in BOOLEAN BY <1>17
  <2> QED BY <1>13, <1>15, <1>17, <2>1, <2>2 DEF Fused
<1> QED BY <1>9, <1>13, <1>17, <1>18, <1>20, <1>21, <1>22, <1>23 DEF HandleInv

(* A window that fails costs its audio and nothing that was said.           *)
LEMMA PushFailsInv ==
    ASSUME HandleInv, NEW n \in Pushes, PushFails(n)
    PROVE  HandleInv'
<1> USE SaidIs
<1> DEFINE due == Due(n)
<1>1. CallInv /\ ClockInv /\ FusionInv /\ StringsInv BY DEF HandleInv
<1>2. /\ state = "started" /\ ~closed /\ audio + n <= MaxAudio /\ n \in Nat
      /\ faults < MaxFaults /\ faults' = faults + 1 /\ status' = "runtime_error"
      /\ audio' = audio + n /\ windows' = windows + due /\ due > 0
      /\ UNCHANGED <<state, diarPath, diarizer, closed, diarAudio, fusion, timedTokens,
                     text, segments, textBefore, warning>>
  BY DEF PushFails, strings
<1>3. PICK encoded \in 0..due : clock' = clock + encoded * AsrChunk BY DEF PushFails
<1>4. /\ clock \in Nat /\ windows \in Nat /\ audio \in Nat /\ diarAudio \in Nat
      /\ windows = audio \div AsrChunk
  BY <1>1, <1>2, ClockIs DEF ClockInv
<1>5. due \in Nat /\ windows + due = (audio + n) \div AsrChunk /\ (audio + n) \div AsrChunk <= audio + n
  <2>1. due = (audio + n) \div AsrChunk - audio \div AsrChunk BY <1>4 DEF Due
  <2>2. due \in Nat BY <1>2, <1>4, <2>1, DividedGrows
  <2>3. (audio + n) \div AsrChunk \in Nat /\ audio \div AsrChunk \in Nat
        /\ (audio + n) \div AsrChunk <= audio + n
    <3>1. audio + n \in Nat BY <1>2, <1>4
    <3> QED BY <1>4, <3>1, Divided
  <2> QED BY <1>4, <2>1, <2>2, <2>3
<1> HIDE DEF due
<1>6. clock' \in Nat /\ clock <= clock' /\ \E k \in 0..windows' : clock' = k * AsrChunk
  <2>1. PICK next : next = clock + encoded * AsrChunk OBVIOUS
  <2>2. encoded \in Nat /\ encoded <= due BY <1>5
  <2>3. next \in Nat /\ clock <= next /\ \E k \in 0..(windows + encoded) : next = k * AsrChunk
    BY <1>1, <2>1, <2>2, ClockMoves
  <2>4. clock' = next /\ \A k \in 0..(windows + encoded) : k \in 0..windows'
    BY <1>2, <1>3, <1>4, <1>5, <2>1, <2>2
  <2> QED BY <2>3, <2>4
<1>7. ClockInv'
  <2>1. audio + n \in Nat /\ diarAudio <= audio BY <1>1, <1>2, <1>4 DEF ClockInv
  <2>2. audio' \in 0..MaxAudio /\ windows' \in 0..(audio' + 1) /\ diarAudio' \in 0..audio'
    BY <1>2, <1>4, <1>5, <2>1
  <2>3. windows' = audio' \div AsrChunk BY <1>2, <1>5
  <2>4. closed' \in BOOLEAN BY <1>1, <1>2 DEF ClockInv
  <2> QED BY <1>6, <2>2, <2>3, <2>4 DEF ClockInv
<1>8. FusionInv'
  <2>1. ASSUME NEW i \in 1..Len(fusion.tokens) PROVE fusion.tokens[i].frame < clock'
    <3>1. fusion.tokens[i].frame < clock /\ fusion.tokens \in Seq(Timed) BY <1>1 DEF FusionInv
    <3>2. fusion.tokens[i].frame \in Nat BY <3>1, FrameOf
    <3> QED BY <1>4, <1>6, <3>1, <3>2
  <2> QED BY <1>1, <1>2, <2>1 DEF FusionInv
<1>9. StringsInv' BY <1>1, <1>2 DEF StringsInv
<1>10. CallInv' BY <1>1, <1>2 DEF CallInv
<1> QED BY <1>7, <1>8, <1>9, <1>10 DEF HandleInv

(* A last window that fails closes the transcriber, and the session stays   *)
(* started.                                                                 *)
LEMMA FinishFailsInv ==
    ASSUME HandleInv, FinishFails
    PROVE  HandleInv'
<1> USE SaidIs
<1>1. CallInv /\ ClockInv /\ FusionInv /\ StringsInv BY DEF HandleInv
<1>2. /\ state = "started" /\ ~closed /\ Padding = 1 /\ closed' = TRUE
      /\ faults < MaxFaults /\ faults' = faults + 1 /\ status' = "runtime_error"
      /\ windows' = windows + 1 /\ clock' \in {clock, clock + AsrChunk}
      /\ UNCHANGED <<state, diarPath, diarizer, audio, diarAudio, fusion, timedTokens,
                     text, segments, textBefore, warning>>
  BY DEF FinishFails, strings
<1>3. /\ clock \in Nat /\ windows \in Nat /\ audio \in Nat
      /\ windows = audio \div AsrChunk
  BY <1>1, <1>2, ClockIs DEF ClockInv
<1>4. clock' \in Nat /\ clock <= clock' /\ \E k \in 0..windows' : clock' = k * AsrChunk
  <2>1. PICK encoded \in {0, 1} : clock' = clock + encoded * AsrChunk BY <1>2, <1>3
  <2>2. PICK next : next = clock + encoded * AsrChunk OBVIOUS
  <2>3. encoded \in Nat OBVIOUS
  <2>4. next \in Nat /\ clock <= next /\ \E k \in 0..(windows + encoded) : next = k * AsrChunk
    BY <1>1, <2>2, <2>3, ClockMoves, ZenonT(30)
  <2>5. clock' = next /\ \A k \in 0..(windows + encoded) : k \in 0..windows'
    BY <1>2, <1>3, <2>1, <2>2
  <2> QED BY <2>4, <2>5
<1>5. windows' \in 0..(audio + 1)
  <2>1. windows <= audio BY <1>3, Divided
  <2> QED BY <1>2, <1>3, <2>1
<1>6. ClockInv' BY <1>1, <1>2, <1>4, <1>5 DEF ClockInv
<1>7. FusionInv'
  <2>1. ASSUME NEW i \in 1..Len(fusion.tokens) PROVE fusion.tokens[i].frame < clock'
    <3>1. fusion.tokens[i].frame < clock /\ fusion.tokens \in Seq(Timed) BY <1>1 DEF FusionInv
    <3>2. fusion.tokens[i].frame \in Nat BY <3>1, FrameOf
    <3> QED BY <1>3, <1>4, <3>1, <3>2
  <2> QED BY <1>1, <1>2, <2>1 DEF FusionInv
<1>8. StringsInv' BY <1>1, <1>2 DEF StringsInv
<1>9. CallInv' BY <1>1, <1>2 DEF CallInv
<1> QED BY <1>6, <1>7, <1>8, <1>9 DEF HandleInv

(* text_before reads the tokens and changes no more than its own string.    *)
LEMMA TextBeforeInv ==
    ASSUME HandleInv, NEW cutoff \in Cutoffs, TextBefore(cutoff)
    PROVE  HandleInv'
<1>1. CallInv /\ ClockInv /\ FusionInv /\ StringsInv BY DEF HandleInv
<1>2. UNCHANGED <<state, diarPath, diarizer, audio, windows, clock, closed, diarAudio,
                  fusion, timedTokens, text, segments, warning, status, faults>>
  BY DEF TextBefore, streams, strings
<1>3. textBefore' \in Seq(Said)
  <2>1. PICK cut : cut = Before(timedTokens, cutoff) OBVIOUS
  <2>2. timedTokens \in Seq(Said) /\ InOrder(timedTokens) BY <1>1 DEF FusionInv
  <2>3. cutoff \in Nat BY SaidIs
  <2>4. cut \in Seq(Said) BY <2>1, <2>2, <2>3, CutIs
  <2>5. textBefore' = Decode(cut) BY <2>1 DEF TextBefore
  <2> QED BY <2>4, <2>5, DecodeType
<1>4. CallInv' BY <1>1, <1>2 DEF CallInv
<1>5. ClockInv' BY <1>1, <1>2 DEF ClockInv
<1>6. FusionInv' BY <1>1, <1>2 DEF FusionInv
<1>7. StringsInv' BY <1>1, <1>2, <1>3 DEF StringsInv
<1> QED BY <1>4, <1>5, <1>6, <1>7 DEF HandleInv

(* create, start and destroy begin with nothing.                            *)
LEMMA BeginsInv ==
    ASSUME CallInv, StartUtterance \/ Destroy \/ \E withDiarizer \in BOOLEAN : Create(withDiarizer)
    PROVE  HandleInv' /\ NewUtterance /\ status' \in {"none", "ok"}
<1>1. NewUtterance /\ state' \in {"none", "idle", "started"} /\ state' # "finished"
      /\ status' \in {"none", "ok"}
  BY DEF StartUtterance, Destroy, Create
<1>2. CallInv'
  <2>1. CASE StartUtterance
    <3>1. /\ diarPath' = diarPath /\ status' = "ok" /\ state' = "started"
          /\ \/ diarizer' = diarPath /\ warning' = "none" /\ faults' = faults
             \/ diarizer' = FALSE /\ warning' = "unavailable" /\ faults' = faults + 1
                /\ faults < MaxFaults
      BY <2>1 DEF StartUtterance
    <3>2. diarizer' \in BOOLEAN /\ (diarizer' => diarPath')
      <4>1. diarPath \in BOOLEAN BY DEF CallInv
      <4>2. CASE diarizer' = diarPath BY <3>1, <4>1, <4>2, Zenon
      <4>3. CASE diarizer' = FALSE BY <4>3, Zenon
      <4> QED BY <3>1, <4>2, <4>3
    <3>3. warning' \in {"none", "disabled", "unavailable"} BY <3>1
    <3>4. faults' \in 0..MaxFaults BY <3>1, SaidIs DEF CallInv
    <3> QED BY <1>1, <3>1, <3>2, <3>3, <3>4 DEF CallInv
  <2>2. CASE Destroy BY <2>2 DEF Destroy, CallInv
  <2>3. CASE \E withDiarizer \in BOOLEAN : Create(withDiarizer)
    <3>1. PICK withDiarizer \in BOOLEAN : Create(withDiarizer) BY <2>3
    <3> QED BY <3>1 DEF Create, CallInv
  <2> QED BY <2>1, <2>2, <2>3
<1> QED BY <1>1, <1>2, NewUtteranceInv DEF HandleInv

(* The initial state has no handle.                                         *)
LEMMA InitHandleInv == InitHandle => HandleInv
<1> SUFFICES ASSUME InitHandle PROVE HandleInv
  OBVIOUS
<1> USE DEF InitHandle
<1>1. CallInv
  <2>1. faults \in 0..MaxFaults BY SaidIs
  <2>2. diarPath = FALSE /\ diarizer = FALSE OBVIOUS
  <2>3. diarPath \in BOOLEAN /\ diarizer \in BOOLEAN /\ (diarizer => diarPath) BY <2>2, Zenon
  <2> QED BY <2>1, <2>3 DEF CallInv
<1>2. ClockInv
  <2>1. 0 \div AsrChunk = 0
    <3>1. 0 \div AsrChunk \in Nat /\ 0 \div AsrChunk <= 0
      <4>1. 0 \in Nat OBVIOUS
      <4> QED BY <4>1, Divided, SaidIs
    <3> QED BY <3>1
  <2>2. 0 = 0 * AsrChunk /\ 0 \in 0..0 /\ 0 \in 0..(0 + 1) /\ 0 \in 0..MaxAudio BY SaidIs
  <2> QED BY <2>1, <2>2 DEF ClockInv
<1>3. FusionInv
  <2>1. <<>> \in Seq(Said) /\ <<>> \in Heard /\ Len(<<>>) = 0 /\ 1..Len(<<>>) = {} BY DEF Heard
  <2>2. InOrder(<<>>) BY <2>1 DEF InOrder
  <2>3. fusion.tokens = <<>> /\ fusion.diar = <<>> /\ fusion.flushed = FALSE BY DEF NewFusion
  <2>4. fusion \in [tokens : Seq(Said), diar : Heard, flushed : BOOLEAN] BY <2>1 DEF NewFusion
  <2> QED BY <2>1, <2>2, <2>3, <2>4 DEF FusionInv
<1>4. StringsInv BY NothingSpelt DEF StringsInv
<1> QED BY <1>1, <1>2, <1>3, <1>4 DEF HandleInv

(* What changes the handle, and what each of these does to the utterance:   *)
(* it begins anew, it goes on, or tokens and strings stay.                  *)
GoesOn ==
    \/ NewUtterance /\ status' \in {"none", "ok"}
    \/ \E n \in Pushes : PushAudio(n)
    \/ \E cutoff \in Cutoffs \cup {Never} : Finish(cutoff)
    \/ UNCHANGED <<fusion, timedTokens, text, segments>>

(* Every step keeps the invariant and is one of these.                      *)
LEMMA HandleSteps ==
    ASSUME HandleInv, [Next]_vars
    PROVE  HandleInv' /\ GoesOn
<1>1. CallInv BY DEF HandleInv
<1>2. ASSUME NEW n \in Pushes, PushAudio(n) PROVE HandleInv' /\ GoesOn
  BY <1>2, PushInv DEF GoesOn
<1>3. ASSUME NEW n \in Pushes, PushFails(n) PROVE HandleInv' /\ GoesOn
  <2>1. UNCHANGED <<fusion, timedTokens, text, segments>> BY <1>3 DEF PushFails, strings
  <2> QED BY <1>3, <2>1, PushFailsInv DEF GoesOn
<1>4. ASSUME NEW cutoff \in Cutoffs \cup {Never}, Finish(cutoff) PROVE HandleInv' /\ GoesOn
  BY <1>4, FinishInv DEF GoesOn
<1>5. ASSUME NEW cutoff \in Cutoffs, TextBefore(cutoff) PROVE HandleInv' /\ GoesOn
  <2>1. UNCHANGED <<fusion, timedTokens, text, segments>> BY <1>5 DEF TextBefore, strings
  <2> QED BY <1>5, <2>1, TextBeforeInv DEF GoesOn
<1>6. CASE FinishFails
  <2>1. UNCHANGED <<fusion, timedTokens, text, segments>> BY <1>6 DEF FinishFails, strings
  <2> QED BY <1>6, <2>1, FinishFailsInv DEF GoesOn
<1>7. UNCHANGED handleVars => HandleInv' /\ GoesOn
  <2> SUFFICES ASSUME UNCHANGED handleVars PROVE HandleInv' /\ GoesOn OBVIOUS
  <2>1. UNCHANGED <<state, diarPath, diarizer, audio, windows, clock, closed, diarAudio,
                    fusion, timedTokens, text, segments, textBefore, warning, status, faults>>
    BY DEF handleVars, streams, strings
  <2> QED BY <2>1 DEF GoesOn, HandleInv, CallInv, ClockInv, FusionInv, StringsInv
<1>8. CASE Refused
  <2>1. UNCHANGED <<fusion, timedTokens, text, segments>> BY <1>8 DEF Refused, strings
  <2>2. HandleInv'
    <3>1. UNCHANGED <<state, diarPath, diarizer, audio, windows, clock, closed, diarAudio,
                      fusion, timedTokens, text, segments, textBefore, warning, faults>>
          /\ status' \in {"invalid_state", "runtime_error"}
      BY <1>8 DEF Refused, streams, strings
    <3> QED BY <3>1 DEF HandleInv, CallInv, ClockInv, FusionInv, StringsInv
  <2> QED BY <2>1, <2>2 DEF GoesOn
<1>9. CASE StartUtterance \/ Destroy BY <1>1, <1>9, BeginsInv DEF GoesOn
<1>10. CASE EndCreate
  <2>1. \E withDiarizer \in BOOLEAN : Create(withDiarizer) BY <1>10 DEF EndCreate
  <2> QED BY <1>1, <2>1, BeginsInv DEF GoesOn
<1>11. CASE BeginCreate \/ ReadArtifact \/ CreateFails
  BY <1>7, <1>11 DEF BeginCreate, ReadArtifact, CreateFails
<1>12. CASE UNCHANGED <<handleVars, reading, loaded>> \/ UNCHANGED vars BY <1>7, <1>12 DEF vars
<1>13. CASE NextHandle
  BY <1>2, <1>3, <1>4, <1>5, <1>6, <1>8, <1>9, <1>13 DEF NextHandle
<1> QED BY <1>10, <1>11, <1>12, <1>13 DEF Next

(* The invariant of the handle is one of the specification.                 *)
LEMMA HandleKeeps == Spec => []HandleInv
<1>1. Init => HandleInv BY InitHandleInv DEF Init
<1>2. HandleInv /\ [Next]_vars => HandleInv' BY HandleSteps
<1> QED BY <1>1, <1>2, PTL DEF Spec

-----------------------------------------------------------------------------
(* The theorems about the handle.                                           *)

(* The fusion of a handle is one the lemmas about fusion speak of.          *)
LEMMA HandleFuses ==
    ASSUME HandleInv
    PROVE  Fused(fusion)
<1>1. FusionInv BY DEF HandleInv
<1>2. fusion.tokens \in Seq(Said) /\ InOrder(fusion.tokens) /\ fusion.diar \in Heard
      /\ fusion.flushed \in BOOLEAN
  BY <1>1 DEF FusionInv
<1>3. fusion.tokens \in Seq(Timed) BY <1>2, SaidIs
<1> QED BY <1>2, <1>3 DEF Fused

(* Every variable of the handle has its type, the clock of an utterance     *)
(* never runs past its windows and the diarizer never past the audio,       *)
(* whatever the models say and whichever of them fails (lib.rs, stream.rs). *)
THEOREM HandleIsTyped == Spec => []TypeOK
<1>1. HandleInv => TypeOK
  <2> SUFFICES ASSUME HandleInv PROVE TypeOK OBVIOUS
  <2>1. CallInv /\ ClockInv /\ FusionInv /\ StringsInv BY DEF HandleInv
  <2>2. diarizer \in {FALSE, diarPath} /\ diarPath \in BOOLEAN
    <3>1. diarPath \in BOOLEAN /\ diarizer \in BOOLEAN /\ (diarizer => diarPath)
      BY <2>1 DEF CallInv
    <3> QED BY <3>1, Zenon
  <2>3. /\ closed \in BOOLEAN /\ audio \in 0..MaxAudio /\ windows \in 0..(MaxAudio + 1)
        /\ clock \in {n * AsrChunk : n \in 0..windows} /\ diarAudio \in 0..audio
    BY <2>1, SaidIs DEF ClockInv
  <2>4. /\ fusion.tokens \in TimedTokens /\ fusion.flushed \in BOOLEAN
        /\ Len(fusion.diar) <= diarAudio /\ timedTokens \in TimedTokens
    <3>1. fusion \in [tokens : Seq(Said), diar : Heard, flushed : BOOLEAN]
          /\ fusion.tokens = timedTokens /\ Len(fusion.diar) <= diarAudio
      BY <2>1 DEF FusionInv
    <3> QED BY <3>1, SaidIs
  <2>5. {text, textBefore} \subseteq TimedTokens BY <2>1, SaidIs DEF StringsInv
  <2>6. segments \in Seq([speaker : Speakers, start_ms : Nat, end_ms : Nat,
                          text : TimedTokens, final : BOOLEAN])
    <3>1. segments \in Seq(Segs(Said)) BY <2>1 DEF StringsInv
    <3>2. Segs(Said) = [speaker : Speakers, start_ms : Nat, end_ms : Nat,
                        text : TimedTokens, final : BOOLEAN]
      BY SaidIs DEF Segs
    <3> QED BY <3>1, <3>2
  <2>7. /\ state \in {"none", "idle", "started", "finished"}
        /\ warning \in {"none", "disabled", "unavailable"}
        /\ status \in {"none", "ok", "no_update", "invalid_state", "runtime_error"}
        /\ faults \in 0..MaxFaults
    BY <2>1 DEF CallInv
  <2> QED BY <2>2, <2>3, <2>4, <2>5, <2>6, <2>7 DEF TypeOK
<1> QED BY <1>1, HandleKeeps, PTL

(* With a diarization model the segments spell the transcript: no token is  *)
(* lost, doubled or moved by groups, anti-flicker, the tentative tail, the  *)
(* punctuation that changes sides or the cut of finish_before (fusion.rs).  *)
THEOREM SegmentsSpell == Spec => []SegmentsSpellTheTranscript
<1>1. HandleInv => SegmentsSpellTheTranscript
  <2> SUFFICES ASSUME HandleInv, diarPath
               PROVE  /\ FlattenSeq([n \in DOMAIN segments |-> segments[n].text]) = text
                      /\ fusion.tokens = timedTokens
    BY DEF SegmentsSpellTheTranscript
  <2>1. FlattenSeq(TextsOf(segments)) = text BY DEF HandleInv, StringsInv
  <2>2. fusion.tokens = timedTokens BY DEF HandleInv, FusionInv
  <2> QED BY <2>1, <2>2 DEF TextsOf
<1> QED BY <1>1, HandleKeeps, PTL

(* Segments follow each other in time without overlap, only the last one    *)
(* may be tentative, and none is once a finish has decoded (segments,       *)
(* shift_boundary_punctuation and flush in fusion.rs).                      *)
THEOREM SegmentsFollow == Spec => []SegmentsFollowTime
<1>1. HandleInv => SegmentsFollowTime
  <2> SUFFICES ASSUME HandleInv PROVE SegmentsFollowTime OBVIOUS
  <2>1. /\ segments \in Seq(Segs(Said)) /\ InTime(segments)
        /\ \A k \in 1..Len(segments) : k < Len(segments) => segments[k].final = TRUE
        /\ state = "finished" /\ Decodable(timedTokens) =>
              \A k \in 1..Len(segments) : segments[k].final = TRUE
    BY DEF HandleInv, StringsInv
  <2>2. DOMAIN segments = 1..Len(segments) /\ Len(segments) \in Nat BY <2>1
  <2>3. ASSUME NEW n \in DOMAIN segments
        PROVE  /\ segments[n].start_ms < segments[n].end_ms
               /\ n > 1 => segments[n - 1].end_ms <= segments[n].start_ms
               /\ n < Len(segments) => segments[n].final
    <3>1. n \in 1..Len(segments) /\ n \in Nat BY <2>2
    <3>2. /\ segments[n].start_ms < segments[n].end_ms
          /\ \A j \in 1..(n - 1) : segments[j].end_ms <= segments[n].start_ms
      BY <2>1, <3>1 DEF InTime
    <3>3. n > 1 => n - 1 \in 1..(n - 1) BY <3>1
    <3>4. n < Len(segments) => segments[n].final = TRUE BY <2>1, <3>1
    <3> QED BY <3>2, <3>3, <3>4
  <2>4. ASSUME state = "finished", Decodable(timedTokens), segments # <<>>
        PROVE  Last(segments).final
    <3>1. Len(segments) \in 1..Len(segments) BY <2>1, <2>2, <2>4
    <3>2. segments[Len(segments)].final = TRUE BY <2>1, <2>4, <3>1
    <3> QED BY <3>2 DEF Last
  <2> QED BY <2>3, <2>4 DEF SegmentsFollowTime
<1> QED BY <1>1, HandleKeeps, PTL

(* A turn shorter than min_turn_ms is shown only where the turn it would be *)
(* absorbed by is short as well: apply_anti_flicker reaches its fixpoint,   *)
(* for any probabilities, threshold and number of turns (fusion.rs).        *)
THEOREM TurnsAreSteady == Spec => []ShortTurnsStandTogether
<1>1. HandleInv => ShortTurnsStandTogether
  <2> SUFFICES ASSUME HandleInv PROVE ShortTurnsStandTogether OBVIOUS
  <2>1. Fused(fusion) BY HandleFuses
  <2>2. PICK turns : turns = Turns(fusion) OBVIOUS
  <2>3. \A n \in DOMAIN turns.groups :
           Len(turns.groups) > 1 /\ IsShort(turns.labeled, turns.groups[n])
              => IsShort(turns.labeled, turns.groups[Target(n)])
    BY <2>1, <2>2, ShortTurns
  <2> QED BY <2>2, <2>3 DEF ShortTurnsStandTogether
<1> QED BY <1>1, HandleKeeps, PTL

(* Nothing said, no turns.                                                  *)
LEMMA NoTokensNoTurns ==
    ASSUME NEW f, Fused(f), Len(f.tokens) = 0
    PROVE  DOMAIN RawTurns(f).groups = {}
<1>1. PICK d : DecidedTo(f, d) BY DecidedIs
<1>2. d = 0 BY <1>1 DEF DecidedTo
<1>3. PICK labeled : labeled = Labeled(f) OBVIOUS
<1>4. labeled \in Seq(Labels(Timed, Speakers)) /\ Len(labeled) = 0
  BY <1>1, <1>2, <1>3, LabeledFacts
<1>5. PICK groups : groups = GroupLabeled(labeled) OBVIOUS
<1>6. AreGroups(labeled, groups) /\ groups \in Seq(Groups(labeled)) BY <1>4, <1>5, GroupFacts
<1>7. Len(groups) = 0 BY <1>4, <1>6 DEF AreGroups
<1>8. DOMAIN groups = {} BY <1>6, <1>7
<1>9. RawTurns(f).groups = groups BY <1>3, <1>5 DEF RawTurns, WithGroups
<1> QED BY <1>8, <1>9

(* An utterance that goes on grows, if no token is cut away.                *)
LEMMA GrowsOn ==
    ASSUME NEW f, NEW g, Fused(f), Fused(g), Continues(f.diar, g.diar),
           IsPrefix(f.tokens, g.tokens)
    PROVE  Grows(f, g)
<1>1. PICK s : s = f.tokens OBVIOUS
<1>2. PICK u : u = g.tokens OBVIOUS
<1>3. s \in Seq(Timed) /\ u \in Seq(Timed) BY <1>1, <1>2 DEF Fused
<1>4. Len(s) <= Len(u) /\ SubSeq(s, 1, Len(s)) = SubSeq(u, 1, Len(s))
  BY <1>1, <1>2 DEF IsPrefix
<1>5. PICK n : n = Len(s) OBVIOUS
<1>6. n \in Nat /\ 1 <= n + 1 /\ n <= Len(s) /\ n <= Len(u) /\ 1 \in Nat /\ n + 1 - 1 = n
  BY <1>3, <1>4, <1>5
<1>7. \A i \in 1..(n + 1 - 1) : SubSeq(s, 1, n)[i] = s[1 + i - 1] BY <1>3, <1>6, Part
<1>8. \A i \in 1..(n + 1 - 1) : SubSeq(u, 1, n)[i] = u[1 + i - 1] BY <1>3, <1>6, Part
<1>9. ASSUME NEW i \in 1..Len(s) PROVE u[i] = s[i]
  <2>1. i \in 1..(n + 1 - 1) /\ 1 + i - 1 = i BY <1>5, <1>6
  <2>2. SubSeq(s, 1, n) = SubSeq(u, 1, n) BY <1>4, <1>5
  <2>3. SubSeq(s, 1, n)[i] = s[1 + i - 1] /\ SubSeq(u, 1, n)[i] = u[1 + i - 1]
    BY <1>7, <1>8, <2>1
  <2> QED BY <2>1, <2>2, <2>3
<1> QED BY <1>1, <1>2, <1>4, <1>9 DEF Grows

(* What LongTurnsKeepTheirSpeaker says of one step.                         *)
LongTurnsKept(f, g) ==
    \E raw \in {RawTurns(f)}, now \in {Turns(f)}, next \in {Turns(g)} :
       \A n \in DOMAIN raw.groups : \A i \in raw.groups[n].first..raw.groups[n].last :
          ~IsShort(raw.labeled, raw.groups[n])
             => now.labeled[i] = raw.labeled[i] /\ next.labeled[i] = raw.labeled[i]

(* Tokens of long turns keep their speaker if the fusion has grown.         *)
LEMMA KeptIfGrown ==
    ASSUME NEW f, NEW g, Fused(f), Fused(g), Grows(f, g), ~f.flushed
    PROVE  LongTurnsKept(f, g)
<1>1. PICK raw : raw = RawTurns(f) OBVIOUS
<1>2. PICK now : now = Turns(f) OBVIOUS
<1>3. PICK next : next = Turns(g) OBVIOUS
<1>4. ASSUME NEW n \in DOMAIN raw.groups, NEW i \in raw.groups[n].first..raw.groups[n].last,
             ~IsShort(raw.labeled, raw.groups[n])
      PROVE  now.labeled[i] = raw.labeled[i] /\ next.labeled[i] = raw.labeled[i]
  BY <1>1, <1>2, <1>3, <1>4, LongTurnsStay
<1> QED BY <1>1, <1>2, <1>3, <1>4 DEF LongTurnsKept

(* While an utterance only grows, a token of a run of at least min_turn_ms  *)
(* is shown under the speaker it was attributed to, and for good: audio,    *)
(* frames, tokens and the flush that come later change neither its          *)
(* attribution nor its absorption (is_decidable, attribute_speaker and      *)
(* apply_anti_flicker in fusion.rs).                                        *)
THEOREM LongTurnsStayPut == Spec => LongTurnsKeepTheirSpeaker
<1> DEFINE Keeps == fusion' # fusion /\ IsPrefix(fusion.tokens, fusion'.tokens)
                      => LongTurnsKept(fusion, fusion')
<1>1. HandleInv /\ [Next]_vars => [Keeps]_handleVars
  <2> SUFFICES ASSUME HandleInv, [Next]_vars, fusion' # fusion,
                      IsPrefix(fusion.tokens, fusion'.tokens)
               PROVE  LongTurnsKept(fusion, fusion')
    OBVIOUS
  <2>1. Fused(fusion) BY HandleFuses
  <2>2. GoesOn BY HandleSteps
  <2>3. CASE NewUtterance
    <3>1. Len(fusion.tokens) = 0
      <4>1. fusion'.tokens = <<>> BY <2>3 DEF NewUtterance, NewFusion
      <4>2. Len(fusion.tokens) <= 0 BY <4>1 DEF IsPrefix
      <4> QED BY <2>1, <4>2 DEF Fused
    <3>2. PICK raw : raw = RawTurns(fusion) OBVIOUS
    <3>3. DOMAIN raw.groups = {} BY <2>1, <3>1, <3>2, NoTokensNoTurns
    <3> QED BY <3>2, <3>3, Zenon DEF LongTurnsKept
  <2>4. CASE (\E n \in Pushes : PushAudio(n)) \/ \E cutoff \in Cutoffs \cup {Never} : Finish(cutoff)
    <3>1. Continues(fusion.diar, fusion'.diar) /\ ~fusion.flushed /\ Fused(fusion')
      BY <2>4, PushInv, FinishInv
    <3>2. Grows(fusion, fusion') BY <2>1, <3>1, GrowsOn
    <3> QED BY <2>1, <3>1, <3>2, KeptIfGrown
  <2> QED BY <2>2, <2>3, <2>4 DEF GoesOn
<1>2. [Keeps]_handleVars => [fusion' # fusion /\ IsPrefix(fusion.tokens, fusion'.tokens) =>
          \E raw \in {RawTurns(fusion)}, now \in {Turns(fusion)}, next \in {Turns(fusion')} :
              \A n \in DOMAIN raw.groups : \A i \in raw.groups[n].first..raw.groups[n].last :
                 ~IsShort(raw.labeled, raw.groups[n])
                    => now.labeled[i] = raw.labeled[i] /\ next.labeled[i] = raw.labeled[i]]_handleVars
  BY DEF LongTurnsKept
<1> HIDE DEF Keeps
<1> QED BY <1>1, <1>2, HandleKeeps, PTL DEF Spec, LongTurnsKeepTheirSpeaker

(* Of tokens that decode, the first ones spell the start of the text.       *)
LEMMA FirstAreSpelt ==
    ASSUME NEW tokens \in Seq(Said), NEW d \in 0..Len(tokens), NEW first,
           first = SubSeq(tokens, 1, d)
    PROVE  IsPrefix(Decode(first), Decode(tokens))
<1>1. d \in Nat /\ d <= Len(tokens) /\ Len(tokens) \in Nat OBVIOUS
<1>2. PICK rest : rest = SubSeq(tokens, d + 1, Len(tokens)) OBVIOUS
<1>3. first \in Seq(Said)
  <2>1. 1 \in Nat /\ 1 <= d + 1 BY <1>1
  <2> QED BY <1>1, <2>1, Part
<1>4. rest \in Seq(Said)
  <2>1. d + 1 \in Nat /\ 1 <= d + 1 /\ d + 1 <= Len(tokens) + 1 BY <1>1
  <2> QED BY <1>1, <1>2, <2>1, Part
<1>5. tokens = first \o rest
  <2>1. SubSeq(tokens, 1, d) \o SubSeq(tokens, d + 1, Len(tokens)) = tokens BY CutJoins DEF Cat
  <2> QED BY <1>2, <2>1
<1>6. PICK s : s = Decode(first) OBVIOUS
<1>7. PICK u : u = Decode(rest) OBVIOUS
<1>8. s \in Seq(Said) /\ u \in Seq(Said) BY <1>3, <1>4, <1>6, <1>7, DecodeType
<1>9. Decode(tokens) = s \o u BY <1>3, <1>4, <1>5, <1>6, <1>7, DecodeJoins
<1>10. IsPrefix(s, s \o u)
  <2> DEFINE all == s \o u
  <2>1. /\ all \in Seq(Said) /\ Len(s) <= Len(all) /\ Len(s) \in Nat
        /\ \A i \in 1..Len(s) : all[i] = s[i]
    <3>1. /\ all \in Seq(Said) /\ Len(all) = Len(s) + Len(u) /\ Len(s) \in Nat /\ Len(u) \in Nat
          /\ \A i \in 1..Len(s) : all[i] = s[i]
      BY <1>8, Joined
    <3> HIDE DEF all
    <3>2. Len(s) <= Len(all) BY <3>1
    <3> QED BY <3>1, <3>2
  <2> HIDE DEF all
  <2> DEFINE n == Len(s)  p == SubSeq(s, 1, n)  q == SubSeq(all, 1, n)
  <2>2. n \in Nat /\ 1 \in Nat /\ 1 <= n + 1 /\ n <= Len(s) /\ n <= Len(all) /\ n + 1 - 1 = n
    BY <2>1
  <2>3. p \in Seq(Said) /\ Len(p) = n + 1 - 1 /\ \A i \in 1..(n + 1 - 1) : p[i] = s[1 + i - 1]
    BY <1>8, <2>2, Part
  <2>4. q \in Seq(Said) /\ Len(q) = n + 1 - 1 /\ \A i \in 1..(n + 1 - 1) : q[i] = all[1 + i - 1]
    BY <2>1, <2>2, Part
  <2> HIDE DEF p, q
  <2>5. ASSUME NEW i \in 1..Len(p) PROVE p[i] = q[i]
    <3>1. i \in 1..(n + 1 - 1) /\ 1 + i - 1 = i /\ i \in 1..Len(s) BY <2>2, <2>3
    <3> QED BY <2>1, <2>3, <2>4, <3>1
  <2>6. p = q BY <2>3, <2>4, <2>5, Same
  <2> QED BY <2>1, <2>6 DEF IsPrefix, p, q, all
<1> QED BY <1>6, <1>9, <1>10

(* A call without news leaves the segments, and all of the text that is not *)
(* cut away.                                                                *)
NoNews == segments' = segments /\ IsPrefix(text', text) /\ (diarPath => text' = text)

(* A rebuild that answers no_update brings no news.                         *)
LEMMA NoNewsIfRebuilt ==
    ASSUME HandleInv, HandleInv', UNCHANGED diarPath, NEW tokens, Rebuild(tokens),
           status' = "no_update", Decodable(timedTokens), text = Decode(timedTokens),
           tokens = <<>> => \E d \in 0..Len(timedTokens) : timedTokens' = SubSeq(timedTokens, 1, d)
    PROVE  NoNews
<1>1. /\ Decodable(timedTokens') /\ text' = Decode(timedTokens')
      /\ segments' = segments /\ tokens = <<>>
  <2>1. Decodable(timedTokens') BY DEF Rebuild
  <2>2. /\ text' = Decode(timedTokens')
        /\ status' = IF tokens # <<>> \/ segments' # segments THEN "ok" ELSE "no_update"
    BY <2>1 DEF Rebuild
  <2> QED BY <2>1, <2>2
<1>2. PICK d \in 0..Len(timedTokens) : timedTokens' = SubSeq(timedTokens, 1, d) BY <1>1
<1>3. timedTokens \in Seq(Said) BY DEF HandleInv, FusionInv
<1>4. IsPrefix(text', text) BY <1>1, <1>2, <1>3, FirstAreSpelt
<1>5. diarPath => text' = text
  <2>1. diarPath => FlattenSeq(TextsOf(segments)) = text BY DEF HandleInv, StringsInv
  <2>2. diarPath' => FlattenSeq(TextsOf(segments')) = text' BY DEF HandleInv, StringsInv
  <2> QED BY <1>1, <2>1, <2>2
<1> QED BY <1>1, <1>4, <1>5 DEF NoNews

(* CATCHER_NO_UPDATE after a call that decoded means that there is no new   *)
(* text and that the segments are the caller's, whatever the models say and *)
(* whichever fails (rebuild_strings_and_report_segment_change in lib.rs).   *)
THEOREM NoUpdateIsNoNews == Spec => NoUpdateMeansUnchanged
<1> DEFINE Honest == status' = "no_update" /\ Decodable(timedTokens) /\ text = Decode(timedTokens)
                        => NoNews
<1>1. HandleInv /\ [Next]_vars => [Honest]_handleVars
  <2> SUFFICES ASSUME HandleInv, [Next]_vars, status' = "no_update",
                      Decodable(timedTokens), text = Decode(timedTokens)
               PROVE  NoNews
    OBVIOUS
  <2>1. HandleInv' /\ GoesOn BY HandleSteps
  <2>2. timedTokens \in Seq(Said) /\ InOrder(timedTokens) /\ timedTokens = fusion.tokens
    BY DEF HandleInv, FusionInv
  <2>3. CASE UNCHANGED <<fusion, timedTokens, text, segments>>
    <3>1. Len(timedTokens) \in 0..Len(timedTokens) BY <2>2
    <3>2. SubSeq(timedTokens, 1, Len(timedTokens)) = timedTokens BY <2>2
    <3>3. IsPrefix(Decode(timedTokens), Decode(timedTokens))
      BY <2>2, <3>1, <3>2, FirstAreSpelt
    <3> QED BY <2>3, <3>3 DEF NoNews
  <2>4. CASE \E n \in Pushes : PushAudio(n)
    <3>1. PICK n \in Pushes : PushAudio(n) BY <2>4
    <3>2. PICK tokens : Rebuild(tokens) /\ timedTokens' = timedTokens \o tokens
      BY <3>1 DEF PushAudio
    <3>3. UNCHANGED diarPath BY <3>1 DEF PushAudio
    <3>4. tokens = <<>> => \E d \in 0..Len(timedTokens) : timedTokens' = SubSeq(timedTokens, 1, d)
      <4>1. timedTokens \o <<>> = timedTokens BY <2>2
      <4>2. Len(timedTokens) \in 0..Len(timedTokens)
            /\ SubSeq(timedTokens, 1, Len(timedTokens)) = timedTokens
        BY <2>2
      <4> QED BY <3>2, <4>1, <4>2
    <3> QED BY <2>1, <3>2, <3>3, <3>4, NoNewsIfRebuilt
  <2>5. CASE \E cutoff \in Cutoffs \cup {Never} : Finish(cutoff)
    <3>1. PICK cutoff \in Cutoffs \cup {Never} : Finish(cutoff) BY <2>5
    <3>2. PICK tokens : Rebuild(tokens) /\ timedTokens' = Before(timedTokens \o tokens, cutoff)
      BY <3>1 DEF Finish
    <3>3. UNCHANGED diarPath BY <3>1 DEF Finish
    <3>4. tokens = <<>> => \E d \in 0..Len(timedTokens) : timedTokens' = SubSeq(timedTokens, 1, d)
      <4>1. timedTokens \o <<>> = timedTokens BY <2>2
      <4>2. cutoff \in Nat BY SaidIs
      <4>3. PICK cut : cut = Before(timedTokens, cutoff) OBVIOUS
      <4>4. \E d \in 0..Len(timedTokens) : cut = SubSeq(timedTokens, 1, d)
        BY <2>2, <4>2, <4>3, CutIs
      <4> QED BY <3>2, <4>1, <4>3, <4>4
    <3> QED BY <2>1, <3>2, <3>3, <3>4, NoNewsIfRebuilt
  <2> QED BY <2>1, <2>3, <2>4, <2>5 DEF GoesOn
<1>2. [Honest]_handleVars =>
        [status' = "no_update" /\ Decodable(timedTokens) /\ text = Decode(timedTokens) =>
            /\ segments' = segments
            /\ IsPrefix(text', text) /\ (diarPath => text' = text)]_handleVars
  BY DEF NoNews
<1> HIDE DEF Honest
<1> QED BY <1>1, <1>2, HandleKeeps, PTL DEF Spec, NoUpdateMeansUnchanged
=============================================================================
