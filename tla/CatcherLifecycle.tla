-------------------------- MODULE CatcherLifecycle --------------------------
(***************************************************************************)
(* From the checkpoint to the transcript: catcher_create reads the output  *)
(* of ModelConversion file by file while converters run, then the handle   *)
(* works from memory.  Nothing reads the directory after that, so the      *)
(* converters' later steps are left out.                                   *)
(***************************************************************************)
EXTENDS ModelConversion, CatcherHandle

VARIABLES reading,  \* the file catcher_create reads next, or "nothing"
          loaded    \* what it has read

vars == <<conversionVars, handleVars, reading, loaded>>

NothingLoaded == [manifest |-> <<>>, weights |-> <<>>, tokenizer |-> "none"]

Init == InitConversion /\ InitHandle /\ reading = "nothing" /\ loaded = NothingLoaded

-----------------------------------------------------------------------------
(* catcher_create: Artifact::load reads the manifest and then the weights,  *)
(* Tokenizer::from_json the tokenizer.                                      *)

BeginCreate ==
    /\ state = "none" /\ reading = "nothing"
    /\ reading' = "manifest" /\ loaded' = NothingLoaded
    /\ UNCHANGED <<conversionVars, handleVars>>

CreateFails ==
    /\ \/ reading \in {"manifest", "weights"} /\ ~output.exists
       \/ reading = "tokenizer" /\ output.tokenizer # "whole"
    /\ reading' = "nothing" /\ loaded' = NothingLoaded
    /\ UNCHANGED <<conversionVars, handleVars>>

ReadArtifact ==
    /\ output.exists
    /\ \/ /\ reading = "manifest" /\ reading' = "weights"
          /\ loaded' = [loaded EXCEPT !.manifest = output.manifest]
       \/ /\ reading = "weights" /\ reading' = "tokenizer"
          /\ loaded' = [loaded EXCEPT !.weights = output.weights]
    /\ UNCHANGED <<conversionVars, handleVars>>

EndCreate ==
    /\ reading = "tokenizer" /\ output.tokenizer = "whole"
    /\ reading' = "nothing" /\ loaded' = [loaded EXCEPT !.tokenizer = "whole"]
    /\ \E withDiarizer \in BOOLEAN : Create(withDiarizer)
    /\ UNCHANGED conversionVars

Next ==
    \/ state = "none" /\ NextConversion /\ UNCHANGED <<handleVars, reading, loaded>>
    \/ BeginCreate \/ ReadArtifact \/ CreateFails \/ EndCreate
    \/ NextHandle /\ UNCHANGED <<conversionVars, reading, loaded>>

Spec == Init /\ [][Next]_vars

-----------------------------------------------------------------------------
(* Properties                                                              *)

\* A handle works with the weights of one conversion, the manifest written for
\* them and a tokenizer that was written to its end, although catcher_create
\* reads the files one by one while conversions run, fail and are killed.
LoadedModelIsWhole ==
    state # "none" =>
        /\ loaded.weights # <<>> /\ loaded.manifest = loaded.weights
        /\ loaded.tokenizer = "whole"
=============================================================================
