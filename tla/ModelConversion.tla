-------------------------- MODULE ModelConversion --------------------------
(***************************************************************************)
(* Processes that convert a checkpoint into one output directory: the      *)
(* weights and the manifest are written to a staging directory beside it,  *)
(* which is renamed to the output; tokenizer.json and the other companion  *)
(* files are copied into the output afterwards.  A process may fail at a   *)
(* file operation, be killed anywhere, and be started again.               *)
(***************************************************************************)
EXTENDS Naturals

CONSTANTS Converters,
          MaxConversions  \* bound: conversions that are started

ASSUME ConversionAssumption == MaxConversions \in Nat

VARIABLES step,         \* where each process is in convert_model
          staging,      \* its staging directory
          output,       \* the output directory
          conversions   \* how many have been started

conversionVars == <<step, staging, output, conversions>>

Absent   == [exists |-> FALSE]
NewStage == [exists |-> TRUE, weights |-> <<>>, manifest |-> <<>>, tokenizer |-> "none"]

InitConversion ==
    /\ step = [c \in Converters |-> "off"]
    /\ staging = [c \in Converters |-> Absent]
    /\ output = Absent /\ conversions = 0

Moves(c, from, to) == step[c] = from /\ step' = [step EXCEPT ![c] = to]

\* convert_tensors: refused at once if the output exists.
Start(c) ==
    /\ conversions < MaxConversions /\ conversions' = conversions + 1
    /\ Moves(c, "off", IF output.exists THEN "off" ELSE "checked")
    /\ UNCHANGED <<staging, output>>

\* Once the source is loaded and has the tensors of the plan.
CreateStaging(c) ==
    /\ Moves(c, "checked", "staged")
    /\ staging' = [staging EXCEPT ![c] = NewStage]
    /\ UNCHANGED <<output, conversions>>

SaveWeights(c) ==
    /\ Moves(c, "staged", "weights")
    /\ staging' = [staging EXCEPT ![c].weights = <<c>>]
    /\ UNCHANGED <<output, conversions>>

SaveManifest(c) ==
    /\ Moves(c, "weights", "manifest")
    /\ staging' = [staging EXCEPT ![c].manifest = staging[c].weights]
    /\ UNCHANGED <<output, conversions>>

\* Mutant: an output that has come into being since the check is replaced.
Publish_Mistake(c) ==
    /\ Moves(c, "manifest", "published")
    /\ output' = staging[c] /\ staging' = [staging EXCEPT ![c] = Absent]
    /\ UNCHANGED conversions

\* staging.keep(), then rename, which replaces no directory that has files.
Publish(c) ==
    /\ \/ /\ ~output.exists /\ Moves(c, "manifest", "published")
          /\ output' = staging[c] /\ staging' = [staging EXCEPT ![c] = Absent]
       \/ /\ output.exists /\ Moves(c, "manifest", "off")
          /\ staging' = [staging EXCEPT ![c] = Absent] /\ UNCHANGED output
    /\ UNCHANGED conversions

\* fs::copy of tokenizer.json truncates the target and then writes it.
CopyCompanions(c) ==
    /\ \/ Moves(c, "published", "copying") /\ output' = [output EXCEPT !.tokenizer = "partial"]
       \/ Moves(c, "copying", "off") /\ output' = [output EXCEPT !.tokenizer = "whole"]
    /\ UNCHANGED <<staging, conversions>>

\* A file operation fails or the process is killed: the output stays as it is.
\* An error before keep() removes the staging directory; a kill leaves it under a
\* name that nobody uses again, and it is forgotten here.
Stops(c) ==
    /\ step[c] # "off" /\ step' = [step EXCEPT ![c] = "off"]
    /\ staging' = [staging EXCEPT ![c] = Absent]
    /\ UNCHANGED <<output, conversions>>

NextConversion ==
    \E c \in Converters :
        \/ Start(c) \/ CreateStaging(c) \/ SaveWeights(c) \/ SaveManifest(c)
        \/ Publish(c) \/ CopyCompanions(c) \/ Stops(c)
=============================================================================
