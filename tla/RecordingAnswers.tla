--------------------------- MODULE RecordingAnswers ---------------------------
(***************************************************************************)
(* What tomato-ears promises to whoever records, whatever pages, sockets   *)
(* and processes are between the microphone and the engine: a recording is *)
(* begun once, spoken, ended once, and answered at most once after that,   *)
(* with an error or with a final transcript.  A final is of audio that was *)
(* really spoken, the last of it perhaps after the end; if the recordings  *)
(* are orderly it is of the recording it answers, the whole of it and      *)
(* nothing else, and no two of them overlap.                               *)
(***************************************************************************)
EXTENDS Naturals

CONSTANT Recordings

VARIABLES
    orderly,  \* never changes
    phase,    \* of each recording
    spoken,   \* chunks of each recording so far
    heard     \* chunks in its final transcript

vars == <<orderly, phase, spoken, heard>>

Whole(r) == {r} \X (1..spoken[r])
Ended(r) == phase[r] \in {"stopping", "final", "error"}
Late     == {r \in Recordings : Ended(r)} \X {0}
Spoken   == (UNION {Whole(r) : r \in Recordings}) \cup Late

Init ==
    /\ orderly \in BOOLEAN
    /\ phase = [r \in Recordings |-> "unused"]
    /\ spoken = [r \in Recordings |-> 0]
    /\ heard = [r \in Recordings |-> {}]

Pass(r, from, to) == phase[r] = from /\ phase' = [phase EXCEPT ![r] = to]

Begin(r) ==
    /\ orderly => \A q \in Recordings : phase[q] \notin {"recording", "stopping"}
    /\ Pass(r, "unused", "recording")
    /\ UNCHANGED <<orderly, spoken, heard>>

Speak(r) ==
    /\ phase[r] = "recording"
    /\ spoken' = [spoken EXCEPT ![r] = @ + 1]
    /\ UNCHANGED <<orderly, phase, heard>>

End(r) ==
    /\ Pass(r, "recording", "stopping")
    /\ UNCHANGED <<orderly, spoken, heard>>

Refuse(r) ==
    /\ Pass(r, "stopping", "error")
    /\ UNCHANGED <<orderly, spoken, heard>>

Transcribe(r) ==
    /\ Pass(r, "stopping", "final")
    /\ \E chunks \in IF orderly THEN {Whole(r)} ELSE SUBSET Spoken :
          heard' = [heard EXCEPT ![r] = chunks]
    /\ UNCHANGED <<orderly, spoken>>

Next == \E r \in Recordings :
    Begin(r) \/ Speak(r) \/ End(r) \/ Refuse(r) \/ Transcribe(r)

Spec == Init /\ [][Next]_vars
=============================================================================
