---------------------------- MODULE AudioWindows ----------------------------
(***************************************************************************)
(* What the streaming transcriber promises about the audio of one          *)
(* utterance, whatever blocks the microphone delivers it in: the encoder   *)
(* consumes windows at positions that depend on the number of samples      *)
(* alone, in order, each at most once, none before all of its samples have *)
(* been heard, except one last window that finish() pads.  A failure may   *)
(* skip windows, it never repeats or reorders them.                        *)
(***************************************************************************)
EXTENDS Integers

CONSTANTS First,       \* mel frames of the centred first window
          Subsequent   \* mel frames of every later window

VARIABLES heard,     \* samples of the utterance so far
          encoded,   \* mel frames in the windows the encoder has consumed
          skipped,   \* mel frames in the windows a failure has lost
          status     \* "open", "padding" (the last window is due), "closed"

vars == <<heard, encoded, skipped, status>>

position == encoded + skipped

StartOf(p)  == IF p = 0 THEN 0 ELSE p * 160 - 256
FramesOf(p) == IF p = 0 THEN First ELSE Subsequent
EndOf(p)    == IF p = 0 THEN (First - 1) * 160 + 200
                        ELSE StartOf(p) + Subsequent * 160 + 400

Complete(p) == heard >= EndOf(p)

Init == heard = 0 /\ encoded = 0 /\ skipped = 0 /\ status = "open"

Hear == /\ status = "open"
        /\ heard' \in Nat /\ heard' >= heard
        /\ UNCHANGED <<encoded, skipped, status>>

\* Finishing leaves no complete window behind, and a padded one exactly
\* when some of the audio is past the start of the next window.
Finish == /\ status = "open"
          /\ ~Complete(position)
          /\ status' = IF heard > StartOf(position) THEN "padding" ELSE "closed"
          /\ UNCHANGED <<heard, encoded, skipped>>

Encode == /\ \/ status = "open" /\ Complete(position) /\ status' = "open"
             \/ status = "padding" /\ status' = "closed"
          /\ encoded' = encoded + FramesOf(position)
          /\ UNCHANGED <<heard, skipped>>

\* Several windows may be lost at once, but only windows that were due.
Skip == /\ encoded' = encoded /\ skipped' > skipped
        /\ \/ /\ status = "open" /\ status' = "open"
              /\ \/ encoded' + skipped' = First /\ Complete(0)
                 \/ /\ encoded' + skipped' > First
                    /\ Complete((encoded' + skipped') - Subsequent)
           \/ /\ status = "padding" /\ status' = "closed"
              /\ skipped' = skipped + FramesOf(position)
        /\ UNCHANGED heard

\* A window is consumed although its tokens are lost, and the windows that
\* the same call had cut after it are lost with them.
EncodeThenSkip == /\ status = "open" /\ status' = "open"
                  /\ Complete(position)
                  /\ encoded' = encoded + FramesOf(position)
                  /\ skipped' > skipped
                  /\ Complete((encoded' + skipped') - Subsequent)
                  /\ UNCHANGED heard

Reset == heard' = 0 /\ encoded' = 0 /\ skipped' = 0 /\ status' = "open"

Next == Hear \/ Finish \/ Encode \/ Skip \/ EncodeThenSkip \/ Reset

Spec == Init /\ [][Next]_vars
=============================================================================
