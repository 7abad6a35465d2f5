----------------------------- MODULE MCVoiceTurn -----------------------------
(* Instances of VoiceTurn for TLC. *)
EXTENDS VoiceTurn

\* OpenCC renders "a" differently when "b" follows, as in xin and xin xi.
OnePhrase == {<<"a", "b">>}
=============================================================================
