------------------------------ MODULE VoiceTurn ------------------------------
(***************************************************************************)
(* Voice input on macOS: what the target application receives while audio  *)
(* chunks go through TranscriptionController.processVoiceInput, the Rust   *)
(* ASR handle (timed tokens, text_before, finish_before), the keyword      *)
(* spotter and TextInjectionCoordinator.                                   *)
(*                                                                         *)
(* A turn is what is said up to one spoken command, "send it".  The turn   *)
(* has three clocks.  Audio comes in samples: audio[i] is what begins at   *)
(* the i-th sample of the turn, a word, a part of the command, or nothing  *)
(* ("silence").  The cutoff is in milliseconds, and the ASR times a token  *)
(* by the frame of 80 ms in which it begins.  Chunks end at any sample, so *)
(* a frame or a millisecond may straddle the end of a chunk or the cutoff. *)
(* The order of chunks against Start, Stop and failures is                 *)
(* TranscriptionController's concern; here a session is "listen" from its  *)
(* start to its end.                                                       *)
(***************************************************************************)
EXTENDS Naturals, Sequences, FiniteSets

CONSTANTS
    Words,          \* what can be said
    Phrases,        \* pairs of words that OpenCC (s2twp) converts as one phrase
    SamplesPerMs,   \* VoiceInputTiming.sampleRate / 1000, 16 in the code
    FrameMs,        \* ASR_FRAME_MS, 80 in the code
    Holdback,       \* VoiceInputTiming.holdbackMs, 2000 in the code
    CommandSamples, \* how long the command lasts
    Latency,        \* samples the spotter may need after the end of the command
    MaxChunk,       \* the longest chunk, in samples
    MaxSamples,     \* bound: samples in one turn
    MaxWords        \* bound: words in one turn

\* The holdback is sized so that a command is detected before any of it is old
\* enough to be typed: one millisecond is lost where the end of the audio is
\* rounded down and almost a frame where the start of a token is.
ASSUME VoiceAssumption ==
    /\ {SamplesPerMs, FrameMs, CommandSamples, MaxChunk, MaxSamples} \subseteq Nat \ {0}
    /\ {Holdback, Latency, MaxWords} \subseteq Nat
    /\ FrameMs <= Holdback
    /\ CommandSamples + Latency + MaxChunk - 1 <= SamplesPerMs * (Holdback - FrameMs + 1)
    /\ Phrases \subseteq Words \X Words
    /\ {"silence", "command"} \cap Words = {}
    \* no word ends one phrase and begins another
    /\ \A p, q \in Phrases : p[2] # q[1]

Sounds == Words \cup {"silence", "command"}
Apps   == {"none", "Tippi", "target"}

VARIABLES
    phase,          \* off, listen, or restart: between a command and the next turn
    audio,          \* what the ASR and the spotter have heard since their start
    decoded,        \* ASR frames whose tokens are in timed_tokens
    received,       \* receivedSampleCount
    kws,            \* KwsHandle: has its session started, is a detection latched?
    suppress,       \* suppressImmediateDuplicateCommand
    echo,           \* may the spotter surface the previous command once more?
    injectedPrefix, \* TextInjectionCoordinator
    frontmost,      \* the application that keystrokes go to
    error,          \* why the last session failed
    typed,          \* history: the text typed in this turn
    returned        \* history: has Return been pressed in this turn?

vars == <<phase, audio, decoded, received, kws, suppress, echo, injectedPrefix,
          frontmost, error, typed, returned>>

Init ==
    /\ phase = "off"
    /\ audio = <<>> /\ decoded = 0 /\ received = 0
    /\ kws = [started |-> FALSE, latched |-> FALSE]
    /\ suppress = FALSE /\ echo = FALSE
    /\ injectedPrefix = <<>>
    /\ frontmost \in Apps
    /\ error = "none"
    /\ typed = <<>> /\ returned = FALSE

-----------------------------------------------------------------------------
(* The user's speech                                                       *)

\* A command, once begun, is spoken to its end, at most once in a turn.
WellSpoken(a) ==
    \E s \in 1..(Len(a) + 1) :
        \A i \in DOMAIN a : a[i] = "command" <=> i \in s..(s + CommandSamples - 1)

\* Samples since the command began.
Age(a) == Cardinality({i \in DOMAIN a : \E j \in 1..i : a[j] = "command"})

\* Bound: a turn has room for so much.
Fits(a) == Len(a) <= MaxSamples /\ Cardinality({i \in DOMAIN a : a[i] \in Words}) <= MaxWords

Chunks == UNION {[1..n -> Sounds] : n \in 1..MaxChunk}

-----------------------------------------------------------------------------
(* The keyword spotter's handle.  Once it has detected a command it hears   *)
(* nothing more until it is reset.                                          *)

\* catcher_kws_start, which is what both start() and reset() call.
KwsStart == kws' = [started |-> TRUE, latched |-> FALSE]

\* After a command, or for an echo of the one before; at the latest "Latency"
\* samples after the command's end.
Detects(a) == ~kws.latched /\ (Age(a) >= CommandSamples \/ echo)
Misses(a)  == kws.latched \/ Age(a) < CommandSamples + Latency

\* catcher_kws_push_audio: refused before the first start.
KwsPush(detected) ==
    /\ kws.started
    /\ kws' = [kws EXCEPT !.latched = @ \/ detected]

-----------------------------------------------------------------------------
(* The ASR handle.  Frames of tokens never decrease, so the tokens before a *)
(* cutoff are those of an initial part of the audio.                        *)

\* The frame in which the i-th sample is: 1280 samples make one in the code.
FrameOf(i) == ((i - 1) \div SamplesPerMs) \div FrameMs

\* Of n samples, the frames that are complete, and the frames that have begun.
WholeFrames(n) == FrameOf(n + 1)
AllFrames(n)   == IF n = 0 THEN 0 ELSE FrameOf(n) + 1

\* decode_frames: a frame without a sound is decoded to the blank, which is no token.
Decoded(a) ==
    LET upTo[n \in 0..Len(a)] ==
          IF n = 0 THEN <<>>
          ELSE upTo[n - 1] \o (IF a[n] = "silence" THEN <<>> ELSE <<a[n]>>)
    IN  upTo[Len(a)]

\* Mutant: a token on the cutoff is kept.
TokensBefore_OnCutoff(a, d, c) ==
    Decoded(SubSeq(a, 1, Cardinality({i \in DOMAIN a : FrameOf(i) < d /\ FrameOf(i) * FrameMs <= c})))

\* token_ids_before_ms, of the tokens of the d frames decoded so far.
TokensBefore(a, d, c) ==
    Decoded(SubSeq(a, 1, Cardinality({i \in DOMAIN a : FrameOf(i) < d /\ FrameOf(i) * FrameMs < c})))

\* opencc::to_traditional: a word is rendered alone or as part of a phrase.
Convert(s) ==
    [i \in DOMAIN s |->
        [word |-> s[i],
         inPhrase |-> \/ i < Len(s) /\ <<s[i], s[i + 1]>> \in Phrases
                      \/ i > 1 /\ <<s[i - 1], s[i]>> \in Phrases]]

\* catcher_text_before
TextBefore(a, d, c) == Convert(TokensBefore(a, d, c))

-----------------------------------------------------------------------------
(* TextInjectionCoordinator                                                *)

injectableTarget == frontmost = "target"

IsPrefix(s, t) == Len(s) <= Len(t) /\ SubSeq(t, 1, Len(s)) = s

\* Mutant: what is pending is counted from the start of the turn.
PendingSuffix_Whole(text) == text

PendingSuffix(text) == SubSeq(text, Len(injectedPrefix) + 1, Len(text))

\* Types what text adds to the text typed before, and remembers it.
Inject(text) ==
    /\ IsPrefix(injectedPrefix, text)
    /\ typed' = typed \o PendingSuffix(text)
    /\ injectedPrefix' = IF PendingSuffix(text) = <<>> THEN injectedPrefix ELSE text

\* consume(text), when it does not throw.
Consume(text) ==
    \/ injectableTarget /\ Inject(text)
    \/ ~injectableTarget /\ UNCHANGED <<typed, injectedPrefix>>

\* submit(text), when it does not throw.  resetTurn follows every submit, so
\* commandInFlight is never set here.
Submit(text) ==
    LET empty == text = <<>> /\ injectedPrefix = <<>>
    IN  \/ (empty \/ ~injectableTarget) /\ UNCHANGED <<typed, injectedPrefix, returned>>
        \/ ~empty /\ injectableTarget /\ Inject(text) /\ returned' = TRUE

-----------------------------------------------------------------------------
(* TranscriptionController                                                 *)

\* Mutant: the end of the audio is rounded up to the next millisecond.
Cutoff_RoundedUp(samples) ==
    LET audioEndMs == (samples + SamplesPerMs - 1) \div SamplesPerMs
    IN  IF audioEndMs > Holdback THEN audioEndMs - Holdback ELSE 0

\* VoiceInputTiming.stableCutoffMs: whole milliseconds.
Cutoff(samples) ==
    LET audioEndMs == samples \div SamplesPerMs
    IN  IF audioEndMs > Holdback THEN audioEndMs - Holdback ELSE 0

\* Mutant: the sample clock runs on.
NewTurn_OldClock ==
    /\ audio' = <<>> /\ decoded' = 0
    /\ injectedPrefix' = <<>>
    /\ typed' = <<>> /\ returned' = FALSE
    /\ UNCHANGED received

\* catcher.start() and resetVoiceTurn(), with an empty stream for the spotter.
NewTurn ==
    /\ audio' = <<>> /\ decoded' = 0
    /\ received' = 0
    /\ injectedPrefix' = <<>>
    /\ typed' = <<>> /\ returned' = FALSE

Start ==
    /\ phase = "off"
    /\ NewTurn /\ KwsStart
    /\ phase' = "listen"
    /\ suppress' = FALSE /\ echo' = FALSE
    /\ error' = "none"
    /\ UNCHANGED frontmost

\* Both engines hear the chunk; the ASR may be late with its tokens.
Hear(chunk) ==
    /\ audio' = audio \o chunk
    /\ Fits(audio') /\ WellSpoken(audio')
    /\ received' = received + Len(chunk)

Dictate(chunk) ==
    /\ phase = "listen"
    /\ Hear(chunk)
    /\ Misses(audio') /\ KwsPush(FALSE)
    /\ decoded' \in decoded..WholeFrames(Len(audio'))
    /\ Consume(TextBefore(audio', decoded', Cutoff(received')))
    /\ suppress' = FALSE /\ echo' = FALSE
    /\ UNCHANGED <<phase, frontmost, error, returned>>

\* Mutant: the snapshot is submitted, without what the ASR still has to decode.
Command_NoFlush(chunk) ==
    /\ phase = "listen"
    /\ Hear(chunk)
    /\ Detects(audio') /\ KwsPush(TRUE)
    /\ ~suppress
    /\ decoded' \in decoded..WholeFrames(Len(audio'))
    /\ Submit(TextBefore(audio', decoded', Cutoff(received')))
    /\ phase' = "restart"
    /\ suppress' = TRUE
    /\ UNCHANGED <<echo, frontmost, error>>

\* The spotter detects the command: finish(before:) flushes the ASR.
Command(chunk) ==
    /\ phase = "listen"
    /\ Hear(chunk)
    /\ Detects(audio') /\ KwsPush(TRUE)
    /\ ~suppress
    /\ decoded' = AllFrames(Len(audio'))
    /\ Submit(TextBefore(audio', decoded', Cutoff(received')))
    /\ phase' = "restart"
    /\ suppress' = TRUE
    /\ UNCHANGED <<echo, frontmost, error>>

\* A detection in the first chunk of a turn repeats the command before it.
DuplicateCommand(chunk) ==
    /\ phase = "listen"
    /\ Detects(audio \o chunk)
    /\ Fits(audio \o chunk) /\ WellSpoken(audio \o chunk)
    /\ suppress
    /\ NewTurn /\ KwsStart
    /\ UNCHANGED <<phase, suppress, echo, frontmost, error>>

Restart ==
    /\ phase = "restart"
    /\ NewTurn /\ KwsStart
    /\ phase' = "listen"
    /\ echo' = TRUE
    /\ UNCHANGED <<suppress, frontmost, error>>

-----------------------------------------------------------------------------
(* The ends of a session.  stopRecording, handleStreamFailure and the       *)
(* cleanup all finish the ASR without using its text.                       *)

End(why) ==
    /\ NewTurn
    /\ phase' = "off"
    /\ suppress' = FALSE /\ echo' = FALSE
    /\ error' = why
    /\ UNCHANGED frontmost

Stop == phase = "listen" /\ End("none") /\ KwsStart

\* The ASR, the spotter or the posting of key events fails; then an error of
\* the reset is ignored (try?).
Fail == phase # "off" /\ End("engine") /\ (KwsStart \/ UNCHANGED kws)

\* pendingSuffix throws: the new text does not extend the text typed before.
Diverge(chunk, d) ==
    /\ phase = "listen" /\ injectableTarget
    /\ LET a    == audio \o chunk
           text == TextBefore(a, d, Cutoff(received + Len(chunk)))
       IN  /\ Fits(a) /\ WellSpoken(a)
           /\ \/ Misses(a) /\ d <= WholeFrames(Len(a))
              \/ Detects(a) /\ ~suppress /\ d = AllFrames(Len(a))
           /\ ~IsPrefix(injectedPrefix, text)
    /\ End("divergentPrefix") /\ KwsStart

\* The user looks elsewhere, back at Tippi, or at no application.
Focus(app) ==
    /\ frontmost' = app
    /\ UNCHANGED <<phase, audio, decoded, received, kws, suppress, echo,
                   injectedPrefix, error, typed, returned>>

Next ==
    \/ Start \/ Restart \/ Stop \/ Fail
    \/ \E chunk \in Chunks :
          \/ Dictate(chunk) \/ Command(chunk) \/ DuplicateCommand(chunk)
          \/ \E d \in decoded..AllFrames(Len(audio) + Len(chunk)) : Diverge(chunk, d)
    \/ \E app \in Apps : Focus(app)

Spec == Init /\ [][Next]_vars

-----------------------------------------------------------------------------
(* Properties                                                              *)

Text(set) == {[word |-> w, inPhrase |-> b] : w \in set, b \in BOOLEAN}

\* Every variable has its type, no clock runs past what was heard, and a turn
\* begins with a spotter that listens.
TypeOK ==
    /\ phase \in {"off", "listen", "restart"}
    /\ audio \in Seq(Sounds) /\ Len(audio) <= MaxSamples
    /\ decoded \in 0..AllFrames(Len(audio))
    /\ received \in 0..Len(audio)
    /\ kws \in [started : BOOLEAN, latched : BOOLEAN]
    /\ phase = "listen" => kws = [started |-> TRUE, latched |-> FALSE]
    /\ suppress \in BOOLEAN /\ echo \in BOOLEAN /\ returned \in BOOLEAN
    /\ \A s \in {injectedPrefix, typed} :
          Len(s) <= Len(audio) /\ \A i \in DOMAIN s : s[i] \in Text(Sounds \ {"silence"})
    /\ frontmost \in Apps
    /\ error \in {"none", "engine", "divergentPrefix"}

\* No part of the command is typed, however late the ASR decodes it, wherever
\* chunks, frames and milliseconds end, however often the user looks away, and
\* in every turn of a session: the holdback of processVoiceInput and the three
\* clocks it restarts together.
NoCommandTyped == \A i \in DOMAIN typed : typed[i].word # "command"

\* The text of all that was heard in the frames that begin before a cutoff.
SafeText(cutoff) == TextBefore(audio, AllFrames(Len(audio)), cutoff)

\* What the target has received is the text of an initial part of the turn, all
\* of it older than the holdback: nothing lost, doubled or reordered when the
\* user looks away, nothing typed early, nothing flushed by Stop.
TypedIsSafePrefix == \E cutoff \in 0..Cutoff(Len(audio)) : typed = SafeText(cutoff)

\* Return is pressed only after the whole safe text of the turn has been typed,
\* what the ASR had yet to decode included, and never on an empty turn.
ReturnSendsAll == returned => typed # <<>> /\ typed = SafeText(Cutoff(Len(audio)))

\* The stable text of a turn is append-only: a session never ends because the
\* text of a longer prefix does not extend the text already typed.
StableTextAppendOnly == error # "divergentPrefix"
=============================================================================
