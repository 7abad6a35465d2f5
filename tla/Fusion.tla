------------------------------- MODULE Fusion -------------------------------
(***************************************************************************)
(* The fusion of timed tokens with the diarizer's frames, as functions of  *)
(* its three fields [tokens, diar, flushed].  A token is [id, frame]; of   *)
(* its text only the kind matters: a word, closing punctuation, a special  *)
(* token that decodes to nothing, or an id the tokenizer does not know.    *)
(* A text is the sequence of the tokens that are spelt in it (spaces and   *)
(* the conversion to traditional characters are left out), probabilities   *)
(* are percentages.                                                        *)
(***************************************************************************)
EXTENDS Integers, Sequences, SequencesExt, FiniteSetsExt

CONSTANTS Speakers,      \* 0..3 in the code
          Threshold,     \* FusionConfig, per cent: 50
          SmoothFrames,  \* 3
          MinTurnMs,     \* 500
          FrameMs        \* 80

ASSUME FusionAssumption ==
    /\ Speakers \subseteq Nat /\ 0 \in Speakers /\ IsFiniteSet(Speakers)
    /\ {Threshold, SmoothFrames, MinTurnMs} \subseteq Nat /\ FrameMs \in Nat \ {0}

Kinds == {"word", "punctuation", "special", "unknown"}

NewFusion == [tokens |-> <<>>, diar |-> <<>>, flushed |-> FALSE]

\* The elements of seq at the given places, in their order (SelectSeq, in a form
\* that can be reasoned about).
Selected(seq, places) ==
    LET kept[n \in 0..Len(seq)] ==
          IF n = 0 THEN <<>>
          ELSE IF n \in places THEN Append(kept[n - 1], seq[n]) ELSE kept[n - 1]
    IN  kept[Len(seq)]

-----------------------------------------------------------------------------
(* Tokenizer::decode: an unknown id is an error, a special token is skipped. *)

Decodable(tokens) == \A i \in DOMAIN tokens : tokens[i].id # "unknown"

Decode(tokens) == Selected(tokens, {i \in DOMAIN tokens : tokens[i].id # "special"})

\* The detokenize closure: a text that cannot be decoded is empty.
Detokenize(tokens) == IF Decodable(tokens) THEN Decode(tokens) ELSE <<>>

\* retain_tokens_before_ms, and the same filter on the handle's own tokens.
Before(tokens, cutoff) ==
    Selected(tokens, {i \in DOMAIN tokens : tokens[i].frame * FrameMs < cutoff})

-----------------------------------------------------------------------------
(* Attribution.                                                             *)

\* Mutant: a token is decided as soon as its own frame is there.
IsDecidable_Mistake(f, frame) == f.flushed \/ frame < Len(f.diar)

IsDecidable(f, frame) == f.flushed \/ frame + SmoothFrames < Len(f.diar)

\* The speaker with the largest sum, the first of them if there are several.
Loudest(sum) == CHOOSE s \in Speakers : \A t \in Speakers :
                   sum[s] > sum[t] \/ (sum[s] = sum[t] /\ s <= t)

\* The loudest over the window, if it is loud enough.
SpeakerOver(diar, window, previous) ==
    LET sum  == [s \in Speakers |-> MapThenSumSet(LAMBDA i : diar[i + 1][s], window)]
        best == Loudest(sum)
    IN  IF sum[best] < Threshold * Cardinality(window) THEN previous ELSE best

AttributeSpeaker(diar, frame, previous) ==
    LET Clip(i) == Max({0, Min({i, Len(diar) - 1})})
    IN  IF diar = <<>> THEN previous
        ELSE SpeakerOver(diar, Clip(frame - SmoothFrames)..Clip(frame + SmoothFrames), previous)

\* The places of the decidable tokens.
Decided(f) == {i \in DOMAIN f.tokens : IsDecidable(f, f.tokens[i].frame)}

\* The decidable tokens in order, each with the speaker it is attributed to.
Labeled(f) ==
    LET decided == Selected(f.tokens, Decided(f))
        speaker[i \in 0..Len(decided)] ==
            IF i = 0 THEN 0 ELSE AttributeSpeaker(f.diar, decided[i].frame, speaker[i - 1])
    IN  [i \in DOMAIN decided |-> [token |-> decided[i], speaker |-> speaker[i]]]

-----------------------------------------------------------------------------
(* Turns.                                                                   *)

GroupsFrom(labeled, first) ==
    [n \in DOMAIN first |->
       [speaker |-> labeled[first[n]].speaker,
        first   |-> first[n],
        last    |-> IF n = Len(first) THEN Len(labeled) ELSE first[n + 1] - 1]]

GroupLabeled(labeled) ==
    LET starts == {i \in DOMAIN labeled : i = 1 \/ labeled[i].speaker # labeled[i - 1].speaker}
    IN  GroupsFrom(labeled, Selected([i \in DOMAIN labeled |-> i], starts))

DurationMs(labeled, group) ==
    (labeled[group.last].token.frame + 1 - labeled[group.first].token.frame) * FrameMs

IsShort(labeled, group) == DurationMs(labeled, group) < MinTurnMs

Target(n) == IF n = 1 THEN 2 ELSE n - 1

\* Mutant: only a turn between two turns of one speaker is absorbed.
Absorbable_Mistake(labeled, groups) ==
    {n \in DOMAIN groups \ {1, Len(groups)} :
        IsShort(labeled, groups[n]) /\ groups[n - 1].speaker = groups[n + 1].speaker
        /\ ~IsShort(labeled, groups[n - 1])}

\* Short turns beside a long one, leftmost first.
Absorbable(labeled, groups) ==
    {n \in DOMAIN groups : /\ Len(groups) > 1
                           /\ IsShort(labeled, groups[n])
                           /\ ~IsShort(labeled, groups[Target(n)])}

Absorb(labeled, groups, short) ==
    IF short = {} THEN labeled
    ELSE LET g == Min(short)
         IN  [i \in DOMAIN labeled |->
                IF i \in groups[g].first..groups[g].last
                THEN [labeled[i] EXCEPT !.speaker = groups[Target(g)].speaker]
                ELSE labeled[i]]

AbsorbIn(labeled, groups) == Absorb(labeled, groups, Absorbable(labeled, groups))

\* apply_anti_flicker: every round has one group less than the one before.
AntiFlicker(labeled) ==
    LET round[n \in 0..Len(labeled)] ==
          IF n = 0 THEN labeled
          ELSE LET before == round[n - 1] IN AbsorbIn(before, GroupLabeled(before))
    IN  round[Max({0, Len(GroupLabeled(labeled)) - 1})]

WithGroups(labeled) == [labeled |-> labeled, groups |-> GroupLabeled(labeled)]

\* The turns as they were attributed, and as they are shown.
RawTurns(f) == WithGroups(Labeled(f))
Turns(f)    == WithGroups(AntiFlicker(Labeled(f)))

-----------------------------------------------------------------------------
(* Segments.                                                                *)

BuildSegment(tokens, speaker, final) ==
    [speaker  |-> speaker,
     start_ms |-> Head(tokens).frame * FrameMs,
     end_ms   |-> (Last(tokens).frame + 1) * FrameMs,
     text     |-> Detokenize(tokens),
     final    |-> final]

LeadingPunctuation(text) ==
    Max({n \in 0..Len(text) : \A i \in 1..n : text[i].id = "punctuation"})

\* "moved" is how much of each text moves to the segment before, "kept" are the
\* segments that stay.
JoinPunctuation(segments, moved, kept) ==
    [n \in DOMAIN kept |->
       LET next == IF n = Len(kept) THEN Len(segments) ELSE kept[n + 1]
           own  == segments[kept[n]]
       IN  [own EXCEPT !.text =
              SubSeq(@, moved[kept[n]] + 1, Len(@))
                \o FlattenSeq([k \in 1..(next - kept[n]) |->
                                 SubSeq(segments[kept[n] + k].text, 1, moved[kept[n] + k])])]]

\* The leading punctuation of every segment but the first moves to the one
\* before it, and a segment without text is removed.
ShiftBoundaryPunctuation(segments) ==
    LET moved == [n \in DOMAIN segments |->
                    IF n = 1 THEN 0 ELSE LeadingPunctuation(segments[n].text)]
        stays == {n \in DOMAIN segments : n = 1 \/ Len(segments[n].text) > moved[n]}
    IN  JoinPunctuation(segments, moved, Selected([n \in DOMAIN segments |-> n], stays))

TokensOf(turns, group) ==
    [i \in 1..(group.last + 1 - group.first) |-> turns.labeled[group.first + i - 1].token]

FinalSegments(turns) ==
    [n \in DOMAIN turns.groups |->
       BuildSegment(TokensOf(turns, turns.groups[n]), turns.groups[n].speaker, TRUE)]

\* The tail that is not decided yet, under the speaker of the last segment.
TentativeSegment(finals, tail) ==
    IF tail = <<>> THEN <<>>
    ELSE <<BuildSegment(tail, IF finals = <<>> THEN 0 ELSE Last(finals).speaker, FALSE)>>

WithTail(finals, tail) == ShiftBoundaryPunctuation(finals \o TentativeSegment(finals, tail))

Segments(f) ==
    WithTail(FinalSegments(Turns(f)),
             Selected(f.tokens, DOMAIN f.tokens \ Decided(f)))
=============================================================================
