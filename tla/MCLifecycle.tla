---- MODULE MCLifecycle ----
EXTENDS CatcherLifecycle

\* Two frames: a word, then closing punctuation and a word in one frame; a tag
\* and an id the tokenizer does not know; silence.
MCAsrPatterns == {<< <<"word">>, <<"punctuation", "word">> >>,
                  << <<"special">>, <<"unknown">> >>,
                  << <<>>, <<>> >>}

A == [s \in {0, 1} |-> IF s = 0 THEN 100 ELSE 0]
B == [s \in {0, 1} |-> IF s = 1 THEN 100 ELSE 0]
Q == [s \in {0, 1} |-> 10]

MCSymmetry == Permutations(Converters)

MCDiarPatterns == {<<A, A, B>>, <<B, B, Q>>}
====
