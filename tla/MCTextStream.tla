---------------------------- MODULE MCTextStream ----------------------------
(* Markers, stops and vocabularies for the model checker.  `<T` stands for   *)
(* <think>, `</T` for its close, `<C` and `</C` for the tool-call tags, `<|H` *)
(* and `<Z` for Gemma's channel, `<|W` and `<V` for Gemma's call, `[A` for    *)
(* [ARGS], `[T` and `[/T` for [THINK].                                        *)
EXTENDS TextStream

MCStops == {[text |-> <<"u", "n">>, keep |-> 0], [text |-> <<".", "u">>, keep |-> 1]}

ThinkXml == [kind |-> "think", open |-> <<"<", "T">>, close |-> <<"</", "T">>]
ThinkChannel == [kind |-> "think", open |-> <<"<", "|", "H">>, close |-> <<"<", "Z">>]
ThinkBracket == [kind |-> "think", open |-> <<"[", "T">>, close |-> <<"[", "/T">>]
Tag == [kind |-> "closed", open |-> <<"<", "C">>, close |-> <<"</", "C">>]
Native == [kind |-> "native", open |-> <<"<", "|", "W">>, close |-> <<"<", "V">>]
Rehearsal == [kind |-> "rehearsal", open |-> <<"[", "A">>, close |-> <<>>]

MCFormats == {ThinkXml, ThinkChannel, ThinkBracket, Tag, Native, Rehearsal}
MCOpens == {<<"<", "|", "H", "n">>, <<"<", "|", "H">>, <<"<", "T">>}
MCCloses == {<<"n", "<", "Z">>, <<"<", "Z">>, <<"</", "T">>}
MCNames == {"nm", "m", "w", "u"}
MCEnabled == {<<"nm", "m">>}
MCSpaces == {"n", "s"}
MCWords == {"w", "u", "."}

\* Tag calls and think blocks, whole or in pieces.
Tagged == [most |-> 5,
           tokens |-> {<<"<">>, <<"C">>, <<"<", "C">>, <<"<", "T">>, <<"{", "}">>, <<"</">>, <<"T">>,
                       <<"</", "C">>, <<"w">>}]
\* Gemma's channel and call, whose longer markers end in a line.
Gemma == [most |-> 5,
          tokens |-> {<<"<", "|">>, <<"H">>, <<"n">>, <<"<">>, <<"Z">>, <<"|", "W">>, <<"{", "}">>, <<"V">>,
                      <<"w">>}]
\* Fake turn headers.
Stopped == [most |-> 6,
            tokens |-> {<<".">>, <<"u">>, <<"n">>, <<"w", ".">>, <<"u", "n", "w">>, <<"<">>, <<"T", "s">>}]
\* Calls rehearsed by name.  The name may be cut, from the marker too; the marker is
\* never cut inside (where it is, SplitNameIsSeen fails).
Named == [most |-> 5,
          tokens |-> {<<"nm">>, <<"w">>, <<"m">>, <<"m", "[", "A">>, <<"[", "A">>, <<"{">>, <<"}">>, <<"<", "T">>,
                      <<"</", "T">>}]
\* The same in a vocabulary where the marker is a token.
Apart == [most |-> 5, tokens |-> {<<"nm", "m">>, <<"[", "A">>, <<"{", "}">>, <<"w">>, <<"[">>, <<"A">>}]
MCVocabularies == {Tagged, Gemma, Stopped, Named}
MCApart == {Apart}
=============================================================================
