------------------------------ MODULE MCRegexp ------------------------------
EXTENDS Regexp

Ch(c) == <<"char", <<c>>>>
Quant(t, min, max, greedy) == <<"quant", t, min, max, greedy>>
Star(t) == Quant(t, 0, INT32_MAX, TRUE)
Plus(t) == Quant(t, 1, INT32_MAX, TRUE)
Group(d) == <<"group", d>>
Capture(d) == <<"capture", d>>
a == Ch("a")
b == Ch("b")

\* Atoms of every shape: one that may match nothing, choices of different
\* lengths, captures, an atom that tests what follows.
Atoms == <<
  a,
  Group(<<<<a>>, <<>>>>),
  Capture(<<<<a>>, <<a, b>>>>),
  Group(<<<<Capture(<<<<a>>>>)>>, <<b>>>>),
  Capture(<<<<Star(a)>>>>),
  Group(<<<<<<"lookahead", <<<<a>>>>>>, <<"any">>>>>>)>>

Counts == <<<<0, INT32_MAX>>, <<1, INT32_MAX>>, <<0, 1>>, <<0, 2>>, <<2, 2>>, <<1, 3>>, <<2, INT32_MAX>>, <<0, 0>>>>

\* Every atom with every count, greedy and lazy, before a b.
Quantifiers ==
  FlattenSeq([i \in DOMAIN Atoms |->
    FlattenSeq([j \in DOMAIN Counts |->
      <<[pattern |-> <<<<Quant(Atoms[i], Counts[j][1], Counts[j][2], TRUE), b>>>>, flags |-> {}],
        [pattern |-> <<<<Quant(Atoms[i], Counts[j][1], Counts[j][2], FALSE), b>>>>, flags |-> {}]>>])])

Others == <<
  [pattern |-> <<<<Capture(<<<<Plus(a)>>>>), <<"reference", 1>>>>>>, flags |-> {"global"}],
  [pattern |-> <<<<Plus(Group(<<<<Capture(<<<<a>>, <<b>>>>), <<"reference", 1>>>>>>))>>>>, flags |-> {"sticky"}],
  [pattern |-> <<<<<<"lookbehind", <<<<Capture(<<<<a>>>>), Star(Ch("b"))>>>>>>, b>>>>, flags |-> {"global"}],
  [pattern |-> <<<<<<"lookbehind", <<<<<<"reference", 1>>, Capture(<<<<a>>, <<b>>>>)>>>>>>, <<"dot">>>>>>, flags |-> {}],
  [pattern |-> <<<<<<"negative_lookbehind", <<<<a, b>>, <<b>>>>>>, <<"any">>>>>>, flags |-> {"global"}],
  [pattern |-> <<<<<<"negative_lookahead", <<<<Capture(<<<<a>>>>), b>>>>>>, Capture(<<<<<<"any">>>>>>)>>>>, flags |-> {}],
  [pattern |-> <<<<<<"lookahead", <<<<Capture(<<<<Star(a)>>>>)>>>>>>, a, <<"reference", 1>>>>, <<b, b>>>>, flags |-> {}],
  [pattern |-> <<<<Star(Group(<<<<Star(Group(<<<<a>>, <<>>>>)), Quant(b, 0, 2, FALSE)>>>>)), <<"line_end">>>>>>, flags |-> {}],
  [pattern |-> <<<<Quant(Group(<<<<Quant(Group(<<<<a>>, <<b>>>>), 2, 3, TRUE)>>>>), 1, 2, TRUE), a>>>>, flags |-> {}],
  [pattern |-> <<<<<<"line_start">>, Star(<<"dot">>), <<"line_end">>>>>>, flags |-> {"multiline", "global"}],
  [pattern |-> <<<<Quant(<<"any">>, 1, 2, TRUE), <<"not_word_boundary">>>>>>, flags |-> {}],
  [pattern |-> <<<<<<"word_boundary">>, Plus(<<"range", {<<"a">>, <<"b">>}>>)>>>>, flags |-> {"global"}],
  [pattern |-> <<<<Star(<<"any">>), <<"range", {<<"hi", "lo">>, <<"a">>}>>>>>>, flags |-> {"unicode", "global"}],
  [pattern |-> <<<<Capture(<<<<<<"any">>>>>>), Star(<<"reference", 1>>), <<"lookbehind", <<<<<<"reference", 1>>>>>>>>>>>>, flags |-> {"unicode"}]>>

MCRegexps == Quantifiers \o Others

MCTexts ==
  UNION {[1..n -> {"a", "b"}] : n \in 0..4}
  \cup {<<"a", "nl", "b">>, <<"nl", "a">>, <<"b", "nl">>,
        <<"hi", "lo", "a">>, <<"a", "hi", "lo">>, <<"hi", "lo", "hi", "lo">>, <<"hi", "a">>, <<"lo", "hi", "lo">>}
=============================================================================
