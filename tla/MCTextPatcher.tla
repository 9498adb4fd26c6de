--------------------------- MODULE MCTextPatcher ---------------------------
EXTENDS TextPatcher

MCLine == {"a", "b", "c", "x", "y", "z"}

\* A text in which a line occurs twice, one that differs in a line, none.
MCExpected == <<"a", "b", "a">>
MCContents == {MCExpected, <<"a", "b", "c">>, <<>>}

MCEdits ==
    {Del(line) : line \in -1 .. 4}
        \cup {Add(line, t) : line \in -1 .. 4, t \in {<<>>, <<"x">>, <<"x", "y">>}}

Sequences(n) == UNION {[1 .. m -> MCEdits] : m \in 0 .. n}

\* Any two edits, and any three of those that change lines next to each other.
MCPatches ==
    Sequences(2)
        \cup [1 .. 3 -> {Del(1), Del(2), Add(1, <<"x">>), Add(2, <<"x", "y">>), Add(3, <<"z">>)}]
=============================================================================
