------------------------------- MODULE MCValues -------------------------------
(* The inputs Values is checked with. *)
EXTENDS Values

MCWords == {"begin", "commit", "begin_proc", "end_proc", "a", "null"}

Piece(kind, text) == [kind |-> kind, text |-> text]
Semicolon == Piece("semicolon", <<";">>)
Begin == Piece("keyword", <<"begin", " ">>)
Commit == Piece("keyword", <<"commit", " ">>)
Word_ == Piece("word", <<"a", " ">>)
Placeholder == Piece("placeholder", <<"$", "1">>)

\* Regions that are no SQL, with in them what would be read as something else.
Opaque == {
    Piece("value", <<"'", "'", "'", ";", "commit", "$", "1", "'">>),
    Piece("value", <<"'", "\\", "'", ";", "begin", " ", "'">>),
    Piece("value", <<"\"", "'", "\"", "\"", ";", "$", "1", "\"">>),
    Piece("value", <<"$", "$", "'", ";", "commit", "$", "1", "$", "$">>),
    Piece("value", <<"$", "a", "$", "$", "$", ";", "$", "1", "$", "a", "$">>),
    Piece("value", <<" ", "begin_proc", " ", ";", "commit", ";", "a", "end_proc", ";",
                     " ", "end_proc", " ">>),
    Piece("comment", <<"-", "-", "'", ";", "$", "1", "\n">>),
    Piece("comment", <<"/", "*", "\"", "-", "-", ";", "commit", "*", "/">>)}
\* Regions that the end of the text ends.
Unended == {Piece("comment", <<"-", "-", ";", "begin", "$", "1">>),
            Piece("comment", <<"/", "*", ";", "commit", "$", "1">>)}
BeginA == Piece("word", <<"begin", "a", " ">>)
Longer == {BeginA, Piece("word", <<"$", "2", " ">>)}

Minus == Piece("word", <<"a", "-">>)
\* What the two scanners do not read alike, in a query with parameters.
Apart == {
    Piece("value", <<" ", "begin_proc", " ", "'", ";", "a", " ", "end_proc", " ">>),
    Piece("value", <<" ", "begin_proc", " ", "$", "1", ";", "-", "-", " ", "end_proc", " ">>),
    Minus}

Plain == {Semicolon, Begin, Commit, Word_, Placeholder}
AnyPiece == Plain \cup Opaque \cup Longer \cup Apart

PieceSequences ==
    UNION {[1 .. n -> AnyPiece] : n \in 0 .. 3}
    \cup {<<p, q, r, s>> : p, r \in {Begin, Word_}, q \in Opaque, s \in Unended}
    \cup {<<p, Semicolon, q, Semicolon, r, o>> :
            p, q, r \in {Begin, Commit, Word_, BeginA}, o \in {Placeholder} \cup Opaque}
    \cup {<<Minus, Placeholder, Semicolon, p>> : p \in {Begin, Commit, Word_}}

String(text) == [type |-> "string", text |-> text]
Parameters ==
    {<<>>, <<String(<<"'", ";", "commit">>)>>, <<String(<<"$", "1", "-", "-">>)>>,
                 <<String(<<"a", "\\">>)>>, <<String(<<"\\", "'", ";", "begin">>)>>, <<String(<<"\\", "a">>)>>,
                 <<[type |-> "number", text |-> <<"-", "1">>]>>, <<[type |-> "null"]>>}
\* A text without placeholder is sent with one kind of value.
MCQueries ==
    {[pieces |-> p, params |-> <<String(<<"a">>)>>] : p \in PieceSequences}
    \cup {[pieces |-> p, params |-> v] :
            p \in {q \in PieceSequences : Placeholder \in ToSet(q)}, v \in Parameters}

MCNumerics ==
    {[words |-> w, prec |-> p, scale |-> s] :
        w \in UNION {[1 .. n -> 0 .. 15] : n \in 1 .. 2}
              \cup {<<h, m, l>> : h \in {0, 7, 8, 15}, m, l \in 0 .. 15},
        p \in {2, 5}, s \in 0 .. 5}

MCCounts == [hi : -8 .. 7, lo : 0 .. 15]
MCMonths == {-4, 0, 2, 3, 7}
MCZones == -30 .. 30

\* Texts from their parts.
MCDates == {
    <<"2", "0", "2", "4", "-", "0", "2", "-", "3", "0">>,
    <<"0", "0", "5", "0", "-", "0", "3", "-", "0", "1">>,
    <<"1", "9", "9", "9", "-", "1", "3", "-", "0", "1">>,
    <<"1", "9", "0", "0", "-", "1", "2", "-", "3", "1">>,
    <<"2", "0", "0", "0", "-", "0", "1", "-", "0", "0">>,
    <<" ", "1", "9", "9", "9", "-", "1", "2", "-", "0", "1">>,
    <<"1", "9", "9", "9", "-", "1", "2", "-", "0", " ">>,
    <<"2", "4", "-", "0", "2", "-", "3", "0">>}
TimesOfDay == {
    <<"0", "0", ":", "0", "0", ":", "0", "0">>,
    <<"2", "3", ":", "5", "9", ":", "5", "9">>,
    <<"2", "4", ":", "0", "0", ":", "0", "0">>,
    <<"1", "2", ":", "6", "0", ":", "0", "0">>,
    <<"7", ":", "0", "5", ":", "0", "9">>}
Fractions == {<<>>, <<".">>, <<".", "5">>, <<".", "0", "7", "0">>,
              <<".", "9", "9", "9", "9", "9", "9">>, <<".", "1", "2", "3", "4", "5", "6", "7">>}
ZoneTexts == {<<>>, <<"+", "0", "5">>, <<"-", "0", "3", "3", "0">>, <<"+", "0", "5", ":", "4", "5">>,
              <<"-", "2", "4">>, <<"+", "1", "2", ":", "6", "0">>, <<"+", "1">>, <<"Z">>}
MCTimestamps ==
    {d \o <<s>> \o t \o f \o z :
        d \in MCDates, s \in {" ", "T", "_"}, t \in TimesOfDay, f \in Fractions, z \in ZoneTexts}
MCTimes == {t \o f : t \in TimesOfDay, f \in Fractions}
MCIntegerTexts == UNION {[1 .. n -> {"-", "0", "7", "."}] : n \in 0 .. 4}

-----------------------------------------------------------------------------
Texts == {<<80, 97, 115, 115>>, <<80, 97, 115, 115, 32, 10, 119>>, <<70, 65, 84, 65, 76, 195, 169>>}
Nul == <<0>>
Length(n) == <<0, 0, 0, n>>
Framed(body) == Length(Len(body) + 4) \o body
Following == {<<>>, <<90, 0, 0, 0, 5>>}
Found(text) == [found |-> TRUE, text |-> text]
Meant(message, code) == [kind |-> "database", message |-> message, code |-> code]
Refusal(bytes, meant) == [bytes |-> bytes, meant |-> meant]

MCRefusals ==
    \* text without a length, after a zero length, and in a frame
    {Refusal(t \o Nul \o f, Meant(t, None)) : t \in Texts, f \in Following}
    \cup {Refusal(Length(0) \o t \o Nul \o f, Meant(t, None)) : t \in Texts, f \in Following}
    \cup {Refusal(Length(0) \o Nul \o f, Meant(<<>>, None)) : f \in Following}
    \cup {Refusal(Framed(t \o Nul) \o f, Meant(t, None)) : t \in Texts, f \in Following}
    \* fields
    \cup {Refusal(Framed(<<83>> \o <<69>> \o Nul \o <<67>> \o c \o Nul \o <<77>> \o t \o Nul \o Nul) \o f,
                  Meant(t, Found(c))) :
            t \in Texts, c \in {<<>>, <<52, 50>>}, f \in Following}
    \cup {Refusal(Framed(<<77>> \o t \o Nul \o Nul), Meant(t, None)) : t \in Texts}
    \* lengths that no frame has, an empty frame before another message, text
    \* without an end
    \cup {Refusal(l \o <<80, 97>> \o Nul \o f, [kind |-> "protocol"]) :
            l \in {<<255, 255, 255, 255>>, <<0, 0, 0, 3>>, <<200, 80, 97, 115>>, <<1, 0, 0, 0>>,
                   <<80, 97, 7, 115>>, <<80, 97, 115, 127>>}, f \in Following}
    \cup {Refusal(Length(0) \o <<90, 0, 0, 0, 5>>, [kind |-> "protocol"]),
          Refusal(Length(0) \o <<90, 7, 0>>, [kind |-> "protocol"]),
          Refusal(Length(0), [kind |-> "protocol"]),
          Refusal(<<80, 97, 115, 115, 119>>, [kind |-> "protocol"]),
          Refusal(<<80, 97, 115, 115>> \o [i \in 1 .. 20 |-> 119] \o Nul, [kind |-> "protocol"]),
          Refusal(<<80, 97, 115>>, [kind |-> "socket"]),
          Refusal(Length(20) \o <<77, 97>>, [kind |-> "socket"])}
=============================================================================
