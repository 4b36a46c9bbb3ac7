-------------------------------- MODULE SqlText --------------------------------
(***************************************************************************)
(* What the driver reads in the text of a query: where the statements end, *)
(* whether they open or close a transaction (NzConnection), and where the   *)
(* parameters $1, $2 ... stand (sqlParameters).  A text is a sequence of    *)
(* symbols, each a character or a word; two words without anything between  *)
(* them are one longer word to the code.                                    *)
(***************************************************************************)
EXTENDS Integers, Sequences, SequencesExt, FiniteSetsExt

CONSTANT Words      \* the symbols made of letters, digits and underscores

Numbers == [n \in {"0", "1", "2"} |-> CASE n = "0" -> 0 [] n = "1" -> 1 [] n = "2" -> 2]
Digits == DOMAIN Numbers
Spaces == {" ", "\n"}
WordChars == Words \cup Digits

\* The symbol at i, or none behind the end.
At(sql, i) == IF i \in DOMAIN sql THEN sql[i] ELSE "none"

StartsWith(sql, part, i) ==
    i + Len(part) <= Len(sql) + 1 /\ SubSeq(sql, i, i + Len(part) - 1) = part

\* Where a search for part from i on stops: behind it, or at the end.
EndOf(sql, part, i) ==
    LET found == {j \in i .. Len(sql) : StartsWith(sql, part, j)}
    IN  IF found = {} THEN Len(sql) + 1 ELSE Min(found) + Len(part)

\* The opening $$ or $tag$ of a body at i; a tag does not begin with a digit.
DollarTag(sql, i) ==
    LET closing == {j \in i + 1 .. Len(sql) :
                        sql[j] = "$" /\ \A k \in i + 1 .. j - 1 : sql[k] \in WordChars}
    IN  IF closing = {} \/ At(sql, i + 1) \in Digits THEN <<>>
        ELSE SubSeq(sql, i, Min(closing))

-----------------------------------------------------------------------------
(* splitStatements *)

\* Behind the quoted region that starts at i: a doubled quote belongs to it, and
\* in a literal what follows a backslash.
QuotedEnd(sql, i) ==
    LET quote == sql[i]
        end[j \in Nat] ==
            IF j > Len(sql) THEN j
            ELSE IF quote = "'" /\ sql[j] = "\\" /\ j < Len(sql) THEN end[j + 2]
            ELSE IF sql[j] # quote THEN end[j + 1]
            ELSE IF At(sql, j + 1) = quote THEN end[j + 2]
            ELSE j + 1
    IN  end[i + 1]

\* A whole word begin_proc starts the body of a routine, a whole word end_proc
\* ends it.
StartsBody(sql, i) ==
    /\ sql[i] = "begin_proc"
    /\ At(sql, i - 1) \notin WordChars \cup {"$"} /\ At(sql, i + 1) \notin WordChars

BodyEnd(sql, i) ==
    LET ends == {j \in i .. Len(sql) :
                    sql[j] = "end_proc" /\ At(sql, j - 1) \notin WordChars
                                        /\ At(sql, j + 1) \notin WordChars}
    IN  IF ends = {} THEN Len(sql) + 1 ELSE Min(ends) + 1

\* A line comment ends before its line feed.
LineEnd(sql, i) ==
    LET feeds == {j \in i .. Len(sql) : sql[j] = "\n"}
    IN  IF feeds = {} THEN Len(sql) + 1 ELSE Min(feeds)

\* Behind the region at i that is no SQL, or i where there is none.
BlankedEnd(sql, i) ==
    CASE sql[i] \in {"'", "\""} -> QuotedEnd(sql, i)
      [] StartsBody(sql, i) -> BodyEnd(sql, i)
      [] sql[i] = "$" /\ DollarTag(sql, i) # <<>> ->
            EndOf(sql, DollarTag(sql, i), i + Len(DollarTag(sql, i)))
      [] StartsWith(sql, <<"-", "-">>, i) -> LineEnd(sql, i)
      [] StartsWith(sql, <<"/", "*">>, i) -> EndOf(sql, <<"*", "/">>, i + 2)
      [] OTHER -> i

\* Mutant of splitStatements: it splits at every semicolon.
SplitAnywhere(sql) ==
    LET begun(symbol, statements) ==
            << <<symbol>> \o statements[1] >> \o Tail(statements)
        from[i \in 1 .. Len(sql) + 1] ==
            IF i > Len(sql) THEN << <<>> >>
            ELSE IF sql[i] = ";" THEN << <<>> >> \o from[i + 1]
            ELSE begun(sql[i], from[i + 1])
    IN  from[1]

\* The statements of a text, each region that is no SQL replaced by a blank.
splitStatements(sql) ==
    LET begun(symbol, statements) ==
            << <<symbol>> \o statements[1] >> \o Tail(statements)
        \* the statements from i on, the first one without what it has before i
        from[i \in 1 .. Len(sql) + 1] ==
            IF i > Len(sql) THEN << <<>> >>
            ELSE IF BlankedEnd(sql, i) > i THEN begun(" ", from[BlankedEnd(sql, i)])
            ELSE IF sql[i] = ";" THEN << <<>> >> \o from[i + 1]
            ELSE begun(sql[i], from[i + 1])
    IN  from[1]

-----------------------------------------------------------------------------
(* _parseTransactionState, _trackTransactionState,                         *)
(* _restoreTransactionStateOnError                                          *)

\* Without the blanks in front of it.
Trimmed(statement) ==
    LET text == {i \in DOMAIN statement : statement[i] \notin Spaces}
    IN  IF text = {} THEN <<>> ELSE SubSeq(statement, Min(text), Len(statement))

Keyword(text) == IF At(text, 2) \in WordChars THEN "none" ELSE At(text, 1)

\* The last boundary of a transaction in the text, and whether one is opened.
ParseTransactionState(sql) ==
    LET read(seen, statement) ==
            CASE Keyword(Trimmed(statement)) = "begin" -> [state |-> "open", hadStart |-> TRUE]
              [] Keyword(Trimmed(statement)) = "commit" -> [seen EXCEPT !.state = "closed"]
              [] OTHER -> seen
    IN  FoldLeft(read, [state |-> "none", hadStart |-> FALSE], splitStatements(sql))

\* What is believed of the transaction of a text that has been parsed, before it
\* is sent and when it has failed.
TrackTransactionState(parsed, inTransaction) ==
    IF parsed.state = "none" THEN inTransaction ELSE parsed.state = "open"

RestoreTransactionStateOnError(parsed, before) ==
    CASE parsed.state = "closed" -> before \/ parsed.hadStart
      [] parsed.state = "none" -> before
      [] parsed.state = "open" -> TRUE

-----------------------------------------------------------------------------
(* escapeLiteral, substituteParameters *)

\* A parameter is a string of symbols, a number that is written as they say, or
\* one of the values with a fixed text.
EscapeLiteral(value) ==
    CASE value.type = "null" -> <<"null">>
      [] value.type = "number" -> value.text
      [] value.type = "string" ->
            LET doubled[i \in 0 .. Len(value.text)] ==
                    IF i = 0 THEN <<"'">>
                    ELSE doubled[i - 1] \o (IF value.text[i] = "'" THEN <<"'", "'">>
                                            ELSE <<value.text[i]>>)
            IN  Append(doubled[Len(value.text)], "'")

LiteralEnd(sql, i) ==
    LET end[j \in Nat] ==
            IF j > Len(sql) THEN j
            ELSE IF sql[j] = "\\" /\ j < Len(sql) THEN end[j + 2]
            ELSE IF sql[j] # "'" THEN end[j + 1]
            ELSE IF At(sql, j + 1) = "'" THEN end[j + 2]
            ELSE j + 1
    IN  end[i + 1]

IdentifierEnd(sql, i) ==
    LET end[j \in Nat] ==
            IF j > Len(sql) THEN j
            ELSE IF sql[j] = "\"" /\ At(sql, j + 1) = "\"" THEN end[j + 2]
            ELSE IF sql[j] = "\"" THEN j + 1
            ELSE end[j + 1]
    IN  end[i + 1]

\* Behind the region at i that is copied as it is, or i where there is none.
KeptEnd(sql, i) ==
    CASE StartsWith(sql, <<"-", "-">>, i) -> EndOf(sql, <<"\n">>, i + 2)
      [] StartsWith(sql, <<"/", "*">>, i) -> EndOf(sql, <<"*", "/">>, i + 2)
      [] sql[i] = "'" -> LiteralEnd(sql, i)
      [] sql[i] = "\"" -> IdentifierEnd(sql, i)
      [] sql[i] = "$" /\ DollarTag(sql, i) # <<>> ->
            EndOf(sql, DollarTag(sql, i), i + Len(DollarTag(sql, i)))
      [] OTHER -> i

\* Behind the digits of a placeholder at i, or i where there is none.
PlaceholderEnd(sql, i) ==
    LET behind == {j \in i + 1 .. Len(sql) + 1 : At(sql, j) \notin Digits}
    IN  IF sql[i] = "$" /\ Min(behind) > i + 1 THEN Min(behind) ELSE i

\* The number of a placeholder written in the digits.
Ordinal(digits) ==
    LET n[i \in 0 .. Len(digits)] == IF i = 0 THEN 0 ELSE (10 * n[i - 1]) + Numbers[digits[i]]
    IN  n[Len(digits)]

\* A placeholder without a parameter stays.
substituteParameters(sql, params) ==
    LET value(i, end) ==
            IF Ordinal(SubSeq(sql, i + 1, end - 1)) \in DOMAIN params
            THEN EscapeLiteral(params[Ordinal(SubSeq(sql, i + 1, end - 1))])
            ELSE SubSeq(sql, i, end - 1)
        from[i \in 1 .. Len(sql) + 1] ==
            IF i > Len(sql) THEN <<>>
            ELSE IF KeptEnd(sql, i) > i
            THEN SubSeq(sql, i, KeptEnd(sql, i) - 1) \o from[KeptEnd(sql, i)]
            ELSE IF PlaceholderEnd(sql, i) > i
            THEN value(i, PlaceholderEnd(sql, i)) \o from[PlaceholderEnd(sql, i)]
            ELSE <<sql[i]>> \o from[i + 1]
    IN  IF params = <<>> THEN sql ELSE from[1]
=============================================================================
