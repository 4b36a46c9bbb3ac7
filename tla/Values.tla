-------------------------------- MODULE Values --------------------------------
(***************************************************************************)
(* The values that cross the driver, each by the call that converts it: the *)
(* text of a query on its way out, with its parameters and the transaction  *)
(* it opens or closes; and on their way in the columns of binary and text   *)
(* rows, and the errors of a server that does not let the client connect.   *)
(* A call is answered in one step; the two variables keep the last one.     *)
(*                                                                         *)
(* What is meant is kept beside what is sent: a query is a sequence of      *)
(* pieces whose kind is known, an error is given with its message.          *)
(***************************************************************************)
EXTENDS SqlText, Conversions, ErrorTexts

CONSTANTS Queries,      \* [pieces, params]: pieces [kind, text], and values
          Numerics,     \* [words, prec, scale]
          Counts,       \* [hi, lo]: 64-bit counts of microseconds
          Months, Zones,
          Timestamps, Dates, Times, IntegerTexts,  \* texts of columns
          Refusals      \* [bytes, meant]: answers of a server, after their type

VARIABLES call, answer
vars == <<call, answer>>

NoCall == [op |-> "none"]
NoAnswer == [op |-> "none"]

ASSUME WordAssumption ==
    /\ Limb \in Nat \ {0} /\ Milli \in Nat \ {0}
    /\ TickQ \in Nat /\ TickR \in Nat
    /\ Word = (TickQ * Milli) + TickR
    /\ Counts \subseteq [hi : Int, lo : Nat]
ASSUME TimeAssumption ==
    /\ Second \in Nat \ {0} /\ Sixty \in Nat \ {0} /\ Dozen \in Nat \ {0}
    /\ Months \subseteq Int /\ Zones \subseteq Int
ASSUME TextAssumption == Timestamps \cup Dates \cup Times \cup IntegerTexts \subseteq Seq(STRING)

Init == call = NoCall /\ answer = NoAnswer

Written(pieces) == FlattenSeq([i \in DOMAIN pieces |-> pieces[i].text])

-----------------------------------------------------------------------------
(* Calls *)

\* The driver writes a query and tracks the transaction; should it fail, it
\* mends what it has tracked.
Query(q) ==
    LET sql == substituteParameters(Written(q.pieces), q.params)
        parsed == ParseTransactionState(sql)
    IN  /\ call' = [op |-> "query", pieces |-> q.pieces, params |-> q.params]
        /\ answer' = [sql |-> sql,
                      tracked |-> [before \in BOOLEAN |-> TrackTransactionState(parsed, before)],
                      mended |-> [before \in BOOLEAN |->
                                      RestoreTransactionStateOnError(parsed, before)]]

ReadNumeric(n) ==
    /\ call' = [op |-> "numeric", words |-> n.words, prec |-> n.prec, scale |-> n.scale]
    /\ answer' = GetCsNumeric(n.words, n.prec, n.scale)

ReadInstant(count) ==
    /\ call' = [op |-> "instant", hi |-> count.hi, lo |-> count.lo]
    /\ answer' = [ms |-> ToDateTimeFrom8Bytes(count.hi, count.lo)]

ReadInterval(count, months) ==
    /\ call' = [op |-> "interval", hi |-> count.hi, lo |-> count.lo, months |-> months]
    /\ answer' = IntervalRecvFloat(count.hi, count.lo, months)

ReadTimetz(count, zone) ==
    /\ call' = [op |-> "timetz", hi |-> count.hi, lo |-> count.lo, zone |-> zone]
    /\ answer' = TimetzOutput(count.hi, count.lo, zone)

ReadText(op, text) ==
    /\ call' = [op |-> op, text |-> text]
    /\ answer' = CASE op = "timestamp" -> ParseTimestampText(text)
                   [] op = "date" -> ParseDateText(text)
                   [] op = "time" -> ParseTimeString(text)
                   [] op = "integer" -> [value |-> ParseBigIntFromBuffer(text)]

ReadRefusal(refusal) ==
    /\ call' = [op |-> "refusal", meant |-> refusal.meant]
    /\ answer' = ThrowHandshakeErrorResponse(refusal.bytes)

Call ==
    \/ \E q \in Queries : Query(q)
    \/ \E n \in Numerics : ReadNumeric(n)
    \/ \E count \in Counts : ReadInstant(count)
    \/ \E count \in Counts, months \in Months : ReadInterval(count, months)
    \/ \E count \in Counts, zone \in Zones : ReadTimetz(count, zone)
    \/ \E text \in Timestamps : ReadText("timestamp", text)
    \/ \E text \in Dates : ReadText("date", text)
    \/ \E text \in Times : ReadText("time", text)
    \/ \E text \in IntegerTexts : ReadText("integer", text)
    \/ \E refusal \in Refusals : ReadRefusal(refusal)

Return == call' = NoCall /\ answer' = NoAnswer

Next ==
    \/ call = NoCall /\ Call
    \/ call # NoCall /\ Return

Spec == Init /\ [][Next]_vars

-----------------------------------------------------------------------------
(* Queries: what the pieces say, and what the server does with them *)

\* The pieces between the semicolons.
StatementsOf(pieces) ==
    LET from[i \in 1 .. Len(pieces) + 1] ==
            IF i > Len(pieces) THEN << <<>> >>
            ELSE IF pieces[i].kind = "semicolon" THEN << <<>> >> \o from[i + 1]
            ELSE << <<pieces[i]>> \o from[i + 1][1] >> \o Tail(from[i + 1])
    IN  from[1]

\* What a statement does is said by its first piece that is not a comment; no
\* statement begins with a value.
Does(statement) ==
    LET said == SelectSeq(statement, LAMBDA p : p.kind # "comment")
    IN  IF said = <<>> THEN "nothing"
        ELSE IF said[1].kind = "keyword" THEN said[1].text[1]
        ELSE IF said[1].kind = "word" THEN "other"
        ELSE "fails"

\* Whether a transaction is open after the first k statements.
Opened(statements, k, before) ==
    LET open[i \in 0 .. k] ==
            IF i = 0 THEN before
            ELSE CASE Does(statements[i]) = "begin" -> TRUE
                   [] Does(statements[i]) = "commit" -> FALSE
                   [] OTHER -> open[i - 1]
    IN  open[k]

\* A body between begin_proc and end_proc is a region to splitStatements only;
\* substituteParameters reads on in it.
PlainBody(text) ==
    "begin_proc" \in ToSet(text) =>
        /\ {"'", "\"", "$"} \cap ToSet(text) = {}
        /\ \A i \in DOMAIN text :
            ~StartsWith(text, <<"-", "-">>, i) /\ ~StartsWith(text, <<"/", "*">>, i)

\* Both scanners end the literal of a string where escapeLiteral has ended it.
\* They skip what follows a backslash, which escapeLiteral does not double.
WholeLiteral(value) ==
    LET literal == EscapeLiteral(value)
    IN  value.type = "string" => LiteralEnd(Append(literal, " "), 1) = Len(literal) + 1

\* No value makes a comment with the minus in front of its placeholder.
MakesComment(pieces, value) ==
    \E i \in DOMAIN pieces \ {1} :
        /\ pieces[i].kind = "placeholder" /\ Last(pieces[i - 1].text) = "-"
        /\ Head(EscapeLiteral(value)) = "-"

\* The queries that substituteParameters, which puts the values in, and
\* splitStatements, which reads the result, see alike.  The comment above
\* splitStatements says that the rules of the two mirror each other; they do not
\* for the rest.
ReadAlike(pieces, params) ==
    params # <<>> =>
        /\ \A i \in DOMAIN pieces : PlainBody(pieces[i].text)
        /\ WholeLiteral(params[1]) /\ ~MakesComment(pieces, params[1])

\* Unless a query with parameters has a body of begin_proc that holds a quote, a
\* dollar sign or a comment, a string with a backslash in front of a quote or of
\* its end, or a negative number behind a minus (ReadAlike): exactly the
\* placeholders between its literals, names, comments and bodies are replaced, and
\* the connection knows of the transaction the query leaves open: precisely when
\* it succeeds, and when it fails at any of its statements at least of each one
\* that is open (NzConnection.inTransaction is set defensively).
QueriesTracked ==
    call.op = "query" /\ ReadAlike(call.pieces, call.params) =>
        LET statements == StatementsOf(call.pieces)
            possible(k) == \A i \in 1 .. k : Does(statements[i]) # "fails"
            value(p) == IF p.kind = "placeholder" /\ call.params # <<>>
                        THEN EscapeLiteral(call.params[1]) ELSE p.text
        IN  /\ answer.sql = FlattenSeq([i \in DOMAIN call.pieces |-> value(call.pieces[i])])
            /\ \A before \in BOOLEAN :
                /\ possible(Len(statements)) =>
                    (answer.tracked[before] <=> Opened(statements, Len(statements), before))
                /\ \A k \in 0 .. Len(statements) - 1 :
                    possible(k) /\ Opened(statements, k, before) => answer.mended[before]

-----------------------------------------------------------------------------
(* Values of rows *)

\* The instant of a timestamp is the millisecond its microseconds fall into, over
\* the whole range of 64 bits and also before 2000.
InstantFloored ==
    call.op = "instant" => answer.ms = ((call.hi * Word) + call.lo) \div Milli

\* The value of the words of a numeric: two's complement, most significant first.
Unscaled(words) ==
    LET n[i \in 0 .. Len(words)] == IF i = 0 THEN 0 ELSE (n[i - 1] * Word) + words[i]
    IN  IF words[1] >= Word \div 2 THEN n[Len(words)] - Word ^ Len(words) ELSE n[Len(words)]

\* A text that says exactly this numeric: all digits of its fraction, and no
\* zero in front of another digit of the integer part.
SaysExactly(text, unscaled, scale) ==
    LET digits == IF unscaled < 0 THEN Tail(text) ELSE text
        point == {i \in DOMAIN digits : digits[i] = "."}
        integer == IF point = {} THEN Len(digits) ELSE Min(point) - 1
    IN  /\ unscaled < 0 => text[1] = "-"
        /\ Cardinality(point) = (IF scale > 0 THEN 1 ELSE 0)
        /\ scale > 0 => Len(digits) - integer - 1 = scale
        /\ integer >= 1 /\ (integer > 1 => digits[1] # "0")
        /\ ExactText(digits).abs = Magnitude(unscaled)

TimeFields(time) == (((time.hours * Sixty) + time.minutes) * Sixty) + time.seconds

\* A numeric is a number only if the number is written as the exact text is, and
\* is that text otherwise; safe and wide values take different paths to it, and
\* the text of a text row a third one.
NumericExact ==
    call.op = "numeric" =>
        LET unscaled == Unscaled(call.words)
        IN  IF answer.type = "text"
            THEN /\ SaysExactly(answer.text, unscaled, call.scale)
                 /\ ParseNumericText(answer.text, call.prec) = answer
            ELSE /\ answer.unscaled = unscaled /\ answer.scale = call.scale
                 /\ call.prec <= NumberDigits
                 /\ RoundTrips(FormatNumeric(Decimal[Magnitude(unscaled)], unscaled < 0, call.scale))

\* An interval can be put together again from its parts, unless they are negative.
IntervalExact ==
    call.op = "interval" /\ call.hi >= 0 /\ call.months >= 0 =>
        /\ (answer.years * Dozen) + answer.mons = call.months /\ answer.mons \in 0 .. Dozen - 1
        /\ (TimeFields(answer.time) * Second) + answer.time.microseconds = (call.hi * Word) + call.lo
        /\ answer.time.minutes \in 0 .. Sixty - 1 /\ answer.time.seconds \in 0 .. Sixty - 1
        /\ answer.time.microseconds \in 0 .. Second - 1

\* The zone of a time is the offset the server counts westward.
ZoneExact ==
    call.op = "timetz" =>
        TimeFields(answer) * (IF answer.sign = "-" THEN 1 ELSE -1) = call.zone

\* Numerics, intervals, times of day and zones: nothing is lost between the words
\* of a row and what the caller is given.
ValuesExact == NumericExact /\ IntervalExact /\ ZoneExact

\* The short ways through the texts of plain dates, times and integers come to
\* the result of the general ones, or leave the text to them.
ShortcutsAgree ==
    /\ call.op = "timestamp" => answer = NormalizeTimestampText(call.text)
    /\ call.op = "date" =>
        answer = (IF Shape(Trim(call.text)) = DateShape THEN NormalizeTimestampText(call.text) ELSE NaN)
    /\ call.op = "time" => answer = GeneralTime(call.text)
    /\ call.op = "integer" => answer.value = SlowBigInt(call.text)

\* A server's error comes out as an error of the database with its message, as a
\* frame or as text; and what only looks like one, a frame of an impossible
\* length or an empty frame in front of another message, is an error of the
\* protocol, after which the connection is not used again.
RefusalsTold ==
    call.op = "refusal" =>
        IF call.meant.kind = "database"
        THEN answer.kind = "database" /\ answer.error.message = call.meant.message
             /\ answer.error.code = call.meant.code
        ELSE answer.kind = call.meant.kind
=============================================================================
