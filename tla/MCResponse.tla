------------------------------ MODULE MCResponse ------------------------------
(* Responses with rows as text, as binary rows, with both kinds of malformed *)
(* rows, bad lengths, two result sets, and frames that carry no rows.        *)
EXTENDS Response, Backend

int(n) == <<"int", n>>
text(s) == <<"text", s>>

TextRows == <<<<int(7), text(<<65, 233, 66>>)>>, <<Null, text(<<39, 67>>)>>, <<int(-120), Null>>>>
TextColumns == RowDescription(<<OidInt4, OidText>>)
ShortRows == [i \in 1 .. 5 |-> <<int(i)>>]

BinaryLayout ==
    [nullsAllowed |-> 1, numVarying |-> 2, fixedFieldsSize |-> 10,
     fields |-> << [type |-> NzTypeInt, size |-> 4, trueSize |-> 4, offset |-> 4, phys |-> 0, fixedSize |-> 4],
                   [type |-> NzTypeVarChar, size |-> 8, trueSize |-> 8, offset |-> 0, phys |-> 1, fixedSize |-> 0],
                   [type |-> NzTypeInt2, size |-> 2, trueSize |-> 2, offset |-> 8, phys |-> 2, fixedSize |-> 2],
                   [type |-> NzTypeNVarChar, size |-> 8, trueSize |-> 8, offset |-> 1, phys |-> 3, fixedSize |-> 0] >>]
BinaryRows ==
    << <<int(-2), text(<<228>>), int(-1), text(<<228, 65>>)>>,
       <<int(2147483647), Null, Null, text(<<>>)>>,
       <<Null, text(<<65, 66>>), int(258), Null>> >>
BinaryFrame(row) == RowStandard(StandardRow(BinaryLayout, row))

FixedLayout ==
    [nullsAllowed |-> 0, numVarying |-> 0, fixedFieldsSize |-> 16,
     fields |-> << [type |-> NzTypeBool, size |-> 1, trueSize |-> 1, offset |-> 2, phys |-> 0, fixedSize |-> 1],
                   [type |-> NzTypeChar, size |-> 4, trueSize |-> 4, offset |-> 4, phys |-> 1, fixedSize |-> 4],
                   [type |-> NzTypeNumeric, size |-> 2562, trueSize |-> 0, offset |-> 8, phys |-> 2, fixedSize |-> 8] >>]
FixedRows ==
    << <<<<"bool", TRUE>>, text(<<65, 32, 66>>), <<"bytes", <<0, 0, 0, 0, 57, 48, 0, 0>>>>>>,
       <<<<"bool", FALSE>>, text(<<>>), <<"bytes", <<255, 255, 255, 255, 199, 207, 255, 255>>>>>> >>
FixedFrame(row) == RowStandard(StandardRow(FixedLayout, row))

Texts(rs) == [i \in DOMAIN rs |-> DataRow(rs[i])]
\* The first varying field claims to be longer than the row.
Overlong == [StandardRow(BinaryLayout, BinaryRows[1]) EXCEPT ![11] = 99]
\* A row of text whose first value claims to be longer than the payload.
Overrun == Frame(68, [DataRowPayload(TextRows[1]) EXCEPT ![5] = 99])

MCResponses ==
    { Response(<<TextColumns>> \o Texts(TextRows) \o <<CommandComplete, ReadyForQuery>>, TextRows),
       Response(<<RowDescription(<<OidInt4>>)>> \o Texts(ShortRows)
                \o <<CommandComplete, TextColumns>> \o Texts(SubSeq(TextRows, 1, 1))
                \o <<CommandComplete, ReadyForQuery>>, ShortRows \o SubSeq(TextRows, 1, 1)),
       Response(<<Descriptor(BinaryLayout)>> \o [i \in 1 .. 3 |-> BinaryFrame(BinaryRows[i])]
                \o <<CommandComplete, ReadyForQuery>>, BinaryRows),
       Response(<<Descriptor(FixedLayout)>> \o [i \in 1 .. 2 |-> FixedFrame(FixedRows[i])]
                \o <<CommandComplete, Bare(76)>>, FixedRows),
       Response(<<Descriptor(BinaryLayout), BinaryFrame(BinaryRows[2]), RowStandard(Overlong), ReadyForQuery>>,
                SubSeq(BinaryRows, 2, 2)),
       Response(<<TextColumns, DataRow(TextRows[2]), Overrun, ReadyForQuery>>, SubSeq(TextRows, 2, 2)),
       Response(<<TextColumns, <<68>> \o Zeros(4) \o Word(-1), ReadyForQuery>>, <<>>),
       Response(<<Notice, Bare(48), Zeros(1), Zeros(1), Frame(80, <<1, 2>>), Bare(65), Frame(87, <<>>),
                  ErrorResponse, ReadyForQuery>>, <<>>),
       Response(<<Frame(84, <<0, 1, 97, 97>>), ReadyForQuery>>, <<>>),
       Response(<<Frame(88, Zeros(40)), ReadyForQuery>>, <<>>) }

\* What is known of a response behind each frame, from what is known before it.
KnownBehind(r, at, known) ==
    LET type == Byte(r.bytes, at)
        base == at + HeaderSize(type)
        end == at + FrameSize(r.bytes, at)
        columns == ParseRowDescription(Slice(r.bytes, base, end))
        binary == ParseDescriptor(Slice(r.bytes, base, end), known.description)
    IN  CASE HeaderSize(type) <= 5 \/ PayloadLength(r.bytes, at) < 0 -> known
          [] type = CodeT -> [known EXCEPT !.description = columns]
          [] type = CodeX -> [known EXCEPT !.layout = binary]
          [] type \in {CodeD, CodeY} /\ known.rows < Len(r.rows) -> [known EXCEPT !.rows = @ + 1]
          [] OTHER -> known
MCKnown(r, at) ==
    LET starts == {0} \cup r.ends
        before(e) == CHOOSE s \in starts : s < e /\ \A t \in starts : t < e => t <= s
        known[e \in starts] ==
            IF e = 0 THEN [description |-> Malformed, layout |-> Malformed, rows |-> 0]
            ELSE KnownBehind(r, before(e), known[before(e)])
    IN  known[at]
=============================================================================
