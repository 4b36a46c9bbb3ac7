------------------------------ MODULE ErrorTexts ------------------------------
(***************************************************************************)
(* How an error of the server is read while a connection is set up          *)
(* (Handshake), where it may come as a frame or as bare text, and what is   *)
(* found in its body (NzDatabaseError).  Responses are sequences of bytes,  *)
(* read after the type byte of the message.                                 *)
(***************************************************************************)
EXTENDS Integers, Sequences, SequencesExt, FiniteSetsExt

CONSTANTS MaxLegacyErrorTextBytes, MinLegacyErrorTextChars, MaxPayload

ASSUME ErrorTextAssumption ==
    /\ MaxLegacyErrorTextBytes \in Nat \ {0} /\ MinLegacyErrorTextChars \in Nat \ {0}
    /\ MaxPayload \in Nat

None == [found |-> FALSE]

\* Mutant of IsPrintableAscii: every byte that is no control byte will do.
IsNoControl(byte) == byte >= 32

IsPrintableAscii(byte) == byte >= 32 /\ byte <= 126

IsLegacyErrorTextByte(byte) ==
    IF byte >= 32 THEN byte # 127 ELSE byte \in {9, 10, 13}

Int32BE(d) ==
    (((IF d[1] > 127 THEN d[1] - 256 ELSE d[1]) * 256 + d[2]) * 256 + d[3]) * 256 + d[4]

\* A text up to its NUL, from position i of what has arrived, after the bytes
\* that have been read of it already. Too long, too short, with a byte no text
\* has or without an end it is none.
ReadLegacyErrorText(arrived, i, minChars, initialBytes) ==
    LET stops == {j \in i .. Len(arrived) : ~IsLegacyErrorTextByte(arrived[j])}
        text == initialBytes \o SubSeq(arrived, i, Min(stops) - 1)
    IN  IF stops = {} THEN None
        ELSE IF arrived[Min(stops)] # 0 THEN None
        ELSE IF Len(text) > MaxLegacyErrorTextBytes \/ Len(text) < minChars THEN None
        ELSE [found |-> TRUE, text |-> text]

\* Bare text, which the length read is the beginning of, or text after a length
\* of zero.
ReadLegacyConnectionErrorText(arrived) ==
    LET lenBuf == SubSeq(arrived, 1, 4)
        rest == ReadLegacyErrorText(arrived, 5, 0, <<>>)
    IN  IF \A i \in 1 .. 4 : IsPrintableAscii(lenBuf[i])
        THEN IF rest.found THEN [found |-> TRUE, text |-> lenBuf \o rest.text] ELSE None
        ELSE IF Int32BE(lenBuf) # 0 THEN None
        ELSE IF Len(arrived) < 5 THEN None
        ELSE IF arrived[5] = 0 THEN [found |-> TRUE, text |-> <<>>]
        ELSE IF ~IsLegacyErrorTextByte(arrived[5]) THEN None
        ELSE ReadLegacyErrorText(arrived, 6, MinLegacyErrorTextChars, <<arrived[5]>>)

ValidateProtocolLengthAfterOverhead(length, overhead) ==
    /\ length > 0 /\ length <= MaxPayload
    /\ length >= overhead

-----------------------------------------------------------------------------
(* parseBackendErrorFields *)

TrimmedText(text) ==
    LET kept == {i \in DOMAIN text : text[i] \notin {9, 10, 13, 32}}
    IN  IF kept = {} THEN <<>> ELSE SubSeq(text, Min(kept), Max(kept))

\* The fields of a structured body, by their code: up to a NUL for a code, and
\* of two fields with one code the last.
Fields(body) ==
    LET endOf(i) == Min({j \in i .. Len(body) + 1 : j > Len(body) \/ body[j] = 0})
        from[i \in Nat] ==
            IF i > Len(body) THEN <<>>
            ELSE IF body[i] = 0 THEN <<>>
            ELSE << [field |-> body[i], value |-> SubSeq(body, i + 1, endOf(i + 1) - 1)] >>
                 \o from[endOf(i + 1) + 1]
    IN  from[1]

FieldOf(fields, code) ==
    LET with == {i \in DOMAIN fields : fields[i].field = code}
    IN  IF with = {} THEN None ELSE [found |-> TRUE, text |-> fields[Max(with)].value]

SeverityCode == 86      \* V, not localized
LocalSeverityCode == 83 \* S
SqlStateCode == 67      \* C
MessageCode == 77       \* M

ParseBackendErrorFields(body) ==
    LET structured == Cardinality({i \in DOMAIN body : body[i] = 0}) >= 2
        fields == IF structured THEN Fields(body) ELSE <<>>
        primary == FieldOf(fields, MessageCode)
        whole == TrimmedText(SelectSeq(body, LAMBDA b : b # 0))
    IN  [code |-> FieldOf(fields, SqlStateCode),
         severity |-> IF FieldOf(fields, SeverityCode).found THEN FieldOf(fields, SeverityCode)
                      ELSE FieldOf(fields, LocalSeverityCode),
         message |-> IF primary.found /\ primary.text # <<>> THEN primary.text ELSE whole]

\* What the attempt to connect fails with: the socket, the protocol, or an error
\* of the database.
ThrowHandshakeErrorResponse(arrived) ==
    LET legacy == ReadLegacyConnectionErrorText(arrived)
        length == Int32BE(SubSeq(arrived, 1, 4))
    IN  IF Len(arrived) < 4 THEN [kind |-> "socket"]
        ELSE IF legacy.found
        THEN [kind |-> "database", error |-> ParseBackendErrorFields(legacy.text)]
        ELSE IF ~ValidateProtocolLengthAfterOverhead(length, 4) THEN [kind |-> "protocol"]
        ELSE IF Len(arrived) < length THEN [kind |-> "socket"]
        ELSE [kind |-> "database",
              error |-> ParseBackendErrorFields(SubSeq(arrived, 5, length))]
=============================================================================
