------------------------------- MODULE Response -------------------------------
(***************************************************************************)
(* One response of the server, from the socket to the caller's rows:       *)
(* _responseGenerator reads frames out of the read buffer, decodes rows    *)
(* one at a time and, while their bytes are at hand, in batches; the       *)
(* caller takes rows from the batch or asks the generator for the next     *)
(* item, and may close the reader, after which rows are skipped by their   *)
(* length.  Bytes arrive in pieces of any size.                            *)
(* What the generator does between two awaits is one step.  Frames of      *)
(* external tables are the subject of ExternalTable.                       *)
(***************************************************************************)
EXTENDS ReadBuffer, RowFormats, FiniteSets, SequencesExt


CONSTANTS
    Responses,      \* what the server may answer: records of the bytes, the
                    \* ends of the frames, the rows up to the first frame that
                    \* is malformed, and the length of the longest frame
    Known(_, _),    \* what the frames of a response have told up to an offset:
                    \* the columns, the layout, and how many rows
    ChunkSizes,     \* how many bytes arrive at a time
    HighWater,      \* bytes the socket holds before it stops taking more
    MaxPayload      \* MAX_PROTOCOL_PAYLOAD

VARIABLES
    response,       \* one of Responses
    arrived,        \* how many of its bytes have arrived
    stream,         \* bytes the socket holds
    buf,            \* the read buffer
    ctl,            \* where the generator is: the frame's type and length, and
                    \* bytes still to discard or collected outside the buffer
    description,    \* _rowDescription
    layout,         \* _tupdesc
    batch,          \* rows of _batchRowCache not taken yet
    discardRows,
    reader,         \* what the caller does
    rows            \* rows the caller has been given

vars == <<response, arrived, stream, buf, ctl, description, layout, batch,
          discardRows, reader, rows>>

Sent == response.bytes
Over == {"done", "failed"}

\* Message types, BackendMessageCode.
CodeY == 89
CodeD == 68
CodeT == 84
CodeX == 88
CodeC == 67
CodeE == 69
CodeN == 78
Ready == {90, 76}
Control == {48, 65}

\* How a frame of the protocol begins, and how long it is.
HeaderSize(type) ==
    CASE type = 0 -> 1
      [] type \in Ready \cup Control -> 5
      [] type = CodeY -> 13
      [] OTHER -> 9

PayloadLength(d, at) == Int32BE(d, at + HeaderSize(Byte(d, at)) - 4)

FrameSize(d, at) ==
    HeaderSize(Byte(d, at)) + IF HeaderSize(Byte(d, at)) > 5 THEN PayloadLength(d, at) ELSE 0

\* From its first byte to its end a response consists of frames, of which the
\* last one and no other says that it is over; one whose length is negative has
\* no end.
WellFramed(r) ==
    /\ r.bytes \in Seq(0 .. 255)
    /\ r.ends \subseteq 0 .. Len(r.bytes) /\ r.finish \in r.ends \ {0}
    /\ \A at \in ({0} \cup r.ends) \ {r.finish} :
        LET type == Byte(r.bytes, at)
            size == FrameSize(r.bytes, at)
        IN  /\ at + HeaderSize(type) <= Len(r.bytes) /\ HeaderSize(type) <= r.longest
            /\ \/ HeaderSize(type) > 5 /\ PayloadLength(r.bytes, at) < 0
               \/ /\ at + size \in r.ends /\ size <= r.longest
                  /\ (at + size = r.finish <=> type \in Ready)

\* The row in the data from offset at up to end.
RowOf(code, data, at, end, columns, binary) ==
    IF code = CodeD THEN ParseDataRow(Slice(data, at, end), columns)
    ELSE IF end = at THEN Malformed
    ELSE ParseDbosRowInPlace(data, at, end, binary)

\* What the frame at this offset adds to what is known of the response, or that
\* no row follows because it is the last one or is malformed.  Binary rows come
\* behind their layout, their fields lie within them, and no frame is longer
\* than the driver takes.
Tells(r, at) ==
    LET type == Byte(r.bytes, at)
        known == Known(r, at)
        base == at + HeaderSize(type)
        end == at + FrameSize(r.bytes, at)
        columns == ParseRowDescription(Slice(r.bytes, base, end))
        binary == ParseDescriptor(Slice(r.bytes, base, end), known.description)
        isRow == type \in {CodeD, CodeY}
        row == RowOf(type, r.bytes, base, end, known.description, known.layout)
        sound == /\ HeaderSize(type) > 5 => PayloadLength(r.bytes, at) >= 0
                 /\ type = CodeT => columns.ok
                 /\ type = CodeX => binary.ok
                 /\ isRow => row.ok
    IN  /\ HeaderSize(type) > 5 => PayloadLength(r.bytes, at) <= MaxPayload
        /\ type = CodeY => known.layout.ok
        /\ IF type \in Ready \/ ~sound THEN known.rows = Len(r.rows)
           ELSE /\ isRow => known.rows < Len(r.rows) /\ r.rows[known.rows + 1] = row.row
                /\ type = CodeY => RowWithin(r.bytes, base, end, known.layout)
                /\ Known(r, end) =
                    [description |-> IF type = CodeT THEN columns ELSE known.description,
                     layout |-> IF type = CodeX THEN binary ELSE known.layout,
                     rows |-> IF isRow THEN known.rows + 1 ELSE known.rows]

\* The rows of a response are what its frames decode to, one after the other.
RowsTold(r) ==
    /\ r.rows \in Seq({r.rows[i] : i \in DOMAIN r.rows})
    /\ Known(r, 0) = [description |-> Malformed, layout |-> Malformed, rows |-> 0]
    /\ \A at \in ({0} \cup r.ends) \ {r.finish} : Tells(r, at)

ASSUME ResponsesAssumption == \A r \in Responses : r.longest \in Nat /\ WellFramed(r) /\ RowsTold(r)
ASSUME SizesAssumption == HighWater \in Nat /\ Garbage \in 0 .. 255

ToType == [at |-> "type", type |-> 0, len |-> 0, left |-> 0, held |-> <<>>]

Init ==
    /\ response \in Responses
    /\ arrived = 0 /\ stream = <<>> /\ buf = NewBuffer
    /\ ctl = ToType
    /\ description = Malformed /\ layout = Malformed
    /\ batch = <<>> /\ discardRows = FALSE
    /\ reader = "reading" /\ rows = <<>>

-----------------------------------------------------------------------------
(* The socket *)

Running == reader \in {"reading", "closing"}

\* Bytes needed in the buffer before the generator goes on.
Need ==
    CASE ctl.at = "type" -> 1
      [] ctl.at \in {"header", "length"} -> 4
      [] ctl.at = "rowHead" -> 8
      [] ctl.at = "row" -> 8 + ctl.len
      [] ctl.at = "payload" -> ctl.len
      [] OTHER -> 0

HasBytes == Buffered(buf) >= Need
\* A payload larger than the buffer is collected outside of it.
TooLarge == ctl.at = "payload" /\ ctl.len > Capacity(buf)
\* Mutant of Serving: the next frame overwrites the batch.
ServingNever == FALSE
Serving == ctl.at = "type" /\ batch # <<>>
Collecting == ctl.at \in {"collect", "discard"}

\* The generator stands still and reads the socket, or waits for 'readable'.
Starved == Running /\ ~Serving /\ (Collecting \/ (~HasBytes /\ ~TooLarge))

Arrive ==
    /\ Starved \/ reader = "idle"
    /\ \E n \in ChunkSizes \cup {Len(Sent) - arrived} :
        /\ n \in 1 .. Len(Sent) - arrived
        /\ Len(stream) + n <= HighWater
        /\ arrived' = arrived + n
    /\ stream' = stream \o SubSeq(Sent, arrived + 1, arrived')
    /\ UNCHANGED <<response, buf, ctl, description, layout, batch, discardRows, reader, rows>>

\* stream.read() returns all the socket holds, which goes into the buffer.
Pull ==
    /\ Starved /\ ~Collecting /\ stream # <<>>
    /\ buf' = AppendChunk(Reserve(buf, Need), stream)
    /\ stream' = <<>>
    /\ UNCHANGED <<response, arrived, ctl, description, layout, batch, discardRows, reader, rows>>

-----------------------------------------------------------------------------
(* What the generator hands on *)

Fault == reader' = "failed" /\ UNCHANGED <<ctl, batch, rows>>

\* The next frame, or first an item for the caller, unless it is closing and
\* lets the items go.
NextFrame == ctl' = ToType /\ UNCHANGED reader
Yield == ctl' = ToType /\ reader' = IF reader = "reading" THEN "idle" ELSE reader

YieldRow(row) == Yield /\ rows' = IF reader = "reading" THEN Append(rows, row) ELSE rows

ValidLength(n) == n >= 0 /\ n <= MaxPayload

\* A row cannot be decoded before its columns are described.
DataRowAt(d) == ParseDataRow(d, description)

\* A complete row in the data of the buffer.
RowAt(code, data, at, end) == RowOf(code, data, at, end, description, layout)

\* The rows from offset at on and the offset of what follows them, from being
\* the same for the offsets behind it. headed is the length of a frame without
\* its row.
RowsFrom(b, code, headed, at, from) ==
    LET len == Int32BE(b.data, at + headed - 4)
        end == at + headed + len
        row == RowAt(code, b.data, at + headed, end)
        none == [rows |-> <<>>, at |-> at]
    IN  IF at + headed > b.end THEN none
        ELSE IF Byte(b.data, at) # code \/ len < 0 \/ end > b.end THEN none
        ELSE IF ~row.ok THEN none
        ELSE [rows |-> <<row.row>> \o from[end].rows, at |-> from[end].at]

\* The complete frames of rows in the buffer, decoded; a malformed one stays.
Batch(b, code, headed) ==
    LET rowsFrom[at \in b.start .. b.end] == RowsFrom(b, code, headed, at, rowsFrom)
    IN  rowsFrom[b.start]

\* _tryReadDataRowBatch
DataRowBatch(b) == Batch(b, CodeD, 9)
\* _tryReadDbosBatch
DbosBatch(b) == Batch(b, CodeY, 13)

\* Where the complete frames of rows from offset at on end, or that one of them
\* has a length that is not valid.
SkipFrom(b, code, headed, at, from) ==
    LET len == Int32BE(b.data, at + headed - 4)
        end == at + headed + len
    IN  IF at + headed > b.end THEN [ok |-> TRUE, at |-> at]
        ELSE IF Byte(b.data, at) # code THEN [ok |-> TRUE, at |-> at]
        ELSE IF ~ValidLength(len) \/ (code = CodeY /\ len = 0) THEN [ok |-> FALSE, at |-> at]
        ELSE IF end > b.end THEN [ok |-> TRUE, at |-> at]
        ELSE from[end]

AfterBuffered(b, code, headed) ==
    LET skipFrom[at \in b.start .. b.end] == SkipFrom(b, code, headed, at, skipFrom)
    IN  skipFrom[b.start]

\* After a row has been skipped: those behind it in the buffer b.
Discarded(b) ==
    LET r == AfterBuffered(b, ctl.type, IF ctl.type = CodeY THEN 13 ELSE 9)
    IN  /\ buf' = [b EXCEPT !.start = r.at]
        /\ IF r.ok THEN NextFrame /\ UNCHANGED <<batch, rows>> ELSE Fault

-----------------------------------------------------------------------------
(* The frames *)

\* Rows of the batch come first.
ServeBatch ==
    /\ Running /\ Serving
    /\ YieldRow(Head(batch))
    /\ batch' = Tail(batch)
    /\ UNCHANGED <<response, arrived, stream, buf, description, layout, discardRows>>

\* Zero bytes between frames are skipped.
ReadType ==
    /\ Running /\ ctl.at = "type" /\ ~Serving /\ HasBytes
    /\ LET type == Byte(buf.data, buf.start)
       IN  ctl' = IF type = 0 THEN ctl ELSE [ctl EXCEPT !.at = "header", !.type = type]
    /\ buf' = Skip(buf, 1)
    /\ UNCHANGED <<response, arrived, stream, description, layout, batch, discardRows, reader, rows>>

SkipHeader ==
    /\ Running /\ ctl.at = "header" /\ HasBytes
    /\ LET rest == Skip(buf, 4)
       IN  \/ /\ ctl.type \in Ready
              /\ buf' = ShrinkReadBuffer(rest)
              /\ ctl' = ToType /\ reader' = "done"
           \/ /\ ctl.type \in Control
              /\ buf' = rest
              /\ NextFrame
           \/ /\ ctl.type \notin Ready \cup Control
              /\ buf' = rest
              /\ ctl' = [ctl EXCEPT !.at = IF ctl.type = CodeY THEN "rowHead" ELSE "length"]
              /\ UNCHANGED reader
    /\ UNCHANGED <<response, arrived, stream, description, layout, batch, discardRows, rows>>

\* Mutant of Discard: the bytes the buffer had are counted again.
DiscardAnew(b, n) ==
    IF Buffered(b) >= n THEN Discarded(Skip(b, n))
    ELSE /\ buf' = Emptied(b)
         /\ ctl' = [ctl EXCEPT !.at = "discard", !.left = n]
         /\ UNCHANGED <<batch, reader, rows>>

\* _discardBytes, n bytes of a row.
Discard(b, n) ==
    IF Buffered(b) >= n THEN Discarded(Skip(b, n))
    ELSE /\ buf' = Emptied(b)
         /\ ctl' = [ctl EXCEPT !.at = "discard", !.left = n - Buffered(b)]
         /\ UNCHANGED <<batch, reader, rows>>

ReadLength ==
    /\ Running /\ ctl.at = "length" /\ HasBytes
    /\ LET len == Int32BE(buf.data, buf.start)
       IN  \/ ~ValidLength(len) /\ Fault /\ buf' = Skip(buf, 4)
           \/ /\ ValidLength(len) /\ discardRows /\ ctl.type = CodeD
              /\ Discard(Skip(buf, 4), len)
           \/ /\ ValidLength(len) /\ ~(discardRows /\ ctl.type = CodeD)
              /\ ctl' = [ctl EXCEPT !.at = "payload", !.len = len]
              /\ buf' = Skip(buf, 4)
              /\ UNCHANGED <<batch, reader, rows>>
    /\ UNCHANGED <<response, arrived, stream, description, layout, discardRows>>

\* Mutant of DiscardMore: what has been skipped is not counted.
DiscardMoreForgets ==
    /\ Running /\ ctl.at = "discard" /\ stream # <<>>
    /\ IF Len(stream) < ctl.left
       THEN /\ stream' = <<>>
            /\ UNCHANGED <<buf, ctl, batch, reader, rows>>
       ELSE /\ stream' = SubSeq(stream, ctl.left + 1, Len(stream))
            /\ Discarded(buf)
    /\ UNCHANGED <<response, arrived, description, layout, discardRows>>

DiscardMore ==
    /\ Running /\ ctl.at = "discard" /\ stream # <<>>
    /\ IF Len(stream) < ctl.left
       THEN /\ ctl' = [ctl EXCEPT !.left = @ - Len(stream)]
            /\ stream' = <<>>
            /\ UNCHANGED <<buf, batch, reader, rows>>
       ELSE /\ stream' = SubSeq(stream, ctl.left + 1, Len(stream))
            /\ Discarded(buf)
    /\ UNCHANGED <<response, arrived, description, layout, discardRows>>

\* The payload is there; b is the buffer behind it.
HandlePayload(payload, b) ==
    \/ /\ ctl.type = CodeT
       /\ description' = ParseRowDescription(payload)
       /\ IF description'.ok THEN Yield /\ UNCHANGED <<batch, rows>> ELSE Fault
       /\ buf' = b
       /\ UNCHANGED layout
    \/ /\ ctl.type = CodeX
       /\ layout' = ParseDescriptor(payload, description)
       /\ IF layout'.ok THEN Yield /\ UNCHANGED <<batch, rows>> ELSE Fault
       /\ buf' = b
       /\ UNCHANGED description
    \/ /\ ctl.type = CodeD
       /\ LET row == DataRowAt(payload)
              more == DataRowBatch(b)
          IN  IF ~row.ok THEN Fault /\ buf' = b
              ELSE /\ YieldRow(row.row)
                   /\ batch' = more.rows /\ buf' = [b EXCEPT !.start = more.at]
       /\ UNCHANGED <<description, layout>>
    \/ /\ ctl.type \in {CodeC, CodeE, CodeN}
       /\ Yield
       /\ buf' = b
       /\ UNCHANGED <<description, layout, batch, rows>>
    \/ /\ ctl.type \notin {CodeT, CodeX, CodeD, CodeC, CodeE, CodeN}
       /\ NextFrame
       /\ buf' = b
       /\ UNCHANGED <<description, layout, batch, rows>>

\* _readBytes and _readBytesView of a payload that is, or fits, in the buffer.
ReadPayload ==
    /\ Running /\ ctl.at = "payload" /\ HasBytes
    /\ HandlePayload(Slice(buf.data, buf.start, buf.start + ctl.len), Skip(buf, ctl.len))
    /\ UNCHANGED <<response, arrived, stream, discardRows>>

\* _readBytesSlow of one that does not: what the buffer has goes first.
Collect ==
    /\ Running /\ TooLarge /\ ~HasBytes
    /\ ctl' = [ctl EXCEPT !.at = "collect", !.held = Content(buf)]
    /\ buf' = IF Buffered(buf) > 0 THEN Emptied(buf) ELSE buf
    /\ UNCHANGED <<response, arrived, stream, description, layout, batch, discardRows, reader, rows>>

CollectMore ==
    /\ Running /\ ctl.at = "collect" /\ stream # <<>>
    /\ LET left == ctl.len - Len(ctl.held)
       IN  IF Len(stream) < left
           THEN /\ ctl' = [ctl EXCEPT !.held = @ \o stream]
                /\ stream' = <<>>
                /\ UNCHANGED <<buf, description, layout, batch, reader, rows>>
           ELSE /\ stream' = SubSeq(stream, left + 1, Len(stream))
                /\ HandlePayload(ctl.held \o SubSeq(stream, 1, left), buf)
    /\ UNCHANGED <<response, arrived, discardRows>>

\* The length of a binary row is in the second word of its own header.
ReadRowHead ==
    /\ Running /\ ctl.at = "rowHead" /\ HasBytes
    /\ LET len == Int32BE(buf.data, buf.start + 4)
       IN  \/ ~(ValidLength(len) /\ len > 0) /\ Fault /\ UNCHANGED buf
           \/ ValidLength(len) /\ len > 0 /\ discardRows /\ Discard(buf, 8 + len)
           \/ /\ ValidLength(len) /\ len > 0 /\ ~discardRows
              /\ ctl' = [ctl EXCEPT !.at = "row", !.len = len]
              /\ UNCHANGED <<buf, batch, reader, rows>>
    /\ UNCHANGED <<response, arrived, stream, description, layout, discardRows>>

\* _resReadDbosTuple
ReadRow ==
    /\ Running /\ ctl.at = "row" /\ HasBytes
    /\ LET end == buf.start + 8 + ctl.len
           row == ParseDbosRowInPlace(buf.data, buf.start + 8, end, layout)
           more == DbosBatch(Skip(buf, 8 + ctl.len))
       IN  IF ~row.ok THEN Fault /\ UNCHANGED buf
           ELSE /\ YieldRow(row.row)
                /\ batch' = more.rows /\ buf' = [buf EXCEPT !.start = more.at]
    /\ UNCHANGED <<response, arrived, stream, description, layout, discardRows>>

-----------------------------------------------------------------------------
(* The caller *)

\* _takeBufferedRow: no generator needed.
TakeBufferedRow ==
    /\ reader = "idle" /\ batch # <<>>
    /\ rows' = Append(rows, Head(batch))
    /\ batch' = Tail(batch)
    /\ UNCHANGED <<response, arrived, stream, buf, ctl, description, layout, discardRows, reader>>

NextItem ==
    /\ reader = "idle"
    /\ reader' = "reading"
    /\ UNCHANGED <<response, arrived, stream, buf, ctl, description, layout, batch, discardRows, rows>>

\* discardRows of the row source, called by NzDataReader.close().
CloseReader ==
    /\ reader = "idle"
    /\ discardRows' = TRUE
    /\ batch' = <<>>
    /\ reader' = "closing"
    /\ UNCHANGED <<response, arrived, stream, buf, ctl, description, layout, rows>>

Generator ==
    \/ Pull \/ ServeBatch \/ ReadType \/ SkipHeader \/ ReadLength \/ DiscardMore
    \/ ReadPayload \/ Collect \/ CollectMore \/ ReadRowHead \/ ReadRow

Caller == TakeBufferedRow \/ NextItem \/ CloseReader

Next == Arrive \/ Generator \/ Caller

Spec == Init /\ [][Next]_vars

\* The generator can go on: ENABLED <<Generator>>_vars, spelled out.
CanRun ==
    /\ Running
    /\ Serving \/ HasBytes \/ TooLarge \/ stream # <<>>
    /\ Collecting => stream # <<>>

\* Bytes keep coming, the generator runs when it can, and a caller with an open
\* reader reads on or closes it.
FairSpec == Spec /\ WF_vars(Arrive) /\ (<>[]CanRun => []<><<Generator>>_vars) /\ WF_vars(Caller)

-----------------------------------------------------------------------------
(* Properties *)

Taken == arrived - Len(stream) - Buffered(buf)
Boundaries == {0} \cup response.ends

\* The generator is always at the start of a frame when it looks for one, and
\* behind the last frame when the response is over: whatever mix of single
\* rows, batches, views, collected payloads and skipped rows came before, no
\* byte too many or too few was taken. One off, and every later response of
\* the connection would be read from the middle of a frame.
FrameAligned ==
    /\ ctl.at = "type" /\ reader # "failed" => Taken \in Boundaries
    /\ reader = "done" => Taken = response.finish

\* The caller is given the rows the server sent: none twice, none left out, none
\* out of order, each with the values the server encoded. If a row is malformed
\* the rows before it are still given, and the error comes with the read that
\* reaches it and not from an earlier one (the comments of the batch readers).
RowsExact ==
    /\ IsPrefix(rows, response.rows)
    /\ reader \in Over /\ ~discardRows => rows = response.rows

\* However many rows a response has, the buffer stays within twice the longest
\* frame and what the socket holds, and is back within its limit after the
\* response, unless it still holds that much.
BufferBounded ==
    /\ Capacity(buf) <= Larger(InitialSize, 2 * (response.longest + HighWater))
    /\ reader = "done" =>
        Capacity(buf) <= ShrinkThreshold \/ Buffered(buf) > InitialSize

\* To a reader of the connection's bytes the buffer, the socket and what is put
\* back into it (unshift) are one queue: compaction, growth, shrinking, views,
\* collecting and skipping only ever take bytes from its front.
Queue == INSTANCE ByteQueue WITH sent <- Sent, queue <- Content(buf) \o stream
ImplementsByteQueue == Queue!Init /\ [][Queue!Next]_(Queue!vars)

\* The generator never waits for bytes that have already come, in whatever pieces
\* they came: every response ends, or fails on its malformed frame.
ResponseEnds == <>(reader \in Over)
=============================================================================
