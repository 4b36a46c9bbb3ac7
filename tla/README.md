# Verification of the Netezza driver's core

This directory holds TLA+ modules that model the core of `justybase_netezza_node_driver`
(TypeScript, `src/src/`), the TLC configurations that check them on small instances, and
proofs that TLAPS checks for every value of the constants. `PROJECT.json` maps each
definition to the source lines it stands for and lists the runs, the mutants (plausible bugs
that each property must catch), the findings, the hazards and the theorems.

## The system

| Component | Source | State | Operations |
| --- | --- | --- | --- |
| Pool | `NzPool.ts` | clients, idle stack, request queue, sets of connecting and expired clients, use counts, ending flags, timers | `connect`, release, `query`, `executeNonQuery`, `end`; callbacks of connects, rollbacks, timers, socket events |
| Connection | `NzConnection.ts` | flags connected, executing, in transaction, protocol faulted; command generation; active execution; socket | `connect`, `execute`, `executeReader`, `cancel`, `close` |
| Reader | `NzDataReader.ts` | current row, waiting item, result complete, pending columns | `read`, `nextResult`, batch reads, `close` |
| Command | `NzCommand.ts`, `QueryExecutor.ts` | text, parameters, timeout | `execute`, `executeReader`, `cancel` |
| Handshake | `Handshake.ts` | negotiated version, TLS state, place in the dialogue | version negotiation, TLS, option exchange, authentication, completion |
| External tables | `ExternalTableHandler.ts` | open file streams | export, import, log download |
| Byte transport | `SocketTransport.ts`, the buffer of `NzConnection.ts` | chunks, offsets, capacity | append, read, compact, grow, shrink, skip, give back |
| Response generator | `NzConnection.ts` | place in the frame, columns or layout of the rows, batch of decoded rows | read type, length, payload; decode, yield, skip |
| Row formats | `DbosTupleDesc.ts`, `ProtocolLength.ts`, `NzConnection.ts` | the plan made of a layout | decoding of descriptions and rows |
| Type conversions | `TypeConversions.ts`, `textDecode.ts` | none | numerics, dates, times, intervals, texts |
| Query text | `sqlParameters.ts`, `splitStatements` and the transaction scan of `NzConnection.ts` | none | substitution, splitting, transaction boundaries |
| Errors | `Handshake.ts`, `NzDatabaseError` | none | fields, three framings of an early error |
| Connection strings, metadata, messages | `connectionString.ts`, `metadata/`, `protocol/` | none | parsing of options; SQL of catalogue queries; constants |

The application calls the pool or a connection; the pool owns connections and listens to
their `error` and `close` events; a connection owns one socket and at most one running
command; connecting, it lends its socket to a handshake, which may wrap it in TLS and hands
the stream back; a reader pulls rows from its connection's byte stream and releases the
connection when its response is exhausted; external tables take over the stream in the
middle of a response. All of it runs on one event loop: what interleaves is not instructions
but turns of the loop, at each `await`, timer, `process.nextTick` and socket event.

What is hard, and what makes each component correct:

| Component | Hard behaviour | Correct when |
| --- | --- | --- |
| Pool | a promise or timer of a removed client settles later; callers race for an idle client between a pulse and its tick; `end()` with everything in flight | a client has one owner, `max` holds, every request is answered once, a waiting caller is woken, `end()` and `connect()` settle |
| Connection | a caller times out while its command goes on; a cancel request arrives late; a response is given up in the middle; the socket dies or is closed at any `await` | commands never overlap, the lock has an owner, responses are not mixed up, errors are not hidden, open transactions are known |
| Reader | result sets, notices and errors interleave with `nextResult()`; rows come from two sources | no row is lost, repeated or shown under another result set |
| Handshake | the server chooses version, TLS and authentication; bytes are read too far; the timer races the dialogue | credentials are only sent where the security level allows, nobody waits for ever, the stream is handed over whole |
| External tables | file errors are asynchronous, in the middle of a response | every block arrives before DONE, a failed file ends the command |
| Byte transport, generator | bytes come in any pieces; the buffer moves, grows and shrinks under views and rows decoded ahead | bytes come out as they came in, each row comes once with its values, the place stays on a frame boundary, memory is bounded |
| Conversions, query text, errors | boundary values with a path of their own; SQL-like text inside literals; errors without a frame | a value is exact or kept as text, only placeholders are replaced, an open transaction is noticed, the server's message reaches the caller |

## Modules

| Module | Models |
| --- | --- |
| `NzPool` | the pool |
| `Lease` | what a pool promises, abstractly |
| `NzConnection` | one connection with its commands, and the server |
| `Handshake` | one `connect()`: handshake, transport, server |
| `NzDataReader` | one reader over the response generator of its connection, and the server |
| `Cursor` | what a reader promises, abstractly |
| `ExternalTable` | exports, imports and logs with their file streams, and the server |
| `ReadBuffer` | the buffer of a connection: what it does to its bytes |
| `RowFormats` | column descriptions, text rows, binary layouts, plans and rows |
| `Response` | one response through buffer, generator and reader, down to the byte |
| `ByteQueue` | what a stream of bytes promises, abstractly |
| `Backend` | the server's encodings, for the instances of `Response` |
| `SqlText`, `Conversions`, `ErrorTexts` | the texts of queries; the conversion of values; the errors before a connection is set up |
| `Values` | the calls of these three, compared with what their inputs mean |
| `MCNzPool`, `MCNzConnection`, `MCHandshake`, `MCNzDataReader`, `MCExternalTable`, `MCResponse`, `MCValues` | instances for TLC |
| `NzPool_proofs`, `NzPoolRequests_proofs`, `NzConnection_proofs`, `Handshake_proofs`, `NzDataReader_proofs`, `ExternalTable_proofs`, `Response_proofs`, `Values_proofs` | theorems |

The first five components are not composed: each one takes its neighbours as an environment
that does anything the neighbour's code allows. The pool sees a client that connects, rolls
back and dies, the connection a reader that reads on or is closed, the reader a generator
over messages. `Response` is composed of `ReadBuffer` and `RowFormats`, `Values` of its three
modules. In the specifications a definition whose comment says "Mutant of" is a plausible bug
in the definition after it; no behaviour uses it.

## The pool

`NzPool.tla` keeps the private fields of `NzPool`, the armed timers, the promises that have
not settled and what the callers hold in one record, `pool`. A synchronous method of the
code is an operator from a state to a state (`Pulse`, `PushIdle`, `RemoveClient`,
`EnsureMinIdle`, ...), so that an action, one turn of the event loop, can apply them in the
order of the code: `ClientDies(c)` is `Refill(RemoveClient(pool, c))`, exactly as `onDead`
calls `_remove` with a callback that calls `_ensureMinIdle` and `_pulseQueue`.

`Lease.tla` is the abstract promise of a pool: bounded open sessions, one answer per
request, exclusive leases, nobody served or waiting after the end. `NzPool` implements it
(`ImplementsLease`). Beyond it, `RequestAccounted` follows each caller through queue, timers
and the end of the pool, `NoLostWakeup` says that nobody queues beside a free slot or an idle
client without a pulse on its way, `SlotAccounted` that each slot has someone who will give
it back, `ClientsFit` that what is handed out carries no transaction, no spent uses and no
armed timer of an earlier state, `CallsSettle` that `connect()` and `end()` settle.

Abstractions: `NzConnection` is reduced to what the pool sees (a connect and a rollback that
settle, a death, the flag `inTransaction`); a connection object is a name that can be used
again once nobody refers to it; time is abstracted, an armed timer may fire at any time but,
like every I/O callback, not before pending `nextTick` callbacks have run; `query` and
`executeNonQuery` are a `connect` followed by a release with or without an error.

Bounds: `MaxTicks` bounds the pulses scheduled at once (a caller that sees an idle client
waits while the bound is reached), `MaxLate` the removed clients whose promise or timer is
still pending (a client that would be one too many does not die or time out until another
one has settled). With three callers two ticks can be pending, which is what it takes for
two callers to race for one idle client while a third one queues; one late client is enough
for a promise of a removed client to meet every other operation. Two slots are the least
that let one client be idle, connecting or rolling back while the other one is used.

Fairness: `FairSpec` assumes that the `nextTick` queue drains again and again, that
`client.connect()` and `client.rollback()` settle (the connection bounds both with its own
timers, `connectionTimeout` and `commandTimeout`; strong fairness, because a turn of the
loop has to wait for pending ticks), and that callers release what they hold. No timer of
the pool has to fire and no client has to die. The first assumption has an exception in the
driver itself, see the hang of `connect()` under *The handshake*.

Seen while modelling, and in the model, but not the subject of a run: pre-created clients get
no lifetime timer (`WarmReady`), so `maxLifetimeMillis` does not bound them; a client that
expires during its rollback goes back to the idle stack (`RollbackSucceeds`); a caller that
saw an idle client and lost it queues without a `connectionTimeoutMillis` timer; after a
failed warm-up the pool stays below `min` (`WarmFailed`); without an `error` listener the
exception of `emit('error')` keeps a queued caller asleep (`ErrorListener = FALSE`).

## The connection

`NzConnection.tla` keeps the private flags of `NzConnection`, the messages in its read
buffer, and for each command (named by its generation) the locals of `_doExecute` or
`_doExecuteReader`: its phase, text, the transaction state it saw, whether its loop has seen
an error, and what its caller was told. A command goes through `drain`
(`_ensureProtocolSynced` waits for the rest of an earlier response), `send`, `wait` (the
response generator), for a reader `open`, `closing` and `ended`, and `done`. An action is one
turn of the loop: a call, a timer, a socket event, or the handling of one message
(`Skip`, `HandOut`, `SeeError`, `ResponseEnds`, `ExternalTableFails`, `BadFrame`). Caller and
command part when the timeout wins the race: `TimeOut` settles the promise and starts a
cancel, the phase goes on. A cancel is a socket of its own: `Cancel` checks the generation,
`CancelConnects` checks it again, `ServerCancels` hits whatever the server then runs. The
server runs the statements of a text one by one, fails any of them, and ends each response
with `ReadyForQuery`; a failed statement ends the script and keeps the transaction it has
opened, which is what the code's comments assume.

Abstractions: a message is its kind and the command it answers; a row stands for a
`RowDescription` with its row; SQL texts are the four that matter for the transaction state
(a query, a `BEGIN`, a `COMMIT`, and `BEGIN; query; COMMIT` in one text); the handshake is
one step; the reader only reads on or is closed. The application is assumed to call
`connect()` only when nothing executes and no `close()` is pending (`Connect`).

Bounds: `MaxCommands` (1 or 2) and `MaxSessions` (1 or 2). Two commands are enough for a late
timeout, cancel request, reader or rest of a response of the first to meet the second, and
for a transaction that one of them opens and the other one fails to close; two sessions let
the state of a dead socket meet the next one.

Fairness: a command that no caller holds moves when it can, the server answers a query it
has, and `close()` goes on once its execution has settled. Callers may keep a reader open for
ever, no timer has to fire, no cancel has to arrive.

Findings (each is a run that TLC refutes, with the comment it contradicts in
`PROJECT.json`): the rest of a response given up after a local failure is read as the
response of the next command (`conn_orphan`); a batch that fails behind a reader leaves a
transaction the connection does not know of (`conn_reader_batch`). Therefore `OwnResponse`
and `TransactionTracked` are checked without these causes (`LocalFailures = FALSE`, no batch
through a reader).

`ExternalTableFails` stands for every local failure of the generator; a listener of `notice`
that throws (`emit` is called in the loop) does the same: the error leaves the generator
without a fault, the response is given up. It is not a separate action.
`TransactionTracked` has one direction: a transaction open at the server sets the flag. The
flag may be set without one.

Also seen, without a run: nothing resets `_protocolFaulted`, so a connection that reconnects
after a protocol fault refuses every command; `_trackExecution` replaces the active execution
by that of a call which is then refused, so `close()` no longer waits for the execution in flight
(`Refusals = TRUE` refutes `StreamKept`, which is checked with `FALSE`); the second
generation check of `cancel()` does not notice a command that has *finished*, so the request
can hit the next one; bytes of a message cut off by the death of its socket stay in the read
buffer over a reconnect (`FragmentLeft`), and the first command then fails; with a dead
socket the wait for orphaned bytes keeps the event loop busy until its deadline.

## The handshake

`Handshake.tla` is one `connect()`: the timer and the promise of `NzConnection.connect`, the
dialogue of `Handshake.startup` and the buffer of its `SocketTransport`. The client is a
sequence of reads; `at` names the read it waits for, and each action is what the code does
with the answer up to its next read: `Negotiated` sends the database, `DatabaseSelected` asks
for the session, `SessionSecured` starts TLS, `OptionAccepted` sends the next option of the
chain for `_hsVersion` (`NextOption` is the switch of both loops, which differ in their first
option only), and so on up to `CompletionReady`, which gives unread bytes back to the stream.
Anything a read does not expect, an `ErrorResponse` included, is `Refused`. The timer, the
`error` and the `close` event of the socket can come between any two of these.

Abstractions: what the server says is a sequence of tokens, one per read of the client (a
byte, or a message where the code reads it whole), arriving in chunks of any number of
tokens; the text of an error and its three framings are one rejection; TLS is a step that
sends one packet; salts, hashes and names are left out. The server is external: it accepts
one version or none and suggests others, known or not, answers each packet with yes or an
error, asks for TLS or not, and picks an authentication and the order of the last messages.
It speaks first only after `ReadyForQuery` ("later"), so what the transport has read too far
is non-empty only there; at the TLS upgrade it is always empty.

Bounds: `MaxSuggestions` (2) suggested versions, enough to replace a version that has
replaced another one. The run takes the default level and `OnlySecuredSession`; the two
other levels behave like the default in the code.

Fairness: what has arrived is read, and an armed timer fires. Network and server need not do
anything. `SilentClose = FALSE` leaves out one case: a socket that closes with a `close`
event alone before TCP has connected or while `tls.connect` waits, as `close()` called
during `connect()` causes it. That event disarms the timer, nobody rejects the promise, and
`connect()` hangs; with `SilentClose = TRUE` TLC shows it as a violation of `ConnectSettles`.
The safety properties and the proofs allow it.

## The reader

`NzDataReader.tla` is one `executeReader()`, from its first item to `close()`. The reader
takes items from two places: the response generator, an async generator whose queue of
requests `read()`, `nextResult()` and `close()` share (`requests`), and the rows it has
decoded ahead (`batch`, `_batchRowCache`). Each loop of the code is an operator from a
reader and an item to a reader (`StartItem`, `ReadItem`, `NextItem`, `CloseItem`); it leaves
`call` or `closing` set when the loop asks for another item. `Yield` gives an item to the
first request and runs its loop; the actions around it are where items come from: the batch
(`YieldCached`), a row with the complete rows behind it (`YieldRow`), a row skipped after
`close()` (`DiscardRow`), other messages, the end and the failure of the generator.

`Cursor.tla` is the abstract promise: `read()` shows the next row of the current result set
or says that there is none, only a call that asks for it moves to the next set, and it says
there is none only when the response is over. `ImplementsCursor` maps the reader's columns,
its current row and a history of the rows shown to it. After an error, the end or `close()`
the promise is weaker: no wrong row is shown. It has to be, because `close()` may run while
another call waits: the items are then dealt out between the two loops, and `nextResult()`
may answer that there is a set whose columns the loop of `close()` has swallowed.

Abstractions: a row is its set and its number; read-ahead takes any number of complete rows;
typed getters and column metadata, functions of the current row and its columns, are left
out. `read()` and `nextResult()` are assumed to wait for each other, `close()` is called at
any moment, once. The server sends rows for a set it does not complete, may send
`RowDescriptionStandard`, notices and statements without rows, and after an error only the
end of the response.

Bounds: `MaxSets` (2) result sets of `MaxRows` (2) rows, `MaxOthers` (1) notices or
statements without rows: two sets let one be drained while the next waits, two rows let one
be decoded ahead of the other.

Fairness: the generator reads what has arrived when it is asked, and the server goes on. The
application need not call anything.

## External tables

`ExternalTable.tla` is `ExternalTableHandler` between two messages of a response: the
handler is again at one read or wait (`at`), and each action is what the code does up to the
next one. The files are Node streams (`file`, `queued`, `disk`) that open, write, finish or
fail when the operating system says so (`FileOpens`, `FileWrites`, `FileFinishes`,
`FileFails`); the socket takes packets (`Written`) or fails them (`WriteFails`). The server
starts exports, imports and logs in any order, sends blocks and statuses, known or not, and
waits for the client's answers.

After a failed command, what happens next depends on what failed. A framing error or a lost
socket is an `NzProtocolError`: the socket is destroyed (`ReadFails`, `Lost`) and the next
command runs on that of a new connection (`NextCommand`). Everything else is local: an error of
the file in front of `drain` or `finish`, the finish timer, an error of the source, `statSync`
of an import whose file has gone, `createWriteStream` in `saveLog`. It ends the command and
keeps the socket, with the rest of the response unread. The next command then begins in the
middle of it (`NextCommandStrays`): if nothing has arrived its query is sent at once, otherwise
`_ensureProtocolSynced` looks for `ReadyForQuery` (`Synced`, `SyncFails`). What it meets there
may be raw blocks, which the message loops do not understand (`Misread`). `strayed` is a history variable:
the current command began that way and the client has not been in step with the server since.

Abstractions: a block is a count; header and payload of a packet are one packet; formats,
names and progress events are left out, an import without file or registered stream is one
branch. The server is assumed to answer an accepted export with `U` and to read what it is
sent; it takes the `ERROR` of a failed import with or without a message (the code sends it
without one when there is no source, with one when the source fails). A packet that it does not
wait for ends its exchange in an error, a query waits for the end of the response
(`ServerDiscards`). Bytes that are misread count as at most one message the read understands,
swallow any part of what follows, or count as nothing; that they spell the start of another
transfer (`u`, `U`, `l`, `e`) is left out.

Bounds: `MaxExchanges` (2) transfers, so that the stream of one can meet the other and a
command can meet the blocks of the one before; `MaxBlocks` (2), so that one block can be on
disk while another is queued. 445,535 states.

Fairness: the client reads what has arrived, the finish timer fires, the operating system
settles each file operation, and the server goes on. The next command need not come, and the
deadline of the synchronisation is part of what the client does.

What is claimed: `ExportComplete` holds for every command. `ImportComplete` and `FilesReleased` speak of
commands that have not strayed, because one that has may be told "done" by the response of
another. `CommandEnds` says that a command ends, with two exceptions: it may be `Stranded`, or
it has strayed. A command that has strayed may skip by a length it has found in a raw block and
wait for bytes the server does not owe it. That responses are attributed to the wrong command
is the subject of the run `conn_orphan`.

Seen while modelling: a block written to a stream that has already failed is lost and the
handler waits for a `drain` that never comes (`Stranded`): the command hangs, and with it
the connection. An export whose file cannot be opened
before its first block drops the stream reference and succeeds without a file
(`ExportComplete` speaks of exports that have one). The listener of a stream left open by a
failed command clears the reference to the stream of a later export; `LateErrors = FALSE`
leaves that out, `TRUE` refutes `FilesReleased`. A failed command leaves its file open.
Errors of a log file are noted and dropped (`LogLost`).

## Buffer, rows and response

`Response.tla` is one response from the first byte to the last, as bytes. The server's
encoding is in `Backend.tla`; its bytes arrive in chunks of any of `ChunkSizes` in the
socket's own queue (`Arrive`), from which the connection pulls (`Pull`) into the buffer of
`ReadBuffer.tla`. The generator is at a place of a frame (`ctl`): the type byte, the shared
header, the length, the payload, a binary row, or a payload too large for the buffer that is
collected or skipped; each action is one read of `_responseGenerator` and what it does with
the answer. `Batch` decodes the complete frames of rows that follow a row, in place, and
leaves a malformed one where it is. The caller reads row by row or takes the rows decoded
ahead (`TakeBufferedRow`), asks for more (`NextItem`) or closes (`CloseReader`), after which
rows are skipped by their length alone. `RowFormats.tla` decodes descriptions, text rows,
the layout of binary rows and, along the plan made of a layout once, the binary rows
themselves; what cannot be decoded is `Malformed`.

`FrameAligned` says that the generator looks for a type byte only at the start of a frame and
is behind the last frame when the response is over; `RowsExact` that the caller is given the
rows the frames of the response tell, in order, up to a malformed one; `BufferBounded` that the buffer
stays within twice the longest frame and what the socket holds, and shrinks afterwards.
`ByteQueue.tla` is the abstract promise: bytes arrive at the end of a queue and leave at its
front. `ImplementsByteQueue` maps buffer and socket to that queue, so that compacting, growing,
shrinking, and giving bytes back to the socket are stutters or takes.

A response is a constant with its rows beside it, and `RowsTold` says how they belong
together: `Known(r, at)` is what the frames up to an offset have told (the columns, the layout
of binary rows, how many rows), and each frame adds what it decodes to. It also says what a
server is taken to send. Binary rows come behind their layout. Their fields lie within the row
(`RowWithin`): the decoder trusts the layout, and for one that does not fit it would read
bytes behind the row, which depend on what the buffer happens to hold. No frame is longer
than `MAX_PROTOCOL_PAYLOAD`: a row read by itself is refused above it, a row in a batch is
not. A length may be negative, and a payload, a layout or a row may be malformed. TLC
checks that the ten responses of the run satisfy this.

Abstractions: memory that has not been written holds one byte, `Garbage`; a view and a copy
of bytes are one thing; columns are decoded as far as their bytes, the conversions that
follow are in `Conversions`; the counters of `_diag` are left out. Frames of external tables
and the loss of the connection are in the modules above.

Bounds: `InitialSize` (16) and `ShrinkThreshold` (32) stand for the sizes of the code, so that
most frames are longer than the buffer at its smallest: it grows, compacts and shrinks within
one response. Chunks of 7 bytes cut every kind of field in two, `HighWater` (30) makes the
socket hold several. `MaxPayload` (200) is above every frame sent, the corrupt lengths are negative. Ten responses:
text rows, binary rows with and without nulls and varying fields, a fixed layout, two result
sets, malformed rows of both kinds, bad lengths, messages without rows.

Fairness: bytes keep coming, the generator runs whenever it can (`CanRun` spells its
`ENABLED` out), and a caller with an open reader reads on or closes it. It is not assumed
that a row is ever read: closing will do.

## Conversions, query text and errors

`SqlText`, `Conversions` and `ErrorTexts` translate pure functions: each is an operator or a
recursive function, a text is a sequence of characters (of words and characters in
`SqlText`). `Values.tla` has one action per call of them: it keeps the call beside its
answer. The properties do not repeat the functions; they compare the answer with what the
input was made of (the pieces of a query, the message of an error) or with arithmetic (the
value of the words of a numeric, the floor of a count, the fields of a time put together
again), or one path of the code with another one (`ShortcutsAgree`).

`QueriesTracked` relates the substitution of parameters, the splitting into statements and
the tracking of transactions with the pieces of the query: exactly the placeholders between
the pieces are replaced, and `inTransaction` is what the statements leave open, both when the
query succeeds and, at least, when it fails at any statement. It speaks of the queries that
the two scanners read alike (`ReadAlike`). The comment of `splitStatements`
(`NzConnection.ts:45-49`) says that its rules mirror those of `substituteParameters`, "so both
halves of the driver agree on what a literal or a body is". For a query with parameters this
fails in three cases, which are excluded by name:

- `BEGIN_PROC ... END_PROC` is a body only to the splitter. If it holds a `$1`, that is
  replaced; if it holds a quote or a comment, what follows is read differently (`PlainBody`).
- `escapeLiteral` does not double a backslash, although both scanners take it for an escape: a
  string with a backslash in front of a quote or of its end does not end where its literal
  does (`WholeLiteral`).
- A negative number directly behind a `-` makes a comment, because `escapeLiteral` returns
  `String(value)` (`MakesComment`).

The inputs of the run include queries of all three kinds, and without any one of the three
conditions TLC finds the invariant violated. `InstantFloored` and
`ValuesExact` (numerics, intervals, zones) are about binary and text values, `RefusalsTold` about the three framings of an
error while a connection is set up.

Bounds: the widths and radixes of the code are constants, and the run gives them narrow
values (`Limb` 4 for 2^16, two digits for a chunk of nine, two digits for a Number, a second
of 7, an hour of 3): every value of a narrow 64-bit integer and of numerics of up to two
words is tried, and the boundary ones of three words. What the code writes as two constants
that belong together, the quotient and remainder of 2^32 and 1000, is an assumption on them
(`WordAssumption`). `NumberDigits` is the number of digits that a double always keeps.
Queries are all sequences of up to three of 18 pieces, among them literals, names, comments
and `$$` bodies that hold quotes, semicolons, placeholders and transaction words, and longer
ones of chosen shapes.

Left out: parameters of other types (dates, arrays, buffers) are written as fixed text;
boolean, character and floating point columns, one machine conversion each; the last resort
for a timestamp, the engine's own `Date` parser.

Seen while modelling, without a run: an interval with negative months
loses the sign between years and months; the fields of a negative time are floored one by
one, so they cannot be put together again. `ValuesExact` speaks of intervals that are not
negative.

## Runs

| Run | Question | Result |
| --- | --- | --- |
| `pool_timers` | ownership, capacity, accounting of requests and of shutdown, wakeups, state of handed-out clients, and the refinement of `Lease`, with every timer and option on | holds |
| `pool_end` | does `end()` resolve, also when called twice, does every `connect()` settle, and does each slot have an owner, without `connectionTimeoutMillis`? | holds |
| `pool_leaked_slot` | does each slot have an owner, with `connectionTimeoutMillis`? | no: a queued request that times out while a client is opened for it leaks that client |
| `conn_commands` | two commands over two sessions with timeouts, cancels, malformed messages, deaths, `close()`: exclusion, lock, attribution of responses, honest results, stream kept, open transactions known | holds |
| `conn_liveness` | is a connection given back after its caller has timed out, and does `close()` resolve, with local failures and refused calls? | holds |
| `conn_orphan` | are responses attributed to their command after a local failure? | no |
| `conn_reader_batch` | is the transaction state right when a batch fails behind a reader? | no |
| `handshake_connect` | mutual waiting, credentials, version, clean failure, hand-over, settling | holds |
| `reader_cursor` | is the reader a cursor, does it give the connection back only and always at the end, is each call answered? | holds |
| `external_transfers` | complete imports and exports, files released, commands end, also after a local failure that keeps the socket (for commands that have strayed: exports only) | holds |
| `response_rows` | rows exact, frames kept, buffer bounded, buffer a queue of bytes, response ends | holds |
| `values_calls` | are placeholders, transactions, values and errors what the inputs mean? | holds |

Deadlock is not checked: a pool that has ended, a closed connection that may not connect
again within its bounds, a handshake that has returned or thrown, a reader at its end and a
connection without further transfers and a response at its end really stop. `TypeOK` of
`NzConnection`, `ExternalTable` and `NzDataReader` describes the variables; the types of the
pool and of the handshake are checked and proved.

## Proofs

All theorems assume only the named assumptions on the constants (sizes, names, Boolean
switches, and of `Response` that what the server sends is made of frames and its rows are
what the frames tell) and hold for every number of clients, callers, commands and sessions. Where a run sets a switch to leave out a
behaviour that breaks the property (`ErrorListener`, `LateErrors`, local failures, refused
calls, batches through `executeReader()`, `connectionTimeoutMillis` for `SlotAccounted`), the
theorem names that switch as its hypothesis.

`NzPool_proofs.tla`: the state is well typed (`TypeCorrect`), the pool never exceeds `max`
(`CapacityBounded`), a client never has two owners (`OwnerExclusive`). The inductive
invariant `Good` adds to them which clients a timer or a listener may belong to (`Marks`): a
warm client has no connection timer, only idle clients have idle timers, a warm client stays
known until the pool ends. Without them the late callback of a removed client could put it
back into the idle stack. `Good` speaks about any state of the pool, so that each method has
a lemma of its own and an action composes them.

`NzPoolRequests_proofs.tla` follows the callers of the pool, on top of `Good` and in the same
form: no `connect()` is forgotten or answered twice (`RequestsAccounted`), what is handed out
is fit to be used (`ClientsAlwaysFit`), no wakeup is lost (`WakeupsKept`), and the pool
implements `Lease` (`PoolKeepsPromise`). Between two methods of one turn a request may be in
neither queue nor map, because a method has it in its hands, and an ending pool may still
have idle clients; so the invariant `Kept` of the turns is made of `Core`, which knows the
requests in hand and holds after each method, and `Wound`, which holds once `_pulseQueue` has
run. For the wakeups, `Awake(p, n)` says that n runs of `_pulseQueue` are enough to serve
whoever can be served; the pending nextTick callbacks are that many runs, each run is worth
one, and whatever frees a client or a slot is followed by a run. Only `_createIdleClient`
without an `error` listener frees a slot and does not pulse, so `WakeupsKept` assumes the
listener. `SlotsAccounted`: without `connectionTimeoutMillis` no slot is lost. `Slotted`
says of each method which client it has in its hands besides those that are connecting,
rolling back, idle or held; it needs to know that a client which is being dialled will have
somebody to go to, the idle stack or an unanswered request, and that a caller who waits holds
nothing a second client would make it forget. The first is what the timer of a queued request
breaks (`pool_leaked_slot`), hence the hypothesis.

`NzConnection_proofs.tla`: two commands never execute at once (`Exclusive`) and the flag
`_executing` is set exactly while some command has to give it back (`LockIsOwned`). Neither
is inductive alone; the invariant `Lock` says that only the command of the current generation
may be busy, and only while the flag is set. A command that has ended can therefore not come
back, and a new one finds nobody busy. Two more theorems stand on `Lock` and on switches of
the runs that check them. `StreamAlwaysKept`: with a command timeout and without refused
calls, no stream is taken from an execution that `close()` should wait for (invariant
`Waits`: a command that has not settled is the active execution, every `close()` that began
since waits for it, and while one waits the socket is gone and no command is accepted).
`ResponsesAreOwn`: unless a response is given up after a local failure, every message a
command takes answers that command, over any number of commands and sessions, with malformed
messages, cancels and deaths. Its invariant `Responses` has four parts: what the messages and
the text of the commands are (`Typed`); the end of a response is the last message there is,
and one response is under way at a time (`Orderly`); only an open socket carries anything
(`Sockets`); and what is there while a command reads is its own, and nothing is there when
nobody reads (`Owned`). `conn_orphan`, and `StreamKept` with refused calls, show that the
switches are needed.

Two further theorems of this module stand on `Responses`. `ResultsAreHonest`, also without
local failures: the promise of an
`execute()` whose error the server has sent does not resolve. The invariant
`Honest` follows that error: as long as the command has not ended, it is still on the socket
or in the buffer, or the command has seen it, or the session is lost and no end of the
response will ever come (`Noted`), and a promise settles only together with that
(`Promised`). `TransactionsAreTracked`: with an open transaction at the server the flag
`inTransaction` is set whenever nobody executes, so that the flag the pool looks at when
a client is released tells the truth. Its invariant `Known` compares three places where the transaction may be: the
server's state, the statements it has not executed yet, and the CommandComplete messages of
BEGIN and COMMIT the driver has not read yet. It excludes a batch read through
`executeReader()` by assumption: the run `conn_reader_batch` is the counterexample.

`Handshake_proofs.tla`: the state is well typed (`TypeCorrect`), with `OnlySecuredSession`
no credentials leave outside TLS (`CredentialsAlwaysSecured`), and a rejected `connect()` has
let go of its socket, its timer and its connected flag (`RejectedAlwaysClosed`).
`CredentialsSecured` becomes inductive with the fact that every read after the decision about
TLS is only reached on TLS (`SecureInv`); `RejectedIsClosed` with what each outcome says of
socket, timer and place (`OutcomeInv`), e.g. that an armed timer means a pending promise.
`NeverBothWait` and `VersionAlwaysAgreed` share the invariant `Dialogue`: on an open socket,
while a step waits for an answer, either its question is the only packet on its way and
nothing is unread, or no packet is on its way and what is unread is one whole answer to that
question. The answer may be split anywhere between socket and buffer. On the same invariant
stands `StreamAlwaysContinuous`: a step takes at most the first unread token and leaves the
rest in order with what has come since behind it, also when the transport hands its buffer
back to the socket for TLS and for the connection.

`NzDataReader_proofs.tla`: a reader gives its connection back only when the generator has
ended or thrown (`LockAlwaysKept`). Not inductive, because a reader that has finished, or
that holds the last item of the response back in `_nextItem`, gives the connection back
later without another look at the generator; `Kept` adds these two cases, that rows decoded
ahead are rows, and that only the generator makes the items that end a response. Each loop
has a lemma (`Follows`): what it does with an item brings the release no nearer unless the
item is such an end.

The same module proves the refinement `ReaderImplementsCursor`. The invariant `OnCourse`
rests on the notion of a place in the response: a result set, its rows so far and what may
come next. From the place at which the reader stands, the messages it has not read (an item
held back, the rows decoded ahead, what has arrived) lead to the place of the server
(`OnPath`), each one allowed where it comes (`Leads`). What the reader remembers must agree
with its place (`Remembers`): columns and rows shown, a pending description, a completed set,
how far a `nextResult()` has come. So a row it shows is the next one, and an end it announces
is the end, because the message that says so is allowed nowhere else. After `close()` nothing
of this matters except for a `read()` that waited before: it still receives the row the
generator was reading, so its place is kept until that row has been delivered (`Tracked`).
Each loop has one lemma for what an item does to the cursor (`StartSteps`, `ReadSteps`,
`NextSteps`) and one for the place it leads to (`StartReaches` and so on); the server's steps
make the path longer at its end, and messages already sent stay allowed because the server
only adds to what it said (`Grows`).

`ExternalTable_proofs.tla`: the server takes an import for complete only when it has received
all of it (`ImportsAreComplete`). The invariant `Import` counts the blocks: those in the
source, those on their way and those received are all there are, DONE or ERROR is the last
packet of an import, and client and server take turns. It knows where the client goes when
the socket has taken what it writes (`where`), so that a write and its completion count as
one place. It holds of a command that has not strayed; `Commands` says so and keeps the types
of the others, and a command that begins in step establishes it again (`InStepAgain`), because
then nothing of the earlier response or its packets is left.

`FilesAreReleased`, unless a stream left over
by a failed command fails later (`LateErrors`): a command that has not strayed and succeeds
leaves no file of its
own open and no reference to one. The invariant `Released` stands on `Import` and says at each place of the loop which stream may be open: at most one, and it is
the one the connection refers to or the one the handler writes to.

`ExportsAreComplete`: an
export that returns successfully has closed its file with every block it took, strayed or not.
Its invariant `Exports` assumes nothing of the server. Whenever data can begin, the
connection refers to a file without data, to one already closed, or it is lost together with the
reference (`Fresh`), and each block taken is in the stream's queue or on disk while the stream is
open (`Accounted`); a drain or a finish moves blocks from one to the other, and the finish
that lets the command return finds the queue empty.

`Response_proofs.tla` begins with the operations of the buffer and what a reader sees of them,
for every size and content: appending a chunk puts it behind what is unread
(`ChunkAppended`), skipping takes the front (`SkipTakes`), shrinking loses nothing
(`ShrinkLosesNothing`). On them stand four theorems about whole responses, for every
response, size of the buffer and size of the pieces: buffer and socket together implement
`ByteQueue` (`BuffersAreOneQueue`), the generator stays on the boundaries of the frames
(`FramesStayAligned`), the buffer is bounded (`BufferStaysBounded`), and the caller is given
the rows of the response (`RowsDelivered`).

What the first three assume of a response is `WellFramed`: it is a sequence of frames, each as long as
its header says or with a negative length, and the one frame that ends it is the last. That
is the protocol, not the driver; bytes of payloads and rows, and whether they can be decoded,
are arbitrary. The inductive invariant has four parts. `Typed`: while bytes are collected or
skipped outside the buffer it is empty, and some are still to come. `Faithful`: what is
unread is the last part of what has arrived, so that the count of unread bytes says at which
byte of the response the generator is. `Framed`: that byte is the start of a frame, or it
belongs to the frame whose type and length the generator has noted, just where its place
says. `Sized` bounds the memory by the longest frame and by what the socket holds. Every step
of the generator is shown to take some n bytes from the front of the queue (`Taking`), and to
lead from a place in a frame to another place in it or to its end (`Reads`, one lemma per
action). Rows decoded or skipped in one step are a recursive function over offsets; that it
is a solution of its equation, and that the offset it returns is the end of a frame, is
proved by the least number of remaining bytes for which it would fail (`LeastNat`, from the
well-foundedness of finite sets of numbers), because induction itself is out of reach.

`RowsDelivered` adds `RowsTold`, described with the model above, and the invariant `Kept`.
`RowsExact` says where rows and response stand at the end; `Kept` says it at every frame.
The caller has a beginning of the rows (`Delivered`). As long as it reads, the batch holds
exactly the rows told before the frame at which the generator is and not yet taken, and the
columns and the layout the generator uses are those told before that frame (`Ahead`);
inside a frame there is no batch, and what has been collected of a payload is its beginning
(`Reading`). A caller that closes keeps what it has, and nothing is added.
What the invariant needs beside it is that where a row lies does not matter. `SameRow`: a
binary row decoded in place, at any offset of the buffer and whatever follows it, is the row
its own bytes decode to, for every layout a description can give, through either reading of
the row (the checked one field by field, and the plan made of the layout) and with the starts
of varying fields, which follow each from the one before. `RowSent` makes of this that the row read at a frame is
the next one of the response, and `BatchedRows` that a batch, over any number of frames, is
the piece of the rows that comes next, again by a least offset instead of an induction.

`Values_proofs.tla`: `CountFloored` shows, for every radix and every pair of words, that the
driver's way to divide a 64-bit count without 64-bit arithmetic is the floor of the division;
`InstantsAreFloored` is `InstantFloored` for all constants. `IntervalsExact` and `ZonesExact`
are two of the three parts of `ValuesExact`, for every radix (`FieldsOfTime`: hours, minutes
and seconds, of any number of minutes to the hour).

`ShortcutsTaken` is `ShortcutsAgree` for every text: any sequence of characters of any
length, whatever is in it (`TextAssumption`). There is one lemma for each parser
(`TimestampsAgree`, `DatesAgree`, `TimesAgree`, `IntegersAgree`), and each has two cases. A
text the short way leaves to the general one needs nothing. What the short way takes is known
character by character (`PlainTimestampIs`, `DateText`, `TimeText`, `ZoneText`), and from that
the general way is followed: the expression matches (`ShapedDate`, `ShapedTime`,
`ZoneAgrees`), its fraction and zone are found where the short way found them, because an
earlier end would have to begin a zone with a digit (`FirstEnd`); a split finds the cuts the
short way looked at (`PartsOfTime`, counted by `CutIs`); the pieces of a piece are pieces of
the text (`SliceOfSlice`), so the fields are the same numbers (`DatePieces`, `TimePieces`), and
numbers that the short way has seen to be in range pass every check of the general one. The
value of digits is a recursive function; that it is defined (`SumsDefined`), a natural number
(`NumberTyped`) and the only solution of its equation (`OneSum`) is proved by the least
position at which it would not be. Years below 100 show why the cases differ: `PlainDate`
leaves them to the general way since `Date.UTC` would take them for the twentieth century.

Only model-checked: the liveness properties (the prover has no fairness), and of `Values`
three properties. `QueriesTracked` and `RefusalsTold` say what a call does with the input that
is built of given pieces; how texts and frames are put together is part of the instance
(`MCValues`), and a theorem would need it as an assumption on every piece. The numerics of
`ValuesExact` (`NumericExact`) go through loops over limbs and chunks of digits
(`Chunks` recurses over texts, not over a number), which takes induction over data.

## Plan

Done: the pool and its promise; one connection with commands, timeouts, cancel, close and
protocol synchronisation; the handshake; the reader and its promise; external tables; the
buffer and its promise, the row formats and the response generator; query text, conversions
and errors; the theorems above.

Next, the model: the composition of pool and connection, in which a pool client is a
connection, and `inTransaction` and the death of a client come from `NzConnection`;
connection strings.

Not modelled, and not planned: metadata, which builds the SQL text of catalogue queries and
DDL and runs it as ordinary commands; typed getters and column metadata of a reader,
functions of the current row; declarations, messages and constants, which have no behaviour;
examples, tools, benchmarks and tests, which are not part of the driver.
