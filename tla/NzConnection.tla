---------------------------- MODULE NzConnection ----------------------------
(***************************************************************************)
(* One connection of src/NzConnection.ts: connect, execute, executeReader, *)
(* the reader it hands out, command timeouts, cancel, close and the        *)
(* synchronisation of the byte stream before a command.                    *)
(*                                                                         *)
(* An action is a turn of the event loop in which the connection takes one *)
(* message off its stream, or a call, a timer or a socket event.  A        *)
(* command is named by its generation, so the commands that ran are        *)
(* 1..commandGeneration.  The server is external: it answers each query    *)
(* with messages that end in a ReadyForQuery.                              *)
(***************************************************************************)
EXTENDS Naturals, Sequences

CONSTANTS
    MaxCommands,     \* bound: commands accepted
    MaxSessions,     \* bound: calls of connect()
    CommandTimeout,  \* is commandTimeout > 0?
    Refusals,        \* are commands also issued while one is executing?
    ExecuteTexts,    \* SQL texts given to execute()
    ReaderTexts,     \* SQL texts given to executeReader()
    LocalFailures,   \* can the local side of an external table fail?
    BadFrames        \* can a message fail validateProtocolLength()?

Commands == 1..MaxCommands
NoCommand == 0

\* A text is a sequence of statements: BEGIN, a query, COMMIT or ROLLBACK.
Texts == {"query", "begin", "end", "batch"}
Statements == {"begin", "query", "end"}
Script(t) == CASE t = "query" -> <<"query">>
               [] t = "begin" -> <<"begin">>
               [] t = "end"   -> <<"end">>
               [] t = "batch" -> <<"begin", "query", "end">>

ASSUME BoundsAssumption == MaxCommands \in Nat \ {0} /\ MaxSessions \in Nat
ASSUME SwitchesAssumption ==
    /\ CommandTimeout \in BOOLEAN
    /\ Refusals \in BOOLEAN
    /\ LocalFailures \in BOOLEAN
    /\ BadFrames \in BOOLEAN
ASSUME TextsAssumption == ExecuteTexts \subseteq Texts /\ ReaderTexts \subseteq Texts

(***************************************************************************)
(* "row" stands for a RowDescription and the DataRow after it, "extern"    *)
(* for an external table exchange ('u', 'U', 'l', 'e'), "bad" for a        *)
(* message whose length field is invalid, "fragment" for the first bytes   *)
(* of a message whose rest died with its socket.                           *)
(***************************************************************************)
Kinds == {"row", "complete", "error", "extern", "bad", "fragment", "ready"}
Messages == [cmd : Commands, kind : Kinds]

VARIABLES
    \* private fields of NzConnection
    socket,             \* _socket: "none", "connecting", "open" or "destroyed"
    stream,             \* is _stream set?
    connected,          \* _connected
    protocolFaulted,    \* _protocolFaulted
    closing,            \* _closing
    inTransaction,      \* _inTransaction
    executing,          \* _executing
    commandGeneration,  \* _commandGeneration
    activeExecution,    \* _activeExecution
    buffer,             \* messages in _intBuf
    \* the commands: locals of their execution, and the promise of the caller
    phase,
    mode,
    text,
    prevInTransaction,
    failed,             \* commands whose loop has seen an ErrorResponse
    promise,
    \* pending work outside of the commands
    closers,            \* close() calls, by the execution each waits for
    cancels,            \* cancel() calls connecting, by the generation they check
    packets,            \* cancel requests on their way to the server
    \* the server and the network
    sessions,           \* connect() calls so far
    wire,               \* messages not yet read from the socket
    queries,            \* queries the server has not finished
    serverTx,           \* is a transaction open at the server?
    erred               \* commands the server has answered with an error

flags == <<socket, stream, connected, protocolFaulted, closing>>
locals == <<mode, text, prevInTransaction>>
server == <<queries, serverTx, erred>>
pending == <<closers, cancels, packets>>
vars == <<flags, inTransaction, executing, commandGeneration, activeExecution,
          buffer, phase, locals, failed, promise, pending, sessions, wire, server>>

(***************************************************************************)
(* The phases of a command: draining an orphaned response, about to send,  *)
(* waiting for its response, the reader open in the caller's hands, the    *)
(* reader closing, the reader at its end but not released, done.           *)
(***************************************************************************)
Phases == {"none", "drain", "send", "wait", "open", "closing", "ended", "done"}

TypeOK ==
    /\ socket \in {"none", "connecting", "open", "destroyed"}
    /\ {stream, connected, protocolFaulted, closing, inTransaction, executing, serverTx}
         \subseteq BOOLEAN
    /\ commandGeneration \in 0..MaxCommands
    /\ activeExecution \in 0..MaxCommands
    /\ buffer \in Seq(Messages)
    /\ wire \in Seq(Messages)
    /\ phase \in [Commands -> Phases]
    /\ mode \in [Commands -> {"execute", "reader"}]
    /\ text \in [Commands -> Texts]
    /\ prevInTransaction \in [Commands -> BOOLEAN]
    /\ promise \in [Commands -> {"none", "pending", "timedOut", "resolved", "rejected"}]
    /\ failed \in SUBSET Commands
    /\ erred \in SUBSET Commands
    /\ closers \in SUBSET (0..MaxCommands)
    /\ cancels \in SUBSET (0..MaxCommands)
    /\ packets \in SUBSET (0..MaxCommands)
    /\ sessions \in 0..MaxSessions
    /\ queries \in Seq([cmd : Commands, rest : Seq(Statements)])
    \* the generation of the last command is the number of commands that ran
    /\ \A c \in Commands : phase[c] = "none" <=> c > commandGeneration

\* The constructor.
Init ==
    /\ socket = "none"
    /\ stream = FALSE
    /\ connected = FALSE
    /\ protocolFaulted = FALSE
    /\ closing = FALSE
    /\ inTransaction = FALSE
    /\ executing = FALSE
    /\ commandGeneration = 0
    /\ activeExecution = NoCommand
    /\ buffer = <<>>
    /\ phase = [c \in Commands |-> "none"]
    /\ mode = [c \in Commands |-> "execute"]
    /\ text = [c \in Commands |-> "query"]
    /\ prevInTransaction = [c \in Commands |-> FALSE]
    /\ failed = {}
    /\ promise = [c \in Commands |-> "none"]
    /\ closers = {}
    /\ cancels = {}
    /\ packets = {}
    /\ sessions = 0
    /\ wire = <<>>
    /\ queries = <<>>
    /\ serverTx = FALSE
    /\ erred = {}
-----------------------------------------------------------------------------
(* The state of a command. *)

\* The promise of _doExecute or _doExecuteReader has not settled.
Unsettled(c) == phase[c] \in {"drain", "send", "wait"}

\* The response generator of the command is reading.
Reading(c) == phase[c] \in {"wait", "open", "closing"}

\* The command has to give _executing back.
Busy(c) == phase[c] \in {"drain", "send", "wait", "open", "closing", "ended"}

CanExecute == ~protocolFaulted /\ ~closing /\ connected /\ stream

StartsTransaction(t) == t \in {"begin", "batch"}
EndsTransaction(t) == t \in {"end", "batch"}

\* _trackTransactionState: the last boundary of the text decides.
Tracked(t) ==
    IF EndsTransaction(t) THEN FALSE
    ELSE StartsTransaction(t) \/ inTransaction

\* Mutant of Restored: a failed batch is not taken for an open transaction.
RestoredWithoutStart(c) ==
    IF EndsTransaction(text[c]) THEN prevInTransaction[c]
    ELSE IF StartsTransaction(text[c]) THEN inTransaction
    ELSE prevInTransaction[c]

\* _restoreTransactionStateOnError
Restored(c) ==
    IF EndsTransaction(text[c]) THEN prevInTransaction[c] \/ StartsTransaction(text[c])
    ELSE IF StartsTransaction(text[c]) THEN inTransaction
    ELSE prevInTransaction[c]

Settle(c, outcome) ==
    promise' = [promise EXCEPT ![c] = IF @ = "pending" THEN outcome ELSE @]

\* _trackExecution: the execution has settled.
Untrack(c) ==
    activeExecution' = IF activeExecution = c THEN NoCommand ELSE activeExecution

Release(c) ==
    /\ phase' = [phase EXCEPT ![c] = "done"]
    /\ executing' = FALSE

\* The session is over: the server rolls back, what it had sent is lost.  A
\* message of which the connection has read a part leaves a fragment behind.
SessionLost ==
    /\ wire' = <<>>
    /\ queries' = <<>>
    /\ serverTx' = FALSE
    /\ UNCHANGED erred

FragmentLeft ==
    \/ UNCHANGED buffer
    \/ /\ executing
       /\ wire # <<>>
       /\ buffer' = Append(buffer, [cmd |-> wire[1].cmd, kind |-> "fragment"])

\* _markProtocolFault
Fault ==
    /\ protocolFaulted' = TRUE
    /\ connected' = FALSE
    /\ socket' = IF socket = "none" THEN "none" ELSE "destroyed"
    /\ SessionLost
    /\ UNCHANGED <<stream, closing>>

NoFault == UNCHANGED <<flags, wire, server>>
-----------------------------------------------------------------------------
(* connect() and close() *)

(***************************************************************************)
(* connect() of an application that has awaited its commands, its readers  *)
(* and its close() calls.                                                  *)
(***************************************************************************)
Connect ==
    /\ socket \in {"none", "destroyed"}
    /\ ~executing
    /\ closers = {}
    /\ sessions < MaxSessions
    /\ socket' = "connecting"
    /\ sessions' = sessions + 1
    /\ UNCHANGED <<stream, connected, protocolFaulted, closing, inTransaction,
                   executing, commandGeneration, activeExecution, buffer, phase,
                   locals, failed, promise, pending, wire, server>>

ConnectSucceeds ==
    /\ socket = "connecting"
    /\ socket' = "open"
    /\ stream' = TRUE
    /\ connected' = TRUE
    /\ inTransaction' = FALSE
    /\ UNCHANGED <<protocolFaulted, closing, executing, commandGeneration,
                   activeExecution, buffer, phase, locals, failed, promise, pending,
                   sessions, wire, server>>

\* Before or after _stream was set to the socket.
ConnectFails ==
    /\ socket = "connecting"
    /\ socket' = "destroyed"
    /\ stream' \in {stream, TRUE}
    /\ UNCHANGED <<connected, protocolFaulted, closing, inTransaction,
                   executing, commandGeneration, activeExecution, buffer, phase,
                   locals, failed, promise, pending, sessions, wire, server>>

\* The 'error' and 'close' events of a live socket.
SocketDies ==
    /\ socket = "open"
    /\ socket' = "destroyed"
    /\ connected' = FALSE
    /\ SessionLost
    /\ FragmentLeft
    /\ UNCHANGED <<stream, protocolFaulted, closing, inTransaction, executing,
                   commandGeneration, activeExecution, phase, locals, failed,
                   promise, pending, sessions>>

\* close() up to the wait for the active execution, when there is anything to
\* close, to reset or to wait for.
CloseBegins ==
    /\ ~closing
    /\ socket # "none" \/ stream \/ inTransaction \/ activeExecution # NoCommand
    /\ inTransaction' = FALSE
    /\ closers' = closers \cup {activeExecution}
    /\ IF socket \in {"none", "destroyed"}
       THEN UNCHANGED <<flags, buffer, wire, server>>
       ELSE /\ closing' = TRUE
            /\ connected' = FALSE
            /\ socket' = "destroyed"
            /\ SessionLost
            /\ FragmentLeft
            /\ UNCHANGED <<stream, protocolFaulted>>
    /\ UNCHANGED <<executing, commandGeneration, activeExecution, phase, locals,
                   failed, promise, cancels, packets, sessions>>

\* Mutant of CloseEnds: the stream is cleared without waiting.
CloseEndsAtOnce(w) ==
    /\ w \in closers
    /\ closers' = closers \ {w}
    /\ socket' = "none"
    /\ stream' = FALSE
    /\ connected' = FALSE
    /\ closing' = FALSE
    /\ UNCHANGED <<protocolFaulted, inTransaction, executing, commandGeneration,
                   activeExecution, buffer, phase, locals, failed, promise, cancels,
                   packets, sessions, wire, server>>

\* The rest of close(), once the execution it waits for has settled.
CloseEnds(w) ==
    /\ w \in closers
    /\ w = NoCommand \/ (w \in Commands /\ ~Unsettled(w))
    /\ closers' = closers \ {w}
    /\ socket' = "none"
    /\ stream' = FALSE
    /\ connected' = FALSE
    /\ closing' = FALSE
    /\ UNCHANGED <<protocolFaulted, inTransaction, executing, commandGeneration,
                   activeExecution, buffer, phase, locals, failed, promise, cancels,
                   packets, sessions, wire, server>>
-----------------------------------------------------------------------------
(* Starting a command *)

\* stream.read() returns the chunks that have arrived: k whole messages.
Pull(k) ==
    /\ buffer' = buffer \o SubSeq(wire, 1, k)
    /\ wire' = SubSeq(wire, k + 1, Len(wire))

\* Mutant of Execute: a second command is let in.
ExecuteUnlocked(m, t) ==
    LET c == commandGeneration + 1 IN
    /\ c \in Commands
    /\ CanExecute
    /\ executing' = TRUE
    /\ commandGeneration' = c
    /\ activeExecution' = IF CommandTimeout THEN c ELSE activeExecution
    /\ mode' = [mode EXCEPT ![c] = m]
    /\ text' = [text EXCEPT ![c] = t]
    /\ prevInTransaction' = [prevInTransaction EXCEPT ![c] = inTransaction]
    /\ promise' = [promise EXCEPT ![c] = "pending"]
    /\ \E k \in 0..Len(wire) : Pull(k)
    /\ phase' = [phase EXCEPT ![c] = IF buffer' = <<>> THEN "send" ELSE "drain"]
    /\ UNCHANGED <<flags, inTransaction, failed, pending, sessions, server>>

(***************************************************************************)
(* execute() or executeReader() up to the first await of                   *)
(* _ensureProtocolSynced, which looks at what has arrived: with an empty   *)
(* buffer it takes the stream for synchronised.                            *)
(***************************************************************************)
Execute(m, t) ==
    LET c == commandGeneration + 1 IN
    /\ c \in Commands
    /\ CanExecute
    /\ ~executing
    /\ executing' = TRUE
    /\ commandGeneration' = c
    /\ activeExecution' = IF CommandTimeout THEN c ELSE activeExecution
    /\ mode' = [mode EXCEPT ![c] = m]
    /\ text' = [text EXCEPT ![c] = t]
    /\ prevInTransaction' = [prevInTransaction EXCEPT ![c] = inTransaction]
    /\ promise' = [promise EXCEPT ![c] = "pending"]
    /\ \E k \in 0..Len(wire) : Pull(k)
    /\ phase' = [phase EXCEPT ![c] = IF buffer' = <<>> THEN "send" ELSE "drain"]
    /\ UNCHANGED <<flags, inTransaction, failed, pending, sessions, server>>

(***************************************************************************)
(* A call that _doExecute refuses.  _trackExecution has already replaced   *)
(* the active execution by the rejected one, which then untracks itself.   *)
(***************************************************************************)
ExecuteRefused ==
    /\ Refusals
    /\ executing \/ ~CanExecute
    /\ CommandTimeout
    /\ activeExecution # NoCommand
    /\ activeExecution' = NoCommand
    /\ UNCHANGED <<flags, inTransaction, executing, commandGeneration, buffer, phase,
                   locals, failed, promise, pending, sessions, wire, server>>

\* What has arrived is taken by a command that has nothing buffered.
TakesArrived ==
    /\ buffer = <<>>
    /\ socket = "open"
    /\ \E k \in 1..Len(wire) : Pull(k)
    /\ UNCHANGED <<flags, inTransaction, executing, commandGeneration, activeExecution,
                   phase, locals, failed, promise, pending, sessions, server>>

\* _waitForReadable, while a response is read.
Readable(c) == Reading(c) /\ TakesArrived

\* _waitForReadableTimeout, while an orphaned response is looked for.
OrphanReadable(c) == phase[c] = "drain" /\ TakesArrived

Received(kind) == buffer # <<>> /\ buffer[1].kind = kind
Consume == buffer' = Tail(buffer)

\* _ensureProtocolSynced drops an orphaned message; a ReadyForQuery ends it.
Drain(c) ==
    /\ phase[c] = "drain"
    /\ \E kind \in {"row", "complete", "error", "extern", "ready"} : Received(kind)
    /\ Consume
    /\ phase' = [phase EXCEPT ![c] = IF Received("ready") THEN "send" ELSE @]
    /\ NoFault
    /\ UNCHANGED <<inTransaction, executing, commandGeneration, activeExecution,
                   locals, failed, promise, pending, sessions>>

(***************************************************************************)
(* It gives up on a message it cannot parse and, after two seconds, on one *)
(* that does not come.                                                     *)
(***************************************************************************)
DrainFails(c) ==
    /\ phase[c] = "drain"
    /\ \/ buffer = <<>>
       \/ \E kind \in {"extern", "bad", "fragment"} : Received(kind)
    /\ Fault
    /\ Release(c)
    /\ Untrack(c)
    /\ Settle(c, "rejected")
    /\ inTransaction' = prevInTransaction[c]
    /\ UNCHANGED <<commandGeneration, buffer, locals, failed, pending, sessions>>

\* _preExecution, and the response loop starts.
Send(c) ==
    /\ phase[c] = "send"
    /\ CanExecute
    /\ socket = "open"
    /\ inTransaction' = Tracked(text[c])
    /\ queries' = Append(queries, [cmd |-> c, rest |-> Script(text[c])])
    /\ phase' = [phase EXCEPT ![c] = "wait"]
    /\ UNCHANGED <<flags, executing, commandGeneration, activeExecution, buffer,
                   locals, failed, promise, pending, sessions, wire, serverTx, erred>>

\* The connection was closed or died while the stream was synchronised.
SendFails(c) ==
    /\ phase[c] = "send"
    /\ ~CanExecute \/ socket # "open"
    /\ Release(c)
    /\ Untrack(c)
    /\ Settle(c, "rejected")
    /\ inTransaction' = prevInTransaction[c]
    /\ NoFault
    /\ UNCHANGED <<commandGeneration, buffer, locals, failed, pending, sessions>>
-----------------------------------------------------------------------------
(* Reading the response *)

\* executeReader() stops at the first row and hands the reader out.
HandsOut(c) == phase[c] = "wait" /\ mode[c] = "reader" /\ Received("row") /\ c \notin failed

\* A message that only moves the reading on.
Skip(c) ==
    /\ Reading(c)
    /\ \E kind \in {"row", "complete", "extern"} : Received(kind)
    /\ ~HandsOut(c)
    /\ Consume
    /\ NoFault
    /\ UNCHANGED <<inTransaction, executing, commandGeneration, activeExecution,
                   phase, locals, failed, promise, pending, sessions>>

\* Mutant of HandOut: the reader of a command that timed out stays open.
HandOutLate(c) ==
    /\ HandsOut(c)
    /\ Consume
    /\ phase' = [phase EXCEPT ![c] = "open"]
    /\ Settle(c, "resolved")
    /\ Untrack(c)
    /\ NoFault
    /\ UNCHANGED <<inTransaction, executing, commandGeneration, locals, failed,
                   pending, sessions>>

\* The reader of a command whose caller has timed out is closed at once.
HandOut(c) ==
    /\ HandsOut(c)
    /\ Consume
    /\ phase' = [phase EXCEPT ![c] = IF promise[c] = "timedOut" THEN "closing" ELSE "open"]
    /\ Settle(c, "resolved")
    /\ Untrack(c)
    /\ NoFault
    /\ UNCHANGED <<inTransaction, executing, commandGeneration, locals, failed,
                   pending, sessions>>

\* Mutant of SeeError: the loop forgets the error.
SeeErrorForgotten(c) ==
    /\ Reading(c)
    /\ Received("error")
    /\ Consume
    /\ NoFault
    /\ UNCHANGED <<failed, inTransaction, executing, commandGeneration, activeExecution,
                   phase, locals, promise, pending, sessions>>

\* The loop keeps the error and reads on; read() throws it, close() drops it.
SeeError(c) ==
    /\ Reading(c)
    /\ Received("error")
    /\ Consume
    /\ failed' = IF phase[c] = "wait" THEN failed \cup {c} ELSE failed
    /\ NoFault
    /\ UNCHANGED <<inTransaction, executing, commandGeneration, activeExecution,
                   phase, locals, promise, pending, sessions>>

(***************************************************************************)
(* ReadyForQuery.  execute() settles; executeReader() without a result set *)
(* hands out a reader at its end; an open or closing reader releases the   *)
(* connection.                                                             *)
(***************************************************************************)
ResponseEnds(c) ==
    /\ Reading(c)
    /\ Received("ready")
    /\ Consume
    /\ IF phase[c] = "wait" /\ mode[c] = "reader" /\ c \notin failed
       THEN /\ phase' = [phase EXCEPT ![c] = "ended"]
            /\ UNCHANGED executing
       ELSE Release(c)
    /\ Untrack(c)
    /\ Settle(c, IF c \in failed THEN "rejected" ELSE "resolved")
    /\ inTransaction' = IF phase[c] = "wait" /\ c \in failed THEN Restored(c)
                        ELSE inTransaction
    /\ NoFault
    /\ UNCHANGED <<commandGeneration, locals, failed, pending, sessions>>

(***************************************************************************)
(* The response generator throws.  A command fails; an open reader is at   *)
(* its end, whatever is still to be read; close() ignores the exception.   *)
(***************************************************************************)
GeneratorThrows(c) ==
    /\ IF phase[c] = "open"
       THEN /\ phase' = [phase EXCEPT ![c] = "ended"]
            /\ UNCHANGED executing
       ELSE Release(c)
    /\ Untrack(c)
    /\ Settle(c, "rejected")
    /\ inTransaction' = IF phase[c] = "wait" THEN Restored(c) ELSE inTransaction
    /\ UNCHANGED <<commandGeneration, locals, failed, pending, sessions>>

\* A file cannot be read or written: not an NzProtocolError.
ExternalTableFails(c) ==
    /\ LocalFailures
    /\ Reading(c)
    /\ Received("extern")
    /\ Consume
    /\ GeneratorThrows(c)
    /\ NoFault

\* validateProtocolLength throws an NzProtocolError.
BadFrame(c) ==
    /\ Reading(c)
    /\ Received("bad")
    /\ Consume
    /\ GeneratorThrows(c)
    /\ Fault

\* The socket is gone and what is buffered does not make a message.
ReadFails(c) ==
    /\ Reading(c)
    /\ buffer = <<>> \/ Received("fragment")
    /\ socket \in {"none", "destroyed"} \/ ~stream
    /\ GeneratorThrows(c)
    /\ NoFault
    /\ UNCHANGED buffer

\* Mutant of CloseReader: the connection is released with rows unread.
CloseReaderUndrained(c) ==
    /\ phase[c] = "open"
    /\ Release(c)
    /\ NoFault
    /\ UNCHANGED <<inTransaction, commandGeneration, activeExecution, buffer, locals,
                   failed, promise, pending, sessions>>

\* NzDataReader.close(): the rest of the response is skipped.
CloseReader(c) ==
    /\ phase[c] = "open"
    /\ phase' = [phase EXCEPT ![c] = "closing"]
    /\ NoFault
    /\ UNCHANGED <<inTransaction, executing, commandGeneration, activeExecution, buffer,
                   locals, failed, promise, pending, sessions>>

\* Mutant of ReleaseReader: the release callback is not called.
ReleaseReaderSilent(c) ==
    /\ phase[c] = "ended"
    /\ phase' = [phase EXCEPT ![c] = "done"]
    /\ NoFault
    /\ UNCHANGED <<executing, inTransaction, commandGeneration, activeExecution, buffer,
                   locals, failed, promise, pending, sessions>>

\* read(), nextResult() or close() of a reader whose generator has ended.
ReleaseReader(c) ==
    /\ phase[c] = "ended"
    /\ Release(c)
    /\ NoFault
    /\ UNCHANGED <<inTransaction, commandGeneration, activeExecution, buffer, locals,
                   failed, promise, pending, sessions>>
-----------------------------------------------------------------------------
(* Timeouts and cancel() *)

\* The timer of execute() or executeReader(): the caller is told at once.
TimeOut(c) ==
    /\ CommandTimeout
    /\ promise[c] = "pending"
    /\ promise' = [promise EXCEPT ![c] = "timedOut"]
    /\ cancels' = IF c = commandGeneration THEN cancels \cup {c} ELSE cancels
    /\ UNCHANGED <<flags, inTransaction, executing, commandGeneration, activeExecution,
                   buffer, phase, locals, failed, closers, packets, sessions, wire, server>>

\* NzCommand.cancel(): without a generation to check.
Cancel ==
    /\ sessions > 0
    /\ NoCommand \notin cancels
    /\ cancels' = cancels \cup {NoCommand}
    /\ UNCHANGED <<flags, inTransaction, executing, commandGeneration, activeExecution,
                   buffer, phase, locals, failed, promise, closers, packets, sessions,
                   wire, server>>

\* The cancel socket has connected: the request is stale or it is sent.
CancelConnects(g) ==
    /\ g \in cancels
    /\ cancels' = cancels \ {g}
    /\ packets' = IF g \in {NoCommand, commandGeneration} THEN packets \cup {g} ELSE packets
    /\ UNCHANGED <<flags, inTransaction, executing, commandGeneration, activeExecution,
                   buffer, phase, locals, failed, promise, closers, sessions, wire, server>>

\* The cancel socket fails or times out.
CancelFails(g) ==
    /\ g \in cancels
    /\ cancels' = cancels \ {g}
    /\ UNCHANGED <<flags, inTransaction, executing, commandGeneration, activeExecution,
                   buffer, phase, locals, failed, promise, closers, packets, sessions,
                   wire, server>>
-----------------------------------------------------------------------------
(* The server *)

Say(c, kinds) == wire' = wire \o [i \in DOMAIN kinds |-> [cmd |-> c, kind |-> kinds[i]]]

Answers(s) ==
    IF s = "query"
    THEN {<<"row", "complete">>}
         \cup (IF LocalFailures THEN {<<"extern", "complete">>} ELSE {})
         \cup (IF BadFrames THEN {<<"bad">>} ELSE {})
    ELSE {<<"complete">>}

Refusing(s) == IF s = "query" THEN {<<"error">>, <<"row", "error">>} ELSE {<<"error">>}

ServerRuns ==
    /\ queries # <<>>
    /\ queries[1].rest # <<>>
    /\ LET c == queries[1].cmd
           s == queries[1].rest[1]
       IN /\ \E kinds \in Answers(s) : Say(c, kinds)
          /\ queries' = [queries EXCEPT ![1].rest = Tail(@)]
          /\ serverTx' = (s = "begin" \/ (s = "query" /\ serverTx))
    /\ UNCHANGED <<flags, inTransaction, executing, commandGeneration, activeExecution,
                   buffer, phase, locals, failed, promise, pending, sessions, erred>>

\* A statement that fails ends its text and leaves the transaction as it is.
ServerFails ==
    /\ queries # <<>>
    /\ queries[1].rest # <<>>
    /\ LET c == queries[1].cmd
       IN /\ \E kinds \in Refusing(queries[1].rest[1]) : Say(c, kinds)
          /\ erred' = erred \cup {c}
    /\ queries' = [queries EXCEPT ![1].rest = <<>>]
    /\ UNCHANGED <<flags, inTransaction, executing, commandGeneration, activeExecution,
                   buffer, phase, locals, failed, promise, pending, sessions, serverTx>>

ServerReady ==
    /\ queries # <<>>
    /\ queries[1].rest = <<>>
    /\ Say(queries[1].cmd, <<"ready">>)
    /\ queries' = Tail(queries)
    /\ UNCHANGED <<flags, inTransaction, executing, commandGeneration, activeExecution,
                   buffer, phase, locals, failed, promise, pending, sessions, serverTx, erred>>

\* A cancel request ends whatever query the server is running.
ServerCancels(g) ==
    /\ g \in packets
    /\ packets' = packets \ {g}
    /\ IF queries # <<>> /\ queries[1].rest # <<>>
       THEN /\ Say(queries[1].cmd, <<"error">>)
            /\ erred' = erred \cup {queries[1].cmd}
            /\ queries' = [queries EXCEPT ![1].rest = <<>>]
       ELSE UNCHANGED <<wire, erred, queries>>
    /\ UNCHANGED <<flags, inTransaction, executing, commandGeneration, activeExecution,
                   buffer, phase, locals, failed, promise, closers, cancels, sessions,
                   serverTx>>
-----------------------------------------------------------------------------
Call ==
    \/ Connect
    \/ CloseBegins
    \/ \E t \in ExecuteTexts : Execute("execute", t)
    \/ \E t \in ReaderTexts : Execute("reader", t)
    \/ ExecuteRefused
    \/ Cancel
    \/ \E c \in Commands : CloseReader(c)

\* What a command does on its own once it has been accepted.
Progress(c) ==
    \/ Readable(c)
    \/ OrphanReadable(c)
    \/ Drain(c)
    \/ DrainFails(c)
    \/ Send(c)
    \/ SendFails(c)
    \/ Skip(c)
    \/ HandOut(c)
    \/ SeeError(c)
    \/ ResponseEnds(c)
    \/ ExternalTableFails(c)
    \/ BadFrame(c)
    \/ ReadFails(c)
    \/ ReleaseReader(c)

Server ==
    \/ ServerRuns
    \/ ServerFails
    \/ ServerReady

Next ==
    \/ Call
    \/ ConnectSucceeds
    \/ ConnectFails
    \/ SocketDies
    \/ \E w \in 0..MaxCommands : CloseEnds(w)
    \/ \E c \in Commands : Progress(c)
    \/ \E c \in Commands : TimeOut(c)
    \/ \E g \in 0..MaxCommands : CancelConnects(g)
    \/ \E g \in 0..MaxCommands : CancelFails(g)
    \/ \E g \in 0..MaxCommands : ServerCancels(g)
    \/ Server

Spec == Init /\ [][Next]_vars

\* The next step is up to the caller that holds the reader.
Held(c) == phase[c] = "open" \/ (phase[c] = "ended" /\ promise[c] # "timedOut")

(***************************************************************************)
(* A command that no caller holds moves when it can, the server answers,   *)
(* and close() goes on once it may.  Callers may keep a reader open; no    *)
(* timer has to fire and no cancel has to arrive.                          *)
(***************************************************************************)
Fairness ==
    /\ \A c \in Commands : WF_vars(~Held(c) /\ Progress(c))
    /\ \A w \in 0..MaxCommands : WF_vars(CloseEnds(w))
    /\ WF_vars(Server)

FairSpec == Spec /\ Fairness
-----------------------------------------------------------------------------
(* Properties *)

\* Two commands never execute at once: whatever times out, is cancelled,
\* fails or is closed, the response loop or the reader of an earlier command
\* has ended before another one may write its query (_executing).
ExclusiveExecution == \A c, d \in Commands : Busy(c) /\ Busy(d) => c = d

\* _executing is set exactly while some command has to give it back: no end
\* of a response, no failure and no late reader leaves a connection for ever
\* "already executing", and none gives the lock back twice.
LockOwned == executing <=> \E c \in Commands : Busy(c)

\* Every message a command may still read, buffered or on its way, belongs to
\* the response of its own query (_ensureProtocolSynced and the draining of
\* readers keep responses from being attributed to the next command).
OwnResponse ==
    \A c \in Commands : Reading(c) =>
        /\ \A i \in DOMAIN buffer : buffer[i].cmd = c
        /\ \A i \in DOMAIN wire : wire[i].cmd = c

\* Between commands, a transaction open at the server is one the connection
\* knows of, so that the pool rolls it back (_trackTransactionState and
\* _restoreTransactionStateOnError, after errors, cancels and reconnects).
TransactionTracked ==
    connected /\ ~executing /\ serverTx => inTransaction

\* A command that execute() reports as done was not answered with an error,
\* whatever was cancelled and whichever response was read before.
HonestResult ==
    \A c \in Commands : promise[c] = "resolved" /\ mode[c] = "execute" => c \notin erred

\* close() keeps the stream until the execution in flight has settled.
StreamKept == \A c \in Commands : Unsettled(c) => stream

\* Nothing is left behind for good: a command whose caller has timed out ends and
\* gives the connection back, also when its result set arrives after the timeout
\* (executeReader closes the reader nobody received); and close() resolves,
\* although it waits for the execution in flight.
CallsSettle ==
    []<>(closers = {} /\ \A c \in Commands : promise[c] = "timedOut" => phase[c] = "done")
=============================================================================
