---------------------------- MODULE ExternalTable ----------------------------
(***************************************************************************)
(* src/external/ExternalTableHandler.ts: exports, imports and logs of      *)
(* external tables, in the middle of the responses of NzConnection.        *)
(*                                                                         *)
(* The client is again a sequence of reads and waits; `at` names the one   *)
(* it is in.  The files are Node streams, whose errors arrive at any time. *)
(* Server, files and sources of imports are external.  Each exchange opens *)
(* a stream of its own, named by a number.                                 *)
(***************************************************************************)
EXTENDS Integers, Sequences, SequencesExt

CONSTANTS
    MaxExchanges,   \* bound: transfers the server starts
    MaxBlocks,      \* bound: blocks of data of one transfer
    LateErrors      \* may a stream left over by a failed command fail later?

ASSUME BoundsAssumption ==
    MaxExchanges \in Nat /\ MaxBlocks \in Nat /\ LateErrors \in BOOLEAN

None == 0
Streams == 1..MaxExchanges

\* Places of the client: "type" reads the next message of the response,
\* "status" the next status of an export, "config" the server's part of an
\* import, "chunk" the next chunk of a log; "writing" waits for the socket,
\* "drain", "finishing" and "saving" for a file, "source" for the data to
\* import; "sync" looks for the end of an earlier response; "ended" and
\* "failed" are the outcomes of the command.
Reads == {"type", "status", "config", "chunk", "sync"}
Waits == {"writing", "drain", "finishing", "saving", "source"}
Outcomes == {"ended", "failed"}
Places == Reads \cup Waits \cup Outcomes

\* What the server says; "bad" is a message with an invalid length.
Starts == {"u", "l", "e", "x"}
Said == Starts \cup {"U", "data", "done", "error", "unknown", "config", "chunk", "eof",
                     "ready", "bad"}
Packets == {"query", "opened", "refused", "version", "data", "done", "error"}

\* What a read at p understands.
Expected == [
    type   |-> Starts \cup {"U", "ready", "bad"},
    status |-> {"data", "done", "error", "unknown", "bad"},
    config |-> {"config", "bad"},
    chunk  |-> {"chunk", "eof", "bad"},
    sync   |-> {"ready", "bad"}]

VARIABLES
    at,
    afterWrite,     \* where the client goes when the socket has taken the packet
    opened,         \* streams opened so far
    since,          \* streams opened before the current command
    exportStream,   \* _exportStream of the connection, None for null
    writeStream,    \* the local writeStream of the handler
    file,           \* state of each file stream
    ending,         \* has end() been called on it?
    queued,         \* blocks in its buffer
    disk,           \* blocks of it on disk
    logs,           \* the streams opened by saveLog
    taken,          \* blocks the handler has written to writeStream
    timer,          \* is the timeout of _finishExportStream armed?
    source,         \* chunks the import still has to send
    total,          \* chunks it had
    broken,         \* has its source failed?
    \* socket and server
    socket,         \* "open" or "dead"
    wire,           \* what the server has said
    sent,           \* packets on their way to the server
    strayed,        \* history: has this command begun before the response of
                    \* an earlier one was read to its end?
    server,         \* what the server does
    served,         \* blocks it has sent or received in this exchange
    verdict,        \* how it takes the import: "none", "done" or "error"
    exchanges       \* exchanges so far

streams == <<opened, since, logs>>
files == <<streams, file, ending, queued, disk>>
handler == <<afterWrite, exportStream, writeStream, taken, timer>>
import == <<source, total, broken>>
network == <<socket, wire, sent, strayed>>
serving == <<server, served, verdict, exchanges>>
vars == <<at, handler, files, import, network, serving>>

FileStates == {"none", "opening", "open", "finished", "destroyed"}
ServerStates == {"idle", "offering", "exporting", "greeting", "importing", "logging",
                 "ready"}

\* The state is well typed.
TypeOK ==
    /\ at \in Places
    /\ afterWrite \in Places
    /\ exportStream \in Streams \cup {None}
    /\ writeStream \in Streams \cup {None}
    /\ file \in [Streams -> FileStates]
    /\ ending \in [Streams -> BOOLEAN]
    /\ queued \in [Streams -> Nat]
    /\ disk \in [Streams -> Nat]
    /\ logs \subseteq Streams
    /\ opened \in 0..MaxExchanges /\ since \in 0..MaxExchanges
    /\ taken \in Nat
    /\ timer \in BOOLEAN
    /\ source \in Nat /\ total \in Nat /\ broken \in BOOLEAN
    /\ socket \in {"open", "dead"}
    /\ wire \in Seq(Said)
    /\ sent \in Seq(Packets)
    /\ strayed \in BOOLEAN
    /\ server \in ServerStates
    /\ served \in Nat
    /\ verdict \in {"none", "done", "error"}
    /\ exchanges \in 0..MaxExchanges

\* new NzConnection() once it is connected, with its first command sent.
Init ==
    /\ at = "type" /\ afterWrite = "type"
    /\ exportStream = None /\ writeStream = None
    /\ file = [k \in Streams |-> "none"]
    /\ ending = [k \in Streams |-> FALSE]
    /\ queued = [k \in Streams |-> 0]
    /\ disk = [k \in Streams |-> 0]
    /\ opened = 0 /\ since = 0 /\ logs = {} /\ taken = 0 /\ timer = FALSE
    /\ source = 0 /\ total = 0 /\ broken = FALSE
    /\ socket = "open" /\ wire = <<>> /\ sent = <<>> /\ strayed = FALSE
    /\ server = "idle" /\ served = 0 /\ verdict = "none"
    /\ exchanges = 0

-----------------------------------------------------------------------------
\* Reading and writing.

\* The client waits at p and reads the token it has been sent.
Receive(p, said) ==
    /\ at = p
    /\ wire # <<>>
    /\ Head(wire) = said
    /\ wire' = Tail(wire)
    /\ UNCHANGED <<socket, strayed, serving>>

\* io.write(packet): the client goes to p once the socket has taken it.
Write(packet, p) ==
    /\ at' = "writing"
    /\ afterWrite' = p
    /\ sent' = IF socket = "open" THEN Append(sent, packet) ELSE sent

\* The write callback, or 'drain' when the socket is under back-pressure.
Written ==
    /\ at = "writing" /\ socket = "open"
    /\ at' = afterWrite
    /\ UNCHANGED <<handler, files, import, network, serving>>

\* The write callback with an error, or no socket at all.
WriteFails ==
    /\ at = "writing" /\ socket = "dead"
    /\ at' = "failed"
    /\ UNCHANGED <<handler, files, import, network, serving>>

\* The stream of the handler after destroy().
Destroyed == [file EXCEPT ![writeStream] = "destroyed"]

\* The socket is lost, with what was on its way.
Lost ==
    /\ socket' = "dead" /\ sent' = <<>> /\ server' = "ready"
    /\ UNCHANGED <<strayed, served, verdict, exchanges>>

\* A read that can no longer be answered, or finds an invalid length: that is
\* an NzProtocolError, and _markProtocolFault destroys the socket.  Only saveLog
\* destroys its stream.
ReadFails ==
    /\ at \in Reads
    /\ \/ /\ socket = "dead" /\ wire = <<>>
          /\ UNCHANGED <<network, serving>>
       \/ /\ wire # <<>> /\ Head(wire) = "bad"
          /\ wire' = <<>> /\ Lost
    /\ at' = "failed"
    /\ file' = IF at = "chunk" THEN Destroyed ELSE file
    /\ UNCHANGED <<handler, ending, queued, disk, streams, import>>

-----------------------------------------------------------------------------
\* Messages the generator handles without a transfer.

\* 'x', the server has cancelled an operation on an external table.
Skip ==
    /\ Receive("type", "x")
    /\ UNCHANGED <<at, handler, files, import, sent>>

\* The rest of the response, up to ReadyForQuery.
ResponseEnds ==
    /\ Receive("type", "ready")
    /\ at' = "ended"
    /\ UNCHANGED <<handler, files, import, sent>>

-----------------------------------------------------------------------------
\* Export.

CreateWriteStream ==
    /\ opened' = opened + 1
    /\ file' = [file EXCEPT ![opened'] = "opening"]

\* handleExportStart().  createWriteStream throws for a name no file can have;
\* any other error comes later, see FileFails.
handleExportStart ==
    /\ Receive("type", "u")
    /\ \/ /\ CreateWriteStream
          /\ exportStream' = opened'
          /\ Write("opened", "type")
       \/ /\ Write("refused", "type")
          /\ UNCHANGED <<opened, file, exportStream>>
    /\ UNCHANGED <<since, writeStream, ending, queued, disk, logs, taken, timer, import>>

\* handleExportData() up to the first status.
handleExportData ==
    /\ Receive("type", "U")
    /\ writeStream' = exportStream
    /\ taken' = 0
    /\ at' = "status"
    /\ UNCHANGED <<afterWrite, exportStream, timer, files, import, sent>>

ExportReturnsKept(finished) ==
    /\ at' = "type"
    /\ UNCHANGED exportStream
    /\ file' = IF finished THEN [file EXCEPT ![writeStream] = "finished"] ELSE file

\* handleExportData() after _consumeData; destroy() of a finished stream
\* changes nothing.
ExportReturns(finished) ==
    /\ at' = "type"
    /\ exportStream' = None
    /\ file' = IF finished THEN [file EXCEPT ![writeStream] = "finished"]
               ELSE IF writeStream = None THEN file ELSE Destroyed

\* write() of a live stream queues the block, and says whether to wait for
\* 'drain'; write() of a destroyed stream drops it and always says so.
Queue(full) ==
    IF file[writeStream] = "destroyed"
    THEN at' = "drain" /\ UNCHANGED queued
    ELSE /\ queued' = [queued EXCEPT ![writeStream] = @ + 1]
         /\ at' = IF full THEN "drain" ELSE "status"

\* _consumeData with DATA, _writeExportChunk.
ConsumeBlock ==
    /\ Receive("status", "data")
    /\ taken' = taken + 1
    /\ IF writeStream = None
       THEN at' = "status" /\ UNCHANGED queued
       ELSE \E full \in BOOLEAN : Queue(full)
    /\ UNCHANGED <<afterWrite, exportStream, writeStream, timer, file, ending, disk, streams,
                   import, sent>>

ExportDoneAtOnce ==
    /\ Receive("status", "done")
    /\ ExportReturns(FALSE)
    /\ UNCHANGED <<afterWrite, writeStream, timer, ending, queued, disk, streams, taken, import,
                   sent>>

\* _consumeData with DONE; _finishExportStream ends the stream and races
\* 'finish' against a timer.
ExportDone ==
    /\ Receive("status", "done")
    /\ IF writeStream = None
       THEN ExportReturns(FALSE) /\ UNCHANGED <<ending, timer>>
       ELSE /\ at' = "finishing"
            /\ ending' = [ending EXCEPT ![writeStream] = TRUE]
            /\ timer' = TRUE
            /\ UNCHANGED <<file, exportStream>>
    /\ UNCHANGED <<afterWrite, writeStream, queued, disk, streams, taken, import, sent>>

\* _consumeData with ERROR or an unknown status: end() and, in the same turn,
\* destroy().
ExportStops ==
    /\ Receive("status", "error") \/ Receive("status", "unknown")
    /\ ExportReturns(FALSE)
    /\ UNCHANGED <<afterWrite, writeStream, timer, ending, queued, disk, streams, taken, import,
                   sent>>

\* The timer of _finishExportStream: the reference to the stream is kept.
FinishTimesOut ==
    /\ at = "finishing" /\ timer
    /\ timer' = FALSE
    /\ at' = "failed"
    /\ file' = Destroyed
    /\ UNCHANGED <<afterWrite, exportStream, writeStream, ending, queued, disk, streams, taken,
                   import, network, serving>>

-----------------------------------------------------------------------------
\* Import.

\* handleImport() up to the version it sends.
handleImport ==
    /\ Receive("type", "l")
    /\ Write("version", "config")
    /\ UNCHANGED <<exportStream, writeStream, files, taken, timer, import>>

ImportConfiguredSilent ==
    /\ Receive("config", "config")
    /\ \/ at' \in {"type", "failed"} /\ UNCHANGED import
       \/ \E n \in 0..MaxBlocks :
            /\ source' = n /\ total' = n /\ broken' = FALSE
            /\ at' = "source"
    /\ UNCHANGED <<handler, files, sent>>

\* handleImport() with the server's format and buffer size: without a file or
\* registered stream it sends ERROR and returns, otherwise it opens the source;
\* statSync throws, and nothing is sent, if the file has gone meanwhile.
ImportConfigured ==
    /\ Receive("config", "config")
    /\ \/ /\ Write("error", "type")
          /\ UNCHANGED import
       \/ /\ at' = "failed"
          /\ UNCHANGED <<afterWrite, sent, import>>
       \/ \E n \in 0..MaxBlocks :
            /\ source' = n /\ total' = n /\ broken' = FALSE
            /\ at' = "source"
            /\ UNCHANGED <<afterWrite, sent>>
    /\ UNCHANGED <<exportStream, writeStream, files, taken, timer>>

\* One turn of the loop over the source: header and chunk are written.
SourceChunk ==
    /\ at = "source" /\ source > 0
    /\ source' = source - 1
    /\ Write("data", "source")
    /\ UNCHANGED <<exportStream, writeStream, files, taken, timer, total, broken, socket, wire,
                   strayed, serving>>

\* The loop ends: DONE.
SourceEnds ==
    /\ at = "source" /\ source = 0
    /\ Write("done", "type")
    /\ UNCHANGED <<exportStream, writeStream, files, taken, timer, import, socket, wire,
                   strayed, serving>>

SourceFailsQuietly ==
    /\ at = "source"
    /\ broken' = TRUE
    /\ Write("done", "type")
    /\ UNCHANGED <<exportStream, writeStream, files, taken, timer, source, total, socket, wire,
                   strayed, serving>>

\* The source or a listener of 'importProgress' throws: ERROR with its message,
\* and the error is thrown.
SourceFails ==
    /\ at = "source"
    /\ broken' = TRUE
    /\ Write("error", "failed")
    /\ UNCHANGED <<exportStream, writeStream, files, taken, timer, source, total, socket, wire,
                   strayed, serving>>

-----------------------------------------------------------------------------
\* Logs.

\* 'e' and saveLog() up to its first chunk; createWriteStream throws for a name
\* no file can have, and the chunks are then left unread.
saveLog ==
    /\ Receive("type", "e")
    /\ \/ /\ CreateWriteStream
          /\ logs' = logs \cup {opened'}
          /\ writeStream' = opened'
          /\ taken' = 0
          /\ at' = "chunk"
       \/ /\ at' = "failed"
          /\ UNCHANGED <<opened, file, logs, writeStream, taken>>
    /\ UNCHANGED <<since, afterWrite, exportStream, timer, ending, queued, disk, import, sent>>

\* A chunk is written unless the stream has failed (hasError).
LogChunk ==
    /\ Receive("chunk", "chunk")
    /\ taken' = taken + 1
    /\ queued' = [queued EXCEPT ![writeStream] =
                    IF file[writeStream] = "destroyed" THEN @ ELSE @ + 1]
    /\ UNCHANGED <<at, afterWrite, exportStream, writeStream, timer, file, ending, disk, streams,
                   import, sent>>

\* The empty chunk: end(callback).
LogEnds ==
    /\ Receive("chunk", "eof")
    /\ ending' = [ending EXCEPT ![writeStream] = TRUE]
    /\ at' = "saving"
    /\ UNCHANGED <<handler, file, queued, disk, streams, import, sent>>

\* A failed stream calls back with an error nobody looks at; it depends on the
\* version of Node whether 'error' comes first.
LogLost ==
    /\ at = "saving" /\ file[writeStream] = "destroyed"
    /\ at' \in {"type", "failed"}
    /\ UNCHANGED <<handler, files, import, network, serving>>

-----------------------------------------------------------------------------
\* File streams.

FileOpens(k) ==
    /\ file[k] = "opening"
    /\ file' = [file EXCEPT ![k] = "open"]
    /\ UNCHANGED <<at, handler, ending, queued, disk, streams, import, network, serving>>

\* A block reaches the disk; an empty buffer emits 'drain'.
FileWrites(k) ==
    /\ file[k] = "open" /\ queued[k] > 0
    /\ queued' = [queued EXCEPT ![k] = @ - 1]
    /\ disk' = [disk EXCEPT ![k] = @ + 1]
    /\ at' = IF at = "drain" /\ writeStream = k /\ queued[k] = 1 THEN "status" ELSE at
    /\ UNCHANGED <<handler, file, ending, streams, import, network, serving>>

\* 'finish', and what waits for it: _finishExportStream or saveLog.
FileFinishes(k) ==
    /\ file[k] = "open" /\ ending[k] /\ queued[k] = 0
    /\ IF at = "finishing" /\ writeStream = k
       THEN /\ ExportReturns(TRUE)
            /\ timer' = FALSE
       ELSE /\ file' = [file EXCEPT ![k] = "finished"]
            /\ at' = IF at = "saving" /\ writeStream = k THEN "type" ELSE at
            /\ UNCHANGED <<exportStream, timer>>
    /\ UNCHANGED <<afterWrite, writeStream, ending, queued, disk, streams, taken, import, network,
                   serving>>

\* Opening or writing fails: the listener of handleExportStart drops the
\* connection's reference, whatever it now is; once() rejects where the handler
\* waits.  saveLog only notes the error.
FileFails(k) ==
    /\ \/ file[k] = "opening"
       \/ file[k] = "open" /\ queued[k] > 0
    /\ k > since \/ LateErrors
    /\ file' = [file EXCEPT ![k] = "destroyed"]
    /\ IF k \in logs
       THEN UNCHANGED <<at, exportStream, timer>>
       ELSE /\ exportStream' = None
            /\ IF at \in {"drain", "finishing"} /\ writeStream = k
               THEN at' = "failed" /\ timer' = FALSE
               ELSE UNCHANGED <<at, timer>>
    /\ UNCHANGED <<afterWrite, writeStream, ending, queued, disk, streams, taken, import, network,
                   serving>>

-----------------------------------------------------------------------------
\* The commands around the exchanges, the server and the network.

\* The server has said, and the client has read, all of the last response.
InStep == server = "ready" /\ wire = <<>> /\ sent = <<>>

\* The server has the query and begins to answer it.
Answered ==
    /\ server' = "idle" /\ verdict' = "none" /\ strayed' = FALSE
    /\ UNCHANGED <<served, exchanges>>

\* The next command.  Only a lost socket is replaced, by that of a connection of
\* its own: any other failure of the last command leaves this one usable.
NextCommand ==
    /\ at \in Outcomes
    /\ at' = "type"
    /\ since' = opened
    /\ \/ /\ socket = "dead"
          /\ socket' = "open" /\ wire' = <<>> /\ sent' = <<>> /\ exportStream' = None
       \/ socket = "open" /\ InStep /\ UNCHANGED <<socket, wire, sent, exportStream>>
    /\ Answered
    /\ UNCHANGED <<opened, logs, afterWrite, writeStream, taken, timer, file, ending, queued,
                   disk, import>>

\* The next command while a response is unread, after a local failure: the query
\* is sent as long as nothing of that response has arrived, otherwise
\* _ensureProtocolSynced looks for its end first.
NextCommandStrays ==
    /\ at \in Outcomes
    /\ socket = "open" /\ ~InStep
    /\ since' = opened
    /\ strayed' = TRUE
    /\ \/ at' = "type" /\ sent' = Append(sent, "query")
       \/ at' = "sync" /\ wire # <<>> /\ UNCHANGED sent
    /\ UNCHANGED <<opened, logs, handler, file, ending, queued, disk, import, socket, wire,
                   serving>>

\* _ensureProtocolSynced finds ReadyForQuery, and the query is sent.
Synced ==
    /\ at = "sync" /\ wire # <<>> /\ Head(wire) = "ready"
    /\ at' = "type"
    /\ wire' = Tail(wire)
    /\ IF server = "ready" /\ wire' = <<>> /\ sent = <<>>
       THEN Answered /\ UNCHANGED sent
       ELSE sent' = Append(sent, "query") /\ UNCHANGED <<strayed, serving>>
    /\ UNCHANGED <<handler, files, import, socket>>

\* Its deadline passes with no byte left: an NzProtocolError.
SyncFails ==
    /\ at = "sync" /\ wire = <<>> /\ socket = "open"
    /\ at' = "failed"
    /\ Lost
    /\ UNCHANGED <<handler, files, import, wire>>

\* A read finds what it does not understand, the leftover of an earlier response
\* as a rule the raw blocks of a transfer.  Its bytes are taken for something
\* the read does understand, with or without a part of what follows, or for
\* nothing.
Misread ==
    /\ strayed
    /\ at \in Reads
    /\ wire # <<>> /\ Head(wire) \notin Expected[at]
    /\ \E n \in 1..Len(wire) :
         \/ wire' = SubSeq(wire, n + 1, Len(wire))
         \/ \E token \in Expected[at] \ {"u", "U", "l", "e"} :
              wire' = <<token>> \o SubSeq(wire, n + 1, Len(wire))
    /\ UNCHANGED <<at, handler, files, import, socket, sent, strayed, serving>>

Says(token, state) ==
    /\ wire' = Append(wire, token)
    /\ server' = state

\* Between two exchanges: the next one, or the rest of the response.
ServerStarts ==
    /\ server = "idle" /\ socket = "open"
    /\ \/ /\ exchanges < MaxExchanges
          /\ exchanges' = exchanges + 1
          /\ served' = 0 /\ verdict' = "none"
          /\ \/ Says("u", "offering")
             \/ Says("l", "greeting")
             \/ Says("e", "logging")
             \/ Says("x", "idle")
       \/ Says("ready", "ready") /\ UNCHANGED <<served, verdict, exchanges>>
    /\ UNCHANGED <<at, handler, files, import, socket, sent, strayed>>

\* In an exchange, blocks and how it ends.
ServerSends ==
    /\ socket = "open"
    /\ \/ server = "exporting" /\ served < MaxBlocks /\ Says("data", "exporting")
       \/ /\ server = "exporting"
          /\ \E end \in {"done", "error", "unknown", "bad"} : Says(end, "idle")
       \/ server = "logging" /\ served < MaxBlocks /\ Says("chunk", "logging")
       \/ /\ server = "logging"
          /\ \E end \in {"eof", "bad"} : Says(end, "idle")
    /\ served' = served + 1
    /\ UNCHANGED <<at, handler, files, import, socket, sent, strayed, verdict, exchanges>>

\* A packet of the client arrives.
Arrives(packet) ==
    /\ sent # <<>>
    /\ Head(sent) = packet
    /\ sent' = Tail(sent)
    /\ UNCHANGED <<at, handler, files, import, socket, strayed, exchanges>>

ServerReceives ==
    \/ server = "offering" /\ Arrives("opened") /\ Says("U", "exporting")
       /\ UNCHANGED <<served, verdict>>
    \/ server = "offering" /\ Arrives("refused") /\ server' = "idle"
       /\ UNCHANGED <<wire, served, verdict>>
    \/ /\ server = "greeting" /\ Arrives("version")
       /\ \E answer \in {"config", "bad"} : Says(answer, "importing")
       /\ UNCHANGED <<served, verdict>>
    \/ server = "importing" /\ Arrives("data")
       /\ served' = served + 1 /\ UNCHANGED <<server, wire, verdict>>
    \/ /\ server = "importing"
       /\ \E end \in {"done", "error"} : Arrives(end) /\ verdict' = end
       /\ server' = "idle" /\ UNCHANGED <<served, wire>>

\* The packets an exchange of the server waits for.
Awaited == [
    offering  |-> {"opened", "refused"},
    greeting  |-> {"version"},
    importing |-> {"data", "done", "error"}]

\* Packets of a command that is not the one the server answers: a packet it does
\* not wait for ends the exchange in an error, the next query waits for the end
\* of the response, and what else arrives there is dropped.
ServerDiscards ==
    \/ /\ server \in DOMAIN Awaited
       /\ \E packet \in Packets \ Awaited[server] : Arrives(packet)
       /\ server' = "idle" /\ verdict' = "error" /\ UNCHANGED <<wire, served>>
    \/ /\ server = "ready" /\ Arrives("query")
       /\ server' = "idle" /\ verdict' = "none" /\ UNCHANGED <<wire, served>>
    \/ /\ server = "ready"
       /\ \E packet \in Packets \ {"query"} : Arrives(packet)
       /\ UNCHANGED <<server, wire, served, verdict>>

SocketDies ==
    /\ socket = "open"
    /\ Lost
    /\ UNCHANGED <<at, handler, files, import, wire>>

-----------------------------------------------------------------------------

Transfer ==
    \/ handleExportStart \/ handleExportData \/ ConsumeBlock \/ ExportDone \/ ExportStops
    \/ handleImport \/ ImportConfigured \/ SourceChunk \/ SourceEnds \/ SourceFails
    \/ saveLog \/ LogChunk \/ LogEnds \/ LogLost
Client == Transfer \/ Written \/ WriteFails \/ ReadFails \/ Skip \/ ResponseEnds
    \/ Synced \/ SyncFails \/ Misread
File(k) == FileOpens(k) \/ FileWrites(k) \/ FileFinishes(k) \/ FileFails(k)
Server == ServerStarts \/ ServerSends \/ ServerReceives \/ ServerDiscards

Next ==
    \/ Client \/ FinishTimesOut \/ Server \/ SocketDies \/ NextCommand \/ NextCommandStrays
    \/ \E k \in Streams : File(k)

Spec == Init /\ [][Next]_vars

\* What has arrived is read, an armed timer fires, the operating system settles
\* what it has been asked to write, and the server goes on.
FairSpec ==
    /\ Spec
    /\ WF_vars(Client) /\ WF_vars(FinishTimesOut) /\ WF_vars(Server)
    /\ \A k \in Streams : WF_vars(File(k))

-----------------------------------------------------------------------------
\* Properties.

\* For every command whose exchange is its own: the server takes its import for
\* complete only if it has received every chunk of a source that has not failed.
ImportComplete == verdict = "done" /\ ~strayed => served = total /\ ~broken

\* A command that succeeds leaves no file of its exports and logs open, and no
\* reference to one, unless what it has read was the response of another.
FilesReleased ==
    at = "ended" /\ ~strayed =>
        /\ exportStream <= since
        /\ \A k \in Streams : k > since => file[k] \notin {"opening", "open"}

\* An export that has a file ends with DONE only when every block the handler
\* has read of it is on disk.
ReturnsDone ==
    /\ at = "finishing" \/ (at = "status" /\ wire # <<>> /\ Head(wire) = "done")
    /\ at' = "type"
    /\ writeStream # None
ExportComplete ==
    [][ReturnsDone => /\ file'[writeStream] = "finished"
                      /\ disk'[writeStream] = taken]_vars

\* A block written to a stream that has already failed: write() returns false,
\* and neither 'drain' nor 'error' will come.
Stranded == at = "drain" /\ file[writeStream] = "destroyed"

\* Every command ends, with two exceptions: one whose export file has failed
\* before a block is written waits in _writeExportChunk for ever (Stranded), and
\* nothing is claimed of one that began before the response of an earlier, failed
\* command was read to its end (strayed), which may wait for bytes that the
\* server does not owe it.  What is left is that client and server never wait
\* for each other.
CommandEnds == at \notin Outcomes ~> at \in Outcomes \/ Stranded \/ strayed
=============================================================================
