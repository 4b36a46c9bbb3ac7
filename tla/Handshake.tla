------------------------------ MODULE Handshake ------------------------------
(***************************************************************************)
(* src/Handshake.ts, its SocketTransport, and the connect() of             *)
(* src/NzConnection.ts around them: one attempt to open a session.         *)
(*                                                                         *)
(* The client is a sequence of reads, each followed by the packet or the   *)
(* decision it leads to; `at` names the read it waits for.  The server is  *)
(* external: it answers each packet, in as many chunks as the network      *)
(* likes.  What it says is a sequence of tokens, one for each read of the  *)
(* client.                                                                 *)
(***************************************************************************)
EXTENDS Integers, Sequences, SequencesExt

CONSTANTS
    SecurityLevels,     \* values of config.securityLevel
    ServerVersions,     \* sets of handshake versions a server may accept
    Suggestions,        \* versions it may suggest instead
    ConnectionTimeout,  \* is connectionTimeout > 0?
    SilentClose,        \* may the socket close while nobody waits for its 'close' event?
    MaxSuggestions      \* bound: versions the server suggests

Versions == 2..6
None == 0
Levels == {"PreferredUnsecured", "OnlyUnsecuredSession", "PreferredSecuredSession",
           "OnlySecuredSession"}

ASSUME LevelsAssumption == SecurityLevels \subseteq Levels
ASSUME VersionsAssumption ==
    /\ ServerVersions \subseteq SUBSET Versions
    /\ Suggestions \subseteq Nat
    /\ MaxSuggestions \in Nat
ASSUME SwitchesAssumption ==
    ConnectionTimeout \in BOOLEAN /\ SilentClose \in BOOLEAN

\* Packets of the client by what they carry, those of the option loops by
\* their opcode.
Options == {"appname", "os", "host", "osUser", "protocol", "pid", "type", "varlena",
            "clientDone"}
Credentials == {"user", "password"} \cup Options
Kinds == {"version", "database", "ssl", "sslConnect", "tlsFinished"} \cup Credentials
Packet == [kind : Kinds, version : Nat, secured : BOOLEAN]

\* "no" is the byte 'N', "later" a message that follows ReadyForQuery, "other"
\* a byte or message the client does not know.
Requests == {"ok", "plain", "md5", "sha256", "unsupported"}
Answers == {"no", "modify", "digit", "secure", "error", "salt", "key", "notice", "ready",
            "later", "other"} \cup Requests
Token == [kind : Answers, version : Nat]

VARIABLES
    \* connect()
    socket,        \* "none", "connecting", "open" or "destroyed"
    timer,         \* is connectionTimer armed?
    timedOut,      \* connectionTimedOut
    connected,     \* _connected
    promise,       \* "none", "pending", "resolved" or "rejected"
    \* Handshake
    level,         \* _options.securityLevel
    at,            \* the read or the callback the handshake waits for
    version,       \* version sent last
    hsVersion,     \* _hsVersion
    information,   \* the option the next 'N' asks for
    secured,       \* is _stream the TLS socket?
    backendKey,    \* has backendProcessId been set?
    \* SocketTransport, network, server
    buffer,        \* unread bytes of _intBuf
    wire,          \* bytes on their way, or in the socket
    outbox,        \* packets on their way to the server
    accepts,       \* versions the server accepts
    suggested      \* versions it has suggested so far

connection == <<socket, timer, timedOut, connected, promise>>
handshake == <<level, at, version, hsVersion, information, secured, backendKey>>
server == <<accepts, suggested>>
network == <<buffer, wire, outbox, server>>
vars == <<connection, handshake, network>>

\* The reads of the handshake; "tls" waits for the callback of tls.connect.
Reads == {"negotiate", "suggestion", "database", "session", "confirmation",
          "option", "authentication", "salt", "completion"}
Places == Reads \cup {"none", "tls", "returned", "thrown"}

FlagsTyped ==
    /\ timer \in BOOLEAN
    /\ timedOut \in BOOLEAN
    /\ connected \in BOOLEAN
    /\ secured \in BOOLEAN
    /\ backendKey \in BOOLEAN

DataTyped ==
    /\ socket \in {"none", "connecting", "open", "destroyed"}
    /\ promise \in {"none", "pending", "resolved", "rejected"}
    /\ level \in Levels
    /\ at \in Places
    /\ version \in Versions
    /\ hsVersion \in Versions \cup {None}
    /\ information \in Options
    /\ buffer \in Seq(Token)
    /\ wire \in Seq(Token)
    /\ outbox \in Seq(Packet)
    /\ accepts \subseteq Versions
    /\ suggested \in 0..MaxSuggestions

TypeOK == FlagsTyped /\ DataTyped

Init ==
    /\ socket = "none"
    /\ timer = FALSE
    /\ timedOut = FALSE
    /\ connected = FALSE
    /\ promise = "none"
    /\ level \in SecurityLevels
    /\ at = "none"
    /\ version = 6
    /\ hsVersion = None
    /\ information = "appname"
    /\ secured = FALSE
    /\ backendKey = FALSE
    /\ buffer = <<>>
    /\ wire = <<>>
    /\ outbox = <<>>
    /\ accepts \in ServerVersions
    /\ suggested = 0
-----------------------------------------------------------------------------
(* connect() *)

Settle(outcome) == promise' = IF promise = "pending" THEN outcome ELSE promise

\* Mutant of Connect: the timer is not armed.
ConnectUntimed ==
    /\ socket = "none"
    /\ socket' = "connecting"
    /\ promise' = "pending"
    /\ timer' = FALSE
    /\ UNCHANGED <<timedOut, connected, handshake, network>>

Connect ==
    /\ socket = "none"
    /\ socket' = "connecting"
    /\ promise' = "pending"
    /\ timer' = ConnectionTimeout
    /\ UNCHANGED <<timedOut, connected, handshake, network>>

\* A destroyed socket delivers nothing any more.
Destroy ==
    /\ socket' = "destroyed"
    /\ wire' = <<>>
    /\ outbox' = <<>>
    /\ UNCHANGED <<buffer, server>>

\* The connection timer.
TimerFires ==
    /\ timer
    /\ timer' = FALSE
    /\ timedOut' = TRUE
    /\ Destroy
    /\ Settle("rejected")
    /\ UNCHANGED <<connected, handshake>>

\* The 'error' event of the socket, and its 'close' event.
SocketFails ==
    /\ socket \in {"connecting", "open"}
    /\ Destroy
    /\ timer' = FALSE
    /\ connected' = FALSE
    /\ promise' = IF connected THEN promise ELSE "rejected"
    /\ UNCHANGED <<timedOut, handshake>>

\* The server hangs up, or NzConnection.close() destroys the socket: a 'close'
\* event alone.  It disarms the timer, and only a read notices it: before TCP
\* has connected and while TLS is set up the promise stays pending.
SocketCloses ==
    /\ socket \in {"connecting", "open"}
    /\ socket = "connecting" \/ at = "tls" => SilentClose
    /\ Destroy
    /\ timer' = FALSE
    /\ connected' = FALSE
    /\ UNCHANGED <<timedOut, promise, handshake>>

\* Mutant of Throw: the socket of a failed handshake stays open.
ThrowKept ==
    /\ at' = "thrown"
    /\ timer' = FALSE
    /\ Settle("rejected")
    /\ UNCHANGED <<socket, timedOut, connected, level, version, hsVersion, information,
                   secured, backendKey, network>>

\* startup() throws, or returns from a step that was not successful.
Throw ==
    /\ at' = "thrown"
    /\ timer' = FALSE
    /\ Destroy
    /\ Settle("rejected")
    /\ UNCHANGED <<timedOut, connected, level, version, hsVersion, information,
                   secured, backendKey>>
-----------------------------------------------------------------------------
(* SocketTransport *)

\* _fillFromStream and _pumpReadable.
Fill ==
    /\ at \in Reads
    /\ socket = "open"
    /\ buffer = <<>>
    /\ \E k \in 1..Len(wire) :
        /\ buffer' = SubSeq(wire, 1, k)
        /\ wire' = SubSeq(wire, k + 1, Len(wire))
    /\ UNCHANGED <<connection, handshake, outbox, server>>

\* A read of a destroyed stream fails, whatever is buffered.
ReadFails ==
    /\ at \in Reads
    /\ socket = "destroyed"
    /\ Throw

\* Mutant of flushUnreadToStream: what has been read too far is dropped.
flushUnreadDropped(rest) ==
    /\ buffer' = <<>>
    /\ UNCHANGED wire

\* What has been read too far is given back to the stream.
flushUnreadToStream(rest) ==
    /\ buffer' = <<>>
    /\ wire' = rest \o wire

Arrived(kind) == socket = "open" /\ buffer # <<>> /\ buffer[1].kind = kind

\* The awaited byte or message is there, and is read.
Reading(place, kind) == at = place /\ Arrived(kind) /\ buffer' = Tail(buffer)

Write(kind, v, onTls) ==
    outbox' = Append(outbox, [kind |-> kind, version |-> v, secured |-> onTls])

Send(kind) == Write(kind, None, secured)
-----------------------------------------------------------------------------
(* startup() *)

\* The callback of socket.connect() starts the handshake.
TcpConnects ==
    /\ socket = "connecting"
    /\ ~timedOut
    /\ socket' = "open"
    /\ at' = "negotiate"
    /\ Write("version", version, FALSE)
    /\ UNCHANGED <<timer, timedOut, connected, promise, level, version, hsVersion,
                   information, secured, backendKey, buffer, wire, server>>

\* Mutant of Negotiated: the version offered first is taken for the accepted one.
NegotiatedFirst ==
    /\ Reading("negotiate", "no")
    /\ hsVersion' = 6
    /\ at' = "database"
    /\ Send("database")
    /\ UNCHANGED <<connection, level, version, information, secured, backendKey, wire, server>>

\* connHandshakeNegotiate has its version, connSendDatabase goes on.
Negotiated ==
    /\ Reading("negotiate", "no")
    /\ hsVersion' = version
    /\ at' = "database"
    /\ Send("database")
    /\ UNCHANGED <<connection, level, version, information, secured, backendKey, wire, server>>

VersionSuggested ==
    /\ Reading("negotiate", "modify")
    /\ at' = "suggestion"
    /\ UNCHANGED <<connection, level, version, hsVersion, information, secured, backendKey,
                   wire, outbox, server>>

\* Mutant of VersionOffered: any digit is taken for a version.
VersionOfferedUnchecked ==
    /\ Reading("suggestion", "digit")
    /\ version' = buffer[1].version
    /\ at' = "negotiate"
    /\ Write("version", version', secured)
    /\ UNCHANGED <<connection, level, hsVersion, information, secured, backendKey, wire, server>>

\* Mutant of VersionOffered: an unknown digit is not answered.
VersionOfferedOnce ==
    /\ Reading("suggestion", "digit")
    /\ version' = IF buffer[1].version \in 2..5 THEN buffer[1].version ELSE version
    /\ at' = "negotiate"
    /\ IF version' = version THEN UNCHANGED outbox ELSE Write("version", version', secured)
    /\ UNCHANGED <<connection, level, hsVersion, information, secured, backendKey, wire, server>>

\* An unknown digit repeats the version.
VersionOffered ==
    /\ Reading("suggestion", "digit")
    /\ version' = IF buffer[1].version \in 2..5 THEN buffer[1].version ELSE version
    /\ at' = "negotiate"
    /\ Write("version", version', secured)
    /\ UNCHANGED <<connection, level, hsVersion, information, secured, backendKey, wire, server>>

DatabaseSelected ==
    /\ Reading("database", "no")
    /\ at' = "session"
    /\ Send("ssl")
    /\ UNCHANGED <<connection, level, version, hsVersion, information, secured, backendKey,
                   wire, server>>

\* connSendHandshakeVersion4 or connSendHandshakeVersion2 sends the user.
StartOptions ==
    /\ at' = "option"
    /\ information' = IF hsVersion \in {4, 6} THEN "appname" ELSE "protocol"
    /\ Send("user")
    /\ UNCHANGED <<connection, level, version, hsVersion, secured, backendKey, wire, server>>

\* Mutant of SessionUnsecured: the refusal of the server is not looked at.
SessionUnsecuredAnyway ==
    /\ Reading("session", "no")
    /\ StartOptions

SessionUnsecured ==
    /\ Reading("session", "no")
    /\ level # "OnlySecuredSession"
    /\ StartOptions

SessionRefused ==
    /\ at = "session"
    /\ Arrived("no")
    /\ level = "OnlySecuredSession"
    /\ Throw

\* The server asks for TLS, whatever the level.
SessionSecured ==
    /\ at = "session"
    /\ Arrived("secure")
    /\ at' = "tls"
    /\ Send("sslConnect")
    /\ flushUnreadToStream(Tail(buffer))
    /\ UNCHANGED <<connection, level, version, hsVersion, information, secured, backendKey,
                   server>>

\* The callback of tls.connect attaches the transport to the TLS socket.
TlsConnects ==
    /\ at = "tls"
    /\ socket = "open"
    /\ at' = "confirmation"
    /\ secured' = TRUE
    /\ buffer' = <<>>
    /\ Write("tlsFinished", None, TRUE)
    /\ UNCHANGED <<connection, level, version, hsVersion, information, backendKey, wire, server>>

\* The certificate cannot be read or verified, or the TLS socket reports an error.
TlsFails ==
    /\ at = "tls"
    /\ Throw

SessionConfirmed ==
    /\ Reading("confirmation", "no")
    /\ StartOptions

\* The switch of the option loops.
NextOption(option) ==
    CASE option = "appname"  -> "os"
      [] option = "os"       -> "host"
      [] option = "host"     -> "osUser"
      [] option = "osUser"   -> "protocol"
      [] option = "protocol" -> "pid"
      [] option = "pid"      -> "type"
      [] option = "type"     -> IF hsVersion \in {5, 6} THEN "varlena" ELSE "clientDone"
      [] option = "varlena"  -> "clientDone"
      [] option = "clientDone" -> "clientDone"

\* An 'N' asks for the next option; after the last one connAuthenticate reads.
OptionAccepted ==
    /\ Reading("option", "no")
    /\ Send(information)
    /\ information' = NextOption(information)
    /\ at' = IF information = "clientDone" THEN "authentication" ELSE "option"
    /\ UNCHANGED <<connection, level, version, hsVersion, secured, backendKey, wire, server>>

\* connAuthenticate
Authenticated ==
    /\ Reading("authentication", "ok")
    /\ at' = "completion"
    /\ UNCHANGED <<connection, level, version, hsVersion, information, secured, backendKey,
                   wire, outbox, server>>

PlainPassword ==
    /\ Reading("authentication", "plain")
    /\ at' = "completion"
    /\ Send("password")
    /\ UNCHANGED <<connection, level, version, hsVersion, information, secured, backendKey,
                   wire, server>>

HashRequested ==
    /\ Reading("authentication", "md5") \/ Reading("authentication", "sha256")
    /\ at' = "salt"
    /\ UNCHANGED <<connection, level, version, hsVersion, information, secured, backendKey,
                   wire, outbox, server>>

\* _hashAuthenticate
HashedPassword ==
    /\ Reading("salt", "salt")
    /\ at' = "completion"
    /\ Send("password")
    /\ UNCHANGED <<connection, level, version, hsVersion, information, secured, backendKey,
                   wire, server>>

\* connConnectionComplete reads on after everything but an error.
CompletionSkips ==
    /\ \E kind \in Requests \cup {"notice", "other"} : Reading("completion", kind)
    /\ UNCHANGED <<connection, handshake, wire, outbox, server>>

CompletionKey ==
    /\ Reading("completion", "key")
    /\ backendKey' = TRUE
    /\ UNCHANGED <<connection, level, at, version, hsVersion, information, secured, wire,
                   outbox, server>>

\* startup() returns the stream, and connect() resolves.
Return ==
    /\ at' = "returned"
    /\ flushUnreadToStream(Tail(buffer))
    /\ timer' = FALSE
    /\ connected' = TRUE
    /\ Settle("resolved")
    /\ UNCHANGED <<socket, timedOut, level, version, hsVersion, information, secured,
                   backendKey, outbox, server>>

CompletionReady ==
    /\ at = "completion"
    /\ Arrived("ready")
    /\ Return

Expected(place) ==
    CASE place = "negotiate"      -> {"no", "modify"}
      [] place = "suggestion"     -> {"digit"}
      [] place = "session"        -> {"no", "secure"}
      [] place = "authentication" -> Requests \ {"unsupported"}
      [] place = "salt"           -> {"salt"}
      [] place = "completion"     -> Requests \cup {"notice", "other", "key", "ready"}
      [] place \in {"database", "confirmation", "option"} -> {"no"}

\* An ErrorResponse, or anything a step does not expect.
Refused ==
    /\ at \in Reads
    /\ socket = "open"
    /\ buffer # <<>>
    /\ buffer[1].kind \notin Expected(at)
    /\ Throw
-----------------------------------------------------------------------------
(* The server *)

Said(kinds) == [i \in DOMAIN kinds |-> [kind |-> kinds[i], version |-> None]]

\* After the authentication, in an order the server chooses.
Completions ==
    {<<"ok", "key", "ready">>, <<"notice", "key", "ready", "later">>,
     <<"key", "other", "ready", "later">>}

Replies(p) ==
    CASE p.kind = "sslConnect" -> {<<>>}
      [] p.kind = "ssl" -> {<<"no">>, <<"secure">>, <<"error">>}
      [] p.kind = "clientDone" ->
            {<<"ok">> \o c : c \in Completions}
            \cup {<<"plain">>, <<"md5", "salt">>, <<"sha256", "salt">>, <<"unsupported">>}
      [] p.kind = "password" -> Completions \cup {<<"error">>}
      [] OTHER -> {<<"no">>, <<"error">>}

ServerReplies ==
    /\ outbox # <<>>
    /\ outbox[1].kind = "version" => outbox[1].version \in accepts
    /\ \E reply \in Replies(outbox[1]) : wire' = wire \o Said(reply)
    /\ outbox' = Tail(outbox)
    /\ UNCHANGED <<connection, handshake, buffer, server>>

ServerSuggests ==
    /\ outbox # <<>>
    /\ outbox[1].kind = "version"
    /\ outbox[1].version \notin accepts
    /\ suggested < MaxSuggestions
    /\ suggested' = suggested + 1
    /\ \E v \in Suggestions :
        wire' = wire \o <<[kind |-> "modify", version |-> None],
                          [kind |-> "digit", version |-> v]>>
    /\ outbox' = Tail(outbox)
    /\ UNCHANGED <<connection, handshake, buffer, accepts>>
-----------------------------------------------------------------------------
Client ==
    \/ Fill
    \/ ReadFails
    \/ Negotiated
    \/ VersionSuggested
    \/ VersionOffered
    \/ DatabaseSelected
    \/ SessionUnsecured
    \/ SessionRefused
    \/ SessionSecured
    \/ SessionConfirmed
    \/ OptionAccepted
    \/ Authenticated
    \/ PlainPassword
    \/ HashRequested
    \/ HashedPassword
    \/ CompletionSkips
    \/ CompletionKey
    \/ CompletionReady
    \/ Refused

Next ==
    \/ Connect
    \/ TcpConnects
    \/ TimerFires
    \/ SocketFails
    \/ SocketCloses
    \/ TlsConnects
    \/ TlsFails
    \/ Client
    \/ ServerReplies
    \/ ServerSuggests

Spec == Init /\ [][Next]_vars

\* What has arrived is read, and an armed timer fires; neither the network nor
\* the server has to answer.
FairSpec ==
    /\ Spec
    /\ WF_vars(Client)
    /\ WF_vars(TimerFires)
-----------------------------------------------------------------------------
(* Properties *)

unread == buffer \o wire

\* Client and server never wait for each other: while the client waits for a
\* read on a live socket, a packet or an answer is on its way.
NeverBothWaiting ==
    at \in Reads /\ socket = "open" => outbox # <<>> \/ unread # <<>>

\* With OnlySecuredSession nothing about the user, and no password, is sent
\* before TLS is up, whatever the server answers and in whichever order.
CredentialsSecured ==
    level = "OnlySecuredSession" =>
        \A i \in DOMAIN outbox : outbox[i].kind \in Credentials => outbox[i].secured

\* The option chain is that of a version the server has accepted.
VersionAgreed == hsVersion # None => hsVersion \in accepts

\* A connect() that was rejected leaves neither a live socket nor a timer nor a
\* connection that counts as connected.
RejectedIsClosed ==
    promise = "rejected" => socket = "destroyed" /\ ~connected /\ ~timer

\* Bytes are neither lost, repeated nor reordered between the server, the
\* transport, the TLS upgrade and the connection that takes over the stream.
StreamContinuous ==
    [][socket' = "open" =>
        \E k \in {0, 1} : IsPrefix(SubSeq(unread, k + 1, Len(unread)), unread')]_vars

\* With a connection timeout every connect() settles, however silent or
\* stubborn the server is, unless the socket closes while nobody waits for that.
ConnectSettles == promise = "pending" ~> promise # "pending"
=============================================================================
