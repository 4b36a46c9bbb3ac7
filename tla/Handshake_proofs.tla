-------------------------- MODULE Handshake_proofs --------------------------
(***************************************************************************)
(* For every security level, every server and every choice of the options: *)
(* the state is well typed, a session that has to be secured sends nothing *)
(* about the user before TLS is up, and a connect() that was rejected has  *)
(* let go of its socket.                                                   *)
(***************************************************************************)
EXTENDS Handshake, TLAPS

USE LevelsAssumption, VersionsAssumption, SwitchesAssumption
-----------------------------------------------------------------------------
(* Typing *)

LEMMA PacketTyped ==
    ASSUME NEW out \in Seq(Packet), NEW kind \in Kinds, NEW v \in Nat, NEW onTls \in BOOLEAN
    PROVE  Append(out, [kind |-> kind, version |-> v, secured |-> onTls]) \in Seq(Packet)
BY DEF Packet

LEMMA SaidTyped == ASSUME NEW kinds \in Seq(Answers) PROVE Said(kinds) \in Seq(Token)
<1>1. \A i \in 1..Len(kinds) : [kind |-> kinds[i], version |-> None] \in Token
  BY DEF Token, None
<1> QED BY <1>1 DEF Said

LEMMA RepliesTyped == \A p \in Packet : Replies(p) \subseteq Seq(Answers)
<1> SUFFICES ASSUME NEW p \in Packet, NEW reply \in Replies(p) PROVE reply \in Seq(Answers)
  OBVIOUS
<1>1. \A k, l, m, n \in Answers :
        /\ {<<>>, <<k>>, <<k, l>>, <<k, l, m>>, <<k, l, m, n>>} \subseteq Seq(Answers)
        /\ \A o \in Answers : <<o>> \o <<k, l, m>> \in Seq(Answers)
                             /\ <<o>> \o <<k, l, m, n>> \in Seq(Answers)
  OBVIOUS
<1>2. {"no", "secure", "error", "salt", "key", "notice", "ready", "later", "other", "ok",
       "plain", "md5", "sha256", "unsupported"} \subseteq Answers
  BY DEF Answers, Requests
<1>3. \A c \in Completions : c \in Seq(Answers) /\ <<"ok">> \o c \in Seq(Answers)
  <2>1. <<"ok", "key", "ready">> \in Seq(Answers) /\ <<"ok">> \o <<"ok", "key", "ready">> \in Seq(Answers)
    BY <1>1, <1>2
  <2>2. /\ <<"notice", "key", "ready", "later">> \in Seq(Answers)
        /\ <<"ok">> \o <<"notice", "key", "ready", "later">> \in Seq(Answers)
    BY <1>1, <1>2
  <2>3. /\ <<"key", "other", "ready", "later">> \in Seq(Answers)
        /\ <<"ok">> \o <<"key", "other", "ready", "later">> \in Seq(Answers)
    BY <1>1, <1>2
  <2> QED BY <2>1, <2>2, <2>3 DEF Completions
<1>4. CASE p.kind = "clientDone"
  <2>1. Replies(p) = {<<"ok">> \o c : c \in Completions}
          \cup {<<"plain">>, <<"md5", "salt">>, <<"sha256", "salt">>, <<"unsupported">>}
    BY <1>4 DEF Replies
  <2> QED BY <2>1, <1>1, <1>2, <1>3
<1>5. CASE p.kind = "password"
  <2>1. Replies(p) = Completions \cup {<<"error">>}
    BY <1>5 DEF Replies
  <2> QED BY <2>1, <1>1, <1>2, <1>3
<1>6. CASE p.kind \notin {"clientDone", "password"}
  <2>1. Replies(p) \subseteq {<<>>, <<"no">>, <<"secure">>, <<"error">>}
    BY <1>6 DEF Replies
  <2>2. {<<>>, <<"no">>, <<"secure">>, <<"error">>} \subseteq Seq(Answers)
    BY <1>1, <1>2
  <2> QED BY <2>1, <2>2
<1> QED BY <1>4, <1>5, <1>6

\* What is left when the first token has been read.
LEMMA RestTyped ==
    ASSUME NEW s \in Seq(Token), s # <<>>
    PROVE  Tail(s) \in Seq(Token) /\ s[1] \in Token
OBVIOUS

LEMMA NextOptionTyped == ASSUME NEW o \in Options PROVE NextOption(o) \in Options
BY DEF Options, NextOption

LEMMA FlagsStep == FlagsTyped /\ [Next]_vars => FlagsTyped'
<1> USE DEF FlagsTyped, connection, handshake
<1> SUFFICES ASSUME FlagsTyped, [Next]_vars PROVE FlagsTyped'
  OBVIOUS
<1>1. CASE Throw
  BY <1>1 DEF Throw
<1>2. CASE ReadFails \/ TlsFails \/ SessionRefused \/ Refused
  BY <1>1, <1>2 DEF ReadFails, TlsFails, SessionRefused, Refused
<1>3. CASE Connect \/ TcpConnects \/ TimerFires \/ SocketFails \/ SocketCloses
  BY <1>3 DEF Connect, TcpConnects, TimerFires, SocketFails, SocketCloses
<1>4. CASE SessionUnsecured \/ SessionConfirmed
  BY <1>4 DEF SessionUnsecured, SessionConfirmed, StartOptions
<1>5. CASE Fill \/ TlsConnects \/ Negotiated \/ VersionSuggested \/ VersionOffered
           \/ DatabaseSelected \/ SessionSecured \/ OptionAccepted
  BY <1>5 DEF Fill, TlsConnects, Negotiated, VersionSuggested, VersionOffered,
    DatabaseSelected, SessionSecured, OptionAccepted
<1>6. CASE Authenticated \/ PlainPassword \/ HashRequested \/ HashedPassword
           \/ CompletionSkips \/ CompletionKey \/ CompletionReady
  BY <1>6 DEF Authenticated, PlainPassword, HashRequested, HashedPassword,
    CompletionSkips, CompletionKey, CompletionReady, Return
<1>7. CASE ServerReplies \/ ServerSuggests \/ UNCHANGED vars
  BY <1>7 DEF ServerReplies, ServerSuggests, vars
<1> QED BY <1>2, <1>3, <1>4, <1>5, <1>6, <1>7 DEF Next, Client

\* The state is well typed (src/Handshake.ts, connect() of src/NzConnection.ts).
THEOREM TypeCorrect == Spec => []TypeOK
<1>1. Init => TypeOK
  <2>1. Init => FlagsTyped
    BY DEF Init, FlagsTyped
  <2>2. Init => DataTyped
    BY DEF Init, DataTyped, Versions, Options, Places, None
  <2> QED BY <2>1, <2>2 DEF TypeOK
<1>2. ASSUME TypeOK, [Next]_vars PROVE FlagsTyped'
  BY <1>2, FlagsStep DEF TypeOK
<1>3. ASSUME TypeOK, [Next]_vars PROVE DataTyped'
  <2> USE <1>3
  <2>0. DataTyped /\ secured \in BOOLEAN
    BY DEF TypeOK, FlagsTyped
  <2> USE <2>0
  <2> USE DEF DataTyped, connection, handshake, network, server
  <2>1. CASE Connect
    BY <2>1 DEF Connect
  <2>17. CASE TimerFires
    BY <2>17 DEF TimerFires, Destroy, Settle
  <2>18. CASE SocketFails
    BY <2>18 DEF SocketFails, Destroy
  <2>19. CASE SocketCloses
    BY <2>19 DEF SocketCloses, Destroy
  <2>2. CASE TcpConnects
    <3>1. version \in Nat /\ "version" \in Kinds
      BY DEF Versions, Kinds
    <3> QED BY <2>2, <3>1, PacketTyped DEF TcpConnects, Write, Places, Reads
  <2>3. CASE Throw
    BY <2>3 DEF Throw, Destroy, Settle, Places
  <2>4. CASE ReadFails \/ TlsFails \/ SessionRefused \/ Refused
    BY <2>3, <2>4 DEF ReadFails, TlsFails, SessionRefused, Refused
  <2>5. CASE Fill
    BY <2>5 DEF Fill
  <2>6. CASE VersionSuggested \/ Authenticated \/ HashRequested \/ CompletionSkips \/ CompletionKey
    BY <2>6, RestTyped DEF VersionSuggested, Authenticated, HashRequested, CompletionSkips,
      CompletionKey, Reading, Arrived, Places, Reads
  <2>7. CASE Negotiated \/ DatabaseSelected \/ PlainPassword \/ HashedPassword
    <3>1. {"database", "ssl", "password"} \subseteq Kinds /\ None \in Nat
      BY DEF Kinds, Credentials, None
    <3> QED BY <2>7, <3>1, RestTyped, PacketTyped DEF Negotiated, DatabaseSelected, PlainPassword,
      HashedPassword, Reading, Arrived, Send, Write, Places, Reads
  <2>8. CASE VersionOffered
    <3>1. version' \in Versions /\ version' \in Nat /\ "version" \in Kinds
      BY <2>8 DEF VersionOffered, Versions, Kinds
    <3> QED BY <2>8, <3>1, RestTyped, PacketTyped DEF VersionOffered, Reading, Arrived, Write,
      Places, Reads
  <2>9. CASE SessionUnsecured \/ SessionConfirmed
    <3>1. "user" \in Kinds /\ None \in Nat /\ {"appname", "protocol"} \subseteq Options
      BY DEF Kinds, Credentials, Options, None
    <3>2. StartOptions /\ buffer # <<>> /\ buffer' = Tail(buffer)
      BY <2>9 DEF SessionUnsecured, SessionConfirmed, Reading, Arrived
    <3>3. outbox' \in Seq(Packet)
      BY <3>1, <3>2, PacketTyped DEF StartOptions, Send, Write
    <3>4. information' \in Options
      BY <3>1, <3>2 DEF StartOptions
    <3> QED BY <3>2, <3>3, <3>4, RestTyped DEF StartOptions, Places, Reads
  <2>10. CASE SessionSecured
    <3>1. "sslConnect" \in Kinds /\ None \in Nat
      BY DEF Kinds, None
    <3> QED BY <2>10, <3>1, RestTyped, PacketTyped DEF SessionSecured, Arrived,
      flushUnreadToStream, Send, Write, Places, Reads
  <2>11. CASE TlsConnects
    <3>1. "tlsFinished" \in Kinds /\ None \in Nat
      BY DEF Kinds, None
    <3>2. outbox' \in Seq(Packet)
      <4>1. TRUE \in BOOLEAN
        OBVIOUS
      <4> QED BY <2>11, <3>1, <4>1, PacketTyped, Zenon DEF TlsConnects, Write
    <3> QED BY <2>11, <3>2 DEF TlsConnects, Places, Reads
  <2>12. CASE OptionAccepted
    <3>1. information \in Kinds /\ None \in Nat
      BY DEF Kinds, Credentials, None
    <3> QED BY <2>12, <3>1, RestTyped, PacketTyped, NextOptionTyped DEF OptionAccepted, Reading,
      Arrived, Send, Write, Places, Reads
  <2>13. CASE CompletionReady
    BY <2>13, RestTyped DEF CompletionReady, Return, Arrived, flushUnreadToStream, Settle,
      Places, Reads
  <2>14. CASE ServerReplies
    <3>1. outbox[1] \in Packet /\ Tail(outbox) \in Seq(Packet)
      BY <2>14 DEF ServerReplies
    <3>2. \A reply \in Replies(outbox[1]) : wire \o Said(reply) \in Seq(Token)
      BY <3>1, RepliesTyped, SaidTyped
    <3> QED BY <2>14, <3>1, <3>2 DEF ServerReplies
  <2>15. CASE ServerSuggests
    <3>1. Tail(outbox) \in Seq(Packet)
      BY <2>15 DEF ServerSuggests
    <3>2. \A v \in Suggestions :
            <<[kind |-> "modify", version |-> None], [kind |-> "digit", version |-> v]>> \in Seq(Token)
      BY DEF Token, Answers, None
    <3>3. \A v \in Suggestions :
            wire \o <<[kind |-> "modify", version |-> None], [kind |-> "digit", version |-> v]>>
              \in Seq(Token)
      <4>1. \A s \in Seq(Token) : wire \o s \in Seq(Token)
        OBVIOUS
      <4> QED BY <3>2, <4>1, Zenon
    <3>4. suggested' \in 0..MaxSuggestions
      BY <2>15 DEF ServerSuggests
    <3> QED BY <2>15, <3>1, <3>3, <3>4 DEF ServerSuggests
  <2>16. CASE UNCHANGED vars
    BY <2>16 DEF vars
  <2> QED BY <2>1, <2>17, <2>18, <2>19, <2>2, <2>4, <2>5, <2>6, <2>7, <2>8, <2>9, <2>10, <2>11, <2>12, <2>13,
    <2>14, <2>15, <2>16 DEF Next, Client
<1>4. TypeOK /\ [Next]_vars => TypeOK'
  BY <1>2, <1>3 DEF TypeOK
<1> QED BY <1>1, <1>4, PTL DEF Spec
-----------------------------------------------------------------------------
(* A session that has to be secured *)

\* Every packet with credentials among these is on TLS.
AllSecured(out) == \A i \in DOMAIN out : out[i].kind \in Credentials => out[i].secured

LEMMA AppendSecured ==
    ASSUME NEW out \in Seq(Packet), AllSecured(out),
           NEW kind \in Kinds, NEW v \in Nat, NEW onTls \in BOOLEAN,
           kind \in Credentials => onTls
    PROVE  AllSecured(Append(out, [kind |-> kind, version |-> v, secured |-> onTls]))
<1> DEFINE p == [kind |-> kind, version |-> v, secured |-> onTls]
<1>1. p.kind \in Credentials => p.secured
  OBVIOUS
<1>2. p \in Packet
  BY DEF Packet
<1> HIDE DEF p
<1>3. \A i \in DOMAIN Append(out, p) :
        (i \in DOMAIN out /\ Append(out, p)[i] = out[i]) \/ Append(out, p)[i] = p
  BY <1>2
<1>4. AllSecured(Append(out, p))
  BY <1>1, <1>3, Zenon DEF AllSecured
<1> QED BY <1>4 DEF p

LEMMA FewerSecured ==
    ASSUME NEW out \in Seq(Packet), AllSecured(out), out # <<>>
    PROVE  AllSecured(Tail(out))
<1>1. \A i \in DOMAIN Tail(out) : i + 1 \in DOMAIN out /\ Tail(out)[i] = out[i + 1]
  OBVIOUS
<1> QED BY <1>1, Zenon DEF AllSecured

\* The reads that follow the decision about TLS.
AfterSession == {"confirmation", "option", "authentication", "salt", "completion"}

\* The decision is final: later reads are only reached on TLS.
SecureInv ==
    level = "OnlySecuredSession" =>
        (at \in AfterSession => secured) /\ AllSecured(outbox)

LEMMA SecureStep == TypeOK /\ SecureInv /\ [Next]_vars => SecureInv'
<1> SUFFICES ASSUME TypeOK, SecureInv, [Next]_vars, level' = "OnlySecuredSession"
             PROVE  (at' \in AfterSession => secured') /\ AllSecured(outbox')
  BY DEF SecureInv
<1> USE DEF connection, handshake, network, server
<1>1. level' = level
  <2>1. CASE Throw
    BY <2>1 DEF Throw
  <2>2. CASE ReadFails \/ TlsFails \/ SessionRefused \/ Refused
    BY <2>1, <2>2 DEF ReadFails, TlsFails, SessionRefused, Refused
  <2>3. CASE ~(ReadFails \/ TlsFails \/ SessionRefused \/ Refused)
    BY <2>3 DEF Next, Client, vars, Connect, TcpConnects, TimerFires, SocketFails, SocketCloses,
      TlsConnects, Fill, Negotiated, VersionSuggested, VersionOffered, DatabaseSelected,
      SessionUnsecured, SessionSecured, SessionConfirmed, StartOptions, OptionAccepted,
      Authenticated, PlainPassword, HashRequested, HashedPassword, CompletionSkips,
      CompletionKey, CompletionReady, Return, ServerReplies, ServerSuggests
  <2> QED BY <2>2, <2>3
<1>2. /\ at \in AfterSession => secured
      /\ AllSecured(outbox)
      /\ outbox \in Seq(Packet)
      /\ level = "OnlySecuredSession"
  BY <1>1 DEF SecureInv, TypeOK, DataTyped
<1>3. secured \in BOOLEAN /\ None \in Nat
  BY DEF TypeOK, FlagsTyped, None
<1>4. AllSecured(<<>>)
  BY DEF AllSecured
<1>5. CASE Throw
  BY <1>4, <1>5 DEF Throw, Destroy, AfterSession
<1>6. CASE ReadFails \/ TlsFails \/ SessionRefused \/ Refused
  BY <1>5, <1>6 DEF ReadFails, TlsFails, SessionRefused, Refused
<1>7. CASE TimerFires \/ SocketFails \/ SocketCloses
  BY <1>2, <1>4, <1>7 DEF TimerFires, SocketFails, SocketCloses, Destroy
<1>8. CASE Connect \/ Fill \/ VersionSuggested \/ Authenticated \/ HashRequested
           \/ CompletionSkips \/ CompletionKey \/ CompletionReady \/ UNCHANGED vars
  BY <1>2, <1>8 DEF Connect, Fill, VersionSuggested, Authenticated, HashRequested,
    CompletionSkips, CompletionKey, CompletionReady, Return, Reading, AfterSession, vars
<1>9. CASE ServerReplies \/ ServerSuggests
  <2>1. outbox # <<>> /\ outbox' = Tail(outbox) /\ at' = at /\ secured' = secured
    BY <1>9 DEF ServerReplies, ServerSuggests
  <2> QED BY <1>2, <2>1, FewerSecured
<1>10. CASE TcpConnects \/ Negotiated \/ VersionOffered \/ DatabaseSelected \/ SessionSecured
  <2>1. PICK kind \in {"version", "database", "ssl", "sslConnect"}, v \in Nat, onTls \in BOOLEAN :
          outbox' = Append(outbox, [kind |-> kind, version |-> v, secured |-> onTls])
    <3>1. version \in Nat /\ FALSE \in BOOLEAN
      BY DEF TypeOK, DataTyped, Versions
    <3>2. VersionOffered => version' \in Nat
      BY <3>1 DEF VersionOffered
    <3> QED BY <1>3, <1>10, <3>1, <3>2, Zenon DEF TcpConnects, Negotiated, VersionOffered,
      DatabaseSelected, SessionSecured, Send, Write
  <2>2. kind \in Kinds /\ kind \notin Credentials
    BY DEF Kinds, Credentials, Options
  <2>3. AllSecured(outbox')
    BY <1>2, <2>1, <2>2, AppendSecured
  <2>4. at' \notin AfterSession
    BY <1>10 DEF TcpConnects, Negotiated, VersionOffered, DatabaseSelected, SessionSecured,
      AfterSession
  <2> QED BY <2>3, <2>4
<1>11. CASE TlsConnects
  <2>1. secured' = TRUE /\ outbox' = Append(outbox, [kind |-> "tlsFinished", version |-> None, secured |-> TRUE])
    BY <1>11, Zenon DEF TlsConnects, Write
  <2>2. "tlsFinished" \in Kinds /\ TRUE \in BOOLEAN
    BY DEF Kinds
  <2> QED BY <1>2, <1>3, <2>1, <2>2, AppendSecured
<1>12. CASE SessionConfirmed \/ OptionAccepted \/ PlainPassword \/ HashedPassword
  <2>1. at \in AfterSession /\ secured /\ secured' = secured
    BY <1>2, <1>12 DEF SessionConfirmed, StartOptions, OptionAccepted, PlainPassword,
      HashedPassword, Reading, AfterSession
  <2>2. PICK kind \in Credentials :
          outbox' = Append(outbox, [kind |-> kind, version |-> None, secured |-> secured])
    <3>1. information \in Credentials /\ {"user", "password"} \subseteq Credentials
      BY DEF TypeOK, DataTyped, Credentials
    <3> QED BY <1>12, <3>1, Zenon DEF SessionConfirmed, StartOptions, OptionAccepted,
      PlainPassword, HashedPassword, Send, Write
  <2>3. kind \in Kinds
    BY DEF Kinds
  <2>4. AllSecured(outbox')
    BY <1>2, <1>3, <2>1, <2>2, <2>3, AppendSecured
  <2> QED BY <2>1, <2>4
<1>13. CASE SessionUnsecured
  BY <1>2, <1>13 DEF SessionUnsecured
<1> QED BY <1>6, <1>7, <1>8, <1>9, <1>10, <1>11, <1>12, <1>13 DEF Next, Client

\* With OnlySecuredSession nothing about the user is sent before TLS is up
\* (connSecureSession and the option loops of src/Handshake.ts).
THEOREM CredentialsAlwaysSecured == Spec => []CredentialsSecured
<1>1. Init => SecureInv
  BY DEF Init, SecureInv, AfterSession, AllSecured
<1>2. SecureInv => CredentialsSecured
  BY Zenon DEF SecureInv, CredentialsSecured, AllSecured
<1> QED BY <1>1, <1>2, SecureStep, TypeCorrect, PTL DEF Spec
-----------------------------------------------------------------------------
(* A rejected connect() *)

\* What the outcome of connect() says about its socket, its timer and the place
\* of the handshake.
OutcomeInv ==
    /\ timer => promise = "pending"
    /\ connected => promise = "resolved"
    /\ socket = "connecting" => promise = "pending"
    /\ at = "tls" \/ at \in Reads => ~connected /\ socket \in {"open", "destroyed"}
    /\ socket = "none" <=> promise = "none"
    /\ promise = "none" => at = "none"
    /\ RejectedIsClosed

LEMMA OutcomeStep == TypeOK /\ OutcomeInv /\ [Next]_vars => OutcomeInv'
<1> SUFFICES ASSUME TypeOK, OutcomeInv, [Next]_vars PROVE OutcomeInv'
  OBVIOUS
<1> USE DEF OutcomeInv, RejectedIsClosed, connection, handshake, Reads
<1>1. FlagsTyped /\ promise \in {"none", "pending", "resolved", "rejected"}
        /\ socket \in {"none", "connecting", "open", "destroyed"}
  BY DEF TypeOK, DataTyped
<1> USE <1>1 DEF FlagsTyped
<1>2. CASE Throw /\ (at = "tls" \/ at \in Reads)
  BY <1>2 DEF Throw, Destroy, Settle
<1>3. CASE ReadFails \/ TlsFails \/ SessionRefused \/ Refused
  BY <1>2, <1>3 DEF ReadFails, TlsFails, SessionRefused, Refused
<1>4. CASE Connect
  <2>1. promise = "none" /\ at = "none" /\ ~connected
    BY <1>4 DEF Connect
  <2>2. at' = "none" /\ connected' = connected
    BY <1>4, <2>1 DEF Connect
  <2> QED BY <1>4, <2>1, <2>2 DEF Connect
<1>12. CASE TcpConnects
  BY <1>12 DEF TcpConnects
<1>5. CASE TimerFires \/ SocketFails \/ SocketCloses
  BY <1>5 DEF TimerFires, SocketFails, SocketCloses, Destroy, Settle
<1>6. CASE SessionUnsecured \/ SessionConfirmed
  BY <1>6 DEF SessionUnsecured, SessionConfirmed, StartOptions, Reading
<1>7. CASE Fill \/ TlsConnects \/ SessionSecured \/ OptionAccepted
  <2>1. UNCHANGED connection /\ (at = "tls" \/ at \in Reads)
    BY <1>7 DEF Fill, TlsConnects, SessionSecured, OptionAccepted, Reading
  <2> QED BY <2>1
<1>11. CASE Negotiated \/ VersionSuggested \/ VersionOffered \/ DatabaseSelected
  BY <1>11 DEF Negotiated, VersionSuggested, VersionOffered, DatabaseSelected, Reading
<1>8. CASE Authenticated \/ PlainPassword \/ HashRequested \/ HashedPassword
           \/ CompletionSkips \/ CompletionKey
  BY <1>8 DEF Authenticated, PlainPassword, HashRequested, HashedPassword,
    CompletionSkips, CompletionKey, Reading
<1>9. CASE CompletionReady
  BY <1>9 DEF CompletionReady, Return, Arrived, Settle
<1>10. CASE ServerReplies \/ ServerSuggests \/ UNCHANGED vars
  BY <1>10 DEF ServerReplies, ServerSuggests, vars
<1> QED BY <1>3, <1>4, <1>5, <1>6, <1>7, <1>8, <1>9, <1>10, <1>11, <1>12 DEF Next, Client

\* A connect() that was rejected has destroyed its socket, disarmed its timer
\* and left _connected false (connect() of src/NzConnection.ts).
THEOREM RejectedAlwaysClosed == Spec => []RejectedIsClosed
<1>1. Init => OutcomeInv
  BY DEF Init, OutcomeInv, RejectedIsClosed, Reads
<1>2. OutcomeInv => RejectedIsClosed
  BY DEF OutcomeInv
<1> QED BY <1>1, <1>2, OutcomeStep, TypeCorrect, PTL DEF Spec
-----------------------------------------------------------------------------
(***************************************************************************)
(* The dialogue.  While the client waits for a read on a live socket, its  *)
(* last question is on its way to the server, or the whole answer is on    *)
(* its way back: each read finds a partner, and what it says is what the   *)
(* read asked for.                                                         *)
(***************************************************************************)
Says(s, kinds) == Len(s) = 1 /\ s[1].kind \in kinds
SaysPair(s, first, second) == Len(s) = 2 /\ s[1].kind = first /\ s[2].kind = second
\* Somewhere in it the session is ready.
Completing(s) == \E i \in 1..Len(s) : s[i].kind = "ready"

Answering(place, s) ==
    /\ place = "negotiate" => Says(s, {"no", "error"}) \/ SaysPair(s, "modify", "digit")
    /\ place = "suggestion" => Says(s, {"digit"})
    /\ place \in {"database", "confirmation", "option"} => Says(s, {"no", "error"})
    /\ place = "session" => Says(s, {"no", "secure", "error"})
    /\ place = "authentication" =>
        \/ Completing(s) /\ s[1].kind = "ok"
        \/ Says(s, {"plain", "unsupported"})
        \/ \E hash \in {"md5", "sha256"} : SaysPair(s, hash, "salt")
    /\ place = "salt" => Says(s, {"salt"})
    /\ place = "completion" => Completing(s) \/ Says(s, {"error"})

\* The packet whose answer a read waits for.
Asking(place, p) ==
    /\ place = "negotiate" => p.kind = "version"
    /\ place = "database" => p.kind = "database"
    /\ place = "session" => p.kind = "ssl"
    /\ place = "confirmation" => p.kind = "tlsFinished"
    /\ place = "option" => p.kind \in {"user"} \cup (Options \ {"clientDone"})
    /\ place = "authentication" => p.kind = "clientDone"
    /\ place = "completion" => p.kind = "password"
    /\ place \notin {"suggestion", "salt"}

Asked ==
    /\ unread = <<>>
    /\ \/ Len(outbox) = 1 /\ Asking(at, outbox[1])
       \/ /\ at = "confirmation" /\ Len(outbox) = 2
          /\ outbox[1].kind = "sslConnect" /\ Asking(at, outbox[2])
    /\ at = "negotiate" => outbox[1].version = version

Answered ==
    /\ outbox = <<>>
    /\ Answering(at, unread)
    /\ at = "negotiate" /\ unread[1].kind = "no" => version \in accepts

Upgrading == unread = <<>> /\ (outbox = <<>> \/ (Len(outbox) = 1 /\ outbox[1].kind = "sslConnect"))

Dialogue ==
    /\ socket \in {"none", "connecting"} => outbox = <<>> /\ unread = <<>>
    /\ socket = "open" /\ at \in Reads => Asked \/ Answered
    /\ socket = "open" /\ at = "tls" => Upgrading

LEMMA ReadingTakes ==
    ASSUME NEW b \in Seq(Token), NEW w \in Seq(Token), b # <<>>
    PROVE  /\ Tail(b) \o w = Tail(b \o w)
           /\ b \o w \in Seq(Token) /\ b \o w # <<>>
           /\ (b \o w)[1] = b[1]
OBVIOUS

\* What is left of an answer whose first token has been read.
LEMMA RestOfAnswer ==
    ASSUME NEW s \in Seq(Token), s # <<>>
    PROVE  /\ Tail(s) \in Seq(Token)
           /\ \A kinds : Says(s, kinds) => Tail(s) = <<>>
           /\ \A a, b : SaysPair(s, a, b) => Says(Tail(s), {b})
           /\ Completing(s) /\ s[1].kind # "ready" => Completing(Tail(s))
<1>1. /\ Tail(s) \in Seq(Token) /\ Len(Tail(s)) = Len(s) - 1
      /\ \A i \in 1..Len(s) - 1 : Tail(s)[i] = s[i + 1]
  OBVIOUS
<1>2. Len(s) \in Nat /\ (Len(Tail(s)) = 0 => Tail(s) = <<>>)
  BY <1>1
<1>3. Completing(s) /\ s[1].kind # "ready" => Completing(Tail(s))
  <2> SUFFICES ASSUME NEW i \in 1..Len(s), s[i].kind = "ready", s[1].kind # "ready"
               PROVE  Completing(Tail(s))
    BY DEF Completing
  <2>1. i - 1 \in 1..Len(Tail(s)) /\ Tail(s)[i - 1] = s[i]
    BY <1>1, <1>2
  <2> QED BY <2>1, Zenon DEF Completing
<1>4. \A kinds : Says(s, kinds) => Tail(s) = <<>>
  BY <1>1, <1>2 DEF Says
<1>5. \A a, b : SaysPair(s, a, b) => Says(Tail(s), {b})
  <2> SUFFICES ASSUME NEW a, NEW b, SaysPair(s, a, b) PROVE Says(Tail(s), {b})
    OBVIOUS
  <2>1. Len(s) = 2 /\ s[2].kind = b
    BY DEF SaysPair
  <2>2. Len(Tail(s)) = 1 /\ Tail(s)[1] = s[2]
    BY <1>1, <2>1
  <2> QED BY <2>1, <2>2 DEF Says
<1> QED BY <1>1, <1>3, <1>4, <1>5

LEMMA SaidKinds ==
    ASSUME NEW kinds \in Seq(Answers)
    PROVE  /\ Said(kinds) \in Seq(Token) /\ Len(Said(kinds)) = Len(kinds)
           /\ \A i \in 1..Len(kinds) : Said(kinds)[i].kind = kinds[i]
BY SaidTyped DEF Said

\* The server answers each question as the read behind it expects, or with an error.
LEMMA RepliesAnswer ==
    ASSUME NEW p \in Packet, NEW place \in Reads, Asking(place, p), NEW reply \in Replies(p)
    PROVE  Answering(place, Said(reply))
<1>1. /\ Said(reply) \in Seq(Token) /\ Len(Said(reply)) = Len(reply)
      /\ \A i \in 1..Len(reply) : Said(reply)[i].kind = reply[i]
  BY RepliesTyped, SaidKinds
<1>2. ASSUME NEW k, reply = <<k>> PROVE \A kinds : k \in kinds => Says(Said(reply), kinds)
  BY <1>1, <1>2 DEF Says
<1>3. ASSUME NEW k, NEW l, reply = <<k, l>> PROVE SaysPair(Said(reply), k, l)
  BY <1>1, <1>3 DEF SaysPair
<1>4. ASSUME NEW i \in 1..Len(reply), reply[i] = "ready" PROVE Completing(Said(reply))
  BY <1>1, <1>4 DEF Completing
<1>5. CASE p.kind = "clientDone"
  <2>1. place = "authentication"
    BY <1>5 DEF Asking, Reads
  <2>2. CASE reply \in {<<"plain">>, <<"unsupported">>}
    BY <1>2, <2>1, <2>2 DEF Answering
  <2>3. CASE reply \in {<<"md5", "salt">>, <<"sha256", "salt">>}
    BY <1>3, <2>1, <2>3 DEF Answering
  <2>4. CASE \E c \in Completions : reply = <<"ok">> \o c
    <3>1. Len(reply) > 0 /\ reply[1] = "ok" /\ \E i \in 1..Len(reply) : reply[i] = "ready"
      <4>1. CASE reply = <<"ok">> \o <<"ok", "key", "ready">>
        <5>1. Len(reply) = 4 /\ reply[1] = "ok" /\ reply[4] = "ready"
          BY <4>1
        <5> QED BY <5>1
      <4>2. CASE reply = <<"ok">> \o <<"notice", "key", "ready", "later">>
        <5>1. Len(reply) = 5 /\ reply[1] = "ok" /\ reply[4] = "ready"
          BY <4>2
        <5> QED BY <5>1
      <4>3. CASE reply = <<"ok">> \o <<"key", "other", "ready", "later">>
        <5>1. Len(reply) = 5 /\ reply[1] = "ok" /\ reply[4] = "ready"
          BY <4>3
        <5> QED BY <5>1
      <4> QED BY <2>4, <4>1, <4>2, <4>3 DEF Completions
    <3>2. Completing(Said(reply)) /\ Said(reply)[1].kind = "ok"
      BY <1>1, <1>4, <3>1
    <3> QED BY <2>1, <3>2 DEF Answering
  <2> QED BY <1>5, <2>2, <2>3, <2>4 DEF Replies
<1>6. CASE p.kind = "password"
  <2>1. place = "completion"
    BY <1>6 DEF Asking, Reads, Options
  <2>2. CASE reply = <<"error">>
    BY <1>2, <2>1, <2>2 DEF Answering
  <2>3. CASE reply \in Completions
    <3>1. \E i \in 1..Len(reply) : reply[i] = "ready"
      <4>1. CASE reply = <<"ok", "key", "ready">>
        <5>1. Len(reply) = 3 /\ reply[3] = "ready"
          BY <4>1
        <5> QED BY <5>1
      <4>2. CASE reply \in {<<"notice", "key", "ready", "later">>, <<"key", "other", "ready", "later">>}
        <5>1. Len(reply) = 4 /\ reply[3] = "ready"
          BY <4>2
        <5> QED BY <5>1
      <4> QED BY <2>3, <4>1, <4>2 DEF Completions
    <3> QED BY <1>4, <2>1, <3>1 DEF Answering
  <2> QED BY <1>6, <2>2, <2>3 DEF Replies
<1>7. CASE p.kind = "ssl"
  <2>1. place = "session"
    BY <1>7 DEF Asking, Reads, Options
  <2> QED BY <1>2, <1>7, <2>1 DEF Replies, Answering
<1>8. CASE p.kind \notin {"clientDone", "password", "ssl"}
  <2>1. place \in {"negotiate", "database", "confirmation", "option"} /\ p.kind # "sslConnect"
    BY <1>8 DEF Asking, Reads, Options
  <2>2. reply \in {<<"no">>, <<"error">>}
    BY <1>8, <2>1 DEF Replies
  <2> QED BY <1>2, <2>1, <2>2 DEF Answering
<1> QED BY <1>5, <1>6, <1>7, <1>8

\* What reading one token, and what writing one packet, does.
LEMMA OneRead ==
    ASSUME TypeOK, buffer # <<>>, buffer' = Tail(buffer), UNCHANGED wire
    PROVE  /\ unread \in Seq(Token) /\ unread # <<>> /\ unread[1] = buffer[1]
           /\ unread' = Tail(unread)
BY ReadingTakes DEF TypeOK, DataTyped, unread

LEMMA OneWritten ==
    ASSUME TypeOK, outbox = <<>>, NEW kind, NEW v, NEW onTls, Write(kind, v, onTls)
    PROVE  /\ Len(outbox') = 1 /\ outbox'[1].kind = kind /\ outbox'[1].version = v
           /\ outbox' # <<>>
<1>1. outbox' = <<[kind |-> kind, version |-> v, secured |-> onTls]>>
  BY DEF Write
<1>2. [kind |-> kind, version |-> v, secured |-> onTls].kind = kind
  OBVIOUS
<1>3. [kind |-> kind, version |-> v, secured |-> onTls].version = v
  OBVIOUS
<1> QED BY <1>1, <1>2, <1>3

\* A read that finds its token has the whole answer: the question is gone.
LEMMA AnswerRead ==
    ASSUME TypeOK, Dialogue, socket = "open", at \in Reads, buffer # <<>>
    PROVE  Answered
<1>1. unread # <<>>
  BY ReadingTakes DEF TypeOK, DataTyped, unread
<1> QED BY <1>1 DEF Dialogue, Asked

LEMMA DialogueStep == TypeOK /\ Dialogue /\ [Next]_vars => Dialogue' /\ UNCHANGED accepts
<1> SUFFICES ASSUME TypeOK, Dialogue, [Next]_vars PROVE Dialogue' /\ UNCHANGED accepts
  OBVIOUS
<1> USE DEF connection, handshake, server
<1>1. CASE UNCHANGED vars
  BY <1>1 DEF vars, network, Dialogue, Asked, Answered, Answering, Asking, Upgrading, Says,
    SaysPair, Completing, unread
<1>2. ASSUME UNCHANGED accepts, socket' = "destroyed" PROVE Dialogue' /\ UNCHANGED accepts
  BY <1>2 DEF Dialogue
<1>3. CASE TimerFires \/ SocketFails \/ SocketCloses \/ ReadFails \/ TlsFails \/ SessionRefused \/ Refused
  <2>1. UNCHANGED accepts /\ socket' = "destroyed"
    BY <1>3 DEF TimerFires, SocketFails, SocketCloses, ReadFails, TlsFails, SessionRefused,
      Refused, Throw, Destroy
  <2> QED BY <1>2, <2>1
<1>4. CASE Connect
  <2>1. socket = "none" /\ socket' = "connecting" /\ UNCHANGED <<buffer, wire, outbox, accepts>>
    BY <1>4 DEF Connect, network
  <2> QED BY <2>1 DEF Dialogue, unread
<1>5. CASE TcpConnects
  <2>1. outbox = <<>> /\ unread = <<>> /\ UNCHANGED <<buffer, wire, accepts, version>>
        /\ at' = "negotiate" /\ socket' = "open" /\ Write("version", version, FALSE)
    BY <1>5 DEF TcpConnects, Dialogue
  <2>2. Asked'
    BY <2>1, OneWritten DEF Asked, Asking, unread
  <2> QED BY <2>1, <2>2 DEF Dialogue
<1>6. CASE Fill
  <2>1. unread' = unread
    BY <1>6 DEF Fill, unread, TypeOK, DataTyped
  <2> QED BY <1>6, <2>1 DEF Fill, Dialogue, Asked, Answered, Answering, Asking, Upgrading, Says,
    SaysPair, Completing
<1>7. ASSUME NEW place, NEW kind, Reading(place, kind), place \in Reads, UNCHANGED <<socket, wire>>
      PROVE  /\ outbox = <<>> /\ socket' = "open" /\ at = place
             /\ Answering(place, unread) /\ unread[1].kind = kind
             /\ place = "negotiate" /\ kind = "no" => version \in accepts
             /\ unread \in Seq(Token) /\ unread # <<>> /\ unread' = Tail(unread)
  BY <1>7, OneRead, AnswerRead DEF Reading, Arrived, Answered
<1>8. ASSUME NEW k, socket' = "open", at' \in Reads, outbox = <<>>, unread' = <<>>, at' # "negotiate",
             Send(k), \A p : p.kind = k => Asking(at', p)
      PROVE  Dialogue'
  <2>1. Len(outbox') = 1 /\ outbox'[1].kind = k
    BY <1>8, OneWritten DEF Send
  <2>2. Asked'
    BY <1>8, <2>1 DEF Asked
  <2> QED BY <1>8, <2>2 DEF Dialogue, Reads
<1>9. ASSUME socket' = "open", at' \in Reads, outbox' = <<>>, at' # "negotiate", Answering(at', unread')
      PROVE  Dialogue'
  BY <1>9 DEF Dialogue, Answered, Reads
<1>10. CASE Negotiated
  <2>1. /\ outbox = <<>> /\ socket' = "open" /\ unread' = Tail(unread) /\ unread \in Seq(Token)
        /\ Answering("negotiate", unread) /\ unread[1].kind = "no" /\ unread # <<>>
    BY <1>7, <1>10 DEF Negotiated, Reads
  <2>2. unread' = <<>>
    BY <2>1, RestOfAnswer DEF Answering, SaysPair
  <2> QED BY <1>8, <1>10, <2>1, <2>2 DEF Negotiated, Asking, Reads
<1>11. CASE VersionSuggested
  <2>1. /\ outbox = <<>> /\ socket' = "open" /\ unread' = Tail(unread) /\ unread \in Seq(Token)
        /\ Answering("negotiate", unread) /\ unread[1].kind = "modify" /\ unread # <<>>
    BY <1>7, <1>11 DEF VersionSuggested, Reads
  <2>2. Says(unread', {"digit"})
    BY <2>1, RestOfAnswer DEF Answering, Says
  <2>3. Answering("suggestion", unread')
    BY <2>2 DEF Answering
  <2> QED BY <1>9, <1>11, <2>1, <2>3 DEF VersionSuggested, Reads
<1>12. CASE VersionOffered
  <2>1. /\ outbox = <<>> /\ socket' = "open" /\ unread' = Tail(unread) /\ unread \in Seq(Token)
        /\ Answering("suggestion", unread) /\ unread # <<>>
    BY <1>7, <1>12 DEF VersionOffered, Reads
  <2>2. unread' = <<>>
    BY <2>1, RestOfAnswer DEF Answering
  <2>3. Len(outbox') = 1 /\ outbox'[1].kind = "version" /\ outbox'[1].version = version'
    BY <1>12, <2>1, OneWritten DEF VersionOffered
  <2>4. Asked'
    BY <1>12, <2>2, <2>3 DEF VersionOffered, Asked, Asking
  <2> QED BY <1>12, <2>1, <2>4 DEF VersionOffered, Dialogue, Reads
<1>13. CASE DatabaseSelected
  <2>1. /\ outbox = <<>> /\ socket' = "open" /\ unread' = Tail(unread) /\ unread \in Seq(Token)
        /\ Answering("database", unread) /\ unread # <<>>
    BY <1>7, <1>13 DEF DatabaseSelected, Reads
  <2>2. unread' = <<>>
    BY <2>1, RestOfAnswer DEF Answering
  <2> QED BY <1>8, <1>13, <2>1, <2>2 DEF DatabaseSelected, Asking, Reads
<1>14. CASE SessionUnsecured \/ SessionConfirmed
  <2>1. PICK place \in {"session", "confirmation"} :
           Reading(place, "no") /\ UNCHANGED <<socket, wire, accepts>> /\ at' = "option" /\ Send("user")
    BY <1>14 DEF SessionUnsecured, SessionConfirmed, StartOptions
  <2>2. /\ outbox = <<>> /\ socket' = "open" /\ unread' = Tail(unread) /\ unread \in Seq(Token)
        /\ Answering(place, unread) /\ unread # <<>>
    BY <1>7, <2>1 DEF Reads
  <2>3. unread' = <<>>
    BY <2>2, RestOfAnswer DEF Answering
  <2> QED BY <1>8, <2>1, <2>2, <2>3 DEF Asking, Reads
<1>15. CASE SessionSecured
  <2>1. Answered /\ buffer \in Seq(Token) /\ wire \in Seq(Token) /\ buffer # <<>>
    BY <1>15, AnswerRead DEF SessionSecured, Arrived, Reads, TypeOK, DataTyped
  <2>2. Tail(unread) = Tail(buffer) \o wire /\ unread \in Seq(Token) /\ unread # <<>>
    BY <2>1, ReadingTakes DEF unread
  <2>3. unread' = Tail(unread)
    BY <1>15, <2>1, <2>2 DEF SessionSecured, flushUnreadToStream, unread
  <2>4. unread' = <<>>
    BY <1>15, <2>1, <2>2, <2>3, RestOfAnswer DEF SessionSecured, Answered, Answering
  <2>5. Len(outbox') = 1 /\ outbox'[1].kind = "sslConnect"
    BY <1>15, <2>1, OneWritten DEF SessionSecured, Send, Answered
  <2>6. at' = "tls" /\ UNCHANGED <<socket, accepts>> /\ socket = "open"
    BY <1>15 DEF SessionSecured, Arrived
  <2> QED BY <2>4, <2>5, <2>6 DEF Dialogue, Upgrading, Reads
<1>16. CASE TlsConnects
  <2>1. Upgrading /\ socket' = "open" /\ at' = "confirmation" /\ UNCHANGED <<wire, accepts>>
        /\ buffer' = <<>> /\ Write("tlsFinished", None, TRUE)
    BY <1>16 DEF TlsConnects, Dialogue
  <2>2. unread' = <<>>
    BY <2>1 DEF Upgrading, unread, TypeOK, DataTyped
  <2>3. CASE outbox = <<>>
    <3>1. Len(outbox') = 1 /\ outbox'[1].kind = "tlsFinished"
      BY <2>1, <2>3, OneWritten
    <3>2. Asked'
      BY <2>1, <2>2, <3>1 DEF Asked, Asking
    <3> QED BY <2>1, <3>2 DEF Dialogue
  <2>4. CASE Len(outbox) = 1 /\ outbox[1].kind = "sslConnect"
    <3>1. outbox \in Seq(Packet)
      BY DEF TypeOK, DataTyped
    <3> DEFINE p == [kind |-> "tlsFinished", version |-> None, secured |-> TRUE]
    <3>2. p.kind = "tlsFinished" /\ outbox' = Append(outbox, p)
      BY <2>1, Zenon DEF Write
    <3> HIDE DEF p
    <3>3. Len(outbox') = 2 /\ outbox'[1] = outbox[1] /\ outbox'[2] = p
      BY <2>4, <3>1, <3>2
    <3>4. Asked'
      BY <2>1, <2>2, <2>4, <3>2, <3>3 DEF Asked, Asking
    <3> QED BY <2>1, <3>4 DEF Dialogue
  <2> QED BY <2>1, <2>3, <2>4 DEF Upgrading
<1>17. CASE OptionAccepted
  <2>1. /\ outbox = <<>> /\ socket' = "open" /\ unread' = Tail(unread) /\ unread \in Seq(Token)
        /\ Answering("option", unread) /\ unread # <<>>
    BY <1>7, <1>17 DEF OptionAccepted, Reads
  <2>2. unread' = <<>>
    BY <2>1, RestOfAnswer DEF Answering
  <2>3. information \in Options
    BY DEF TypeOK, DataTyped
  <2>4. at' \in {"authentication", "option"} /\ \A p : p.kind = information => Asking(at', p)
    BY <1>17, <2>3 DEF OptionAccepted, Asking
  <2> QED BY <1>8, <1>17, <2>1, <2>2, <2>4 DEF OptionAccepted, Reads
<1>18. CASE Authenticated
  <2>1. /\ outbox = <<>> /\ socket' = "open" /\ unread' = Tail(unread) /\ unread \in Seq(Token)
        /\ Answering("authentication", unread) /\ unread # <<>> /\ unread[1].kind = "ok"
    BY <1>7, <1>18 DEF Authenticated, Reads
  <2>2. Completing(unread)
    BY <2>1 DEF Answering, Says, SaysPair
  <2>3. Completing(unread')
    BY <2>1, <2>2, RestOfAnswer
  <2>4. Answering("completion", unread')
    BY <2>3 DEF Answering
  <2> QED BY <1>9, <1>18, <2>1, <2>4 DEF Authenticated, Reads
<1>19. CASE PlainPassword \/ HashedPassword
  <2>1. PICK place \in {"authentication", "salt"}, kind \in {"plain", "salt"} :
           /\ Reading(place, kind) /\ (kind = "plain" <=> place = "authentication")
           /\ UNCHANGED <<socket, wire, accepts>> /\ at' = "completion" /\ Send("password")
    BY <1>19 DEF PlainPassword, HashedPassword
  <2>2. /\ outbox = <<>> /\ socket' = "open" /\ unread' = Tail(unread) /\ unread \in Seq(Token)
        /\ Answering(place, unread) /\ unread # <<>> /\ unread[1].kind = kind
    BY <1>7, <2>1 DEF Reads
  <2>3. unread' = <<>>
    <3>1. \E kinds : Says(unread, kinds)
      BY <2>1, <2>2 DEF Answering, SaysPair
    <3> QED BY <2>2, <3>1, RestOfAnswer
  <2> QED BY <1>8, <2>1, <2>2, <2>3 DEF Asking, Reads
<1>20. CASE HashRequested
  <2>1. PICK kind \in {"md5", "sha256"} :
           Reading("authentication", kind) /\ UNCHANGED <<socket, wire, outbox, accepts>> /\ at' = "salt"
    BY <1>20 DEF HashRequested
  <2>2. /\ outbox = <<>> /\ socket' = "open" /\ unread' = Tail(unread) /\ unread \in Seq(Token)
        /\ Answering("authentication", unread) /\ unread # <<>> /\ unread[1].kind = kind
    BY <1>7, <2>1 DEF Reads
  <2>3. \E hash \in {"md5", "sha256"} : SaysPair(unread, hash, "salt")
    BY <2>1, <2>2 DEF Answering, Says
  <2>4. Says(unread', {"salt"})
    BY <2>2, <2>3, RestOfAnswer
  <2>5. Answering("salt", unread')
    BY <2>4 DEF Answering
  <2> QED BY <1>9, <2>1, <2>2, <2>5 DEF Reads
<1>21. CASE CompletionSkips \/ CompletionKey
  <2>1. PICK kind : /\ Reading("completion", kind) /\ kind \notin {"ready", "error"}
                    /\ UNCHANGED <<socket, wire, outbox, accepts, at>>
    BY <1>21 DEF CompletionSkips, CompletionKey, Requests
  <2>2. /\ outbox = <<>> /\ socket' = "open" /\ unread' = Tail(unread) /\ unread \in Seq(Token)
        /\ Answering("completion", unread) /\ unread # <<>> /\ unread[1].kind = kind
        /\ at = "completion"
    BY <1>7, <2>1 DEF Reads
  <2>3. Completing(unread)
    BY <2>1, <2>2 DEF Answering, Says
  <2>4. Completing(unread')
    BY <2>1, <2>2, <2>3, RestOfAnswer
  <2>5. Answering("completion", unread')
    BY <2>4 DEF Answering
  <2> QED BY <1>9, <2>1, <2>2, <2>5 DEF Reads
<1>22. CASE CompletionReady
  <2>1. at' = "returned" /\ socket' = "open" /\ UNCHANGED accepts
    BY <1>22 DEF CompletionReady, Return, Arrived
  <2> QED BY <2>1 DEF Dialogue, Reads
<1>23. CASE ServerReplies \/ ServerSuggests
  <2>1. /\ outbox \in Seq(Packet) /\ outbox # <<>> /\ outbox' = Tail(outbox)
        /\ UNCHANGED <<socket, at, version, buffer, accepts>>
        /\ wire \in Seq(Token) /\ buffer \in Seq(Token)
    BY <1>23 DEF ServerReplies, ServerSuggests, TypeOK, DataTyped
  <2>2. outbox[1] \in Packet /\ (Len(outbox) = 1 => outbox' = <<>>)
        /\ (Len(outbox) = 2 => Len(outbox') = 1 /\ outbox'[1] = outbox[2])
    BY <2>1
  <2>3. CASE socket = "open" /\ at = "tls"
    <3>1. Upgrading
      BY <2>3 DEF Dialogue
    <3>2. Len(outbox) = 1 /\ outbox[1].kind = "sslConnect" /\ buffer = <<>> /\ wire = <<>>
      BY <2>1, <3>1 DEF Upgrading, unread
    <3>3. wire' = <<>>
      BY <1>23, <3>2 DEF ServerReplies, ServerSuggests, Replies, Said
    <3> QED BY <2>1, <2>2, <2>3, <3>2, <3>3 DEF Dialogue, Upgrading, unread, Reads
  <2>4. CASE socket = "open" /\ at \in Reads
    <3>1. Asked
      BY <2>1, <2>4 DEF Dialogue, Answered
    <3>2. buffer = <<>> /\ wire = <<>>
      BY <2>1, <3>1 DEF Asked, unread
    <3>3. CASE Len(outbox) = 1 /\ Asking(at, outbox[1]) /\ ServerReplies
      <4>1. PICK reply \in Replies(outbox[1]) : wire' = wire \o Said(reply)
        BY <3>3 DEF ServerReplies
      <4>2. reply \in Seq(Answers) /\ Said(reply) \in Seq(Token)
        BY <2>2, RepliesTyped, SaidTyped
      <4>3. unread' = Said(reply)
        BY <2>1, <3>2, <4>1, <4>2 DEF unread
      <4>4. Answering(at, unread')
        BY <2>2, <2>4, <3>3, <4>3, RepliesAnswer
      <4>5. at = "negotiate" => version \in accepts
        BY <3>1, <3>3 DEF Asked, Asking, ServerReplies
      <4>6. Answered'
        BY <2>1, <2>2, <3>3, <4>4, <4>5 DEF Answered
      <4> QED BY <2>1, <2>4, <4>6 DEF Dialogue, Reads
    <3>4. CASE Len(outbox) = 1 /\ Asking(at, outbox[1]) /\ ServerSuggests
      <4>1. at = "negotiate"
        BY <2>4, <3>4 DEF ServerSuggests, Asking, Reads, Options
      <4>2. PICK v \in Suggestions :
              wire' = wire \o <<[kind |-> "modify", version |-> None], [kind |-> "digit", version |-> v]>>
        BY <3>4 DEF ServerSuggests
      <4> DEFINE t1 == [kind |-> "modify", version |-> None]
                 t2 == [kind |-> "digit", version |-> v]
      <4>3. t1.kind = "modify" /\ t2.kind = "digit"
        OBVIOUS
      <4>4. wire' = wire \o <<t1, t2>>
        BY <4>2
      <4> HIDE DEF t1, t2
      <4>5. unread' = <<t1, t2>>
        BY <2>1, <3>2, <4>4 DEF unread
      <4>6. SaysPair(unread', "modify", "digit") /\ unread'[1].kind = "modify"
        BY <4>3, <4>5 DEF SaysPair
      <4>7. Answered'
        BY <2>1, <2>2, <3>4, <4>1, <4>6 DEF Answered, Answering
      <4> QED BY <2>1, <2>4, <4>7 DEF Dialogue, Reads
    <3>5. CASE /\ at = "confirmation" /\ Len(outbox) = 2
               /\ outbox[1].kind = "sslConnect" /\ Asking(at, outbox[2])
      <4>1. wire' = <<>>
        BY <1>23, <3>2, <3>5 DEF ServerReplies, ServerSuggests, Replies, Said
      <4>2. unread' = <<>>
        BY <2>1, <3>2, <4>1 DEF unread
      <4>3. Asked'
        BY <2>1, <2>2, <3>5, <4>2 DEF Asked, Asking
      <4> QED BY <2>1, <2>4, <4>3 DEF Dialogue, Reads
    <3> QED BY <1>23, <3>1, <3>3, <3>4, <3>5 DEF Asked
  <2>5. CASE ~(socket = "open" /\ (at = "tls" \/ at \in Reads))
    BY <2>1, <2>5 DEF Dialogue
  <2> QED BY <2>3, <2>4, <2>5
<1> QED BY <1>1, <1>3, <1>4, <1>5, <1>6, <1>10, <1>11, <1>12, <1>13, <1>14, <1>15, <1>16, <1>17,
      <1>18, <1>19, <1>20, <1>21, <1>22, <1>23 DEF Next, Client

LEMMA DialogueInit == Init => Dialogue
BY DEF Init, Dialogue, unread

\* While connect() waits for the server, a packet or an answer is on its way
\* (the reads of src/Handshake.ts): no security level, version, option chain or
\* authentication makes the two sides wait for each other.
THEOREM NeverBothWait == Spec => []NeverBothWaiting
<1>1. TypeOK /\ Dialogue => NeverBothWaiting
  <2> SUFFICES ASSUME TypeOK, Dialogue, at \in Reads, socket = "open", outbox = <<>>
               PROVE  unread # <<>>
    BY DEF NeverBothWaiting
  <2>1. Answering(at, unread)
    BY DEF Dialogue, Asked, Answered
  <2>2. Len(unread) # 0
    BY <2>1 DEF Answering, Says, SaysPair, Completing, Reads
  <2> QED BY <2>2
<1> QED BY <1>1, DialogueInit, DialogueStep, TypeCorrect, PTL DEF Spec

\* The options are those of a version the server has accepted, after any number
\* of suggestions (connHandshakeNegotiate of src/Handshake.ts).
THEOREM VersionAlwaysAgreed == Spec => []VersionAgreed
<1>1. Init => VersionAgreed
  BY DEF Init, VersionAgreed
<1>2. TypeOK /\ Dialogue /\ VersionAgreed /\ [Next]_vars => VersionAgreed'
  <2> SUFFICES ASSUME TypeOK, Dialogue, VersionAgreed, [Next]_vars PROVE VersionAgreed'
    OBVIOUS
  <2>1. UNCHANGED accepts
    BY DialogueStep
  <2>2. CASE Negotiated
    <3>1. Answered /\ at = "negotiate" /\ unread[1].kind = "no"
      BY <2>2, AnswerRead, OneRead DEF Negotiated, Reading, Arrived, Reads
    <3> QED BY <2>1, <2>2, <3>1 DEF Negotiated, Answered, VersionAgreed
  <2>3. CASE ~Negotiated
    <3>1. UNCHANGED hsVersion
      BY <2>3 DEF Next, Client, vars, Connect, TcpConnects, TimerFires, SocketFails, SocketCloses,
        TlsConnects, TlsFails, ReadFails, SessionRefused, Refused, Throw, Fill, VersionSuggested,
        VersionOffered, DatabaseSelected, SessionUnsecured, SessionSecured, SessionConfirmed,
        StartOptions, OptionAccepted, Authenticated, PlainPassword, HashRequested, HashedPassword,
        CompletionSkips, CompletionKey, CompletionReady, Return, ServerReplies, ServerSuggests,
        handshake
    <3> QED BY <2>1, <3>1 DEF VersionAgreed
  <2> QED BY <2>2, <2>3
<1> QED BY <1>1, <1>2, DialogueInit, DialogueStep, TypeCorrect, PTL DEF Spec
-----------------------------------------------------------------------------
(* The stream: a step reads at most one token, and the rest stays in order. *)

Continuing ==
    socket' = "open" =>
        \E k \in {0, 1} : IsPrefix(SubSeq(unread, k + 1, Len(unread)), unread')

\* What the server says comes after what is unread.
LEMMA StreamGrows ==
    ASSUME unread \in Seq(Token), NEW said \in Seq(Token), unread' = unread \o said
    PROVE  Continuing
<1>1. \A s, t \in Seq(Token) : IsPrefix(SubSeq(s, 0 + 1, Len(s)), s \o t)
  BY DEF IsPrefix
<1>2. IsPrefix(SubSeq(unread, 0 + 1, Len(unread)), unread')
  BY <1>1
<1> QED BY <1>2 DEF Continuing

\* A step that reads nothing leaves the stream as it is.
LEMMA StreamRests ==
    ASSUME unread \in Seq(Token), unread' = unread
    PROVE  Continuing
<1>1. unread' = unread \o <<>> /\ <<>> \in Seq(Token)
  OBVIOUS
<1> QED BY <1>1, StreamGrows

\* A step that reads takes the first token.
LEMMA StreamRead ==
    ASSUME unread \in Seq(Token), unread # <<>>, unread' = Tail(unread)
    PROVE  Continuing
<1>1. \A s \in Seq(Token) : s # <<>> => IsPrefix(SubSeq(s, 1 + 1, Len(s)), Tail(s))
  <2> SUFFICES ASSUME NEW s \in Seq(Token), s # <<>>
               PROVE  IsPrefix(SubSeq(s, 1 + 1, Len(s)), Tail(s))
    OBVIOUS
  <2>1. SubSeq(s, 1 + 1, Len(s)) = Tail(s) /\ Tail(s) \in Seq(Token)
    OBVIOUS
  <2> QED BY <2>1 DEF IsPrefix
<1>2. IsPrefix(SubSeq(unread, 1 + 1, Len(unread)), unread')
  BY <1>1
<1> QED BY <1>2 DEF Continuing

\* The token that has been read is gone, what was read too far is back in the
\* stream (flushUnreadToStream of src/utils/SocketTransport.ts).
LEMMA StreamGivenBack ==
    ASSUME TypeOK, buffer # <<>>, flushUnreadToStream(Tail(buffer))
    PROVE  Continuing
<1>1. /\ Tail(buffer) \o wire = Tail(unread) /\ unread \in Seq(Token) /\ unread # <<>>
      /\ Tail(buffer) \o wire \in Seq(Token)
  <2>1. buffer \in Seq(Token) /\ wire \in Seq(Token)
    BY DEF TypeOK, DataTyped
  <2> QED BY <2>1, ReadingTakes, RestTyped DEF unread
<1>2. unread' = Tail(unread)
  BY <1>1 DEF flushUnreadToStream, unread
<1> QED BY <1>1, <1>2, StreamRead

\* No step loses, repeats or reorders what the server has said, neither the
\* reads of src/Handshake.ts nor the transport that hands the stream to TLS and
\* to the connection.
THEOREM StreamAlwaysContinuous == Spec => StreamContinuous
<1>1. TypeOK /\ Dialogue /\ [Next]_vars => Continuing
  <2> SUFFICES ASSUME TypeOK, Dialogue, [Next]_vars PROVE Continuing
    OBVIOUS
  <2> USE DEF connection, handshake, server
  <2>1. buffer \in Seq(Token) /\ wire \in Seq(Token) /\ unread \in Seq(Token)
    BY DEF TypeOK, DataTyped, unread
  <2>2. CASE UNCHANGED <<buffer, wire>>
    BY <2>1, <2>2, StreamRests DEF unread
  <2>3. CASE socket' # "open"
    BY <2>3 DEF Continuing
  <2>4. CASE Fill
    <3>1. unread' = unread
      BY <2>1, <2>4 DEF Fill, unread
    <3> QED BY <2>1, <3>1, StreamRests
  <2>5. CASE \E place, kind : Reading(place, kind) /\ UNCHANGED wire
    <3>1. unread # <<>> /\ unread' = Tail(unread)
      BY <2>5, OneRead DEF Reading, Arrived
    <3> QED BY <2>1, <3>1, StreamRead
  <2>6. CASE SessionSecured \/ CompletionReady
    <3>1. buffer # <<>> /\ flushUnreadToStream(Tail(buffer))
      BY <2>6 DEF SessionSecured, CompletionReady, Return, Arrived
    <3> QED BY <3>1, StreamGivenBack
  <2>7. CASE TlsConnects
    <3>1. unread = <<>> /\ buffer' = <<>> /\ UNCHANGED wire
      BY <2>7 DEF TlsConnects, Dialogue, Upgrading
    <3>2. unread' = unread
      BY <2>1, <3>1 DEF unread
    <3> QED BY <2>1, <3>2, StreamRests
  <2>8. CASE ServerReplies
    <3>1. PICK reply \in Replies(outbox[1]) : wire' = wire \o Said(reply) /\ UNCHANGED buffer
      BY <2>8 DEF ServerReplies
    <3>2. outbox[1] \in Packet
      BY <2>8 DEF ServerReplies, TypeOK, DataTyped
    <3>3. Said(reply) \in Seq(Token)
      BY <3>2, RepliesTyped, SaidTyped
    <3>4. unread' = unread \o Said(reply)
      BY <2>1, <3>1, <3>3 DEF unread
    <3> QED BY <2>1, <3>3, <3>4, StreamGrows
  <2>9. CASE ServerSuggests
    <3>1. PICK v \in Suggestions :
            /\ wire' = wire \o <<[kind |-> "modify", version |-> None],
                                 [kind |-> "digit", version |-> v]>>
            /\ UNCHANGED buffer
      BY <2>9 DEF ServerSuggests
    <3> DEFINE t1 == [kind |-> "modify", version |-> None]
               t2 == [kind |-> "digit", version |-> v]
    <3>2. t1 \in Token /\ t2 \in Token
      BY VersionsAssumption DEF Token, Answers, None
    <3>3. wire' = wire \o <<t1, t2>>
      BY <3>1
    <3> HIDE DEF t1, t2
    <3>4. <<t1, t2>> \in Seq(Token)
      BY <3>2
    <3>5. unread' = unread \o <<t1, t2>>
      BY <2>1, <3>1, <3>3, <3>4 DEF unread
    <3> QED BY <2>1, <3>4, <3>5, StreamGrows
  <2>10. CASE TimerFires \/ SocketFails \/ SocketCloses \/ ReadFails \/ TlsFails \/ SessionRefused \/ Refused
    <3>1. socket' = "destroyed"
      BY <2>10 DEF TimerFires, SocketFails, SocketCloses, ReadFails, TlsFails, SessionRefused,
        Refused, Throw, Destroy
    <3> QED BY <2>3, <3>1
  <2>11. CASE Connect \/ TcpConnects
    BY <2>2, <2>11 DEF Connect, TcpConnects, network
  <2>12. CASE \/ Negotiated \/ VersionSuggested \/ VersionOffered \/ DatabaseSelected
              \/ SessionUnsecured \/ SessionConfirmed \/ OptionAccepted \/ Authenticated
              \/ PlainPassword \/ HashRequested \/ HashedPassword \/ CompletionSkips
              \/ CompletionKey
    BY <2>5, <2>12 DEF Negotiated, VersionSuggested, VersionOffered, DatabaseSelected,
      SessionUnsecured, SessionConfirmed, StartOptions, OptionAccepted, Authenticated,
      PlainPassword, HashRequested, HashedPassword, CompletionSkips, CompletionKey
  <2>13. CASE UNCHANGED vars
    BY <2>2, <2>13 DEF vars, network
  <2> QED BY <2>4, <2>6, <2>7, <2>8, <2>9, <2>10, <2>11, <2>12, <2>13 DEF Next, Client
<1>2. TypeOK /\ Dialogue /\ [Next]_vars =>
        [socket' = "open" =>
            \E k \in {0, 1} : IsPrefix(SubSeq(unread, k + 1, Len(unread)), unread')]_vars
  BY <1>1 DEF Continuing
<1> QED BY <1>2, DialogueInit, DialogueStep, TypeCorrect, PTL DEF Spec, StreamContinuous
=============================================================================
