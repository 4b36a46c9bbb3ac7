------------------------- MODULE ExternalTable_proofs -------------------------
(***************************************************************************)
(* For any number of transfers and blocks, with failures of files, sources *)
(* and sockets at any moment: the server takes an import for complete only *)
(* when it has received all of it; a command that succeeds leaves no file  *)
(* open, both unless it began in the middle of an earlier response; an     *)
(* export that returns has all of its data on disk, whatever came before.  *)
(***************************************************************************)
EXTENDS ExternalTable, TLAPS

USE BoundsAssumption
-----------------------------------------------------------------------------
(***************************************************************************)
(* Where the client goes when the socket has taken what it has written.    *)
(***************************************************************************)
where == IF at = "writing" THEN afterWrite ELSE at

\* Tokens after which the server waits for the client, or for the next command.
Pauses == {"u", "l", "config", "ready"}
Coming(token) == wire # <<>> /\ wire[Len(wire)] = token

DataOnly(s) == \A i \in 1..Len(s) : s[i] = "data"

\* What the server still has to receive of an import.
Remaining ==
    \A i \in 1..Len(sent) :
        /\ sent[i] \in Awaited.importing
        /\ sent[i] \in {"done", "error"} => i = Len(sent)
        /\ sent[i] = "done" =>
            served + Len(sent) - 1 = total /\ ~broken

ImportTyped ==
    /\ wire \in Seq(Said) /\ sent \in Seq(Packets)
    /\ served \in Nat /\ source \in Nat /\ total \in Nat
    /\ socket \in {"open", "dead"}
    /\ server \in ServerStates

\* A verdict is only there between two exchanges, and while nobody changes what
\* it is about.
VerdictKept ==
    /\ server \notin {"idle", "ready"} => verdict = "none"
    /\ where = "source" => verdict = "none"
    /\ Coming("config") => verdict = "none" /\ where # "source"

\* On a live socket the two sides take turns, but for the blocks of an import,
\* which are in the source, on their way, or received.
Turns ==
    /\ server \in {"idle", "exporting", "logging", "ready"} => sent = <<>>
    /\ server \in {"offering", "greeting"} => Len(sent) <= 1
    /\ server = "greeting" => served = 0
    /\ server = "importing" => Remaining
    /\ Coming("u") => server = "offering" /\ sent = <<>>
    /\ Coming("l") => server = "greeting" /\ sent = <<>>
    /\ Coming("config") => server = "importing" /\ sent = <<>> /\ served = 0
    /\ Coming("ready") => server = "ready"
    /\ where = "source" =>
        /\ server = "importing" /\ DataOnly(sent)
        /\ served + Len(sent) + source = total /\ ~broken
    /\ where = "ended" => server = "ready" /\ wire = <<>>

Whole == verdict = "done" => served = total /\ ~broken

\* A command that has begun in step with the server.
Import ==
    /\ ImportTyped
    /\ \A i \in 1..Len(wire) : wire[i] \in Pauses => i = Len(wire)
    /\ socket = "dead" => sent = <<>>
    /\ VerdictKept
    /\ socket = "open" => Turns
    /\ Whole
-----------------------------------------------------------------------------
LEMMA SequenceFacts ==
    ASSUME NEW S, NEW s \in Seq(S), s # <<>>
    PROVE  /\ Len(s) \in Nat /\ Len(s) > 0
           /\ Head(s) = s[1] /\ Tail(s) \in Seq(S) /\ Len(Tail(s)) = Len(s) - 1
           /\ \A i \in 1..Len(s) - 1 : Tail(s)[i] = s[i + 1]
           /\ Len(s) = 1 => Tail(s) = <<>>
<1>1. Len(s) \in Nat /\ Len(s) > 0
  OBVIOUS
<1>2. /\ Head(s) = s[1] /\ Tail(s) \in Seq(S) /\ Len(Tail(s)) = Len(s) - 1
      /\ \A i \in 1..Len(s) - 1 : Tail(s)[i] = s[i + 1]
  OBVIOUS
<1>3. \A r \in Seq(S) : Len(r) = 0 => r = <<>>
  OBVIOUS
<1> QED BY <1>1, <1>2, <1>3

LEMMA JustOne == ASSUME NEW n \in Nat, n > 0, n <= 1 PROVE n = 1
OBVIOUS

\* What leaves the transfer, the network and the server alone, and neither
\* opens a source nor ends the command.
LEMMA Aside ==
    ASSUME Import, UNCHANGED <<import, network, serving>>,
           where' = where \/ where' \notin {"source", "ended"}
    PROVE  Import'
BY DEF Import, ImportTyped, VerdictKept, Turns, Coming, DataOnly, Remaining, Whole,
  import, network, serving

\* After a token is read, the last one is still the last one.
LEMMA TailFacts ==
    ASSUME NEW S, NEW P, NEW s \in Seq(S), s # <<>>,
           \A i \in 1..Len(s) : s[i] \in P => i = Len(s)
    PROVE  /\ \A i \in 1..Len(Tail(s)) : Tail(s)[i] \in P => i = Len(Tail(s))
           /\ Tail(s) # <<>> => Tail(s)[Len(Tail(s))] = s[Len(s)]
<1> DEFINE rest == Tail(s)
<1>1. /\ Len(s) \in Nat /\ Len(s) > 0 /\ rest \in Seq(S) /\ Len(rest) = Len(s) - 1
      /\ \A i \in 1..Len(s) - 1 : rest[i] = s[i + 1]
  BY SequenceFacts
<1> HIDE DEF rest
<1>2. ASSUME NEW i \in 1..Len(rest), rest[i] \in P PROVE i = Len(rest)
  <2>1. i \in 1..Len(s) - 1 /\ i + 1 \in 1..Len(s)
    BY <1>1, <1>2
  <2>2. rest[i] = s[i + 1]
    BY <1>1, <2>1
  <2>3. i + 1 = Len(s)
    BY <1>2, <2>1, <2>2
  <2> QED BY <1>1, <1>2, <2>3
<1>3. ASSUME rest # <<>> PROVE rest[Len(rest)] = s[Len(s)]
  <2>1. Len(rest) \in Nat /\ Len(rest) # 0
    BY <1>1, <1>3
  <2>2. Len(rest) \in 1..Len(s) - 1 /\ Len(rest) + 1 = Len(s)
    BY <1>1, <2>1
  <2> QED BY <1>1, <2>2
<1> QED BY <1>2, <1>3 DEF rest

LEMMA OneLess ==
    ASSUME ImportTyped, wire # <<>>, wire' = Tail(wire),
           \A i \in 1..Len(wire) : wire[i] \in Pauses => i = Len(wire)
    PROVE  /\ wire' \in Seq(Said)
           /\ \A i \in 1..Len(wire') : wire'[i] \in Pauses => i = Len(wire')
           /\ \A token : Coming(token)' => Coming(token)
<1>1. wire \in Seq(Said)
  BY DEF ImportTyped
<1>2. wire' \in Seq(Said)
  BY <1>1, SequenceFacts
<1>3. /\ \A i \in 1..Len(wire') : wire'[i] \in Pauses => i = Len(wire')
      /\ wire' # <<>> => wire'[Len(wire')] = wire[Len(wire)]
  BY <1>1, TailFacts
<1>4. \A token : Coming(token)' => Coming(token)
  BY <1>3 DEF Coming
<1> QED BY <1>2, <1>3, <1>4

\* A token is read, and the client neither writes nor opens a source.
LEMMA ReadOn ==
    ASSUME Import, wire # <<>>, wire' = Tail(wire), UNCHANGED <<import, socket, sent, serving>>,
           where' \notin {"source", "ended"}
    PROVE  Import'
<1>1. /\ wire' \in Seq(Said)
      /\ \A i \in 1..Len(wire') : wire'[i] \in Pauses => i = Len(wire')
      /\ \A token : Coming(token)' => Coming(token)
  BY OneLess DEF Import
<1>2. ImportTyped' /\ VerdictKept'
  BY <1>1 DEF Import, ImportTyped, VerdictKept, import, serving
<1>3. socket' = "open" => Turns'
  BY <1>1 DEF Import, Turns, Remaining, import, serving
<1> QED BY <1>1, <1>2, <1>3 DEF Import, Whole, import, serving

\* A token after which the server waits is the last one.
LEMMA PauseRead ==
    ASSUME Import, NEW place, NEW token \in Pauses, Receive(place, token)
    PROVE  /\ Coming(token) /\ wire' = <<>> /\ at = place
           /\ UNCHANGED <<socket, serving>>
<1>1. /\ wire # <<>> /\ Head(wire) = token /\ wire' = Tail(wire) /\ at = place
      /\ UNCHANGED <<socket, serving>>
  BY DEF Receive
<1>2. Len(wire) \in Nat /\ Len(wire) > 0 /\ Head(wire) = wire[1]
      /\ (Len(wire) = 1 => Tail(wire) = <<>>)
  BY <1>1, SequenceFacts DEF Import, ImportTyped
<1>3. \A i \in 1..Len(wire) : wire[i] \in Pauses => i = Len(wire)
  BY DEF Import
<1>4. 1 \in 1..Len(wire)
  BY <1>2
<1>5. wire[1] = token
  BY <1>1, <1>2
<1>6. Len(wire) = 1
  BY <1>3, <1>4, <1>5
<1> QED BY <1>1, <1>2, <1>5, <1>6 DEF Coming

\* The server says one more token, when nothing said before makes it wait.
LEMMA Spoken ==
    ASSUME Import, NEW token \in Said, wire' = Append(wire, token),
           \A pause \in Pauses : ~Coming(pause)
    PROVE  /\ wire' \in Seq(Said) /\ wire' # <<>>
           /\ \A i \in 1..Len(wire') : wire'[i] \in Pauses => i = Len(wire')
           /\ \A t : Coming(t)' => t = token
<1>1. /\ wire \in Seq(Said) /\ Len(wire) \in Nat /\ wire' \in Seq(Said) /\ wire' # <<>>
      /\ Len(wire') = Len(wire) + 1 /\ wire'[Len(wire) + 1] = token
      /\ \A i \in 1..Len(wire) : wire'[i] = wire[i]
  BY DEF Import, ImportTyped
<1>2. ASSUME NEW i \in 1..Len(wire), wire[i] \in Pauses PROVE FALSE
  <2>1. i = Len(wire)
    BY <1>2 DEF Import
  <2>2. wire # <<>>
    BY <1>1, <1>2
  <2>3. Coming(wire[i])
    BY <2>1, <2>2 DEF Coming
  <2> QED BY <1>2, <2>3
<1>3. ASSUME NEW i \in 1..Len(wire'), wire'[i] \in Pauses PROVE i = Len(wire')
  <2>1. i \in 1..Len(wire) => wire'[i] = wire[i]
    BY <1>1
  <2>2. i \notin 1..Len(wire)
    BY <1>2, <1>3, <2>1
  <2> QED BY <1>1, <2>2
<1>4. ASSUME NEW t, Coming(t)' PROVE t = token
  BY <1>1, <1>4 DEF Coming
<1> QED BY <1>1, <1>3, <1>4

\* A packet written by the client is on its way while the socket lives.
LEMMA PacketWritten ==
    ASSUME Import, NEW packet \in Packets, NEW place, Write(packet, place)
    PROVE  /\ sent' \in Seq(Packets) /\ where' = place
           /\ socket = "dead" => sent' = <<>>
           /\ socket = "open" => /\ Len(sent') = Len(sent) + 1 /\ sent'[Len(sent')] = packet
                                 /\ \A i \in 1..Len(sent) : sent'[i] = sent[i]
<1>1. sent \in Seq(Packets) /\ (socket = "dead" => sent = <<>>)
  BY DEF Import, ImportTyped
<1>2. where' = place
  BY DEF Write, where
<1>3. CASE socket = "open"
  <2>1. sent' = Append(sent, packet)
    BY <1>3 DEF Write
  <2> QED BY <1>1, <1>2, <1>3, <2>1
<1>4. CASE socket # "open"
  <2>1. sent' = sent
    BY <1>4 DEF Write
  <2> QED BY <1>1, <1>2, <1>4, <2>1
<1> QED BY <1>3, <1>4
-----------------------------------------------------------------------------
(* The steps of the client *)

LEMMA ClientAside ==
    ASSUME Import,
           \/ Written \/ WriteFails \/ LogLost \/ FinishTimesOut
           \/ \E k \in Streams : File(k)
    PROVE  Import'
<1>1. UNCHANGED <<import, network, serving>>
  BY DEF Written, WriteFails, LogLost, FinishTimesOut, File, FileOpens, FileWrites,
    FileFinishes, FileFails, Receive, serving
<1>2. where' = where \/ where' \notin {"source", "ended"}
  BY DEF Written, WriteFails, LogLost, FinishTimesOut, File, FileOpens, FileWrites,
    FileFinishes, FileFails, ExportReturns, handler, where
<1> QED BY <1>1, <1>2, Aside

\* The handlers that read a token and write nothing.
Reading ==
    \/ Skip \/ handleExportData \/ ConsumeBlock \/ ExportDone \/ ExportStops
    \/ saveLog \/ LogChunk \/ LogEnds

LEMMA ClientReads ==
    ASSUME Import, Reading PROVE Import'
<1>1. /\ wire # <<>> /\ wire' = Tail(wire)
      /\ UNCHANGED <<import, socket, sent, serving>>
  BY DEF Reading, Skip, handleExportData, ConsumeBlock, ExportDone, ExportStops, saveLog, LogChunk,
    LogEnds, Receive
<1>2. where' \notin {"source", "ended"}
  BY DEF Reading, Skip, handleExportData, ConsumeBlock, Queue, ExportDone, ExportStops, ExportReturns,
    saveLog, LogChunk, LogEnds, Receive, where
<1> QED BY <1>1, <1>2, ReadOn

\* The socket is lost, and with a protocol fault what has been said as well.
LEMMA LostSocket ==
    ASSUME Import, Lost, UNCHANGED import, wire' \in {wire, <<>>}, where' \in {where, "failed"}
    PROVE  Import'
<1>1. /\ socket' = "dead" /\ sent' = <<>> /\ server' = "ready"
      /\ UNCHANGED <<served, verdict, source, total, broken>>
  BY DEF Lost, import
<1>2. wire' \in Seq(Said) /\ \A i \in 1..Len(wire') : wire'[i] \in Pauses => i = Len(wire')
  <2>1. CASE wire' = wire
    BY <2>1 DEF Import, ImportTyped
  <2>2. CASE wire' = <<>>
    <3>1. wire' \in Seq(Said) /\ Len(wire') = 0
      BY <2>2
    <3> QED BY <3>1
  <2> QED BY <2>1, <2>2
<1>3. ImportTyped' /\ Whole'
  BY <1>1, <1>2 DEF Import, ImportTyped, Whole, ServerStates
<1>4. VerdictKept'
  BY <1>1 DEF Import, VerdictKept, Coming
<1> QED BY <1>1, <1>2, <1>3, <1>4 DEF Import

LEMMA ClientFails == ASSUME Import, ReadFails PROVE Import'
<1>1. where' = "failed" /\ UNCHANGED import
  BY DEF ReadFails, where
<1>2. CASE UNCHANGED <<network, serving>>
  BY <1>1, <1>2, Aside
<1>3. CASE wire' = <<>> /\ Lost
  BY <1>1, <1>3, LostSocket
<1> QED BY <1>2, <1>3 DEF ReadFails

LEMMA ClientAnswers ==
    ASSUME Import, handleExportStart \/ handleImport PROVE Import'
<1>1. PICK token \in {"u", "l"}, packet \in {"opened", "refused", "version"},
           place \in {"type", "config"} :
        Receive("type", token) /\ Write(packet, place) /\ UNCHANGED import
  BY DEF handleExportStart, handleImport
<1>2. token \in Pauses /\ packet \in Packets
  BY DEF Pauses, Packets
<1>3. Coming(token) /\ wire' = <<>> /\ UNCHANGED <<socket, serving>>
  BY <1>1, <1>2, PauseRead
<1>4. /\ sent' \in Seq(Packets) /\ where' = place
      /\ socket = "dead" => sent' = <<>>
      /\ socket = "open" => Len(sent') = Len(sent) + 1
  BY <1>1, <1>2, PacketWritten
<1>5. ImportTyped' /\ VerdictKept'
  BY <1>1, <1>3, <1>4 DEF Import, ImportTyped, VerdictKept, Coming, import, serving
<1>6. socket = "open" => server \in {"offering", "greeting"} /\ Len(sent') <= 1
        /\ (server = "greeting" => served = 0)
  BY <1>3, <1>4 DEF Import, Turns
<1>7. socket' = "open" => Turns'
  BY <1>1, <1>3, <1>4, <1>6 DEF Turns, Coming, serving
<1> QED BY <1>1, <1>3, <1>4, <1>5, <1>7 DEF Import, Whole, import, serving

LEMMA NoneSent ==
    ASSUME NEW n \in Nat, NEW a, NEW b, NEW all, a = 0, b = 0, all = n
    PROVE  a + b + n = all
OBVIOUS

LEMMA ClientConfigured ==
    ASSUME Import, ImportConfigured PROVE Import'
<1>1. Receive("config", "config") /\ "config" \in Pauses /\ "error" \in Packets
  BY DEF ImportConfigured, Pauses, Packets
<1>2. Coming("config") /\ wire' = <<>> /\ UNCHANGED <<socket, serving>>
  BY <1>1, PauseRead
<1>3. verdict = "none" /\ (socket = "open" => server = "importing" /\ sent = <<>> /\ served = 0)
  BY <1>2 DEF Import, VerdictKept, Turns
<1>4. CASE Write("error", "type") /\ UNCHANGED import
  <2>1. /\ sent' \in Seq(Packets) /\ where' = "type"
        /\ socket = "dead" => sent' = <<>>
        /\ socket = "open" => Len(sent') = Len(sent) + 1 /\ sent'[Len(sent')] = "error"
    BY <1>1, <1>4, PacketWritten
  <2>2. ImportTyped' /\ VerdictKept'
    BY <1>2, <1>3, <1>4, <2>1 DEF Import, ImportTyped, VerdictKept, Coming, import, serving
  <2>3. ASSUME socket = "open" PROVE Remaining'
    <3>1. sent = <<>> /\ Len(sent) = 0
      BY <1>3, <2>3
    <3>2. Len(sent') = Len(sent) + 1 /\ sent'[Len(sent')] = "error"
      BY <2>1, <2>3
    <3>4. Len(sent') = 1 /\ sent'[1] = "error"
      BY <3>1, <3>2
    <3>3. \A i \in 1..Len(sent') : i = Len(sent') /\ sent'[i] = "error"
      BY <3>4
    <3> QED BY <3>3 DEF Remaining, Awaited
  <2>4. socket = "open" => Remaining'
    BY <2>3
  <2>5. socket' = "open" => Turns'
    BY <1>2, <1>3, <2>1, <2>4 DEF Turns, Coming, serving
  <2> QED BY <1>2, <1>3, <2>1, <2>2, <2>5 DEF Import, Whole, serving
<1>5. CASE \E n \in 0..MaxBlocks :
             /\ source' = n /\ total' = n /\ broken' = FALSE
             /\ at' = "source"
             /\ UNCHANGED <<afterWrite, sent>>
  <2>1. source' \in Nat /\ total' = source' /\ broken' = FALSE /\ where' = "source" /\ sent' = sent
    BY <1>5 DEF where
  <2>2. ImportTyped' /\ VerdictKept'
    BY <1>2, <1>3, <2>1 DEF Import, ImportTyped, VerdictKept, Coming, serving
  <2>3. ASSUME socket = "open"
        PROVE  /\ DataOnly(sent') /\ Remaining'
               /\ served' + Len(sent') + source' = total' /\ ~broken'
    <3>1. sent' = <<>> /\ Len(sent') = 0 /\ served' = 0
      BY <1>2, <1>3, <2>1, <2>3 DEF serving
    <3>2. \A i \in 1..Len(sent') : FALSE
      BY <3>1
    <3>4. source' \in Nat /\ total' = source'
      BY <2>1
    <3>3. served' + Len(sent') + source' = total'
      BY <3>1, <3>4, NoneSent
    <3> QED BY <2>1, <3>2, <3>3 DEF DataOnly, Remaining
  <2>4. socket = "open" => sent' = <<>>
    BY <1>3, <2>1
  <2>5. socket' = "open" => Turns'
    BY <1>2, <1>3, <2>1, <2>3, <2>4 DEF Turns, Coming, serving
  <2> QED BY <1>2, <1>3, <2>1, <2>2, <2>5 DEF Import, Whole, serving
<1>6. CASE at' = "failed" /\ UNCHANGED <<afterWrite, sent, import>>
  <2>1. where' = "failed" /\ sent' = sent /\ UNCHANGED import
    BY <1>6 DEF where
  <2>2. ImportTyped' /\ VerdictKept'
    BY <1>2, <1>3, <2>1 DEF Import, ImportTyped, VerdictKept, Coming, import, serving
  <2>3. socket = "open" => Remaining' /\ sent' = <<>>
    BY <1>3, <2>1 DEF Remaining
  <2>4. socket' = "open" => Turns'
    BY <1>2, <1>3, <2>1, <2>3 DEF Turns, Coming, serving
  <2> QED BY <1>2, <1>3, <2>1, <2>2, <2>4 DEF Import, Whole, serving
<1> QED BY <1>4, <1>5, <1>6 DEF ImportConfigured

LEMMA ClientSends ==
    ASSUME Import, SourceChunk \/ SourceEnds \/ SourceFails PROVE Import'
<1>1. /\ where = "source" /\ UNCHANGED <<total, socket, wire, serving>>
      /\ {"data", "done", "error"} \subseteq Packets
  BY DEF SourceChunk, SourceEnds, SourceFails, where, Packets, import
<1>2. /\ verdict = "none" /\ ~Coming("config")
      /\ socket = "open" => /\ server = "importing" /\ DataOnly(sent)
                            /\ served + Len(sent) + source = total /\ ~broken
                            /\ \A pause \in Pauses : ~Coming(pause)
  BY <1>1 DEF Import, VerdictKept, Turns, Pauses
<1>3. PICK packet \in {"data", "done", "error"}, place \in {"source", "type", "failed"} :
        /\ Write(packet, place)
        /\ packet = "data" <=> place = "source"
        /\ packet = "data" => source > 0 /\ source' = source - 1 /\ UNCHANGED broken
        /\ packet # "data" => UNCHANGED source
        /\ packet = "done" => source = 0 /\ UNCHANGED broken
  BY DEF SourceChunk, SourceEnds, SourceFails, import
<1>4. /\ sent' \in Seq(Packets) /\ where' = place
      /\ socket = "dead" => sent' = <<>>
      /\ socket = "open" => /\ Len(sent') = Len(sent) + 1 /\ sent'[Len(sent')] = packet
                            /\ \A i \in 1..Len(sent) : sent'[i] = sent[i]
  BY <1>1, <1>3, PacketWritten
<1>5. source \in Nat /\ served \in Nat /\ total \in Nat /\ Len(sent) \in Nat /\ source' \in Nat
  BY <1>3 DEF Import, ImportTyped
<1>6. ImportTyped'
  BY <1>1, <1>4, <1>5 DEF Import, ImportTyped, serving
<1>7. VerdictKept'
  BY <1>1, <1>2 DEF VerdictKept, Coming, serving
<1>8. ASSUME socket = "open", packet = "data"
      PROVE  DataOnly(sent') /\ served' + Len(sent') + source' = total' /\ ~broken' /\ Remaining'
  <2>1. \A i \in 1..Len(sent') : sent'[i] = "data"
    BY <1>2, <1>4, <1>5, <1>8 DEF DataOnly
  <2>2. served' + Len(sent') + source' = total'
    BY <1>1, <1>2, <1>3, <1>4, <1>5, <1>8 DEF serving
  <2>3. ~broken'
    BY <1>2, <1>3, <1>8
  <2> QED BY <2>1, <2>2, <2>3 DEF DataOnly, Remaining, Awaited
<1>9. ASSUME socket = "open", packet # "data" PROVE Remaining'
  <2>1. ASSUME NEW i \in 1..Len(sent'), sent'[i] # "data" PROVE i = Len(sent')
    BY <1>2, <1>4, <1>5, <1>9, <2>1 DEF DataOnly
  <2>2. packet = "done" => served' + Len(sent') - 1 = total' /\ ~broken'
    BY <1>1, <1>2, <1>3, <1>4, <1>5, <1>9 DEF serving
  <2>3. \A i \in 1..Len(sent') : sent'[i] \in Awaited.importing
    <3>1. sent'[Len(sent')] \in Awaited.importing /\ "data" \in Awaited.importing
      BY <1>4, <1>9 DEF Awaited
    <3> QED BY <2>1, <3>1
  <2> QED BY <1>4, <1>9, <2>1, <2>2, <2>3 DEF Remaining
<1>10. socket' = "open" => Turns'
  <2> SUFFICES ASSUME socket = "open" PROVE Turns'
    BY <1>1
  <2>1. server' = "importing" /\ \A pause \in Pauses : ~Coming(pause)'
    BY <1>1, <1>2 DEF serving, Coming
  <2>2. {"u", "l", "config", "ready"} = Pauses
    BY DEF Pauses
  <2>3. Remaining'
    BY <1>8, <1>9
  <2>4. where' = "source" => DataOnly(sent') /\ served' + Len(sent') + source' = total' /\ ~broken'
    BY <1>3, <1>4, <1>8
  <2>5. where' # "ended"
    BY <1>4
  <2> QED BY <2>1, <2>2, <2>3, <2>4, <2>5 DEF Turns
<1> QED BY <1>1, <1>2, <1>4, <1>6, <1>7, <1>10 DEF Import, Whole, serving

LEMMA ClientEnds == ASSUME Import, ResponseEnds PROVE Import'
<1>1. Receive("type", "ready") /\ "ready" \in Pauses /\ at' = "ended" /\ UNCHANGED <<import, sent>>
  BY DEF ResponseEnds, Pauses
<1>2. Coming("ready") /\ wire' = <<>> /\ UNCHANGED <<socket, serving>>
  BY <1>1, PauseRead
<1>3. where' = "ended"
  BY <1>1 DEF where
<1>4. socket = "open" => server = "ready" /\ sent = <<>>
  BY <1>2 DEF Import, Turns
<1>5. ImportTyped' /\ VerdictKept'
  BY <1>1, <1>2, <1>3 DEF Import, ImportTyped, VerdictKept, Coming, import, serving
<1>6. socket' = "open" => Turns'
  BY <1>1, <1>2, <1>3, <1>4 DEF Turns, Coming, serving
<1> QED BY <1>1, <1>2, <1>5, <1>6 DEF Import, Whole, import, serving

\* A command that begins in step needs nothing of those before it.
LEMMA CommandStarts ==
    ASSUME ImportTyped, NextCommand \/ Synced, ~strayed', ~Synced \/ strayed
    PROVE  Import'
<1>1. /\ where' = "type" /\ wire' = <<>> /\ sent' = <<>> /\ Answered /\ UNCHANGED import
  BY DEF NextCommand, Synced, InStep, where
<1>2. /\ server' = "idle" /\ verdict' = "none" /\ UNCHANGED served
  BY <1>1 DEF Answered
<1>3. socket' \in {"open", "dead"}
  BY DEF NextCommand, Synced, ImportTyped
<1>4. ImportTyped'
  BY <1>1, <1>2, <1>3 DEF ImportTyped, import, ServerStates
<1> QED BY <1>1, <1>2, <1>4 DEF Import, VerdictKept, Turns, Coming, Whole
-----------------------------------------------------------------------------
(* The steps of the server and of the network *)

LEMMA Dies == ASSUME Import, SocketDies PROVE Import'
<1>1. where' = where /\ UNCHANGED <<import, wire>>
  BY DEF SocketDies, handler, where
<1> QED BY <1>1, LostSocket DEF SocketDies

LEMMA Starts_ == ASSUME Import, ServerStarts PROVE Import'
<1>1. /\ server = "idle" /\ socket = "open" /\ UNCHANGED <<import, socket, sent>> /\ where' = where
  BY DEF ServerStarts, handler, where
<1>2. /\ sent = <<>> /\ where # "source" /\ where # "ended"
      /\ \A pause \in Pauses : ~Coming(pause)
  BY <1>1 DEF Import, Turns, Pauses
<1>3. PICK token \in {"u", "l", "e", "x", "ready"} :
        /\ wire' = Append(wire, token)
        /\ token = "u" => server' = "offering"
        /\ token = "l" => server' = "greeting"
        /\ token = "e" => server' = "logging"
        /\ token = "x" => server' = "idle"
        /\ token = "ready" => server' = "ready" /\ UNCHANGED <<served, verdict>>
        /\ token # "ready" => served' = 0 /\ verdict' = "none"
  BY DEF ServerStarts, Says
<1>4. token \in Said
  BY DEF Said, Starts
<1>5. /\ wire' \in Seq(Said)
      /\ \A i \in 1..Len(wire') : wire'[i] \in Pauses => i = Len(wire')
      /\ \A t : Coming(t)' => t = token
  BY <1>2, <1>3, <1>4, Spoken
<1>6. ImportTyped' /\ VerdictKept'
  BY <1>1, <1>2, <1>3, <1>5 DEF Import, ImportTyped, VerdictKept, import, ServerStates
<1>7. Turns'
  BY <1>1, <1>2, <1>3, <1>5 DEF Turns
<1> QED BY <1>1, <1>2, <1>3, <1>5, <1>6, <1>7 DEF Import, Whole, import

LEMMA Sends == ASSUME Import, ServerSends PROVE Import'
<1>1. /\ server \in {"exporting", "logging"} /\ socket = "open" /\ server' \in {server, "idle"}
      /\ served' = served + 1 /\ UNCHANGED <<import, socket, sent, verdict>> /\ where' = where
  BY DEF ServerSends, Says, handler, where
<1>2. /\ sent = <<>> /\ where # "source" /\ where # "ended" /\ verdict = "none"
      /\ \A pause \in Pauses : ~Coming(pause)
  BY <1>1 DEF Import, Turns, VerdictKept, Pauses
<1>3. PICK token \in {"data", "done", "error", "unknown", "bad", "chunk", "eof"} :
        wire' = Append(wire, token)
  BY DEF ServerSends, Says
<1>4. token \in Said /\ token \notin Pauses
  BY DEF Said, Pauses
<1>5. /\ wire' \in Seq(Said)
      /\ \A i \in 1..Len(wire') : wire'[i] \in Pauses => i = Len(wire')
      /\ \A t : Coming(t)' => t = token
  BY <1>2, <1>3, <1>4, Spoken
<1>6. \A pause \in Pauses : ~Coming(pause)'
  BY <1>4, <1>5
<1>7. ImportTyped' /\ VerdictKept'
  BY <1>1, <1>2, <1>5, <1>6 DEF Import, ImportTyped, VerdictKept, import, ServerStates, Pauses
<1>8. Turns'
  BY <1>1, <1>2, <1>6 DEF Turns, Pauses
<1> QED BY <1>1, <1>2, <1>5, <1>7, <1>8 DEF Import, Whole, import

LEMMA OneReceived ==
    ASSUME NEW a \in Nat, NEW b \in Nat, NEW c \in Nat, NEW all, NEW a1, NEW b1,
           a1 = a + 1, b1 = b - 1, a + b + c = all
    PROVE  a1 + b1 + c = all
OBVIOUS

LEMMA Receives == ASSUME Import, ServerReceives PROVE Import'
<1>1. /\ sent # <<>> /\ sent' = Tail(sent) /\ UNCHANGED <<import, socket>> /\ where' = where
      /\ socket = "open" /\ Turns
  BY DEF ServerReceives, Arrives, Import, ImportTyped, handler, where
<1>2. /\ sent \in Seq(Packets) /\ Len(sent) \in Nat /\ Len(sent) > 0 /\ Head(sent) = sent[1]
      /\ sent' \in Seq(Packets) /\ Len(sent') = Len(sent) - 1
      /\ \A i \in 1..Len(sent) - 1 : sent'[i] = sent[i + 1]
      /\ Len(sent) = 1 => sent' = <<>>
  BY <1>1, SequenceFacts DEF Import, ImportTyped
<1>3. /\ served \in Nat /\ total \in Nat /\ source \in Nat /\ wire \in Seq(Said)
      /\ \A i \in 1..Len(wire) : wire[i] \in Pauses => i = Len(wire)
  BY DEF Import, ImportTyped
<1>4. server # "ready" /\ where # "ended" /\ server \notin {"idle", "ready"} /\ verdict = "none"
      /\ \A pause \in Pauses : ~Coming(pause)
  BY <1>1 DEF ServerReceives, Import, Turns, VerdictKept, Pauses
<1>5. CASE server = "offering" /\ Arrives("opened") /\ Says("U", "exporting")
           /\ UNCHANGED <<served, verdict>>
  <2>1. sent' = <<>> /\ where # "source"
    BY <1>1, <1>2, <1>5 DEF Turns
  <2>2. "U" \in Said /\ "U" \notin Pauses /\ wire' = Append(wire, "U") /\ server' = "exporting"
    BY <1>5 DEF Says, Said, Pauses
  <2>3. /\ wire' \in Seq(Said)
        /\ \A i \in 1..Len(wire') : wire'[i] \in Pauses => i = Len(wire')
        /\ \A pause \in Pauses : ~Coming(pause)'
    BY <1>4, <2>2, Spoken
  <2>4. ImportTyped' /\ VerdictKept'
    BY <1>1, <1>2, <1>4, <1>5, <2>1, <2>2, <2>3 DEF Import, ImportTyped, VerdictKept, import,
      ServerStates, Pauses
  <2>5. Turns'
    BY <1>1, <1>4, <2>1, <2>2, <2>3 DEF Turns, Pauses
  <2> QED BY <1>1, <1>4, <1>5, <2>1, <2>3, <2>4, <2>5 DEF Import, Whole, import
<1>6. CASE server = "offering" /\ Arrives("refused") /\ server' = "idle"
           /\ UNCHANGED <<wire, served, verdict>>
  <2>1. sent' = <<>> /\ where # "source" /\ \A pause \in Pauses : ~Coming(pause)'
    BY <1>1, <1>2, <1>4, <1>6 DEF Turns, Coming
  <2>2. ImportTyped' /\ VerdictKept'
    BY <1>1, <1>2, <1>6, <2>1 DEF Import, ImportTyped, VerdictKept, import, ServerStates, Pauses
  <2>3. Turns'
    BY <1>1, <1>4, <1>6, <2>1 DEF Turns, Pauses
  <2> QED BY <1>1, <1>3, <1>4, <1>6, <2>1, <2>2, <2>3 DEF Import, Whole, import
<1>7. CASE /\ server = "greeting" /\ Arrives("version")
           /\ \E answer \in {"config", "bad"} : Says(answer, "importing")
           /\ UNCHANGED <<served, verdict>>
  <2>1. sent' = <<>> /\ where # "source" /\ served = 0
    BY <1>1, <1>2, <1>7 DEF Turns
  <2>2. PICK token \in {"config", "bad"} : wire' = Append(wire, token) /\ server' = "importing"
    BY <1>7 DEF Says
  <2>3. token \in Said /\ "bad" \notin Pauses
    BY DEF Said, Pauses
  <2>4. /\ wire' \in Seq(Said)
        /\ \A i \in 1..Len(wire') : wire'[i] \in Pauses => i = Len(wire')
        /\ \A t : Coming(t)' => t = token
    BY <1>4, <2>2, <2>3, Spoken
  <2>5. ImportTyped' /\ VerdictKept'
    BY <1>1, <1>2, <1>4, <1>7, <2>1, <2>2, <2>4 DEF Import, ImportTyped, VerdictKept, import,
      ServerStates
  <2>6. Remaining'
    BY <2>1 DEF Remaining
  <2>7. Turns'
    BY <1>1, <1>4, <1>7, <2>1, <2>2, <2>4, <2>6 DEF Turns
  <2> QED BY <1>1, <1>4, <1>7, <2>1, <2>4, <2>5, <2>7 DEF Import, Whole, import
<1>8. CASE server = "importing" /\ Arrives("data")
           /\ served' = served + 1 /\ UNCHANGED <<server, wire, verdict>>
  <2>1. \A pause \in Pauses : ~Coming(pause)'
    BY <1>4, <1>8 DEF Coming
  <2>2. ImportTyped' /\ VerdictKept'
    BY <1>1, <1>2, <1>3, <1>4, <1>8, <2>1 DEF Import, ImportTyped, VerdictKept, import, Pauses
  <2>3. Remaining'
    <3>1. Remaining
      BY <1>1, <1>8 DEF Turns
    <3> SUFFICES ASSUME NEW i \in 1..Len(sent')
                 PROVE  /\ sent'[i] \in Awaited.importing
                        /\ sent'[i] \in {"done", "error"} => i = Len(sent')
                        /\ sent'[i] = "done" => served' + Len(sent') - 1 = total' /\ ~broken'
      BY DEF Remaining
    <3>2. i + 1 \in 1..Len(sent) /\ sent'[i] = sent[i + 1]
      BY <1>2
    <3>3. /\ sent'[i] \in Awaited.importing
          /\ sent'[i] \in {"done", "error"} => i + 1 = Len(sent)
          /\ sent'[i] = "done" => served + Len(sent) - 1 = total /\ ~broken
      BY <3>1, <3>2 DEF Remaining
    <3>4. served' + Len(sent') - 1 = served + Len(sent) - 1
      BY <1>2, <1>3, <1>8
    <3>5. i + 1 = Len(sent) => i = Len(sent')
      BY <1>2
    <3>6. total' = total /\ broken' = broken
      BY <1>1 DEF import
    <3>7. sent'[i] = "done" => served' + Len(sent') - 1 = total' /\ ~broken'
      BY <3>3, <3>4, <3>6
    <3> QED BY <3>3, <3>5, <3>7
  <2>4. where = "source" => DataOnly(sent') /\ served' + Len(sent') + source' = total' /\ ~broken'
    <3> SUFFICES ASSUME where = "source"
                 PROVE  DataOnly(sent') /\ served' + Len(sent') + source' = total' /\ ~broken'
      OBVIOUS
    <3>1. DataOnly(sent) /\ served + Len(sent) + source = total /\ ~broken
      BY <1>1 DEF Turns
    <3>2. DataOnly(sent')
      BY <1>2, <3>1 DEF DataOnly
    <3>3. served' + Len(sent') + source = total
      <4>1. Len(sent') = Len(sent) - 1 /\ served' = served + 1
        BY <1>2, <1>8
      <4>2. served + Len(sent) + source = total
        BY <3>1
      <4>3. served \in Nat /\ Len(sent) \in Nat /\ source \in Nat
        BY <1>2, <1>3
      <4> QED BY <4>1, <4>2, <4>3, OneReceived
    <3> QED BY <1>1, <3>1, <3>2, <3>3 DEF import
  <2>5. Turns'
    BY <1>1, <1>4, <1>8, <2>1, <2>3, <2>4 DEF Turns, Pauses
  <2> QED BY <1>1, <1>3, <1>4, <1>8, <2>2, <2>5 DEF Import, Whole, import
<1>9. CASE /\ server = "importing"
           /\ \E end \in {"done", "error"} : Arrives(end) /\ verdict' = end
           /\ server' = "idle" /\ UNCHANGED <<served, wire>>
  <2>1. PICK end \in {"done", "error"} : sent[1] = end /\ verdict' = end
    BY <1>2, <1>9 DEF Arrives
  <2>2. Remaining /\ 1 \in 1..Len(sent)
    BY <1>1, <1>2, <1>9 DEF Turns
  <2>3. Len(sent) = 1 /\ (end = "done" => served + Len(sent) - 1 = total /\ ~broken)
    BY <2>1, <2>2 DEF Remaining
  <2>4. sent' = <<>> /\ (verdict' = "done" => served' = total' /\ ~broken')
    BY <1>1, <1>2, <1>3, <1>9, <2>1, <2>3 DEF import
  <2>5. where # "source"
    <3> SUFFICES ASSUME where = "source" PROVE FALSE
      OBVIOUS
    <3>1. sent[1] = "data"
      BY <1>1, <2>2 DEF Turns, DataOnly
    <3> QED BY <2>1, <3>1
  <2>6. \A pause \in Pauses : ~Coming(pause)'
    BY <1>4, <1>9 DEF Coming
  <2>7. ImportTyped' /\ VerdictKept'
    BY <1>1, <1>2, <1>9, <2>5, <2>6 DEF Import, ImportTyped, VerdictKept, import, ServerStates, Pauses
  <2>8. Turns'
    BY <1>1, <1>4, <1>9, <2>4, <2>5, <2>6 DEF Turns, Pauses
  <2> QED BY <1>1, <1>3, <1>9, <2>4, <2>7, <2>8 DEF Import, Whole
<1> QED BY <1>5, <1>6, <1>7, <1>8, <1>9 DEF ServerReceives
-----------------------------------------------------------------------------

\* In step, every packet is one the server waits for.
LEMMA NoneDiscarded == ASSUME Import, ServerDiscards, server # "offering", server # "greeting" PROVE FALSE
<1>1. sent # <<>> /\ socket = "open" /\ Turns
  BY DEF ServerDiscards, Arrives, Import, ImportTyped
<1>2. server = "importing"
  BY <1>1 DEF ServerDiscards, Awaited, Turns
<1>3. sent[1] \in Awaited.importing
  <2>1. 1 \in 1..Len(sent)
    BY <1>1, SequenceFacts DEF Import, ImportTyped
  <2> QED BY <1>1, <1>2, <2>1 DEF Turns, Remaining
<1>4. Head(sent) = sent[1] /\ Awaited[server] = Awaited.importing
  BY <1>1, <1>2, SequenceFacts DEF Import, ImportTyped
<1> QED BY <1>2, <1>3, <1>4 DEF ServerDiscards, Arrives

LEMMA Discards == ASSUME Import, ServerDiscards PROVE Import'
<1>1. server \in {"offering", "greeting"}
  BY NoneDiscarded
<1>2. /\ sent # <<>> /\ sent' = Tail(sent) /\ server' = "idle" /\ verdict' = "error" 
      /\ UNCHANGED <<import, socket, wire, served>> /\ where' = where
  BY <1>1 DEF ServerDiscards, Arrives, handler, where
<1>3. socket = "open" /\ Turns
  BY <1>2 DEF Import, ImportTyped
<1>4. Len(sent) \in Nat /\ Len(sent) > 0 /\ Len(sent) <= 1 /\ (Len(sent) = 1 => sent' = <<>>)
  BY <1>1, <1>2, <1>3, SequenceFacts DEF Import, ImportTyped, Turns
<1>9. Len(sent) = 1
  BY <1>4, JustOne
<1>5. sent' = <<>> /\ where # "source" /\ where # "ended"
  BY <1>1, <1>3, <1>4, <1>9 DEF Turns
<1>6. \A pause \in Pauses : ~Coming(pause)'
  BY <1>1, <1>2, <1>3 DEF Turns, Coming, Pauses
<1>7. ImportTyped' /\ VerdictKept'
  BY <1>2, <1>5, <1>6 DEF Import, ImportTyped, VerdictKept, import, ServerStates, Pauses
<1>8. Turns'
  BY <1>2, <1>5, <1>6 DEF Turns, Pauses
<1> QED BY <1>2, <1>3, <1>5, <1>7, <1>8 DEF Import, Whole
-----------------------------------------------------------------------------
(* All commands: those that have begun while a response was unread keep only *)
(* their types, until a command begins in step again.                        *)

\* _ensureProtocolSynced runs for a stray command, before it opens anything.
Syncing == afterWrite # "sync" /\ (at = "sync" => strayed /\ since = opened)

Commands == ImportTyped /\ Syncing /\ (~strayed => Import)

LEMMA CommandsInit == Init => Commands
<1> SUFFICES ASSUME Init PROVE Commands
  OBVIOUS
<1>1. /\ wire = <<>> /\ sent = <<>> /\ served = 0 /\ source = 0 /\ total = 0 /\ socket = "open"
      /\ server = "idle" /\ verdict = "none" /\ where = "type"
  BY DEF Init, where
<1>2. wire \in Seq(Said) /\ sent \in Seq(Packets) /\ Len(wire) = 0
  BY <1>1
<1>3. Import
  BY <1>1, <1>2 DEF Import, ImportTyped, VerdictKept, Turns, Coming, Whole, ServerStates
<1> QED BY <1>3 DEF Commands, Import, Syncing, Init

LEMMA PutBefore ==
    ASSUME NEW S, NEW s \in Seq(S), NEW x \in S
    PROVE  <<x>> \o s \in Seq(S)
OBVIOUS

LEMMA TypedStep == ImportTyped /\ [Next]_vars => ImportTyped'
<1> SUFFICES ASSUME ImportTyped, [Next]_vars PROVE ImportTyped'
  OBVIOUS
<1>1. /\ wire \in Seq(Said) /\ sent \in Seq(Packets)
      /\ served \in Nat /\ source \in Nat /\ total \in Nat
      /\ socket \in {"open", "dead"} /\ server \in ServerStates
  BY DEF ImportTyped
<1>2. /\ wire # <<>> => Tail(wire) \in Seq(Said)
      /\ sent # <<>> => Tail(sent) \in Seq(Packets)
      /\ <<>> \in Seq(Said) /\ <<>> \in Seq(Packets)
      /\ \A packet \in Packets : Append(sent, packet) \in Seq(Packets)
      /\ \A token \in Said : Append(wire, token) \in Seq(Said)
  BY <1>1
<1>3. CASE \/ UNCHANGED vars \/ Written \/ WriteFails \/ LogLost \/ FinishTimesOut
           \/ \E k \in Streams : File(k)
  <2>1. UNCHANGED <<import, network, serving>>
    BY <1>3 DEF vars, Written, WriteFails, LogLost, FinishTimesOut, File, FileOpens, FileWrites,
      FileFinishes, FileFails
  <2> QED BY <1>1, <2>1 DEF ImportTyped, import, network, serving
<1>4. CASE Reading \/ ResponseEnds \/ handleExportStart \/ handleImport \/ ImportConfigured
  <2>1. /\ wire' = Tail(wire) /\ wire # <<>> /\ UNCHANGED <<socket, serving>>
    BY <1>4 DEF Reading, Skip, handleExportData, ConsumeBlock, ExportDone, ExportStops, saveLog,
      LogChunk, LogEnds, ResponseEnds, handleExportStart, handleImport, ImportConfigured, Receive
  <2>2. sent' = sent \/ \E packet \in Packets : sent' = Append(sent, packet)
    <3>1. CASE Reading \/ ResponseEnds
      BY <3>1 DEF Reading, Skip, handleExportData, ConsumeBlock, ExportDone, ExportStops, saveLog,
        LogChunk, LogEnds, ResponseEnds
    <3>2. CASE handleExportStart \/ handleImport \/ ImportConfigured
      BY <3>2 DEF handleExportStart, handleImport, ImportConfigured, Write, Packets
    <3> QED BY <1>4, <3>1, <3>2
  <2>3. source' \in Nat /\ total' \in Nat
    <3>1. CASE ~ImportConfigured
      <4>1. UNCHANGED import
        BY <1>4, <3>1 DEF Reading, Skip, handleExportData, ConsumeBlock, ExportDone, ExportStops,
          saveLog, LogChunk, LogEnds, ResponseEnds, handleExportStart, handleImport
      <4> QED BY <1>1, <4>1 DEF import
    <3>2. CASE ImportConfigured
      BY <1>1, <3>2 DEF ImportConfigured, import
    <3> QED BY <3>1, <3>2
  <2> QED BY <1>1, <1>2, <2>1, <2>2, <2>3 DEF ImportTyped, serving
<1>5. CASE SourceChunk \/ SourceEnds \/ SourceFails
  <2>1. /\ UNCHANGED <<wire, socket, total, serving>>
        /\ source' = source \/ (source > 0 /\ source' = source - 1)
    BY <1>5 DEF SourceChunk, SourceEnds, SourceFails, import
  <2>2. sent' = sent \/ \E packet \in Packets : sent' = Append(sent, packet)
    BY <1>5 DEF SourceChunk, SourceEnds, SourceFails, Write, Packets
  <2> QED BY <1>1, <1>2, <2>1, <2>2 DEF ImportTyped, serving
<1>6. CASE ReadFails \/ SocketDies \/ SyncFails
  BY <1>1, <1>2, <1>6 DEF ReadFails, SocketDies, SyncFails, Lost, ImportTyped, import, network,
    serving, ServerStates
<1>7. CASE NextCommand \/ NextCommandStrays \/ Synced
  <2>1. UNCHANGED <<import, served>> /\ server' \in {server, "idle"}
    BY <1>7 DEF NextCommand, NextCommandStrays, Synced, Answered, serving
  <2>2. socket' \in {socket, "open"} /\ wire' \in {wire, <<>>, Tail(wire)}
        /\ (wire' = Tail(wire) => wire' = wire \/ wire # <<>>)
    BY <1>7 DEF NextCommand, NextCommandStrays, Synced
  <2>3. sent' \in {sent, <<>>, Append(sent, "query")} /\ "query" \in Packets
    BY <1>7 DEF NextCommand, NextCommandStrays, Synced, Packets
  <2> QED BY <1>1, <1>2, <2>1, <2>2, <2>3 DEF ImportTyped, import, ServerStates
<1>8. CASE Misread
  <2>1. UNCHANGED <<import, socket, sent, serving>>
    BY <1>8 DEF Misread
  <2>2. PICK n \in 1..Len(wire) :
          \/ wire' = SubSeq(wire, n + 1, Len(wire))
          \/ \E token \in Expected[at] \ {"u", "U", "l", "e"} :
               wire' = <<token>> \o SubSeq(wire, n + 1, Len(wire))
    BY <1>8 DEF Misread
  <2>3. SubSeq(wire, n + 1, Len(wire)) \in Seq(Said)
    BY <1>1
  <2>4. \A token \in Expected[at] : token \in Said
    BY <1>8 DEF Misread, Reads, Expected, Said, Starts
  <2>5. wire' \in Seq(Said)
    BY <2>2, <2>3, <2>4, PutBefore
  <2> QED BY <1>1, <2>1, <2>5 DEF ImportTyped, import, serving
<1>9. CASE Server
  <2>1. UNCHANGED <<import, socket>> /\ served' \in {served, 0, served + 1} /\ server' \in ServerStates
    BY <1>1, <1>9 DEF Server, ServerStarts, ServerSends, ServerReceives, ServerDiscards, Says, Arrives,
      ServerStates
  <2>2. sent' = sent \/ (sent # <<>> /\ sent' = Tail(sent))
    BY <1>9 DEF Server, ServerStarts, ServerSends, ServerReceives, ServerDiscards, Arrives
  <2>3. wire' = wire \/ \E token \in Said : wire' = Append(wire, token)
    BY <1>9 DEF Server, ServerStarts, ServerSends, ServerReceives, ServerDiscards, Says, Said, Starts
  <2>4. wire' \in Seq(Said) /\ sent' \in Seq(Packets)
    BY <1>1, <1>2, <2>2, <2>3
  <2>5. served' \in Nat /\ source' \in Nat /\ total' \in Nat
    BY <1>1, <2>1 DEF import
  <2> QED BY <1>1, <2>1, <2>4, <2>5 DEF ImportTyped
<1> QED BY <1>3, <1>4, <1>5, <1>6, <1>7, <1>8, <1>9 DEF Next, Client, Transfer, Reading

LEMMA SyncingStep == Syncing /\ [Next]_vars => Syncing'
<1> SUFFICES ASSUME Syncing, [Next]_vars PROVE Syncing'
  OBVIOUS
<1>1. CASE Transfer
  <2>1. afterWrite' \in {afterWrite, "type", "config", "source", "failed"} /\ at' # "sync"
    BY <1>1 DEF Transfer, handleExportStart, handleExportData, ConsumeBlock, Queue, ExportDone,
      ExportStops, ExportReturns, handleImport, ImportConfigured, SourceChunk, SourceEnds,
      SourceFails, saveLog, LogChunk, LogEnds, LogLost, Write, Receive, handler
  <2> QED BY <2>1 DEF Syncing
<1>2. CASE \/ Written \/ WriteFails \/ ReadFails \/ Skip \/ ResponseEnds \/ Synced \/ SyncFails
           \/ FinishTimesOut \/ NextCommand
  <2>1. afterWrite' = afterWrite /\ at' # "sync"
    BY <1>2 DEF Syncing, Written, WriteFails, ReadFails, Skip, ResponseEnds, Synced, SyncFails,
      FinishTimesOut, NextCommand, Receive, handler
  <2> QED BY <2>1 DEF Syncing
<1>3. CASE NextCommandStrays
  BY <1>3 DEF NextCommandStrays, Syncing, handler
<1>4. CASE UNCHANGED vars \/ Misread \/ Server \/ SocketDies
  <2>1. UNCHANGED <<at, handler, files, strayed>>
    BY <1>4 DEF vars, network, Misread, Server, ServerStarts, ServerSends, ServerReceives,
      ServerDiscards, Arrives, SocketDies, Lost
  <2> QED BY <2>1 DEF Syncing, handler, files, streams
<1>5. CASE \E k \in Streams : File(k)
  <2>1. UNCHANGED <<afterWrite, streams, network>> /\ at' \in {at, "status", "type", "failed"}
    BY <1>5 DEF File, FileOpens, FileWrites, FileFinishes, FileFails, ExportReturns, handler
  <2> QED BY <2>1 DEF Syncing, streams, network
<1> QED BY <1>1, <1>2, <1>3, <1>4, <1>5 DEF Next, Client

LEMMA ImportStep == Commands /\ ~strayed /\ [Next]_vars /\ ~strayed' => Import'
<1> SUFFICES ASSUME Import, at # "sync", ~strayed, ~strayed', [Next]_vars PROVE Import'
  BY DEF Commands, Syncing
<1>1. CASE UNCHANGED vars
  <2>1. UNCHANGED <<import, network, serving>> /\ where' = where
    BY <1>1 DEF vars, handler, where
  <2> QED BY <2>1, Aside
<1>2. CASE Transfer
  <2>1. CASE LogLost
    BY <2>1, ClientAside
  <2>2. CASE \/ handleExportData \/ ConsumeBlock \/ ExportDone \/ ExportStops
             \/ saveLog \/ LogChunk \/ LogEnds
    BY <2>2, ClientReads DEF Reading
  <2>3. CASE handleExportStart \/ handleImport
    BY <2>3, ClientAnswers
  <2>4. CASE ImportConfigured
    BY <2>4, ClientConfigured
  <2>5. CASE SourceChunk \/ SourceEnds \/ SourceFails
    BY <2>5, ClientSends
  <2> QED BY <1>2, <2>1, <2>2, <2>3, <2>4, <2>5 DEF Transfer
<1>3. CASE Written \/ WriteFails \/ ReadFails \/ Skip \/ ResponseEnds
  <2>1. CASE Skip
    BY <2>1, ClientReads DEF Reading
  <2> QED BY <1>3, <2>1, ClientAside, ClientFails, ClientEnds
<1>4. CASE Server
  BY <1>4, Starts_, Sends, Receives, Discards DEF Server
<1>5. ~(Synced \/ SyncFails \/ Misread \/ NextCommandStrays)
  BY DEF Synced, SyncFails, Misread, NextCommandStrays
<1>6. CASE NextCommand
  BY <1>5, <1>6, CommandStarts DEF Import
<1> QED BY <1>1, <1>2, <1>3, <1>4, <1>5, <1>6, ClientAside, Dies DEF Next, Client

\* Only a command that begins in step is in step.
LEMMA InStepAgain ==
    ASSUME strayed, ~strayed', [Next]_vars
    PROVE  NextCommand \/ Synced
<1>1. ~Transfer
  <2>1. Transfer => UNCHANGED strayed
    BY DEF Transfer, handleExportStart, handleExportData, ConsumeBlock, ExportDone, ExportStops,
      handleImport, ImportConfigured, SourceChunk, SourceEnds, SourceFails, saveLog, LogChunk,
      LogEnds, LogLost, Receive, network
  <2> QED BY <2>1
<1>2. ~(UNCHANGED vars \/ Written \/ WriteFails \/ ReadFails \/ Skip \/ ResponseEnds \/ SyncFails
        \/ Misread \/ FinishTimesOut \/ NextCommandStrays)
  BY DEF vars, Written, WriteFails, ReadFails, Skip, ResponseEnds, SyncFails, Misread,
    FinishTimesOut, NextCommandStrays, Lost, Receive, network
<1>3. ~(Server \/ SocketDies \/ \E k \in Streams : File(k))
  BY DEF Server, ServerStarts, ServerSends, ServerReceives, ServerDiscards, Arrives, SocketDies,
    Lost, File, FileOpens, FileWrites, FileFinishes, FileFails, network
<1> QED BY <1>1, <1>2, <1>3 DEF Next, Client

LEMMA CommandsStep == Commands /\ [Next]_vars => Commands'
<1> SUFFICES ASSUME Commands, [Next]_vars PROVE Commands'
  OBVIOUS
<1>1. ImportTyped' /\ Syncing'
  BY TypedStep, SyncingStep DEF Commands
<1>2. ~strayed' => Import'
  BY ImportStep, InStepAgain, CommandStarts DEF Commands
<1> QED BY <1>1, <1>2 DEF Commands

\* The server takes an import for complete only if it has received every chunk
\* of a source that has not failed (handleImport of
\* src/external/ExternalTableHandler.ts), for a command that has not begun in
\* the middle of the response of another.
THEOREM ImportsAreComplete == Spec => []ImportComplete
<1>1. Commands => ImportComplete
  BY DEF Commands, Import, Whole, ImportComplete
<1> QED BY <1>1, CommandsInit, CommandsStep, PTL DEF Spec

-----------------------------------------------------------------------------
(***************************************************************************)
(* The files of a command.  At any place of the client at most one stream  *)
(* of the command is not closed, and the connection or the handler has it: *)
(* _exportStream from the start of an export to its data, writeStream      *)
(* while the data or a log is received.  Between two exchanges there is    *)
(* none, because a started export goes on with its data: the next that     *)
(* arrives is 'U', or nothing.                                             *)
(***************************************************************************)
Live == {k \in Streams : k > since /\ file[k] \in {"opening", "open"}}

Awaiting ==
    IF wire = <<>>
    THEN socket = "open" => server = "offering" /\ sent = <<"opened">>
    ELSE Head(wire) = "U"

Counted ==
    /\ opened \in Nat /\ since \in 0..opened
    /\ exportStream \in 0..opened /\ writeStream \in 0..opened
    /\ file \in [Streams -> FileStates]
    /\ \A k \in Streams : k > opened => file[k] = "none"

Released ==
    /\ Counted
    /\ where = "type" =>
        Live \subseteq {exportStream} /\ (exportStream <= since \/ Awaiting)
    /\ where \in {"status", "drain", "finishing"} =>
        Live \subseteq {writeStream} /\ (exportStream <= since \/ exportStream = writeStream)
    /\ where \in {"chunk", "saving"} => Live \subseteq {writeStream} /\ exportStream <= since
    /\ where \in {"config", "source", "ended"} => Live = {} /\ exportStream <= since

LEMMA ReleasedInit == Init => Released
BY DEF Init, Released, Counted, Live, where, FileStates, None, Streams

\* What the server says is put behind what it has said.
LEMMA HeadStays ==
    ASSUME NEW S, NEW s \in Seq(S), NEW x \in S, s # <<>>
    PROVE  Append(s, x) # <<>> /\ Head(Append(s, x)) = Head(s)
OBVIOUS

LEMMA AwaitingStays ==
    ASSUME Import, Awaiting, Server \/ SocketDies
    PROVE  Awaiting'
<1>1. wire \in Seq(Said)
  BY DEF Import, ImportTyped
<1>2. CASE SocketDies
  BY <1>2 DEF SocketDies, Lost, Awaiting
<1>3. CASE ServerStarts \/ ServerSends
  <2>1. /\ wire # <<>> /\ Head(wire) = "U"
    BY <1>3 DEF ServerStarts, ServerSends, Awaiting
  <2>2. PICK token \in Said : wire' = Append(wire, token)
    BY <1>3 DEF ServerStarts, ServerSends, Says, Said, Starts
  <2> QED BY <1>1, <2>1, <2>2, HeadStays DEF Awaiting
<1>4. CASE ServerReceives
  <2>1. CASE wire = <<>>
    <3>1. server = "offering" /\ sent = <<"opened">> /\ Head(sent) = "opened"
      BY <1>4, <2>1 DEF ServerReceives, Arrives, Awaiting, Import, ImportTyped
    <3>2. wire' = Append(wire, "U")
      BY <1>4, <3>1 DEF ServerReceives, Arrives, Says
    <3>3. wire' # <<>> /\ Head(wire') = "U"
      BY <2>1, <3>2
    <3> QED BY <3>3 DEF Awaiting
  <2>2. CASE wire # <<>>
    <3>1. UNCHANGED wire \/ \E token \in Said : wire' = Append(wire, token)
      BY <1>4 DEF ServerReceives, Says, Said
    <3> QED BY <1>1, <2>2, <3>1, HeadStays DEF Awaiting
  <2> QED BY <2>1, <2>2
<1>5. CASE ServerDiscards
  <2>1. wire # <<>> /\ UNCHANGED wire
    <3>1. sent # <<>> /\ socket = "open" /\ UNCHANGED wire
      BY <1>5 DEF ServerDiscards, Arrives, Import, ImportTyped
    <3>2. wire = <<>> => server = "offering" /\ Head(sent) = "opened"
      BY <3>1 DEF Awaiting
    <3> QED BY <1>5, <3>1, <3>2 DEF ServerDiscards, Awaited, Arrives
  <2> QED BY <2>1 DEF Awaiting
<1> QED BY <1>2, <1>3, <1>4, <1>5 DEF Server

LEMMA ReleasedAround ==
    ASSUME Import, Released, Server \/ SocketDies
    PROVE  Released'
<1>1. UNCHANGED <<at, handler, files>>
  BY DEF Server, ServerStarts, ServerSends, ServerReceives, ServerDiscards, Arrives, SocketDies
<1>2. /\ UNCHANGED <<where, Live, exportStream, writeStream, since>> /\ Counted'
  BY <1>1 DEF where, Live, Counted, Released, handler, files, streams
<1>3. Awaiting => Awaiting'
  BY AwaitingStays
<1> QED BY <1>2, <1>3 DEF Released

\* When anything but 'U' is read between two exchanges, nothing is open.
LEMMA NothingOpen ==
    ASSUME Import, Released, NEW token, token # "U", Receive("type", token)
    PROVE  Live = {} /\ exportStream <= since
<1>1. where = "type" /\ at = "type" /\ ~Awaiting
  BY DEF Receive, where, Awaiting
<1>2. exportStream <= since
  BY <1>1 DEF Released
<1>3. \A k \in Live : k = exportStream /\ k > since /\ k \in Int /\ since \in Int
  BY <1>1 DEF Released, Live, Streams, Counted
<1>4. \A k \in Live : FALSE
  BY <1>2, <1>3
<1> QED BY <1>2, <1>4

\* A new stream.
LEMMA Created ==
    ASSUME Released, Live = {}, CreateWriteStream, UNCHANGED since
    PROVE  /\ opened' \in Nat /\ opened' = opened + 1 /\ Live' \subseteq {opened'}
           /\ file' \in [Streams -> FileStates]
           /\ \A k \in Streams : k > opened' => file'[k] = "none"
<1>1. /\ opened \in Nat /\ opened' = opened + 1 /\ opened' \in Nat
      /\ file \in [Streams -> FileStates]
      /\ \A k \in Streams : k > opened => file[k] = "none"
  BY DEF CreateWriteStream, Released, Counted
<1>2. file' = [file EXCEPT ![opened'] = "opening"] /\ "opening" \in FileStates
  BY DEF CreateWriteStream, FileStates
<1>3. file' \in [Streams -> FileStates] /\ \A k \in Streams : k # opened' => file'[k] = file[k]
  BY <1>1, <1>2
<1>4. \A k \in Streams : k > opened' => k > opened /\ k # opened'
  BY <1>1 DEF Streams
<1>5. \A k \in Live' : k = opened'
  <2> SUFFICES ASSUME NEW k \in Live', k # opened' PROVE FALSE
    OBVIOUS
  <2>1. k \in Live
    BY <1>3 DEF Live
  <2> QED BY <2>1
<1> QED BY <1>1, <1>3, <1>4, <1>5

-----------------------------------------------------------------------------
\* Ways to keep it: nothing of the command is open; nothing is to be said of the
\* place; nothing is opened, and the place stays the same or of the same kind.
Guarded == {"type", "status", "drain", "finishing", "chunk", "saving", "config", "source", "ended"}

LEMMA AllClosed ==
    ASSUME Counted', Live' = {}, exportStream' <= since'
    PROVE  Released'
BY DEF Released

LEMMA Elsewhere ==
    ASSUME Counted', where' \notin Guarded
    PROVE  Released'
BY DEF Released, Guarded

LEMMA NoMoreOpen ==
    ASSUME Released, Counted', Live' \subseteq Live, UNCHANGED <<since, exportStream, writeStream>>,
           \/ where' = where /\ (where = "type" /\ Awaiting => Awaiting')
           \/ where \in {"status", "drain"} /\ where' \in {"status", "drain", "finishing"}
           \/ where = "chunk" /\ where' \in {"chunk", "saving"}
    PROVE  Released'
<1>1. CASE where' = where /\ (where = "type" /\ Awaiting => Awaiting')
  BY <1>1 DEF Released
<1>2. CASE where \in {"status", "drain"} /\ where' \in {"status", "drain", "finishing"}
  BY <1>2 DEF Released
<1>3. CASE where = "chunk" /\ where' \in {"chunk", "saving"}
  BY <1>3 DEF Released
<1> QED BY <1>1, <1>2, <1>3

\* A stream is closed.
LEMMA OneCloses ==
    ASSUME Counted, UNCHANGED <<opened, since, writeStream>>, exportStream' \in {exportStream, None},
           NEW s, NEW p \in {"finished", "destroyed"}, file' = [file EXCEPT ![s] = p],
           s <= opened
    PROVE  Counted' /\ Live' = Live \ {s}
<1>1. /\ file' \in [Streams -> FileStates]
      /\ \A k \in Streams : file'[k] = IF k = s THEN p ELSE file[k]
  BY DEF Counted, FileStates
<1>2. \A k \in Streams : k > opened' => file'[k] = "none"
  BY <1>1 DEF Counted, Streams
<1>3. Counted'
  BY <1>1, <1>2 DEF Counted, None
<1>4. Live' = Live \ {s}
  BY <1>1 DEF Live
<1> QED BY <1>3, <1>4

LEMMA Unopened == Counted => None \notin Live /\ None <= since /\ None <= opened /\ since \in Nat
BY DEF Counted, Live, None, Streams

\* The end of an export.
LEMMA ExportCloses ==
    ASSUME Released, where \in {"status", "finishing"}, NEW finished \in BOOLEAN,
           ExportReturns(finished), finished => writeStream # None,
           UNCHANGED <<opened, since, writeStream>>
    PROVE  Released'
<1>1. Live \subseteq {writeStream} /\ Counted
  BY DEF Released
<1>2. exportStream' = None /\ exportStream' <= since'
  BY <1>1, Unopened DEF ExportReturns
<1>3. CASE writeStream = None
  <2>1. file' = file
    BY <1>3 DEF ExportReturns
  <2>2. Live' = {} /\ Counted'
    BY <1>1, <1>2, <1>3, <2>1, Unopened DEF Live, Counted
  <2> QED BY <1>2, <2>2, AllClosed
<1>4. CASE writeStream # None
  <2>1. \E p \in {"finished", "destroyed"} : file' = [file EXCEPT ![writeStream] = p]
    BY <1>4 DEF ExportReturns, Destroyed
  <2>2. writeStream <= opened
    BY <1>1 DEF Counted
  <2>3. Counted' /\ Live' = Live \ {writeStream}
    BY <1>1, <1>2, <2>1, <2>2, OneCloses
  <2> QED BY <1>1, <1>2, <2>3, AllClosed
<1> QED BY <1>3, <1>4

LEMMA ReleasedStarts ==
    ASSUME Import, Released, handleExportStart \/ saveLog
    PROVE  Released'
<1>1. CASE handleExportStart
  <2>1. Receive("type", "u") /\ "u" \in Pauses /\ UNCHANGED <<since, writeStream>>
    BY <1>1 DEF handleExportStart, Pauses
  <2>2. Live = {} /\ exportStream <= since /\ Counted
    BY <2>1, NothingOpen DEF Released
  <2>3. Coming("u") /\ wire' = <<>> /\ UNCHANGED <<socket, serving>>
    BY <2>1, PauseRead
  <2>4. CASE /\ CreateWriteStream /\ exportStream' = opened' /\ Write("opened", "type")
    <3>1. /\ opened' \in Nat /\ opened' = opened + 1 /\ Live' \subseteq {opened'}
          /\ file' \in [Streams -> FileStates] /\ \A k \in Streams : k > opened' => file'[k] = "none"
      BY <2>1, <2>2, <2>4, Created
    <3>2. Counted'
      BY <2>1, <2>2, <2>4, <3>1 DEF Counted
    <3>3. socket = "open" => server = "offering" /\ sent = <<>>
      BY <2>3 DEF Import, Turns
    <3>4. socket = "open" => sent' = <<"opened">>
      BY <2>4, <3>3 DEF Write
    <3>5. Awaiting' /\ where' = "type"
      BY <2>3, <2>4, <3>3, <3>4 DEF Awaiting, Write, where, serving
    <3> QED BY <2>4, <3>1, <3>2, <3>5 DEF Released
  <2>5. CASE UNCHANGED <<opened, file, exportStream>>
    <3>1. Counted' /\ Live' = {}
      BY <2>1, <2>2, <2>5 DEF Counted, Live
    <3> QED BY <2>1, <2>2, <2>5, <3>1, AllClosed
  <2> QED BY <1>1, <2>4, <2>5 DEF handleExportStart
<1>2. CASE saveLog
  <2>1. Receive("type", "e") /\ UNCHANGED <<since, exportStream>>
    BY <1>2 DEF saveLog
  <2>2. Live = {} /\ exportStream <= since /\ Counted
    BY <2>1, NothingOpen DEF Released
  <2>3. CASE CreateWriteStream /\ writeStream' = opened' /\ at' = "chunk"
    <3>1. /\ opened' \in Nat /\ opened' = opened + 1 /\ Live' \subseteq {opened'}
          /\ file' \in [Streams -> FileStates] /\ \A k \in Streams : k > opened' => file'[k] = "none"
      BY <2>1, <2>2, <2>3, Created
    <3>2. Counted' /\ where' = "chunk"
      BY <2>1, <2>2, <2>3, <3>1 DEF Counted, where
    <3> QED BY <2>1, <2>2, <2>3, <3>1, <3>2 DEF Released
  <2>4. CASE at' = "failed" /\ UNCHANGED <<opened, file, writeStream>>
    <3>1. Counted' /\ where' = "failed"
      BY <2>1, <2>2, <2>4 DEF Counted, where
    <3> QED BY <3>1, Elsewhere DEF Guarded
  <2> QED BY <1>2, <2>3, <2>4 DEF saveLog
<1> QED BY <1>1, <1>2

LEMMA ReleasedTransfer ==
    ASSUME Import, Released, Transfer \/ Skip \/ ResponseEnds
    PROVE  Released'
<1>1. CASE handleExportStart \/ saveLog
  BY <1>1, ReleasedStarts
<1>2. CASE Skip \/ ResponseEnds \/ handleImport
  <2>1. Live = {} /\ exportStream <= since /\ UNCHANGED <<files, exportStream, writeStream>>
    BY <1>2, NothingOpen DEF Skip, ResponseEnds, handleImport, handler
  <2>2. Counted' /\ Live' = {} /\ UNCHANGED since
    BY <2>1 DEF Released, Counted, Live, files, streams
  <2> QED BY <2>1, <2>2, AllClosed
<1>3. CASE ImportConfigured \/ SourceChunk \/ SourceEnds \/ SourceFails
  <2>1. where \in {"config", "source"} /\ UNCHANGED <<files, exportStream, writeStream>>
    BY <1>3 DEF ImportConfigured, SourceChunk, SourceEnds, SourceFails, Receive, where
  <2>2. Live = {} /\ exportStream <= since
    BY <2>1 DEF Released
  <2>3. Counted' /\ Live' = {} /\ UNCHANGED since
    BY <2>1, <2>2 DEF Released, Counted, Live, files, streams
  <2> QED BY <2>1, <2>2, <2>3, AllClosed
<1>4. CASE handleExportData
  <2>1. /\ where = "type" /\ where' = "status" /\ writeStream' = exportStream
        /\ UNCHANGED <<files, exportStream>>
    BY <1>4 DEF handleExportData, Receive, where
  <2>2. Counted' /\ Live' = Live
    BY <2>1 DEF Released, Counted, Live, files, streams
  <2> QED BY <2>1, <2>2 DEF Released
<1>5. CASE ConsumeBlock \/ LogChunk \/ LogEnds
  <2>1. /\ \/ where = "status" /\ where' \in {"status", "drain"}
           \/ where = "chunk" /\ where' \in {"chunk", "saving"}
        /\ UNCHANGED <<file, streams, exportStream, writeStream>>
    BY <1>5 DEF ConsumeBlock, LogChunk, LogEnds, Receive, Queue, where, handler
  <2>2. Counted' /\ Live' = Live
    BY <2>1 DEF Released, Counted, Live, streams
  <2> QED BY <2>1, <2>2, NoMoreOpen DEF streams
<1>6. CASE ExportDone \/ ExportStops
  <2>1. where = "status" /\ UNCHANGED <<streams, writeStream>>
    BY <1>6 DEF ExportDone, ExportStops, Receive, where
  <2>2. CASE ExportReturns(FALSE)
    BY <2>1, <2>2, ExportCloses DEF streams
  <2>3. CASE at' = "finishing" /\ UNCHANGED <<file, exportStream>>
    <3>1. Counted' /\ Live' = Live /\ where' = "finishing"
      BY <2>1, <2>3 DEF Released, Counted, Live, where, streams
    <3> QED BY <2>1, <2>3, <3>1, NoMoreOpen DEF streams
  <2> QED BY <1>6, <2>2, <2>3 DEF ExportDone, ExportStops
<1>7. CASE LogLost
  <2>1. where = "saving" /\ file[writeStream] = "destroyed" /\ UNCHANGED <<handler, files>>
    BY <1>7 DEF LogLost, where
  <2>2. Live = {} /\ exportStream <= since
    BY <2>1 DEF Released, Live
  <2>3. Counted' /\ Live' = {} /\ UNCHANGED <<since, exportStream>>
    BY <2>1, <2>2 DEF Released, Counted, Live, handler, files, streams
  <2> QED BY <2>2, <2>3, AllClosed
<1> QED BY <1>1, <1>2, <1>3, <1>4, <1>5, <1>6, <1>7 DEF Transfer

LEMMA ReleasedFails ==
    ASSUME Released, WriteFails \/ ReadFails \/ FinishTimesOut
    PROVE  Released'
<1>1. where' = "failed" /\ UNCHANGED <<streams, exportStream, writeStream>>
  BY DEF WriteFails, ReadFails, FinishTimesOut, where, handler, files
<1>2. file' = file \/ file' = Destroyed
  BY DEF WriteFails, ReadFails, FinishTimesOut, files
<1>3. Counted'
  <2>1. CASE file' = file
    BY <1>1, <2>1 DEF Released, Counted, streams
  <2>2. CASE file' = Destroyed
    <3>1. writeStream <= opened /\ Counted
      BY DEF Released, Counted
    <3> QED BY <1>1, <2>2, <3>1, OneCloses DEF Destroyed, streams
  <2> QED BY <1>2, <2>1, <2>2
<1> QED BY <1>1, <1>3, Elsewhere DEF Guarded

LEMMA ReleasedFile ==
    ASSUME ~LateErrors, Released, NEW k \in Streams, File(k)
    PROVE  Released'
<1>1. Counted
  BY DEF Released
<1>2. CASE FileOpens(k)
  <2>1. /\ file[k] = "opening" /\ file' = [file EXCEPT ![k] = "open"]
        /\ UNCHANGED <<at, handler, streams, network, serving>>
    BY <1>2 DEF FileOpens
  <2>2. Counted' /\ Live' = Live
    BY <1>1, <2>1 DEF Counted, Live, FileStates, handler, streams
  <2>3. where' = where /\ (Awaiting => Awaiting')
    BY <2>1 DEF where, Awaiting, handler, network, serving
  <2> QED BY <2>1, <2>2, <2>3, NoMoreOpen DEF handler, streams
<1>3. CASE FileWrites(k)
  <2>1. /\ at' = at \/ (at = "drain" /\ at' = "status")
        /\ UNCHANGED <<handler, file, streams, network, serving>>
    BY <1>3 DEF FileWrites
  <2>2. Counted' /\ Live' = Live
    BY <1>1, <2>1 DEF Counted, Live, handler, streams
  <2>3. (where' = where /\ (Awaiting => Awaiting')) \/ (where = "drain" /\ where' = "status")
    BY <2>1 DEF where, Awaiting, handler, network, serving
  <2> QED BY <2>1, <2>2, <2>3, NoMoreOpen DEF handler, streams
<1>4. CASE FileFinishes(k)
  <2>1. file[k] = "open" /\ UNCHANGED <<afterWrite, writeStream, streams, network, serving>>
    BY <1>4 DEF FileFinishes
  <2>2. CASE at = "finishing" /\ writeStream = k
    <3>1. ExportReturns(TRUE)
      BY <1>4, <2>2 DEF FileFinishes
    <3>2. where = "finishing"
      BY <2>2 DEF where
    <3>3. writeStream # None
      BY <2>2 DEF Streams, None
    <3> QED BY <2>1, <3>1, <3>2, <3>3, ExportCloses DEF streams
  <2>3. CASE ~(at = "finishing" /\ writeStream = k)
    <3>1. /\ file' = [file EXCEPT ![k] = "finished"] /\ UNCHANGED exportStream
          /\ at' = IF at = "saving" /\ writeStream = k THEN "type" ELSE at
      BY <1>4, <2>3 DEF FileFinishes
    <3>2. Counted' /\ Live' = Live \ {k}
      <4>1. k <= opened
        BY <1>1, <2>1 DEF Counted, Streams
      <4> QED BY <1>1, <2>1, <3>1, <4>1, OneCloses DEF streams
    <3>3. CASE at = "saving" /\ writeStream = k
      <4>1. Live \subseteq {k} /\ exportStream <= since
        BY <3>3 DEF Released, where
      <4> QED BY <2>1, <3>1, <3>2, <4>1, AllClosed DEF streams
    <3>4. CASE ~(at = "saving" /\ writeStream = k)
      <4>1. where' = where /\ (Awaiting => Awaiting')
        BY <2>1, <3>1, <3>4 DEF where, Awaiting, network, serving
      <4> QED BY <2>1, <3>1, <3>2, <4>1, NoMoreOpen DEF streams
    <3> QED BY <3>3, <3>4
  <2> QED BY <2>2, <2>3
<1>5. CASE FileFails(k)
  <2>1. /\ file[k] \in {"opening", "open"} /\ k > since
        /\ file' = [file EXCEPT ![k] = "destroyed"]
        /\ UNCHANGED <<afterWrite, writeStream, streams, network, serving>>
    BY <1>5 DEF FileFails
  <2>2. k \in Live /\ k <= opened
    BY <1>1, <2>1 DEF Live, Counted, Streams
  <2>3. CASE k \in logs
    <3>1. UNCHANGED <<at, exportStream>>
      BY <1>5, <2>3 DEF FileFails
    <3>2. Counted' /\ Live' = Live \ {k}
      BY <1>1, <2>1, <2>2, <3>1, OneCloses DEF streams
    <3>3. where' = where /\ (Awaiting => Awaiting')
      BY <2>1, <3>1 DEF where, Awaiting, network, serving
    <3> QED BY <2>1, <3>1, <3>2, <3>3, NoMoreOpen DEF streams
  <2>4. CASE k \notin logs
    <3>1. /\ exportStream' = None
          /\ at' = at \/ (at \in {"drain", "finishing"} /\ at' = "failed")
      BY <1>5, <2>4 DEF FileFails
    <3>2. Counted' /\ Live' = Live \ {k}
      BY <1>1, <2>1, <2>2, <3>1, OneCloses DEF streams
    <3>3. CASE where \in Guarded
      <4>1. Live' = {}
        BY <2>2, <3>2, <3>3 DEF Released, Guarded
      <4> QED BY <1>1, <2>1, <3>1, <3>2, <4>1, Unopened, AllClosed DEF streams
    <3>4. CASE where \notin Guarded
      <4>1. where' = where
        BY <2>1, <3>1, <3>4 DEF where, Guarded
      <4> QED BY <3>2, <3>4, <4>1, Elsewhere
    <3> QED BY <3>3, <3>4
  <2> QED BY <2>3, <2>4
<1> QED BY <1>2, <1>3, <1>4, <1>5 DEF File

\* A command that begins in step.
LEMMA ReleasedNext ==
    ASSUME Counted, Counted', at = "sync" => since = opened, NextCommand \/ Synced
    PROVE  Released'
<1>1. /\ since' = opened /\ UNCHANGED <<opened, file>> /\ exportStream' \in {exportStream, None}
  BY DEF NextCommand, Synced, handler, files, streams
<1>2. exportStream' <= since' /\ \A k \in Streams : k > since' => file'[k] = "none"
  BY <1>1 DEF Counted, None
<1>3. Live' = {}
  BY <1>2 DEF Live
<1> QED BY <1>2, <1>3, AllClosed

LEMMA ReleasedStep ==
    ASSUME ~LateErrors, Import, Released, at # "sync", ~strayed, ~strayed', [Next]_vars
    PROVE  Released'
<1>1. CASE Written \/ UNCHANGED vars
  <2>1. where' = where /\ UNCHANGED <<handler, files, network, serving>>
    BY <1>1 DEF Written, where, vars, handler
  <2>2. Counted' /\ Live' = Live /\ (Awaiting => Awaiting') /\ UNCHANGED <<since, exportStream, writeStream>>
    BY <2>1 DEF Released, Counted, Live, Awaiting, handler, files, streams, network, serving
  <2> QED BY <2>1, <2>2, NoMoreOpen
<1>2. CASE NextCommand
  <2>1. Counted'
    BY <1>2 DEF NextCommand, Released, Counted, None
  <2> QED BY <1>2, <2>1, ReleasedNext DEF Released
<1>3. CASE \E k \in Streams : File(k)
  BY <1>3, ReleasedFile
<1>4. ~(Synced \/ SyncFails \/ Misread \/ NextCommandStrays)
  BY DEF Synced, SyncFails, Misread, NextCommandStrays
<1> QED BY <1>1, <1>2, <1>3, <1>4, ReleasedTransfer, ReleasedFails, ReleasedAround DEF Next, Client

\* What a step can do to the streams and to who has them.
LEMMA FilesChange ==
    ASSUME Counted, [Next]_vars
    PROVE  /\ \/ opened' = opened /\ file' = file /\ since' \in {since, opened}
              \/ opened' = opened + 1 /\ since' = since /\ file' = [file EXCEPT ![opened'] = "opening"]
              \/ /\ opened' = opened /\ since' = since
                 /\ \E k \in 0..opened, s \in FileStates : file' = [file EXCEPT ![k] = s]
           /\ exportStream' \in {exportStream, None, opened'}
           /\ writeStream' \in {writeStream, exportStream, opened'}
<1>1. /\ opened \in Nat /\ writeStream \in 0..opened
      /\ \A k \in Streams : file[k] # "none" => k \in 0..opened
  BY DEF Counted, Streams
<1>2. CASE \/ UNCHANGED vars \/ Written \/ WriteFails \/ Skip \/ ResponseEnds \/ LogLost
           \/ Server \/ SocketDies \/ Synced \/ SyncFails \/ Misread
           \/ ConsumeBlock \/ LogChunk \/ LogEnds \/ handleImport
           \/ ImportConfigured \/ SourceChunk \/ SourceEnds \/ SourceFails
  <2>1. UNCHANGED <<opened, since, file, exportStream, writeStream>>
    <3>1. CASE UNCHANGED vars \/ Written \/ WriteFails \/ Skip \/ ResponseEnds \/ LogLost
      BY <3>1 DEF vars, Written, WriteFails, Skip, ResponseEnds, LogLost, handler, files, streams
    <3>2. CASE Server \/ SocketDies \/ Synced \/ SyncFails \/ Misread
      BY <3>2 DEF Server, ServerStarts, ServerSends, ServerReceives, ServerDiscards, Arrives,
        SocketDies, Synced, SyncFails, Misread, handler, files, streams
    <3>3. CASE ConsumeBlock \/ LogChunk \/ LogEnds
      BY <3>3 DEF ConsumeBlock, LogChunk, LogEnds, handler, streams
    <3>4. CASE handleImport \/ ImportConfigured \/ SourceChunk \/ SourceEnds \/ SourceFails
      BY <3>4 DEF handleImport, ImportConfigured, SourceChunk, SourceEnds, SourceFails, files, streams
    <3> QED BY <1>2, <3>1, <3>2, <3>3, <3>4
  <2> QED BY <2>1
<1>3. CASE NextCommand \/ NextCommandStrays \/ handleExportData
  BY <1>3 DEF NextCommand, NextCommandStrays, handleExportData, handler, files, streams
<1>4. CASE ReadFails \/ FinishTimesOut
  <2>1. file' = file \/ file' = [file EXCEPT ![writeStream] = "destroyed"]
    BY <1>4 DEF ReadFails, FinishTimesOut, Destroyed
  <2>2. UNCHANGED <<opened, since, exportStream, writeStream>>
    BY <1>4 DEF ReadFails, FinishTimesOut, handler, streams
  <2> QED BY <1>1, <2>1, <2>2 DEF FileStates
<1>5. CASE handleExportStart \/ saveLog
  BY <1>5 DEF handleExportStart, saveLog, CreateWriteStream
<1>6. CASE ExportDone \/ ExportStops
  <2>1. file' = file \/ file' = [file EXCEPT ![writeStream] = "destroyed"]
    BY <1>6 DEF ExportDone, ExportStops, ExportReturns, Destroyed
  <2>2. UNCHANGED <<opened, since, writeStream>> /\ exportStream' \in {exportStream, None}
    BY <1>6 DEF ExportDone, ExportStops, ExportReturns, streams
  <2> QED BY <1>1, <2>1, <2>2 DEF FileStates
<1>7. CASE \E k \in Streams : File(k)
  <2>1. PICK k \in Streams : File(k)
    BY <1>7
  <2>2. CASE FileOpens(k)
    <3>1. file[k] # "none" /\ file' = [file EXCEPT ![k] = "open"]
      BY <2>2 DEF FileOpens
    <3>2. UNCHANGED <<opened, since, exportStream, writeStream>>
      BY <2>2 DEF FileOpens, handler, streams
    <3> QED BY <1>1, <3>1, <3>2 DEF FileStates
  <2>3. CASE FileWrites(k)
    BY <2>3 DEF FileWrites, handler, streams
  <2>4. CASE FileFinishes(k)
    <3>1. file[k] # "none" /\ file' = [file EXCEPT ![k] = "finished"]
      BY <2>4 DEF FileFinishes, ExportReturns
    <3>2. UNCHANGED <<opened, since, writeStream>> /\ exportStream' \in {exportStream, None}
      BY <2>4 DEF FileFinishes, ExportReturns, streams
    <3> QED BY <1>1, <3>1, <3>2 DEF FileStates
  <2>5. CASE FileFails(k)
    <3>1. file[k] # "none" /\ file' = [file EXCEPT ![k] = "destroyed"]
      BY <2>5 DEF FileFails
    <3>2. UNCHANGED <<opened, since, writeStream>> /\ exportStream' \in {exportStream, None}
      BY <2>5 DEF FileFails, streams
    <3> QED BY <1>1, <3>1, <3>2 DEF FileStates
  <2> QED BY <2>1, <2>2, <2>3, <2>4, <2>5 DEF File
<1> QED BY <1>2, <1>3, <1>4, <1>5, <1>6, <1>7 DEF Next, Client, Transfer

LEMMA CountedStep == Counted /\ [Next]_vars => Counted'
<1> SUFFICES ASSUME Counted, [Next]_vars PROVE Counted'
  OBVIOUS
<1>1. /\ opened \in Nat /\ since \in 0..opened /\ exportStream \in 0..opened
      /\ writeStream \in 0..opened /\ file \in [Streams -> FileStates]
      /\ \A k \in Streams : k > opened => file[k] = "none"
  BY DEF Counted
<1>2. opened' \in {opened, opened + 1} /\ since' \in {since, opened}
  BY FilesChange
<1>3. /\ opened' \in Nat /\ since' \in 0..opened'
      /\ exportStream' \in 0..opened' /\ writeStream' \in 0..opened'
  BY <1>1, <1>2, FilesChange DEF None
<1>4. file' \in [Streams -> FileStates] /\ \A k \in Streams : k > opened' => file'[k] = "none"
  <2>1. CASE opened' = opened /\ file' = file
    BY <1>1, <2>1
  <2>2. CASE opened' = opened + 1 /\ file' = [file EXCEPT ![opened'] = "opening"]
    <3>1. "opening" \in FileStates /\ \A k \in Streams : k > opened' => k > opened /\ k # opened'
      BY <1>1, <2>2 DEF FileStates, Streams
    <3> QED BY <1>1, <2>2, <3>1
  <2>3. ASSUME opened' = opened, NEW k \in 0..opened, NEW s \in FileStates,
               file' = [file EXCEPT ![k] = s]
        PROVE  file' \in [Streams -> FileStates] /\ \A j \in Streams : j > opened' => file'[j] = "none"
    <3>1. \A j \in Streams : j > opened' => j # k
      BY <1>1, <2>3 DEF Streams
    <3> QED BY <1>1, <2>3, <3>1
  <2> QED BY <2>1, <2>2, <2>3, FilesChange
<1> QED BY <1>3, <1>4 DEF Counted

\* The files of all commands, and those of a command that has begun in step.
Releases == Counted /\ (~strayed => Released)

LEMMA ReleasesStep ==
    ASSUME ~LateErrors
    PROVE  Commands /\ Releases /\ [Next]_vars => Releases'
<1> SUFFICES ASSUME Commands, Releases, [Next]_vars PROVE Releases'
  OBVIOUS
<1>1. Counted'
  BY CountedStep DEF Releases
<1>2. ASSUME ~strayed' PROVE Released'
  <2>1. CASE ~strayed
    BY <1>2, <2>1, ReleasedStep DEF Commands, Releases, Syncing
  <2>2. CASE strayed
    BY <1>1, <1>2, <2>2, InStepAgain, ReleasedNext DEF Commands, Releases, Syncing
  <2> QED BY <2>1, <2>2
<1> QED BY <1>1, <1>2 DEF Releases

\* A command that succeeds leaves no file of its exports and logs open, and the
\* connection has no reference to one (handleExportStart, handleExportData,
\* saveLog of src/external/ExternalTableHandler.ts), unless a stream that an
\* earlier command has left over fails late, or the command has begun in the
\* middle of the response of another.
THEOREM FilesAreReleased ==
    ASSUME ~LateErrors
    PROVE  Spec => []FilesReleased
<1>1. Init => Releases
  BY ReleasedInit DEF Releases, Released
<1>2. Releases => FilesReleased
  BY DEF Releases, Released, FilesReleased, Live, where
<1> QED BY <1>1, <1>2, CommandsInit, CommandsStep, ReleasesStep, PTL DEF Spec
-----------------------------------------------------------------------------
(***************************************************************************)
(* The blocks of an export.  While its data is received, every block taken *)
(* is in the buffer of its file or on disk.  This needs nothing of the     *)
(* server, not even that the command is in step: whenever 'U' can be read, *)
(* the connection's reference is to a new file, or to one already closed.  *)
(***************************************************************************)
Unclosed == {"opening", "open"}
Taking == {"status", "drain", "finishing"}
Saving == {"chunk", "saving"}

Blank(k) == queued[k] = 0 /\ disk[k] = 0

\* A reference left to an unclosed file with data goes with the connection.
Forlorn == at = "failed" /\ socket = "dead"
Fresh == Blank(exportStream) \/ file[exportStream] \notin Unclosed \/ Forlorn

Accounted ==
    /\ queued \in [Streams -> Nat] /\ disk \in [Streams -> Nat] /\ taken \in Nat
    /\ \A k \in Streams : k > opened => Blank(k)
    /\ exportStream \in Streams =>
        /\ where \notin Taking => Fresh
        /\ where \in Taking => exportStream = writeStream
        /\ where \in Saving => exportStream # writeStream
    /\ where \in Taking /\ writeStream \in Streams /\ file[writeStream] \in Unclosed =>
        queued[writeStream] + disk[writeStream] = taken

Exports == Counted /\ Accounted

LEMMA ExportsInit == Init => Exports
<1> SUFFICES ASSUME Init PROVE Exports
  OBVIOUS
<1>1. /\ where = "type" /\ exportStream = None /\ taken = 0
      /\ queued = [k \in Streams |-> 0] /\ disk = [k \in Streams |-> 0]
  BY DEF Init, where
<1>2. Counted
  BY DEF Init, Counted, FileStates, None
<1>3. Accounted
  BY <1>1 DEF Accounted, Blank, Streams, None, Taking
<1> QED BY <1>2, <1>3 DEF Exports

\* The blocks stay where they are, and no place is reached that promises more.
LEMMA AccountedAside ==
    ASSUME Accounted, UNCHANGED <<opened, writeStream, queued, disk, taken>>,
           exportStream' \in {exportStream, None},
           \A k \in Streams : file'[k] \in Unclosed => file[k] \in Unclosed,
           Forlorn => Forlorn' \/ exportStream' = None,
           \/ where' = where
           \/ where \in Taking /\ where' \in Taking
           \/ where \notin Taking /\ where' \notin Taking \cup Saving
           \/ where = "chunk" /\ where' = "saving"
           \/ /\ where' \notin Taking \cup Saving
              /\ exportStream' \in Streams => file'[exportStream'] \notin Unclosed \/ Forlorn'
    PROVE  Accounted'
<1>1. None \notin Streams /\ Taking \cap Saving = {}
  BY DEF Streams, None, Taking, Saving
<1>2. /\ queued' \in [Streams -> Nat] /\ disk' \in [Streams -> Nat] /\ taken' \in Nat
      /\ \A k \in Streams : k > opened' => Blank(k)'
  BY DEF Accounted, Blank
<1>3. ASSUME exportStream' \in Streams
      PROVE  /\ where' \notin Taking => Fresh'
             /\ where' \in Taking => exportStream' = writeStream'
             /\ where' \in Saving => exportStream' # writeStream'
  <2>1. exportStream' = exportStream /\ exportStream \in Streams /\ exportStream' # None
    BY <1>1, <1>3
  <2>2. /\ where \notin Taking => Fresh
        /\ where \in Taking => exportStream = writeStream
        /\ where \in Saving => exportStream # writeStream
    BY <2>1 DEF Accounted
  <2>3. Fresh => Fresh'
    <3>1. Blank(exportStream) => Blank(exportStream)'
      BY <2>1 DEF Blank
    <3>2. file[exportStream] \notin Unclosed => file'[exportStream'] \notin Unclosed
      BY <2>1
    <3>3. Forlorn => Forlorn'
      BY <2>1
    <3> QED BY <3>1, <3>2, <3>3 DEF Fresh
  <2>4. where' \in Taking => where \in Taking
    BY DEF Taking, Saving
  <2>5. where' \in Saving => where \in Saving
    BY <1>1 DEF Saving
  <2>6. ASSUME where' \notin Taking PROVE Fresh'
    <3>1. where \notin Taking \/ file'[exportStream'] \notin Unclosed \/ Forlorn'
      BY <1>1, <1>3, <2>6 DEF Saving
    <3> QED BY <2>2, <2>3, <3>1 DEF Fresh
  <2> QED BY <2>1, <2>2, <2>4, <2>5, <2>6
<1>4. ASSUME where' \in Taking, writeStream' \in Streams, file'[writeStream'] \in Unclosed
      PROVE  queued'[writeStream'] + disk'[writeStream'] = taken'
  <2>1. where \in Taking
    BY <1>1, <1>4 DEF Saving
  <2>2. writeStream \in Streams /\ file[writeStream] \in Unclosed
    BY <1>4
  <2>3. queued[writeStream] + disk[writeStream] = taken
    BY <2>1, <2>2 DEF Accounted
  <2> QED BY <2>3
<1> QED BY <1>2, <1>3, <1>4 DEF Accounted

\* A step that closes at most one stream opens none.
LEMMA ClosesOne ==
    ASSUME NEW k, NEW s, s \notin Unclosed, file' = file \/ file' = [file EXCEPT ![k] = s],
           file \in [Streams -> FileStates]
    PROVE  \A j \in Streams : file'[j] \in Unclosed => file[j] \in Unclosed
OBVIOUS

LEMMA AccountedStays ==
    ASSUME Counted, Accounted,
           \/ UNCHANGED vars \/ Written \/ WriteFails \/ ReadFails \/ FinishTimesOut \/ LogLost
           \/ Skip \/ ResponseEnds \/ handleImport \/ ImportConfigured
           \/ SourceChunk \/ SourceEnds \/ SourceFails
           \/ LogEnds \/ ExportDone \/ ExportStops \/ Server \/ SocketDies
           \/ Synced \/ SyncFails \/ Misread \/ NextCommand \/ NextCommandStrays
    PROVE  Accounted'
<1> DEFINE Kept == UNCHANGED <<opened, writeStream, queued, disk, taken>>
<1> DEFINE NoneOpens == \A k \in Streams : file'[k] \in Unclosed => file[k] \in Unclosed
<1>1. file \in [Streams -> FileStates] /\ "destroyed" \notin Unclosed
  BY DEF Counted, Unclosed
<1>2. CASE UNCHANGED vars \/ Written \/ Server \/ SocketDies \/ Misread
  <2>1. Kept /\ file' = file /\ exportStream' = exportStream
    BY <1>2 DEF vars, Written, Server, ServerStarts, ServerSends, ServerReceives, ServerDiscards,
      Arrives, SocketDies, Misread, handler, files, streams
  <2>2. where' = where /\ (Forlorn => Forlorn')
    BY <1>2 DEF vars, network, Written, Server, ServerStarts, ServerSends, ServerReceives,
      ServerDiscards, Arrives, SocketDies, Misread, handler, where, Forlorn
  <2> QED BY <2>1, <2>2, AccountedAside
<1>3. CASE WriteFails \/ ReadFails
  <2>1. Kept /\ exportStream' = exportStream
    BY <1>3 DEF WriteFails, ReadFails, handler, files, streams
  <2>2. file' = file \/ file' = [file EXCEPT ![writeStream] = "destroyed"]
    BY <1>3 DEF WriteFails, ReadFails, Destroyed, files
  <2>3. Forlorn' /\ where' = "failed" /\ ~Forlorn
    BY <1>3 DEF WriteFails, ReadFails, Lost, Reads, Forlorn, where, network
  <2>4. NoneOpens
    BY <1>1, <2>2, ClosesOne
  <2> QED BY <2>1, <2>3, <2>4, AccountedAside DEF Taking, Saving
<1>4. CASE FinishTimesOut
  <2>1. Kept /\ exportStream' = exportStream /\ file' = [file EXCEPT ![writeStream] = "destroyed"]
    BY <1>4 DEF FinishTimesOut, Destroyed, streams
  <2>2. where = "finishing" /\ where' = "failed" /\ ~Forlorn
    BY <1>4 DEF FinishTimesOut, Forlorn, where
  <2>3. NoneOpens
    BY <1>1, <2>1, ClosesOne
  <2>4. exportStream \in Streams => exportStream = writeStream
    BY <2>2 DEF Accounted, Taking
  <2>5. exportStream' \in Streams => file'[exportStream'] \notin Unclosed
    BY <1>1, <2>1, <2>4
  <2> QED BY <2>1, <2>2, <2>3, <2>5, AccountedAside DEF Taking, Saving
<1>5. CASE \/ Skip \/ ResponseEnds \/ handleImport \/ ImportConfigured
           \/ SourceChunk \/ SourceEnds \/ SourceFails \/ LogLost
  <2>1. Kept /\ file' = file /\ exportStream' = exportStream
    BY <1>5 DEF Skip, ResponseEnds, handleImport, ImportConfigured, SourceChunk, SourceEnds,
      SourceFails, LogLost, handler, files, streams
  <2>2. /\ where \in {"type", "config", "source", "saving"} /\ ~Forlorn
        /\ where' \in {"type", "config", "source", "ended", "failed"}
    BY <1>5 DEF Skip, ResponseEnds, handleImport, ImportConfigured, SourceChunk, SourceEnds,
      SourceFails, LogLost, Receive, Write, where, Forlorn
  <2> QED BY <2>1, <2>2, AccountedAside DEF Taking, Saving
<1>6. CASE LogEnds
  <2>1. /\ Kept /\ file' = file /\ exportStream' = exportStream
        /\ where = "chunk" /\ where' = "saving" /\ ~Forlorn
    BY <1>6 DEF LogEnds, Receive, handler, streams, where, Forlorn
  <2> QED BY <2>1, AccountedAside
<1>7. CASE ExportDone \/ ExportStops
  <2>1. Kept /\ where = "status" /\ ~Forlorn
    BY <1>7 DEF ExportDone, ExportStops, Receive, streams, where, Forlorn
  <2>2. file' = file \/ file' = [file EXCEPT ![writeStream] = "destroyed"]
    BY <1>7 DEF ExportDone, ExportStops, ExportReturns, Destroyed
  <2>3. \/ where' = "finishing" /\ exportStream' = exportStream
        \/ where' = "type" /\ exportStream' = None
    BY <1>7 DEF ExportDone, ExportStops, ExportReturns, where
  <2>4. NoneOpens
    BY <1>1, <2>2, ClosesOne
  <2>5. \/ where \in Taking /\ where' \in Taking
        \/ where' \notin Taking \cup Saving /\ exportStream' \notin Streams
    BY <2>1, <2>3 DEF Taking, Saving, None, Streams
  <2>6. exportStream' \in {exportStream, None}
    BY <2>3
  <2> QED BY <2>1, <2>4, <2>5, <2>6, AccountedAside
<1>8. CASE Synced \/ SyncFails \/ NextCommand \/ NextCommandStrays
  <2>1. Kept /\ file' = file /\ exportStream' \in {exportStream, None}
    BY <1>8 DEF Synced, SyncFails, NextCommand, NextCommandStrays, handler, files, streams
  <2>2. where \in {"sync", "ended", "failed"} /\ where' \in {"type", "sync", "failed"}
    BY <1>8 DEF Synced, SyncFails, NextCommand, NextCommandStrays, Outcomes, handler, where
  <2>3. Forlorn => exportStream' = None
    BY <1>8 DEF Synced, SyncFails, NextCommand, NextCommandStrays, Forlorn
  <2> QED BY <2>1, <2>2, <2>3, AccountedAside DEF Taking, Saving
<1> QED BY <1>2, <1>3, <1>4, <1>5, <1>6, <1>7, <1>8

\* A new stream has no blocks.
LEMMA NewIsBlank ==
    ASSUME Counted, Accounted, opened' = opened + 1, UNCHANGED <<queued, disk>>
    PROVE  \A k \in Streams : k >= opened' => Blank(k) /\ Blank(k)'
BY DEF Counted, Accounted, Blank, Streams

LEMMA AccountedStarts ==
    ASSUME Counted, Accounted, handleExportStart
    PROVE  Accounted'
<1>1. /\ where = "type" /\ where' = "type" /\ ~Forlorn
      /\ UNCHANGED <<writeStream, queued, disk, taken>>
  BY DEF handleExportStart, Receive, Write, where, Forlorn
<1>2. "type" \notin Taking /\ "type" \notin Saving
  BY DEF Taking, Saving
<1>3. CASE UNCHANGED <<opened, file, exportStream>>
  BY <1>1, <1>3, AccountedAside
<1>4. CASE CreateWriteStream /\ exportStream' = opened'
  <2>1. opened' = opened + 1 /\ opened \in Nat
    BY <1>4 DEF CreateWriteStream, Counted
  <2>2. \A k \in Streams : k >= opened' => Blank(k) /\ Blank(k)'
    BY <1>1, <2>1, NewIsBlank
  <2>3. exportStream' \in Streams => Blank(exportStream)'
    BY <1>4, <2>1, <2>2 DEF Blank
  <2>4. \A k \in Streams : k > opened' => Blank(k)'
    BY <2>1, <2>2 DEF Streams
  <2> QED BY <1>1, <1>2, <2>3, <2>4 DEF Accounted, Fresh, Blank
<1> QED BY <1>3, <1>4 DEF handleExportStart

LEMMA AccountedData ==
    ASSUME Counted, Accounted, handleExportData
    PROVE  Accounted'
<1>1. /\ where = "type" /\ at # "failed" /\ where' = "status"
      /\ writeStream' = exportStream /\ taken' = 0
      /\ UNCHANGED <<opened, exportStream, file, queued, disk>>
  BY DEF handleExportData, Receive, where, files, streams
<1>2. "type" \notin Taking /\ "status" \in Taking /\ "status" \notin Saving
  BY DEF Taking, Saving
<1>3. exportStream \in Streams => Blank(exportStream) \/ file[exportStream] \notin Unclosed
  BY <1>1, <1>2 DEF Accounted, Fresh, Forlorn
<1>4. writeStream' \in Streams /\ file'[writeStream'] \in Unclosed =>
        queued'[writeStream'] + disk'[writeStream'] = taken'
  BY <1>1, <1>3 DEF Blank
<1> QED BY <1>1, <1>2, <1>4 DEF Accounted, Blank

LEMMA AccountedBlock ==
    ASSUME Counted, Accounted, ConsumeBlock
    PROVE  Accounted'
<1>1. /\ where = "status" /\ where' \in Taking /\ where' \notin Saving /\ taken' = taken + 1
      /\ UNCHANGED <<opened, exportStream, writeStream, file, disk>>
  BY DEF ConsumeBlock, Queue, Receive, where, streams, Taking, Saving
<1>2. taken \in Nat /\ queued \in [Streams -> Nat] /\ disk \in [Streams -> Nat]
  BY DEF Accounted
<1>3. exportStream \in Streams => exportStream = writeStream
  BY <1>1 DEF Accounted, Taking
<1>4. CASE UNCHANGED queued /\ (writeStream \notin Streams \/ file[writeStream] \notin Unclosed)
  BY <1>1, <1>2, <1>3, <1>4 DEF Accounted, Blank
<1>5. CASE queued' = [queued EXCEPT ![writeStream] = @ + 1]
  <2>1. queued' \in [Streams -> Nat]
    <3>1. CASE writeStream \in Streams
      BY <1>2, <1>5, <3>1
    <3>2. CASE writeStream \notin Streams
      BY <1>2, <1>5, <3>2
    <3> QED BY <3>1, <3>2
  <2>2. \A k \in Streams : k > opened' => Blank(k)'
    BY <1>1, <1>2, <1>5 DEF Accounted, Blank, Counted, Streams
  <2>3. ASSUME writeStream \in Streams, file[writeStream] \in Unclosed
        PROVE  queued'[writeStream] + disk[writeStream] = taken'
    <3>1. queued[writeStream] + disk[writeStream] = taken /\ "status" \in Taking
      BY <1>1, <2>3 DEF Accounted, Taking
    <3> QED BY <1>1, <1>2, <1>5, <2>3, <3>1
  <2> QED BY <1>1, <1>2, <1>3, <2>1, <2>2, <2>3 DEF Accounted
<1>6. \/ UNCHANGED queued /\ (writeStream \notin Streams \/ file[writeStream] \notin Unclosed)
      \/ queued' = [queued EXCEPT ![writeStream] = @ + 1]
  BY DEF ConsumeBlock, Queue, Unclosed, None, Streams
<1> QED BY <1>4, <1>5, <1>6

LEMMA AccountedLogs ==
    ASSUME Counted, Accounted, saveLog \/ LogChunk
    PROVE  Accounted'
<1>1. /\ where \in {"type", "chunk"} /\ at # "failed" /\ UNCHANGED <<exportStream, disk>>
  BY DEF saveLog, LogChunk, Receive, where, streams
<1>2. taken \in Nat /\ queued \in [Streams -> Nat] /\ disk \in [Streams -> Nat]
  BY DEF Accounted
<1>3. exportStream \in Streams =>
        /\ Blank(exportStream) \/ file[exportStream] \notin Unclosed
        /\ where = "chunk" => exportStream # writeStream
  BY <1>1 DEF Accounted, Fresh, Forlorn, Taking, Saving
<1>4. "chunk" \notin Taking /\ "failed" \notin Taking \cup Saving
  BY DEF Taking, Saving
<1>5. CASE saveLog /\ at' = "chunk"
  <2>1. /\ opened' = opened + 1 /\ writeStream' = opened' /\ taken' = 0 /\ UNCHANGED queued
        /\ file' = [file EXCEPT ![opened'] = "opening"] /\ where' = "chunk"
    BY <1>5 DEF saveLog, CreateWriteStream, where
  <2>2. exportStream # writeStream'
    BY <1>1, <2>1 DEF Counted
  <2>3. \A k \in Streams : k > opened' => Blank(k)'
    BY <1>1, <2>1, NewIsBlank DEF Counted, Streams
  <2>4. exportStream \in Streams => file'[exportStream] = file[exportStream]
    BY <2>1, <2>2 DEF Counted
  <2> QED BY <1>1, <1>2, <1>3, <1>4, <2>1, <2>2, <2>3, <2>4 DEF Accounted, Fresh, Blank
<1>6. CASE saveLog /\ at' = "failed"
  <2>1. /\ UNCHANGED <<opened, writeStream, queued, taken, file>>
        /\ where = "type" /\ where' = "failed" /\ ~Forlorn
    BY <1>6 DEF saveLog, Receive, where, Forlorn
  <2> QED BY <1>1, <1>4, <2>1, AccountedAside DEF Taking
<1>7. CASE LogChunk
  <2>1. /\ where = "chunk" /\ where' = "chunk" /\ taken' = taken + 1
        /\ UNCHANGED <<opened, writeStream, file>>
        /\ \/ queued' = [queued EXCEPT ![writeStream] = @]
           \/ queued' = [queued EXCEPT ![writeStream] = @ + 1]
    BY <1>7 DEF LogChunk, Receive, where, streams
  <2>2. /\ queued' \in [Streams -> Nat]
        /\ \A k \in Streams : k # writeStream => queued'[k] = queued[k]
    BY <1>2, <2>1
  <2>3. \A k \in Streams : k > opened' => k # writeStream /\ Blank(k)
    BY <2>1 DEF Accounted, Counted, Streams
  <2> QED BY <1>1, <1>2, <1>3, <1>4, <2>1, <2>2, <2>3 DEF Accounted, Fresh, Blank
<1>8. saveLog => at' \in {"chunk", "failed"}
  BY DEF saveLog
<1> QED BY <1>5, <1>6, <1>7, <1>8

LEMMA AccountedFile ==
    ASSUME Counted, Accounted, NEW k \in Streams, File(k)
    PROVE  Accounted'
<1>1. /\ UNCHANGED <<opened, writeStream, taken, socket>>
      /\ file \in [Streams -> FileStates]
      /\ at = "failed" => at' = "failed"
  BY DEF File, FileOpens, FileWrites, FileFinishes, FileFails, ExportReturns, handler, streams,
    network, Counted
<1>2. Forlorn => Forlorn'
  BY <1>1 DEF Forlorn
<1>3. CASE FileOpens(k)
  <2>1. /\ UNCHANGED <<where, exportStream, queued, disk>> /\ file[k] = "opening"
        /\ file' = [file EXCEPT ![k] = "open"]
    BY <1>3 DEF FileOpens, handler, where
  <2>2. \A j \in Streams : file'[j] \in Unclosed => file[j] \in Unclosed
    BY <1>1, <2>1 DEF Unclosed
  <2> QED BY <1>1, <1>2, <2>1, <2>2, AccountedAside
<1>4. CASE FileWrites(k)
  <2>1. /\ file[k] = "open" /\ queued[k] > 0 /\ UNCHANGED <<exportStream, file>>
        /\ queued' = [queued EXCEPT ![k] = @ - 1] /\ disk' = [disk EXCEPT ![k] = @ + 1]
        /\ where' = where \/ (where = "drain" /\ where' = "status")
    BY <1>4 DEF FileWrites, handler, where
  <2>2. queued \in [Streams -> Nat] /\ disk \in [Streams -> Nat] /\ taken \in Nat
    BY DEF Accounted
  <2>3. queued' \in [Streams -> Nat] /\ disk' \in [Streams -> Nat]
    BY <2>1, <2>2
  <2>4. \A j \in Streams : Blank(j) => j # k /\ Blank(j)'
    BY <2>1, <2>2 DEF Blank
  <2>5. \A j \in Streams : queued'[j] + disk'[j] = queued[j] + disk[j]
    BY <2>1, <2>2
  <2>6. (where' \in Taking <=> where \in Taking) /\ (where' \in Saving <=> where \in Saving)
    BY <2>1 DEF Taking, Saving
  <2>7. \A j \in Streams : j > opened' => Blank(j)'
    BY <1>1, <2>4 DEF Accounted
  <2>8. ASSUME exportStream' \in Streams
        PROVE  /\ where' \notin Taking => Fresh'
               /\ where' \in Taking => exportStream' = writeStream'
               /\ where' \in Saving => exportStream' # writeStream'
    <3>1. /\ where' \notin Taking => Fresh
          /\ where' \in Taking => exportStream' = writeStream'
          /\ where' \in Saving => exportStream' # writeStream'
      BY <1>1, <2>1, <2>6, <2>8 DEF Accounted
    <3>2. Blank(exportStream) => Blank(exportStream)'
      BY <2>1, <2>4, <2>8 DEF Blank
    <3> QED BY <1>2, <2>1, <3>1, <3>2 DEF Fresh
  <2>9. ASSUME where' \in Taking, writeStream' \in Streams, file'[writeStream'] \in Unclosed
        PROVE  queued'[writeStream'] + disk'[writeStream'] = taken'
    BY <1>1, <2>1, <2>5, <2>6, <2>9 DEF Accounted
  <2> QED BY <1>1, <2>2, <2>3, <2>7, <2>8, <2>9 DEF Accounted
<1>5. CASE FileFinishes(k) \/ FileFails(k)
  <2>1. UNCHANGED <<queued, disk>>
    BY <1>5 DEF FileFinishes, FileFails
  <2>2. file' = [file EXCEPT ![k] = "finished"] \/ file' = [file EXCEPT ![k] = "destroyed"]
    BY <1>5 DEF FileFinishes, FileFails, ExportReturns
  <2>3. \/ exportStream' \in {exportStream, None} /\ where' = where
        \/ exportStream' = exportStream /\ where = "saving" /\ where' = "type"
        \/ exportStream' = None /\ where' \in {"type", "failed"}
    BY <1>5 DEF FileFinishes, FileFails, ExportReturns, where
  <2>4. \A j \in Streams : file'[j] \in Unclosed => file[j] \in Unclosed
    BY <1>1, <2>2 DEF Unclosed
  <2>5. \/ where' = where
        \/ where \notin Taking /\ where' \notin Taking \cup Saving
        \/ where' \notin Taking \cup Saving /\ exportStream' \notin Streams
    BY <2>3 DEF Taking, Saving, None, Streams
  <2>6. exportStream' \in {exportStream, None}
    BY <2>3
  <2> QED BY <1>1, <1>2, <2>1, <2>4, <2>5, <2>6, AccountedAside
<1> QED BY <1>3, <1>4, <1>5 DEF File

LEMMA ExportsStep == Exports /\ [Next]_vars => Exports'
<1> SUFFICES ASSUME Counted, Accounted, [Next]_vars PROVE Exports'
  BY DEF Exports
<1>1. Accounted'
  BY AccountedStays, AccountedStarts, AccountedData, AccountedBlock, AccountedLogs, AccountedFile
    DEF Next, Client, Transfer
<1> QED BY <1>1, CountedStep DEF Exports

\* An export that has a file ends with DONE only by the 'finish' of its file,
\* when every block the client has been sent is on disk.
LEMMA Finishes ==
    ASSUME Exports, [Next]_vars, ReturnsDone
    PROVE  file'[writeStream] = "finished" /\ disk'[writeStream] = taken
<1>1. PICK k \in Streams : FileFinishes(k) /\ at = "finishing" /\ writeStream = k
  <2>1. at \in {"finishing", "status"} /\ at' = "type" /\ writeStream # None
    BY DEF ReturnsDone
  <2>2. at = "status" => Head(wire) = "done"
    BY DEF ReturnsDone
  <2>3. CASE \E k \in Streams : File(k)
    BY <2>1, <2>3 DEF File, FileOpens, FileWrites, FileFinishes, FileFails
  <2>4. ~Transfer
    <3>1. ~(handleExportStart \/ handleExportData \/ ConsumeBlock)
      BY <2>1, <2>2 DEF handleExportStart, handleExportData, ConsumeBlock, Receive
    <3>2. ~(ExportDone \/ ExportStops)
      BY <2>1, <2>2 DEF ExportDone, ExportStops, Receive
    <3>3. ~(handleImport \/ ImportConfigured \/ SourceChunk \/ SourceEnds \/ SourceFails)
      BY <2>1 DEF handleImport, ImportConfigured, SourceChunk, SourceEnds, SourceFails, Receive
    <3>4. ~(saveLog \/ LogChunk \/ LogEnds \/ LogLost)
      BY <2>1 DEF saveLog, LogChunk, LogEnds, LogLost, Receive
    <3> QED BY <3>1, <3>2, <3>3, <3>4 DEF Transfer
  <2>5. ~(Written \/ WriteFails \/ ReadFails \/ Skip \/ ResponseEnds \/ FinishTimesOut \/ NextCommand
          \/ NextCommandStrays \/ Synced \/ SyncFails \/ UNCHANGED vars)
    BY <2>1 DEF Written, WriteFails, ReadFails, Skip, ResponseEnds, FinishTimesOut, NextCommand,
      NextCommandStrays, Synced, SyncFails, Receive, vars, Outcomes
  <2>6. ~(Misread \/ Server \/ SocketDies)
    BY <2>1 DEF Misread, Server, ServerStarts, ServerSends, ServerReceives, ServerDiscards, Arrives,
      SocketDies
  <2> QED BY <2>3, <2>4, <2>5, <2>6 DEF Next, Client
<1>2. /\ file[k] = "open" /\ queued[k] = 0 /\ file' = [file EXCEPT ![k] = "finished"]
      /\ UNCHANGED disk
  BY <1>1 DEF FileFinishes, ExportReturns
<1>3. file \in [Streams -> FileStates]
  BY DEF Exports, Counted
<1>4. queued[k] + disk[k] = taken /\ disk[k] \in Nat
  BY <1>1, <1>2 DEF Exports, Accounted, Taking, Unclosed, where
<1> QED BY <1>1, <1>2, <1>3, <1>4

\* An export that has a file ends with DONE only when every block the handler
\* has read of it is on disk (_consumeData and _finishExportStream of
\* src/external/ExternalTableHandler.ts).
THEOREM ExportsAreComplete == Spec => ExportComplete
<1>1. Exports /\ [Next]_vars =>
        [ReturnsDone => file'[writeStream] = "finished" /\ disk'[writeStream] = taken]_vars
  BY Finishes
<1> QED BY <1>1, ExportsInit, ExportsStep, PTL DEF Spec, ExportComplete
=============================================================================
