------------------------ MODULE NzConnection_proofs ------------------------
(***************************************************************************)
(* Proofs about NzConnection, for every number of commands and sessions    *)
(* and every choice of the switches.                                       *)
(***************************************************************************)
EXTENDS NzConnection, SequenceTheorems, TLAPS

(***************************************************************************)
(* The inductive invariant of the lock.  Exclusive execution alone is not  *)
(* inductive: that a command which has ended does not come back, and that  *)
(* a new one finds nobody busy, is known because only the command of the   *)
(* current generation may be busy, and only while _executing is set.       *)
(***************************************************************************)
Lock ==
    /\ executing \in BOOLEAN
    /\ commandGeneration \in 0..MaxCommands
    /\ phase \in [Commands -> Phases]
    /\ \A c \in Commands : phase[c] = "none" <=> c > commandGeneration
    /\ \A c \in Commands : Busy(c) => executing /\ c = commandGeneration
    /\ executing => commandGeneration \in Commands /\ Busy(commandGeneration)

LEMMA CommandsAreNumbers == Commands \subseteq Nat
BY BoundsAssumption DEF Commands

LEMMA LockInit == Init => Lock
<1> SUFFICES ASSUME Init PROVE Lock
  OBVIOUS
<1>1. /\ executing = FALSE
      /\ commandGeneration = 0
      /\ phase = [c \in Commands |-> "none"]
  BY DEF Init
<1>2. \A c \in Commands : c > 0
  BY BoundsAssumption DEF Commands
<1>3. 0 \in 0..MaxCommands
  BY BoundsAssumption
<1> QED
  BY <1>1, <1>2, <1>3 DEF Lock, Busy, Phases

\* A step that leaves the phases, the lock and the generation alone.
LEMMA LockKept ==
    ASSUME Lock, UNCHANGED <<executing, commandGeneration, phase>>
    PROVE  Lock'
BY DEF Lock, Busy

\* A busy command that moves to another busy phase keeps the lock.
LEMMA LockMoves ==
    ASSUME Lock, NEW c \in Commands, Busy(c),
           NEW p \in {"drain", "send", "wait", "open", "closing", "ended"},
           phase' = [phase EXCEPT ![c] = p],
           UNCHANGED <<executing, commandGeneration>>
    PROVE  Lock'
BY CommandsAreNumbers DEF Lock, Busy, Phases

\* A busy command that ends gives the lock back.
LEMMA LockReleased ==
    ASSUME Lock, NEW c \in Commands, Busy(c), Release(c), UNCHANGED commandGeneration
    PROVE  Lock'
BY CommandsAreNumbers DEF Lock, Busy, Phases, Release

\* A command that is let in takes the lock, which nobody has.
LEMMA LockTaken ==
    ASSUME Lock, NEW m, NEW t, Execute(m, t)
    PROVE  Lock'
<1> DEFINE c == commandGeneration + 1
<1>1. /\ c \in Commands
      /\ ~executing
      /\ executing' = TRUE
      /\ commandGeneration' = c
      /\ \E p \in {"send", "drain"} : phase' = [phase EXCEPT ![c] = p]
  BY DEF Execute
<1>2. PICK p \in {"send", "drain"} : phase' = [phase EXCEPT ![c] = p]
  BY <1>1
<1>3. c \in 0..MaxCommands /\ commandGeneration \in Nat
  BY <1>1, BoundsAssumption DEF Commands, Lock
<1>4. \A d \in Commands : ~Busy(d)
  BY <1>1 DEF Lock
<1>5. phase' \in [Commands -> Phases]
  BY <1>1, <1>2 DEF Lock, Phases
<1>6. \A d \in Commands : phase'[d] = IF d = c THEN p ELSE phase[d]
  BY <1>1, <1>2 DEF Lock
<1>7. \A d \in Commands : phase'[d] = "none" <=> d > c
  BY <1>1, <1>2, <1>3, <1>6, CommandsAreNumbers DEF Lock
<1>8. \A d \in Commands : Busy(d)' => d = c
  BY <1>4, <1>6 DEF Busy
<1>9. Busy(commandGeneration)'
  BY <1>1, <1>2, <1>6 DEF Busy
<1> QED
  BY <1>1, <1>3, <1>5, <1>7, <1>8, <1>9 DEF Lock, Busy

\* The response generator throws: the lock is released or stays with a
\* reader that is at its end.
LEMMA LockThrown ==
    ASSUME Lock, NEW c \in Commands, Reading(c), GeneratorThrows(c)
    PROVE  Lock'
<1>1. Busy(c) /\ UNCHANGED commandGeneration
  BY DEF Reading, Busy, GeneratorThrows
<1>2. CASE phase[c] = "open"
  <2>1. phase' = [phase EXCEPT ![c] = "ended"] /\ UNCHANGED executing
    BY <1>2 DEF GeneratorThrows
  <2> QED
    BY <1>1, <2>1, LockMoves
<1>3. CASE phase[c] # "open"
  <2>1. Release(c)
    BY <1>3 DEF GeneratorThrows
  <2> QED
    BY <1>1, <2>1, LockReleased
<1> QED
  BY <1>2, <1>3

LEMMA LockResponseEnds ==
    ASSUME Lock, NEW c \in Commands, ResponseEnds(c)
    PROVE  Lock'
<1>1. Busy(c) /\ UNCHANGED commandGeneration
  BY DEF Reading, Busy, ResponseEnds
<1>2. CASE phase[c] = "wait" /\ mode[c] = "reader" /\ c \notin failed
  <2>1. phase' = [phase EXCEPT ![c] = "ended"] /\ UNCHANGED executing
    BY <1>2 DEF ResponseEnds
  <2> QED
    BY <1>1, <2>1, LockMoves
<1>3. CASE ~(phase[c] = "wait" /\ mode[c] = "reader" /\ c \notin failed)
  <2>1. Release(c)
    BY <1>3 DEF ResponseEnds
  <2> QED
    BY <1>1, <2>1, LockReleased
<1> QED
  BY <1>2, <1>3

LEMMA LockProgress ==
    ASSUME Lock, NEW c \in Commands, Progress(c)
    PROVE  Lock'
<1>1. CASE Readable(c) \/ OrphanReadable(c)
  BY <1>1, LockKept DEF Readable, OrphanReadable, TakesArrived
<1>2. CASE Drain(c)
  <2>1. Busy(c) /\ UNCHANGED <<executing, commandGeneration>>
    BY <1>2 DEF Drain, Busy
  <2>2. \E p \in {"send", "drain"} : phase' = [phase EXCEPT ![c] = p]
    BY <1>2 DEF Drain, Lock
  <2> QED
    BY <2>1, <2>2, LockMoves
<1>3. CASE DrainFails(c)
  BY <1>3, LockReleased DEF DrainFails, Busy
<1>4. CASE Send(c)
  BY <1>4, LockMoves DEF Send, Busy
<1>5. CASE SendFails(c)
  BY <1>5, LockReleased DEF SendFails, Busy
<1>6. CASE Skip(c)
  BY <1>6, LockKept DEF Skip
<1>7. CASE HandOut(c)
  <2>1. Busy(c) /\ UNCHANGED <<executing, commandGeneration>>
    BY <1>7 DEF HandOut, HandsOut, Busy
  <2>2. \E p \in {"closing", "open"} : phase' = [phase EXCEPT ![c] = p]
    BY <1>7 DEF HandOut
  <2> QED
    BY <2>1, <2>2, LockMoves
<1>8. CASE SeeError(c)
  BY <1>8, LockKept DEF SeeError
<1>9. CASE ResponseEnds(c)
  BY <1>9, LockResponseEnds
<1>10. CASE ExternalTableFails(c)
  BY <1>10, LockThrown DEF ExternalTableFails
<1>11. CASE BadFrame(c)
  BY <1>11, LockThrown DEF BadFrame
<1>12. CASE ReadFails(c)
  BY <1>12, LockThrown DEF ReadFails
<1>13. CASE ReleaseReader(c)
  BY <1>13, LockReleased DEF ReleaseReader, Busy
<1> QED
  BY <1>1, <1>2, <1>3, <1>4, <1>5, <1>6, <1>7, <1>8, <1>9, <1>10, <1>11, <1>12,
     <1>13 DEF Progress

LEMMA LockCall ==
    ASSUME Lock, Call
    PROVE  Lock'
<1>1. CASE Connect
  BY <1>1, LockKept DEF Connect
<1>2. CASE CloseBegins
  BY <1>2, LockKept DEF CloseBegins
<1>3. CASE \E t \in ExecuteTexts : Execute("execute", t)
  BY <1>3, LockTaken
<1>4. CASE \E t \in ReaderTexts : Execute("reader", t)
  BY <1>4, LockTaken
<1>5. CASE ExecuteRefused
  BY <1>5, LockKept DEF ExecuteRefused
<1>6. CASE Cancel
  BY <1>6, LockKept DEF Cancel
<1>7. CASE \E c \in Commands : CloseReader(c)
  BY <1>7, LockMoves DEF CloseReader, Busy
<1> QED
  BY <1>1, <1>2, <1>3, <1>4, <1>5, <1>6, <1>7 DEF Call

LEMMA LockNext == Lock /\ [Next]_vars => Lock'
<1> SUFFICES ASSUME Lock, [Next]_vars PROVE Lock'
  OBVIOUS
<1>1. CASE Call
  BY <1>1, LockCall
<1>2. CASE ConnectSucceeds
  BY <1>2, LockKept DEF ConnectSucceeds
<1>3. CASE ConnectFails
  BY <1>3, LockKept DEF ConnectFails
<1>4. CASE SocketDies
  BY <1>4, LockKept DEF SocketDies
<1>5. CASE \E w \in 0..MaxCommands : CloseEnds(w)
  BY <1>5, LockKept DEF CloseEnds
<1>6. CASE \E c \in Commands : Progress(c)
  BY <1>6, LockProgress
<1>7. CASE \E c \in Commands : TimeOut(c)
  BY <1>7, LockKept DEF TimeOut
<1>8. CASE \E g \in 0..MaxCommands : CancelConnects(g)
  BY <1>8, LockKept DEF CancelConnects
<1>9. CASE \E g \in 0..MaxCommands : CancelFails(g)
  BY <1>9, LockKept DEF CancelFails
<1>10. CASE \E g \in 0..MaxCommands : ServerCancels(g)
  BY <1>10, LockKept DEF ServerCancels
<1>11. CASE Server
  BY <1>11, LockKept DEF Server, ServerRuns, ServerFails, ServerReady
<1>12. CASE UNCHANGED vars
  BY <1>12, LockKept DEF vars
<1> QED
  BY <1>1, <1>2, <1>3, <1>4, <1>5, <1>6, <1>7, <1>8, <1>9, <1>10, <1>11, <1>12
  DEF Next

LEMMA LockInvariant == Spec => []Lock
<1>1. QED
  BY LockInit, LockNext, PTL DEF Spec

LEMMA LockImplies == Lock => ExclusiveExecution /\ LockOwned
BY DEF Lock, ExclusiveExecution, LockOwned

(***************************************************************************)
(* Two commands never execute at once on a connection.                     *)
(***************************************************************************)
THEOREM Exclusive == Spec => []ExclusiveExecution
<1>1. Lock => ExclusiveExecution
  BY LockImplies
<1> QED
  BY <1>1, LockInvariant, PTL

(***************************************************************************)
(* _executing is set exactly while a command has to give it back.          *)
(***************************************************************************)
THEOREM LockIsOwned == Spec => []LockOwned
<1>1. Lock => LockOwned
  BY LockImplies
<1> QED
  BY <1>1, LockInvariant, PTL

-----------------------------------------------------------------------------
(***************************************************************************)
(* close() and the command in flight.  A command that has not settled is   *)
(* the active execution, so every close() that began since waits for it,   *)
(* and while one waits the socket is gone and no command is accepted.      *)
(* Without a command timeout executions are not tracked, and a refused     *)
(* call untracks the one in flight: then close() waits for nothing.        *)
(***************************************************************************)
Waits ==
    /\ \A c \in Commands : Unsettled(c) => stream /\ activeExecution = c
    /\ \A c \in Commands, w \in closers : Unsettled(c) => w = c
    /\ closers # {} => socket \in {"none", "destroyed"}
    /\ connected => socket = "open"

LEMMA WaitsInit == Init => Waits
BY DEF Init, Waits, Unsettled

LEMMA NoCommandIsNone == NoCommand \notin Commands
BY DEF NoCommand, Commands

\* A step after which no other command waits than before, and which leaves the
\* stream, the active execution and the closers alone.
LEMMA WaitsKept ==
    ASSUME Waits, UNCHANGED <<stream, activeExecution, closers>>,
           \A c \in Commands : Unsettled(c)' => Unsettled(c),
           closers # {} => socket' \in {"none", "destroyed"},
           connected' => socket' = "open"
    PROVE  Waits'
<1>1. \A c \in Commands : Unsettled(c)' => stream' /\ activeExecution' = c
  BY DEF Waits
<1>2. \A c \in Commands, w \in closers' : Unsettled(c)' => w = c
  BY DEF Waits
<1> QED
  BY <1>1, <1>2 DEF Waits

\* The only command that had not settled has settled.
LEMMA WaitsSettled ==
    ASSUME Waits, UNCHANGED <<stream, closers>>,
           \A c \in Commands : ~Unsettled(c)',
           closers # {} => socket' \in {"none", "destroyed"},
           connected' => socket' = "open"
    PROVE  Waits'
BY DEF Waits

\* A busy command that ends leaves no other behind.
LEMMA NoneUnsettled ==
    ASSUME Lock, NEW c \in Commands, Busy(c), NEW p \in {"open", "closing", "ended", "done"},
           phase' = [phase EXCEPT ![c] = p]
    PROVE  \A d \in Commands : ~Unsettled(d)'
<1>1. \A d \in Commands : phase'[d] = IF d = c THEN p ELSE phase[d]
  BY DEF Lock
<1>2. \A d \in Commands : d # c => ~Busy(d)
  BY DEF Lock
<1> QED
  BY <1>1, <1>2 DEF Busy, Unsettled

LEMMA WaitsThrown ==
    ASSUME Lock, Waits, NEW c \in Commands, Reading(c), GeneratorThrows(c),
           UNCHANGED stream,
           closers # {} => socket' \in {"none", "destroyed"},
           connected' => socket' = "open"
    PROVE  Waits'
<1>1. \E p \in {"ended", "done"} : phase' = [phase EXCEPT ![c] = p]
  BY DEF GeneratorThrows, Release
<1>2. Busy(c)
  BY DEF Reading, Busy
<1>3. \A d \in Commands : ~Unsettled(d)'
  BY <1>1, <1>2, NoneUnsettled
<1>4. UNCHANGED closers
  BY DEF GeneratorThrows, pending
<1> QED
  BY <1>3, <1>4, WaitsSettled

LEMMA FaultClosesSocket ==
    ASSUME Waits, Fault
    PROVE  /\ UNCHANGED stream
           /\ closers # {} => socket' \in {"none", "destroyed"}
           /\ connected' => socket' = "open"
BY DEF Waits, Fault

LEMMA FlagsKeepSocket ==
    ASSUME Waits, UNCHANGED flags
    PROVE  /\ UNCHANGED stream
           /\ closers # {} => socket' \in {"none", "destroyed"}
           /\ connected' => socket' = "open"
BY DEF Waits, flags

LEMMA WaitsExecute ==
    ASSUME Lock, Waits, CommandTimeout, NEW m, NEW t, Execute(m, t)
    PROVE  Waits'
<1> DEFINE c == commandGeneration + 1
<1>1. /\ c \in Commands /\ stream /\ connected /\ ~executing
      /\ activeExecution' = c
      /\ UNCHANGED <<socket, stream, connected, closers>>
      /\ \E p \in {"send", "drain"} : phase' = [phase EXCEPT ![c] = p]
  BY DEF Execute, CanExecute, flags, pending
<1>2. closers = {}
  BY <1>1 DEF Waits
<1>3. \A d \in Commands : d # c => ~Unsettled(d)'
  BY <1>1 DEF Lock, Busy, Unsettled
<1> QED
  BY <1>1, <1>2, <1>3 DEF Waits

LEMMA WaitsProgress ==
    ASSUME Lock, Waits, NEW c \in Commands, Progress(c)
    PROVE  Waits'
<1>1. CASE Readable(c) \/ OrphanReadable(c)
  BY <1>1, WaitsKept, FlagsKeepSocket
  DEF Readable, OrphanReadable, TakesArrived, pending, Unsettled
<1>2. CASE Drain(c)
  <2>1. UNCHANGED <<flags, activeExecution, closers>>
    BY <1>2 DEF Drain, NoFault, pending
  <2>2. \A d \in Commands : Unsettled(d)' => Unsettled(d)
    BY <1>2 DEF Drain, Unsettled, Lock
  <2> QED
    BY <2>1, <2>2, WaitsKept, FlagsKeepSocket
<1>3. CASE DrainFails(c)
  <2>1. Fault /\ UNCHANGED closers /\ Busy(c) /\ phase' = [phase EXCEPT ![c] = "done"]
    BY <1>3 DEF DrainFails, Release, pending, Busy
  <2> QED
    BY <2>1, NoneUnsettled, FaultClosesSocket, WaitsSettled
<1>4. CASE Send(c)
  <2>1. UNCHANGED <<flags, activeExecution, closers>>
    BY <1>4 DEF Send, pending
  <2>2. \A d \in Commands : Unsettled(d)' => Unsettled(d)
    BY <1>4 DEF Send, Unsettled, Lock
  <2> QED
    BY <2>1, <2>2, WaitsKept, FlagsKeepSocket
<1>5. CASE SendFails(c)
  <2>1. UNCHANGED <<flags, closers>> /\ Busy(c) /\ phase' = [phase EXCEPT ![c] = "done"]
    BY <1>5 DEF SendFails, NoFault, Release, pending, Busy
  <2> QED
    BY <2>1, NoneUnsettled, FlagsKeepSocket, WaitsSettled
<1>6. CASE Skip(c)
  BY <1>6, WaitsKept, FlagsKeepSocket DEF Skip, NoFault, pending, Unsettled
<1>7. CASE HandOut(c)
  <2>1. /\ UNCHANGED <<flags, closers>> /\ Busy(c)
        /\ \E p \in {"closing", "open"} : phase' = [phase EXCEPT ![c] = p]
    BY <1>7 DEF HandOut, HandsOut, NoFault, pending, Busy
  <2> QED
    BY <2>1, NoneUnsettled, FlagsKeepSocket, WaitsSettled
<1>8. CASE SeeError(c)
  BY <1>8, WaitsKept, FlagsKeepSocket DEF SeeError, NoFault, pending, Unsettled
<1>9. CASE ResponseEnds(c)
  <2>1. /\ UNCHANGED <<flags, closers>> /\ Busy(c)
        /\ \E p \in {"ended", "done"} : phase' = [phase EXCEPT ![c] = p]
    BY <1>9 DEF ResponseEnds, Release, Reading, NoFault, pending, Busy
  <2> QED
    BY <2>1, NoneUnsettled, FlagsKeepSocket, WaitsSettled
<1>10. CASE ExternalTableFails(c)
  BY <1>10, WaitsThrown, FlagsKeepSocket DEF ExternalTableFails, NoFault
<1>11. CASE BadFrame(c)
  BY <1>11, WaitsThrown, FaultClosesSocket DEF BadFrame
<1>12. CASE ReadFails(c)
  BY <1>12, WaitsThrown, FlagsKeepSocket DEF ReadFails, NoFault
<1>13. CASE ReleaseReader(c)
  <2>1. UNCHANGED <<flags, activeExecution, closers>>
    BY <1>13 DEF ReleaseReader, NoFault, pending
  <2>2. \A d \in Commands : Unsettled(d)' => Unsettled(d)
    BY <1>13 DEF ReleaseReader, Release, Unsettled, Lock
  <2> QED
    BY <2>1, <2>2, WaitsKept, FlagsKeepSocket
<1> QED
  BY <1>1, <1>2, <1>3, <1>4, <1>5, <1>6, <1>7, <1>8, <1>9, <1>10, <1>11, <1>12,
     <1>13 DEF Progress

LEMMA WaitsCloseBegins ==
    ASSUME Waits, CloseBegins
    PROVE  Waits'
<1>1. /\ closers' = closers \cup {activeExecution}
      /\ UNCHANGED <<stream, activeExecution, phase>>
      /\ socket' \in {"none", "destroyed"}
      /\ ~connected'
  BY DEF CloseBegins, flags, Waits
<1>2. \A c \in Commands : (Unsettled(c)' <=> Unsettled(c))
  BY <1>1 DEF Unsettled
<1> QED
  BY <1>1, <1>2 DEF Waits

LEMMA WaitsCloseEnds ==
    ASSUME Waits, NEW w, CloseEnds(w)
    PROVE  Waits'
<1>1. \A c \in Commands : ~Unsettled(c)
  BY NoCommandIsNone DEF CloseEnds, Waits
<1>2. /\ UNCHANGED phase /\ socket' = "none" /\ ~connected'
  BY DEF CloseEnds
<1>3. \A c \in Commands : ~Unsettled(c)'
  BY <1>1, <1>2 DEF Unsettled
<1> QED
  BY <1>2, <1>3 DEF Waits

LEMMA WaitsCall ==
    ASSUME Lock, Waits, CommandTimeout, ~Refusals, Call
    PROVE  Waits'
<1>1. CASE Connect
  BY <1>1, WaitsKept DEF Connect, Waits, pending, Unsettled
<1>2. CASE CloseBegins
  BY <1>2, WaitsCloseBegins
<1>3. CASE \E t \in ExecuteTexts : Execute("execute", t)
  BY <1>3, WaitsExecute
<1>4. CASE \E t \in ReaderTexts : Execute("reader", t)
  BY <1>4, WaitsExecute
<1>5. CASE ExecuteRefused
  BY <1>5 DEF ExecuteRefused
<1>6. CASE Cancel
  BY <1>6, WaitsKept, FlagsKeepSocket DEF Cancel, Unsettled
<1>7. CASE \E c \in Commands : CloseReader(c)
  <2>1. PICK c \in Commands : CloseReader(c)
    BY <1>7
  <2>2. UNCHANGED <<flags, activeExecution, closers>>
    BY <2>1 DEF CloseReader, NoFault, pending
  <2>3. \A d \in Commands : Unsettled(d)' => Unsettled(d)
    BY <2>1 DEF CloseReader, Unsettled, Lock
  <2> QED
    BY <2>2, <2>3, WaitsKept, FlagsKeepSocket
<1> QED
  BY <1>1, <1>2, <1>3, <1>4, <1>5, <1>6, <1>7 DEF Call

LEMMA WaitsNext ==
    ASSUME CommandTimeout, ~Refusals
    PROVE  Lock /\ Waits /\ [Next]_vars => Waits'
<1> SUFFICES ASSUME Lock, Waits, [Next]_vars PROVE Waits'
  OBVIOUS
<1>1. CASE Call
  BY <1>1, WaitsCall
<1>2. CASE ConnectSucceeds
  BY <1>2 DEF ConnectSucceeds, Waits, pending, Unsettled
<1>3. CASE ConnectFails
  <2>1. /\ UNCHANGED <<connected, activeExecution, phase, closers>>
        /\ socket = "connecting" /\ socket' = "destroyed" /\ stream' \in {stream, TRUE}
    BY <1>3 DEF ConnectFails, pending
  <2>2. stream' = stream \/ stream' = TRUE
    BY <2>1, Zenon
  <2>3. \A c \in Commands : (Unsettled(c)' <=> Unsettled(c))
    BY <2>1 DEF Unsettled
  <2>4. ASSUME NEW c \in Commands, Unsettled(c)' PROVE stream' /\ activeExecution' = c
    <3>1. stream /\ activeExecution = c
      BY <2>3, <2>4 DEF Waits
    <3>2. stream'
      BY <2>2, <3>1, Zenon
    <3> QED
      BY <2>1, <3>1, <3>2
  <2>5. \A c \in Commands, w \in closers' : Unsettled(c)' => w = c
    BY <2>1, <2>3 DEF Waits
  <2>6. ~connected'
    BY <2>1 DEF Waits
  <2> QED
    BY <2>1, <2>4, <2>5, <2>6 DEF Waits
<1>4. CASE SocketDies
  BY <1>4, WaitsKept DEF SocketDies, pending, Unsettled
<1>5. CASE \E w \in 0..MaxCommands : CloseEnds(w)
  BY <1>5, WaitsCloseEnds
<1>6. CASE \E c \in Commands : Progress(c)
  BY <1>6, WaitsProgress
<1>7. CASE \E c \in Commands : TimeOut(c)
  BY <1>7, WaitsKept, FlagsKeepSocket DEF TimeOut, Unsettled
<1>8. CASE \E g \in 0..MaxCommands : CancelConnects(g)
  BY <1>8, WaitsKept, FlagsKeepSocket DEF CancelConnects, Unsettled
<1>9. CASE \E g \in 0..MaxCommands : CancelFails(g)
  BY <1>9, WaitsKept, FlagsKeepSocket DEF CancelFails, Unsettled
<1>10. CASE \E g \in 0..MaxCommands : ServerCancels(g)
  BY <1>10, WaitsKept, FlagsKeepSocket DEF ServerCancels, Unsettled
<1>11. CASE Server
  BY <1>11, WaitsKept, FlagsKeepSocket
  DEF Server, ServerRuns, ServerFails, ServerReady, pending, Unsettled
<1>12. CASE UNCHANGED vars
  BY <1>12, WaitsKept, FlagsKeepSocket DEF vars, pending, Unsettled
<1> QED
  BY <1>1, <1>2, <1>3, <1>4, <1>5, <1>6, <1>7, <1>8, <1>9, <1>10, <1>11, <1>12
  DEF Next

(***************************************************************************)
(* With a command timeout, and for callers that issue one command at a     *)
(* time, close() takes the stream away from no command in flight.          *)
(***************************************************************************)
THEOREM StreamAlwaysKept ==
    ASSUME CommandTimeout, ~Refusals
    PROVE  Spec => []StreamKept
<1>1. Lock /\ Waits /\ [Next]_vars => Waits'
  BY WaitsNext
<1>2. Waits => StreamKept
  BY DEF Waits, StreamKept
<1> QED
  BY <1>1, <1>2, WaitsInit, LockInvariant, PTL DEF Spec

-----------------------------------------------------------------------------
(***************************************************************************)
(* Sequences of messages: whose they are, and where a ReadyForQuery stands. *)
(***************************************************************************)
OfOnly(s, c) == \A i \in 1..Len(s) : s[i].cmd = c
ReadyLast(s) == \A i \in 1..Len(s) : s[i].kind = "ready" => i = Len(s)
NoReady(s) == \A i \in 1..Len(s) : s[i].kind # "ready"

LEMMA EmptyMessages ==
    ASSUME NEW s, s = <<>>
    PROVE  /\ s \in Seq(Messages)
           /\ \A c : OfOnly(s, c)
           /\ ReadyLast(s) /\ NoReady(s)
BY SMT DEF OfOnly, ReadyLast, NoReady

LEMMA TailMessages ==
    ASSUME NEW s \in Seq(Messages), s # <<>>
    PROVE  /\ Tail(s) \in Seq(Messages)
           /\ \A c : OfOnly(s, c) => OfOnly(Tail(s), c)
           /\ ReadyLast(s) => ReadyLast(Tail(s))
           /\ NoReady(s) => NoReady(Tail(s))
           /\ ReadyLast(s) /\ s[1].kind = "ready" => Tail(s) = <<>> /\ ~NoReady(s)
<1>1. /\ Tail(s) \in Seq(Messages) /\ Len(s) \in Nat \ {0} /\ Len(Tail(s)) = Len(s) - 1
      /\ \A i \in 1..Len(Tail(s)) : i + 1 \in 1..Len(s) /\ Tail(s)[i] = s[i + 1]
  BY SMT
<1>2. ASSUME NEW i \in 1..Len(Tail(s)), i + 1 = Len(s) PROVE i = Len(Tail(s))
  <2>1. Len(Tail(s)) = Len(s) - 1 /\ Len(s) \in Int /\ i \in Int
    BY <1>1
  <2> QED
    BY <1>2, <2>1
<1>3. 1 \in 1..Len(s) /\ (Len(s) = 1 => Tail(s) = <<>>)
  <2>1. Len(Tail(s)) = 0 => Tail(s) = <<>>
    BY <1>1, EmptySeq
  <2> QED
    BY <1>1, <2>1
<1>4. \A c : OfOnly(s, c) => OfOnly(Tail(s), c)
  BY <1>1, Zenon DEF OfOnly
<1>5. ReadyLast(s) => ReadyLast(Tail(s))
  BY <1>1, <1>2, Zenon DEF ReadyLast
<1>6. NoReady(s) => NoReady(Tail(s))
  BY <1>1, Zenon DEF NoReady
<1>7. ReadyLast(s) /\ s[1].kind = "ready" => Len(s) = 1 /\ ~NoReady(s)
  BY <1>3, Zenon DEF ReadyLast, NoReady
<1> QED
  BY <1>1, <1>3, <1>4, <1>5, <1>6, <1>7

LEMMA JoinedMessages ==
    ASSUME NEW s \in Seq(Messages), NEW t \in Seq(Messages)
    PROVE  /\ s \o t \in Seq(Messages)
           /\ \A c : OfOnly(s, c) /\ OfOnly(t, c) => OfOnly(s \o t, c)
           /\ NoReady(s) /\ NoReady(t) => NoReady(s \o t)
           /\ NoReady(s) /\ ReadyLast(t) => ReadyLast(s \o t)
<1> DEFINE u == s \o t
<1>1. /\ u \in Seq(Messages) /\ Len(s) \in Nat /\ Len(t) \in Nat /\ Len(u) = Len(s) + Len(t)
      /\ \A i \in 1..Len(s) + Len(t) : u[i] = IF i <= Len(s) THEN s[i] ELSE t[i - Len(s)]
  BY ConcatProperties
<1> HIDE DEF u
<1>2. ASSUME NEW i \in 1..Len(u)
      PROVE  \/ i \in 1..Len(s) /\ u[i] = s[i]
             \/ /\ i - Len(s) \in 1..Len(t) /\ u[i] = t[i - Len(s)]
                /\ i - Len(s) = Len(t) => i = Len(u)
  <2>1. i \in 1..Len(s) + Len(t)
    BY <1>1
  <2>2. u[i] = IF i <= Len(s) THEN s[i] ELSE t[i - Len(s)]
    BY <1>1, <2>1, Zenon
  <2>3. CASE i <= Len(s)
    BY <1>1, <2>1, <2>2, <2>3
  <2>4. CASE ~(i <= Len(s))
    BY <1>1, <2>1, <2>2, <2>4
  <2> QED
    BY <2>3, <2>4
<1>3. \A c : OfOnly(s, c) /\ OfOnly(t, c) => OfOnly(u, c)
  BY <1>2, Zenon DEF OfOnly
<1>4. NoReady(s) /\ NoReady(t) => NoReady(u)
  BY <1>2, Zenon DEF NoReady
<1>5. NoReady(s) /\ ReadyLast(t) => ReadyLast(u)
  BY <1>2, Zenon DEF NoReady, ReadyLast
<1> QED
  BY <1>1, <1>3, <1>4, <1>5 DEF u

\* What has arrived and what has not.
LEMMA SplitMessages ==
    ASSUME NEW s \in Seq(Messages), NEW k \in 0..Len(s)
    PROVE  /\ SubSeq(s, 1, k) \in Seq(Messages) /\ SubSeq(s, k + 1, Len(s)) \in Seq(Messages)
           /\ \A c : OfOnly(s, c) => /\ OfOnly(SubSeq(s, 1, k), c)
                                     /\ OfOnly(SubSeq(s, k + 1, Len(s)), c)
           /\ NoReady(s) => NoReady(SubSeq(s, 1, k)) /\ NoReady(SubSeq(s, k + 1, Len(s)))
           /\ ReadyLast(s) =>
                /\ ReadyLast(SubSeq(s, 1, k)) /\ ReadyLast(SubSeq(s, k + 1, Len(s)))
                /\ NoReady(SubSeq(s, 1, k)) \/ SubSeq(s, k + 1, Len(s)) = <<>>
<1> DEFINE t == SubSeq(s, 1, k)
           u == SubSeq(s, k + 1, Len(s))
<1>1. /\ t \in Seq(Messages) /\ Len(t) = k
      /\ \A i \in 1..k : i \in 1..Len(s) /\ t[i] = s[i]
  BY SMT
<1>2. u \in Seq(Messages) /\ Len(u) = Len(s) - k
  BY SMT
<1>3. \A i \in 1..Len(u) : i + k \in 1..Len(s) /\ u[i] = s[i + k] /\ (i + k = Len(s) => i = Len(u))
  BY <1>2, SMT
<1> HIDE DEF t, u
<1>4. \A i \in 1..Len(t) : i \in 1..Len(s) /\ t[i] = s[i] /\ (i = Len(s) => i = Len(t) /\ u = <<>>)
  BY <1>1, <1>2, SMT
<1>5. \A c : OfOnly(s, c) => OfOnly(t, c) /\ OfOnly(u, c)
  BY <1>3, <1>4, Zenon DEF OfOnly
<1>6. NoReady(s) => NoReady(t) /\ NoReady(u)
  BY <1>3, <1>4, Zenon DEF NoReady
<1>7. ReadyLast(s) => ReadyLast(t) /\ ReadyLast(u) /\ (NoReady(t) \/ u = <<>>)
  BY <1>3, <1>4, Zenon DEF ReadyLast, NoReady
<1> QED
  BY <1>1, <1>2, <1>5, <1>6, <1>7 DEF t, u

\* What the server says in one go.
LEMMA SaidMessages ==
    ASSUME NEW c \in Commands, NEW kinds \in Seq(Kinds), NEW t,
           t = [i \in DOMAIN kinds |-> [cmd |-> c, kind |-> kinds[i]]]
    PROVE  /\ t \in Seq(Messages) /\ OfOnly(t, c)
           /\ (\A i \in 1..Len(kinds) : kinds[i] # "ready") => NoReady(t)
           /\ Len(kinds) = 1 => ReadyLast(t)
<1>1. DOMAIN kinds = 1..Len(kinds) /\ Len(kinds) \in Nat /\ \A i \in 1..Len(kinds) : kinds[i] \in Kinds
  BY SMT
<1>2. t = [i \in 1..Len(kinds) |-> [cmd |-> c, kind |-> kinds[i]]]
  BY <1>1
<1>3. \A i \in 1..Len(kinds) : [cmd |-> c, kind |-> kinds[i]] \in Messages
  BY <1>1 DEF Messages
<1>4. /\ t \in Seq(Messages) /\ Len(t) = Len(kinds)
      /\ \A i \in 1..Len(t) : t[i] = [cmd |-> c, kind |-> kinds[i]]
  BY <1>1, <1>2, <1>3, SMT
<1>5. \A i \in 1..Len(t) : t[i].cmd = c /\ t[i].kind = kinds[i]
  BY <1>4
<1>6. OfOnly(t, c)
  BY <1>5 DEF OfOnly
<1>7. (\A i \in 1..Len(kinds) : kinds[i] # "ready") => NoReady(t)
  BY <1>4, <1>5 DEF NoReady
<1>8. Len(kinds) = 1 => ReadyLast(t)
  BY <1>4, SMT DEF ReadyLast
<1> QED
  BY <1>4, <1>6, <1>7, <1>8

-----------------------------------------------------------------------------
(***************************************************************************)
(* Whose responses are on their way.  While no command reads there is       *)
(* nothing to come, because a response ends in its ReadyForQuery, or with   *)
(* the session; and while one reads, everything belongs to it.  What an     *)
(* earlier command has left in the buffer is drained before a query is      *)
(* written. A local failure of an external table ends a command without    *)
(* ending its response, and is excluded.                                    *)
(***************************************************************************)
Quiet == \A c \in Commands : ~Reading(c)

Silent == wire = <<>> /\ queries = <<>>

Typed ==
    /\ buffer \in Seq(Messages) /\ wire \in Seq(Messages)
    /\ queries \in Seq([cmd : Commands, rest : Seq(Statements)])
    /\ Len(queries) <= 1
    /\ text \in [Commands -> Texts]

Orderly ==
    /\ ReadyLast(buffer) /\ ReadyLast(wire)
    /\ NoReady(buffer) \/ Silent
    /\ NoReady(wire) \/ queries = <<>>

Sockets ==
    /\ socket = "open" => stream
    /\ socket # "open" => Silent
    /\ closers # {} => socket \in {"none", "destroyed"}

Owned ==
    /\ Quiet => Silent
    /\ \A c \in Commands : Reading(c) =>
          OfOnly(buffer, c) /\ OfOnly(wire, c) /\ OfOnly(queries, c)
    /\ \A c \in Commands : phase[c] = "send" => buffer = <<>>

Responses == Typed /\ Orderly /\ Sockets /\ Owned

LEMMA ResponsesInit == Init => Responses
<1> SUFFICES ASSUME Init PROVE Responses
  OBVIOUS
<1>1. /\ buffer = <<>> /\ wire = <<>> /\ queries = <<>> /\ socket = "none" /\ closers = {}
      /\ phase = [c \in Commands |-> "none"] /\ text = [c \in Commands |-> "query"]
  BY DEF Init
<1>2. \A c \in Commands : ~Reading(c) /\ phase[c] # "send"
  BY <1>1 DEF Reading
<1>3. Typed
  BY <1>1, EmptyMessages, SMT DEF Typed, Texts
<1>4. Orderly
  BY <1>1, EmptyMessages DEF Orderly, Silent
<1> QED
  BY <1>1, <1>2, <1>3, <1>4 DEF Responses, Sockets, Owned, Quiet, Silent

\* A step that touches nothing of this.
LEMMA ResponsesKept ==
    ASSUME Responses,
           UNCHANGED <<buffer, wire, queries, text, socket, stream, closers, phase>>
    PROVE  Responses'
BY DEF Responses, Typed, Orderly, Sockets, Owned, Quiet, Silent, Reading, ReadyLast, NoReady, OfOnly

\* The session ends: what was on its way is lost, what is buffered stays, or
\* becomes a fragment.
LEMMA ResponsesLost ==
    ASSUME Lock, Responses, SessionLost, FragmentLeft, UNCHANGED <<text, phase>>, Sockets'
    PROVE  Responses'
<1>1. Silent'
  BY DEF SessionLost, Silent
<1>2. \A c \in Commands : (Reading(c)' <=> Reading(c)) /\ phase'[c] = phase[c]
  BY DEF Reading
<1>3. wire' \in Seq(Messages) /\ ReadyLast(wire') /\ NoReady(wire') /\ \A c : OfOnly(wire', c)
  BY <1>1, EmptyMessages DEF Silent
<1>4. /\ queries' \in Seq([cmd : Commands, rest : Seq(Statements)])
      /\ Len(queries') <= 1 /\ \A c : OfOnly(queries', c)
  BY <1>1, SMT DEF Silent, OfOnly
<1>5. CASE UNCHANGED buffer
  BY <1>1, <1>2, <1>3, <1>4, <1>5, Zenon DEF Responses, Typed, Orderly, Owned, Quiet
<1>6. CASE wire # <<>> /\ buffer' = Append(buffer, [cmd |-> wire[1].cmd, kind |-> "fragment"])
  <2> DEFINE m == [cmd |-> wire[1].cmd, kind |-> "fragment"]
  <2>1. PICK c \in Commands : Reading(c)
    BY <1>6 DEF Responses, Owned, Quiet, Silent
  <2>2. wire[1].cmd = c
    BY <1>6, <2>1 DEF Responses, Owned, Typed, OfOnly
  <2>3. <<m>> \in Seq(Messages) /\ OfOnly(<<m>>, c) /\ NoReady(<<m>>) /\ ReadyLast(<<m>>)
    BY <2>2, SMT DEF OfOnly, NoReady, ReadyLast, Messages, Kinds
  <2>4. buffer' = buffer \o <<m>>
    <3>1. m \in Messages
      BY <2>2 DEF Messages, Kinds
    <3> QED
      BY <1>6, <3>1, AppendIsConcat DEF Responses, Typed
  <2>5. buffer \in Seq(Messages) /\ OfOnly(buffer, c) /\ NoReady(buffer)
    BY <1>6, <2>1 DEF Responses, Typed, Owned, Orderly, Silent
  <2>6. buffer' \in Seq(Messages) /\ OfOnly(buffer', c) /\ NoReady(buffer') /\ ReadyLast(buffer')
    BY <2>3, <2>4, <2>5, JoinedMessages
  <2>7. \A d \in Commands : (Reading(d) => d = c) /\ phase[d] # "send"
    BY <2>1 DEF Reading, Lock, Busy
  <2> QED
    BY <1>1, <1>2, <1>3, <1>4, <2>6, <2>7, Zenon DEF Responses, Typed, Orderly, Owned, Quiet
<1> QED
  BY <1>5, <1>6 DEF FragmentLeft

\* A command ends, and nothing is left on its way.
LEMMA ResponsesOver ==
    ASSUME Lock, Responses, NEW c \in Commands, Busy(c), NEW p \in {"ended", "done"},
           phase' = [phase EXCEPT ![c] = p], UNCHANGED text, Silent', Sockets',
           buffer' = buffer \/ (buffer # <<>> /\ buffer' = Tail(buffer))
    PROVE  Responses'
<1>1. \A d \in Commands : ~Reading(d)' /\ phase'[d] # "send"
  BY DEF Lock, Busy, Reading
<1>2. wire' \in Seq(Messages) /\ ReadyLast(wire') /\ NoReady(wire')
  BY EmptyMessages DEF Silent
<1>3. queries' \in Seq([cmd : Commands, rest : Seq(Statements)]) /\ Len(queries') <= 1
  BY SMT DEF Silent
<1>4. buffer' \in Seq(Messages) /\ ReadyLast(buffer')
  BY TailMessages DEF Responses, Typed, Orderly
<1> QED
  BY <1>1, <1>2, <1>3, <1>4, Zenon DEF Responses, Typed, Orderly, Owned, Quiet

\* A message is consumed that is not the last of its response.
LEMMA ResponsesConsumed ==
    ASSUME Responses, buffer # <<>>, Consume, UNCHANGED <<text, wire, queries>>, Sockets',
           \A c \in Commands : (Reading(c)' <=> Reading(c)) /\ (phase'[c] = "send" => phase[c] = "send")
    PROVE  Responses'
<1>1. /\ buffer' \in Seq(Messages) /\ ReadyLast(buffer') /\ (NoReady(buffer) => NoReady(buffer'))
      /\ \A c : OfOnly(buffer, c) => OfOnly(buffer', c)
  BY TailMessages DEF Responses, Typed, Orderly, Consume
<1>2. \A c \in Commands : phase'[c] # "send"
  BY DEF Responses, Owned
<1> QED
  BY <1>1, <1>2, Zenon DEF Responses, Typed, Orderly, Owned, Quiet, Silent

LEMMA FlagsKeepSockets ==
    ASSUME Responses, UNCHANGED <<flags, wire, queries, closers>>
    PROVE  Sockets' /\ (Silent' <=> Silent)
BY DEF Responses, Sockets, Silent, flags

LEMMA FaultSilences ==
    ASSUME Responses, Fault, UNCHANGED closers
    PROVE  Sockets' /\ Silent'
BY DEF Responses, Sockets, Fault, SessionLost, Silent

\* The commands that are not busy neither read nor are about to send.
LEMMA OnlyOneReads ==
    ASSUME Lock, NEW c \in Commands, Busy(c)
    PROVE  \A d \in Commands : d # c => ~Reading(d) /\ phase[d] # "send"
BY DEF Lock, Busy, Reading

LEMMA ResponsesExecute ==
    ASSUME Lock, Responses, NEW m, NEW t \in Texts, Execute(m, t)
    PROVE  Responses'
<1> DEFINE c == commandGeneration + 1
<1>1. /\ c \in Commands /\ ~executing
      /\ \E k \in 0..Len(wire) : Pull(k)
      /\ phase' = [phase EXCEPT ![c] = IF buffer' = <<>> THEN "send" ELSE "drain"]
      /\ text' = [text EXCEPT ![c] = t]
      /\ UNCHANGED <<flags, closers, queries>>
  BY DEF Execute, pending, server
<1>2. Quiet /\ \A d \in Commands : phase[d] # "send"
  BY <1>1 DEF Lock, Busy, Reading, Quiet
<1>3. wire = <<>> /\ queries = <<>>
  BY <1>2 DEF Responses, Owned, Silent
<1>4. wire' = <<>> /\ buffer' = buffer
  <2>1. PICK k \in 0..Len(wire) : Pull(k)
    BY <1>1
  <2>2. k = 0
    BY <1>3, <2>1, SMT
  <2>3. SubSeq(wire, 1, k) = <<>> /\ SubSeq(wire, k + 1, Len(wire)) = <<>>
    BY <1>3, <2>2, SMT
  <2>4. buffer \o <<>> = buffer
    BY SMT DEF Responses, Typed
  <2> QED
    BY <2>1, <2>3, <2>4, Zenon DEF Pull
<1>5. Sockets' /\ Silent'
  BY <1>1, <1>3, <1>4, FlagsKeepSockets DEF Silent
<1>6. \A d \in Commands : ~Reading(d)' /\ (phase'[d] = "send" => buffer' = <<>>)
  BY <1>1, <1>2 DEF Quiet, Reading, Lock
<1>7. text' \in [Commands -> Texts]
  BY <1>1 DEF Responses, Typed
<1> QED
  BY <1>1, <1>3, <1>4, <1>5, <1>6, <1>7, Zenon DEF Responses, Typed, Orderly, Owned, Quiet

LEMMA ResponsesReadable ==
    ASSUME Responses, NEW c \in Commands, Lock, Readable(c)
    PROVE  Responses'
<1>1. /\ Reading(c) /\ buffer = <<>>
      /\ UNCHANGED <<flags, closers, queries, phase, text>>
  BY DEF Readable, TakesArrived, pending, server, locals
<1>2. PICK k \in 1..Len(wire) : Pull(k)
  BY DEF Readable, TakesArrived
<1>3. /\ wire \in Seq(Messages) /\ ReadyLast(wire) /\ OfOnly(wire, c) /\ OfOnly(queries, c)
      /\ NoReady(wire) \/ queries = <<>>
  BY <1>1 DEF Responses, Typed, Owned, Orderly
<1>4. /\ SubSeq(wire, 1, k) \in Seq(Messages) /\ wire' \in Seq(Messages)
      /\ OfOnly(SubSeq(wire, 1, k), c) /\ OfOnly(wire', c)
      /\ ReadyLast(SubSeq(wire, 1, k)) /\ ReadyLast(wire')
      /\ NoReady(wire) => NoReady(SubSeq(wire, 1, k)) /\ NoReady(wire')
      /\ NoReady(SubSeq(wire, 1, k)) \/ wire' = <<>>
  <2>1. k \in 0..Len(wire) /\ wire' = SubSeq(wire, k + 1, Len(wire))
    BY <1>2 DEF Pull
  <2> QED
    BY <1>3, <2>1, SplitMessages
<1>5. buffer' = SubSeq(wire, 1, k)
  <2>1. <<>> \o SubSeq(wire, 1, k) = SubSeq(wire, 1, k)
    BY <1>4, SMT
  <2> QED
    BY <1>1, <1>2, <2>1 DEF Pull
<1>6. socket = "open"
  BY DEF Readable, TakesArrived
<1>7. Sockets'
  BY <1>1, <1>6 DEF Sockets, Responses, flags
<1>8. Orderly'
  BY <1>1, <1>3, <1>4, <1>5, Zenon DEF Orderly, Silent
<1>9. Typed'
  BY <1>1, <1>4, <1>5 DEF Typed, Responses
<1>10. \A d \in Commands : (Reading(d)' => d = c) /\ phase'[d] # "send"
  BY <1>1 DEF Reading, Lock, Busy
<1>11. Reading(c)'
  BY <1>1 DEF Reading
<1>12. Owned'
  BY <1>1, <1>3, <1>4, <1>5, <1>10, <1>11, Zenon DEF Owned, Quiet
<1> QED
  BY <1>7, <1>8, <1>9, <1>12 DEF Responses

LEMMA ResponsesSend ==
    ASSUME Responses, NEW c \in Commands, Lock, Send(c)
    PROVE  Responses'
<1>1. /\ phase[c] = "send" /\ socket = "open"
      /\ phase' = [phase EXCEPT ![c] = "wait"]
      /\ queries' = Append(queries, [cmd |-> c, rest |-> Script(text[c])])
      /\ UNCHANGED <<flags, closers, buffer, wire, text>>
  BY DEF Send, pending, locals
<1>2. Busy(c) /\ \A d \in Commands : ~Reading(d)
  BY <1>1, OnlyOneReads DEF Busy, Reading
<1>3. buffer = <<>> /\ wire = <<>> /\ queries = <<>>
  BY <1>1, <1>2 DEF Responses, Owned, Silent, Quiet
<1>4. Script(text[c]) \in Seq(Statements)
  <2>1. text[c] \in Texts
    BY DEF Responses, Typed
  <2>2. CASE text[c] = "query"
    BY <2>2, SMT DEF Script, Statements
  <2>3. CASE text[c] = "begin"
    BY <2>3, SMT DEF Script, Statements
  <2>4. CASE text[c] = "end"
    BY <2>4, SMT DEF Script, Statements
  <2>5. CASE text[c] = "batch"
    BY <2>5, SMT DEF Script, Statements
  <2> QED
    BY <2>1, <2>2, <2>3, <2>4, <2>5 DEF Texts
<1> DEFINE q == [cmd |-> c, rest |-> Script(text[c])]
<1>5. q \in [cmd : Commands, rest : Seq(Statements)] /\ q.cmd = c
  BY <1>4
<1> HIDE DEF q
<1>6. queries' = <<q>>
  BY <1>1, <1>3, SMT DEF q
<1>7. /\ queries' \in Seq([cmd : Commands, rest : Seq(Statements)]) /\ Len(queries') <= 1
      /\ OfOnly(queries', c)
  BY <1>5, <1>6, SMT DEF OfOnly
<1>8. /\ buffer' \in Seq(Messages) /\ ReadyLast(buffer') /\ NoReady(buffer') /\ OfOnly(buffer', c)
      /\ wire' \in Seq(Messages) /\ ReadyLast(wire') /\ NoReady(wire') /\ OfOnly(wire', c)
  BY <1>1, <1>3, EmptyMessages
<1>9. \A d \in Commands : (Reading(d)' => d = c) /\ phase'[d] # "send"
  BY <1>1, <1>2, OnlyOneReads DEF Reading, Lock
<1>10. Reading(c)'
  BY <1>1 DEF Reading, Lock
<1>11. Sockets'
  BY <1>1 DEF Responses, Sockets, flags
<1>12. Typed' /\ Orderly'
  BY <1>1, <1>7, <1>8 DEF Responses, Typed, Orderly
<1>13. Owned'
  BY <1>7, <1>8, <1>9, <1>10, Zenon DEF Owned, Quiet
<1> QED
  BY <1>11, <1>12, <1>13 DEF Responses

LEMMA ResponsesThrown ==
    ASSUME Lock, Responses, NEW c \in Commands, Reading(c), GeneratorThrows(c), Silent', Sockets',
           buffer' = buffer \/ (buffer # <<>> /\ buffer' = Tail(buffer))
    PROVE  Responses'
<1>1. \E p \in {"ended", "done"} : phase' = [phase EXCEPT ![c] = p]
  BY DEF GeneratorThrows, Release
<1>2. Busy(c) /\ UNCHANGED text
  BY DEF Reading, Busy, GeneratorThrows, locals
<1> QED
  BY <1>1, <1>2, ResponsesOver

LEMMA ResponsesProgress ==
    ASSUME ~LocalFailures, Lock, Responses, NEW c \in Commands, Progress(c)
    PROVE  Responses'
<1>1. CASE Readable(c)
  BY <1>1, ResponsesReadable
<1>2. CASE OrphanReadable(c)
  <2>1. phase[c] = "drain" /\ wire # <<>>
    BY <1>2, SMT DEF OrphanReadable, TakesArrived
  <2>2. Busy(c) /\ ~Reading(c)
    BY <2>1 DEF Busy, Reading
  <2>3. Quiet
    BY <2>2, OnlyOneReads DEF Quiet
  <2> QED
    BY <2>1, <2>3 DEF Responses, Owned, Silent
<1>3. CASE Drain(c)
  <2>1. /\ phase[c] = "drain" /\ buffer # <<>> /\ Consume
        /\ phase' = [phase EXCEPT ![c] = IF buffer[1].kind = "ready" THEN "send" ELSE "drain"]
        /\ UNCHANGED <<flags, wire, queries, closers, text>>
    BY <1>3 DEF Drain, Received, NoFault, server, pending, locals
  <2>2. Sockets'
    BY <2>1, FlagsKeepSockets
  <2>3. CASE buffer[1].kind # "ready"
    <3>1. phase' = phase
      BY <2>1, <2>3 DEF Lock
    <3> QED
      BY <2>1, <2>2, <3>1, ResponsesConsumed DEF Reading
  <2>4. CASE buffer[1].kind = "ready"
    <3>1. buffer' = <<>> /\ Silent
      BY <2>1, <2>4, TailMessages DEF Consume, Responses, Typed, Orderly
    <3>2. Busy(c)
      BY <2>1 DEF Busy
    <3>3. \A d \in Commands : ~Reading(d)'
      BY <2>1, <2>4, <3>2, OnlyOneReads DEF Reading, Lock
    <3>4. buffer' \in Seq(Messages) /\ ReadyLast(buffer') /\ NoReady(buffer')
      BY <3>1, EmptyMessages
    <3> QED
      BY <2>1, <2>2, <3>1, <3>3, <3>4, Zenon
      DEF Responses, Typed, Orderly, Owned, Quiet, Silent
  <2> QED
    BY <2>3, <2>4
<1>4. CASE DrainFails(c)
  <2>1. /\ Fault /\ UNCHANGED <<closers, text, buffer>> /\ Busy(c)
        /\ phase' = [phase EXCEPT ![c] = "done"]
    BY <1>4 DEF DrainFails, Release, pending, locals, Busy
  <2> QED
    BY <2>1, FaultSilences, ResponsesOver
<1>5. CASE Send(c)
  BY <1>5, ResponsesSend
<1>6. CASE SendFails(c)
  <2>1. /\ UNCHANGED <<flags, wire, queries, closers, text, buffer>> /\ Busy(c) /\ ~Reading(c)
        /\ phase' = [phase EXCEPT ![c] = "done"]
    BY <1>6 DEF SendFails, NoFault, server, Release, pending, locals, Busy, Reading
  <2>2. Silent
    BY <2>1, OnlyOneReads DEF Responses, Owned, Quiet
  <2> QED
    BY <2>1, <2>2, FlagsKeepSockets, ResponsesOver
<1>7. CASE Skip(c)
  <2>1. buffer # <<>> /\ Consume /\ UNCHANGED <<flags, wire, queries, closers, text, phase>>
    BY <1>7 DEF Skip, Received, NoFault, server, pending, locals
  <2> QED
    BY <2>1, FlagsKeepSockets, ResponsesConsumed DEF Reading
<1>8. CASE HandOut(c)
  <2>1. /\ phase[c] = "wait" /\ buffer # <<>> /\ Consume
        /\ UNCHANGED <<flags, wire, queries, closers, text>>
        /\ \E p \in {"closing", "open"} : phase' = [phase EXCEPT ![c] = p]
    BY <1>8 DEF HandOut, HandsOut, Received, NoFault, server, pending, locals
  <2>2. \A d \in Commands : (Reading(d)' <=> Reading(d)) /\ (phase'[d] = "send" => phase[d] = "send")
    BY <2>1 DEF Reading, Lock
  <2> QED
    BY <2>1, <2>2, FlagsKeepSockets, ResponsesConsumed
<1>9. CASE SeeError(c)
  <2>1. buffer # <<>> /\ Consume /\ UNCHANGED <<flags, wire, queries, closers, text, phase>>
    BY <1>9 DEF SeeError, Received, NoFault, server, pending, locals
  <2> QED
    BY <2>1, FlagsKeepSockets, ResponsesConsumed DEF Reading
<1>10. CASE ResponseEnds(c)
  <2>1. /\ buffer # <<>> /\ buffer[1].kind = "ready" /\ buffer' = Tail(buffer) /\ Busy(c)
        /\ UNCHANGED <<flags, wire, queries, closers, text>>
        /\ \E p \in {"ended", "done"} : phase' = [phase EXCEPT ![c] = p]
    BY <1>10 DEF ResponseEnds, Received, Consume, Release, Reading, Busy, NoFault, server,
                pending, locals
  <2>2. Silent
    BY <2>1, TailMessages DEF Responses, Typed, Orderly
  <2> QED
    BY <2>1, <2>2, FlagsKeepSockets, ResponsesOver
<1>11. CASE ExternalTableFails(c)
  BY <1>11 DEF ExternalTableFails
<1>12. CASE BadFrame(c)
  <2>1. /\ Reading(c) /\ GeneratorThrows(c) /\ Fault /\ UNCHANGED closers
        /\ buffer # <<>> /\ buffer' = Tail(buffer)
    BY <1>12 DEF BadFrame, Received, Consume, GeneratorThrows, pending
  <2> QED
    BY <2>1, FaultSilences, ResponsesThrown
<1>13. CASE ReadFails(c)
  <2>1. /\ Reading(c) /\ GeneratorThrows(c) /\ (socket # "open" \/ ~stream)
        /\ UNCHANGED <<flags, wire, queries, closers, buffer>>
    BY <1>13 DEF ReadFails, NoFault, server, GeneratorThrows, pending
  <2>2. Silent
    BY <2>1 DEF Responses, Sockets
  <2> QED
    BY <2>1, <2>2, FlagsKeepSockets, ResponsesThrown
<1>14. CASE ReleaseReader(c)
  <2>1. /\ UNCHANGED <<flags, wire, queries, closers, text, buffer>> /\ Busy(c) /\ ~Reading(c)
        /\ phase' = [phase EXCEPT ![c] = "done"]
    BY <1>14 DEF ReleaseReader, NoFault, server, Release, pending, locals, Busy, Reading
  <2>2. Silent
    BY <2>1, OnlyOneReads DEF Responses, Owned, Quiet
  <2> QED
    BY <2>1, <2>2, FlagsKeepSockets, ResponsesOver
<1> QED
  BY <1>1, <1>2, <1>3, <1>4, <1>5, <1>6, <1>7, <1>8, <1>9, <1>10, <1>11, <1>12,
     <1>13, <1>14 DEF Progress

LEMMA ResponsesCall ==
    ASSUME Lock, Responses, Call
    PROVE  Responses'
<1>1. CASE Connect
  <2>1. /\ socket \in {"none", "destroyed"} /\ socket' = "connecting" /\ closers = {}
        /\ UNCHANGED <<buffer, wire, queries, text, stream, closers, phase>>
    BY <1>1 DEF Connect, pending, server, locals
  <2>2. Sockets'
    BY <2>1 DEF Responses, Sockets, Silent
  <2> QED
    BY <2>1, <2>2 DEF Responses, Typed, Orderly, Owned, Quiet, Silent, Reading, ReadyLast, NoReady, OfOnly
<1>2. CASE CloseBegins
  <2>1. CASE socket \in {"none", "destroyed"}
    <3>1. UNCHANGED <<flags, buffer, wire, queries, text, phase>>
      BY <1>2, <2>1 DEF CloseBegins, server, locals
    <3>2. Sockets'
      BY <2>1, <3>1 DEF Responses, Sockets, Silent, flags
    <3> QED
      BY <3>1, <3>2 DEF Responses, Typed, Orderly, Owned, Quiet, Silent, Reading, ReadyLast, NoReady, OfOnly
  <2>2. CASE socket \notin {"none", "destroyed"}
    <3>1. socket' = "destroyed" /\ SessionLost /\ FragmentLeft /\ UNCHANGED <<text, phase>>
      BY <1>2, <2>2 DEF CloseBegins, locals
    <3>2. Sockets'
      BY <3>1 DEF Sockets, SessionLost, Silent
    <3> QED
      BY <3>1, <3>2, ResponsesLost
  <2> QED
    BY <2>1, <2>2
<1>3. CASE \E t \in ExecuteTexts : Execute("execute", t)
  BY <1>3, ResponsesExecute, TextsAssumption
<1>4. CASE \E t \in ReaderTexts : Execute("reader", t)
  BY <1>4, ResponsesExecute, TextsAssumption
<1>5. CASE ExecuteRefused
  BY <1>5, ResponsesKept DEF ExecuteRefused, flags, locals, pending, server
<1>6. CASE Cancel
  BY <1>6, ResponsesKept DEF Cancel, flags, locals, server
<1>7. CASE \E c \in Commands : CloseReader(c)
  <2>1. PICK c \in Commands : CloseReader(c)
    BY <1>7
  <2>2. /\ phase[c] = "open" /\ phase' = [phase EXCEPT ![c] = "closing"]
        /\ UNCHANGED <<flags, wire, queries, closers, text, buffer>>
    BY <2>1 DEF CloseReader, NoFault, server, pending, locals
  <2>3. \A d \in Commands : (Reading(d)' <=> Reading(d)) /\ (phase'[d] = "send" => phase[d] = "send")
    BY <2>2 DEF Reading, Lock
  <2>4. Sockets'
    BY <2>2, FlagsKeepSockets
  <2> QED
    BY <2>2, <2>3, <2>4 DEF Responses, Typed, Orderly, Owned, Quiet, Silent, ReadyLast, NoReady, OfOnly
<1> QED
  BY <1>1, <1>2, <1>3, <1>4, <1>5, <1>6, <1>7 DEF Call

-----------------------------------------------------------------------------
(* The server. *)

\* While the server has a query, one command reads, and all of it is its own.
LEMMA QueryIsRead ==
    ASSUME Responses, queries # <<>>
    PROVE  /\ queries[1] \in [cmd : Commands, rest : Seq(Statements)]
           /\ Len(queries) = 1 /\ Reading(queries[1].cmd)
           /\ \A d \in Commands : Reading(d) => d = queries[1].cmd
           /\ NoReady(buffer) /\ NoReady(wire) /\ socket = "open"
<1> DEFINE Q == [cmd : Commands, rest : Seq(Statements)]
<1>1. queries \in Seq(Q) /\ Len(queries) = 1 /\ 1 \in 1..Len(queries)
  <2>1. queries \in Seq(Q) /\ Len(queries) <= 1
    BY DEF Responses, Typed
  <2> HIDE DEF Q
  <2>2. Len(queries) \in Nat \ {0}
    BY <2>1, EmptySeq, Zenon
  <2>3. \A n \in Nat \ {0} : n <= 1 => n = 1 /\ 1 \in 1..n
    OBVIOUS
  <2> QED
    BY <2>1, <2>2, <2>3, Zenon
<1>2. queries[1] \in Q
  <2> HIDE DEF Q
  <2> QED
    BY <1>1, SMT
<1>3. ~Quiet /\ socket = "open" /\ NoReady(buffer) /\ NoReady(wire)
  BY DEF Responses, Owned, Orderly, Sockets, Silent
<1>4. \A d \in Commands : Reading(d) => d = queries[1].cmd
  BY <1>2 DEF Responses, Owned, OfOnly
<1> QED
  BY <1>1, <1>2, <1>3, <1>4 DEF Quiet

\* The server says something and goes on with its query, or is done with it.
LEMMA ResponsesSaid ==
    ASSUME Responses, queries # <<>>, NEW kinds \in Seq(Kinds), Say(queries[1].cmd, kinds),
           UNCHANGED <<flags, closers, buffer, phase, text>>,
           \/ /\ \A i \in 1..Len(kinds) : kinds[i] # "ready"
              /\ \E r \in Seq(Statements) : queries' = [queries EXCEPT ![1].rest = r]
           \/ Len(kinds) = 1 /\ queries' = Tail(queries)
    PROVE  Responses'
<1> DEFINE c == queries[1].cmd
           t == [i \in DOMAIN kinds |-> [cmd |-> c, kind |-> kinds[i]]]
<1>1. /\ c \in Commands /\ Len(queries) = 1 /\ Reading(c) /\ \A d \in Commands : Reading(d) => d = c
      /\ NoReady(buffer) /\ NoReady(wire) /\ socket = "open"
      /\ queries[1] \in [cmd : Commands, rest : Seq(Statements)]
  BY QueryIsRead
<1>2. wire' = wire \o t
  BY DEF Say
<1> HIDE DEF t
<1>3. /\ t \in Seq(Messages) /\ OfOnly(t, c)
      /\ (\A i \in 1..Len(kinds) : kinds[i] # "ready") => NoReady(t)
      /\ Len(kinds) = 1 => ReadyLast(t)
  BY <1>1, SaidMessages DEF t
<1>4. wire \in Seq(Messages) /\ OfOnly(wire, c) /\ OfOnly(buffer, c) /\ OfOnly(queries, c)
  BY <1>1 DEF Responses, Typed, Owned
<1>5. wire' \in Seq(Messages) /\ OfOnly(wire', c)
  BY <1>2, <1>3, <1>4, JoinedMessages
<1>6. /\ queries' \in Seq([cmd : Commands, rest : Seq(Statements)]) /\ Len(queries') <= 1
      /\ OfOnly(queries', c) /\ ReadyLast(wire') /\ (NoReady(wire') \/ queries' = <<>>)
  <2>1. queries \in Seq([cmd : Commands, rest : Seq(Statements)])
    BY DEF Responses, Typed
  <2>2. ASSUME \A i \in 1..Len(kinds) : kinds[i] # "ready", NEW r \in Seq(Statements),
               queries' = [queries EXCEPT ![1].rest = r]
        PROVE  /\ queries' \in Seq([cmd : Commands, rest : Seq(Statements)]) /\ Len(queries') <= 1
               /\ OfOnly(queries', c) /\ ReadyLast(wire') /\ NoReady(wire')
    <3>1. NoReady(wire')
      BY <1>1, <1>2, <1>3, <1>4, <2>2, JoinedMessages
    <3>2. ReadyLast(wire')
      BY <3>1 DEF NoReady, ReadyLast
    <3> DEFINE q == [queries[1] EXCEPT !.rest = r]
    <3>3. q \in [cmd : Commands, rest : Seq(Statements)] /\ q.cmd = c
      BY <1>1, <2>2
    <3>4. queries' = [queries EXCEPT ![1] = q]
      BY <2>2
    <3> HIDE DEF q
    <3>5. /\ queries' \in Seq([cmd : Commands, rest : Seq(Statements)])
          /\ Len(queries') = 1 /\ queries'[1] = q
      BY <1>1, <2>1, <3>3, <3>4, SMT
    <3>6. OfOnly(queries', c)
      BY <3>3, <3>5, SMT DEF OfOnly
    <3> QED
      BY <3>1, <3>2, <3>5, <3>6, SMT
  <2>3. CASE Len(kinds) = 1 /\ queries' = Tail(queries)
    <3>1. ReadyLast(wire')
      BY <1>1, <1>2, <1>3, <1>4, <2>3, JoinedMessages
    <3>2. Tail(queries) \in Seq([cmd : Commands, rest : Seq(Statements)]) /\ Len(Tail(queries)) = 0
      BY <1>1, <2>1, SMT
    <3>3. queries' = <<>>
      BY <2>3, <3>2, EmptySeq
    <3> QED
      BY <3>1, <3>3, SMT DEF OfOnly
  <2> QED
    BY <2>2, <2>3
<1>7. Typed' /\ Orderly'
  BY <1>1, <1>5, <1>6 DEF Responses, Typed, Orderly, Silent, NoReady, ReadyLast
<1>8. Sockets'
  BY <1>1 DEF Responses, Sockets, flags
<1>9. \A d \in Commands : (Reading(d)' <=> Reading(d)) /\ phase'[d] = phase[d]
  BY DEF Reading
<1>10. Owned'
  BY <1>1, <1>4, <1>5, <1>6, <1>9, Zenon DEF Responses, Owned, Quiet
<1> QED
  BY <1>7, <1>8, <1>10 DEF Responses

\* What the server says when it answers a statement, and when it refuses one.
LEMMA AnswersSpelt ==
    ASSUME ~LocalFailures, NEW s, NEW kinds \in Answers(s)
    PROVE  /\ kinds \in Seq(Kinds) /\ \A i \in 1..Len(kinds) : kinds[i] # "ready"
           /\ s # "query" => \A i \in 1..Len(kinds) : kinds[i] # "row"
<1>1. \/ s = "query" /\ kinds = <<"row", "complete">>
      \/ s = "query" /\ kinds = <<"bad">>
      \/ kinds = <<"complete">>
  BY DEF Answers
<1>2. CASE s = "query" /\ kinds = <<"row", "complete">>
  BY <1>2, SMT DEF Kinds
<1>3. CASE s = "query" /\ kinds = <<"bad">>
  BY <1>3, SMT DEF Kinds
<1>4. CASE kinds = <<"complete">>
  BY <1>4, SMT DEF Kinds
<1> QED
  BY <1>1, <1>2, <1>3, <1>4

LEMMA RefusalsSpelt ==
    ASSUME NEW s, NEW kinds \in Refusing(s)
    PROVE  /\ kinds \in Seq(Kinds) /\ \A i \in 1..Len(kinds) : kinds[i] # "ready"
           /\ \E i \in 1..Len(kinds) : kinds[i] = "error"
           /\ s # "query" => \A i \in 1..Len(kinds) : kinds[i] # "row"
<1>1. kinds = <<"error">> \/ (s = "query" /\ kinds = <<"row", "error">>)
  BY DEF Refusing
<1>2. CASE kinds = <<"error">>
  BY <1>2, SMT DEF Kinds
<1>3. CASE s = "query" /\ kinds = <<"row", "error">>
  <2>1. Len(kinds) = 2 /\ kinds[2] = "error"
    BY <1>3, SMT
  <2> QED
    BY <1>3, <2>1, SMT DEF Kinds
<1> QED
  BY <1>1, <1>2, <1>3

LEMMA ResponsesServer ==
    ASSUME ~LocalFailures, Responses, Server
    PROVE  Responses'
<1>1. CASE ServerRuns
  <2>1. PICK kinds \in Answers(queries[1].rest[1]) : Say(queries[1].cmd, kinds)
    BY <1>1 DEF ServerRuns
  <2>3. kinds \in Seq(Kinds) /\ \A i \in 1..Len(kinds) : kinds[i] # "ready"
    BY <2>1, AnswersSpelt
  <2>4. /\ queries # <<>> /\ queries[1].rest # <<>>
        /\ queries' = [queries EXCEPT ![1].rest = Tail(@)]
        /\ UNCHANGED <<flags, closers, buffer, phase, text>>
    BY <1>1 DEF ServerRuns, pending, locals
  <2>5. Tail(queries[1].rest) \in Seq(Statements)
    BY <2>4, QueryIsRead, SMT
  <2> QED
    BY <2>1, <2>3, <2>4, <2>5, ResponsesSaid
<1>2. CASE ServerFails
  <2>1. PICK kinds \in Refusing(queries[1].rest[1]) : Say(queries[1].cmd, kinds)
    BY <1>2 DEF ServerFails
  <2>3. kinds \in Seq(Kinds) /\ \A i \in 1..Len(kinds) : kinds[i] # "ready"
    BY <2>1, RefusalsSpelt
  <2>4. /\ queries # <<>> /\ queries' = [queries EXCEPT ![1].rest = <<>>]
        /\ UNCHANGED <<flags, closers, buffer, phase, text>>
    BY <1>2 DEF ServerFails, pending, locals
  <2>5. <<>> \in Seq(Statements)
    BY SMT
  <2> QED
    BY <2>1, <2>3, <2>4, <2>5, ResponsesSaid
<1>3. CASE ServerReady
  <2>1. /\ queries # <<>> /\ Say(queries[1].cmd, <<"ready">>) /\ queries' = Tail(queries)
        /\ UNCHANGED <<flags, closers, buffer, phase, text>>
    BY <1>3 DEF ServerReady, pending, locals
  <2>2. <<"ready">> \in Seq(Kinds) /\ Len(<<"ready">>) = 1
    BY SMT DEF Kinds
  <2> QED
    BY <2>1, <2>2, ResponsesSaid
<1> QED
  BY <1>1, <1>2, <1>3 DEF Server

LEMMA ResponsesCancelled ==
    ASSUME Responses, NEW g, ServerCancels(g)
    PROVE  Responses'
<1>1. UNCHANGED <<flags, closers, buffer, phase, text>>
  BY DEF ServerCancels, locals
<1>2. CASE queries # <<>> /\ queries[1].rest # <<>>
  <2>1. /\ Say(queries[1].cmd, <<"error">>) /\ queries' = [queries EXCEPT ![1].rest = <<>>]
    BY <1>2 DEF ServerCancels
  <2>2. <<"error">> \in Seq(Kinds) /\ \A i \in 1..Len(<<"error">>) : <<"error">>[i] # "ready"
    BY SMT DEF Kinds
  <2>3. <<>> \in Seq(Statements)
    BY SMT
  <2> QED
    BY <1>1, <1>2, <2>1, <2>2, <2>3, ResponsesSaid
<1>3. CASE ~(queries # <<>> /\ queries[1].rest # <<>>)
  BY <1>1, <1>3, ResponsesKept DEF ServerCancels, flags
<1> QED
  BY <1>2, <1>3

LEMMA ResponsesNext ==
    ASSUME ~LocalFailures
    PROVE  Lock /\ Responses /\ [Next]_vars => Responses'
<1> SUFFICES ASSUME Lock, Responses, [Next]_vars PROVE Responses'
  OBVIOUS
<1>1. CASE Call
  BY <1>1, ResponsesCall
<1>2. CASE ConnectSucceeds
  <2>1. /\ stream' = TRUE /\ socket = "connecting"
        /\ UNCHANGED <<buffer, wire, queries, text, closers, phase>>
    BY <1>2 DEF ConnectSucceeds, pending, server, locals
  <2>2. Sockets'
    BY <2>1, Zenon DEF Responses, Sockets, Silent
  <2> QED
    BY <2>1, <2>2 DEF Responses, Typed, Orderly, Owned, Quiet, Silent, Reading, ReadyLast, NoReady, OfOnly
<1>3. CASE ConnectFails
  <2>1. /\ socket = "connecting" /\ socket' = "destroyed"
        /\ UNCHANGED <<buffer, wire, queries, text, closers, phase>>
    BY <1>3 DEF ConnectFails, pending, server, locals
  <2>2. Sockets'
    BY <2>1 DEF Responses, Sockets, Silent
  <2> QED
    BY <2>1, <2>2 DEF Responses, Typed, Orderly, Owned, Quiet, Silent, Reading, ReadyLast, NoReady, OfOnly
<1>4. CASE SocketDies
  <2>1. socket' = "destroyed" /\ SessionLost /\ FragmentLeft /\ UNCHANGED <<text, phase>>
    BY <1>4 DEF SocketDies, locals
  <2>2. Sockets'
    BY <2>1 DEF Sockets, SessionLost, Silent
  <2> QED
    BY <2>1, <2>2, ResponsesLost
<1>5. CASE \E w \in 0..MaxCommands : CloseEnds(w)
  <2>1. PICK w \in 0..MaxCommands : CloseEnds(w)
    BY <1>5
  <2>2. /\ w \in closers /\ socket' = "none"
        /\ UNCHANGED <<buffer, wire, queries, text, phase>>
    BY <2>1 DEF CloseEnds, server, locals
  <2>3. Sockets'
    BY <2>2 DEF Responses, Sockets, Silent
  <2> QED
    BY <2>2, <2>3 DEF Responses, Typed, Orderly, Owned, Quiet, Silent, Reading, ReadyLast, NoReady, OfOnly
<1>6. CASE \E c \in Commands : Progress(c)
  BY <1>6, ResponsesProgress
<1>7. CASE \E c \in Commands : TimeOut(c)
  BY <1>7, ResponsesKept DEF TimeOut, flags, locals, server
<1>8. CASE \E g \in 0..MaxCommands : CancelConnects(g)
  BY <1>8, ResponsesKept DEF CancelConnects, flags, locals, server
<1>9. CASE \E g \in 0..MaxCommands : CancelFails(g)
  BY <1>9, ResponsesKept DEF CancelFails, flags, locals, server
<1>10. CASE \E g \in 0..MaxCommands : ServerCancels(g)
  BY <1>10, ResponsesCancelled
<1>11. CASE Server
  BY <1>11, ResponsesServer
<1>12. CASE UNCHANGED vars
  BY <1>12, ResponsesKept DEF vars, flags, locals, pending, server
<1> QED
  BY <1>1, <1>2, <1>3, <1>4, <1>5, <1>6, <1>7, <1>8, <1>9, <1>10, <1>11, <1>12
  DEF Next

(***************************************************************************)
(* Unless the local side of an external table fails, a command reads no    *)
(* message but those of its own response, whatever is cancelled, times     *)
(* out, is closed or reconnected before (_ensureProtocolSynced).           *)
(***************************************************************************)
THEOREM ResponsesAreOwn ==
    ASSUME ~LocalFailures
    PROVE  Spec => []OwnResponse
<1>1. Lock /\ Responses /\ [Next]_vars => Responses'
  BY ResponsesNext
<1>2. Responses => OwnResponse
  <2> SUFFICES ASSUME Responses, NEW c \in Commands, Reading(c)
               PROVE  /\ \A i \in DOMAIN buffer : buffer[i].cmd = c
                      /\ \A i \in DOMAIN wire : wire[i].cmd = c
    BY DEF OwnResponse
  <2>1. DOMAIN buffer = 1..Len(buffer) /\ DOMAIN wire = 1..Len(wire)
    BY SMT DEF Responses, Typed
  <2> QED
    BY <2>1 DEF Responses, Owned, OfOnly
<1> QED
  BY <1>1, <1>2, ResponsesInit, LockInvariant, PTL DEF Spec

-----------------------------------------------------------------------------
(* Which kinds of messages a sequence carries. *)
Carries(s, k) == \E i \in 1..Len(s) : s[i].kind = k

LEMMA TailCarries ==
    ASSUME NEW s \in Seq(Messages), s # <<>>
    PROVE  /\ \A k : Carries(Tail(s), k) => Carries(s, k)
           /\ \A k : Carries(s, k) /\ s[1].kind # k => Carries(Tail(s), k)
<1>1. \A i \in 1..Len(Tail(s)) : i + 1 \in 1..Len(s) /\ Tail(s)[i] = s[i + 1]
  BY SMT
<1>2. \A i \in 1..Len(s) : i = 1 \/ (i - 1 \in 1..Len(Tail(s)) /\ Tail(s)[i - 1] = s[i])
  BY SMT
<1> QED
  BY <1>1, <1>2, Zenon DEF Carries

LEMMA JoinedCarry ==
    ASSUME NEW s \in Seq(Messages), NEW t \in Seq(Messages)
    PROVE  \A k : Carries(s \o t, k) <=> Carries(s, k) \/ Carries(t, k)
<1> DEFINE u == s \o t
<1>1. /\ Len(s) \in Nat /\ Len(t) \in Nat /\ Len(u) = Len(s) + Len(t)
      /\ \A i \in 1..Len(s) + Len(t) : u[i] = IF i <= Len(s) THEN s[i] ELSE t[i - Len(s)]
  BY ConcatProperties
<1> HIDE DEF u
<1>2. \A i \in 1..Len(u) : \/ i \in 1..Len(s) /\ u[i] = s[i]
                           \/ i - Len(s) \in 1..Len(t) /\ u[i] = t[i - Len(s)]
  BY <1>1, SMT
<1>3. \A i \in 1..Len(s) : i \in 1..Len(u) /\ u[i] = s[i]
  BY <1>1, SMT
<1>4. \A i \in 1..Len(t) : i + Len(s) \in 1..Len(u) /\ u[i + Len(s)] = t[i]
  BY <1>1, SMT
<1> QED
  BY <1>2, <1>3, <1>4, Zenon DEF Carries, u

LEMMA SplitCarries ==
    ASSUME NEW s \in Seq(Messages), NEW n \in 0..Len(s)
    PROVE  \A k : Carries(s, k) <=>
                     Carries(SubSeq(s, 1, n), k) \/ Carries(SubSeq(s, n + 1, Len(s)), k)
<1> DEFINE t == SubSeq(s, 1, n)
           u == SubSeq(s, n + 1, Len(s))
<1>1. \A i \in 1..Len(t) : i \in 1..Len(s) /\ t[i] = s[i]
  BY SMT
<1>2. \A i \in 1..Len(u) : i + n \in 1..Len(s) /\ u[i] = s[i + n]
  BY SMT
<1>3. Len(t) = n /\ Len(u) = Len(s) - n
  BY SMT
<1>4. \A i \in 1..Len(s) : \/ i \in 1..Len(t) /\ t[i] = s[i]
                           \/ i - n \in 1..Len(u) /\ u[i - n] = s[i]
  BY <1>3, SMT
<1> HIDE DEF t, u
<1>5. \A k : Carries(s, k) <=> Carries(t, k) \/ Carries(u, k)
  BY <1>1, <1>2, <1>4, Zenon DEF Carries
<1> QED
  BY <1>5 DEF t, u

LEMMA SaidCarries ==
    ASSUME NEW c \in Commands, NEW kinds \in Seq(Kinds), NEW t,
           t = [i \in DOMAIN kinds |-> [cmd |-> c, kind |-> kinds[i]]]
    PROVE  /\ \A k : Carries(t, k) <=> \E i \in 1..Len(kinds) : kinds[i] = k
<1>1. DOMAIN kinds = 1..Len(kinds) /\ Len(kinds) \in Nat
  BY SMT
<1>2. t = [i \in 1..Len(kinds) |-> [cmd |-> c, kind |-> kinds[i]]]
  BY <1>1
<1>3. Len(t) = Len(kinds) /\ \A i \in 1..Len(kinds) : t[i].kind = kinds[i]
  BY <1>1, <1>2, SMT
<1> QED
  BY <1>3, Zenon DEF Carries

LEMMA NothingCarried ==
    ASSUME NEW s, s = <<>>
    PROVE  \A k : ~Carries(s, k)
BY SMT DEF Carries

-----------------------------------------------------------------------------
(***************************************************************************)
(* What the server says of a command, and what its caller is told.  The    *)
(* error of a command that is still reading its response has been seen, or *)
(* it is among what is yet to be read, or the session is lost and nothing  *)
(* can end the response but a failure.  Only a command that reads can be   *)
(* refused by the server, and while it reads its promise is open, unless   *)
(* its caller has the reader.                                              *)
(***************************************************************************)
Noted ==
    \A c \in Commands : phase[c] = "wait" /\ c \in erred =>
        \/ c \in failed
        \/ Carries(buffer, "error") \/ Carries(wire, "error")
        \/ NoReady(buffer) /\ Silent

Promised ==
    /\ promise \in [Commands -> {"none", "pending", "timedOut", "resolved", "rejected"}]
    /\ mode \in [Commands -> {"execute", "reader"}]
    /\ \A c \in Commands : phase[c] \in {"none", "drain", "send"} => c \notin erred
    /\ \A c \in Commands : Unsettled(c) => promise[c] # "resolved"
    /\ \A c \in Commands : phase[c] \in {"open", "closing"} => mode[c] = "reader"

Honest == Noted /\ Promised /\ HonestResult

LEMMA HonestInit == Init => Honest
BY DEF Init, Honest, Noted, Promised, HonestResult, Unsettled

LEMMA HonestKept ==
    ASSUME Honest, UNCHANGED <<phase, mode, promise, failed, erred, buffer, wire, queries>>
    PROVE  Honest'
<1>1. Noted'
  BY DEF Honest, Noted, Carries, NoReady, Silent
<1> QED
  BY <1>1 DEF Honest, Promised, HonestResult, Unsettled

\* The messages move from the socket to the buffer, or are read, or are lost
\* with the session, without an error getting lost that somebody waits for.
LEMMA NotedMoves ==
    ASSUME Noted, UNCHANGED <<phase, failed, erred>>,
           Carries(buffer, "error") \/ Carries(wire, "error") =>
               \/ Carries(buffer', "error") \/ Carries(wire', "error")
               \/ NoReady(buffer') /\ Silent',
           NoReady(buffer) /\ Silent => NoReady(buffer') /\ Silent'
    PROVE  Noted'
BY DEF Noted

LEMMA PromisedMoves ==
    ASSUME Promised, HonestResult, UNCHANGED <<phase, mode, promise, erred>>
    PROVE  Promised' /\ HonestResult'
BY DEF Promised, HonestResult, Unsettled

LEMMA HonestLost ==
    ASSUME Honest, Responses, SessionLost, FragmentLeft,
           UNCHANGED <<phase, mode, promise, failed>>
    PROVE  Honest'
<1>1. Silent' /\ UNCHANGED erred
  BY DEF SessionLost, Silent
<1>2. buffer \in Seq(Messages) /\ (NoReady(buffer) \/ Silent)
  BY DEF Responses, Typed, Orderly
<1>3. CASE UNCHANGED buffer
  <2>1. Noted'
    BY <1>1, <1>2, <1>3 DEF Honest, Noted, Silent, NoReady, Carries
  <2> QED
    BY <1>1, <2>1, PromisedMoves DEF Honest
<1>4. CASE wire # <<>> /\ buffer' = Append(buffer, [cmd |-> wire[1].cmd, kind |-> "fragment"])
  <2>1. NoReady(buffer)
    BY <1>2, <1>4 DEF Silent
  <2>2. NoReady(buffer')
    BY <1>2, <1>4, <2>1, SMT DEF NoReady
  <2>3. Noted'
    BY <1>1, <2>2 DEF Noted
  <2> QED
    BY <1>1, <2>3, PromisedMoves DEF Honest
<1> QED
  BY <1>3, <1>4 DEF FragmentLeft

\* Once the busy command no longer waits, nobody does.
LEMMA NobodyWaits ==
    ASSUME Lock, NEW c \in Commands, Busy(c), NEW p, p # "wait",
           phase' = [phase EXCEPT ![c] = p]
    PROVE  Noted' /\ \A d \in Commands : d # c => phase'[d] \in {"none", "done"} /\ phase'[d] = phase[d]
BY DEF Lock, Noted, Busy, Phases

\* The end of a command that its caller is told of, unless he was told before.
LEMMA HonestEnds ==
    ASSUME Lock, Honest, NEW c \in Commands, Busy(c), NEW p \in {"ended", "done"},
           NEW outcome \in {"resolved", "rejected"},
           phase' = [phase EXCEPT ![c] = p], Settle(c, outcome) \/ UNCHANGED promise,
           outcome = "resolved" /\ mode[c] = "execute" => c \notin erred,
           UNCHANGED <<mode, erred>>
    PROVE  Honest'
<1>1. Noted' /\ \A d \in Commands : d # c => phase'[d] \in {"none", "done"} /\ phase'[d] = phase[d]
  BY NobodyWaits
<1>2. phase'[c] = p
  BY DEF Lock
<1>3. /\ promise' \in [Commands -> {"none", "pending", "timedOut", "resolved", "rejected"}]
      /\ \A d \in Commands : d # c => promise'[d] = promise[d]
      /\ promise'[c] = promise[c] \/ promise'[c] = outcome
  BY DEF Honest, Promised, Settle
<1>4. Promised'
  BY <1>1, <1>2, <1>3 DEF Honest, Promised, Unsettled
<1>5. HonestResult'
  BY <1>3 DEF Honest, HonestResult
<1> QED
  BY <1>1, <1>4, <1>5 DEF Honest

LEMMA HonestExecute ==
    ASSUME Lock, Honest, NEW m \in {"execute", "reader"}, NEW t, Execute(m, t)
    PROVE  Honest'
<1> DEFINE c == commandGeneration + 1
<1>1. /\ c \in Commands /\ ~executing
      /\ promise' = [promise EXCEPT ![c] = "pending"]
      /\ mode' = [mode EXCEPT ![c] = m]
      /\ UNCHANGED erred
      /\ \E p \in {"send", "drain"} : phase' = [phase EXCEPT ![c] = p]
  BY DEF Execute, server
<1>2. \A d \in Commands : phase[d] \in {"none", "done"}
  BY <1>1 DEF Lock, Busy, Phases
<1>3. phase[c] = "none"
  BY <1>1, CommandsAreNumbers DEF Lock
<1>4. \A d \in Commands : phase'[d] \notin {"wait", "open", "closing"} /\ (d # c => phase'[d] = phase[d])
  BY <1>1, <1>2 DEF Lock
<1>5. Noted'
  BY <1>4 DEF Noted
<1>6. Promised'
  BY <1>1, <1>2, <1>3, <1>4 DEF Honest, Promised, Unsettled
<1>7. HonestResult'
  BY <1>1 DEF Honest, Promised, HonestResult
<1> QED
  BY <1>5, <1>6, <1>7 DEF Honest

\* A message other than an error is taken.
LEMMA HonestConsumed ==
    ASSUME Honest, Responses, buffer # <<>>, buffer[1].kind # "error", Consume,
           UNCHANGED <<wire, queries, phase, mode, promise, failed, erred>>
    PROVE  Honest'
<1>1. /\ Carries(buffer, "error") => Carries(buffer', "error")
      /\ NoReady(buffer) => NoReady(buffer')
  BY TailCarries, TailMessages DEF Responses, Typed, Consume
<1>2. Noted'
  BY <1>1, NotedMoves DEF Honest, Silent
<1> QED
  BY <1>2, PromisedMoves DEF Honest

LEMMA HonestProgress ==
    ASSUME ~LocalFailures, Lock, Responses, Honest, NEW c \in Commands, Progress(c)
    PROVE  Honest'
<1>1. CASE Readable(c)
  <2>1. buffer = <<>> /\ UNCHANGED <<phase, mode, promise, failed, erred>>
    BY <1>1 DEF Readable, TakesArrived, locals, server
  <2>2. PICK k \in 1..Len(wire) : Pull(k)
    BY <1>1 DEF Readable, TakesArrived
  <2>3. wire \in Seq(Messages) /\ k \in 0..Len(wire) /\ wire # <<>>
    BY <2>2, SMT DEF Responses, Typed
  <2>4. buffer' = SubSeq(wire, 1, k) /\ wire' = SubSeq(wire, k + 1, Len(wire))
    <3>1. SubSeq(wire, 1, k) \in Seq(Messages)
      BY <2>3, SplitMessages
    <3>2. <<>> \o SubSeq(wire, 1, k) = SubSeq(wire, 1, k)
      BY <3>1, SMT
    <3> QED
      BY <2>1, <2>2, <3>2 DEF Pull
  <2>5. Carries(wire, "error") => Carries(buffer', "error") \/ Carries(wire', "error")
    BY <2>3, <2>4, SplitCarries
  <2>6. ~Carries(buffer, "error") /\ ~Silent
    BY <2>1, <2>3, NothingCarried DEF Silent
  <2>7. Noted'
    BY <2>1, <2>5, <2>6, NotedMoves DEF Honest
  <2> QED
    BY <2>1, <2>7, PromisedMoves DEF Honest
<1>2. CASE OrphanReadable(c)
  <2>1. phase[c] = "drain" /\ wire # <<>>
    BY <1>2, SMT DEF OrphanReadable, TakesArrived
  <2>2. Busy(c) /\ ~Reading(c)
    BY <2>1 DEF Busy, Reading
  <2>3. Quiet
    BY <2>2, OnlyOneReads DEF Quiet
  <2> QED
    BY <2>1, <2>3 DEF Responses, Owned, Silent
<1>3. CASE Drain(c)
  <2>1. /\ phase[c] = "drain" /\ Busy(c) /\ UNCHANGED <<mode, promise, erred>>
        /\ \E p \in {"send", "drain"} : phase' = [phase EXCEPT ![c] = p]
    BY <1>3 DEF Drain, NoFault, server, locals, Busy, Lock
  <2>2. PICK p \in {"send", "drain"} : phase' = [phase EXCEPT ![c] = p]
    BY <2>1
  <2>3. Noted' /\ \A d \in Commands : d # c => phase'[d] = phase[d]
    BY <2>1, <2>2, NobodyWaits
  <2>4. phase'[c] = p
    BY <2>2 DEF Lock
  <2> QED
    BY <2>1, <2>2, <2>3, <2>4 DEF Honest, Promised, HonestResult, Unsettled
<1>4. CASE DrainFails(c) \/ SendFails(c)
  <2>1. /\ Busy(c) /\ Settle(c, "rejected") /\ UNCHANGED <<mode, erred>>
        /\ phase' = [phase EXCEPT ![c] = "done"]
    BY <1>4 DEF DrainFails, SendFails, Release, NoFault, Fault, SessionLost, server, locals, Busy
  <2> QED
    BY <2>1, HonestEnds
<1>5. CASE Send(c)
  <2>1. /\ phase[c] = "send" /\ Busy(c) /\ phase' = [phase EXCEPT ![c] = "wait"]
        /\ UNCHANGED <<mode, promise, erred>>
    BY <1>5 DEF Send, locals, Busy
  <2>2. c \notin erred
    BY <2>1 DEF Honest, Promised
  <2>3. \A d \in Commands : d # c => phase'[d] = phase[d] /\ phase[d] \in {"none", "done"}
    BY <2>1 DEF Lock, Busy, Phases
  <2>4. phase'[c] = "wait"
    BY <2>1 DEF Lock
  <2>5. Noted'
    BY <2>1, <2>2, <2>3 DEF Noted
  <2> QED
    BY <2>1, <2>3, <2>4, <2>5 DEF Honest, Promised, HonestResult, Unsettled
<1>6. CASE Skip(c)
  BY <1>6, HonestConsumed DEF Skip, Received, NoFault, server, locals
<1>7. CASE HandOut(c)
  <2>1. /\ phase[c] = "wait" /\ mode[c] = "reader" /\ Busy(c) /\ Settle(c, "resolved")
        /\ UNCHANGED <<mode, erred>>
        /\ \E p \in {"closing", "open"} : phase' = [phase EXCEPT ![c] = p]
    BY <1>7 DEF HandOut, HandsOut, NoFault, server, locals, Busy
  <2>2. PICK p \in {"closing", "open"} : phase' = [phase EXCEPT ![c] = p]
    BY <2>1
  <2>3. Noted' /\ \A d \in Commands : d # c => phase'[d] = phase[d]
    BY <2>1, <2>2, NobodyWaits
  <2>4. phase'[c] = p
    BY <2>2 DEF Lock
  <2>5. /\ promise' \in [Commands -> {"none", "pending", "timedOut", "resolved", "rejected"}]
        /\ \A d \in Commands : d # c => promise'[d] = promise[d]
    BY <2>1 DEF Honest, Promised, Settle
  <2>6. Promised'
    BY <2>1, <2>3, <2>4, <2>5 DEF Honest, Promised, Unsettled
  <2>7. HonestResult'
    BY <2>1, <2>5 DEF Honest, HonestResult
  <2> QED
    BY <2>3, <2>6, <2>7 DEF Honest
<1>8. CASE SeeError(c)
  <2>1. /\ Reading(c) /\ Busy(c) /\ buffer # <<>> /\ Consume
        /\ failed' = IF phase[c] = "wait" THEN failed \cup {c} ELSE failed
        /\ UNCHANGED <<wire, queries, phase, mode, promise, erred>>
    BY <1>8 DEF SeeError, Received, NoFault, server, locals, Reading, Busy
  <2>2. \A d \in Commands : phase[d] = "wait" => d = c
    BY <2>1, OnlyOneReads DEF Reading
  <2>3. Noted'
    BY <2>1, <2>2 DEF Noted
  <2> QED
    BY <2>1, <2>3, PromisedMoves DEF Honest
<1>9. CASE ResponseEnds(c)
  <2>1. /\ buffer # <<>> /\ buffer[1].kind = "ready" /\ Reading(c) /\ Busy(c)
        /\ Settle(c, IF c \in failed THEN "rejected" ELSE "resolved")
        /\ UNCHANGED <<mode, erred>>
        /\ \E p \in {"ended", "done"} : phase' = [phase EXCEPT ![c] = p]
    BY <1>9 DEF ResponseEnds, Received, Release, Reading, Busy, NoFault, server, locals
  <2>2. Tail(buffer) = <<>> /\ ~NoReady(buffer) /\ wire = <<>>
    BY <2>1, TailMessages DEF Responses, Typed, Orderly, Silent
  <2>3. ~Carries(buffer, "error") /\ ~Carries(wire, "error")
    BY <2>1, <2>2, TailCarries, NothingCarried DEF Responses, Typed
  <2>4. mode[c] = "execute" /\ c \in erred => c \in failed
    BY <2>1, <2>2, <2>3 DEF Honest, Noted, Promised, Reading
  <2> QED
    BY <2>1, <2>4, HonestEnds
<1>10. CASE ExternalTableFails(c)
  BY <1>10 DEF ExternalTableFails
<1>11. CASE BadFrame(c) \/ ReadFails(c)
  <2>1. /\ Busy(c) /\ Settle(c, "rejected") /\ UNCHANGED <<mode, erred>>
        /\ \E p \in {"ended", "done"} : phase' = [phase EXCEPT ![c] = p]
    BY <1>11 DEF BadFrame, ReadFails, GeneratorThrows, Release, NoFault, Fault, SessionLost,
                 server, locals, Busy, Reading
  <2> QED
    BY <2>1, HonestEnds
<1>12. CASE ReleaseReader(c)
  <2>1. /\ Busy(c) /\ UNCHANGED <<mode, promise, erred>>
        /\ phase' = [phase EXCEPT ![c] = "done"]
    BY <1>12 DEF ReleaseReader, Release, NoFault, server, locals, Busy
  <2> QED
    BY <2>1, HonestEnds
<1> QED
  BY <1>1, <1>2, <1>3, <1>4, <1>5, <1>6, <1>7, <1>8, <1>9, <1>10, <1>11, <1>12 DEF Progress

LEMMA HonestCall ==
    ASSUME Lock, Responses, Honest, Call
    PROVE  Honest'
<1>1. CASE Connect
  BY <1>1, HonestKept DEF Connect, server, locals
<1>2. CASE CloseBegins
  <2>1. CASE socket \in {"none", "destroyed"}
    BY <1>2, <2>1, HonestKept DEF CloseBegins, server, locals
  <2>2. CASE socket \notin {"none", "destroyed"}
    BY <1>2, <2>2, HonestLost DEF CloseBegins, locals
  <2> QED
    BY <2>1, <2>2
<1>3. CASE (\E t \in ExecuteTexts : Execute("execute", t)) \/ (\E t \in ReaderTexts : Execute("reader", t))
  BY <1>3, HonestExecute
<1>4. CASE ExecuteRefused
  BY <1>4, HonestKept DEF ExecuteRefused, locals, server
<1>5. CASE Cancel
  BY <1>5, HonestKept DEF Cancel, locals, server
<1>6. CASE \E c \in Commands : CloseReader(c)
  <2>1. PICK c \in Commands : CloseReader(c)
    BY <1>6
  <2>2. /\ phase[c] = "open" /\ phase' = [phase EXCEPT ![c] = "closing"] /\ Busy(c)
        /\ UNCHANGED <<mode, promise, erred>>
    BY <2>1 DEF CloseReader, NoFault, server, locals, Busy
  <2>3. Noted' /\ \A d \in Commands : d # c => phase'[d] = phase[d]
    BY <2>2, NobodyWaits
  <2>4. phase'[c] = "closing"
    BY <2>2 DEF Lock
  <2> QED
    BY <2>2, <2>3, <2>4 DEF Honest, Promised, HonestResult, Unsettled
<1> QED
  BY <1>1, <1>2, <1>3, <1>4, <1>5, <1>6 DEF Call

\* The server speaks: an error it notes for the command is among its words.
LEMMA HonestSaid ==
    ASSUME Responses, Honest, queries # <<>>, NEW kinds \in Seq(Kinds),
           Say(queries[1].cmd, kinds),
           UNCHANGED <<buffer, phase, mode, promise, failed>>,
           \/ UNCHANGED erred
           \/ /\ erred' = erred \cup {queries[1].cmd}
              /\ \E i \in 1..Len(kinds) : kinds[i] = "error"
    PROVE  Honest'
<1> DEFINE c == queries[1].cmd
           t == [i \in DOMAIN kinds |-> [cmd |-> c, kind |-> kinds[i]]]
<1>1. c \in Commands /\ Reading(c) /\ wire \in Seq(Messages)
  BY QueryIsRead DEF Responses, Typed
<1>2. wire' = wire \o t
  BY DEF Say
<1> HIDE DEF t
<1>3. t \in Seq(Messages) /\ (Carries(t, "error") <=> \E i \in 1..Len(kinds) : kinds[i] = "error")
  BY <1>1, SaidMessages, SaidCarries DEF t
<1>4. Carries(wire', "error") <=> Carries(wire, "error") \/ Carries(t, "error")
  BY <1>1, <1>2, <1>3, JoinedCarry
<1>5. ~Silent
  BY DEF Silent
<1>6. Noted'
  BY <1>3, <1>4, <1>5 DEF Honest, Noted, Carries
<1>7. Promised'
  BY <1>1 DEF Honest, Promised, Unsettled, Reading
<1>8. HonestResult'
  BY <1>1 DEF Honest, HonestResult, Promised, Unsettled, Reading
<1> QED
  BY <1>6, <1>7, <1>8 DEF Honest

LEMMA HonestServer ==
    ASSUME ~LocalFailures, Responses, Honest, Server
    PROVE  Honest'
<1>1. CASE ServerRuns
  <2>1. PICK kinds \in Answers(queries[1].rest[1]) : Say(queries[1].cmd, kinds)
    BY <1>1 DEF ServerRuns
  <2>3. kinds \in Seq(Kinds)
    BY <2>1, AnswersSpelt
  <2>4. queries # <<>> /\ UNCHANGED <<buffer, phase, mode, promise, failed, erred>>
    BY <1>1 DEF ServerRuns, locals
  <2> QED
    BY <2>1, <2>3, <2>4, HonestSaid
<1>2. CASE ServerFails
  <2>1. PICK kinds \in Refusing(queries[1].rest[1]) : Say(queries[1].cmd, kinds)
    BY <1>2 DEF ServerFails
  <2>3. kinds \in Seq(Kinds) /\ \E i \in 1..Len(kinds) : kinds[i] = "error"
    BY <2>1, RefusalsSpelt
  <2>4. /\ queries # <<>> /\ erred' = erred \cup {queries[1].cmd}
        /\ UNCHANGED <<buffer, phase, mode, promise, failed>>
    BY <1>2 DEF ServerFails, locals
  <2> QED
    BY <2>1, <2>3, <2>4, HonestSaid
<1>3. CASE ServerReady
  <2>1. /\ queries # <<>> /\ Say(queries[1].cmd, <<"ready">>)
        /\ UNCHANGED <<buffer, phase, mode, promise, failed, erred>>
    BY <1>3 DEF ServerReady, locals
  <2>2. <<"ready">> \in Seq(Kinds)
    BY SMT DEF Kinds
  <2> QED
    BY <2>1, <2>2, HonestSaid
<1> QED
  BY <1>1, <1>2, <1>3 DEF Server

LEMMA HonestCancelled ==
    ASSUME Responses, Honest, NEW g, ServerCancels(g)
    PROVE  Honest'
<1>1. UNCHANGED <<buffer, phase, mode, promise, failed>>
  BY DEF ServerCancels, locals
<1>2. CASE queries # <<>> /\ queries[1].rest # <<>>
  <2>1. Say(queries[1].cmd, <<"error">>) /\ erred' = erred \cup {queries[1].cmd}
    BY <1>2 DEF ServerCancels
  <2>2. <<"error">> \in Seq(Kinds) /\ \E i \in 1..Len(<<"error">>) : <<"error">>[i] = "error"
    BY SMT DEF Kinds
  <2> QED
    BY <1>1, <1>2, <2>1, <2>2, HonestSaid
<1>3. CASE ~(queries # <<>> /\ queries[1].rest # <<>>)
  BY <1>1, <1>3, HonestKept DEF ServerCancels
<1> QED
  BY <1>2, <1>3

LEMMA HonestNext ==
    ASSUME ~LocalFailures
    PROVE  Lock /\ Responses /\ Honest /\ [Next]_vars => Honest'
<1> SUFFICES ASSUME Lock, Responses, Honest, [Next]_vars PROVE Honest'
  OBVIOUS
<1>1. CASE Call
  BY <1>1, HonestCall
<1>2. CASE ConnectSucceeds
  BY <1>2, HonestKept DEF ConnectSucceeds, server, locals
<1>3. CASE ConnectFails
  BY <1>3, HonestKept DEF ConnectFails, server, locals
<1>4. CASE SocketDies
  BY <1>4, HonestLost DEF SocketDies, locals
<1>5. CASE \E w \in 0..MaxCommands : CloseEnds(w)
  BY <1>5, HonestKept DEF CloseEnds, server, locals
<1>6. CASE \E c \in Commands : Progress(c)
  BY <1>6, HonestProgress
<1>7. CASE \E c \in Commands : TimeOut(c)
  <2>1. PICK c \in Commands : /\ promise' = [promise EXCEPT ![c] = "timedOut"]
                              /\ UNCHANGED <<phase, mode, failed, erred, buffer, wire, queries>>
    BY <1>7 DEF TimeOut, server, locals
  <2>2. Noted'
    BY <2>1 DEF Honest, Noted, Carries, NoReady, Silent
  <2> QED
    BY <2>1, <2>2 DEF Honest, Promised, HonestResult, Unsettled
<1>8. CASE \E g \in 0..MaxCommands : CancelConnects(g)
  BY <1>8, HonestKept DEF CancelConnects, server, locals
<1>9. CASE \E g \in 0..MaxCommands : CancelFails(g)
  BY <1>9, HonestKept DEF CancelFails, server, locals
<1>10. CASE \E g \in 0..MaxCommands : ServerCancels(g)
  BY <1>10, HonestCancelled
<1>11. CASE Server
  BY <1>11, HonestServer
<1>12. CASE UNCHANGED vars
  BY <1>12, HonestKept DEF vars, server, locals
<1> QED
  BY <1>1, <1>2, <1>3, <1>4, <1>5, <1>6, <1>7, <1>8, <1>9, <1>10, <1>11, <1>12 DEF Next

(***************************************************************************)
(* Unless the local side of an external table fails, execute() reports no  *)
(* command as done that the server has answered with an error, whatever    *)
(* times out, is cancelled, is closed or dies in between.                  *)
(***************************************************************************)
THEOREM ResultsAreHonest ==
    ASSUME ~LocalFailures
    PROVE  Spec => []HonestResult
<1>1. Lock /\ Responses /\ [Next]_vars => Responses'
  BY ResponsesNext
<1>2. Lock /\ Responses /\ Honest /\ [Next]_vars => Honest'
  BY HonestNext
<1>3. Honest => HonestResult
  BY DEF Honest
<1> QED
  BY <1>1, <1>2, <1>3, ResponsesInit, HonestInit, LockInvariant, PTL DEF Spec

-----------------------------------------------------------------------------
(***************************************************************************)
(* The transaction at the server and what the connection knows of it.      *)
(* While nobody reads a response, an open transaction is known.  While a   *)
(* command reads, it may be unknown only if the text is to end it and that *)
(* has not happened: the statement is still to be run, or was refused, and *)
(* then the loop has seen the error when the response ends and restores    *)
(* what was known.  A reader is handed out with a row, which no text that  *)
(* only ends a transaction brings; a batch does, and is excluded.          *)
(***************************************************************************)
Remainders(t) ==
    CASE t = "query" -> {<<>>, <<"query">>}
      [] t = "begin" -> {<<>>, <<"begin">>}
      [] t = "end"   -> {<<>>, <<"end">>}
      [] t = "batch" -> {<<>>, <<"end">>, <<"query", "end">>, <<"begin", "query", "end">>}

ToBeEnded(c) ==
    /\ phase[c] = "wait" /\ EndsTransaction(text[c])
    /\ c \in erred \/ (queries # <<>> /\ queries[1].rest # <<>>)

Answering(c) ==
    /\ queries # <<>> => queries[1].rest \in Remainders(text[c])
    /\ queries # <<>> /\ text[c] = "begin" => inTransaction
    /\ text[c] = "end" => ~Carries(buffer, "row") /\ ~Carries(wire, "row")
    /\ serverTx /\ text[c] \in {"query", "end"} => prevInTransaction[c]
    /\ serverTx => inTransaction \/ ToBeEnded(c)

Known ==
    /\ inTransaction \in BOOLEAN /\ prevInTransaction \in [Commands -> BOOLEAN]
    /\ serverTx => socket = "open"
    /\ serverTx /\ Quiet => inTransaction
    /\ \A c \in Commands : phase[c] # "none" /\ mode[c] = "reader" => text[c] # "batch"
    /\ \A c \in Commands : serverTx /\ phase[c] \in {"drain", "send"} => prevInTransaction[c]
    /\ \A c \in Commands : Reading(c) => Answering(c)

LEMMA KnownInit == Init => Known
BY DEF Init, Known, Reading, Quiet

\* A text as it is sent, and what is left of it after its next statement.
LEMMA ScriptRemains ==
    ASSUME NEW t \in Texts
    PROVE  Script(t) \in Remainders(t) /\ Script(t) # <<>>
<1>1. CASE t = "query"
  BY <1>1, SMT DEF Script, Remainders
<1>2. CASE t = "begin"
  BY <1>2, SMT DEF Script, Remainders
<1>3. CASE t = "end"
  BY <1>3, SMT DEF Script, Remainders
<1>4. CASE t = "batch"
  BY <1>4, SMT DEF Script, Remainders
<1> QED
  BY <1>1, <1>2, <1>3, <1>4 DEF Texts

LEMMA TailRemains ==
    ASSUME NEW t \in Texts, NEW r \in Remainders(t), r # <<>>
    PROVE  /\ Tail(r) \in Remainders(t)
           /\ EndsTransaction(t) /\ r[1] # "end" => Tail(r) # <<>>
           /\ r[1] = "begin" => StartsTransaction(t)
           /\ t = "end" => r[1] = "end"
<1>1. CASE t = "query"
  <2>1. r = <<"query">>
    BY <1>1 DEF Remainders
  <2> QED
    BY <1>1, <2>1, SMT DEF Remainders, EndsTransaction
<1>2. CASE t = "begin"
  <2>1. r = <<"begin">>
    BY <1>2 DEF Remainders
  <2> QED
    BY <1>2, <2>1, SMT DEF Remainders, EndsTransaction, StartsTransaction
<1>3. CASE t = "end"
  <2>1. r = <<"end">>
    BY <1>3 DEF Remainders
  <2> QED
    BY <1>3, <2>1, SMT DEF Remainders
<1>4. CASE t = "batch"
  <2>1. Remainders(t) = {<<>>, <<"end">>, <<"query", "end">>, <<"begin", "query", "end">>}
    BY <1>4 DEF Remainders
  <2>2. CASE r = <<"end">>
    BY <1>4, <2>1, <2>2, SMT
  <2>3. CASE r = <<"query", "end">>
    <3>1. Tail(r) = <<"end">> /\ r[1] = "query"
      BY <2>3, SMT
    <3>2. <<"end">> # <<>>
      BY SMT
    <3> QED
      BY <1>4, <2>1, <3>1, <3>2, Zenon
  <2>4. CASE r = <<"begin", "query", "end">>
    <3>1. Tail(r) = <<"query", "end">> /\ r[1] = "begin"
      BY <2>4, SMT
    <3>2. <<"query", "end">> # <<>>
      BY SMT
    <3> QED
      BY <1>4, <2>1, <3>1, <3>2 DEF StartsTransaction
  <2> QED
    BY <2>1, <2>2, <2>3, <2>4
<1> QED
  BY <1>1, <1>2, <1>3, <1>4 DEF Texts

\* Messages move or are taken; nothing else of this changes.
LEMMA KnownMoves ==
    ASSUME Known, UNCHANGED <<socket, inTransaction, phase, mode, text, prevInTransaction,
                              queries, serverTx, erred>>,
           Carries(buffer', "row") \/ Carries(wire', "row") =>
               Carries(buffer, "row") \/ Carries(wire, "row")
    PROVE  Known'
<1>1. \A c \in Commands : (Reading(c)' <=> Reading(c)) /\ (ToBeEnded(c)' <=> ToBeEnded(c))
  BY DEF Reading, ToBeEnded
<1> QED
  BY <1>1 DEF Known, Answering, Quiet

LEMMA KnownKept ==
    ASSUME Known, UNCHANGED <<socket, inTransaction, phase, mode, text, prevInTransaction,
                              queries, serverTx, erred, buffer, wire>>
    PROVE  Known'
<1>1. \A k : (Carries(buffer', k) <=> Carries(buffer, k)) /\ (Carries(wire', k) <=> Carries(wire, k))
  BY DEF Carries
<1> QED
  BY <1>1, KnownMoves

\* The session is lost, or was lost before.
LEMMA KnownLost ==
    ASSUME Known, ~serverTx', Silent', inTransaction' \in BOOLEAN,
           UNCHANGED <<phase, mode, text, prevInTransaction>>,
           Carries(buffer', "row") => Carries(buffer, "row")
    PROVE  Known'
<1>1. \A c \in Commands : Reading(c)' <=> Reading(c)
  BY DEF Reading
<1>2. ~Carries(wire', "row")
  BY NothingCarried DEF Silent
<1>3. \A c \in Commands : Reading(c) => Answering(c)'
  BY <1>2 DEF Known, Answering, Silent
<1> QED
  BY <1>1, <1>3 DEF Known, Quiet

LEMMA LostFragment ==
    ASSUME Responses, FragmentLeft
    PROVE  Carries(buffer', "row") => Carries(buffer, "row")
<1>1. CASE UNCHANGED buffer
  BY <1>1 DEF Carries
<1>2. CASE buffer' = Append(buffer, [cmd |-> wire[1].cmd, kind |-> "fragment"])
  <2>1. buffer \in Seq(Messages)
    BY DEF Responses, Typed
  <2> QED
    BY <1>2, <2>1, SMT DEF Carries
<1> QED
  BY <1>1, <1>2 DEF FragmentLeft

\* A command ends, and what the server has open is known.
LEMMA KnownOver ==
    ASSUME Lock, Known, NEW c \in Commands, Busy(c), NEW p \in {"ended", "done"},
           phase' = [phase EXCEPT ![c] = p], UNCHANGED <<mode, text, prevInTransaction>>,
           inTransaction' \in BOOLEAN, serverTx' => socket' = "open" /\ inTransaction'
    PROVE  Known'
<1>1. \A d \in Commands : phase'[d] \in {"none", "ended", "done"} /\ (phase'[d] = "none" => phase[d] = "none")
  BY DEF Lock, Busy, Phases
<1>2. \A d \in Commands : phase[d] = "none" => phase'[d] = "none"
  BY DEF Lock, Busy
<1>3. \A d \in Commands : ~Reading(d)'
  BY <1>1 DEF Reading
<1> QED
  BY <1>1, <1>2, <1>3, Zenon DEF Known

LEMMA KnownExecute ==
    ASSUME Lock, Responses, Known, NEW m \in {"execute", "reader"}, NEW t \in Texts,
           m = "reader" => t # "batch", mode \in [Commands -> {"execute", "reader"}],
           Execute(m, t)
    PROVE  Known'
<1> DEFINE c == commandGeneration + 1
<1>1. /\ c \in Commands /\ ~executing
      /\ mode' = [mode EXCEPT ![c] = m] /\ text' = [text EXCEPT ![c] = t]
      /\ prevInTransaction' = [prevInTransaction EXCEPT ![c] = inTransaction]
      /\ UNCHANGED <<serverTx, socket, inTransaction>>
      /\ \E p \in {"send", "drain"} : phase' = [phase EXCEPT ![c] = p]
  BY DEF Execute, server, flags
<1>2. \A d \in Commands : phase[d] \in {"none", "done"}
  BY <1>1 DEF Lock, Busy, Phases
<1>3. \A d \in Commands : ~Reading(d) /\ ~Reading(d)'
  BY <1>1, <1>2 DEF Reading, Lock
<1>4. \A d \in Commands : d # c => /\ phase'[d] = phase[d] /\ mode'[d] = mode[d] /\ text'[d] = text[d]
                                   /\ prevInTransaction'[d] = prevInTransaction[d]
  BY <1>1 DEF Lock, Known, Responses, Typed
<1>5. mode'[c] = m /\ text'[c] = t /\ prevInTransaction'[c] = inTransaction
  BY <1>1 DEF Known, Responses, Typed
<1>6. prevInTransaction' \in [Commands -> BOOLEAN]
  BY <1>1 DEF Known
<1> QED
  BY <1>1, <1>2, <1>3, <1>4, <1>5, <1>6 DEF Known, Quiet

LEMMA KnownConsumed ==
    ASSUME Responses, Known, buffer # <<>>, Consume,
           UNCHANGED <<socket, inTransaction, phase, mode, text, prevInTransaction,
                       queries, serverTx, erred, wire>>
    PROVE  Known'
<1>1. Carries(buffer', "row") => Carries(buffer, "row")
  BY TailCarries DEF Consume, Responses, Typed
<1>2. Carries(wire', "row") => Carries(wire, "row")
  BY DEF Carries
<1> QED
  BY <1>1, <1>2, KnownMoves

\* The reader is handed out: its text is not one that ends a transaction.
LEMMA KnownHandOut ==
    ASSUME Lock, Responses, Known, NEW c \in Commands, HandOut(c)
    PROVE  Known'
<1>1. /\ phase[c] = "wait" /\ mode[c] = "reader" /\ buffer # <<>> /\ buffer[1].kind = "row"
      /\ Consume
      /\ UNCHANGED <<socket, inTransaction, mode, text, prevInTransaction, queries, serverTx,
                     erred, wire>>
      /\ \E p \in {"open", "closing"} : phase' = [phase EXCEPT ![c] = p]
  BY DEF HandOut, HandsOut, Received, NoFault, flags, server, locals
<1>2. Carries(buffer, "row")
  <2>1. 1 \in 1..Len(buffer)
    BY <1>1, SMT DEF Responses, Typed
  <2> QED
    BY <1>1, <2>1, Zenon DEF Carries
<1>3. Reading(c) /\ Answering(c) /\ text[c] \in Texts \ {"end", "batch"}
  BY <1>1, <1>2 DEF Reading, Known, Answering, Responses, Typed
<1>4. ~ToBeEnded(c)
  BY <1>3 DEF ToBeEnded, EndsTransaction
<1>5. Answering(c)'
  BY <1>1, <1>3, <1>4 DEF Answering
<1>6. \A d \in Commands : d # c => ~Reading(d)' /\ phase'[d] = phase[d] /\ phase[d] \in {"none", "done"}
  BY <1>1 DEF Lock, Busy, Reading, Phases
<1>7. Reading(c)' /\ phase'[c] \in {"open", "closing"}
  BY <1>1 DEF Lock, Reading
<1> QED
  BY <1>1, <1>5, <1>6, <1>7 DEF Known, Quiet

\* The end of a response: what was known is restored if it ended in an error.
LEMMA KnownEnds ==
    ASSUME Lock, Responses, Honest, Known, NEW c \in Commands, ResponseEnds(c)
    PROVE  Known'
<1>1. /\ buffer # <<>> /\ buffer[1].kind = "ready" /\ Reading(c) /\ Busy(c)
      /\ inTransaction' = IF phase[c] = "wait" /\ c \in failed THEN Restored(c)
                          ELSE inTransaction
      /\ UNCHANGED <<socket, serverTx, mode, text, prevInTransaction>>
      /\ \E p \in {"ended", "done"} : phase' = [phase EXCEPT ![c] = p]
  BY DEF ResponseEnds, Received, Release, Reading, Busy, NoFault, flags, server, locals
<1>2. Tail(buffer) = <<>> /\ ~NoReady(buffer) /\ wire = <<>> /\ queries = <<>>
  BY <1>1, TailMessages DEF Responses, Typed, Orderly, Silent
<1>3. ~Carries(buffer, "error") /\ ~Carries(wire, "error")
  BY <1>1, <1>2, TailCarries, NothingCarried DEF Responses, Typed
<1>4. phase[c] = "wait" /\ c \in erred => c \in failed
  BY <1>2, <1>3 DEF Honest, Noted
<1>5. Answering(c) /\ text[c] \in Texts
  BY <1>1 DEF Known, Responses, Typed
<1>6. inTransaction' \in BOOLEAN
  BY <1>1 DEF Known, Restored
<1>7. serverTx => inTransaction'
  <2>1. CASE phase[c] = "wait" /\ c \in failed
    BY <1>1, <1>5, <2>1
    DEF Answering, Restored, ToBeEnded, Texts, StartsTransaction, EndsTransaction
  <2>2. CASE ~(phase[c] = "wait" /\ c \in failed)
    BY <1>1, <1>2, <1>4, <1>5, <2>2 DEF Answering, ToBeEnded
  <2> QED
    BY <2>1, <2>2
<1> QED
  BY <1>1, <1>6, <1>7, KnownOver DEF Known

\* A failure that ends the session as well.
LEMMA KnownThrown ==
    ASSUME Lock, Known, NEW c \in Commands, Reading(c), GeneratorThrows(c), ~serverTx'
    PROVE  Known'
<1>1. /\ Busy(c) /\ inTransaction' \in BOOLEAN /\ UNCHANGED <<mode, text, prevInTransaction>>
      /\ \E p \in {"ended", "done"} : phase' = [phase EXCEPT ![c] = p]
  BY DEF GeneratorThrows, Release, Reading, Busy, locals, Known, Restored
<1> QED
  BY <1>1, KnownOver

LEMMA KnownSend ==
    ASSUME Lock, Responses, Known, NEW c \in Commands, Send(c)
    PROVE  Known'
<1>1. /\ phase[c] = "send" /\ socket = "open"
      /\ inTransaction' = Tracked(text[c])
      /\ queries' = Append(queries, [cmd |-> c, rest |-> Script(text[c])])
      /\ phase' = [phase EXCEPT ![c] = "wait"]
      /\ UNCHANGED <<socket, buffer, wire, mode, text, prevInTransaction, serverTx>>
  BY DEF Send, flags, locals
<1>2. Busy(c) /\ Quiet
  BY <1>1, OnlyOneReads DEF Busy, Reading, Quiet
<1>3. buffer = <<>> /\ wire = <<>> /\ queries = <<>>
  BY <1>1, <1>2 DEF Responses, Owned, Silent
<1>4. text[c] \in Texts
  BY DEF Responses, Typed
<1>5. queries' # <<>> /\ queries'[1].rest = Script(text[c])
  BY <1>1, <1>3, SMT
<1>6. ~Carries(buffer', "row") /\ ~Carries(wire', "row")
  BY <1>1, <1>3, NothingCarried
<1>7. serverTx => inTransaction /\ prevInTransaction[c]
  BY <1>1, <1>2 DEF Known
<1>8. phase'[c] = "wait" /\ Reading(c)'
  BY <1>1 DEF Lock, Reading
<1>9. ToBeEnded(c)' <=> EndsTransaction(text[c])
  BY <1>1, <1>4, <1>5, <1>8, ScriptRemains DEF ToBeEnded
<1>10. Answering(c)'
  BY <1>1, <1>4, <1>5, <1>6, <1>7, <1>9, ScriptRemains
  DEF Answering, Tracked, Texts, StartsTransaction, EndsTransaction
<1>11. \A d \in Commands : d # c => ~Reading(d)' /\ phase'[d] = phase[d] /\ phase[d] \in {"none", "done"}
  BY <1>1, <1>2 DEF Lock, Busy, Reading, Phases
<1>12. inTransaction' \in BOOLEAN
  BY <1>1 DEF Tracked, Known, StartsTransaction
<1> QED
  BY <1>1, <1>8, <1>10, <1>11, <1>12 DEF Known, Quiet

LEMMA KnownProgress ==
    ASSUME ~LocalFailures, Lock, Responses, Honest, Known, NEW c \in Commands, Progress(c)
    PROVE  Known'
<1>1. CASE Readable(c) \/ OrphanReadable(c)
  <2>1. /\ buffer = <<>> /\ \E k \in 1..Len(wire) : Pull(k)
        /\ UNCHANGED <<socket, inTransaction, phase, mode, text, prevInTransaction, queries,
                       serverTx, erred>>
    BY <1>1 DEF Readable, OrphanReadable, TakesArrived, locals, server, flags
  <2>2. PICK k \in 1..Len(wire) : Pull(k)
    BY <2>1
  <2>3. wire \in Seq(Messages) /\ k \in 0..Len(wire)
    BY <2>2, SMT DEF Responses, Typed
  <2>4. buffer' = SubSeq(wire, 1, k) /\ wire' = SubSeq(wire, k + 1, Len(wire))
    <3>1. SubSeq(wire, 1, k) \in Seq(Messages)
      BY <2>3, SplitMessages
    <3>2. <<>> \o SubSeq(wire, 1, k) = SubSeq(wire, 1, k)
      BY <3>1, SMT
    <3> QED
      BY <2>1, <2>2, <3>2 DEF Pull
  <2>5. Carries(buffer', "row") \/ Carries(wire', "row") => Carries(wire, "row")
    BY <2>3, <2>4, SplitCarries
  <2> QED
    BY <2>1, <2>5, KnownMoves
<1>2. CASE Drain(c)
  <2>1. /\ phase[c] = "drain" /\ Busy(c)
        /\ UNCHANGED <<socket, inTransaction, mode, text, prevInTransaction, serverTx>>
        /\ \E p \in {"send", "drain"} : phase' = [phase EXCEPT ![c] = p]
    BY <1>2 DEF Drain, NoFault, flags, server, locals, Busy, Lock
  <2>2. Quiet
    BY <2>1, OnlyOneReads DEF Reading, Quiet
  <2>3. \A d \in Commands : ~Reading(d)' /\ (d # c => phase'[d] = phase[d])
    BY <2>1, <2>2 DEF Quiet, Reading, Lock
  <2>4. phase'[c] \in {"send", "drain"}
    BY <2>1 DEF Lock
  <2> QED
    BY <2>1, <2>2, <2>3, <2>4 DEF Known, Quiet
<1>3. CASE DrainFails(c) \/ SendFails(c)
  <2>1. /\ Busy(c) /\ phase[c] \in {"drain", "send"} /\ inTransaction' = prevInTransaction[c]
        /\ phase' = [phase EXCEPT ![c] = "done"] /\ UNCHANGED <<mode, text, prevInTransaction>>
        /\ ~serverTx' \/ UNCHANGED <<socket, serverTx>>
    BY <1>3 DEF DrainFails, SendFails, Release, NoFault, Fault, SessionLost, flags, server,
                locals, Busy
  <2>2. inTransaction' \in BOOLEAN /\ (serverTx' => socket' = "open" /\ inTransaction')
    BY <2>1 DEF Known
  <2> QED
    BY <2>1, <2>2, KnownOver
<1>4. CASE Send(c)
  BY <1>4, KnownSend
<1>5. CASE Skip(c)
  BY <1>5, KnownConsumed DEF Skip, Received, NoFault, flags, server, locals
<1>6. CASE HandOut(c)
  BY <1>6, KnownHandOut
<1>7. CASE SeeError(c)
  BY <1>7, KnownConsumed DEF SeeError, Received, NoFault, flags, server, locals
<1>8. CASE ResponseEnds(c)
  BY <1>8, KnownEnds
<1>9. CASE ExternalTableFails(c)
  BY <1>9 DEF ExternalTableFails
<1>10. CASE BadFrame(c)
  BY <1>10, KnownThrown DEF BadFrame, Fault, SessionLost
<1>11. CASE ReadFails(c)
  <2>1. /\ Reading(c) /\ GeneratorThrows(c) /\ UNCHANGED serverTx
        /\ socket # "open" \/ ~stream
    BY <1>11 DEF ReadFails, NoFault, server
  <2>2. ~serverTx
    BY <2>1 DEF Known, Responses, Sockets
  <2> QED
    BY <2>1, <2>2, KnownThrown
<1>12. CASE ReleaseReader(c)
  <2>1. /\ Busy(c) /\ ~Reading(c) /\ phase' = [phase EXCEPT ![c] = "done"]
        /\ UNCHANGED <<socket, inTransaction, mode, text, prevInTransaction, serverTx>>
    BY <1>12 DEF ReleaseReader, Release, NoFault, flags, server, locals, Busy, Reading
  <2>2. Quiet
    BY <2>1, OnlyOneReads DEF Quiet
  <2> QED
    BY <2>1, <2>2, KnownOver DEF Known
<1> QED
  BY <1>1, <1>2, <1>3, <1>4, <1>5, <1>6, <1>7, <1>8, <1>9, <1>10, <1>11, <1>12 DEF Progress

LEMMA KnownCall ==
    ASSUME "batch" \notin ReaderTexts, Lock, Responses, Honest, Known, Call
    PROVE  Known'
<1>1. CASE Connect
  <2>1. /\ ~serverTx' /\ Silent'
        /\ UNCHANGED <<inTransaction, phase, mode, text, prevInTransaction, buffer>>
    BY <1>1 DEF Connect, server, locals, Known, Responses, Sockets, Silent
  <2> QED
    BY <2>1, KnownLost DEF Carries, Known
<1>2. CASE CloseBegins
  <2>1. /\ inTransaction' = FALSE /\ UNCHANGED <<phase, mode, text, prevInTransaction>>
    BY <1>2 DEF CloseBegins, locals
  <2>2. CASE socket \in {"none", "destroyed"}
    <3>1. ~serverTx' /\ Silent' /\ UNCHANGED buffer
      BY <1>2, <2>2 DEF CloseBegins, server, Known, Responses, Sockets, Silent
    <3> QED
      BY <2>1, <3>1, KnownLost DEF Carries
  <2>3. CASE socket \notin {"none", "destroyed"}
    <3>1. ~serverTx' /\ Silent' /\ FragmentLeft
      BY <1>2, <2>3 DEF CloseBegins, SessionLost, Silent
    <3> QED
      BY <2>1, <3>1, KnownLost, LostFragment
  <2> QED
    BY <2>2, <2>3
<1>3. CASE \E t \in ExecuteTexts : Execute("execute", t)
  BY <1>3, KnownExecute, TextsAssumption DEF Honest, Promised
<1>4. CASE \E t \in ReaderTexts : Execute("reader", t)
  BY <1>4, KnownExecute, TextsAssumption DEF Honest, Promised
<1>5. CASE ExecuteRefused
  BY <1>5, KnownKept DEF ExecuteRefused, flags, locals, server
<1>6. CASE Cancel
  BY <1>6, KnownKept DEF Cancel, flags, locals, server
<1>7. CASE \E c \in Commands : CloseReader(c)
  <2>1. PICK c \in Commands : CloseReader(c)
    BY <1>7
  <2>2. /\ phase[c] = "open" /\ phase' = [phase EXCEPT ![c] = "closing"]
        /\ UNCHANGED <<socket, inTransaction, mode, text, prevInTransaction, queries, serverTx,
                       erred, buffer, wire>>
    BY <2>1 DEF CloseReader, NoFault, flags, server, locals
  <2>3. \A d \in Commands : /\ Reading(d)' <=> Reading(d)
                            /\ ToBeEnded(d)' <=> ToBeEnded(d)
                            /\ phase'[d] \in {"none", "drain", "send"} <=> phase[d] \in {"none", "drain", "send"}
                            /\ phase'[d] = phase[d] \/ d = c
    BY <2>2 DEF Reading, Lock, ToBeEnded
  <2>4. \A d \in Commands : Answering(d)' <=> Answering(d)
    BY <2>2, <2>3 DEF Answering, Carries
  <2> QED
    BY <2>2, <2>3, <2>4 DEF Known, Quiet
<1> QED
  BY <1>1, <1>2, <1>3, <1>4, <1>5, <1>6, <1>7 DEF Call

-----------------------------------------------------------------------------
\* The server goes on with the text of the command that reads: with what is
\* left of it, and with a transaction that is known or to be ended.
LEMMA KnownSaid ==
    ASSUME Lock, Responses, Known, queries # <<>>,
           NEW c \in Commands, c = queries[1].cmd, NEW kinds \in Seq(Kinds), Say(c, kinds),
           UNCHANGED <<socket, inTransaction, buffer, phase, mode, text, prevInTransaction>>,
           text[c] = "end" => \A i \in 1..Len(kinds) : kinds[i] # "row",
           queries' = <<>> \/ queries'[1].rest \in Remainders(text[c]),
           serverTx' /\ text[c] \in {"query", "end"} => serverTx,
           serverTx' => inTransaction \/ ToBeEnded(c)'
    PROVE  Known'
<1> DEFINE t == [i \in DOMAIN kinds |-> [cmd |-> c, kind |-> kinds[i]]]
<1>1. /\ Reading(c) /\ wire \in Seq(Messages) /\ socket = "open"
      /\ \A d \in Commands : Reading(d) => d = c
  BY QueryIsRead DEF Responses, Typed
<1>2. wire' = wire \o t
  BY DEF Say
<1> HIDE DEF t
<1>3. t \in Seq(Messages) /\ (Carries(t, "row") <=> \E i \in 1..Len(kinds) : kinds[i] = "row")
  BY SaidMessages, SaidCarries DEF t
<1>4. Carries(wire', "row") <=> Carries(wire, "row") \/ Carries(t, "row")
  BY <1>1, <1>2, <1>3, JoinedCarry
<1>5. Carries(buffer', "row") <=> Carries(buffer, "row")
  BY DEF Carries
<1>6. Answering(c)
  BY <1>1 DEF Known
<1>7. Answering(c)'
  BY <1>3, <1>4, <1>5, <1>6 DEF Answering
<1>8. \A d \in Commands : (Reading(d)' <=> Reading(d)) /\ phase'[d] \notin {"drain", "send"}
  BY <1>1, OnlyOneReads DEF Lock, Busy, Reading
<1> QED
  BY <1>1, <1>7, <1>8 DEF Known, Quiet

\* What the query becomes when its rest does.
LEMMA RestReplaced ==
    ASSUME Responses, queries # <<>>, NEW r, queries' = [queries EXCEPT ![1].rest = r]
    PROVE  queries' # <<>> /\ queries'[1].rest = r
<1>1. queries \in Seq([cmd : Commands, rest : Seq(Statements)]) /\ Len(queries) = 1
  BY QueryIsRead DEF Responses, Typed
<1>2. queries[1] \in [cmd : Commands, rest : Seq(Statements)] /\ 1 \in DOMAIN queries
  BY <1>1, QueryIsRead, SMT
<1> DEFINE q == [queries[1] EXCEPT !.rest = r]
<1>3. q.rest = r
  BY <1>2
<1>4. queries' = [queries EXCEPT ![1] = q]
  OBVIOUS
<1> HIDE DEF q
<1>5. queries'[1] = q /\ DOMAIN queries' = DOMAIN queries
  BY <1>2, <1>4
<1>6. queries' # <<>>
  BY <1>2, <1>5, SMT
<1> QED
  BY <1>3, <1>5, <1>6

\* A statement fails or is cancelled: the rest of the text is dropped.
LEMMA KnownRefused ==
    ASSUME Lock, Responses, Known, queries # <<>>, queries[1].rest # <<>>,
           NEW c \in Commands, c = queries[1].cmd, NEW kinds \in Seq(Kinds), Say(c, kinds),
           queries[1].rest[1] # "query" => \A i \in 1..Len(kinds) : kinds[i] # "row",
           queries' = [queries EXCEPT ![1].rest = <<>>],
           erred' = erred \cup {c},
           UNCHANGED <<socket, inTransaction, buffer, phase, mode, text, prevInTransaction, serverTx>>
    PROVE  Known'
<1>1. Reading(c) /\ Answering(c) /\ text[c] \in Texts
  BY QueryIsRead DEF Known, Responses, Typed
<1>2. queries[1].rest \in Remainders(text[c])
  BY <1>1 DEF Answering
<1>3. queries'[1].rest = <<>>
  BY RestReplaced
<1>4. text[c] = "end" => queries[1].rest[1] = "end"
  BY <1>1, <1>2, TailRemains
<1>5. <<>> \in Remainders(text[c])
  BY <1>1 DEF Remainders, Texts
<1>6. ToBeEnded(c) => ToBeEnded(c)'
  BY DEF ToBeEnded
<1>7. serverTx' => inTransaction \/ ToBeEnded(c)'
  BY <1>1, <1>6 DEF Answering
<1> QED
  BY <1>1, <1>3, <1>4, <1>5, <1>7, KnownSaid

LEMMA KnownServer ==
    ASSUME ~LocalFailures, Lock, Responses, Honest, Known, Server
    PROVE  Known'
<1> queries # <<>>
  BY DEF Server, ServerRuns, ServerFails, ServerReady
<1> PICK c \in Commands : c = queries[1].cmd
  BY QueryIsRead
<1>1. Reading(c) /\ Answering(c) /\ text[c] \in Texts
  BY QueryIsRead DEF Known, Responses, Typed
<1>2. CASE ServerRuns
  <2> DEFINE r == queries[1].rest
  <2>1. /\ r # <<>> /\ queries' = [queries EXCEPT ![1].rest = Tail(r)]
        /\ serverTx' = (r[1] = "begin" \/ (r[1] = "query" /\ serverTx))
        /\ UNCHANGED <<socket, inTransaction, buffer, phase, mode, text, prevInTransaction, erred>>
    BY <1>2 DEF ServerRuns, flags, locals
  <2>2. PICK kinds \in Answers(r[1]) : Say(c, kinds)
    BY <1>2 DEF ServerRuns
  <2>3. kinds \in Seq(Kinds) /\ (r[1] # "query" => \A i \in 1..Len(kinds) : kinds[i] # "row")
    BY <2>2, AnswersSpelt
  <2>4. r \in Remainders(text[c])
    BY <1>1, <2>1 DEF Answering
  <2>5. /\ Tail(r) \in Remainders(text[c])
        /\ EndsTransaction(text[c]) /\ r[1] # "end" => Tail(r) # <<>>
        /\ r[1] = "begin" => StartsTransaction(text[c])
        /\ text[c] = "end" => r[1] = "end"
    BY <1>1, <2>1, <2>4, TailRemains
  <2>6. queries' # <<>> /\ queries'[1].rest = Tail(r)
    BY <2>1, RestReplaced
  <2> HIDE DEF r
  <2>7. CASE r[1] = "begin"
    <3>1. text[c] = "begin" \/ text[c] = "batch"
      BY <2>5, <2>7 DEF StartsTransaction
    <3>2. text[c] = "begin" => inTransaction
      BY <1>1, <2>1 DEF Answering
    <3>3. ASSUME text[c] = "batch" PROVE ToBeEnded(c)'
      <4>1. phase[c] = "wait"
        BY <1>1, <3>3 DEF Known, Honest, Promised, Reading
      <4> QED
        BY <2>1, <2>5, <2>6, <2>7, <3>3, <4>1 DEF ToBeEnded, EndsTransaction
    <3> QED
      BY <2>1, <2>2, <2>3, <2>5, <2>6, <3>1, <3>2, <3>3, KnownSaid
  <2>8. CASE r[1] = "query" /\ serverTx
    <3>1. ToBeEnded(c) => ToBeEnded(c)'
      BY <2>1, <2>5, <2>6, <2>8 DEF ToBeEnded
    <3>2. serverTx' => inTransaction \/ ToBeEnded(c)'
      BY <1>1, <2>1, <2>8, <3>1 DEF Answering
    <3> QED
      BY <2>1, <2>2, <2>3, <2>5, <2>6, <2>8, <3>2, KnownSaid
  <2>9. CASE ~serverTx'
    BY <2>1, <2>2, <2>3, <2>5, <2>6, <2>9, KnownSaid
  <2> QED
    BY <2>1, <2>7, <2>8, <2>9
<1>3. CASE ServerFails
  <2>1. PICK kinds \in Refusing(queries[1].rest[1]) : Say(c, kinds)
    BY <1>3 DEF ServerFails
  <2>2. /\ kinds \in Seq(Kinds)
        /\ queries[1].rest[1] # "query" => \A i \in 1..Len(kinds) : kinds[i] # "row"
    BY <2>1, RefusalsSpelt
  <2>3. /\ queries[1].rest # <<>> /\ erred' = erred \cup {c}
        /\ queries' = [queries EXCEPT ![1].rest = <<>>]
        /\ UNCHANGED <<socket, inTransaction, buffer, phase, mode, text, prevInTransaction, serverTx>>
    BY <1>3 DEF ServerFails, flags, locals
  <2> QED
    BY <2>1, <2>2, <2>3, KnownRefused
<1>4. CASE ServerReady
  <2>1. /\ queries[1].rest = <<>> /\ Say(c, <<"ready">>) /\ queries' = Tail(queries)
        /\ UNCHANGED <<socket, inTransaction, buffer, phase, mode, text, prevInTransaction,
                       serverTx, erred>>
    BY <1>4 DEF ServerReady, flags, locals
  <2>2. <<"ready">> \in Seq(Kinds) /\ \A i \in 1..Len(<<"ready">>) : <<"ready">>[i] # "row"
    BY SMT DEF Kinds
  <2>3. queries' = <<>>
    <3>1. queries \in Seq([cmd : Commands, rest : Seq(Statements)]) /\ Len(queries) = 1
      BY QueryIsRead DEF Responses, Typed
    <3>2. Tail(queries) \in Seq([cmd : Commands, rest : Seq(Statements)]) /\ Len(Tail(queries)) = 0
      BY <3>1, SMT
    <3> QED
      BY <2>1, <3>2, EmptySeq
  <2>4. ToBeEnded(c) => ToBeEnded(c)'
    BY <2>1 DEF ToBeEnded
  <2>5. serverTx' => inTransaction \/ ToBeEnded(c)'
    BY <1>1, <2>1, <2>4 DEF Answering
  <2> QED
    BY <2>1, <2>2, <2>3, <2>5, KnownSaid
<1> QED
  BY <1>2, <1>3, <1>4 DEF Server

LEMMA KnownCancelled ==
    ASSUME Lock, Responses, Known, NEW g, ServerCancels(g)
    PROVE  Known'
<1>1. UNCHANGED <<socket, inTransaction, buffer, phase, mode, text, prevInTransaction, serverTx>>
  BY DEF ServerCancels, flags, locals
<1>2. CASE queries # <<>> /\ queries[1].rest # <<>>
  <2> PICK c \in Commands : c = queries[1].cmd
    BY <1>2, QueryIsRead
  <2>1. /\ Say(c, <<"error">>) /\ erred' = erred \cup {c}
        /\ queries' = [queries EXCEPT ![1].rest = <<>>]
    BY <1>2 DEF ServerCancels
  <2>2. <<"error">> \in Seq(Kinds) /\ \A i \in 1..Len(<<"error">>) : <<"error">>[i] # "row"
    BY SMT DEF Kinds
  <2> QED
    BY <1>1, <1>2, <2>1, <2>2, KnownRefused
<1>3. CASE ~(queries # <<>> /\ queries[1].rest # <<>>)
  BY <1>1, <1>3, KnownKept DEF ServerCancels
<1> QED
  BY <1>2, <1>3

LEMMA KnownNext ==
    ASSUME ~LocalFailures, "batch" \notin ReaderTexts
    PROVE  Lock /\ Responses /\ Honest /\ Known /\ [Next]_vars => Known'
<1> SUFFICES ASSUME Lock, Responses, Honest, Known, [Next]_vars PROVE Known'
  OBVIOUS
<1>1. CASE Call
  BY <1>1, KnownCall
<1>2. CASE ConnectSucceeds \/ ConnectFails
  <2>1. ~serverTx /\ Silent /\ inTransaction \in BOOLEAN
    BY <1>2 DEF ConnectSucceeds, ConnectFails, Known, Responses, Sockets
  <2>2. /\ inTransaction' = FALSE \/ inTransaction' = inTransaction
        /\ UNCHANGED <<phase, mode, text, prevInTransaction, buffer, wire, queries, serverTx>>
    BY <1>2 DEF ConnectSucceeds, ConnectFails, server, locals
  <2>3. ~serverTx' /\ Silent' /\ inTransaction' \in BOOLEAN
    BY <2>1, <2>2 DEF Silent
  <2> QED
    BY <2>2, <2>3, KnownLost DEF Carries
<1>3. CASE SocketDies
  <2>1. /\ ~serverTx' /\ Silent' /\ inTransaction' \in BOOLEAN /\ FragmentLeft
        /\ UNCHANGED <<phase, mode, text, prevInTransaction>>
    BY <1>3 DEF SocketDies, SessionLost, locals, Known, Silent
  <2> QED
    BY <2>1, KnownLost, LostFragment
<1>4. CASE \E w \in 0..MaxCommands : CloseEnds(w)
  <2>1. /\ closers # {} /\ UNCHANGED <<inTransaction, phase, mode, text, prevInTransaction, buffer,
                                       wire, queries, serverTx>>
    BY <1>4 DEF CloseEnds, server, locals
  <2>2. ~serverTx' /\ Silent'
    BY <2>1 DEF Known, Responses, Sockets, Silent
  <2> QED
    BY <2>1, <2>2, KnownLost DEF Carries, Known
<1>5. CASE \E c \in Commands : Progress(c)
  BY <1>5, KnownProgress
<1>6. CASE \E c \in Commands : TimeOut(c)
  BY <1>6, KnownKept DEF TimeOut, flags, server, locals
<1>7. CASE \E g \in 0..MaxCommands : CancelConnects(g)
  BY <1>7, KnownKept DEF CancelConnects, flags, server, locals
<1>8. CASE \E g \in 0..MaxCommands : CancelFails(g)
  BY <1>8, KnownKept DEF CancelFails, flags, server, locals
<1>9. CASE \E g \in 0..MaxCommands : ServerCancels(g)
  BY <1>9, KnownCancelled
<1>10. CASE Server
  BY <1>10, KnownServer
<1>11. CASE UNCHANGED vars
  BY <1>11, KnownKept DEF vars, flags, server, locals
<1> QED
  BY <1>1, <1>2, <1>3, <1>4, <1>5, <1>6, <1>7, <1>8, <1>9, <1>10, <1>11 DEF Next

(***************************************************************************)
(* Between commands the connection knows of every transaction that is open *)
(* at the server, so that the pool rolls it back: whatever failed, timed   *)
(* out, was cancelled, closed or reconnected before.  Excluded are a local *)
(* failure of an external table, and batches given to executeReader().     *)
(***************************************************************************)
THEOREM TransactionsAreTracked ==
    ASSUME ~LocalFailures, "batch" \notin ReaderTexts
    PROVE  Spec => []TransactionTracked
<1>1. Lock /\ Responses /\ [Next]_vars => Responses'
  BY ResponsesNext
<1>2. Lock /\ Responses /\ Honest /\ [Next]_vars => Honest'
  BY HonestNext
<1>3. Lock /\ Responses /\ Honest /\ Known /\ [Next]_vars => Known'
  BY KnownNext
<1>4. Lock /\ Known => TransactionTracked
  BY DEF Lock, Known, Quiet, Reading, Busy, TransactionTracked
<1> QED
  BY <1>1, <1>2, <1>3, <1>4, ResponsesInit, HonestInit, KnownInit, LockInvariant, PTL DEF Spec
=============================================================================
