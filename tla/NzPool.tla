------------------------------- MODULE NzPool -------------------------------
(***************************************************************************)
(* The connection pool of src/NzPool.ts.                                   *)
(*                                                                         *)
(* Node runs the pool's methods to completion, one callback at a time, so  *)
(* each synchronous method is an operator on the pool's state and each     *)
(* action below is one turn of the event loop: a call by the application,  *)
(* a process.nextTick callback, a timer, a settled promise or a socket     *)
(* event, with every method it calls applied in the order of the code.     *)
(***************************************************************************)
EXTENDS Naturals, FiniteSets, Sequences, SequencesExt

CONSTANTS
    Clients,            \* NzConnection objects
    Callers,            \* tasks of the application that call connect()
    Enders,             \* calls of end()
    None,               \* no client, no caller
    PoolMax,            \* config.max
    PoolMin,            \* config.min
    MaxUses,            \* config.maxUses, 0 for Infinity
    ConnectionTimeout,  \* is connectionTimeoutMillis set?
    IdleTimeout,        \* is idleTimeoutMillis set?
    MaxLifetime,        \* is maxLifetimeSeconds set?
    RollbackOnRelease,  \* config.rollbackOnRelease
    ErrorListener,      \* does the application listen to the pool's 'error'?
    MaxTicks,           \* bound: nextTick callbacks pending at once
    MaxLate             \* bound: removed clients with a promise or timer pending

ASSUME SizesAssumption ==
    /\ PoolMax \in Nat \ {0}
    /\ PoolMin \in 0..PoolMax
    /\ MaxUses \in Nat
    /\ MaxTicks \in Nat \ {0}
    /\ MaxLate \in Nat

ASSUME OptionsAssumption ==
    /\ ConnectionTimeout \in BOOLEAN
    /\ IdleTimeout \in BOOLEAN
    /\ MaxLifetime \in BOOLEAN
    /\ RollbackOnRelease \in BOOLEAN
    /\ ErrorListener \in BOOLEAN

(***************************************************************************)
(* There are enough object names for the clients the pool knows, those a   *)
(* caller still holds after their removal, and the late ones.              *)
(***************************************************************************)
ASSUME NamesAssumption ==
    /\ IsFiniteSet(Clients)
    /\ IsFiniteSet(Callers)
    /\ Cardinality(Clients) >= PoolMax + Cardinality(Callers) + MaxLate
    /\ None \notin Clients \cup Callers

VARIABLE pool

vars == <<pool>>

PoolState == [
    \* private fields of NzPool
    clients    : SUBSET Clients,    \* _clients
    connecting : SUBSET Clients,    \* _connecting
    request    : [Clients -> Callers \cup {None}],
                                    \* the unanswered PendingItem a connecting
                                    \* client was opened for (_connectingRequests)
    idle       : Seq(Clients),      \* _idle, a stack that grows at its end
    queue      : Seq(Callers),      \* _pendingQueue
    uses       : [Clients -> Nat],  \* _useCount
    expired    : SUBSET Clients,    \* _expired
    ending     : BOOLEAN,           \* _ending
    ended      : BOOLEAN,           \* _ended
    endWait    : SUBSET Enders,     \* end() calls chained in _endCallback
    endDone    : SUBSET Enders,     \* end() calls that have resolved
    \* armed timers and pending callbacks
    boot       : BOOLEAN,           \* nextTick of the constructor
    ticks      : Nat,               \* nextTick(_pulseQueue) of connect()
    idleTimer  : SUBSET Clients,    \* timeoutId of an idle item
    queueTimer : SUBSET Callers,    \* tid of a queued connect()
    connTimer  : SUBSET Clients,    \* tid of _newClient
    lifeTimer  : SUBSET Clients,    \* lifetimeTimer of _newClient
    dialing    : SUBSET Clients,    \* client.connect() has not settled
    warm       : SUBSET Clients,    \* dialled by _createIdleClient
    attached   : SUBSET Clients,    \* _attachClientLifecycle has run
    rolling    : SUBSET Clients,    \* client.rollback() has not settled
    inTx       : SUBSET Clients,    \* client.inTransaction
    \* the application
    waiting    : SUBSET Callers,    \* connect() has not settled
    holds      : [Callers -> Clients \cup {None}] ]
                                    \* the client a caller has to release

-----------------------------------------------------------------------------
(* Helpers *)

\* The sequence s without the element x, which occurs in it at most once.
Without(s, x) ==
    IF x \in ToSet(s)
    THEN RemoveAt(s, CHOOSE i \in DOMAIN s : s[i] = x)
    ELSE s

\* Mutant of Full: off by one.
FullOffByOne(p) == Cardinality(p.clients) > PoolMax

\* _isFull and _isAboveMin.
Full(p) == Cardinality(p.clients) >= PoolMax
AboveMin(p) == Cardinality(p.clients) > PoolMin

\* The clients that callers hold, known to the pool or already removed.
Held(p) == {p.holds[r] : r \in Callers} \ {None}

\* Removed clients that a promise or a timer will still mention.
Late(p) == (p.dialing \cup p.rolling \cup p.connTimer) \ p.clients

\* No nextTick callback is pending: timers and I/O may run.
Quiet(p) == p.ticks = 0 /\ ~p.boot

\* k names for new NzConnection objects, of objects nobody refers to.
NewNames(p, k) ==
    CHOOSE N \in SUBSET (Clients \ (p.clients \cup Held(p) \cup Late(p))) :
        Cardinality(N) = k

\* The connect() of r settles: its promise is no longer pending and the
\* wrapper of its callback clears the queue timer.
Settle(p, R) ==
    [p EXCEPT !.waiting = @ \ R, !.queueTimer = @ \ R]

-----------------------------------------------------------------------------
(* Methods *)

\* new NzConnection, its bookkeeping, and the call of its connect().
Dial(p, N) ==
    [p EXCEPT !.clients = @ \cup N,
              !.connecting = @ \cup N,
              !.dialing = @ \cup N,
              !.uses = [c \in Clients |-> IF c \in N THEN 0 ELSE @[c]]]

\* _newClient(pendingItem) up to the await of connect().
NewClient(p, r) ==
    LET N == NewNames(p, 1)
    IN  [Dial(p, N) EXCEPT
            !.request = [c \in Clients |-> IF c \in N THEN r ELSE @[c]],
            !.connTimer = IF ConnectionTimeout THEN @ \cup N ELSE @]

\* _ensureMinIdle: one _createIdleClient for each client missing to the minimum.
EnsureMinIdle(p) ==
    IF p.ending \/ p.ended \/ Cardinality(p.clients) >= PoolMin
    THEN p
    ELSE LET N == NewNames(p, PoolMin - Cardinality(p.clients))
         IN  [Dial(p, N) EXCEPT !.warm = @ \cup N]

\* Mutant of Drop: the request of a connecting client is not answered.
DropUnanswered(p, C) ==
    [p EXCEPT
        !.clients = @ \ C, !.connecting = @ \ C,
        !.request = [c \in Clients |-> IF c \in C THEN None ELSE @[c]],
        !.uses = [c \in Clients |-> IF c \in C THEN 0 ELSE @[c]],
        !.lifeTimer = @ \ C, !.expired = @ \ C, !.attached = @ \ C, !.inTx = @ \ C]

\* The part of _remove that does not concern the idle list, for the clients of
\* C, which the pool knows. close() ends their transactions; their lifetime
\* timers may still fire, but mark objects that nobody reaches any more.
Drop(p, C) ==
    [Settle(p, {p.request[c] : c \in C}) EXCEPT
        !.clients = @ \ C,
        !.connecting = @ \ C,
        !.request = [c \in Clients |-> IF c \in C THEN None ELSE @[c]],
        !.uses = [c \in Clients |-> IF c \in C THEN 0 ELSE @[c]],
        !.lifeTimer = @ \ C,
        !.expired = @ \ C,
        !.attached = @ \ C,
        !.inTx = @ \ C]

\* _remove(client), without its callback.
RemoveClient(p, c) ==
    IF c \notin p.clients
    THEN p
    ELSE [Drop(p, {c}) EXCEPT !.idle = Without(@, c), !.idleTimer = @ \ {c}]

\* _acquireClient: the caller's promise resolves with the client. The pending
\* item is unanswered whenever this is called, so its other branch is dead.
Acquire(p, c, r) ==
    [Settle(p, {r}) EXCEPT !.holds[r] = c]

\* _pulseQueue while the pool is ending: close what nobody uses, and resolve
\* every end() when no client is left.
PulseEnding(p) ==
    LET q == [Drop(p, (p.connecting \cap p.clients) \cup ToSet(p.idle)) EXCEPT
                !.idle = <<>>, !.idleTimer = {}]
    IN  IF q.clients = {}
        THEN [q EXCEPT !.ended = TRUE, !.endWait = {}, !.endDone = @ \cup q.endWait]
        ELSE q

\* Mutant of ServeNext: the idle timer of the popped item stays armed.
ServeNextTimerArmed(p) ==
    LET r == Head(p.queue)
        q == [p EXCEPT !.queue = Tail(@)]
    IN  IF q.idle # <<>>
        THEN Acquire([q EXCEPT !.idle = Front(@)], Last(q.idle), r)
        ELSE NewClient(q, r)

\* _pulseQueue when a queued request can be served: from the top of the idle
\* stack, else with a new client.
ServeNext(p) ==
    LET r == Head(p.queue)
        q == [p EXCEPT !.queue = Tail(@)]
    IN  IF q.idle # <<>>
        THEN LET c == Last(q.idle)
             IN  Acquire([q EXCEPT !.idle = Front(@), !.idleTimer = @ \ {c}], c, r)
        ELSE NewClient(q, r)

\* Can a queued request be served?
CanServe(p) == p.queue # <<>> /\ (p.idle # <<>> \/ ~Full(p))

\* _pulseQueue.
Pulse(p) ==
    CASE p.ended -> p
      [] ~p.ended /\ p.ending -> PulseEnding(p)
      [] ~p.ended /\ ~p.ending /\ CanServe(p) -> ServeNext(p)
      [] OTHER -> p

\* The callback most calls of _remove pass: _ensureMinIdle, then _pulseQueue.
Refill(p) == Pulse(EnsureMinIdle(p))

\* _pushIdle.
PushIdle(p, c) ==
    Pulse([p EXCEPT
            !.idle = Append(@, c),
            !.idleTimer = IF IdleTimeout /\ AboveMin(p) THEN @ \cup {c} ELSE @])

\* Mutant of ReleaseKnown: idle again before the rollback has settled.
ReleaseKnownIdleFirst(p, c, err) ==
    LET used == p.uses[c] + 1
        gone == err \/ p.ending \/ c \in p.expired \/ (MaxUses # 0 /\ used >= MaxUses)
        q == [p EXCEPT !.uses[c] = IF MaxUses = 0 THEN 0 ELSE used]
    IN  IF gone THEN Refill(RemoveClient(q, c)) ELSE PushIdle(q, c)

\* _release of a client the pool still knows; err tells whether the caller
\* passed an error.
ReleaseKnown(p, c, err) ==
    LET used == p.uses[c] + 1
        worn == MaxUses # 0 /\ used >= MaxUses
        q == [p EXCEPT !.uses[c] = IF MaxUses = 0 THEN 0 ELSE used]
    IN  CASE err \/ p.ending \/ worn \/ c \in p.expired -> Refill(RemoveClient(q, c))
          [] ~(err \/ p.ending \/ worn \/ c \in p.expired) ->
                IF RollbackOnRelease /\ c \in p.inTx
                THEN [q EXCEPT !.rolling = @ \cup {c}]
                ELSE PushIdle(q, c)

\* .then of connect() in _createIdleClient.
WarmReady(p, c) ==
    LET q == [p EXCEPT !.dialing = @ \ {c}, !.connecting = @ \ {c},
                       !.warm = @ \ {c}]
    IN  IF p.ending \/ p.ended
        THEN RemoveClient(q, c)
        ELSE Pulse([q EXCEPT !.attached = @ \cup {c}, !.idle = Append(@, c)])

\* Mutant of WarmFailed: the freed slot wakes nobody.
WarmFailedSilent(p, c) ==
    [p EXCEPT !.dialing = @ \ {c}, !.connecting = @ \ {c},
              !.warm = @ \ {c}, !.clients = @ \ {c}]

\* .catch of connect() in _createIdleClient: without a listener, emitting
\* 'error' throws and the rest of the handler does not run.
WarmFailed(p, c) ==
    LET q == [p EXCEPT !.dialing = @ \ {c}, !.connecting = @ \ {c},
                       !.warm = @ \ {c}, !.clients = @ \ {c}]
    IN  IF ErrorListener THEN Pulse(q) ELSE q

\* connect() of _newClient has settled: its maps and its timer are cleared.
Dialled(p, c) ==
    [p EXCEPT !.dialing = @ \ {c}, !.connecting = @ \ {c},
              !.request[c] = None, !.connTimer = @ \ {c}]

\* Mutant of NewReady: a client removed meanwhile is handed out as well.
NewReadyUnchecked(p, c) ==
    LET r == IF p.request[c] # None THEN p.request[c] ELSE CHOOSE s \in Callers : TRUE
    IN  IF p.ending
        THEN Pulse(RemoveClient(Settle(Dialled(p, c), {r}), c))
        ELSE Acquire(Dialled(p, c), c, r)

\* .then of connect() in _newClient.
NewReady(p, c) ==
    LET r == p.request[c]
        q == Dialled(p, c)
    IN  CASE c \notin p.clients \/ r = None -> Settle(q, {r})
          [] c \in p.clients /\ r # None /\ p.ending ->
                Pulse(RemoveClient(Settle(q, {r}), c))
          [] OTHER ->
                Acquire([q EXCEPT
                            !.attached = @ \cup {c},
                            !.lifeTimer = IF MaxLifetime THEN @ \cup {c} ELSE @],
                        c, r)

\* Mutant of NewFailed: the request goes back to the queue, answered or not.
NewFailedRequeues(p, c) ==
    LET q == [Dialled(p, c) EXCEPT !.clients = @ \ {c}]
    IN  Pulse([q EXCEPT !.queue = Append(@, p.request[c])])

\* .catch of connect() in _newClient.
NewFailed(p, c) ==
    LET q == Dialled(p, c)
    IN  Settle(Pulse([q EXCEPT !.clients = @ \ {c}]), {p.request[c]})

-----------------------------------------------------------------------------
(* Calls of the application *)

Init ==
    pool = [clients |-> {}, connecting |-> {}, request |-> [c \in Clients |-> None],
            idle |-> <<>>, queue |-> <<>>, uses |-> [c \in Clients |-> 0],
            expired |-> {}, ending |-> FALSE, ended |-> FALSE,
            endWait |-> {}, endDone |-> {}, boot |-> PoolMin > 0, ticks |-> 0,
            idleTimer |-> {}, queueTimer |-> {}, connTimer |-> {}, lifeTimer |-> {},
            dialing |-> {}, warm |-> {}, attached |-> {}, rolling |-> {}, inTx |-> {},
            waiting |-> {}, holds |-> [r \in Callers |-> None]]

\* A caller that neither waits nor holds a client calls connect() on a pool
\* that is not ending (on one that is, the call throws and changes nothing).
CanConnect(r) ==
    r \notin pool.waiting /\ pool.holds[r] = None /\ ~pool.ending

Asked(r) == [pool EXCEPT !.waiting = @ \cup {r}]

\* connect() with an idle client: the request is queued and a tick scheduled.
ConnectIdle(r) ==
    /\ CanConnect(r)
    /\ pool.idle # <<>>
    /\ pool.ticks < MaxTicks
    /\ pool' = [Asked(r) EXCEPT !.queue = Append(@, r), !.ticks = @ + 1]

\* connect() with no idle client and room in the pool.
ConnectNew(r) ==
    /\ CanConnect(r)
    /\ pool.idle = <<>> /\ ~Full(pool)
    /\ pool' = NewClient(Asked(r), r)

\* connect() on a full pool.
ConnectQueued(r) ==
    /\ CanConnect(r)
    /\ pool.idle = <<>> /\ Full(pool)
    /\ pool' = [Asked(r) EXCEPT
                    !.queue = Append(@, r),
                    !.queueTimer = IF ConnectionTimeout THEN @ \cup {r} ELSE @]

\* A statement of the holder opens or closes a transaction of a live session.
UseClient(r) ==
    LET c == pool.holds[r]
    IN  /\ c \in pool.clients
        /\ pool' = [pool EXCEPT !.inTx = IF c \in @ THEN @ \ {c} ELSE @ \cup {c}]

\* The release function of _acquireClient, which answers once, and _release.
Release(r, err) ==
    LET c == pool.holds[r]
        p == [pool EXCEPT !.holds[r] = None]
    IN  /\ c # None
        /\ pool' = IF c \in pool.clients THEN ReleaseKnown(p, c, err) ELSE p

\* Mutant of End: a second call replaces the callback of the first.
EndOverwrites(e) ==
    /\ e \notin pool.endWait \cup pool.endDone
    /\ pool' =
        CASE pool.ended -> [pool EXCEPT !.endDone = @ \cup {e}]
          [] ~pool.ended /\ pool.ending -> [pool EXCEPT !.endWait = {e}]
          [] OTHER ->
                Pulse([Settle(pool, ToSet(pool.queue)) EXCEPT
                        !.ending = TRUE, !.queue = <<>>, !.endWait = {e}])

\* end(): the first call rejects what is queued and pulses, a later one joins
\* it, and one on an ended pool returns at once.
End(e) ==
    /\ e \notin pool.endWait \cup pool.endDone
    /\ pool' =
        CASE pool.ended -> [pool EXCEPT !.endDone = @ \cup {e}]
          [] ~pool.ended /\ pool.ending -> [pool EXCEPT !.endWait = @ \cup {e}]
          [] OTHER ->
                Pulse([Settle(pool, ToSet(pool.queue)) EXCEPT
                        !.ending = TRUE, !.queue = <<>>, !.endWait = {e}])

-----------------------------------------------------------------------------
(* Turns of the event loop *)

\* process.nextTick(_ensureMinIdle) of the constructor.
Boot ==
    /\ pool.boot
    /\ pool' = EnsureMinIdle([pool EXCEPT !.boot = FALSE])

\* process.nextTick(_pulseQueue) of connect().
Tick ==
    /\ pool.ticks > 0
    /\ pool' = Pulse([pool EXCEPT !.ticks = @ - 1])

\* client.connect() resolves or rejects. Of a client that was removed while it
\* was connecting, it may also never settle: close() can destroy the socket
\* before it has connected, and nothing answers then (LateForgotten).
ConnectSucceeds(c) ==
    /\ Quiet(pool) /\ c \in pool.dialing
    /\ pool' = IF c \in pool.warm THEN WarmReady(pool, c) ELSE NewReady(pool, c)

ConnectFails(c) ==
    /\ Quiet(pool) /\ c \in pool.dialing
    /\ pool' = IF c \in pool.warm THEN WarmFailed(pool, c) ELSE NewFailed(pool, c)

LateForgotten(c) ==
    /\ Quiet(pool) /\ c \in pool.dialing \ pool.clients
    /\ pool' = [pool EXCEPT !.dialing = @ \ {c}, !.warm = @ \ {c}]

\* A removal below may leave a promise that settles late; MaxLate bounds them.
MayBeLate(c) ==
    c \in pool.dialing \cup pool.rolling => Cardinality(Late(pool)) < MaxLate

\* The connection timer of _newClient.
ConnectionTimerFires(c) ==
    /\ Quiet(pool) /\ c \in pool.connTimer
    /\ c \in pool.clients => MayBeLate(c)
    /\ pool' = Pulse(RemoveClient([pool EXCEPT !.connTimer = @ \ {c}], c))

\* The timer of a queued connect(): its item is answered for good, also when
\* it has left the queue and a client is being opened for it.
QueueTimerFires(r) ==
    /\ Quiet(pool) /\ r \in pool.queueTimer
    /\ pool' = [Settle(pool, {r}) EXCEPT
                    !.queue = Without(@, r),
                    !.request = [c \in Clients |-> IF @[c] = r THEN None ELSE @[c]]]

\* The timer of an idle item.
IdleTimerFires(c) ==
    /\ Quiet(pool) /\ c \in pool.idleTimer
    /\ LET p == [pool EXCEPT !.idleTimer = @ \ {c}]
       IN  pool' = IF AboveMin(p) THEN Refill(RemoveClient(p, c)) ELSE p

\* The lifetime timer of _newClient.
LifetimeTimerFires(c) ==
    /\ Quiet(pool) /\ c \in pool.lifeTimer
    /\ LET p == [pool EXCEPT !.lifeTimer = @ \ {c}, !.expired = @ \cup {c}]
       IN  pool' = IF c \in ToSet(p.idle) THEN Pulse(RemoveClient(p, c)) ELSE p

\* Mutant of ClientDies: the removal does not pulse.
ClientDiesSilent(c) ==
    /\ Quiet(pool) /\ c \in pool.attached \cap pool.clients
    /\ MayBeLate(c)
    /\ pool' = EnsureMinIdle(RemoveClient(pool, c))

\* 'error' or 'close' of a client whose lifecycle the pool watches (onDead).
ClientDies(c) ==
    /\ Quiet(pool) /\ c \in pool.attached \cap pool.clients
    /\ MayBeLate(c)
    /\ pool' = Refill(RemoveClient(pool, c))

\* Mutant of RollbackSucceeds: a client removed meanwhile is resurrected.
RollbackSucceedsUnchecked(c) ==
    /\ Quiet(pool) /\ c \in pool.rolling
    /\ pool' = PushIdle([pool EXCEPT !.rolling = @ \ {c}, !.inTx = @ \ {c}], c)

\* Mutant of RollbackFails: the client keeps its slot.
RollbackFailsKept(c) ==
    /\ Quiet(pool) /\ c \in pool.rolling
    /\ pool' = [pool EXCEPT !.rolling = @ \ {c}]

\* The rollback of _rollbackThenIdle resolves or rejects.
RollbackSucceeds(c) ==
    /\ Quiet(pool) /\ c \in pool.rolling
    /\ LET p == [pool EXCEPT !.rolling = @ \ {c}, !.inTx = @ \ {c}]
       IN  pool' = IF c \in p.clients THEN PushIdle(p, c) ELSE p

RollbackFails(c) ==
    /\ Quiet(pool) /\ c \in pool.rolling
    /\ pool' = Refill(RemoveClient([pool EXCEPT !.rolling = @ \ {c}], c))

-----------------------------------------------------------------------------
CallerStep(r) ==
    \/ ConnectIdle(r) \/ ConnectNew(r) \/ ConnectQueued(r)
    \/ UseClient(r)
    \/ \E err \in BOOLEAN : Release(r, err)
    \/ QueueTimerFires(r)

ClientStep(c) ==
    \/ ConnectSucceeds(c) \/ ConnectFails(c) \/ LateForgotten(c)
    \/ ConnectionTimerFires(c) \/ IdleTimerFires(c) \/ LifetimeTimerFires(c)
    \/ ClientDies(c)
    \/ RollbackSucceeds(c) \/ RollbackFails(c)

Next ==
    \/ Boot \/ Tick
    \/ \E r \in Callers : CallerStep(r)
    \/ \E c \in Clients : ClientStep(c)
    \/ \E e \in Enders : End(e)

Spec == Init /\ [][Next]_vars

(***************************************************************************)
(* Fairness.  The nextTick queue always drains, and the event loop comes   *)
(* back to every promise that is due: connect() settles because            *)
(* NzConnection bounds it with its own timer (connectionTimeout), and the  *)
(* rollback because its command has a timeout (commandTimeout); the strong *)
(* form is needed because a turn of the loop waits for pending ticks.      *)
(* Callers do not keep the loop in its nextTick phase for ever: it becomes *)
(* quiet again and again.  The application releases what it holds.  No     *)
(* timer of the pool has to fire, no client has to die.                    *)
(***************************************************************************)
Fairness ==
    /\ WF_vars(Boot) /\ WF_vars(Tick)
    /\ []<>Quiet(pool)
    /\ \A c \in Clients :
        /\ SF_vars(ConnectSucceeds(c) \/ ConnectFails(c))
        /\ SF_vars(RollbackSucceeds(c) \/ RollbackFails(c))
    /\ \A r \in Callers : WF_vars(\E err \in BOOLEAN : Release(r, err))

FairSpec == Spec /\ Fairness

-----------------------------------------------------------------------------
(* Properties *)

\* The sessions a caller may be given are those that have connected.
Promise == INSTANCE Lease WITH
    Limit <- PoolMax, open <- pool.clients \ pool.dialing, asking <- pool.waiting,
    lease <- pool.holds, closed <- pool.ending

\* The pool implements the promise of Lease: whatever the order of releases,
\* timers, deaths and end(), each turn of the event loop answers each caller at
\* most once and hands out open sessions nobody else holds.
ImplementsLease == Promise!Spec

TypeOK == pool \in PoolState

\* The pool never has more clients than config.max, counting those that are
\* still connecting: every place that opens one looks at _isFull first, and
\* the room it saw must still be there.
CapacityBound == Cardinality(pool.clients) <= PoolMax

\* A client has one owner at most: it is connecting, in the idle stack (once),
\* rolling back, or in the hands of one caller. Otherwise two callers would
\* write commands to one session.
ExclusiveOwner ==
    LET inIdle == ToSet(pool.idle)
    IN  /\ IsInjective(pool.idle)
        /\ inIdle \subseteq pool.clients
        /\ inIdle \cap (Held(pool) \cup pool.dialing \cup pool.rolling) = {}
        /\ Held(pool) \cap (pool.dialing \cup pool.rolling) = {}
        /\ \A r, s \in Callers :
            pool.holds[r] = pool.holds[s] /\ pool.holds[r] # None => r = s

\* Every client that occupies a slot has an owner that will give it back: a
\* connect() or rollback() that has not settled, the idle stack, or a caller.
SlotAccounted ==
    pool.clients \subseteq
        pool.dialing \cup pool.rolling \cup ToSet(pool.idle) \cup Held(pool)

\* Each waiting connect() is remembered in exactly one place, the queue or a
\* client being opened for it, and no settled one is remembered anywhere: no
\* request is forgotten and none is answered twice. end() is complete exactly
\* when the last client is gone: then nobody is left waiting, and end() does not
\* wait for nothing.
RequestAccounted ==
    /\ IsInjective(pool.queue)
    /\ pool.waiting = ToSet(pool.queue) \cup ({pool.request[c] : c \in Clients} \ {None})
    /\ \A c \in Clients : pool.request[c] \notin ToSet(pool.queue)
    /\ \A c, d \in Clients :
        pool.request[c] = pool.request[d] /\ pool.request[c] # None => c = d
    /\ pool.ending => ToSet(pool.queue) = {} /\ pool.idle = <<>>
    /\ pool.ended <=> (pool.ending /\ pool.clients = {})
    /\ pool.ended => pool.waiting = {} /\ pool.endWait = {}

\* No wakeup is lost: when no nextTick is pending, nobody is queued while a
\* client is idle or the pool has room. Each event that frees a client or a
\* slot pulses once and each pulse serves one request.
NoLostWakeup == pool.ticks = 0 => ~CanServe(pool)

\* Whatever order releases, rollbacks and deaths take, a client in the idle stack
\* is not inside an open transaction (rollbackOnRelease), and no client the pool
\* keeps has been checked out maxUses times. A client in a caller's hands is
\* closed by the death of its socket and its release only: no idle or connection
\* timer of an earlier phase is armed for it, and end(), which closes what is
\* idle or connecting, passes it over.
ClientsFit ==
    /\ RollbackOnRelease => ToSet(pool.idle) \cap pool.inTx = {}
    /\ MaxUses # 0 => \A c \in pool.clients : pool.uses[c] < MaxUses
    /\ \A r \in Callers :
        pool.holds[r] \in pool.clients =>
            pool.holds[r] \notin pool.idleTimer \cup pool.connTimer \cup pool.connecting

\* Every connect() settles and every end() resolves.
CallsSettle ==
    /\ \A r \in Callers : r \in pool.waiting ~> r \notin pool.waiting
    /\ \A e \in Enders : e \in pool.endWait ~> e \in pool.endDone
=============================================================================
