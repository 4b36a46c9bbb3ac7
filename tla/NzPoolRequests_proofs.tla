------------------------ MODULE NzPoolRequests_proofs ------------------------
(***************************************************************************)
(* What becomes of the requests of a pool, for every number of clients and *)
(* callers and every choice of its options: none is forgotten or answered  *)
(* twice, none sleeps while it could be served, no slot is lost, and the   *)
(* pool implements the promise of Lease.                                   *)
(*                                                                         *)
(* The invariant stands on Good of NzPool_proofs and is, like it, about    *)
(* any state p of the pool: each method has one lemma here, and an action  *)
(* is a chain of methods.                                                  *)
(***************************************************************************)
EXTENDS NzPool_proofs

-----------------------------------------------------------------------------
(* The invariant *)

\* Is a client being opened for r?
Served(p, r) == \E c \in Clients : p.request[c] = r

\* Each waiting caller is in one place: the queue, a client being opened for it,
\* or the set X of those a method has in its hands.
Requests(p, X) ==
    /\ X \subseteq Callers
    /\ IsInjective(p.queue)
    /\ \A r \in Callers : r \in p.waiting <=> r \in ToSet(p.queue) \/ Served(p, r) \/ r \in X
    /\ \A r \in Callers : Served(p, r) => r \notin ToSet(p.queue)
    /\ \A r \in X : r \notin ToSet(p.queue) /\ ~Served(p, r)
    /\ \A c, d \in Clients : p.request[c] = p.request[d] /\ p.request[c] # None => c = d
    /\ \A c \in Clients : p.request[c] # None => c \in p.connecting /\ c \notin p.warm
    /\ p.connecting = p.clients \cap p.dialing

\* What end() has done, as far as it holds between two methods.
Ends(p) ==
    /\ p.ending => p.queue = <<>>
    /\ p.ended => p.ending /\ p.clients = {} /\ p.endWait = {}

\* What it has done when _pulseQueue has run.
Wound(p) ==
    p.ending => p.idle = <<>> /\ p.connecting = {} /\ (p.ended \/ p.clients # {})

\* In what state clients may be handed out, but for those of D.
FitBut(p, D) ==
    /\ p.inTx \subseteq p.clients \ p.dialing
    /\ RollbackOnRelease => ToSet(p.idle) \cap p.inTx = {}
    /\ MaxUses # 0 => \A c \in p.clients \ D : p.uses[c] < MaxUses
Fit(p) == FitBut(p, {})

Core(p, X) == Good(p) /\ Requests(p, X) /\ Ends(p) /\ Fit(p)

\* n runs of _pulseQueue are enough to serve whoever can be served.
Awake(p, n) ==
    \/ Len(p.queue) <= n
    \/ Len(p.idle) + PoolMax <= Cardinality(p.clients) + n

\* What a method may do to the callers.
Answers(p, q) ==
    /\ q.waiting \subseteq p.waiting
    /\ q.ending = p.ending /\ q.ticks = p.ticks
    /\ \A r \in Callers :
        q.holds[r] \notin {None, p.holds[r]} =>
            /\ r \in p.waiting \ q.waiting /\ ~p.ending
            /\ q.holds[r] \in q.clients \ q.dialing

\* Each client has somebody who will give its slot back, or is one of the set S a
\* method has in its hands; a connect() that settles has somebody to go to, the
\* idle stack or the caller it was opened for, because no timer answers the
\* requests of clients that are being dialled.
Slots(p, S) ==
    /\ p.clients \subseteq p.dialing \cup p.rolling \cup ToSet(p.idle) \cup Held(p) \cup S
    /\ \A c \in p.clients \cap p.dialing : c \in p.warm \/ p.request[c] # None
    /\ p.queueTimer = {}

\* Whoever waits has no client yet that the next one would make it forget.
Free(p) == \A r \in p.waiting : p.holds[r] = None

Slotted(p, S) == Slots(p, S) /\ Free(p)

\* The fields Slots reads.
SameSlots(p, q) ==
    /\ q.clients = p.clients /\ q.dialing = p.dialing /\ q.rolling = p.rolling
    /\ q.idle = p.idle /\ q.holds = p.holds /\ q.warm = p.warm /\ q.request = p.request

\* The fields Core and Answers read.
SameRequests(p, q) ==
    q.queue = p.queue /\ q.request = p.request /\ q.waiting = p.waiting
SameClients(p, q) ==
    /\ q.clients = p.clients /\ q.connecting = p.connecting
    /\ q.dialing = p.dialing /\ q.warm = p.warm
SameEnd(p, q) ==
    q.ending = p.ending /\ q.ended = p.ended /\ q.endWait = p.endWait /\ q.ticks = p.ticks
SameUse(p, q) == q.uses = p.uses /\ q.inTx = p.inTx

LEMMA WithoutShorter ==
    ASSUME NEW S, NEW s \in Seq(S), NEW x
    PROVE  Len(Without(s, x)) \in Nat /\ Len(Without(s, x)) <= Len(s)
<1>1. CASE x \notin ToSet(s)
  BY <1>1 DEF Without
<1>2. CASE x \in ToSet(s)
  <2> DEFINE i == CHOOSE j \in DOMAIN s : s[j] = x
             a == SubSeq(s, 1, i - 1)
             b == SubSeq(s, i + 1, Len(s))
  <2>1. i \in 1..Len(s)
    BY <1>2 DEF ToSet
  <2>2. Without(s, x) = a \o b
    BY <1>2 DEF Without, RemoveAt
  <2> HIDE DEF i
  <2>3. a \in Seq(S) /\ b \in Seq(S) /\ Len(a) = i - 1 /\ Len(b) = Len(s) - i
    BY <2>1
  <2> HIDE DEF a, b
  <2>4. Len(a \o b) = Len(a) + Len(b)
    BY <2>3, ConcatProperties
  <2> QED BY <2>1, <2>2, <2>3, <2>4
<1> QED BY <1>1, <1>2

\* The first of a queue without repetition, and the rest.
LEMMA TakeFirst ==
    ASSUME NEW S, NEW s \in Seq(S), IsInjective(s), s # <<>>
    PROVE  /\ Head(s) \in ToSet(s) /\ Head(s) \in S
           /\ Tail(s) \in Seq(S) /\ IsInjective(Tail(s))
           /\ ToSet(Tail(s)) = ToSet(s) \ {Head(s)}
           /\ Len(Tail(s)) = Len(s) - 1
<1> DEFINE t == Tail(s)
<1>1. /\ Len(s) \in Nat \ {0} /\ DOMAIN s = 1..Len(s) /\ t \in Seq(S) /\ Len(t) = Len(s) - 1
      /\ Head(s) = s[1] /\ DOMAIN t = 1..(Len(s) - 1)
      /\ \A k \in 1..(Len(s) - 1) : t[k] = s[k + 1]
  OBVIOUS
<1> HIDE DEF t
<1>2. Head(s) \in ToSet(s) /\ Head(s) \in S
  BY <1>1 DEF ToSet
<1>3. IsInjective(t)
  <2> SUFFICES ASSUME NEW j \in 1..(Len(s) - 1), NEW k \in 1..(Len(s) - 1), t[j] = t[k]
               PROVE  j = k
    BY <1>1 DEF IsInjective
  <2>1. j + 1 \in DOMAIN s /\ k + 1 \in DOMAIN s /\ s[j + 1] = s[k + 1]
    BY <1>1
  <2>2. j + 1 = k + 1
    BY <2>1 DEF IsInjective
  <2> QED BY <2>2
<1>4. ToSet(t) \subseteq ToSet(s) \ {Head(s)}
  <2> SUFFICES ASSUME NEW k \in 1..(Len(s) - 1) PROVE t[k] \in ToSet(s) /\ t[k] # Head(s)
    BY <1>1 DEF ToSet
  <2>1. k + 1 \in DOMAIN s /\ t[k] = s[k + 1] /\ 1 \in DOMAIN s /\ k + 1 # 1
    BY <1>1
  <2>2. s[k + 1] # s[1]
    BY <2>1 DEF IsInjective
  <2> QED BY <1>1, <2>1, <2>2 DEF ToSet
<1>5. ToSet(s) \ {Head(s)} \subseteq ToSet(t)
  <2> SUFFICES ASSUME NEW j \in 1..Len(s), s[j] # Head(s) PROVE \E k \in DOMAIN t : t[k] = s[j]
    BY <1>1 DEF ToSet
  <2>1. j # 1
    BY <1>1
  <2>2. j - 1 \in 1..(Len(s) - 1) /\ t[j - 1] = s[j]
    BY <1>1, <2>1
  <2> QED BY <1>1, <2>2
<1> QED BY <1>1, <1>2, <1>3, <1>4, <1>5 DEF t

\* The sizes Awake compares.
LEMMA Sizes ==
    ASSUME NEW p, Good(p)
    PROVE  /\ Len(p.queue) \in Nat /\ Len(p.idle) \in Nat
           /\ IsFiniteSet(p.clients) /\ Cardinality(p.clients) \in Nat
           /\ Cardinality(p.clients) <= PoolMax /\ PoolMax \in Nat /\ p.ticks \in Nat
           /\ p.ending \in BOOLEAN /\ p.ended \in BOOLEAN
<1>1. p.queue \in Seq(Callers) /\ p.idle \in Seq(Clients) /\ p.clients \in SUBSET Clients
      /\ p.ticks \in Nat /\ p.ending \in BOOLEAN /\ p.ended \in BOOLEAN
  BY ZenonT(60) DEF Good, PoolState
<1>2. IsFiniteSet(p.clients) /\ Cardinality(p.clients) \in Nat
  BY <1>1, FS_Subset, FS_CardinalityType, NamesAssumption
<1> QED BY <1>1, <1>2, SizesAssumption DEF Good, Bounds

\* A method that leaves the holders alone answers whom the next one answers.
LEMMA AnswersOn ==
    ASSUME NEW p, NEW q, NEW s, Answers(p, q), q.holds = p.holds, Answers(q, s)
    PROVE  Answers(p, s)
BY DEF Answers

\* Core speaks of these fields only.
LEMMA SameCore ==
    ASSUME NEW p, NEW X, Core(p, X), NEW q, Good(q), q.idle = p.idle,
           SameRequests(p, q), SameClients(p, q), SameEnd(p, q), SameUse(p, q)
    PROVE  Core(q, X) /\ (q.holds = p.holds => Answers(p, q))
<1>1. Requests(q, X)
  BY DEF Core, Requests, Served, SameRequests, SameClients
<1>2. Ends(q)
  BY DEF Core, Ends, SameRequests, SameClients, SameEnd
<1>3. Fit(q)
  BY DEF Core, Fit, FitBut, SameClients, SameUse
<1>4. q.holds = p.holds => Answers(p, q)
  BY DEF Answers, SameRequests, SameEnd
<1> QED BY <1>1, <1>2, <1>3, <1>4 DEF Core

-----------------------------------------------------------------------------
(* The methods *)

\* A caller a method has in its hands gets its answer.
LEMMA SettleCore ==
    ASSUME NEW p, NEW X, Core(p, X), NEW r, r \in Callers => r \in X \/ r \notin p.waiting,
           NEW q, q = Settle(p, {r})
    PROVE  /\ Core(q, X \ {r}) /\ Answers(p, q) /\ q.holds = p.holds
           /\ q.waiting = p.waiting \ {r} /\ q.queue = p.queue /\ q.request = p.request
           /\ q.idle = p.idle /\ SameEnd(p, q) /\ SameClients(p, q) /\ SameUse(p, q)
<1>1. Good(q)
  BY SettleGood DEF Core
<1>2. /\ q.waiting = p.waiting \ {r} /\ q.holds = p.holds /\ q.idle = p.idle
      /\ q.queue = p.queue /\ q.request = p.request
      /\ SameClients(p, q) /\ SameEnd(p, q) /\ SameUse(p, q)
  BY ZenonT(60) DEF Settle, Core, Good, PoolState, SameClients, SameEnd, SameUse
<1>3. Requests(q, X \ {r})
  BY SMTT(30), <1>2 DEF Core, Requests, Served, SameClients
<1>4. Ends(q) /\ Fit(q)
  BY <1>2 DEF Core, Ends, Fit, FitBut, SameClients, SameEnd, SameUse
<1>5. Answers(p, q)
  BY <1>2 DEF Answers, SameEnd
<1> QED BY <1>1, <1>2, <1>3, <1>4, <1>5 DEF Core

\* What _remove does to the requests and the use of its clients.
LEMMA DropKept ==
    ASSUME NEW p, NEW X, Good(p), Requests(p, X), NEW C, C \subseteq Clients
    PROVE  /\ Requests(Drop(p, C), X) /\ Drop(p, C).queue = p.queue
           /\ Drop(p, C).waiting \subseteq p.waiting
           /\ Drop(p, C).uses = [c \in Clients |-> IF c \in C THEN 0 ELSE p.uses[c]]
           /\ Drop(p, C).inTx = p.inTx \ C
           /\ SameEnd(p, Drop(p, C))
           /\ Drop(p, C).clients = p.clients \ C /\ Drop(p, C).dialing = p.dialing
           /\ Drop(p, C).connecting = p.connecting \ C
           /\ Drop(p, C).holds = p.holds /\ Drop(p, C).idle = p.idle
           /\ Drop(p, C).warm = p.warm
<1> DEFINE R == {p.request[c] : c \in C}
           s == Settle(p, R)
           q == Drop(p, C)
<1>1. /\ s \in PoolState
      /\ s.waiting = p.waiting \ R /\ s.holds = p.holds /\ s.idle = p.idle
      /\ s.queue = p.queue /\ s.request = p.request
      /\ SameClients(p, s) /\ SameEnd(p, s) /\ SameUse(p, s)
  BY ZenonT(60) DEF Settle, Good, PoolState, SameClients, SameEnd, SameUse
<1>2. q = [s EXCEPT
            !.clients = @ \ C,
            !.connecting = @ \ C,
            !.request = [c \in Clients |-> IF c \in C THEN None ELSE @[c]],
            !.uses = [c \in Clients |-> IF c \in C THEN 0 ELSE @[c]],
            !.lifeTimer = @ \ C,
            !.expired = @ \ C,
            !.attached = @ \ C,
            !.inTx = @ \ C]
  BY DEF Drop
<1> HIDE DEF s, q
<1>3. /\ q.clients = s.clients \ C /\ q.connecting = s.connecting \ C
      /\ q.request = [c \in Clients |-> IF c \in C THEN None ELSE s.request[c]]
      /\ q.uses = [c \in Clients |-> IF c \in C THEN 0 ELSE s.uses[c]]
      /\ q.inTx = s.inTx \ C /\ SameEnd(s, q)
      /\ q.dialing = s.dialing /\ q.warm = s.warm /\ q.holds = s.holds /\ q.idle = s.idle
      /\ q.queue = s.queue /\ q.waiting = s.waiting
  BY ZenonT(60), <1>1, <1>2 DEF PoolState, SameEnd
<1>4. p.request \in [Clients -> Callers \cup {None}] /\ None \notin Callers
  BY ZenonT(60), NamesAssumption DEF Good, PoolState
<1>5. \A r \in Callers : Served(q, r) <=> Served(p, r) /\ r \notin R
  BY <1>1, <1>3, <1>4 DEF Served, Requests
<1>6. \A r \in Callers : r \in R => Served(p, r)
  BY DEF Served
<1>7. Requests(q, X)
  <2>1. \A r \in Callers : r \in q.waiting <=> r \in ToSet(q.queue) \/ Served(q, r) \/ r \in X
    BY <1>1, <1>3, <1>5, <1>6 DEF Requests
  <2>2. \A c \in Clients : q.request[c] # None => c \notin C /\ q.request[c] = p.request[c]
    BY <1>1, <1>3
  <2>3. q.connecting = q.clients \cap q.dialing
    BY <1>1, <1>3 DEF Requests, SameClients
  <2>4. \A c, d \in Clients : q.request[c] = q.request[d] /\ q.request[c] # None => c = d
    BY <2>2 DEF Requests
  <2>5. \A c \in Clients : q.request[c] # None => c \in q.connecting /\ c \notin q.warm
    BY <1>1, <1>3, <2>2 DEF Requests, SameClients
  <2> QED BY <1>1, <1>3, <1>5, <2>1, <2>3, <2>4, <2>5 DEF Requests
<1>8. SameEnd(p, q)
  BY <1>1, <1>3 DEF SameEnd
<1> QED BY <1>1, <1>3, <1>7, <1>8 DEF q, SameClients, SameUse

\* _remove.
LEMMA RemoveCore ==
    ASSUME NEW p, NEW X, Good(p), Requests(p, X), Ends(p), NEW c \in Clients, FitBut(p, {c}),
           Good(RemoveClient(p, c))
    PROVE  /\ Core(RemoveClient(p, c), X) /\ Answers(p, RemoveClient(p, c))
           /\ RemoveClient(p, c).holds = p.holds
           /\ SameEnd(p, RemoveClient(p, c))
           /\ \A n \in Nat : Awake(p, n) => Awake(RemoveClient(p, c), n + 1)
<1>1. CASE c \notin p.clients
  <2>1. RemoveClient(p, c) = p
    BY <1>1 DEF RemoveClient
  <2>2. \A n \in Nat : Awake(p, n) => Awake(p, n + 1)
    BY Sizes DEF Awake
  <2>3. Core(p, X)
    BY <1>1 DEF Core, Fit, FitBut
  <2> QED BY <2>1, <2>2, <2>3 DEF Answers, SameEnd
<1>2. CASE c \in p.clients
  <2> DEFINE d == Drop(p, {c})
             q == RemoveClient(p, c)
  <2>1. /\ Requests(d, X) /\ d.queue = p.queue /\ d.waiting \subseteq p.waiting
        /\ d.uses = [k \in Clients |-> IF k \in {c} THEN 0 ELSE p.uses[k]]
        /\ d.inTx = p.inTx \ {c} /\ SameEnd(p, d)
        /\ d.clients = p.clients \ {c} /\ d.dialing = p.dialing
        /\ d.holds = p.holds /\ d.idle = p.idle
    BY DropKept
  <2>2. q = [d EXCEPT !.idle = Without(@, c), !.idleTimer = @ \ {c}] /\ d \in PoolState
    BY <1>2, DropFields DEF RemoveClient, Good
  <2> HIDE DEF d, q
  <2>3. /\ SameRequests(d, q) /\ SameClients(d, q) /\ SameEnd(d, q) /\ SameUse(d, q)
        /\ q.holds = d.holds /\ q.idle = Without(d.idle, c)
    BY ZenonT(60), <2>2 DEF PoolState, SameRequests, SameClients, SameEnd, SameUse
  <2>4. Requests(q, X)
    BY <2>1, <2>3 DEF Requests, Served, SameRequests, SameClients
  <2>5. Ends(q) /\ SameEnd(p, q)
    BY <1>2, <2>1, <2>3 DEF Ends, SameRequests, SameEnd
  <2>6. p.idle \in Seq(Clients) /\ IsInjective(p.idle)
    BY ZenonT(60) DEF Good, Owners, PoolState
  <2>7. Fit(q)
    <3>1. ToSet(q.idle) \subseteq ToSet(p.idle)
      BY <2>1, <2>3, <2>6, WithoutElement
    <3>2. \A k \in q.clients : k \in p.clients \ {c} /\ q.uses[k] = p.uses[k]
      BY <2>1, <2>3 DEF SameClients, SameUse, Good, PoolState
    <3> QED BY <2>1, <2>3, <3>1, <3>2 DEF Fit, FitBut, SameClients, SameUse
  <2>8. Answers(p, q)
    BY <2>1, <2>3 DEF Answers, SameEnd, SameRequests
  <2>9. ASSUME NEW n \in Nat, Awake(p, n) PROVE Awake(q, n + 1)
    <3>1. Len(q.idle) \in Nat /\ Len(q.idle) <= Len(p.idle)
      BY <2>1, <2>3, <2>6, WithoutShorter
    <3>2. Cardinality(q.clients) = Cardinality(p.clients) - 1 /\ q.queue = p.queue
      <4>1. q.clients = p.clients \ {c} /\ q.queue = p.queue
        BY <2>1, <2>3 DEF SameClients, SameRequests
      <4>2. IsFiniteSet(p.clients)
        BY Sizes
      <4> QED BY <1>2, <4>1, <4>2, FS_RemoveElement
    <3>3. CASE Len(p.queue) <= n
      <4>1. Len(q.queue) <= n + 1
        BY <3>2, <3>3, Sizes
      <4> QED BY <4>1 DEF Awake
    <3>4. CASE Len(p.idle) + PoolMax <= Cardinality(p.clients) + n
      <4>1. Len(q.idle) + PoolMax <= Cardinality(q.clients) + (n + 1)
        BY SMTT(30), <3>1, <3>2, <3>4, Sizes
      <4> QED BY <4>1 DEF Awake
    <3> QED BY <2>9, <3>3, <3>4 DEF Awake
  <2> QED BY <2>1, <2>3, <2>4, <2>5, <2>7, <2>8, <2>9 DEF q, Core
<1> QED BY <1>1, <1>2

\* new NzConnection and its connect(), for a set of new names.
LEMMA DialKept ==
    ASSUME NEW p, NEW X, Core(p, X), ~p.ending, ~p.ended,
           NEW N, N \subseteq Clients \ (p.clients \cup Held(p) \cup Late(p))
    PROVE  LET d == Dial(p, N)
           IN  /\ Requests(d, X) /\ Ends(d) /\ Fit(d) /\ d \in PoolState
               /\ SameRequests(p, d) /\ SameEnd(p, d)
               /\ d.clients = p.clients \cup N /\ d.dialing = p.dialing \cup N
               /\ d.connecting = p.connecting \cup N
               /\ d.idle = p.idle /\ d.holds = p.holds /\ d.warm = p.warm
               /\ N \cap p.dialing = {} /\ N \cap p.warm = {}
               /\ \A c \in N : p.request[c] = None
<1> DEFINE d == Dial(p, N)
<1>1. /\ d \in PoolState
      /\ d.clients = p.clients \cup N /\ d.dialing = p.dialing \cup N
      /\ d.connecting = p.connecting \cup N
      /\ d.uses = [c \in Clients |-> IF c \in N THEN 0 ELSE p.uses[c]] /\ d.inTx = p.inTx
      /\ SameRequests(p, d) /\ SameEnd(p, d)
      /\ d.idle = p.idle /\ d.holds = p.holds /\ d.warm = p.warm
  BY ZenonT(60) DEF Dial, Core, Good, PoolState, SameRequests, SameEnd
<1> HIDE DEF d
<1>2. N \cap p.dialing = {} /\ N \cap p.warm = {} /\ p.inTx \cap N = {}
  BY DEF Late, Core, Good, Marks, Fit, FitBut
<1>3. \A c \in N : p.request[c] = None
  BY <1>2 DEF Core, Requests
<1>4. Requests(d, X)
  BY <1>1, <1>2 DEF Core, Requests, Served, SameRequests
<1>5. Ends(d)
  BY <1>1 DEF Ends, SameEnd
<1>6. Fit(d)
  <2>1. d.inTx \subseteq d.clients \ d.dialing
    BY <1>1, <1>2 DEF Core, Fit, FitBut
  <2>2. ASSUME MaxUses # 0, NEW c \in d.clients PROVE d.uses[c] < MaxUses
    <3>1. c \in Clients /\ 0 < MaxUses
      BY <1>1, <2>2, SizesAssumption DEF Core, Good, PoolState
    <3>2. c \notin N => p.uses[c] < MaxUses
      BY <1>1, <2>2 DEF Core, Fit, FitBut
    <3> QED BY <1>1, <3>1, <3>2
  <2> QED BY <1>1, <2>1, <2>2 DEF Core, Fit, FitBut
<1> QED BY <1>1, <1>2, <1>3, <1>4, <1>5, <1>6 DEF d

\* _newClient, for a request a method has in its hands.
LEMMA NewClientCore ==
    ASSUME NEW p, NEW X, NEW r \in X, Core(p, X), ~p.ending, ~Full(p)
    PROVE  /\ Core(NewClient(p, r), X \ {r}) /\ Answers(p, NewClient(p, r))
           /\ NewClient(p, r).queue = p.queue /\ NewClient(p, r).idle = p.idle
           /\ NewClient(p, r).waiting = p.waiting /\ NewClient(p, r).holds = p.holds
           /\ Cardinality(NewClient(p, r).clients) = Cardinality(p.clients) + 1
<1> DEFINE N == NewNames(p, 1)
           d == Dial(p, N)
           q == NewClient(p, r)
<1>0. r \in Callers /\ r # None /\ ~p.ended /\ r \notin ToSet(p.queue) /\ ~Served(p, r)
  BY NamesAssumption DEF Core, Requests, Ends
<1>1. Good(q)
  BY <1>0, NewClientGood DEF Core
<1>2. /\ N \subseteq Clients \ (p.clients \cup Held(p) \cup Late(p))
      /\ Cardinality(N) = 1
  BY Sizes, FreshNames, SizesAssumption DEF Core, Good, Bounds, Full
<1>3. q = [d EXCEPT
            !.request = [c \in Clients |-> IF c \in N THEN r ELSE @[c]],
            !.connTimer = IF ConnectionTimeout THEN @ \cup N ELSE @]
  BY DEF NewClient
<1> HIDE DEF N
<1>4. /\ Requests(d, X) /\ Ends(d) /\ Fit(d) /\ d \in PoolState
      /\ SameRequests(p, d) /\ SameEnd(p, d)
      /\ d.clients = p.clients \cup N /\ d.dialing = p.dialing \cup N
      /\ d.connecting = p.connecting \cup N
      /\ d.idle = p.idle /\ d.holds = p.holds /\ d.warm = p.warm
      /\ N \cap p.dialing = {} /\ N \cap p.warm = {}
      /\ \A c \in N : p.request[c] = None
  BY <1>0, <1>2, DialKept
<1> HIDE DEF d, q
<1>5. /\ q.request = [c \in Clients |-> IF c \in N THEN r ELSE d.request[c]]
      /\ q.queue = d.queue /\ q.waiting = d.waiting /\ q.idle = d.idle /\ q.holds = d.holds
      /\ SameClients(d, q) /\ SameEnd(d, q) /\ SameUse(d, q)
  BY ZenonT(60), <1>3, <1>4 DEF PoolState, SameClients, SameEnd, SameUse
<1>6. PICK n : N = {n}
  <2>1. IsFiniteSet(N)
    BY <1>2, NamesAssumption, FS_Subset
  <2> QED BY <1>2, <2>1, FS_Singleton
<1>7. n \in Clients /\ p.request[n] = None
  BY <1>2, <1>4, <1>6
<1>8. /\ q.request[n] = r
      /\ \A c \in Clients \ {n} : q.request[c] = p.request[c]
  BY <1>4, <1>5, <1>6, <1>7 DEF SameRequests
<1>9. \A s \in Callers : Served(q, s) <=> Served(p, s) \/ s = r
  <2>1. \A s \in Callers : s # None
    BY NamesAssumption
  <2> QED BY <1>7, <1>8, <2>1 DEF Served
<1>10. Requests(q, X \ {r})
  <2>1. \A s \in Callers : s \in q.waiting <=> s \in ToSet(q.queue) \/ Served(q, s) \/ s \in X \ {r}
    BY <1>0, <1>4, <1>5, <1>9 DEF Core, Requests, SameRequests
  <2>2. \A c, k \in Clients : q.request[c] = q.request[k] /\ q.request[c] # None => c = k
    <3>1. \A c \in Clients : p.request[c] # r
      BY <1>0 DEF Served
    <3> QED BY <1>8, <3>1 DEF Core, Requests
  <2>3. \A c \in Clients : q.request[c] # None => c \in q.connecting /\ c \notin q.warm
    BY <1>4, <1>5, <1>6, <1>8 DEF Core, Requests, SameClients
  <2>4. q.connecting = q.clients \cap q.dialing
    BY <1>4, <1>5 DEF Requests, SameClients
  <2> QED BY <1>0, <1>4, <1>5, <1>9, <2>1, <2>2, <2>3, <2>4 DEF Core, Requests, SameRequests
<1>11. Ends(q) /\ Fit(q)
  BY <1>4, <1>5 DEF Ends, Fit, FitBut, SameClients, SameEnd, SameUse
<1>12. Answers(p, q)
  BY <1>4, <1>5 DEF Answers, SameRequests, SameEnd
<1>13. Cardinality(q.clients) = Cardinality(p.clients) + 1
  <2>1. q.clients = p.clients \cup {n} /\ n \notin p.clients
    BY <1>2, <1>4, <1>5, <1>6 DEF SameClients
  <2> QED BY <2>1, Sizes, FS_AddElement DEF Core
<1> QED BY <1>1, <1>4, <1>5, <1>10, <1>11, <1>12, <1>13 DEF Core, SameRequests, q

\* _ensureMinIdle.
LEMMA EnsureMinIdleCore ==
    ASSUME NEW p, NEW X, Core(p, X)
    PROVE  /\ Core(EnsureMinIdle(p), X) /\ Answers(p, EnsureMinIdle(p))
           /\ EnsureMinIdle(p).holds = p.holds
           /\ \A n \in Nat : Awake(p, n) => Awake(EnsureMinIdle(p), n)
           /\ p.ending => EnsureMinIdle(p) = p
<1>1. CASE p.ending \/ p.ended \/ Cardinality(p.clients) >= PoolMin
  <2>1. EnsureMinIdle(p) = p
    BY <1>1 DEF EnsureMinIdle
  <2> QED BY <2>1 DEF Answers
<1>2. CASE ~(p.ending \/ p.ended \/ Cardinality(p.clients) >= PoolMin)
  <2> DEFINE k == PoolMin - Cardinality(p.clients)
             N == NewNames(p, k)
             d == Dial(p, N)
             q == EnsureMinIdle(p)
  <2>1. k \in Nat /\ Cardinality(p.clients) + k <= PoolMax
    BY <1>2, Sizes, SizesAssumption DEF Core
  <2>2. N \subseteq Clients \ (p.clients \cup Held(p) \cup Late(p))
    BY <1>2, <2>1, FreshNames DEF Core, Good
  <2>3. q = [d EXCEPT !.warm = @ \cup N]
    BY <1>2 DEF EnsureMinIdle
  <2>4. Good(q)
    BY EnsureMinIdleGood DEF Core
  <2> HIDE DEF N
  <2>5. /\ Requests(d, X) /\ Ends(d) /\ Fit(d) /\ d \in PoolState
        /\ SameRequests(p, d) /\ SameEnd(p, d)
        /\ d.clients = p.clients \cup N /\ d.dialing = p.dialing \cup N
        /\ d.connecting = p.connecting \cup N
        /\ d.idle = p.idle /\ d.holds = p.holds /\ d.warm = p.warm
        /\ N \cap p.dialing = {} /\ N \cap p.warm = {}
        /\ \A c \in N : p.request[c] = None
    BY <1>2, <2>2, DialKept
  <2> HIDE DEF d, q
  <2>6. /\ q.warm = d.warm \cup N /\ q.clients = d.clients /\ q.connecting = d.connecting
        /\ q.dialing = d.dialing /\ q.idle = d.idle /\ q.holds = d.holds
        /\ SameRequests(d, q) /\ SameEnd(d, q) /\ SameUse(d, q)
    BY ZenonT(60), <2>3, <2>5 DEF PoolState, SameRequests, SameEnd, SameUse
  <2>7. Requests(q, X)
    BY <2>5, <2>6 DEF Requests, Served, SameRequests
  <2>8. Ends(q) /\ Fit(q)
    BY <2>5, <2>6 DEF Ends, Fit, FitBut, SameRequests, SameEnd, SameUse
  <2>9. Answers(p, q)
    BY <2>5, <2>6 DEF Answers, SameRequests, SameEnd
  <2>10. ASSUME NEW n \in Nat, Awake(p, n) PROVE Awake(q, n)
    <3>1. p.clients \subseteq q.clients /\ q.queue = p.queue /\ q.idle = p.idle
      BY <2>5, <2>6 DEF SameRequests
    <3>2. Cardinality(p.clients) <= Cardinality(q.clients)
      BY <3>1, <2>4, Sizes, FS_Subset
    <3>3. CASE Len(p.queue) <= n
      BY <3>1, <3>3 DEF Awake
    <3>4. CASE Len(p.idle) + PoolMax <= Cardinality(p.clients) + n
      <4>1. Len(q.idle) + PoolMax <= Cardinality(q.clients) + n
        BY <2>4, <3>1, <3>2, <3>4, Sizes DEF Core
      <4> QED BY <4>1 DEF Awake
    <3> QED BY <2>10, <3>3, <3>4 DEF Awake
  <2> QED BY <1>2, <2>4, <2>5, <2>6, <2>7, <2>8, <2>9, <2>10 DEF Core, q
<1> QED BY <1>1, <1>2

\* _acquireClient, for a request a method has in its hands.
LEMMA AcquireCore ==
    ASSUME NEW p, NEW X, NEW r \in X, Core(p, X), ~p.ending, NEW c \in p.clients,
           c \notin ToSet(p.idle) \cup Held(p) \cup p.dialing \cup p.rolling
    PROVE  /\ Core(Acquire(p, c, r), X \ {r}) /\ Answers(p, Acquire(p, c, r))
           /\ \A n : Awake(p, n) => Awake(Acquire(p, c, r), n)
           /\ Acquire(p, c, r).ending = p.ending
<1> DEFINE s == Settle(p, {r})
           q == Acquire(p, c, r)
<1>0. r \in Callers /\ r \in p.waiting
  BY DEF Core, Requests
<1>1. Good(q)
  BY <1>0, AcquireGood DEF Core
<1>2. /\ Core(s, X \ {r}) /\ s.holds = p.holds /\ s.waiting = p.waiting \ {r}
      /\ s.queue = p.queue /\ s.idle = p.idle /\ SameClients(p, s) /\ SameEnd(p, s)
  BY SettleCore
<1>3. q = [s EXCEPT !.holds[r] = c] /\ s \in PoolState
  BY <1>2 DEF Acquire, Core, Good
<1> HIDE DEF s, q
<1>4. /\ SameRequests(s, q) /\ SameClients(s, q) /\ SameEnd(s, q) /\ SameUse(s, q)
      /\ q.idle = s.idle /\ q.holds = [s.holds EXCEPT ![r] = c]
  BY ZenonT(60), <1>3 DEF PoolState, SameRequests, SameClients, SameEnd, SameUse
<1>5. Core(q, X \ {r})
  BY <1>1, <1>2, <1>4, SameCore
<1>6. Answers(p, q)
  <2>1. ASSUME NEW a \in Callers, q.holds[a] \notin {None, p.holds[a]} PROVE a = r /\ q.holds[a] = c
    <3>1. p.holds \in [Callers -> Clients \cup {None}]
      BY ZenonT(60) DEF Core, Good, PoolState
    <3> QED BY <1>2, <1>4, <2>1, <3>1
  <2>2. /\ q.waiting = p.waiting \ {r} /\ q.clients = p.clients /\ q.dialing = p.dialing
        /\ q.ending = p.ending /\ q.ticks = p.ticks
    BY <1>2, <1>4 DEF SameRequests, SameClients, SameEnd
  <2> QED BY <1>0, <2>1, <2>2 DEF Answers
<1>7. \A n : Awake(p, n) => Awake(q, n)
  BY <1>2, <1>4 DEF Awake, SameRequests, SameClients
<1> QED BY <1>5, <1>6, <1>7 DEF q, Answers

\* The first queued request is in the hands of _pulseQueue.
LEMMA Dequeued ==
    ASSUME NEW p, NEW X, Core(p, X), p.queue # <<>>,
           NEW q, q = [p EXCEPT !.queue = Tail(@)]
    PROVE  /\ Core(q, X \cup {Head(p.queue)}) /\ Head(p.queue) \notin X
           /\ Head(p.queue) \in Callers /\ Len(q.queue) = Len(p.queue) - 1
           /\ q.idle = p.idle /\ q.holds = p.holds /\ q.clients = p.clients
           /\ SameEnd(p, q) /\ q.waiting = p.waiting
<1>1. /\ p.queue \in Seq(Callers) /\ IsInjective(p.queue) /\ p \in PoolState
  BY ZenonT(60) DEF Core, Requests, Good, PoolState
<1>2. /\ Head(p.queue) \in ToSet(p.queue) /\ Head(p.queue) \in Callers
      /\ Tail(p.queue) \in Seq(Callers) /\ IsInjective(Tail(p.queue))
      /\ ToSet(Tail(p.queue)) = ToSet(p.queue) \ {Head(p.queue)}
      /\ Len(Tail(p.queue)) = Len(p.queue) - 1
  BY <1>1, TakeFirst
<1>3. /\ q \in PoolState /\ SameOwners(p, q)
      /\ q.queue = Tail(p.queue) /\ q.waiting = p.waiting /\ q.request = p.request
      /\ SameClients(p, q) /\ SameEnd(p, q) /\ SameUse(p, q)
  BY ZenonT(60), <1>1, <1>2 DEF PoolState, SameOwners, SameClients, SameEnd, SameUse
<1>4. Good(q)
  BY <1>3, SameGood DEF Core
<1>5. Requests(q, X \cup {Head(p.queue)})
  BY <1>2, <1>3 DEF Core, Requests, Served, SameClients
<1>6. Ends(q)
  <2>1. p.ending => FALSE
    BY DEF Core, Ends
  <2> QED BY <1>3, <2>1 DEF Core, Ends, SameEnd
<1>7. Fit(q)
  BY <1>3 DEF Core, Fit, FitBut, SameOwners, SameUse
<1> QED BY <1>2, <1>3, <1>4, <1>5, <1>6, <1>7 DEF Core, Requests, SameOwners

\* _pulseQueue that serves a request leaves one less to serve.
LEMMA ServeNextCore ==
    ASSUME NEW p, NEW X, Core(p, X), ~p.ending, CanServe(p)
    PROVE  /\ Core(ServeNext(p), X) /\ Answers(p, ServeNext(p))
           /\ \A n \in Nat : Awake(p, n + 1) => Awake(ServeNext(p), n)
<1> DEFINE r == Head(p.queue)
           q == [p EXCEPT !.queue = Tail(@)]
           Y == X \cup {r}
<1>1. /\ Core(q, Y) /\ r \notin X
      /\ r \in Callers /\ Len(q.queue) = Len(p.queue) - 1
      /\ q.idle = p.idle /\ q.holds = p.holds /\ q.clients = p.clients
      /\ SameEnd(p, q) /\ q.waiting = p.waiting
  BY Dequeued DEF CanServe
<1>2. ServeNext(p) =
        IF q.idle # <<>>
        THEN Acquire([q EXCEPT !.idle = Front(@), !.idleTimer = @ \ {Last(q.idle)}],
                     Last(q.idle), r)
        ELSE NewClient(q, r)
  BY DEF ServeNext
<1> HIDE DEF q, r
<1>3. Y \ {r} = X
  BY <1>1
<1>4. ~q.ending /\ Answers(p, q)
  BY <1>1 DEF SameEnd, Answers
<1>5. CASE q.idle # <<>>
  <2> DEFINE c == Last(q.idle)
             t == [q EXCEPT !.idle = Front(@), !.idleTimer = @ \ {c}]
  <2>0. q.idle \in Seq(Clients) /\ IsInjective(q.idle) /\ q \in PoolState
    BY <1>1 DEF Core, Good, Owners, PoolState
  <2>1. /\ c \in ToSet(q.idle) /\ c \in Clients
        /\ Front(q.idle) \in Seq(Clients) /\ IsInjective(Front(q.idle))
        /\ ToSet(Front(q.idle)) = ToSet(q.idle) \ {c}
    BY <1>5, <2>0, PopStack
  <2>2. Len(Front(q.idle)) = Len(q.idle) - 1
    BY <1>5, <2>0 DEF Front
  <2> HIDE DEF c
  <2>3. /\ t \in PoolState
        /\ t.rolling = q.rolling /\ t.connTimer = q.connTimer /\ t.attached = q.attached
        /\ t.idle = Front(q.idle) /\ t.idleTimer = q.idleTimer \ {c} /\ t.holds = q.holds
        /\ SameRequests(q, t) /\ SameClients(q, t) /\ SameEnd(q, t) /\ SameUse(q, t)
    BY ZenonT(60), <2>0, <2>1 DEF PoolState, SameRequests, SameClients, SameEnd, SameUse
  <2> HIDE DEF t
  <2>4. Held(t) = Held(q) /\ Late(t) = Late(q)
    BY <2>3 DEF Held, Late, SameClients
  <2>5. Good(t)
    <3>1. Owners(t)
      BY <1>1, <2>1, <2>3, <2>4 DEF Core, Good, Owners, SameClients
    <3>2. Marks(t) /\ Bounds(t)
      BY <1>1, <2>1, <2>3, <2>4 DEF Core, Good, Marks, Bounds, SameClients, SameEnd
    <3> QED BY <2>3, <3>1, <3>2 DEF Good
  <2>6. Core(t, Y)
    <3>1. Requests(t, Y)
      BY <1>1, <2>3 DEF Core, Requests, Served, SameRequests, SameClients
    <3>2. Ends(t) /\ Fit(t)
      BY <1>1, <2>1, <2>3 DEF Core, Ends, Fit, FitBut, SameRequests, SameClients, SameEnd, SameUse
    <3> QED BY <2>5, <3>1, <3>2 DEF Core
  <2>7. c \in t.clients /\ c \notin ToSet(t.idle) \cup Held(t) \cup t.dialing \cup t.rolling
    BY <1>1, <2>1, <2>3, <2>4 DEF Core, Good, Owners, SameClients
  <2>8. ~t.ending /\ Answers(p, t) /\ t.holds = p.holds
    BY <1>1, <1>4, <2>3 DEF SameEnd, SameRequests, Answers
  <2>9. /\ Core(Acquire(t, c, r), Y \ {r}) /\ Answers(t, Acquire(t, c, r))
        /\ \A n : Awake(t, n) => Awake(Acquire(t, c, r), n)
    BY <2>6, <2>7, <2>8, AcquireCore
  <2>10. Answers(p, Acquire(t, c, r))
    BY <2>8, <2>9, AnswersOn
  <2>11. ASSUME NEW n \in Nat, Awake(p, n + 1) PROVE Awake(t, n)
    <3>1. Len(t.queue) = Len(p.queue) - 1 /\ Len(t.idle) = Len(p.idle) - 1 /\ t.clients = p.clients
      BY <1>1, <2>2, <2>3 DEF SameRequests, SameClients
    <3>2. Len(p.queue) <= n + 1 => Len(t.queue) <= n
      BY <3>1, Sizes DEF Core
    <3>3. Len(p.idle) + PoolMax <= Cardinality(p.clients) + (n + 1)
            => Len(t.idle) + PoolMax <= Cardinality(t.clients) + n
      BY <3>1, Sizes DEF Core
    <3> QED BY <2>11, <3>2, <3>3 DEF Awake
  <2> QED BY <1>2, <1>3, <1>5, <2>9, <2>10, <2>11 DEF t, c
<1>6. CASE q.idle = <<>>
  <2>1. ~Full(q)
    BY <1>1, <1>6 DEF CanServe, Full
  <2>2. /\ Core(NewClient(q, r), Y \ {r}) /\ Answers(q, NewClient(q, r))
        /\ NewClient(q, r).queue = q.queue /\ NewClient(q, r).idle = q.idle
        /\ Cardinality(NewClient(q, r).clients) = Cardinality(q.clients) + 1
    BY <1>1, <1>4, <2>1, NewClientCore
  <2>3. Answers(p, NewClient(q, r))
    BY <1>1, <1>4, <2>2, AnswersOn
  <2>4. ASSUME NEW n \in Nat, Awake(p, n + 1) PROVE Awake(NewClient(q, r), n)
    <3>1. Len(p.queue) <= n + 1 => Len(NewClient(q, r).queue) <= n
      BY <1>1, <2>2, Sizes DEF Core
    <3>2. Len(p.idle) + PoolMax <= Cardinality(p.clients) + (n + 1)
            => Len(NewClient(q, r).idle) + PoolMax <= Cardinality(NewClient(q, r).clients) + n
      BY <1>1, <2>2, Sizes DEF Core
    <3> QED BY <2>4, <3>1, <3>2 DEF Awake
  <2> QED BY <1>2, <1>3, <1>6, <2>2, <2>3, <2>4
<1> QED BY <1>5, <1>6

\* _pulseQueue of an ending pool: what is left is in somebody's hands.
LEMMA PulseEndingCore ==
    ASSUME NEW p, NEW X, Core(p, X), p.ending, ~p.ended
    PROVE  /\ Core(PulseEnding(p), X) /\ Answers(p, PulseEnding(p)) /\ Wound(PulseEnding(p))
           /\ PulseEnding(p).queue = <<>>
<1> DEFINE C == (p.connecting \cap p.clients) \cup ToSet(p.idle)
           d == Drop(p, C)
           e == [d EXCEPT !.idle = <<>>, !.idleTimer = {}]
           q == PulseEnding(p)
<1>1. Good(q)
  BY PulseEndingGood DEF Core
<1>2. C \subseteq Clients /\ p.connecting \subseteq C
  BY ZenonT(60) DEF Core, Good, Owners, PoolState, Requests
<1> HIDE DEF C
<1>3. d \in PoolState
  <2>1. p \in PoolState
    BY DEF Core, Good
  <2> QED BY <2>1, DropFields
<1>4. /\ Requests(d, X) /\ d.queue = p.queue
      /\ d.waiting \subseteq p.waiting
      /\ d.uses = [c \in Clients |-> IF c \in C THEN 0 ELSE p.uses[c]]
      /\ d.inTx = p.inTx \ C
      /\ SameEnd(p, d)
      /\ d.clients = p.clients \ C /\ d.dialing = p.dialing
      /\ d.connecting = p.connecting \ C
      /\ d.holds = p.holds /\ d.idle = p.idle
      /\ d.warm = p.warm
  <2>1. Good(p) /\ Requests(p, X)
    BY DEF Core
  <2> QED BY <1>2, <2>1, DropKept, Zenon
<1>5. q = IF e.clients = {}
          THEN [e EXCEPT !.ended = TRUE, !.endWait = {}, !.endDone = @ \cup e.endWait]
          ELSE e
  BY DEF PulseEnding, C
<1> HIDE DEF d
<1>6. /\ e \in PoolState
      /\ SameRequests(d, e) /\ SameClients(d, e) /\ SameEnd(d, e) /\ SameUse(d, e)
      /\ e.holds = d.holds /\ e.idle = <<>>
  <2>1. <<>> \in Seq(Clients)
    OBVIOUS
  <2> QED BY ZenonT(60), <1>3, <2>1 DEF PoolState, SameRequests, SameClients, SameEnd, SameUse
<1> HIDE DEF e, q
<1>7. /\ SameRequests(e, q) /\ SameClients(e, q) /\ SameUse(e, q)
      /\ q.holds = e.holds /\ q.idle = <<>> /\ q.ending = e.ending /\ q.ticks = e.ticks
      /\ IF e.clients = {} THEN q.ended = TRUE /\ q.endWait = {} ELSE q.ended = e.ended
  BY ZenonT(60), <1>5, <1>6 DEF PoolState, SameRequests, SameClients, SameUse
<1>8. Requests(q, X)
  BY <1>4, <1>6, <1>7 DEF Requests, Served, SameRequests, SameClients
<1>9. q.ending /\ q.queue = <<>> /\ q.connecting = {}
  BY <1>2, <1>4, <1>6, <1>7 DEF SameRequests, SameClients, SameEnd, Core, Ends
<1>10. Ends(q) /\ Wound(q)
  BY <1>4, <1>6, <1>7, <1>9 DEF Ends, Wound, SameClients, SameEnd
<1>11. Fit(q)
  <2>1. ToSet(q.idle) = {}
    BY <1>7 DEF ToSet
  <2>2. \A c \in q.clients : c \in p.clients /\ q.uses[c] = p.uses[c]
    BY <1>4, <1>6, <1>7 DEF SameClients, SameUse, Core, Good, PoolState
  <2> QED BY <1>4, <1>6, <1>7, <2>1, <2>2 DEF Core, Fit, FitBut, SameClients, SameUse
<1>12. Answers(p, q)
  BY <1>4, <1>6, <1>7 DEF Answers, SameRequests, SameEnd
<1> QED BY <1>1, <1>8, <1>9, <1>10, <1>11, <1>12 DEF Core, q

\* _pulseQueue.
LEMMA PulseCore ==
    ASSUME NEW p, NEW X, Core(p, X)
    PROVE  /\ Core(Pulse(p), X) /\ Answers(p, Pulse(p)) /\ Wound(Pulse(p))
           /\ \A n \in Nat : Awake(p, n + 1) => Awake(Pulse(p), n)
<1>1. p.ending \in BOOLEAN /\ p.ended \in BOOLEAN
  BY Sizes DEF Core
<1>2. CASE p.ended
  <2>1. Pulse(p) = p /\ p.queue = <<>> /\ p.clients = {}
    BY <1>2 DEF Pulse, Core, Ends
  <2>2. p.idle = <<>> /\ p.connecting = {}
    <3>1. ToSet(p.idle) = {} /\ p.idle \in Seq(Clients)
      BY <2>1 DEF Core, Good, Owners, PoolState
    <3>2. p.idle = <<>>
      <4>1. ASSUME NEW i \in 1..Len(p.idle) PROVE FALSE
        <5>1. p.idle[i] \in ToSet(p.idle)
          BY <3>1 DEF ToSet
        <5> QED BY <3>1, <5>1
      <4>2. Len(p.idle) = 0
        BY <3>1, <4>1
      <4> QED BY <3>1, <4>2
    <3> QED BY <2>1, <3>2 DEF Core, Requests
  <2>3. \A n \in Nat : Len(p.queue) <= n
    BY <2>1
  <2> QED BY <1>2, <2>1, <2>2, <2>3 DEF Answers, Wound, Awake
<1>3. CASE ~p.ended /\ p.ending
  <2>1. Pulse(p) = PulseEnding(p)
    BY <1>3 DEF Pulse
  <2>2. Core(Pulse(p), X) /\ Answers(p, Pulse(p)) /\ Wound(Pulse(p)) /\ Pulse(p).queue = <<>>
    BY <1>3, <2>1, PulseEndingCore
  <2>3. \A n \in Nat : Len(Pulse(p).queue) <= n
    BY <2>2
  <2> QED BY <2>2, <2>3 DEF Awake
<1>4. CASE ~p.ended /\ ~p.ending /\ CanServe(p)
  <2>1. Pulse(p) = ServeNext(p)
    BY <1>4 DEF Pulse
  <2>2. /\ Core(Pulse(p), X) /\ Answers(p, Pulse(p))
        /\ \A n \in Nat : Awake(p, n + 1) => Awake(Pulse(p), n)
    BY <1>4, <2>1, ServeNextCore
  <2>3. Wound(Pulse(p))
    BY <1>4, <2>2 DEF Answers, Wound
  <2> QED BY <2>2, <2>3
<1>5. CASE ~p.ended /\ ~p.ending /\ ~CanServe(p)
  <2>1. Pulse(p) = p
    BY <1>5 DEF Pulse
  <2>2. \A n \in Nat : Awake(p, n)
    <3>1. CASE p.queue = <<>>
      BY <3>1 DEF Awake
    <3>2. CASE p.idle = <<>> /\ Full(p)
      BY <3>2, Sizes DEF Awake, Full, Core
    <3> QED BY <1>5, <3>1, <3>2 DEF CanServe
  <2> QED BY <1>5, <2>1, <2>2 DEF Answers, Wound
<1> QED BY <1>1, <1>2, <1>3, <1>4, <1>5

\* _ensureMinIdle followed by _pulseQueue.
LEMMA RefillCore ==
    ASSUME NEW p, NEW X, Core(p, X)
    PROVE  /\ Core(Refill(p), X) /\ Answers(p, Refill(p)) /\ Wound(Refill(p))
           /\ \A n \in Nat : Awake(p, n + 1) => Awake(Refill(p), n)
<1> DEFINE m == EnsureMinIdle(p)
<1>1. /\ Core(m, X) /\ Answers(p, m) /\ m.holds = p.holds
      /\ \A n \in Nat : Awake(p, n) => Awake(m, n)
  BY EnsureMinIdleCore
<1> HIDE DEF m
<1>2. /\ Core(Pulse(m), X) /\ Answers(m, Pulse(m)) /\ Wound(Pulse(m))
      /\ \A n \in Nat : Awake(m, n + 1) => Awake(Pulse(m), n)
  BY <1>1, PulseCore
<1>3. Answers(p, Pulse(m))
  BY <1>1, <1>2, AnswersOn
<1>4. \A n \in Nat : n + 1 \in Nat
  OBVIOUS
<1> QED BY <1>1, <1>2, <1>3, <1>4 DEF Refill, m

-----------------------------------------------------------------------------
(* The slots the methods give back *)

\* Slots speaks of these fields only.
LEMMA SlotsSame ==
    ASSUME NEW p, NEW S, Slots(p, S), NEW q, SameSlots(p, q), q.queueTimer \subseteq p.queueTimer
    PROVE  Slots(q, S)
<1>1. Held(q) = Held(p)
  BY DEF Held, SameSlots
<1> QED BY <1>1 DEF Slots, SameSlots

\* A method that answers hands clients to those only that wait.
LEMMA FreeOn ==
    ASSUME NEW p, p.waiting \in SUBSET Callers, Free(p), NEW q, Answers(p, q)
    PROVE  Free(q)
BY DEF Free, Answers

\* A caller with its answer.
LEMMA SettleSlots ==
    ASSUME NEW p, p \in PoolState, NEW S, Slots(p, S), NEW R, NEW q, q = Settle(p, R)
    PROVE  Slots(q, S) /\ SameSlots(p, q) /\ q \in PoolState
<1>1. SameSlots(p, q) /\ q.queueTimer = p.queueTimer \ R /\ q \in PoolState
  BY ZenonT(60) DEF Settle, PoolState, SameSlots
<1>2. q.queueTimer \subseteq p.queueTimer
  BY <1>1
<1> QED BY <1>1, <1>2, SlotsSame

\* _remove frees the slots of its clients.
LEMMA DropSlots ==
    ASSUME NEW p, p \in PoolState, NEW S, Slots(p, S), NEW C, C \subseteq Clients,
           NEW q, q = Drop(p, C)
    PROVE  /\ Slots(q, S) /\ q.clients = p.clients \ C /\ q.idle = p.idle
           /\ q.holds = p.holds /\ q \in PoolState
<1> DEFINE s == Settle(p, {p.request[c] : c \in C})
<1>1. Slots(s, S) /\ SameSlots(p, s) /\ s \in PoolState
  BY SettleSlots
<1>2. q = [s EXCEPT
            !.clients = @ \ C,
            !.connecting = @ \ C,
            !.request = [c \in Clients |-> IF c \in C THEN None ELSE @[c]],
            !.uses = [c \in Clients |-> IF c \in C THEN 0 ELSE @[c]],
            !.lifeTimer = @ \ C,
            !.expired = @ \ C,
            !.attached = @ \ C,
            !.inTx = @ \ C]
  BY DEF Drop
<1> HIDE DEF s
<1>3. /\ q.clients = s.clients \ C /\ q.dialing = s.dialing /\ q.rolling = s.rolling
      /\ q.idle = s.idle /\ q.holds = s.holds /\ q.warm = s.warm
      /\ q.request = [c \in Clients |-> IF c \in C THEN None ELSE s.request[c]]
      /\ q.queueTimer = s.queueTimer
  BY ZenonT(60), <1>1, <1>2 DEF PoolState
<1>4. q \in PoolState
  BY DropFields
<1>5. Held(q) = Held(s)
  BY <1>3 DEF Held
<1>6. q.clients \subseteq Clients
  BY ZenonT(60), <1>4 DEF PoolState
<1>7. \A c \in q.clients : c \in s.clients /\ c \notin C /\ q.request[c] = s.request[c]
  BY <1>3, <1>6
<1>8. Slots(q, S)
  BY <1>1, <1>3, <1>5, <1>7 DEF Slots
<1> QED BY <1>1, <1>3, <1>4, <1>8 DEF SameSlots

\* _remove of a client that may be in the hands of the method.
LEMMA RemoveSlots ==
    ASSUME NEW p, Good(p), NEW c \in Clients, Slots(p, {c})
    PROVE  Slots(RemoveClient(p, c), {})
<1>0. p \in PoolState /\ p.idle \in Seq(Clients) /\ IsInjective(p.idle)
  BY ZenonT(60) DEF Good, Owners, PoolState
<1>1. CASE c \notin p.clients
  <2>1. RemoveClient(p, c) = p
    BY <1>1 DEF RemoveClient
  <2> QED BY <1>1, <2>1 DEF Slots
<1>2. CASE c \in p.clients
  <2> DEFINE d == Drop(p, {c})
             q == RemoveClient(p, c)
  <2>1. /\ Slots(d, {c}) /\ d.clients = p.clients \ {c} /\ d.idle = p.idle
        /\ d \in PoolState
    BY <1>0, DropSlots
  <2>2. q = [d EXCEPT !.idle = Without(@, c), !.idleTimer = @ \ {c}]
    BY <1>2 DEF RemoveClient
  <2> HIDE DEF d, q
  <2>3. /\ q.clients = d.clients /\ q.dialing = d.dialing /\ q.rolling = d.rolling
        /\ q.idle = Without(d.idle, c) /\ q.holds = d.holds /\ q.warm = d.warm
        /\ q.request = d.request
        /\ q.queueTimer = d.queueTimer
    BY ZenonT(60), <2>1, <2>2 DEF PoolState
  <2>4. ToSet(q.idle) = ToSet(d.idle) \ {c}
    BY <1>0, <2>1, <2>3, WithoutElement
  <2>5. Held(q) = Held(d)
    BY <2>3 DEF Held
  <2> QED BY <2>1, <2>3, <2>4, <2>5 DEF Slots, q
<1> QED BY <1>1, <1>2

\* _newClient: the slot is that of a connect() which was opened for a caller.
LEMMA NewClientSlots ==
    ASSUME NEW p, Good(p), ~p.ending, ~Full(p), NEW S, Slots(p, S),
           NEW r \in Callers
    PROVE  Slots(NewClient(p, r), S)
<1> DEFINE N == NewNames(p, 1)
           d == Dial(p, N)
           q == NewClient(p, r)
<1>0. N \subseteq Clients \ (p.clients \cup Held(p) \cup Late(p)) /\ p \in PoolState
  BY Sizes, FreshNames, SizesAssumption DEF Good, Bounds, Full
<1>1. /\ d.clients = p.clients \cup N /\ d.dialing = p.dialing \cup N
      /\ d.rolling = p.rolling /\ d.idle = p.idle /\ d.holds = p.holds /\ d.warm = p.warm
      /\ d.request = p.request /\ d.queueTimer = p.queueTimer
      /\ d \in PoolState
  BY ZenonT(60), <1>0 DEF Dial, PoolState
<1>2. q = [d EXCEPT
            !.request = [c \in Clients |-> IF c \in N THEN r ELSE @[c]],
            !.connTimer = IF ConnectionTimeout THEN @ \cup N ELSE @]
  BY DEF NewClient
<1>3. p.clients \subseteq Clients /\ p.request \in [Clients -> Callers \cup {None}]
      /\ r # None
  BY ZenonT(60), <1>0, NamesAssumption DEF PoolState
<1> HIDE DEF N, d, q
<1>4. /\ q.clients = d.clients /\ q.dialing = d.dialing /\ q.rolling = d.rolling
      /\ q.idle = d.idle /\ q.holds = d.holds /\ q.warm = d.warm
      /\ q.request = [c \in Clients |-> IF c \in N THEN r ELSE d.request[c]]
      /\ q.queueTimer = d.queueTimer
  BY ZenonT(60), <1>1, <1>2 DEF PoolState
<1>5. Held(q) = Held(p)
  BY <1>1, <1>4 DEF Held
<1>6. q.clients \subseteq q.dialing \cup q.rolling \cup ToSet(q.idle) \cup Held(q) \cup S
  BY <1>1, <1>4, <1>5 DEF Slots
<1>7. ASSUME NEW c \in q.clients \cap q.dialing PROVE c \in q.warm \/ q.request[c] # None
  <2>1. CASE c \in N
    BY <1>0, <1>3, <1>4, <2>1
  <2>2. CASE c \notin N
    <3>1. c \in p.clients \cap p.dialing
      BY <1>1, <1>4, <2>2
    <3>2. q.request[c] = p.request[c] /\ q.warm = p.warm
      BY <1>1, <1>3, <1>4, <2>2, <3>1
    <3> QED BY <3>1, <3>2 DEF Slots
  <2> QED BY <2>1, <2>2
<1> QED BY <1>1, <1>4, <1>6, <1>7 DEF Slots, q

\* _ensureMinIdle: the new slots are those of connects nobody waits for.
LEMMA EnsureMinIdleSlots ==
    ASSUME NEW p, Good(p), NEW S, Slots(p, S)
    PROVE  Slots(EnsureMinIdle(p), S)
<1>1. CASE p.ending \/ p.ended \/ Cardinality(p.clients) >= PoolMin
  <2>1. EnsureMinIdle(p) = p
    BY <1>1 DEF EnsureMinIdle
  <2> QED BY <2>1
<1>2. CASE ~(p.ending \/ p.ended \/ Cardinality(p.clients) >= PoolMin)
  <2> DEFINE N == NewNames(p, PoolMin - Cardinality(p.clients))
             d == Dial(p, N)
             q == EnsureMinIdle(p)
  <2>1. p \in PoolState
    BY DEF Good
  <2>2. q = [d EXCEPT !.warm = @ \cup N]
    BY <1>2 DEF EnsureMinIdle
  <2> HIDE DEF N, q
  <2>3. /\ d.clients = p.clients \cup N /\ d.dialing = p.dialing \cup N
        /\ d.rolling = p.rolling /\ d.idle = p.idle /\ d.holds = p.holds /\ d.warm = p.warm
        /\ d.request = p.request /\ d.queueTimer = p.queueTimer
        /\ DOMAIN d = DOMAIN p
    BY ZenonT(60), <2>1 DEF Dial, PoolState
  <2> HIDE DEF d
  <2>4. /\ q.clients = d.clients /\ q.dialing = d.dialing /\ q.rolling = d.rolling
        /\ q.idle = d.idle /\ q.holds = d.holds /\ q.warm = d.warm \cup N
        /\ q.request = d.request
        /\ q.queueTimer = d.queueTimer
    BY ZenonT(60), <2>1, <2>2, <2>3 DEF PoolState
  <2>5. Held(q) = Held(p)
    BY <2>3, <2>4 DEF Held
  <2> QED BY <2>3, <2>4, <2>5 DEF Slots, q
<1> QED BY <1>1, <1>2

\* _acquireClient: from the hands of the method into those of the caller.
LEMMA AcquireSlots ==
    ASSUME NEW p, p \in PoolState, NEW c \in Clients, Slots(p, {c}),
           NEW r \in Callers, p.holds[r] = None
    PROVE  Slots(Acquire(p, c, r), {})
<1> DEFINE s == Settle(p, {r})
           q == Acquire(p, c, r)
<1>1. Slots(s, {c}) /\ SameSlots(p, s) /\ s \in PoolState
  BY SettleSlots
<1>2. q = [s EXCEPT !.holds = [s.holds EXCEPT ![r] = c]]
  BY DEF Acquire
<1> HIDE DEF s, q
<1>3. /\ q.clients = s.clients /\ q.dialing = s.dialing /\ q.rolling = s.rolling
      /\ q.idle = s.idle /\ q.warm = s.warm /\ q.request = s.request
      /\ q.queueTimer = s.queueTimer
      /\ q.holds = [s.holds EXCEPT ![r] = c]
  BY ZenonT(60), <1>1, <1>2 DEF PoolState
<1>4. s.holds \in [Callers -> Clients \cup {None}] /\ None \notin Clients /\ s.holds[r] = None
  BY <1>1, NamesAssumption DEF PoolState, SameSlots
<1>5. q.holds[r] = c /\ \A a \in Callers \ {r} : q.holds[a] = s.holds[a]
  BY <1>3, <1>4
<1>6. Held(s) \cup {c} \subseteq Held(q)
  BY <1>4, <1>5 DEF Held
<1> QED BY <1>1, <1>3, <1>6 DEF Slots, q

\* _pulseQueue of an ending pool frees the slots of the idle stack it empties.
LEMMA PulseEndingSlots ==
    ASSUME NEW p, p \in PoolState, NEW S, Slots(p, S)
    PROVE  Slots(PulseEnding(p), S)
<1> DEFINE C == (p.connecting \cap p.clients) \cup ToSet(p.idle)
           d == Drop(p, C)
           e == [d EXCEPT !.idle = <<>>, !.idleTimer = {}]
           q == PulseEnding(p)
<1>1. C \subseteq Clients
  <2>1. p.clients \subseteq Clients /\ p.idle \in Seq(Clients)
    BY ZenonT(60) DEF PoolState
  <2>2. ToSet(p.idle) \subseteq Clients
    BY <2>1 DEF ToSet
  <2> QED BY <2>1, <2>2
<1>2. ToSet(p.idle) \subseteq C
  OBVIOUS
<1> HIDE DEF C
<1>3. Slots(d, S) /\ d.clients = p.clients \ C /\ d.idle = p.idle /\ d \in PoolState
  BY <1>1, DropSlots
<1>4. q = IF e.clients = {}
          THEN [e EXCEPT !.ended = TRUE, !.endWait = {}, !.endDone = @ \cup e.endWait]
          ELSE e
  BY DEF PulseEnding, C
<1> HIDE DEF d
<1>5. /\ e.clients = d.clients /\ e.dialing = d.dialing /\ e.rolling = d.rolling
      /\ e.idle = <<>> /\ e.holds = d.holds /\ e.warm = d.warm /\ e.request = d.request
      /\ e.queueTimer = d.queueTimer /\ DOMAIN e = DOMAIN d
  BY ZenonT(60), <1>3 DEF PoolState
<1> HIDE DEF e
<1>6. SameSlots(e, q) /\ q.queueTimer = e.queueTimer
  BY ZenonT(60), <1>3, <1>4, <1>5 DEF PoolState, SameSlots
<1>7. Slots(e, S)
  <2>1. Held(e) = Held(d)
    BY <1>5 DEF Held
  <2> QED BY <1>2, <1>3, <1>5, <2>1 DEF Slots
<1>8. q.queueTimer \subseteq e.queueTimer
  BY <1>6
<1> HIDE DEF q
<1>9. Slots(q, S)
  BY <1>6, <1>7, <1>8, SlotsSame
<1> QED BY <1>9 DEF q

\* _pulseQueue that serves a request.
LEMMA ServeNextSlots ==
    ASSUME NEW p, NEW X, Core(p, X), ~p.ending, CanServe(p), Free(p),
           Slots(p, {})
    PROVE  Slots(ServeNext(p), {})
<1> DEFINE r == Head(p.queue)
           q == [p EXCEPT !.queue = Tail(@)]
<1>1. /\ Core(q, X \cup {r}) /\ r \in Callers /\ q.waiting = p.waiting /\ q.holds = p.holds
      /\ q.clients = p.clients /\ q.idle = p.idle /\ SameEnd(p, q)
  BY Dequeued DEF CanServe
<1>2. ServeNext(p) =
        IF q.idle # <<>>
        THEN Acquire([q EXCEPT !.idle = Front(@), !.idleTimer = @ \ {Last(q.idle)}],
                     Last(q.idle), r)
        ELSE NewClient(q, r)
  BY DEF ServeNext
<1>3. p.holds[r] = None
  <2>1. r \in q.waiting
    BY <1>1 DEF Core, Requests
  <2> QED BY <1>1, <2>1 DEF Free
<1>4. SameSlots(p, q) /\ q.queueTimer = p.queueTimer
  <2>1. p \in PoolState
    BY DEF Core, Good
  <2> QED BY ZenonT(60), <2>1 DEF PoolState, SameSlots
<1>8. ~q.ending
  BY <1>1 DEF SameEnd
<1> HIDE DEF q, r
<1>5. Slots(q, {})
  BY <1>4, SlotsSame
<1>6. CASE q.idle # <<>>
  <2> DEFINE c == Last(q.idle)
             t == [q EXCEPT !.idle = Front(@), !.idleTimer = @ \ {c}]
  <2>0. q.idle \in Seq(Clients) /\ IsInjective(q.idle) /\ q \in PoolState
    BY <1>1 DEF Core, Good, Owners, PoolState
  <2>1. /\ c \in Clients /\ Front(q.idle) \in Seq(Clients)
        /\ ToSet(Front(q.idle)) = ToSet(q.idle) \ {c}
    BY <1>6, <2>0, PopStack
  <2> HIDE DEF c
  <2>2. /\ t \in PoolState /\ t.idle = Front(q.idle)
        /\ t.clients = q.clients /\ t.dialing = q.dialing /\ t.rolling = q.rolling
        /\ t.holds = q.holds /\ t.warm = q.warm /\ t.request = q.request
        /\ t.queueTimer = q.queueTimer
    BY ZenonT(60), <2>0, <2>1 DEF PoolState
  <2> HIDE DEF t
  <2>3. Held(t) = Held(q)
    BY <2>2 DEF Held
  <2>4. Slots(t, {c})
    BY <1>5, <2>1, <2>2, <2>3 DEF Slots
  <2>5. Slots(Acquire(t, c, r), {})
    BY <1>1, <1>3, <2>1, <2>2, <2>4, AcquireSlots
  <2> QED BY <1>2, <1>6, <2>5 DEF t, c
<1>7. CASE q.idle = <<>>
  <2>1. ~Full(q)
    BY <1>1, <1>7 DEF CanServe, Full
  <2>2. Slots(NewClient(q, r), {})
    BY <1>1, <1>5, <1>8, <2>1, NewClientSlots DEF Core
  <2> QED BY <1>2, <1>7, <2>2
<1> QED BY <1>6, <1>7

\* _pulseQueue.
LEMMA PulseSlots ==
    ASSUME NEW p, NEW X, Core(p, X), Free(p), Slots(p, {})
    PROVE  Slots(Pulse(p), {})
<1>1. p.ending \in BOOLEAN /\ p.ended \in BOOLEAN /\ p \in PoolState
  BY Sizes DEF Core, Good
<1>2. CASE ~p.ended /\ p.ending
  <2>1. Pulse(p) = PulseEnding(p)
    BY <1>2 DEF Pulse
  <2> QED BY <1>1, <2>1, PulseEndingSlots
<1>3. CASE ~p.ended /\ ~p.ending /\ CanServe(p)
  <2>1. Pulse(p) = ServeNext(p)
    BY <1>3 DEF Pulse
  <2> QED BY <1>3, <2>1, ServeNextSlots
<1>4. CASE p.ended \/ (~p.ending /\ ~CanServe(p))
  <2>1. Pulse(p) = p
    BY <1>4 DEF Pulse
  <2> QED BY <2>1
<1> QED BY <1>1, <1>2, <1>3, <1>4

\* _ensureMinIdle followed by _pulseQueue.
LEMMA RefillSlots ==
    ASSUME NEW p, NEW X, Core(p, X), Free(p), Slots(p, {})
    PROVE  Slots(Refill(p), {})
<1> DEFINE m == EnsureMinIdle(p)
<1>1. Core(m, X) /\ Answers(p, m)
  BY EnsureMinIdleCore
<1>2. Slots(m, {})
  BY EnsureMinIdleSlots DEF Core
<1>3. Free(m)
  BY <1>1, FreeOn, p.waiting \in SUBSET Callers DEF Core, Good, PoolState
<1> QED BY <1>1, <1>2, <1>3, PulseSlots DEF Refill

\* Slotted speaks of these fields only.
LEMMA SlottedSame ==
    ASSUME NEW p, NEW S, Slotted(p, S), NEW q, SameSlots(p, q),
           q.queueTimer \subseteq p.queueTimer, q.waiting \subseteq p.waiting
    PROVE  Slotted(q, S)
<1>1. Slots(q, S)
  BY SlotsSame DEF Slotted
<1>2. Free(q)
  BY DEF Slotted, Free, SameSlots
<1> QED BY <1>1, <1>2 DEF Slotted

\* A client in the hands of a method becomes idle.
LEMMA PushedSlotted ==
    ASSUME NEW p, NEW c \in Clients, Slotted(p, {c}), p.idle \in Seq(Clients),
           NEW q, q.idle = Append(p.idle, c), q.holds = p.holds,
           SameRequests(p, q), SameClients(p, q), q.rolling = p.rolling,
           q.queueTimer = p.queueTimer
    PROVE  Slotted(q, {})
<1>1. ToSet(p.idle) \cup {c} \subseteq ToSet(q.idle)
  <2>1. /\ DOMAIN q.idle = 1..(Len(p.idle) + 1) /\ DOMAIN p.idle = 1..Len(p.idle)
        /\ q.idle[Len(p.idle) + 1] = c /\ Len(p.idle) + 1 \in 1..(Len(p.idle) + 1)
        /\ \A i \in 1..Len(p.idle) : q.idle[i] = p.idle[i] /\ i \in 1..(Len(p.idle) + 1)
    OBVIOUS
  <2> QED BY <2>1 DEF ToSet
<1>2. Held(q) = Held(p)
  BY DEF Held
<1>3. Slots(q, {})
  BY <1>1, <1>2 DEF Slotted, Slots, SameRequests, SameClients
<1>4. Free(q)
  BY DEF Slotted, Free, SameRequests
<1> QED BY <1>3, <1>4 DEF Slotted

\* Both give no slot to nobody.
LEMMA PulseSlotted ==
    ASSUME NEW p, NEW X, Core(p, X), Slotted(p, {}), NEW s, s \in {Pulse(p), Refill(p)}
    PROVE  Slotted(s, {})
<1>1. Slots(s, {})
  BY PulseSlots, RefillSlots DEF Slotted
<1>2. Answers(p, s) /\ p.waiting \in SUBSET Callers
  BY PulseCore, RefillCore DEF Core, Good, PoolState
<1>3. Free(s)
  BY <1>2, FreeOn DEF Slotted
<1> QED BY <1>1, <1>3 DEF Slotted

-----------------------------------------------------------------------------
(* The methods that end in _pulseQueue *)

\* _remove and what follows it.
LEMMA RemoveAndRefill ==
    ASSUME NEW p, NEW X, Good(p), Requests(p, X), Ends(p), NEW c \in Clients, FitBut(p, {c}),
           Good(RemoveClient(p, c)),
           NEW s, s \in {Refill(RemoveClient(p, c)), Pulse(RemoveClient(p, c))}
    PROVE  /\ Core(s, X) /\ Answers(p, s) /\ Wound(s)
           /\ \A n \in Nat : Awake(p, n) => Awake(s, n)
           /\ Slotted(p, {c}) => Slotted(s, {})
<1> DEFINE q == RemoveClient(p, c)
<1>1. /\ Core(q, X) /\ Answers(p, q) /\ q.holds = p.holds
      /\ \A n \in Nat : Awake(p, n) => Awake(q, n + 1)
  BY RemoveCore
<1>3. Slotted(p, {c}) => Slotted(q, {})
  <2>1. p.waiting \in SUBSET Callers
    BY DEF Good, PoolState
  <2>2. Slotted(p, {c}) => Slots(q, {})
    BY RemoveSlots DEF Slotted
  <2>3. Slotted(p, {c}) => Free(q)
    BY <1>1, <2>1, FreeOn DEF Slotted
  <2> QED BY <2>2, <2>3 DEF Slotted
<1> HIDE DEF q
<1>2. /\ Core(s, X) /\ Answers(q, s) /\ Wound(s)
      /\ \A n \in Nat : Awake(q, n + 1) => Awake(s, n)
  BY <1>1, RefillCore, PulseCore DEF q
<1>4. Slotted(q, {}) => Slotted(s, {})
  BY <1>1, PulseSlotted DEF q
<1> QED BY <1>1, <1>2, <1>3, <1>4, AnswersOn

\* One more idle client, for the next request.
LEMMA PushedCore ==
    ASSUME NEW p, NEW X, Core(p, X), NEW c \in p.clients, c \notin ToSet(p.idle),
           RollbackOnRelease => c \notin p.inTx,
           NEW q, Good(q), q.idle = Append(p.idle, c), q.holds = p.holds,
           SameRequests(p, q), SameClients(p, q), SameEnd(p, q), SameUse(p, q)
    PROVE  /\ Core(q, X) /\ Answers(p, q)
           /\ \A n \in Nat : Awake(p, n) => Awake(q, n + 1)
<1>1. c \in Clients /\ p.idle \in Seq(Clients) /\ IsInjective(p.idle)
  BY ZenonT(60) DEF Core, Good, Owners, PoolState
<1>2. ToSet(q.idle) = ToSet(p.idle) \cup {c} /\ Len(q.idle) = Len(p.idle) + 1
  BY <1>1, PushStack
<1>3. Requests(q, X)
  BY DEF Core, Requests, Served, SameRequests, SameClients
<1>4. Ends(q) /\ Fit(q)
  BY <1>2 DEF Core, Ends, Fit, FitBut, SameRequests, SameClients, SameEnd, SameUse
<1>5. Answers(p, q)
  BY DEF Answers, SameRequests, SameEnd
<1>6. ASSUME NEW n \in Nat, Awake(p, n) PROVE Awake(q, n + 1)
  <2>1. Len(q.queue) = Len(p.queue) /\ q.clients = p.clients
    BY DEF SameRequests, SameClients
  <2>2. Len(p.queue) <= n => Len(q.queue) <= n + 1
    BY <2>1, Sizes DEF Core
  <2>3. Len(p.idle) + PoolMax <= Cardinality(p.clients) + n
          => Len(q.idle) + PoolMax <= Cardinality(q.clients) + (n + 1)
    BY <1>2, <2>1, Sizes DEF Core
  <2> QED BY <1>6, <2>2, <2>3 DEF Awake
<1> QED BY <1>3, <1>4, <1>5, <1>6 DEF Core

\* _pushIdle.
LEMMA PushIdleCore ==
    ASSUME NEW p, NEW X, Core(p, X), NEW c \in p.clients,
           c \notin ToSet(p.idle) \cup Held(p) \cup p.dialing \cup p.rolling,
           RollbackOnRelease => c \notin p.inTx
    PROVE  /\ Core(PushIdle(p, c), X) /\ Answers(p, PushIdle(p, c)) /\ Wound(PushIdle(p, c))
           /\ \A n \in Nat : Awake(p, n) => Awake(PushIdle(p, c), n)
           /\ Slotted(p, {c}) => Slotted(PushIdle(p, c), {})
<1> DEFINE q == [p EXCEPT
                    !.idle = Append(@, c),
                    !.idleTimer = IF IdleTimeout /\ AboveMin(p) THEN @ \cup {c} ELSE @]
<1>1. /\ c \in Clients /\ p.idle \in Seq(Clients) /\ IsInjective(p.idle) /\ p \in PoolState
  BY ZenonT(60) DEF Core, Good, Owners, PoolState
<1>2. /\ Append(p.idle, c) \in Seq(Clients) /\ IsInjective(Append(p.idle, c))
      /\ ToSet(Append(p.idle, c)) = ToSet(p.idle) \cup {c}
  BY <1>1, PushStack
<1>3. /\ q \in PoolState
      /\ SameRequests(p, q) /\ SameClients(p, q) /\ SameEnd(p, q) /\ SameUse(p, q)
      /\ q.rolling = p.rolling /\ q.connTimer = p.connTimer /\ q.attached = p.attached
      /\ q.holds = p.holds /\ q.idle = Append(p.idle, c) /\ q.queueTimer = p.queueTimer
      /\ q.idleTimer \in {p.idleTimer, p.idleTimer \cup {c}}
  BY ZenonT(60), <1>1, <1>2 DEF PoolState, SameRequests, SameClients, SameEnd, SameUse
<1>4. PushIdle(p, c) = Pulse(q)
  BY DEF PushIdle
<1> HIDE DEF q
<1>5. Held(q) = Held(p) /\ Late(q) = Late(p)
  BY <1>3 DEF Held, Late, SameClients
<1>6. Good(q)
  <2>1. Owners(q)
    BY <1>2, <1>3, <1>5 DEF Core, Good, Owners, SameClients
  <2>2. Marks(q) /\ Bounds(q)
    BY <1>2, <1>3, <1>5 DEF Core, Good, Marks, Bounds, SameClients, SameEnd
  <2> QED BY <1>3, <2>1, <2>2 DEF Good
<1>7. /\ Core(q, X) /\ Answers(p, q)
      /\ \A n \in Nat : Awake(p, n) => Awake(q, n + 1)
  BY <1>3, <1>6, PushedCore
<1>8. /\ Core(Pulse(q), X) /\ Answers(q, Pulse(q)) /\ Wound(Pulse(q))
      /\ \A n \in Nat : Awake(q, n + 1) => Awake(Pulse(q), n)
  BY <1>7, PulseCore
<1>9. Answers(p, Pulse(q))
  BY <1>3, <1>7, <1>8, AnswersOn
<1>10. ASSUME Slotted(p, {c}) PROVE Slotted(Pulse(q), {})
  <2>1. Slotted(q, {})
    BY <1>1, <1>3, <1>10, PushedSlotted
  <2> QED BY <1>7, <2>1, PulseSlotted
<1> QED BY <1>4, <1>7, <1>8, <1>9, <1>10

\* _release of a client that nobody owns any more: it leaves, it rolls back or it
\* becomes idle.
LEMMA ReleaseKnownCore ==
    ASSUME NEW p, NEW X, Core(p, X), NEW c \in p.clients, NEW err \in BOOLEAN,
           c \notin ToSet(p.idle) \cup Held(p) \cup p.dialing \cup p.rolling,
           NEW s, s = ReleaseKnown(p, c, err)
    PROVE  /\ Core(s, X) /\ Answers(p, s) /\ Wound(s)
           /\ \A n \in Nat : Awake(p, n) => Awake(s, n)
           /\ Slotted(p, {c}) => Slotted(s, {})
<1> DEFINE used == p.uses[c] + 1
           kept == IF MaxUses = 0 THEN 0 ELSE used
           gone == err \/ p.ending \/ (MaxUses # 0 /\ used >= MaxUses) \/ c \in p.expired
           q == [p EXCEPT !.uses[c] = kept]
<1>1. c \in Clients /\ kept \in Nat /\ p.uses \in [Clients -> Nat]
  <2>1. p.uses \in [Clients -> Nat] /\ c \in Clients
    BY ZenonT(60) DEF Core, Good, PoolState
  <2> QED BY <2>1
<1>2. /\ gone => s = Refill(RemoveClient(q, c))
      /\ ~gone => s = IF RollbackOnRelease /\ c \in p.inTx
                      THEN [q EXCEPT !.rolling = @ \cup {c}]
                      ELSE PushIdle(q, c)
  BY DEF ReleaseKnown
<1>3. ~gone /\ MaxUses # 0 => kept < MaxUses
  BY <1>1, SizesAssumption
<1>4. ~gone => ~p.ending
  OBVIOUS
<1> HIDE DEF used, kept, gone
<1>5. /\ q \in PoolState /\ SameOwners(p, q)
      /\ SameRequests(p, q) /\ SameClients(p, q) /\ SameEnd(p, q)
      /\ q.queueTimer = p.queueTimer /\ q.inTx = p.inTx /\ q.uses = [p.uses EXCEPT ![c] = kept]
  BY ZenonT(60), <1>1 DEF Core, Good, PoolState, SameOwners, SameRequests, SameClients, SameEnd
<1> HIDE DEF q
<1>6. Good(q)
  BY <1>5, SameGood DEF Core
<1>7. Requests(q, X) /\ Ends(q)
  BY <1>5 DEF Core, Requests, Served, Ends, SameRequests, SameClients, SameEnd
<1>8. FitBut(q, {c})
  <2>1. \A k \in q.clients \ {c} : k \in p.clients /\ q.uses[k] = p.uses[k]
    BY <1>1, <1>5 DEF SameClients
  <2> QED BY <1>5, <2>1 DEF Core, Fit, FitBut, SameClients, SameOwners
<1>9. Answers(p, q) /\ q.holds = p.holds /\ \A n : Awake(p, n) => Awake(q, n)
  BY <1>5 DEF Answers, Awake, SameRequests, SameClients, SameEnd, SameOwners
<1>10. c \in q.clients /\ c \notin ToSet(q.idle) \cup Held(q) \cup q.dialing \cup q.rolling
  BY <1>5 DEF SameOwners, Held
<1>15. Slotted(p, {c}) => Slotted(q, {c})
  <2>1. SameSlots(p, q) /\ q.queueTimer \subseteq p.queueTimer /\ q.waiting \subseteq p.waiting
    BY <1>5 DEF SameSlots, SameOwners, SameRequests
  <2> QED BY <2>1, SlottedSame
<1>11. CASE gone
  <2>1. c \notin q.warm /\ c \notin q.dialing \cup q.rolling \cup q.connTimer
    BY <1>6, <1>10 DEF Good, Marks
  <2>2. Good(RemoveClient(q, c))
    BY <1>1, <1>6, <2>1, RemoveClientGood
  <2>3. /\ Core(s, X) /\ Answers(q, s) /\ Wound(s)
        /\ \A n \in Nat : Awake(q, n) => Awake(s, n)
        /\ Slotted(q, {c}) => Slotted(s, {})
    <3>1. s \in {Refill(RemoveClient(q, c)), Pulse(RemoveClient(q, c))}
      BY <1>2, <1>11
    <3>2. Good(q) /\ Requests(q, X) /\ Ends(q) /\ FitBut(q, {c}) /\ c \in Clients
      BY <1>1, <1>6, <1>7, <1>8
    <3> QED BY ZenonT(60), <2>2, <3>1, <3>2, RemoveAndRefill
  <2> QED BY <1>9, <1>15, <2>3, AnswersOn
<1>12. ASSUME ~gone PROVE Core(q, X)
  <2>1. \A k \in q.clients : k \in Clients
    BY <1>6 DEF Good, PoolState
  <2>2. q.uses[c] = kept
    BY <1>1, <1>5
  <2>3. MaxUses # 0 => \A k \in q.clients : q.uses[k] < MaxUses
    BY <1>3, <1>8, <1>12, <2>2 DEF FitBut
  <2> QED BY <1>6, <1>7, <1>8, <2>3 DEF Core, Fit, FitBut
<1>13. CASE ~gone /\ RollbackOnRelease /\ c \in p.inTx
  <2> DEFINE t == [q EXCEPT !.rolling = @ \cup {c}]
  <2>1. s = t
    BY <1>2, <1>13
  <2>2. /\ t \in PoolState
        /\ SameRequests(q, t) /\ SameClients(q, t) /\ SameEnd(q, t) /\ SameUse(q, t)
        /\ t.rolling = q.rolling \cup {c} /\ t.queueTimer = q.queueTimer
        /\ t.connTimer = q.connTimer /\ t.idle = q.idle /\ t.holds = q.holds
        /\ t.attached = q.attached /\ t.idleTimer = q.idleTimer
    BY ZenonT(60), <1>1, <1>5
       DEF PoolState, SameRequests, SameClients, SameEnd, SameUse
  <2> HIDE DEF t
  <2>3. Held(t) = Held(q) /\ Late(t) = Late(q)
    BY <1>10, <2>2 DEF Held, Late, SameClients
  <2>4. Good(t)
    BY <1>6, <1>10, <2>2, <2>3
       DEF Good, Owners, Marks, Bounds, SameClients, SameEnd
  <2>5. Core(t, X) /\ Answers(q, t)
    BY <1>12, <1>13, <2>2, <2>4, SameCore
  <2>6. Wound(t) /\ \A n : Awake(q, n) => Awake(t, n)
    BY <1>4, <1>5, <1>13, <2>2 DEF Wound, Awake, SameRequests, SameClients, SameEnd
  <2>7. Slotted(q, {c}) => Slotted(t, {})
    BY <2>2, <2>3 DEF Slotted, Slots, Free, SameRequests, SameClients
  <2> QED BY <1>9, <1>15, <2>1, <2>5, <2>6, <2>7, AnswersOn
<1>14. CASE ~gone /\ ~(RollbackOnRelease /\ c \in p.inTx)
  <2>1. s = PushIdle(q, c) /\ (RollbackOnRelease => c \notin q.inTx) /\ Core(q, X)
    BY <1>2, <1>5, <1>12, <1>14
  <2>2. /\ Core(s, X) /\ Answers(q, s) /\ Wound(s)
        /\ \A n \in Nat : Awake(q, n) => Awake(s, n)
        /\ Slotted(q, {c}) => Slotted(s, {})
    BY <1>10, <2>1, PushIdleCore
  <2> QED BY <1>9, <1>15, <2>2, AnswersOn
<1> QED BY <1>11, <1>13, <1>14

\* The connect() of c has settled: its request, if it still has one, is in the
\* hands of the method, and c may have left the pool.
LEMMA SettledCore ==
    ASSUME NEW p, Core(p, {}), NEW c \in Clients, c \in p.dialing,
           NEW q, Good(q),
           q.dialing = p.dialing \ {c}, q.connecting = p.connecting \ {c},
           q.warm = p.warm \ {c}, q.clients \in {p.clients, p.clients \ {c}},
           q.request = [p.request EXCEPT ![c] = None],
           q.queue = p.queue, q.waiting = p.waiting, q.idle = p.idle, q.holds = p.holds,
           SameEnd(p, q), SameUse(p, q)
    PROVE  /\ Core(q, {p.request[c]} \ {None}) /\ Answers(p, q)
           /\ \A n \in Nat : Awake(p, n) => Awake(q, n + 1)
<1> DEFINE r == p.request[c]
           X == {r} \ {None}
<1>1. p.request \in [Clients -> Callers \cup {None}] /\ None \notin Callers
  BY ZenonT(60), NamesAssumption DEF Core, Good, PoolState
<1>2. /\ q.request[c] = None
      /\ \A k \in Clients \ {c} : q.request[k] = p.request[k]
  BY <1>1
<1>3. \A a \in Callers : Served(p, a) <=> Served(q, a) \/ a \in X
  BY <1>1, <1>2 DEF Served
<1>4. \A a \in X : ~Served(q, a) /\ a \in Callers
  BY <1>1, <1>2 DEF Served, Core, Requests
<1>5. Requests(q, X)
  <2>1. \A a \in Callers : a \in q.waiting <=> a \in ToSet(q.queue) \/ Served(q, a) \/ a \in X
    BY <1>3 DEF Core, Requests
  <2>2. \A a \in X : a \notin ToSet(q.queue) /\ ~Served(q, a)
    BY <1>3, <1>4 DEF Core, Requests
  <2>3. \A k, l \in Clients : q.request[k] = q.request[l] /\ q.request[k] # None => k = l
    BY <1>2 DEF Core, Requests
  <2>4. \A k \in Clients : q.request[k] # None => k \in q.connecting /\ k \notin q.warm
    BY <1>2 DEF Core, Requests
  <2>5. q.connecting = q.clients \cap q.dialing
    BY DEF Core, Requests
  <2> QED BY <1>3, <1>4, <2>1, <2>2, <2>3, <2>4, <2>5 DEF Core, Requests
<1>6. Ends(q)
  BY DEF Core, Ends, SameEnd
<1>7. Fit(q)
  BY DEF Core, Fit, FitBut, SameUse
<1>8. Answers(p, q)
  BY DEF Answers, SameEnd
<1>9. ASSUME NEW n \in Nat, Awake(p, n) PROVE Awake(q, n + 1)
  <2>1. Cardinality(p.clients) <= Cardinality(q.clients) + 1
    <3>1. IsFiniteSet(p.clients) /\ Cardinality(p.clients) \in Nat
      BY Sizes DEF Core
    <3>2. c \in p.clients => Cardinality(p.clients \ {c}) = Cardinality(p.clients) - 1
      BY <3>1, FS_RemoveElement
    <3>3. c \notin p.clients => p.clients \ {c} = p.clients
      OBVIOUS
    <3>4. CASE q.clients = p.clients
      <4>1. Cardinality(q.clients) = Cardinality(p.clients)
        BY <3>4
      <4> QED BY <3>1, <4>1
    <3>5. CASE q.clients = p.clients \ {c} /\ c \in p.clients
      <4>1. Cardinality(q.clients) = Cardinality(p.clients) - 1
        BY <3>2, <3>5
      <4> QED BY <3>1, <4>1
    <3> QED BY <3>3, <3>4, <3>5
  <2>2. Len(p.queue) <= n => Len(q.queue) <= n + 1
    BY Sizes DEF Core
  <2>3. Len(p.idle) + PoolMax <= Cardinality(p.clients) + n
          => Len(q.idle) + PoolMax <= Cardinality(q.clients) + (n + 1)
    BY <2>1, Sizes DEF Core
  <2> QED BY <1>9, <2>2, <2>3 DEF Awake
<1> QED BY <1>5, <1>6, <1>7, <1>8, <1>9 DEF Core

\* A warm client that has connected becomes idle.
LEMMA WarmReadyCore ==
    ASSUME NEW p, Core(p, {}), Wound(p), NEW c \in Clients, c \in p.dialing, c \in p.warm,
           NEW s, s = WarmReady(p, c)
    PROVE  /\ Core(s, {}) /\ Answers(p, s) /\ Wound(s)
           /\ \A n \in Nat : Awake(p, n) => Awake(s, n)
           /\ Slotted(p, {}) => Slotted(s, {})
<1> DEFINE q == [p EXCEPT !.dialing = @ \ {c}, !.connecting = @ \ {c}, !.warm = @ \ {c}]
           t == [q EXCEPT !.attached = @ \cup {c}, !.idle = Append(@, c)]
<1>0. p \in PoolState /\ p.request[c] = None /\ p.request \in [Clients -> Callers \cup {None}]
  BY ZenonT(60) DEF Core, Good, Requests, PoolState
<1>1. /\ q \in PoolState
      /\ q.clients = p.clients /\ q.dialing = p.dialing \ {c} /\ q.rolling = p.rolling
      /\ q.connecting = p.connecting \ {c}
      /\ q.connTimer = p.connTimer /\ q.idle = p.idle /\ q.holds = p.holds
      /\ q.queueTimer = p.queueTimer
      /\ q.warm = p.warm \ {c} /\ q.attached = p.attached /\ q.idleTimer = p.idleTimer
      /\ SameRequests(p, q) /\ SameEnd(p, q) /\ SameUse(p, q)
  BY ZenonT(60), <1>0 DEF PoolState, SameRequests, SameEnd, SameUse
<1>2. s = IF p.ending \/ p.ended THEN RemoveClient(q, c) ELSE Pulse(t)
  BY DEF WarmReady
<1> HIDE DEF q
<1>3. Held(q) = Held(p) /\ Late(q) \subseteq Late(p) /\ (~p.ending => Late(q) = Late(p))
  BY <1>1 DEF Held, Late, Core, Good, Marks
<1>4. /\ c \notin p.connTimer /\ c \notin p.rolling /\ c \notin Held(p)
      /\ c \notin ToSet(p.idle) /\ c \notin p.inTx
  BY DEF Core, Good, Marks, Owners, Fit, FitBut
<1>5. Good(q)
  <2>1. Owners(q) /\ Marks(q)
    BY <1>1, <1>3, <1>4 DEF Core, Good, Owners, Marks, SameEnd
  <2>2. Bounds(q)
    BY <1>1, <1>3 DEF Core, Good, Bounds, SameEnd
  <2> QED BY <1>1, <2>1, <2>2 DEF Good
<1>6. Core(q, {}) /\ Answers(p, q)
  <2>1. q.request = [p.request EXCEPT ![c] = None]
    BY <1>0, <1>1 DEF SameRequests
  <2>2. Core(q, {p.request[c]} \ {None}) /\ Answers(p, q)
    BY <1>1, <1>5, <2>1, SettledCore DEF SameRequests
  <2>3. {p.request[c]} \ {None} = {}
    BY <1>0
  <2> QED BY <2>2, <2>3
<1>7. \A n : Awake(p, n) => Awake(q, n)
  BY <1>1 DEF Awake, SameRequests
<1>10. Slotted(p, {}) => Slotted(q, {c})
  BY <1>1, <1>3 DEF Slotted, Slots, Free, SameRequests
<1>8. CASE p.ending \/ p.ended
  <2>1. c \notin p.clients /\ p.ending
    BY <1>8 DEF Wound, Core, Requests, Ends
  <2>2. s = q
    BY <1>1, <1>2, <1>8, <2>1 DEF RemoveClient
  <2>3. Wound(q)
    BY <1>1, <2>1 DEF Wound, SameEnd
  <2>4. Slotted(q, {c}) => Slotted(q, {})
    BY <1>1, <2>1 DEF Slotted, Slots
  <2> QED BY <1>6, <1>7, <1>10, <2>2, <2>3, <2>4
<1>9. CASE ~p.ended /\ ~p.ending
  <2>1. c \in p.clients
    BY <1>9 DEF Core, Good, Marks
  <2>2. /\ Append(q.idle, c) \in Seq(Clients) /\ IsInjective(Append(q.idle, c))
        /\ ToSet(Append(q.idle, c)) = ToSet(q.idle) \cup {c}
    BY <1>1, <1>4, <1>5, PushStack DEF Good, Owners, PoolState
  <2>3. /\ t \in PoolState
        /\ t.rolling = q.rolling /\ t.connTimer = q.connTimer /\ t.queueTimer = q.queueTimer
        /\ t.idle = Append(q.idle, c) /\ t.holds = q.holds
        /\ t.attached = q.attached \cup {c} /\ t.idleTimer = q.idleTimer
        /\ SameRequests(q, t) /\ SameClients(q, t) /\ SameEnd(q, t) /\ SameUse(q, t)
    BY ZenonT(60), <1>1, <2>2 DEF PoolState, SameRequests, SameClients, SameEnd, SameUse
  <2> HIDE DEF t
  <2>4. Held(t) = Held(q) /\ Late(t) = Late(q)
    BY <2>3 DEF Held, Late, SameClients
  <2>5. Owners(t)
    BY <1>1, <1>3, <1>4, <1>5, <2>1, <2>2, <2>3, <2>4 DEF Good, Owners, SameClients
  <2>6. Marks(t) /\ Bounds(t)
    BY <1>1, <1>5, <2>1, <2>2, <2>3, <2>4 DEF Good, Marks, Bounds, SameClients, SameEnd
  <2>7. Good(t)
    BY <2>3, <2>5, <2>6 DEF Good
  <2>8. /\ Core(t, {}) /\ Answers(q, t)
        /\ \A n \in Nat : Awake(q, n) => Awake(t, n + 1)
    <3>1. c \in q.clients /\ c \notin ToSet(q.idle) /\ c \notin q.inTx
      BY <1>1, <1>4, <2>1 DEF SameUse
    <3> QED BY <1>6, <2>3, <2>7, <3>1, PushedCore
  <2>9. /\ Core(Pulse(t), {}) /\ Answers(t, Pulse(t)) /\ Wound(Pulse(t))
        /\ \A n \in Nat : Awake(t, n + 1) => Awake(Pulse(t), n)
    BY <2>8, PulseCore
  <2>10. Answers(q, Pulse(t))
    BY <2>3, <2>8, <2>9, AnswersOn
  <2>11. Answers(p, Pulse(t))
    BY <1>1, <1>6, <2>10, AnswersOn
  <2>12. Slotted(q, {c}) => Slotted(t, {})
    <3>1. q.idle \in Seq(Clients)
      BY ZenonT(60), <1>1 DEF PoolState
    <3> QED BY <2>3, <3>1, PushedSlotted
  <2>13. Slotted(t, {}) => Slotted(Pulse(t), {})
    BY <2>8, PulseSlotted
  <2> QED BY <1>2, <1>7, <1>9, <1>10, <2>8, <2>9, <2>11, <2>12, <2>13
<1> QED BY <1>8, <1>9, Sizes DEF Core

\* A warm client that has failed to connect; nobody is woken without a listener.
LEMMA WarmFailedCore ==
    ASSUME NEW p, Core(p, {}), Wound(p), NEW c \in Clients, c \in p.dialing, c \in p.warm,
           NEW s, s = WarmFailed(p, c)
    PROVE  /\ Core(s, {}) /\ Answers(p, s) /\ Wound(s)
           /\ ErrorListener => \A n \in Nat : Awake(p, n) => Awake(s, n)
           /\ Slotted(p, {}) => Slotted(s, {})
<1> DEFINE q == [p EXCEPT !.dialing = @ \ {c}, !.connecting = @ \ {c},
                          !.warm = @ \ {c}, !.clients = @ \ {c}]
<1>0. p \in PoolState /\ p.request[c] = None /\ p.request \in [Clients -> Callers \cup {None}]
  BY ZenonT(60) DEF Core, Good, Requests, PoolState
<1>1. c \notin p.connTimer
  BY DEF Core, Good, Marks
<1>2. /\ q \in PoolState
      /\ q.clients = p.clients \ {c} /\ q.dialing = p.dialing \ {c}
      /\ q.connecting = p.connecting \ {c}
      /\ q.warm = p.warm \ {c} /\ q.connTimer = p.connTimer
      /\ q.rolling = p.rolling /\ q.idle = p.idle /\ q.holds = p.holds
      /\ q.attached = p.attached /\ q.idleTimer = p.idleTimer /\ q.queueTimer = p.queueTimer
      /\ SameRequests(p, q) /\ SameEnd(p, q) /\ SameUse(p, q)
  BY ZenonT(60), <1>0 DEF PoolState, SameRequests, SameEnd, SameUse
<1>3. s = IF ErrorListener THEN Pulse(q) ELSE q
  BY DEF WarmFailed
<1> HIDE DEF q
<1>4. Good(q)
  BY <1>1, <1>2, ForgetGood DEF Core, SameEnd
<1>5. /\ Core(q, {}) /\ Answers(p, q)
      /\ \A n \in Nat : Awake(p, n) => Awake(q, n + 1)
  <2>1. q.request = [p.request EXCEPT ![c] = None]
    BY <1>0, <1>2 DEF SameRequests
  <2>2. /\ Core(q, {p.request[c]} \ {None}) /\ Answers(p, q)
        /\ \A n \in Nat : Awake(p, n) => Awake(q, n + 1)
    BY <1>2, <1>4, <2>1, SettledCore DEF SameRequests
  <2>3. {p.request[c]} \ {None} = {}
    BY <1>0
  <2> QED BY <2>2, <2>3
<1>6. Wound(q)
  <2>1. p.ending => c \notin p.clients
    BY DEF Wound, Core, Requests
  <2> QED BY <1>2, <2>1 DEF Wound, SameEnd
<1>7. /\ Core(Pulse(q), {}) /\ Answers(q, Pulse(q)) /\ Wound(Pulse(q))
      /\ \A n \in Nat : Awake(q, n + 1) => Awake(Pulse(q), n)
  BY <1>5, PulseCore
<1>8. Answers(p, Pulse(q))
  BY <1>2, <1>5, <1>7, AnswersOn
<1>9. Slotted(p, {}) => Slotted(q, {})
  <2>1. Held(q) = Held(p)
    BY <1>2 DEF Held
  <2> QED BY <1>2, <2>1 DEF Slotted, Slots, Free, SameRequests
<1>10. Slotted(q, {}) => Slotted(Pulse(q), {})
  BY <1>5, PulseSlotted
<1> QED BY <1>3, <1>5, <1>6, <1>7, <1>8, <1>9, <1>10

\* connect() of _newClient has settled: its request is in the hands of the method.
LEMMA DialledCore ==
    ASSUME NEW p, Core(p, {}), NEW c \in Clients, c \in p.dialing, c \notin p.warm,
           NEW q, q = Dialled(p, c)
    PROVE  /\ Core(q, {p.request[c]} \ {None}) /\ Answers(p, q) /\ q.holds = p.holds
           /\ Slotted(p, {}) => Slotted(q, {c})
           /\ q.clients = p.clients /\ q.queue = p.queue /\ q.idle = p.idle
           /\ q.connecting = p.connecting \ {c} /\ SameEnd(p, q)
           /\ c \notin ToSet(q.idle) \cup Held(q) \cup q.dialing \cup q.rolling \cup q.connTimer
<1>1. /\ Good(q) /\ q.clients = p.clients
      /\ c \notin ToSet(q.idle) \cup Held(q) \cup q.dialing \cup q.rolling \cup q.connTimer
  BY DialledGood DEF Core
<1>2. p \in PoolState
  BY DEF Core, Good
<1>3. /\ q.dialing = p.dialing \ {c} /\ q.connecting = p.connecting \ {c}
      /\ q.request = [p.request EXCEPT ![c] = None]
      /\ q.queueTimer = p.queueTimer /\ q.rolling = p.rolling
      /\ q.warm = p.warm /\ q.queue = p.queue /\ q.waiting = p.waiting
      /\ q.idle = p.idle /\ q.holds = p.holds /\ SameEnd(p, q) /\ SameUse(p, q)
  BY ZenonT(60), <1>2 DEF Dialled, PoolState, SameEnd, SameUse
<1>4. q.warm = p.warm \ {c}
  BY <1>3
<1>5. Core(q, {p.request[c]} \ {None}) /\ Answers(p, q)
  BY <1>1, <1>3, <1>4, SettledCore
<1>6. Slotted(p, {}) => Slotted(q, {c})
  <2>1. Held(q) = Held(p)
    BY <1>3 DEF Held
  <2>2. p.request \in [Clients -> Callers \cup {None}] /\ p.clients \subseteq Clients
    BY ZenonT(60), <1>2 DEF PoolState
  <2>3. \A k \in p.clients : k # c => q.request[k] = p.request[k]
    BY <1>3, <2>2
  <2> QED BY <1>1, <1>3, <2>1, <2>3 DEF Slotted, Slots, Free
<1> QED BY <1>1, <1>3, <1>5, <1>6

\* A client opened for a request has connected: its caller, if it still waits, has it.
LEMMA NewReadyCore ==
    ASSUME NEW p, Core(p, {}), Wound(p), NEW c \in Clients, c \in p.dialing, c \notin p.warm,
           NEW s, s = NewReady(p, c)
    PROVE  /\ Core(s, {}) /\ Answers(p, s) /\ Wound(s)
           /\ \A n \in Nat : Awake(p, n) => Awake(s, n)
           /\ Slotted(p, {}) => Slotted(s, {})
<1> DEFINE r == p.request[c]
           X == {r} \ {None}
           q == Dialled(p, c)
           t == [q EXCEPT !.attached = @ \cup {c},
                          !.lifeTimer = IF MaxLifetime THEN @ \cup {c} ELSE @]
<1>1. /\ Core(q, X) /\ Answers(p, q) /\ q.holds = p.holds
      /\ q.clients = p.clients /\ q.queue = p.queue /\ q.idle = p.idle
      /\ q.connecting = p.connecting \ {c} /\ SameEnd(p, q)
      /\ Slotted(p, {}) => Slotted(q, {c})
      /\ c \notin ToSet(q.idle) \cup Held(q) \cup q.dialing \cup q.rolling \cup q.connTimer
  BY DialledCore
<1>2. r \in Callers \cup {None} /\ None \notin Callers
  BY ZenonT(60), NamesAssumption DEF Core, Good, PoolState
<1>3. /\ c \notin p.clients \/ r = None => s = Settle(q, {r})
      /\ c \in p.clients /\ r # None /\ ~p.ending => s = Acquire(t, c, r)
  BY DEF NewReady
<1>4. c \notin p.clients => r = None
  BY DEF Core, Requests
<1>5. p.ending => c \notin p.clients
  BY DEF Wound, Core, Requests
<1>9. Slotted(p, {}) /\ r = None => c \notin p.clients
  BY DEF Slotted, Slots
<1> HIDE DEF q, r
<1>6. \A n : Awake(p, n) => Awake(q, n)
  BY <1>1 DEF Awake
<1>7. CASE r = None
  <2>1. X = {} /\ r \notin Callers /\ s = Settle(q, {r})
    BY <1>2, <1>3, <1>7
  <2>2. /\ Core(s, {} \ {r}) /\ Answers(q, s) /\ s.queue = q.queue
        /\ s.idle = q.idle /\ SameEnd(q, s) /\ SameClients(q, s)
    <3>1. Core(q, {})
      BY <1>1, <2>1
    <3> QED BY <2>1, <3>1, SettleCore
  <2>6. s.holds = q.holds
    BY <2>1 DEF Settle
  <2>3. Core(s, {})
    <3>1. {} \ {r} = {}
      OBVIOUS
    <3> QED BY <2>2, <3>1
  <2>4. Wound(s) /\ \A n : Awake(q, n) => Awake(s, n)
    BY <1>1, <2>2 DEF Wound, Awake, SameEnd, SameClients
  <2>5. Slotted(p, {}) => Slotted(s, {})
    <3>1. q \in PoolState
      BY <1>1 DEF Core, Good
    <3>2. Slotted(p, {}) => Slots(q, {})
      BY <1>1, <1>7, <1>9 DEF Slotted, Slots
    <3>3. Slotted(p, {}) => Slots(s, {})
      BY <2>1, <3>1, <3>2, SettleSlots
    <3>4. Slotted(p, {}) => Free(s)
      BY <1>1, <2>2, <2>6 DEF Slotted, Free, Answers
    <3> QED BY <3>3, <3>4 DEF Slotted
  <2> QED BY <1>1, <1>6, <2>2, <2>3, <2>4, <2>5, AnswersOn
<1>8. CASE r # None
  <2>1. c \in p.clients /\ ~p.ending /\ X = {r} /\ r \in X
    BY <1>2, <1>4, <1>5, <1>8
  <2>2. s = Acquire(t, c, r)
    BY <1>3, <1>8, <2>1
  <2>3. /\ t \in PoolState
        /\ t.rolling = q.rolling /\ t.connTimer = q.connTimer /\ t.queueTimer = q.queueTimer
        /\ t.idle = q.idle /\ t.holds = q.holds
        /\ t.attached = q.attached \cup {c} /\ t.idleTimer = q.idleTimer
        /\ SameRequests(q, t) /\ SameClients(q, t) /\ SameEnd(q, t) /\ SameUse(q, t)
    <3>1. q \in PoolState
      BY <1>1 DEF Core, Good
    <3> QED BY ZenonT(60), <3>1 DEF PoolState, SameRequests, SameClients, SameEnd, SameUse
  <2> HIDE DEF t
  <2>4. Held(t) = Held(q) /\ Late(t) = Late(q)
    BY <2>3 DEF Held, Late, SameClients
  <2>5. Good(t)
    BY <1>1, <2>1, <2>3, <2>4
       DEF Core, Good, Owners, Marks, Bounds, SameClients, SameEnd
  <2>6. Core(t, X) /\ Answers(q, t)
    BY <1>1, <2>3, <2>5, SameCore
  <2>7. ~t.ending /\ c \in t.clients
        /\ c \notin ToSet(t.idle) \cup Held(t) \cup t.dialing \cup t.rolling
    BY <1>1, <2>1, <2>3, <2>4 DEF SameClients, SameEnd
  <2>8. X \ {r} = {}
    BY <2>1
  <2> HIDE DEF X
  <2>9. /\ Core(s, X \ {r}) /\ Answers(t, s) /\ s.ending = t.ending
        /\ \A n : Awake(t, n) => Awake(s, n)
    BY <2>1, <2>2, <2>6, <2>7, AcquireCore
  <2>10. Wound(s) /\ \A n : Awake(q, n) => Awake(s, n)
    BY <2>3, <2>7, <2>9 DEF Wound, Awake, SameRequests, SameClients
  <2>11. Answers(q, s)
    BY <2>3, <2>6, <2>9, AnswersOn
  <2>12. Answers(p, s)
    BY <1>1, <2>11, AnswersOn
  <2>13. Slotted(p, {}) => Slotted(s, {})
    <3> SUFFICES ASSUME Slotted(p, {}) PROVE Slotted(s, {})
      OBVIOUS
    <3>1. Slotted(t, {c})
      <4>1. SameSlots(q, t) /\ t.queueTimer \subseteq q.queueTimer /\ t.waiting \subseteq q.waiting
        BY <2>3 DEF SameSlots, SameRequests, SameClients
      <4> QED BY <1>1, <4>1, SlottedSame
    <3>2. r \in Callers /\ r \in t.waiting /\ t.waiting \in SUBSET Callers
      <4>1. t.waiting \in SUBSET Callers
        BY ZenonT(60), <2>3 DEF PoolState
      <4> QED BY <2>1, <2>6, <4>1 DEF Core, Requests
    <3>3. t.holds[r] = None
      BY <3>1, <3>2 DEF Slotted, Free
    <3>4. Slots(s, {})
      BY <2>2, <2>3, <3>1, <3>2, <3>3, AcquireSlots DEF Slotted
    <3>5. Free(s)
      BY <2>9, <3>1, <3>2, FreeOn DEF Slotted
    <3> QED BY <3>4, <3>5 DEF Slotted
  <2> QED BY <1>6, <2>8, <2>9, <2>10, <2>12, <2>13
<1> QED BY <1>7, <1>8

\* A client opened for a request has failed to connect: its caller has an error.
LEMMA NewFailedCore ==
    ASSUME NEW p, Core(p, {}), Wound(p), NEW c \in Clients, c \in p.dialing, c \notin p.warm,
           NEW s, s = NewFailed(p, c)
    PROVE  /\ Core(s, {}) /\ Answers(p, s) /\ Wound(s)
           /\ \A n \in Nat : Awake(p, n) => Awake(s, n)
           /\ Slotted(p, {}) => Slotted(s, {})
<1> DEFINE r == p.request[c]
           X == {r} \ {None}
           d == Dialled(p, c)
           t == [d EXCEPT !.clients = @ \ {c}]
           u == Pulse(t)
<1>0. p \in PoolState /\ p.warm = p.warm \ {c}
  BY DEF Core, Good
<1>1. /\ d \in PoolState
      /\ d.clients = p.clients /\ d.dialing = p.dialing \ {c} /\ d.rolling = p.rolling
      /\ d.connecting = p.connecting \ {c} /\ d.request = [p.request EXCEPT ![c] = None]
      /\ d.connTimer = p.connTimer \ {c} /\ d.idle = p.idle /\ d.holds = p.holds
      /\ d.warm = p.warm /\ d.attached = p.attached /\ d.idleTimer = p.idleTimer
      /\ d.queueTimer = p.queueTimer
      /\ d.queue = p.queue /\ d.waiting = p.waiting /\ SameEnd(p, d) /\ SameUse(p, d)
  BY ZenonT(60), <1>0 DEF Dialled, PoolState, SameEnd, SameUse
<1>2. s = Settle(u, {r})
  BY DEF NewFailed
<1> HIDE DEF d
<1>3. /\ t \in PoolState
      /\ t.clients = d.clients \ {c} /\ t.dialing = d.dialing /\ t.rolling = d.rolling
      /\ t.connecting = d.connecting /\ t.request = d.request
      /\ t.connTimer = d.connTimer /\ t.idle = d.idle /\ t.holds = d.holds
      /\ t.warm = d.warm /\ t.attached = d.attached /\ t.idleTimer = d.idleTimer
      /\ t.queueTimer = d.queueTimer
      /\ t.queue = d.queue /\ t.waiting = d.waiting /\ SameEnd(d, t) /\ SameUse(d, t)
  BY ZenonT(60), <1>1 DEF PoolState, SameEnd, SameUse
<1> HIDE DEF t
<1>4. SameEnd(p, t) /\ SameUse(p, t)
  BY <1>1, <1>3 DEF SameEnd, SameUse
<1>5. Good(t)
  <2>1. t.ending = p.ending /\ t.warm = p.warm \ {c} /\ Good(p)
    BY <1>0, <1>1, <1>3, <1>4 DEF SameEnd, Core
  <2> QED BY <1>1, <1>3, <2>1, ForgetGood
<1>6. /\ Core(t, X) /\ Answers(p, t)
      /\ \A n \in Nat : Awake(p, n) => Awake(t, n + 1)
  BY <1>0, <1>1, <1>3, <1>4, <1>5, SettledCore
<1>7. /\ Core(u, X) /\ Answers(t, u) /\ Wound(u)
      /\ \A n \in Nat : Awake(t, n + 1) => Awake(u, n)
  BY <1>6, PulseCore
<1>12. Slotted(p, {}) => Slotted(u, {})
  <2>1. Slotted(p, {}) => Slotted(t, {})
    <3>1. Held(t) = Held(p)
      BY <1>1, <1>3 DEF Held
    <3>2. p.request \in [Clients -> Callers \cup {None}] /\ p.clients \subseteq Clients
      BY ZenonT(60), <1>0 DEF PoolState
    <3>3. \A k \in p.clients : k # c => t.request[k] = p.request[k]
      BY <1>1, <1>3, <3>2
    <3> QED BY <1>1, <1>3, <3>1, <3>3 DEF Slotted, Slots, Free
  <2> QED BY <1>6, <2>1, PulseSlotted
<1> HIDE DEF u
<1>8. /\ Core(s, X \ {r}) /\ s.holds = u.holds /\ s.waiting = u.waiting \ {r}
      /\ s.queue = u.queue /\ s.idle = u.idle /\ SameEnd(u, s) /\ SameClients(u, s)
  <2>1. r \in Callers => r \in X \/ r \notin u.waiting
    BY NamesAssumption
  <2>2. Core(u, X)
    BY <1>7
  <2> HIDE DEF X, r
  <2> QED BY SMTT(30), <1>2, <2>1, <2>2, SettleCore
<1>9. X \ {r} = {}
  OBVIOUS
<1>10. Wound(s) /\ \A n : Awake(u, n) => Awake(s, n)
  BY <1>7, <1>8 DEF Wound, Awake, SameEnd, SameClients
<1>11. Answers(p, s)
  <2>1. Answers(p, u)
    BY <1>1, <1>3, <1>6, <1>7, AnswersOn
  <2> QED BY <1>8, <2>1 DEF Answers, SameEnd, SameClients
<1>13. Slotted(u, {}) => Slotted(s, {})
  <2>1. u \in PoolState
    BY <1>7 DEF Core, Good
  <2>2. Slotted(u, {}) => Slots(s, {})
    BY <1>2, <2>1, SettleSlots DEF Slotted
  <2>3. Slotted(u, {}) => Free(s)
    BY <1>8 DEF Slotted, Free
  <2> QED BY <2>2, <2>3 DEF Slotted
<1> QED BY <1>6, <1>7, <1>8, <1>9, <1>10, <1>11, <1>12, <1>13

-----------------------------------------------------------------------------
(* The actions *)

\* The invariant between two turns of the event loop.
Kept(p) ==
    /\ Core(p, {}) /\ Wound(p)
    /\ ErrorListener => Awake(p, p.ticks)
    /\ ~ConnectionTimeout => Slotted(p, {})

\* What a turn that is no connect() does to the callers.
Turned(p, q) ==
    /\ q.waiting \subseteq p.waiting
    /\ p.ending => q.ending
    /\ \A r \in Callers :
        q.holds[r] \notin {None, p.holds[r]} =>
            /\ r \in p.waiting \ q.waiting /\ ~p.ending
            /\ q.holds[r] \in q.clients \ q.dialing

\* A turn that changes a few fields, then runs methods that answer.
LEMMA TurnEnds ==
    ASSUME NEW p, Kept(p), NEW m, m.waiting \subseteq p.waiting,
           m.ending = p.ending, m.ticks = p.ticks,
           \A r \in Callers : m.holds[r] \in {None, p.holds[r]},
           \A n \in Nat : Awake(p, n) => Awake(m, n),
           NEW q, Core(q, {}), Wound(q), Answers(m, q),
           ErrorListener => \A n \in Nat : Awake(m, n) => Awake(q, n),
           Slotted(p, {}) => Slotted(q, {})
    PROVE  Kept(q) /\ Turned(p, q)
<1>1. q.ticks = p.ticks /\ p.ticks \in Nat /\ q.ending = p.ending
  BY Sizes DEF Answers, Kept, Core
<1>2. Kept(q)
  BY <1>1 DEF Kept
<1>3. Turned(p, q)
  BY DEF Answers, Turned
<1> QED BY <1>2, <1>3

\* A turn that changes fields no other part of the invariant reads.
LEMMA SameKept ==
    ASSUME NEW p, Kept(p), NEW q, Good(q), q.idle = p.idle,
           SameRequests(p, q), SameClients(p, q), SameEnd(p, q), SameUse(p, q),
           \A r \in Callers : q.holds[r] \in {None, p.holds[r]},
           Slotted(p, {}) => Slotted(q, {})
    PROVE  Kept(q) /\ Turned(p, q)
<1>1. Core(q, {})
  BY SameCore DEF Kept
<1>2. Wound(q) /\ (ErrorListener => Awake(q, q.ticks))
  BY DEF Kept, Wound, Awake, SameRequests, SameClients, SameEnd
<1>3. Turned(p, q)
  BY DEF Turned, SameRequests, SameEnd
<1> QED BY <1>1, <1>2, <1>3 DEF Kept

\* A client leaves, after a change of fields no other part of the invariant reads.
LEMMA RemovalKept ==
    ASSUME NEW p, Kept(p), NEW m, Good(m), m.idle = p.idle, m.holds = p.holds,
           SameRequests(p, m), SameClients(p, m), SameEnd(p, m), SameUse(p, m),
           NEW c \in Clients, Good(RemoveClient(m, c)), Slotted(p, {}) => Slotted(m, {c}),
           NEW q, q \in {Refill(RemoveClient(m, c)), Pulse(RemoveClient(m, c))}
    PROVE  Kept(q) /\ Turned(p, q)
<1>1. Core(m, {})
  BY SameCore DEF Kept
<1>2. FitBut(m, {c})
  BY <1>1 DEF Core, Fit, FitBut
<1>3. /\ Core(q, {}) /\ Answers(m, q) /\ Wound(q)
      /\ \A n \in Nat : Awake(m, n) => Awake(q, n)
      /\ Slotted(m, {c}) => Slotted(q, {})
  BY <1>1, <1>2, RemoveAndRefill DEF Core
<1>4. \A n \in Nat : Awake(p, n) => Awake(m, n)
  BY DEF Awake, SameRequests, SameClients
<1>5. m.waiting \subseteq p.waiting /\ m.ending = p.ending /\ m.ticks = p.ticks
      /\ \A r \in Callers : m.holds[r] \in {None, p.holds[r]}
  BY DEF SameRequests, SameEnd
<1> QED BY <1>3, <1>4, <1>5, TurnEnds

\* A change of fields that Slots does not read, with a client more in the hands of
\* the method.
LEMMA SlottedAfter ==
    ASSUME NEW p, NEW q, NEW S, q.idle = p.idle, q.holds = p.holds, q.rolling = p.rolling,
           SameRequests(p, q), SameClients(p, q), q.queueTimer = p.queueTimer
    PROVE  Slotted(p, {}) => Slotted(q, S)
<1>1. SameSlots(p, q) /\ q.queueTimer \subseteq p.queueTimer /\ q.waiting \subseteq p.waiting
  BY DEF SameSlots, SameRequests, SameClients
<1>2. Slotted(p, {}) => Slotted(q, {})
  BY <1>1, SlottedSame
<1> QED BY <1>2 DEF Slotted, Slots

\* The state of a pool in which r has asked and is in the hands of connect().
LEMMA AskedCore ==
    ASSUME Kept(pool), NEW r \in Callers, CanConnect(r)
    PROVE  /\ Core(Asked(r), {r}) /\ Asked(r).waiting = pool.waiting \cup {r}
           /\ Asked(r).idle = pool.idle /\ Asked(r).queue = pool.queue
           /\ Asked(r).holds = pool.holds /\ Asked(r).idleTimer = pool.idleTimer
           /\ SameClients(pool, Asked(r)) /\ SameEnd(pool, Asked(r))
           /\ Slotted(pool, {}) => Slotted(Asked(r), {})
<1> DEFINE a == Asked(r)
<1>1. /\ a.waiting = pool.waiting \cup {r} /\ a.request = pool.request
      /\ a.queue = pool.queue /\ a.holds = pool.holds /\ a.idle = pool.idle
      /\ a.idleTimer = pool.idleTimer
      /\ a.rolling = pool.rolling /\ a.queueTimer = pool.queueTimer
      /\ SameClients(pool, a) /\ SameEnd(pool, a) /\ SameUse(pool, a)
  <2>1. pool \in PoolState
    BY DEF Kept, Core, Good
  <2> QED BY ZenonT(60), <2>1 DEF Asked, PoolState, SameClients, SameEnd, SameUse
<1>2. Good(a)
  BY AskedGood DEF Kept, Core
<1> HIDE DEF a
<1>3. Requests(a, {r})
  <2>1. r \notin pool.waiting
    BY DEF CanConnect
  <2> QED BY <1>1, <2>1 DEF Kept, Core, Requests, Served, SameClients
<1>4. Ends(a) /\ Fit(a)
  BY <1>1 DEF Kept, Core, Ends, Fit, FitBut, SameClients, SameEnd, SameUse
<1>5. Slotted(pool, {}) => Slotted(a, {})
  <2>1. Held(a) = Held(pool)
    BY <1>1 DEF Held
  <2> QED BY <1>1, <2>1 DEF Slotted, Slots, Free, SameClients, CanConnect
<1> QED BY <1>1, <1>2, <1>3, <1>4, <1>5 DEF Core, a

\* A request that is queued.
LEMMA EnqueuedCore ==
    ASSUME NEW a, NEW r \in Callers, Core(a, {r}), ~a.ending,
           NEW q, Good(q), q.queue = Append(a.queue, r),
           q.request = a.request, q.waiting = a.waiting, q.idle = a.idle,
           SameClients(a, q), SameUse(a, q), q.ended = a.ended, q.endWait = a.endWait,
           q.ending = a.ending
    PROVE  Core(q, {}) /\ Wound(q) /\ Len(q.queue) = Len(a.queue) + 1
<1>1. a.queue \in Seq(Callers) /\ IsInjective(a.queue) /\ r \notin ToSet(a.queue)
  <2>1. a.queue \in Seq(Callers)
    BY ZenonT(60) DEF Core, Good, PoolState
  <2> QED BY <2>1 DEF Core, Requests
<1>2. /\ IsInjective(q.queue) /\ ToSet(q.queue) = ToSet(a.queue) \cup {r}
      /\ Len(q.queue) = Len(a.queue) + 1
  BY <1>1, PushStack
<1>3. Requests(q, {})
  BY <1>2 DEF Core, Requests, Served, SameClients
<1>4. Ends(q) /\ Fit(q) /\ Wound(q)
  BY DEF Core, Ends, Fit, FitBut, Wound, SameClients, SameUse
<1> QED BY <1>2, <1>3, <1>4 DEF Core

\* What connect() does to the callers.
AskedTurn(p, q, r) ==
    /\ ~p.ending /\ ~q.ending
    /\ r \notin p.waiting /\ p.holds[r] = None
    /\ q.waiting = p.waiting \cup {r} /\ q.holds = p.holds

\* The three branches of connect().
LEMMA ConnectKept ==
    ASSUME Kept(pool), NEW r \in Callers,
           ConnectIdle(r) \/ ConnectNew(r) \/ ConnectQueued(r)
    PROVE  Kept(pool') /\ AskedTurn(pool, pool', r)
<1> DEFINE a == Asked(r)
<1>0. CanConnect(r)
  BY DEF ConnectIdle, ConnectNew, ConnectQueued
<1>1. /\ Core(a, {r}) /\ a.waiting = pool.waiting \cup {r}
      /\ a.idle = pool.idle /\ a.queue = pool.queue /\ a.holds = pool.holds
      /\ SameClients(pool, a) /\ SameEnd(pool, a)
      /\ Slotted(pool, {}) => Slotted(a, {})
  BY <1>0, AskedCore
<1>2. Good(pool') /\ a \in PoolState
  BY ConnectGood, <1>1 DEF Kept, Core, Good
<1>3. /\ ~a.ending /\ ~pool.ending /\ r \notin pool.waiting /\ pool.holds[r] = None
      /\ \A n : Awake(pool, n) => Awake(a, n)
  BY <1>0, <1>1 DEF CanConnect, SameEnd, SameClients, Awake
<1>4. CASE ConnectIdle(r)
  <2> DEFINE n == a.ticks + 1
             Q == Append(a.queue, r)
  <2>1. pool' = [a EXCEPT !.queue = Q, !.ticks = n]
    BY <1>4 DEF ConnectIdle
  <2>2. n \in Nat /\ Q \in Seq(Callers)
    BY <1>1, <1>2 DEF PoolState
  <2> HIDE DEF a, n, Q
  <2>3. /\ pool'.queue = Q /\ pool'.request = a.request /\ pool'.waiting = a.waiting
        /\ pool'.idle = a.idle /\ pool'.holds = a.holds /\ pool'.ticks = n
        /\ pool'.rolling = a.rolling /\ pool'.queueTimer = a.queueTimer
        /\ SameClients(a, pool') /\ SameUse(a, pool')
        /\ pool'.ended = a.ended /\ pool'.endWait = a.endWait /\ pool'.ending = a.ending
    BY ZenonT(60), <1>2, <2>1, <2>2 DEF PoolState, SameClients, SameUse
  <2>4. Core(pool', {}) /\ Wound(pool') /\ Len(pool'.queue) = Len(a.queue) + 1
    <3>1. pool'.queue = Append(a.queue, r)
      BY <2>3 DEF Q
    <3> QED BY <1>1, <1>2, <1>3, <2>3, <3>1, EnqueuedCore
  <2>5. Awake(a, a.ticks) => Awake(pool', pool'.ticks)
    <3>1. Len(a.queue) <= a.ticks => Len(pool'.queue) <= pool'.ticks
      BY <1>1, <2>3, <2>4, Sizes DEF Core, n
    <3>2. Len(a.idle) + PoolMax <= Cardinality(a.clients) + a.ticks
            => Len(pool'.idle) + PoolMax <= Cardinality(pool'.clients) + pool'.ticks
      <4>1. pool'.clients = a.clients /\ pool'.idle = a.idle /\ pool'.ticks = a.ticks + 1
        BY <2>3 DEF SameClients, n
      <4> QED BY <1>1, <4>1, Sizes DEF Core
    <3> QED BY <3>1, <3>2 DEF Awake
  <2>6. AskedTurn(pool, pool', r)
    BY <1>1, <1>3, <2>3 DEF AskedTurn
  <2>7. a.ticks = pool.ticks
    BY <1>1 DEF SameEnd
  <2>8. Slotted(pool, {}) => Slotted(pool', {})
    <3>1. SameSlots(a, pool') /\ pool'.queueTimer \subseteq a.queueTimer
          /\ pool'.waiting \subseteq a.waiting
      BY <2>3 DEF SameSlots, SameClients
    <3> QED BY <1>1, <3>1, SlottedSame
  <2> QED BY <1>3, <2>4, <2>5, <2>6, <2>7, <2>8 DEF Kept
<1>5. CASE ConnectNew(r)
  <2>1. pool' = NewClient(a, r) /\ pool.idle = <<>> /\ ~Full(a)
    BY <1>1, <1>5 DEF ConnectNew, Full, SameClients
  <2> HIDE DEF a
  <2>2. /\ Core(pool', {r} \ {r}) /\ Answers(a, pool')
        /\ pool'.queue = a.queue /\ pool'.idle = a.idle
        /\ pool'.waiting = a.waiting /\ pool'.holds = a.holds
        /\ Cardinality(pool'.clients) = Cardinality(a.clients) + 1
    BY <1>1, <1>3, <2>1, NewClientCore
  <2>3. {r} \ {r} = {}
    OBVIOUS
  <2>4. pool'.ending = pool.ending /\ pool'.ticks = pool.ticks
    BY <1>1, <2>2 DEF Answers, SameEnd
  <2>5. Wound(pool') /\ AskedTurn(pool, pool', r)
    BY <1>1, <1>3, <2>2, <2>4 DEF Wound, AskedTurn
  <2>6. Awake(a, pool.ticks) => Awake(pool', pool'.ticks)
    <3>1. pool.ticks \in Nat
      BY Sizes DEF Kept, Core
    <3>2. Len(a.idle) + PoolMax <= Cardinality(a.clients) + pool.ticks
            => Len(pool'.idle) + PoolMax <= Cardinality(pool'.clients) + pool'.ticks
      BY <1>1, <2>2, <2>4, <3>1, Sizes DEF Core
    <3> QED BY <2>2, <2>4, <3>2 DEF Awake
  <2>7. Slotted(pool, {}) => Slotted(pool', {})
    <3>1. Slotted(a, {}) => Slots(pool', {})
      BY <1>1, <1>3, <2>1, NewClientSlots DEF Core, Slotted
    <3>2. Slotted(a, {}) => Free(pool')
      BY <2>2 DEF Slotted, Free
    <3> QED BY <1>1, <3>1, <3>2 DEF Slotted
  <2> QED BY <1>3, <2>2, <2>3, <2>5, <2>6, <2>7 DEF Kept
<1>6. CASE ConnectQueued(r)
  <2> DEFINE T == IF ConnectionTimeout THEN a.queueTimer \cup {r} ELSE a.queueTimer
             Q == Append(a.queue, r)
  <2>1. pool' = [a EXCEPT !.queue = Q, !.queueTimer = T]
    BY <1>6 DEF ConnectQueued
  <2>2. T \in SUBSET Callers /\ Q \in Seq(Callers) /\ pool.idle = <<>> /\ Full(pool)
    <3>1. T \in SUBSET Callers
      BY ZenonT(60), <1>2 DEF PoolState
    <3>2. Q \in Seq(Callers)
      BY <1>2 DEF PoolState
    <3> QED BY <1>6, <3>1, <3>2 DEF ConnectQueued
  <2> HIDE DEF a, T, Q
  <2>3. /\ pool'.queue = Q /\ pool'.request = a.request /\ pool'.waiting = a.waiting
        /\ pool'.idle = a.idle /\ pool'.holds = a.holds /\ pool'.ticks = a.ticks
        /\ pool'.rolling = a.rolling /\ pool'.queueTimer = T
        /\ SameClients(a, pool') /\ SameUse(a, pool')
        /\ pool'.ended = a.ended /\ pool'.endWait = a.endWait /\ pool'.ending = a.ending
    BY ZenonT(60), <1>2, <2>1, <2>2 DEF PoolState, SameClients, SameUse
  <2>4. Core(pool', {}) /\ Wound(pool')
    <3>1. pool'.queue = Append(a.queue, r)
      BY <2>3 DEF Q
    <3> QED BY <1>1, <1>2, <1>3, <2>3, <3>1, EnqueuedCore
  <2>5. Awake(pool', pool'.ticks)
    <3>1. pool'.idle = <<>> /\ pool'.clients = pool.clients /\ pool'.ticks = pool.ticks
      BY <1>1, <2>2, <2>3 DEF SameClients, SameEnd
    <3>2. Cardinality(pool.clients) >= PoolMax /\ pool.ticks \in Nat
          /\ Cardinality(pool.clients) \in Nat /\ PoolMax \in Nat
      BY <2>2, Sizes DEF Full, Kept, Core
    <3>3. Len(pool'.idle) + PoolMax <= Cardinality(pool'.clients) + pool'.ticks
      BY <3>1, <3>2
    <3> QED BY <3>3 DEF Awake
  <2>6. AskedTurn(pool, pool', r)
    BY <1>1, <1>3, <2>3 DEF AskedTurn
  <2>7. ~ConnectionTimeout /\ Slotted(pool, {}) => Slotted(pool', {})
    <3>1. SameSlots(a, pool') /\ (~ConnectionTimeout => pool'.queueTimer \subseteq a.queueTimer)
          /\ pool'.waiting \subseteq a.waiting
      BY <2>3 DEF SameSlots, SameClients, T
    <3> QED BY <1>1, <3>1, SlottedSame
  <2> QED BY <2>4, <2>5, <2>6, <2>7 DEF Kept
<1> QED BY <1>4, <1>5, <1>6

\* Statements of the holder open and close transactions of its session only.
LEMMA UseClientKept ==
    ASSUME Kept(pool), NEW r \in Callers, UseClient(r)
    PROVE  Kept(pool') /\ Turned(pool, pool')
<1> DEFINE c == pool.holds[r]
           I == IF c \in pool.inTx THEN pool.inTx \ {c} ELSE pool.inTx \cup {c}
<1>0. pool \in PoolState /\ pool.inTx \in SUBSET Clients /\ pool.clients \in SUBSET Clients
      /\ None \notin Clients
  BY ZenonT(60), NamesAssumption DEF Kept, Core, Good, PoolState
<1>1. pool' = [pool EXCEPT !.inTx = I] /\ c \in pool.clients
  BY DEF UseClient
<1>2. c \in Held(pool) /\ I \in SUBSET Clients
  BY <1>0, <1>1 DEF Held
<1>3. c \notin ToSet(pool.idle) /\ c \notin pool.dialing
  BY <1>2 DEF Kept, Core, Good, Owners
<1>4. I \subseteq pool.inTx \cup {c}
  OBVIOUS
<1> HIDE DEF c, I
<1>5. /\ SameRequests(pool, pool') /\ SameClients(pool, pool') /\ SameEnd(pool, pool')
      /\ pool'.uses = pool.uses /\ pool'.inTx = I /\ pool'.idle = pool.idle
      /\ pool'.holds = pool.holds /\ pool'.rolling = pool.rolling
      /\ pool'.queueTimer = pool.queueTimer
  BY ZenonT(60), <1>0, <1>1, <1>2 DEF PoolState, SameRequests, SameClients, SameEnd
<1>6. Good(pool')
  BY UseClientGood DEF Kept, Core
<1>7. Requests(pool', {}) /\ Ends(pool')
  BY <1>5 DEF Kept, Core, Requests, Served, Ends, SameRequests, SameClients, SameEnd
<1>8. Fit(pool')
  BY <1>1, <1>3, <1>4, <1>5 DEF Kept, Core, Fit, FitBut, SameClients
<1>9. Wound(pool') /\ (ErrorListener => Awake(pool', pool'.ticks))
  BY <1>5 DEF Kept, Wound, Awake, SameRequests, SameClients, SameEnd
<1>10. Turned(pool, pool')
  BY <1>5 DEF Turned, SameRequests, SameEnd
<1>11. Slotted(pool, {}) => Slotted(pool', {})
  BY <1>5, SlottedAfter
<1> QED BY <1>6, <1>7, <1>8, <1>9, <1>10, <1>11 DEF Kept, Core

\* The release function of a checkout.
LEMMA ReleaseKept ==
    ASSUME Kept(pool), NEW r \in Callers, NEW err \in BOOLEAN, Release(r, err)
    PROVE  Kept(pool') /\ Turned(pool, pool')
<1> DEFINE c == pool.holds[r]
           m == [pool EXCEPT !.holds[r] = None]
<1>0. pool \in PoolState /\ pool.holds \in [Callers -> Clients \cup {None}]
  BY ZenonT(60) DEF Kept, Core, Good, PoolState
<1>1. /\ c # None
      /\ pool' = IF c \in pool.clients THEN ReleaseKnown(m, c, err) ELSE m
  BY DEF Release
<1>2. /\ Good(m) /\ m.clients = pool.clients
      /\ c \notin ToSet(m.idle) \cup Held(m) \cup m.dialing \cup m.rolling
  BY <1>1, HandBack DEF Kept, Core
<1>3. /\ m.rolling = pool.rolling /\ m.queueTimer = pool.queueTimer
      /\ m.idle = pool.idle /\ m.holds = [pool.holds EXCEPT ![r] = None]
      /\ SameRequests(pool, m) /\ SameClients(pool, m) /\ SameEnd(pool, m) /\ SameUse(pool, m)
  BY ZenonT(60), <1>0 DEF PoolState, SameRequests, SameClients, SameEnd, SameUse
<1> HIDE DEF c, m
<1>4. \A a \in Callers : m.holds[a] \in {None, pool.holds[a]}
  BY <1>0, <1>3
<1>7. Slotted(pool, {}) => Slotted(m, {c})
  <2>1. Held(pool) \subseteq Held(m) \cup {c}
    BY <1>0, <1>3 DEF Held, c
  <2> QED BY <1>3, <1>4, <2>1 DEF Slotted, Slots, Free, SameRequests, SameClients
<1>5. CASE c \in pool.clients
  <2>1. Core(m, {})
    BY <1>2, <1>3, SameCore DEF Kept
  <2>2. /\ Core(pool', {}) /\ Answers(m, pool') /\ Wound(pool')
        /\ \A n \in Nat : Awake(m, n) => Awake(pool', n)
        /\ Slotted(m, {c}) => Slotted(pool', {})
    BY <1>1, <1>2, <1>5, <2>1, ReleaseKnownCore
  <2>3. \A n \in Nat : Awake(pool, n) => Awake(m, n)
    BY <1>3 DEF Awake, SameRequests, SameClients
  <2>4. m.waiting \subseteq pool.waiting /\ m.ending = pool.ending /\ m.ticks = pool.ticks
    BY <1>3 DEF SameRequests, SameEnd
  <2> QED BY <1>4, <1>7, <2>2, <2>3, <2>4, TurnEnds
<1>6. CASE c \notin pool.clients
  <2>1. pool' = m
    BY <1>1, <1>6
  <2>2. Slotted(m, {c}) => Slotted(m, {})
    BY <1>2, <1>6 DEF Slotted, Slots
  <2> QED BY <1>2, <1>3, <1>4, <1>7, <2>1, <2>2, SameKept
<1> QED BY <1>5, <1>6

\* end() of an open, an ending and an ended pool.
LEMMA EndKept ==
    ASSUME Kept(pool), NEW e \in Enders, End(e)
    PROVE  Kept(pool') /\ Turned(pool, pool')
<1>0. pool.ended \in BOOLEAN /\ pool.ending \in BOOLEAN /\ pool \in PoolState
  BY Sizes DEF Kept, Core, Good
<1>1. Good(pool')
  BY EndGood DEF Kept, Core
<1>2. CASE pool.ended
  <2>1. pool' = [pool EXCEPT !.endDone = @ \cup {e}]
    BY <1>2 DEF End
  <2>2. /\ pool'.idle = pool.idle /\ pool'.holds = pool.holds
        /\ pool'.rolling = pool.rolling /\ pool'.queueTimer = pool.queueTimer
        /\ SameRequests(pool, pool') /\ SameClients(pool, pool')
        /\ SameEnd(pool, pool') /\ SameUse(pool, pool')
    BY ZenonT(60), <1>0, <2>1 DEF PoolState, SameRequests, SameClients, SameEnd, SameUse
  <2>3. Slotted(pool, {}) => Slotted(pool', {})
    BY <2>2, SlottedAfter
  <2> QED BY <1>1, <2>2, <2>3, SameKept
<1>3. CASE ~pool.ended /\ pool.ending
  <2>1. pool' = [pool EXCEPT !.endWait = @ \cup {e}]
    BY <1>3 DEF End
  <2>2. /\ pool'.idle = pool.idle /\ pool'.holds = pool.holds
        /\ pool'.rolling = pool.rolling /\ pool'.queueTimer = pool.queueTimer
        /\ pool'.ending = pool.ending /\ pool'.ended = pool.ended /\ pool'.ticks = pool.ticks
        /\ SameRequests(pool, pool') /\ SameClients(pool, pool') /\ SameUse(pool, pool')
    BY ZenonT(60), <1>0, <2>1 DEF PoolState, SameRequests, SameClients, SameUse
  <2>3. Requests(pool', {}) /\ Ends(pool') /\ Fit(pool')
    BY <1>3, <2>2 DEF Kept, Core, Requests, Served, Ends, Fit, FitBut, SameRequests,
       SameClients, SameUse
  <2>4. Wound(pool') /\ (ErrorListener => Awake(pool', pool'.ticks))
    BY <2>2 DEF Kept, Wound, Awake, SameRequests, SameClients
  <2>5. Turned(pool, pool')
    BY <2>2 DEF Turned, SameRequests
  <2>6. Slotted(pool, {}) => Slotted(pool', {})
    BY <2>2, SlottedAfter
  <2> QED BY <1>1, <2>3, <2>4, <2>5, <2>6 DEF Kept, Core
<1>4. CASE ~pool.ended /\ ~pool.ending
  <2> DEFINE s == Settle(pool, ToSet(pool.queue))
             q == [s EXCEPT !.ending = TRUE, !.queue = <<>>, !.endWait = {e}]
  <2>1. pool' = Pulse(q)
    BY <1>4 DEF End
  <2>2. Good(s) /\ s \in PoolState
    BY SettleGood DEF Kept, Core, Good
  <2>3. /\ s.waiting = pool.waiting \ ToSet(pool.queue) /\ s.holds = pool.holds
        /\ s.request = pool.request /\ s.idle = pool.idle /\ s.ended = pool.ended
        /\ s.ticks = pool.ticks /\ SameClients(pool, s) /\ SameUse(pool, s)
    BY ZenonT(60), <1>0 DEF Settle, PoolState, SameClients, SameUse
  <2> HIDE DEF s
  <2>4. /\ q \in PoolState
        /\ q.clients = s.clients /\ q.dialing = s.dialing /\ q.rolling = s.rolling
        /\ q.connecting = s.connecting
        /\ q.connTimer = s.connTimer /\ q.idle = s.idle /\ q.holds = s.holds
        /\ q.warm = s.warm /\ q.attached = s.attached /\ q.idleTimer = s.idleTimer
        /\ q.waiting = s.waiting /\ q.request = s.request /\ q.ended = s.ended
        /\ q.ticks = s.ticks /\ q.queueTimer = s.queueTimer /\ SameUse(s, q)
        /\ q.ending = TRUE /\ q.queue = <<>>
    <3>1. <<>> \in Seq(Callers)
      OBVIOUS
    <3> QED BY <2>2, <3>1 DEF PoolState, SameUse
  <2> HIDE DEF q
  <2>5. Good(q)
    BY <2>2, <2>4 DEF Good, Owners, Marks, Bounds, Held
  <2>6. ToSet(q.queue) = {} /\ IsInjective(q.queue)
    BY <2>4 DEF ToSet, IsInjective
  <2>7. Requests(q, {})
    BY <2>3, <2>4, <2>6 DEF Kept, Core, Requests, Served, SameClients
  <2>8. Ends(q) /\ Fit(q)
    BY <1>4, <2>3, <2>4 DEF Kept, Core, Ends, Fit, FitBut, SameClients, SameUse
  <2>9. Core(pool', {}) /\ Answers(q, pool') /\ Wound(pool')
    BY <2>1, <2>5, <2>7, <2>8, PulseCore DEF Core
  <2>10. pool'.ending /\ pool'.queue = <<>> /\ pool'.ticks \in Nat
    BY <2>4, <2>9, Sizes DEF Answers, Core, Ends
  <2>11. Awake(pool', pool'.ticks)
    <3>1. Len(pool'.queue) <= pool'.ticks
      BY <2>10
    <3> QED BY <3>1 DEF Awake
  <2>12. Turned(pool, pool')
    BY <1>4, <2>3, <2>4, <2>9, <2>10 DEF Turned, Answers
  <2>13. Slotted(pool, {}) => Slotted(pool', {})
    <3>1. Slotted(pool, {}) => Slots(s, {})
      BY <1>0, SettleSlots DEF Slotted, s
    <3>2. Slotted(pool, {}) => Slotted(q, {})
      <4>1. Held(q) = Held(s)
        BY <2>4 DEF Held
      <4> QED BY <2>3, <2>4, <3>1, <4>1 DEF Slotted, Slots, Free
    <3>3. Core(q, {})
      BY <2>5, <2>7, <2>8 DEF Core
    <3> QED BY <2>1, <3>2, <3>3, PulseSlotted
  <2> QED BY <2>9, <2>11, <2>12, <2>13 DEF Kept
<1> QED BY <1>0, <1>2, <1>3, <1>4

\* process.nextTick(_ensureMinIdle) of the constructor.
LEMMA BootKept ==
    ASSUME Kept(pool), Boot
    PROVE  Kept(pool') /\ Turned(pool, pool')
<1> DEFINE q == [pool EXCEPT !.boot = FALSE]
<1>1. pool' = EnsureMinIdle(q)
  BY DEF Boot
<1>2. /\ q \in PoolState /\ SameOwners(pool, q) /\ q.queueTimer = pool.queueTimer
      /\ SameRequests(pool, q) /\ SameClients(pool, q) /\ SameEnd(pool, q) /\ SameUse(pool, q)
  <2>1. pool \in PoolState
    BY DEF Kept, Core, Good
  <2> QED BY ZenonT(60), <2>1
        DEF PoolState, SameOwners, SameRequests, SameClients, SameEnd, SameUse
<1> HIDE DEF q
<1>3. Good(q) /\ q.idle = pool.idle /\ q.holds = pool.holds
  BY <1>2, SameGood DEF Kept, Core, SameOwners
<1>4. Core(q, {})
  BY <1>2, <1>3, SameCore DEF Kept
<1>5. /\ Core(pool', {}) /\ Answers(q, pool')
      /\ \A n \in Nat : Awake(q, n) => Awake(pool', n)
      /\ q.ending => pool' = q
  BY <1>1, <1>4, EnsureMinIdleCore
<1>6. Wound(q)
  BY <1>2, <1>3 DEF Kept, Wound, SameClients, SameEnd
<1>7. Wound(pool')
  BY <1>5, <1>6 DEF Wound, Answers
<1>8. /\ q.waiting \subseteq pool.waiting /\ q.ending = pool.ending /\ q.ticks = pool.ticks
      /\ \A r \in Callers : q.holds[r] \in {None, pool.holds[r]}
      /\ \A n \in Nat : Awake(pool, n) => Awake(q, n)
  BY <1>2, <1>3 DEF SameRequests, SameEnd, SameClients, Awake
<1>9. Slotted(pool, {}) => Slotted(q, {})
  BY <1>2, <1>3, SlottedAfter DEF SameOwners
<1>10. Slotted(q, {}) => Slotted(pool', {})
  <2>1. Slotted(q, {}) => Slots(pool', {})
    BY <1>1, <1>3, EnsureMinIdleSlots DEF Slotted
  <2>2. Slotted(q, {}) => Free(pool')
    BY <1>2, <1>5, FreeOn, q.waiting \in SUBSET Callers DEF Slotted, PoolState
  <2> QED BY <2>1, <2>2 DEF Slotted
<1> QED BY <1>5, <1>7, <1>8, <1>9, <1>10, TurnEnds

\* process.nextTick(_pulseQueue) of connect(): one of the runs Awake counts on.
LEMMA TickKept ==
    ASSUME Kept(pool), Tick
    PROVE  Kept(pool') /\ Turned(pool, pool')
<1> DEFINE n == pool.ticks - 1
           q == [pool EXCEPT !.ticks = n]
<1>1. pool' = Pulse(q) /\ pool.ticks > 0
  BY DEF Tick
<1>2. pool \in PoolState /\ n \in Nat /\ pool.ticks = n + 1
  <2>1. pool \in PoolState /\ pool.ticks \in Nat
    BY Sizes DEF Kept, Core, Good
  <2> QED BY <1>1, <2>1
<1> HIDE DEF n
<1>3. /\ q \in PoolState /\ SameOwners(pool, q) /\ q.ticks = n /\ q.queueTimer = pool.queueTimer
      /\ SameRequests(pool, q) /\ SameClients(pool, q) /\ SameUse(pool, q)
      /\ q.ending = pool.ending /\ q.ended = pool.ended /\ q.endWait = pool.endWait
  BY ZenonT(60), <1>2 DEF PoolState, SameOwners, SameRequests, SameClients, SameUse
<1> HIDE DEF q
<1>4. Core(q, {})
  <2>1. Good(q)
    BY <1>3, SameGood DEF Kept, Core
  <2>2. Requests(q, {})
    BY <1>3 DEF Kept, Core, Requests, Served, SameRequests, SameClients
  <2>3. Ends(q) /\ Fit(q)
    BY <1>3 DEF Kept, Core, Ends, Fit, FitBut, SameOwners, SameRequests, SameUse
  <2> QED BY <2>1, <2>2, <2>3 DEF Core
<1>5. /\ Core(pool', {}) /\ Answers(q, pool') /\ Wound(pool')
      /\ \A k \in Nat : Awake(q, k + 1) => Awake(pool', k)
  BY <1>1, <1>4, PulseCore
<1>6. ErrorListener => Awake(pool', pool'.ticks)
  <2>1. pool'.ticks = n
    BY <1>3, <1>5 DEF Answers
  <2>2. Awake(pool, n + 1) => Awake(q, n + 1)
    BY <1>3 DEF Awake, SameOwners, SameRequests
  <2> QED BY <1>2, <1>5, <2>1, <2>2 DEF Kept
<1>7. Turned(pool, pool')
  BY <1>3, <1>5 DEF Turned, Answers, SameRequests, SameOwners
<1>8. Slotted(pool, {}) => Slotted(pool', {})
  <2>1. Slotted(pool, {}) => Slotted(q, {})
    BY <1>3, SlottedAfter DEF SameOwners
  <2> QED BY <1>1, <1>4, <2>1, PulseSlotted
<1> QED BY <1>5, <1>6, <1>7, <1>8 DEF Kept

\* A promise of client.connect() settles.
LEMMA ConnectSettlesKept ==
    ASSUME Kept(pool), NEW c \in Clients, ConnectSucceeds(c) \/ ConnectFails(c)
    PROVE  Kept(pool') /\ Turned(pool, pool')
<1>1. c \in pool.dialing /\ Core(pool, {}) /\ Wound(pool)
  BY DEF ConnectSucceeds, ConnectFails, Kept
<1>2. /\ c \in pool.warm => pool' = WarmReady(pool, c) \/ pool' = WarmFailed(pool, c)
      /\ c \notin pool.warm => pool' = NewReady(pool, c) \/ pool' = NewFailed(pool, c)
  BY DEF ConnectSucceeds, ConnectFails
<1>3. /\ Core(pool', {}) /\ Answers(pool, pool') /\ Wound(pool')
      /\ ErrorListener => \A n \in Nat : Awake(pool, n) => Awake(pool', n)
      /\ Slotted(pool, {}) => Slotted(pool', {})
  <2>1. CASE pool' = WarmReady(pool, c) /\ c \in pool.warm
    BY <1>1, <2>1, WarmReadyCore
  <2>2. CASE pool' = NewReady(pool, c) /\ c \notin pool.warm
    BY <1>1, <2>2, NewReadyCore
  <2>3. CASE pool' = WarmFailed(pool, c) /\ c \in pool.warm
    BY <1>1, <2>3, WarmFailedCore
  <2>4. CASE pool' = NewFailed(pool, c) /\ c \notin pool.warm
    BY <1>1, <2>4, NewFailedCore
  <2> QED BY <1>2, <2>1, <2>2, <2>3, <2>4
<1> QED BY <1>3, TurnEnds

\* A removed client whose promise never settles.
LEMMA LateForgottenKept ==
    ASSUME Kept(pool), NEW c \in Clients, LateForgotten(c)
    PROVE  Kept(pool') /\ Turned(pool, pool')
<1>1. /\ pool' = [pool EXCEPT !.dialing = @ \ {c}, !.warm = @ \ {c}]
      /\ c \notin pool.clients /\ pool \in PoolState
  BY DEF LateForgotten, Kept, Core, Good
<1>2. /\ pool'.clients = pool.clients /\ pool'.dialing = pool.dialing \ {c}
      /\ pool'.connecting = pool.connecting /\ pool'.warm = pool.warm \ {c}
      /\ pool'.idle = pool.idle /\ pool'.holds = pool.holds
      /\ pool'.rolling = pool.rolling /\ pool'.queueTimer = pool.queueTimer
      /\ SameRequests(pool, pool') /\ SameEnd(pool, pool') /\ SameUse(pool, pool')
  BY ZenonT(60), <1>1 DEF PoolState, SameRequests, SameEnd, SameUse
<1>3. Good(pool')
  BY LateForgottenGood DEF Kept, Core
<1>4. Requests(pool', {})
  BY <1>1, <1>2 DEF Kept, Core, Requests, Served, SameRequests
<1>5. Ends(pool') /\ Fit(pool')
  BY <1>2 DEF Kept, Core, Ends, Fit, FitBut, SameRequests, SameEnd, SameUse
<1>6. Wound(pool') /\ (ErrorListener => Awake(pool', pool'.ticks))
  BY <1>2 DEF Kept, Wound, Awake, SameRequests, SameEnd
<1>7. Turned(pool, pool')
  BY <1>2 DEF Turned, SameRequests, SameEnd
<1>8. Slotted(pool, {}) => Slotted(pool', {})
  <2>1. Held(pool') = Held(pool)
    BY <1>2 DEF Held
  <2> QED BY <1>1, <1>2, <2>1 DEF Slotted, Slots, Free, SameRequests
<1> QED BY <1>3, <1>4, <1>5, <1>6, <1>7, <1>8 DEF Kept, Core

\* The connection timer of a new client.
LEMMA ConnectionTimerKept ==
    ASSUME Kept(pool), NEW c \in Clients, ConnectionTimerFires(c)
    PROVE  Kept(pool') /\ Turned(pool, pool')
<1> DEFINE q == [pool EXCEPT !.connTimer = @ \ {c}]
<1>1. /\ pool' = Pulse(RemoveClient(q, c)) /\ c \in pool.connTimer
      /\ c \in pool.clients => MayBeLate(c)
  BY DEF ConnectionTimerFires
<1>2. /\ q \in PoolState /\ q.queueTimer = pool.queueTimer /\ q.rolling = pool.rolling
      /\ q.connTimer = pool.connTimer \ {c} /\ q.idle = pool.idle
      /\ q.holds = pool.holds /\ q.attached = pool.attached /\ q.idleTimer = pool.idleTimer
      /\ SameRequests(pool, q) /\ SameClients(pool, q) /\ SameEnd(pool, q) /\ SameUse(pool, q)
  <2>1. pool \in PoolState
    BY DEF Kept, Core, Good
  <2> QED BY ZenonT(60), <2>1 DEF PoolState, SameRequests, SameClients, SameEnd, SameUse
<1> HIDE DEF q
<1>3. Good(q)
  <2>1. Good(pool)
    BY DEF Kept, Core
  <2> QED BY <1>2, <2>1, FewerPromises DEF SameClients, SameEnd
<1>4. c \in q.clients =>
        /\ c \notin q.warm
        /\ c \in q.dialing \cup q.rolling \cup q.connTimer => Cardinality(Late(q)) < MaxLate
  <2>1. c \in q.clients => Late(q) = Late(pool)
    BY <1>2 DEF Late, SameClients
  <2> QED BY <2>1, <1>1, <1>2 DEF MayBeLate, Kept, Core, Good, Marks, SameClients
<1>5. Good(RemoveClient(q, c))
  BY <1>3, <1>4, RemoveClientGood
<1>6. Slotted(pool, {}) => Slotted(q, {c})
  BY <1>2, SlottedAfter
<1> QED BY <1>1, <1>2, <1>3, <1>5, <1>6, RemovalKept

\* The timer of a queued request takes it out of the one place it is in.
LEMMA QueueTimerKept ==
    ASSUME Kept(pool), NEW r \in Callers, QueueTimerFires(r)
    PROVE  Kept(pool') /\ Turned(pool, pool')
<1> DEFINE s == Settle(pool, {r})
           W == Without(pool.queue, r)
           F == [c \in Clients |-> IF pool.request[c] = r THEN None ELSE pool.request[c]]
<1>0. /\ pool \in PoolState /\ pool.queue \in Seq(Callers) /\ IsInjective(pool.queue)
      /\ pool.request \in [Clients -> Callers \cup {None}] /\ None \notin Callers
  BY ZenonT(60), NamesAssumption DEF Kept, Core, Good, Requests, PoolState
<1>1. /\ s \in PoolState /\ s.waiting = pool.waiting \ {r} /\ s.holds = pool.holds
      /\ s.queue = pool.queue /\ s.request = pool.request /\ s.idle = pool.idle
      /\ SameClients(pool, s) /\ SameEnd(pool, s) /\ SameUse(pool, s)
  BY ZenonT(60), <1>0 DEF Settle, PoolState, SameClients, SameEnd, SameUse
<1>2. pool' = [s EXCEPT
                !.queue = Without(@, r),
                !.request = [c \in Clients |-> IF @[c] = r THEN None ELSE @[c]]]
  BY DEF QueueTimerFires
<1> HIDE DEF s
<1>3. W \in Seq(Callers) /\ IsInjective(W) /\ ToSet(W) = ToSet(pool.queue) \ {r}
      /\ Len(W) \in Nat /\ Len(W) <= Len(pool.queue)
  BY <1>0, WithoutElement, WithoutShorter
<1>4. pool' = [s EXCEPT !.queue = W, !.request = F]
  BY <1>1, <1>2
<1>5. F \in [Clients -> Callers \cup {None}]
  BY <1>0
<1> HIDE DEF W
<1>6. /\ \A c \in Clients : F[c] # None => F[c] = pool.request[c] /\ F[c] # r
      /\ \A c \in Clients : pool.request[c] # r => F[c] = pool.request[c]
  OBVIOUS
<1> HIDE DEF F
<1>7. /\ pool'.queue = W /\ pool'.request = F /\ pool'.waiting = s.waiting
      /\ pool'.idle = s.idle /\ pool'.holds = s.holds
      /\ SameClients(s, pool') /\ SameEnd(s, pool') /\ SameUse(s, pool')
  BY ZenonT(60), <1>1, <1>3, <1>4, <1>5 DEF PoolState, SameClients, SameEnd, SameUse
<1>8. Good(pool')
  BY QueueTimerGood DEF Kept, Core
<1>9. \A a \in Callers : Served(pool', a) <=> Served(pool, a) /\ a # r
  BY <1>0, <1>6, <1>7 DEF Served
<1>10. Requests(pool', {})
  <2>1. \A a \in Callers :
            a \in pool'.waiting <=> a \in ToSet(pool'.queue) \/ Served(pool', a)
    BY <1>1, <1>3, <1>7, <1>9 DEF Kept, Core, Requests
  <2>2. \A c, d \in Clients :
            pool'.request[c] = pool'.request[d] /\ pool'.request[c] # None => c = d
    BY <1>6, <1>7 DEF Kept, Core, Requests
  <2>3. \A c \in Clients : pool'.request[c] # None => c \in pool'.connecting /\ c \notin pool'.warm
    BY <1>1, <1>6, <1>7 DEF Kept, Core, Requests, SameClients
  <2>4. pool'.connecting = pool'.clients \cap pool'.dialing
    BY <1>1, <1>7 DEF Kept, Core, Requests, SameClients
  <2> QED BY <1>3, <1>7, <1>9, <2>1, <2>2, <2>3, <2>4 DEF Kept, Core, Requests
<1>11. Ends(pool')
  <2>1. pool.queue = <<>> => W = <<>>
    BY DEF W, Without, ToSet
  <2> QED BY <1>1, <1>7, <2>1 DEF Kept, Core, Ends, SameClients, SameEnd
<1>12. Fit(pool')
  BY <1>1, <1>7 DEF Kept, Core, Fit, FitBut, SameClients, SameUse
<1>13. Wound(pool')
  BY <1>1, <1>7 DEF Kept, Wound, SameClients, SameEnd
<1>14. ErrorListener => Awake(pool', pool'.ticks)
  <2>1. pool'.ticks = pool.ticks /\ pool.ticks \in Nat /\ Len(pool.queue) \in Nat
    BY <1>1, <1>7, Sizes DEF SameEnd, Kept, Core
  <2>2. Len(pool.queue) <= pool.ticks => Len(pool'.queue) <= pool'.ticks
    BY <1>3, <1>7, <2>1
  <2>3. pool'.idle = pool.idle /\ pool'.clients = pool.clients
    BY <1>1, <1>7 DEF SameClients
  <2> QED BY <2>1, <2>2, <2>3 DEF Kept, Awake
<1>15. Turned(pool, pool')
  BY <1>1, <1>7 DEF Turned, SameEnd
<1>16. ~Slotted(pool, {})
  BY DEF QueueTimerFires, Slotted, Slots
<1> QED BY <1>8, <1>10, <1>11, <1>12, <1>13, <1>14, <1>15, <1>16 DEF Kept, Core

\* The timer of an idle item.
LEMMA IdleTimerKept ==
    ASSUME Kept(pool), NEW c \in Clients, IdleTimerFires(c)
    PROVE  Kept(pool') /\ Turned(pool, pool')
<1> DEFINE q == [pool EXCEPT !.idleTimer = @ \ {c}]
<1>1. /\ pool' = IF AboveMin(q) THEN Refill(RemoveClient(q, c)) ELSE q
      /\ c \in pool.idleTimer
  BY DEF IdleTimerFires
<1>2. /\ q \in PoolState /\ q.rolling = pool.rolling /\ q.connTimer = pool.connTimer
      /\ q.queueTimer = pool.queueTimer
      /\ q.idle = pool.idle /\ q.holds = pool.holds /\ q.attached = pool.attached
      /\ q.idleTimer = pool.idleTimer \ {c}
      /\ SameRequests(pool, q) /\ SameClients(pool, q) /\ SameEnd(pool, q) /\ SameUse(pool, q)
  <2>1. pool \in PoolState
    BY DEF Kept, Core, Good
  <2> QED BY ZenonT(60), <2>1 DEF PoolState, SameRequests, SameClients, SameEnd, SameUse
<1> HIDE DEF q
<1>3. Held(q) = Held(pool) /\ Late(q) = Late(pool)
  BY <1>2 DEF Held, Late, SameClients
<1>4. Good(q)
  BY <1>2, <1>3 DEF Kept, Core, Good, Owners, Marks, Bounds, SameClients, SameEnd
<1>5. c \in ToSet(q.idle)
  BY <1>1, <1>2 DEF Kept, Core, Good, Marks
<1>6. Good(RemoveClient(q, c))
  BY <1>4, <1>5, RemoveIdleGood
<1>9. Slotted(pool, {}) => Slotted(q, {}) /\ Slotted(q, {c})
  BY <1>2, SlottedAfter
<1>7. CASE AboveMin(q)
  BY <1>1, <1>2, <1>4, <1>6, <1>7, <1>9, RemovalKept
<1>8. CASE ~AboveMin(q)
  BY <1>1, <1>2, <1>4, <1>8, <1>9, SameKept
<1> QED BY <1>7, <1>8

\* The lifetime timer.
LEMMA LifetimeTimerKept ==
    ASSUME Kept(pool), NEW c \in Clients, LifetimeTimerFires(c)
    PROVE  Kept(pool') /\ Turned(pool, pool')
<1> DEFINE q == [pool EXCEPT !.lifeTimer = @ \ {c}, !.expired = @ \cup {c}]
<1>1. pool' = IF c \in ToSet(q.idle) THEN Pulse(RemoveClient(q, c)) ELSE q
  BY DEF LifetimeTimerFires
<1>2. /\ q \in PoolState /\ SameOwners(pool, q) /\ q.queueTimer = pool.queueTimer
      /\ SameRequests(pool, q) /\ SameClients(pool, q) /\ SameEnd(pool, q) /\ SameUse(pool, q)
  <2>1. pool \in PoolState
    BY DEF Kept, Core, Good
  <2> QED BY ZenonT(60), <2>1
        DEF PoolState, SameOwners, SameRequests, SameClients, SameEnd, SameUse
<1> HIDE DEF q
<1>3. Good(q) /\ q.idle = pool.idle /\ q.holds = pool.holds
  BY <1>2, SameGood DEF Kept, Core, SameOwners
<1>6. Slotted(pool, {}) => Slotted(q, {}) /\ Slotted(q, {c})
  BY <1>2, SlottedAfter DEF SameOwners
<1>4. CASE c \in ToSet(q.idle)
  <2>1. Good(RemoveClient(q, c))
    BY <1>3, <1>4, RemoveIdleGood
  <2> QED BY <1>1, <1>2, <1>3, <1>4, <1>6, <2>1, RemovalKept
<1>5. CASE c \notin ToSet(q.idle)
  BY <1>1, <1>2, <1>3, <1>5, <1>6, SameKept
<1> QED BY <1>4, <1>5

\* The death of a connected client.
LEMMA ClientDiesKept ==
    ASSUME Kept(pool), NEW c \in Clients, ClientDies(c)
    PROVE  Kept(pool') /\ Turned(pool, pool')
<1>1. /\ pool' = Refill(RemoveClient(pool, c))
      /\ c \in pool.attached /\ c \in pool.clients /\ MayBeLate(c)
  BY DEF ClientDies
<1>2. /\ c \notin pool.warm
      /\ c \in pool.dialing \cup pool.rolling \cup pool.connTimer
            => Cardinality(Late(pool)) < MaxLate
  BY <1>1 DEF Kept, Core, Good, Marks, MayBeLate
<1>3. Good(RemoveClient(pool, c)) /\ Good(pool)
  BY <1>2, RemoveClientGood DEF Kept, Core
<1>4. SameRequests(pool, pool) /\ SameClients(pool, pool) /\ SameEnd(pool, pool)
      /\ SameUse(pool, pool)
  BY DEF SameRequests, SameClients, SameEnd, SameUse
<1>5. Slotted(pool, {}) => Slotted(pool, {c})
  BY DEF Slotted, Slots
<1> QED BY <1>1, <1>3, <1>4, <1>5, RemovalKept

\* The rollback of a release settles; the client may be gone by then.
LEMMA RollbackKept ==
    ASSUME Kept(pool), NEW c \in Clients, RollbackSucceeds(c) \/ RollbackFails(c)
    PROVE  Kept(pool') /\ Turned(pool, pool')
<1>1. /\ c \in pool.rolling /\ c \notin pool.dialing /\ pool \in PoolState
      /\ c \notin ToSet(pool.idle) \cup Held(pool) /\ Good(pool)
  BY DEF RollbackSucceeds, RollbackFails, Kept, Core, Good, Owners
<1>2. CASE RollbackSucceeds(c)
  <2> DEFINE q == [pool EXCEPT !.rolling = @ \ {c}, !.inTx = @ \ {c}]
  <2>1. pool' = IF c \in q.clients THEN PushIdle(q, c) ELSE q
    BY <1>2 DEF RollbackSucceeds
  <2>2. /\ q \in PoolState /\ q.rolling = pool.rolling \ {c}
        /\ q.connTimer = pool.connTimer /\ q.idle = pool.idle /\ q.holds = pool.holds
        /\ q.attached = pool.attached /\ q.idleTimer = pool.idleTimer
        /\ q.queueTimer = pool.queueTimer
        /\ q.uses = pool.uses /\ q.inTx = pool.inTx \ {c}
        /\ SameRequests(pool, q) /\ SameClients(pool, q) /\ SameEnd(pool, q)
    BY ZenonT(60), <1>1 DEF PoolState, SameRequests, SameClients, SameEnd
  <2> HIDE DEF q
  <2>3. Good(q)
    BY <1>1, <2>2, FewerPromises DEF SameClients, SameEnd
  <2>4. c \notin ToSet(q.idle) \cup Held(q) \cup q.dialing \cup q.rolling
    BY <1>1, <2>2 DEF Held, SameClients
  <2>5. Core(q, {})
    <3>1. Requests(q, {}) /\ Ends(q)
      BY <2>2 DEF Kept, Core, Requests, Served, Ends, SameRequests, SameClients, SameEnd
    <3>2. Fit(q)
      BY <2>2 DEF Kept, Core, Fit, FitBut, SameClients
    <3> QED BY <2>3, <3>1, <3>2 DEF Core
  <2>6. \A n \in Nat : Awake(pool, n) => Awake(q, n)
    BY <2>2 DEF Awake, SameRequests, SameClients
  <2>7. q.waiting \subseteq pool.waiting /\ q.ending = pool.ending /\ q.ticks = pool.ticks
        /\ \A r \in Callers : q.holds[r] \in {None, pool.holds[r]}
    BY <2>2 DEF SameRequests, SameEnd
  <2>10. Slotted(pool, {}) => Slotted(q, {c})
    <3>1. Held(q) = Held(pool)
      BY <2>2 DEF Held
    <3> QED BY <2>2, <3>1 DEF Slotted, Slots, Free, SameRequests, SameClients
  <2>8. CASE c \in q.clients
    <3>1. /\ Core(pool', {}) /\ Answers(q, pool') /\ Wound(pool')
          /\ \A n \in Nat : Awake(q, n) => Awake(pool', n)
          /\ Slotted(q, {c}) => Slotted(pool', {})
      <4>1. pool' = PushIdle(q, c) /\ c \notin q.inTx
        BY <2>1, <2>2, <2>8
      <4> QED BY <2>4, <2>5, <2>8, <4>1, PushIdleCore
    <3> QED BY <2>6, <2>7, <2>10, <3>1, TurnEnds
  <2>9. CASE c \notin q.clients
    <3>1. pool' = q
      BY <2>1, <2>9
    <3>2. Wound(q) /\ Answers(q, q)
      BY <2>2 DEF Kept, Wound, Answers, SameClients, SameEnd
    <3>3. Slotted(q, {c}) => Slotted(q, {})
      BY <2>9 DEF Slotted, Slots
    <3> QED BY <2>5, <2>6, <2>7, <2>10, <3>1, <3>2, <3>3, TurnEnds
  <2> QED BY <2>8, <2>9
<1>3. CASE RollbackFails(c)
  <2> DEFINE q == [pool EXCEPT !.rolling = @ \ {c}]
  <2>1. pool' = Refill(RemoveClient(q, c))
    BY <1>3 DEF RollbackFails
  <2>2. /\ q \in PoolState /\ q.rolling = pool.rolling \ {c}
        /\ q.connTimer = pool.connTimer /\ q.idle = pool.idle /\ q.holds = pool.holds
        /\ q.attached = pool.attached /\ q.idleTimer = pool.idleTimer
        /\ q.queueTimer = pool.queueTimer
        /\ SameRequests(pool, q) /\ SameClients(pool, q) /\ SameEnd(pool, q) /\ SameUse(pool, q)
    BY ZenonT(60), <1>1 DEF PoolState, SameRequests, SameClients, SameEnd, SameUse
  <2> HIDE DEF q
  <2>3. Good(q)
    BY <1>1, <2>2, FewerPromises DEF SameClients, SameEnd
  <2>4. c \in q.clients => c \notin q.warm /\ c \notin q.dialing \cup q.rolling \cup q.connTimer
    BY <1>1, <2>2, <2>3 DEF Good, Marks, SameClients
  <2>5. Good(RemoveClient(q, c))
    BY <2>3, <2>4, RemoveClientGood
  <2>6. Slotted(pool, {}) => Slotted(q, {c})
    <3>1. Held(q) = Held(pool)
      BY <2>2 DEF Held
    <3> QED BY <2>2, <3>1 DEF Slotted, Slots, Free, SameRequests, SameClients
  <2> QED BY <2>1, <2>2, <2>3, <2>5, <2>6, RemovalKept
<1> QED BY <1>2, <1>3

-----------------------------------------------------------------------------
(* The theorems *)

\* The invariant holds of a new pool.
LEMMA InitKept ==
    ASSUME Init
    PROVE  Kept(pool)
<1>1. Good(pool)
  BY InitGood
<1>2. /\ pool.clients = {} /\ pool.connecting = {} /\ pool.idle = <<>> /\ pool.queue = <<>>
      /\ pool.dialing = {} /\ pool.warm = {} /\ pool.inTx = {} /\ pool.waiting = {}
      /\ pool.request = [c \in Clients |-> None] /\ pool.ending = FALSE /\ pool.ended = FALSE
      /\ pool.ticks = 0 /\ pool.queueTimer = {}
  BY DEF Init
<1>3. ToSet(pool.idle) = {} /\ ToSet(pool.queue) = {} /\ IsInjective(pool.queue)
  BY <1>2 DEF ToSet, IsInjective
<1>4. Requests(pool, {})
  BY <1>2, <1>3, NamesAssumption DEF Requests, Served
<1>5. Ends(pool) /\ Fit(pool) /\ Wound(pool)
  BY <1>2, <1>3 DEF Ends, Fit, FitBut, Wound
<1>6. Awake(pool, pool.ticks)
  BY <1>2 DEF Awake
<1>7. Slotted(pool, {})
  BY <1>2 DEF Slotted, Slots, Free
<1> QED BY <1>1, <1>4, <1>5, <1>6, <1>7 DEF Kept, Core

\* Every step keeps the invariant, and is a connect() or a turn that answers.
LEMMA NextKept ==
    ASSUME Kept(pool), [Next]_vars
    PROVE  /\ Kept(pool')
           /\ Turned(pool, pool') \/ \E r \in Callers : AskedTurn(pool, pool', r)
<1>1. CASE UNCHANGED vars
  BY <1>1 DEF vars, Turned
<1>2. CASE Boot \/ Tick
  BY <1>2, BootKept, TickKept
<1>3. ASSUME NEW r \in Callers, CallerStep(r)
      PROVE  Kept(pool') /\ (Turned(pool, pool') \/ AskedTurn(pool, pool', r))
  <2>1. CASE ConnectIdle(r) \/ ConnectNew(r) \/ ConnectQueued(r)
    BY <2>1, ConnectKept
  <2>2. CASE UseClient(r)
    BY <2>2, UseClientKept
  <2>3. CASE \E err \in BOOLEAN : Release(r, err)
    BY <2>3, ReleaseKept
  <2>4. CASE QueueTimerFires(r)
    BY <2>4, QueueTimerKept
  <2> QED BY <1>3, <2>1, <2>2, <2>3, <2>4 DEF CallerStep
<1>4. ASSUME NEW c \in Clients, ClientStep(c)
      PROVE  Kept(pool') /\ Turned(pool, pool')
  BY <1>4, ConnectSettlesKept, LateForgottenKept, ConnectionTimerKept, IdleTimerKept,
     LifetimeTimerKept, ClientDiesKept, RollbackKept DEF ClientStep
<1>5. ASSUME NEW e \in Enders, End(e)
      PROVE  Kept(pool') /\ Turned(pool, pool')
  BY <1>5, EndKept
<1> QED BY <1>1, <1>2, <1>3, <1>4, <1>5 DEF Next

\* Kept is an invariant of the pool.
THEOREM RequestsInvariant == Spec => []Kept(pool)
<1>1. Init => Kept(pool)
  BY InitKept
<1>2. Kept(pool) /\ [Next]_vars => Kept(pool)'
  BY NextKept
<1> QED BY <1>1, <1>2, PTL DEF Spec

\* Whatever the order of checkouts, failed connects, timers, removals and end(), no
\* connect() is forgotten and none is answered twice, and end() is complete
\* exactly when the last client is gone.
THEOREM RequestsAccounted == Spec => []RequestAccounted
<1>1. Kept(pool) => RequestAccounted
  <2> SUFFICES ASSUME Kept(pool) PROVE RequestAccounted
    OBVIOUS
  <2>0. /\ pool.request \in [Clients -> Callers \cup {None}] /\ None \notin Callers
        /\ pool.queue \in Seq(Callers) /\ pool.waiting \in SUBSET Callers
        /\ pool.ended \in BOOLEAN /\ pool.ending \in BOOLEAN
    BY ZenonT(60), NamesAssumption DEF Kept, Core, Good, PoolState
  <2>1. ToSet(pool.queue) \subseteq Callers
    BY <2>0 DEF ToSet
  <2>2. pool.waiting = ToSet(pool.queue) \cup ({pool.request[c] : c \in Clients} \ {None})
    BY <2>0, <2>1 DEF Kept, Core, Requests, Served
  <2>3. \A c \in Clients : pool.request[c] \notin ToSet(pool.queue)
    BY <2>0, <2>1 DEF Kept, Core, Requests, Served
  <2>4. pool.queue = <<>> => ToSet(pool.queue) = {}
    BY DEF ToSet
  <2>5. pool.ending => ToSet(pool.queue) = {} /\ pool.idle = <<>>
    BY <2>4 DEF Kept, Core, Ends, Wound
  <2>6. pool.ended <=> pool.ending /\ pool.clients = {}
    BY <2>0 DEF Kept, Core, Ends, Wound
  <2>7. pool.ended => pool.waiting = {} /\ pool.endWait = {}
    <3>1. pool.ended => \A c \in Clients : pool.request[c] = None
      BY DEF Kept, Core, Requests, Ends
    <3> QED BY <2>2, <2>5, <2>6, <3>1 DEF Kept, Core, Ends
  <2> QED BY <2>2, <2>3, <2>5, <2>6, <2>7 DEF RequestAccounted, Kept, Core, Requests
<1> QED BY <1>1, RequestsInvariant, PTL

\* Without connectionTimeoutMillis, whatever the order of checkouts, releases,
\* deaths, rollbacks and end(), no slot is lost: each client has a connect(), a
\* rollback(), the idle stack or a caller that will give its slot back. With it,
\* the timer of a queued request that a client is being dialled for answers the
\* caller, and nobody takes the client when it has connected.
THEOREM SlotsAccounted == ~ConnectionTimeout => (Spec => []SlotAccounted)
<1>1. ~ConnectionTimeout /\ Kept(pool) => SlotAccounted
  BY DEF Kept, Slotted, Slots, SlotAccounted
<1>2. CASE ~ConnectionTimeout
  <2>1. Kept(pool) => SlotAccounted
    BY <1>1, <1>2
  <2> QED BY <2>1, RequestsInvariant, PTL
<1> QED BY <1>2

\* With a listener for its 'error' events, the pool loses no wakeup: when no
\* nextTick is pending, nobody is queued while a client is idle or there is room.
\* Without one, a warm client that fails to connect frees a slot and wakes nobody.
THEOREM WakeupsKept == ErrorListener => (Spec => []NoLostWakeup)
<1>1. ErrorListener /\ Kept(pool) => NoLostWakeup
  <2> SUFFICES ASSUME ErrorListener, Kept(pool), pool.ticks = 0, CanServe(pool) PROVE FALSE
    BY DEF NoLostWakeup
  <2>1. /\ Len(pool.queue) \in Nat /\ Len(pool.idle) \in Nat /\ PoolMax \in Nat
        /\ Cardinality(pool.clients) \in Nat /\ Cardinality(pool.clients) <= PoolMax
        /\ pool.queue \in Seq(Callers) /\ pool.idle \in Seq(Clients)
    BY Sizes DEF Kept, Core, Good, PoolState
  <2>2. Len(pool.queue) <= 0 \/ Len(pool.idle) + PoolMax <= Cardinality(pool.clients) + 0
    BY DEF Kept, Awake
  <2>3. Len(pool.queue) > 0
    BY <2>1 DEF CanServe
  <2>4. Len(pool.idle) = 0 /\ Cardinality(pool.clients) >= PoolMax
    BY <2>1, <2>2, <2>3
  <2>5. pool.idle = <<>>
    BY <2>1, <2>4
  <2> QED BY <2>4, <2>5 DEF CanServe, Full
<1>2. CASE ErrorListener
  <2>1. Kept(pool) => NoLostWakeup
    BY <1>1, <1>2
  <2> QED BY <2>1, RequestsInvariant, PTL
<1> QED BY <1>2

\* No client is handed out inside a transaction of its last user or after its
\* last use, and none is closed by a timer of an earlier phase.
THEOREM ClientsAlwaysFit == Spec => []ClientsFit
<1>1. Kept(pool) => ClientsFit
  <2> SUFFICES ASSUME Kept(pool) PROVE ClientsFit
    OBVIOUS
  <2>1. ASSUME NEW r \in Callers, pool.holds[r] \in pool.clients
        PROVE  pool.holds[r] \notin pool.idleTimer \cup pool.connTimer \cup pool.connecting
    <3>1. pool.holds[r] \in Held(pool)
      <4>1. pool.holds[r] \in Clients /\ None \notin Clients
        BY <2>1, NamesAssumption DEF Kept, Core, Good, PoolState
      <4> QED BY <4>1 DEF Held
    <3>2. pool.holds[r] \notin pool.dialing \cup ToSet(pool.idle)
      BY <3>1 DEF Kept, Core, Good, Owners
    <3> QED BY <2>1, <3>2 DEF Kept, Core, Good, Marks, Requests
  <2> QED BY <2>1 DEF ClientsFit, Kept, Core, Fit, FitBut
<1> QED BY <1>1, RequestsInvariant, PTL

\* The pool implements the promise of Lease, with the sessions that have
\* connected as the open ones: each step is a connect() or a turn that answers
\* callers that asked, with open sessions nobody else holds, until it is closed.
THEOREM PoolKeepsPromise == Spec => ImplementsLease
<1>1. Init => Promise!Init
  BY DEF Init, Promise!Init
<1>2. Kept(pool) /\ Kept(pool)' /\ [Next]_vars => [Promise!Next]_(Promise!vars)
  <2> SUFFICES ASSUME Kept(pool), Kept(pool'), [Next]_vars
               PROVE  Promise!Next
    BY DEF Kept
  <2>1. Turned(pool, pool') \/ \E r \in Callers : AskedTurn(pool, pool', r)
    BY NextKept
  <2>2. /\ pool'.clients \in SUBSET Clients /\ pool'.waiting \in SUBSET Callers
        /\ pool'.holds \in [Callers -> Clients \cup {None}]
        /\ pool'.ending \in BOOLEAN /\ pool.ending \in BOOLEAN
        /\ pool.waiting \in SUBSET Callers
    BY ZenonT(60) DEF Kept, Core, Good, PoolState
  <2>3. Promise!OpenAndClose
    <3>1. IsFiniteSet(pool'.clients) /\ Cardinality(pool'.clients) \in Nat
          /\ Cardinality(pool'.clients) <= PoolMax /\ PoolMax \in Nat
      BY Sizes DEF Kept, Core
    <3>2. /\ Cardinality(pool'.clients \ pool'.dialing) <= Cardinality(pool'.clients)
          /\ Cardinality(pool'.clients \ pool'.dialing) \in Nat
      BY <3>1, FS_Subset, FS_CardinalityType, pool'.clients \ pool'.dialing \in SUBSET pool'.clients
    <3>3. Cardinality(pool'.clients \ pool'.dialing) <= PoolMax
      BY <3>1, <3>2
    <3>4. Promise!Cardinality(pool'.clients \ pool'.dialing)
            = Cardinality(pool'.clients \ pool'.dialing)
      BY Zenon DEF Cardinality, Promise!Cardinality
    <3> QED BY <2>2, <3>3, <3>4 DEF Promise!OpenAndClose
  <2>4. ASSUME NEW r \in Callers, AskedTurn(pool, pool', r)
        PROVE  Promise!Ask(r)
    BY <2>2, <2>3, <2>4 DEF AskedTurn, Promise!Ask
  <2>5. CASE Turned(pool, pool')
    <3>1. pool'.ending => pool'.waiting = {}
      <4> SUFFICES ASSUME pool'.ending, NEW r \in pool'.waiting PROVE FALSE
        OBVIOUS
      <4>1. r \in Callers /\ None \notin Callers
        BY <2>2, NamesAssumption
      <4>2. r \in ToSet(pool'.queue) \/ Served(pool', r)
        BY <4>1 DEF Kept, Core, Requests
      <4>3. ToSet(pool'.queue) = {}
        BY DEF Kept, Core, Ends, ToSet
      <4>4. ~Served(pool', r)
        BY <4>1 DEF Kept, Core, Requests, Wound, Served
      <4> QED BY <4>2, <4>3, <4>4
    <3>2. ASSUME NEW r \in Callers, pool'.holds[r] \notin {None, pool.holds[r]}
          PROVE  /\ r \in pool.waiting \ pool'.waiting /\ ~pool.ending
                 /\ pool'.holds[r] \in pool'.clients \ pool'.dialing
                 /\ \A s \in Callers \ {r} : pool'.holds[s] # pool'.holds[r]
      <4>1. \A s \in Callers : pool'.holds[s] = pool'.holds[r] => s = r
        BY <3>2 DEF Kept, Core, Good, Owners
      <4> QED BY <2>5, <3>2, <4>1 DEF Turned
    <3>3. pool'.waiting \in SUBSET pool.waiting /\ pool'.ending \in {pool.ending, TRUE}
      BY <2>2, <2>5 DEF Turned
    <3>4. Promise!Turn
      BY <2>2, <2>3, <3>1, <3>2, <3>3 DEF Promise!Turn
    <3> QED BY <3>4 DEF Promise!Next
  <2> QED BY <2>1, <2>4, <2>5 DEF Promise!Next
<1> QED BY <1>1, <1>2, RequestsInvariant, PTL DEF Spec, ImplementsLease, Promise!Spec

=============================================================================
