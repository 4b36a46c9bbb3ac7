---------------------------- MODULE NzPool_proofs ----------------------------
(***************************************************************************)
(* Proofs about the connection pool, for every number of clients, callers  *)
(* and every choice of its options: typing, the bound on open clients, and *)
(* the exclusive ownership of clients.                                     *)
(*                                                                         *)
(* The inductive invariant Good speaks about any state p of the pool, not  *)
(* only about the variable, because each action composes several methods:  *)
(* every method has a lemma that it takes Good states to Good states, and  *)
(* each action follows from the lemmas of the methods it calls.            *)
(***************************************************************************)
EXTENDS NzPool, TLAPS, FiniteSetTheorems, SequenceTheorems

-----------------------------------------------------------------------------
(* Sequences and sets *)

\* What is left of a sequence without repetition when x is taken out.
LEMMA WithoutElement ==
    ASSUME NEW S, NEW s \in Seq(S), IsInjective(s), NEW x
    PROVE  /\ Without(s, x) \in Seq(S)
           /\ IsInjective(Without(s, x))
           /\ ToSet(Without(s, x)) = ToSet(s) \ {x}
<1>1. CASE x \notin ToSet(s)
  BY <1>1 DEF Without
<1>2. CASE x \in ToSet(s)
  <2> DEFINE i == CHOOSE j \in DOMAIN s : s[j] = x
             a == SubSeq(s, 1, i - 1)
             b == SubSeq(s, i + 1, Len(s))
  <2>1. i \in 1..Len(s) /\ s[i] = x
    BY <1>2 DEF ToSet
  <2>2. Without(s, x) = a \o b
    BY <1>2 DEF Without, RemoveAt
  <2> HIDE DEF i
  <2>3. /\ a \in Seq(S) /\ Len(a) = i - 1
        /\ \A k \in 1..(i - 1) : a[k] = s[k]
    BY <2>1
  <2>4. /\ b \in Seq(S) /\ Len(b) = Len(s) - i
        /\ \A k \in 1..(Len(s) - i) : b[k] = s[i + k]
    BY <2>1
  <2> HIDE DEF a, b
  <2>5. /\ a \o b \in Seq(S)
        /\ Len(a \o b) = Len(s) - 1
        /\ \A k \in 1..(Len(s) - 1) : (a \o b)[k] = IF k < i THEN s[k] ELSE s[k + 1]
    <3>1. /\ a \o b \in Seq(S) /\ Len(a \o b) = Len(a) + Len(b)
          /\ \A k \in 1..(Len(a) + Len(b)) :
                (a \o b)[k] = IF k <= Len(a) THEN a[k] ELSE b[k - Len(a)]
      BY <2>3, <2>4, ConcatProperties
    <3>2. ASSUME NEW k \in 1..(Len(s) - 1)
          PROVE  (a \o b)[k] = IF k < i THEN s[k] ELSE s[k + 1]
      <4>1. CASE k < i
        <5>1. k \in 1..(Len(a) + Len(b)) /\ k <= Len(a) /\ k \in 1..(i - 1)
          BY <4>1, <2>1, <2>3, <2>4
        <5>2. (a \o b)[k] = a[k]
          BY <5>1, <3>1
        <5> QED BY <5>1, <5>2, <4>1, <2>3
      <4>2. CASE k >= i
        <5>1. /\ (a \o b)[k] = b[k - Len(a)] /\ k - Len(a) \in 1..(Len(s) - i)
              /\ i + (k - Len(a)) = k + 1
          BY <4>2, <3>1, <2>1, <2>3, <2>4
        <5>2. (a \o b)[k] = s[k + 1]
          BY <5>1, <2>4
        <5> QED BY <5>2, <4>2, <2>1
      <4>3. k < i \/ k >= i
        BY <2>1
      <4> QED BY <4>1, <4>2, <4>3
    <3> QED BY <3>1, <3>2, <2>1, <2>3, <2>4
  <2> DEFINE t == a \o b
  <2> HIDE DEF t
  <2>6. /\ t \in Seq(S)
        /\ DOMAIN t = 1..(Len(s) - 1) /\ DOMAIN s = 1..Len(s)
        /\ \A k \in 1..(Len(s) - 1) : t[k] = IF k < i THEN s[k] ELSE s[k + 1]
    BY <2>5 DEF t
  <2>7. IsInjective(t)
    <3> SUFFICES ASSUME NEW j \in 1..(Len(s) - 1), NEW k \in 1..(Len(s) - 1),
                        t[j] = t[k]
                 PROVE  j = k
      BY <2>6 DEF IsInjective
    <3> DEFINE m(l) == IF l < i THEN l ELSE l + 1
    <3>1. m(j) \in DOMAIN s /\ m(k) \in DOMAIN s /\ s[m(j)] = s[m(k)]
      BY <2>1, <2>6
    <3>2. m(j) = m(k)
      BY <3>1 DEF IsInjective
    <3> QED BY <3>2, <2>1
  <2>8. ToSet(t) \subseteq ToSet(s) \ {x}
    <3> SUFFICES ASSUME NEW k \in 1..(Len(s) - 1)
                 PROVE  t[k] \in ToSet(s) /\ t[k] # x
      BY <2>6 DEF ToSet
    <3> DEFINE j == IF k < i THEN k ELSE k + 1
    <3>1. j \in 1..Len(s) /\ t[k] = s[j] /\ j # i
      BY <2>1, <2>6
    <3>2. s[j] # x
      BY <3>1, <2>1, <2>6 DEF IsInjective
    <3> QED BY <3>1, <3>2, <2>6 DEF ToSet
  <2>9. ToSet(s) \ {x} \subseteq ToSet(t)
    <3> SUFFICES ASSUME NEW j \in 1..Len(s), s[j] # x
                 PROVE  \E k \in 1..(Len(s) - 1) : t[k] = s[j]
      BY <2>6 DEF ToSet
    <3>1. j # i
      BY <2>1
    <3>2. CASE j < i
      BY <3>2, <2>1, <2>6
    <3>3. CASE j > i
      <4>1. j - 1 \in 1..(Len(s) - 1) /\ t[j - 1] = s[j]
        BY <3>3, <2>1, <2>6
      <4> QED BY <4>1
    <3> QED BY <3>1, <3>2, <3>3, <2>1
  <2> QED BY <2>2, <2>6, <2>7, <2>8, <2>9 DEF t
<1> QED BY <1>1, <1>2

\* Taking an element out of any sequence leaves a sequence.
LEMMA WithoutTyped ==
    ASSUME NEW S, NEW s \in Seq(S), NEW x
    PROVE  Without(s, x) \in Seq(S)
<1>1. CASE x \notin ToSet(s)
  BY <1>1 DEF Without
<1>2. CASE x \in ToSet(s)
  <2> DEFINE i == CHOOSE j \in DOMAIN s : s[j] = x
             a == SubSeq(s, 1, i - 1)
             b == SubSeq(s, i + 1, Len(s))
  <2>1. i \in 1..Len(s)
    BY <1>2 DEF ToSet
  <2>2. Without(s, x) = a \o b
    BY <1>2 DEF Without, RemoveAt
  <2> HIDE DEF i
  <2>3. a \in Seq(S) /\ b \in Seq(S)
    BY <2>1
  <2> QED BY <2>2, <2>3, ConcatProperties
<1> QED BY <1>1, <1>2

\* The top of a stack without repetition, and what is below it.
LEMMA PopStack ==
    ASSUME NEW S, NEW s \in Seq(S), IsInjective(s), s # <<>>
    PROVE  /\ Last(s) \in ToSet(s) /\ Last(s) \in S
           /\ Front(s) \in Seq(S)
           /\ IsInjective(Front(s))
           /\ ToSet(Front(s)) = ToSet(s) \ {Last(s)}
<1>1. /\ Len(s) \in Nat \ {0} /\ DOMAIN s = 1..Len(s) /\ Front(s) \in Seq(S)
      /\ Last(s) = s[Len(s)] /\ DOMAIN Front(s) = 1..(Len(s) - 1)
      /\ \A k \in 1..(Len(s) - 1) : Front(s)[k] = s[k]
  BY DEF Front, Last
<1>2. IsInjective(Front(s))
  BY <1>1 DEF IsInjective
<1>3. ToSet(Front(s)) = ToSet(s) \ {Last(s)}
  BY <1>1 DEF ToSet, IsInjective
<1>4. Last(s) \in ToSet(s) /\ Last(s) \in S
  BY <1>1 DEF ToSet
<1> QED BY <1>1, <1>2, <1>3, <1>4

\* A new element on top of a stack without repetition.
LEMMA PushStack ==
    ASSUME NEW S, NEW s \in Seq(S), IsInjective(s), NEW x \in S, x \notin ToSet(s)
    PROVE  /\ Append(s, x) \in Seq(S)
           /\ IsInjective(Append(s, x))
           /\ ToSet(Append(s, x)) = ToSet(s) \cup {x}
<1> DEFINE t == Append(s, x)
<1>1. /\ t \in Seq(S) /\ DOMAIN s = 1..Len(s) /\ DOMAIN t = 1..(Len(s) + 1)
      /\ \A k \in 1..Len(s) : t[k] = s[k] /\ t[k] \in ToSet(s)
      /\ t[Len(s) + 1] = x /\ Len(s) \in Nat
  BY DEF ToSet
<1> HIDE DEF t
<1>2. IsInjective(t)
  BY <1>1 DEF IsInjective
<1>3. ToSet(t) = ToSet(s) \cup {x}
  BY <1>1 DEF ToSet
<1> QED BY <1>1, <1>2, <1>3 DEF t

\* A finite set has subsets of every size up to its own.
LEMMA SubsetOfSize ==
    ASSUME NEW S, IsFiniteSet(S), NEW k \in Nat, k <= Cardinality(S)
    PROVE  \E N \in SUBSET S : Cardinality(N) = k
<1> DEFINE n == Cardinality(S)
<1>1. n \in Nat /\ ExistsBijection(1..n, S)
  BY FS_CardinalityType
<1>2. PICK f \in [1..n -> S] : f \in Bijection(1..n, S)
  BY <1>1 DEF ExistsBijection, Bijection, Injection
<1> DEFINE N == {f[i] : i \in 1..k}
<1> HIDE DEF n
<1>3. k <= n
  BY DEF n
<1>4. [i \in 1..k |-> f[i]] \in Bijection(1..k, N)
  <2>1. \A i, j \in 1..n : f[i] = f[j] => i = j
    BY <1>2 DEF Bijection, Injection, IsInjective
  <2> DEFINE g == [i \in 1..k |-> f[i]]
  <2>2. g \in [1..k -> N] /\ IsInjective(g)
    BY <1>1, <1>3, <2>1 DEF IsInjective
  <2>3. \A x \in N : \E i \in 1..k : g[i] = x
    OBVIOUS
  <2> QED BY <2>2, <2>3 DEF Bijection, Injection, Surjection
<1>5. IsFiniteSet(1..k) /\ Cardinality(1..k) = k
  BY FS_Interval
<1>6. Cardinality(N) = k
  <2>1. ExistsBijection(1..k, N)
    BY <1>4 DEF ExistsBijection
  <2> QED BY <2>1, <1>5, FS_Bijection
<1>7. N \in SUBSET S
  BY <1>1, <1>3
<1> QED BY <1>6, <1>7

-----------------------------------------------------------------------------
(* The inductive invariant *)

\* Who may own a client; ExclusiveOwner, and no client dials and rolls back.
Owners(p) ==
    /\ IsInjective(p.idle)
    /\ ToSet(p.idle) \subseteq p.clients
    /\ ToSet(p.idle) \cap (Held(p) \cup p.dialing \cup p.rolling) = {}
    /\ Held(p) \cap (p.dialing \cup p.rolling) = {}
    /\ p.dialing \cap p.rolling = {}
    /\ \A r, s \in Callers : p.holds[r] = p.holds[s] /\ p.holds[r] # None => r = s

\* Which clients a timer or a listener may belong to.
Marks(p) ==
    /\ p.warm \subseteq p.dialing
    /\ p.warm \cap p.connTimer = {}
    /\ p.connTimer \cap p.clients \subseteq p.dialing
    /\ p.attached \subseteq p.clients \ p.dialing
    /\ p.idleTimer \subseteq ToSet(p.idle)
    /\ ~p.ending => p.warm \subseteq p.clients

\* The slots are bounded, and so are the late clients while new ones can come.
Bounds(p) ==
    /\ Cardinality(p.clients) <= PoolMax
    /\ ~p.ending => Cardinality(Late(p)) <= MaxLate

Good(p) == p \in PoolState /\ Owners(p) /\ Marks(p) /\ Bounds(p)

-----------------------------------------------------------------------------
(* New clients *)

\* The size of a union of finite sets.
LEMMA UnionSize ==
    ASSUME NEW A, NEW B, IsFiniteSet(A), IsFiniteSet(B)
    PROVE  /\ IsFiniteSet(A \cup B) /\ Cardinality(A \cup B) \in Nat
           /\ Cardinality(A \cup B) <= Cardinality(A) + Cardinality(B)
           /\ A \cap B = {} => Cardinality(A \cup B) = Cardinality(A) + Cardinality(B)
<1>1. Cardinality(A) \in Nat /\ Cardinality(B) \in Nat
  BY FS_CardinalityType
<1>2. IsFiniteSet(A \cap B)
  BY FS_Subset, A \cap B \in SUBSET A
<1>3. Cardinality(A \cap B) \in Nat
  BY <1>2, FS_CardinalityType
<1>4. /\ IsFiniteSet(A \cup B)
      /\ Cardinality(A \cup B) = Cardinality(A) + Cardinality(B) - Cardinality(A \cap B)
  BY FS_Union
<1>5. A \cap B = {} => Cardinality(A \cap B) = 0
  BY FS_EmptySet
<1>6. Cardinality(A \cup B) \in Nat
  BY <1>4, FS_CardinalityType
<1>7. Cardinality(A \cup B) <= Cardinality(A) + Cardinality(B)
  BY <1>1, <1>3, <1>4
<1>8. A \cap B = {} => Cardinality(A \cup B) = Cardinality(A) + Cardinality(B)
  BY <1>1, <1>4, <1>5
<1> QED BY <1>4, <1>6, <1>7, <1>8

\* There is always a name for a new client: the bounds leave k names unused.
LEMMA FreshNames ==
    ASSUME NEW p \in PoolState, Bounds(p), ~p.ending,
           NEW k \in Nat, Cardinality(p.clients) + k <= PoolMax
    PROVE  /\ NewNames(p, k) \subseteq Clients \ (p.clients \cup Held(p) \cup Late(p))
           /\ Cardinality(NewNames(p, k)) = k
<1> DEFINE T == {p.holds[r] : r \in Callers}
           Used == p.clients \cup Held(p) \cup Late(p)
<1>1. /\ p.clients \subseteq Clients /\ Late(p) \subseteq Clients
      /\ p.holds \in [Callers -> Clients \cup {None}]
  BY ZenonT(60) DEF PoolState, Late
<1>2. /\ IsFiniteSet(p.clients) /\ Cardinality(p.clients) \in Nat
      /\ IsFiniteSet(Late(p)) /\ Cardinality(Late(p)) \in Nat
      /\ Cardinality(Clients) \in Nat /\ Cardinality(Callers) \in Nat
  BY <1>1, FS_Subset, FS_CardinalityType, NamesAssumption
<1>3. IsFiniteSet(T) /\ Cardinality(T) <= Cardinality(Callers) /\ Cardinality(T) \in Nat
  <2>1. p.holds \in Surjection(Callers, T)
    BY <1>1 DEF Surjection
  <2> QED BY <2>1, NamesAssumption, FS_Surjection, FS_CardinalityType
<1>4. IsFiniteSet(Held(p)) /\ Cardinality(Held(p)) <= Cardinality(Callers)
      /\ Cardinality(Held(p)) \in Nat
  <2>1. Held(p) \in SUBSET T
    BY DEF Held
  <2>2. IsFiniteSet(Held(p)) /\ Cardinality(Held(p)) <= Cardinality(T)
    BY <2>1, <1>3, FS_Subset
  <2> QED BY <2>2, <1>2, <1>3, FS_CardinalityType
<1>5. /\ IsFiniteSet(p.clients \cup Held(p))
      /\ Cardinality(p.clients \cup Held(p)) <= Cardinality(p.clients) + Cardinality(Held(p))
      /\ Cardinality(p.clients \cup Held(p)) \in Nat
  BY <1>2, <1>4, UnionSize
<1>6. /\ IsFiniteSet(Used) /\ Cardinality(Used) \in Nat
      /\ Cardinality(Used) <= Cardinality(p.clients \cup Held(p)) + Cardinality(Late(p))
  BY <1>2, <1>5, UnionSize
<1>7. IsFiniteSet(Clients \ Used) /\ k <= Cardinality(Clients \ Used)
  <2>1. Clients \cap Used \in SUBSET Used
    OBVIOUS
  <2>2. /\ IsFiniteSet(Clients \cap Used)
        /\ Cardinality(Clients \cap Used) <= Cardinality(Used)
        /\ Cardinality(Clients \cap Used) \in Nat
    BY <2>1, <1>6, FS_Subset, FS_CardinalityType
  <2>3. IsFiniteSet(Clients \ Used) /\
        Cardinality(Clients \ Used) = Cardinality(Clients) - Cardinality(Clients \cap Used)
    BY NamesAssumption, FS_Difference
  <2> QED BY <2>2, <2>3, <1>2, <1>4, <1>5, <1>6, NamesAssumption, SizesAssumption DEF Bounds
<1>8. \E N \in SUBSET (Clients \ Used) : Cardinality(N) = k
  BY <1>7, SubsetOfSize
<1> QED BY <1>8 DEF NewNames

\* Opening a client for a request keeps the invariant when the pool has room.
LEMMA NewClientGood ==
    ASSUME NEW p, Good(p), ~p.ending, ~Full(p), NEW r \in Callers
    PROVE  Good(NewClient(p, r))
<1> DEFINE N == NewNames(p, 1)
           q == NewClient(p, r)
<1>1. Cardinality(p.clients) \in Nat /\ IsFiniteSet(p.clients)
  BY FS_Subset, FS_CardinalityType, NamesAssumption DEF Good, PoolState
<1>2. /\ N \subseteq Clients \ (p.clients \cup Held(p) \cup Late(p))
      /\ Cardinality(N) = 1
  BY <1>1, FreshNames, SizesAssumption DEF Good, Bounds, Full
<1> HIDE DEF N
<1>3. /\ q \in PoolState
      /\ q.clients = p.clients \cup N /\ q.dialing = p.dialing \cup N
      /\ q.connTimer \in {p.connTimer, p.connTimer \cup N}
      /\ q.idle = p.idle /\ q.holds = p.holds /\ q.rolling = p.rolling
      /\ q.warm = p.warm /\ q.attached = p.attached /\ q.idleTimer = p.idleTimer
      /\ q.ending = p.ending
  <2> DEFINE d == Dial(p, N)
  <2>1. /\ d \in PoolState
        /\ d.clients = p.clients \cup N /\ d.dialing = p.dialing \cup N
        /\ d.connTimer = p.connTimer /\ d.idle = p.idle /\ d.holds = p.holds
        /\ d.rolling = p.rolling /\ d.warm = p.warm /\ d.attached = p.attached
        /\ d.idleTimer = p.idleTimer /\ d.ending = p.ending
    BY ZenonT(60), <1>2 DEF Dial, Good, PoolState
  <2>2. q = [d EXCEPT
                !.request = [c \in Clients |-> IF c \in N THEN r ELSE @[c]],
                !.connTimer = IF ConnectionTimeout THEN @ \cup N ELSE @]
    BY DEF NewClient, N
  <2> HIDE DEF d, q
  <2> QED BY <1>2, <2>1, <2>2 DEF PoolState
<1> HIDE DEF q
<1>4. N \cap (p.dialing \cup p.rolling \cup p.connTimer) = {}
  BY <1>2 DEF Late
<1>5. Held(q) = Held(p) /\ Late(q) = Late(p)
  BY <1>3, <1>4, <1>2 DEF Held, Late
<1>6. Owners(q)
  BY <1>2, <1>3, <1>4, <1>5 DEF Good, Owners
<1>7. Marks(q)
  BY <1>2, <1>3, <1>4 DEF Good, Marks
<1>8. Bounds(q)
  <2>1. IsFiniteSet(N) /\ p.clients \cap N = {}
    BY <1>2, NamesAssumption, FS_Subset
  <2>2. Cardinality(q.clients) = Cardinality(p.clients) + 1
    BY <2>1, <1>1, <1>2, <1>3, UnionSize
  <2> QED BY <2>2, <1>1, <1>3, <1>5, SizesAssumption DEF Good, Bounds, Full
<1> QED BY <1>3, <1>6, <1>7, <1>8 DEF Good, q

\* _ensureMinIdle keeps the invariant: it opens no more than is missing.
LEMMA EnsureMinIdleGood ==
    ASSUME NEW p, Good(p)
    PROVE  Good(EnsureMinIdle(p))
<1> SUFFICES ASSUME ~p.ending, ~p.ended, ~(Cardinality(p.clients) >= PoolMin)
             PROVE  Good(EnsureMinIdle(p))
  BY DEF EnsureMinIdle
<1> DEFINE k == PoolMin - Cardinality(p.clients)
           N == NewNames(p, k)
           q == EnsureMinIdle(p)
<1>1. Cardinality(p.clients) \in Nat /\ IsFiniteSet(p.clients)
  BY FS_Subset, FS_CardinalityType, NamesAssumption DEF Good, PoolState
<1>2. k \in Nat /\ Cardinality(p.clients) + k <= PoolMax
  BY <1>1, SizesAssumption
<1>3. /\ N \subseteq Clients \ (p.clients \cup Held(p) \cup Late(p))
      /\ Cardinality(N) = k
  BY <1>2, FreshNames DEF Good
<1>4. q = [Dial(p, N) EXCEPT !.warm = @ \cup N]
  BY DEF EnsureMinIdle
<1> HIDE DEF N, q, k
<1>5. /\ q \in PoolState
      /\ q.clients = p.clients \cup N /\ q.dialing = p.dialing \cup N
      /\ q.warm = p.warm \cup N /\ q.connTimer = p.connTimer
      /\ q.idle = p.idle /\ q.holds = p.holds /\ q.rolling = p.rolling
      /\ q.attached = p.attached /\ q.idleTimer = p.idleTimer /\ q.ending = p.ending
  <2> DEFINE d == Dial(p, N)
  <2>1. /\ d \in PoolState
        /\ d.clients = p.clients \cup N /\ d.dialing = p.dialing \cup N
        /\ d.connTimer = p.connTimer /\ d.idle = p.idle /\ d.holds = p.holds
        /\ d.rolling = p.rolling /\ d.warm = p.warm /\ d.attached = p.attached
        /\ d.idleTimer = p.idleTimer /\ d.ending = p.ending
    BY ZenonT(60), <1>3 DEF Dial, Good, PoolState
  <2>2. q = [d EXCEPT !.warm = @ \cup N]
    BY <1>4
  <2> HIDE DEF d
  <2> QED BY <1>3, <2>1, <2>2 DEF PoolState
<1>6. N \cap (p.dialing \cup p.rolling \cup p.connTimer) = {}
  BY <1>3 DEF Late
<1>7. Held(q) = Held(p) /\ Late(q) = Late(p)
  BY <1>3, <1>5, <1>6 DEF Held, Late
<1>8. Owners(q)
  BY <1>3, <1>5, <1>6, <1>7 DEF Good, Owners
<1>9. Marks(q)
  BY <1>3, <1>5, <1>6 DEF Good, Marks
<1>10. Bounds(q)
  <2>1. IsFiniteSet(N) /\ p.clients \cap N = {}
    BY <1>3, NamesAssumption, FS_Subset
  <2>2. Cardinality(q.clients) = Cardinality(p.clients) + k
    BY <2>1, <1>1, <1>3, <1>5, UnionSize
  <2> QED BY <2>2, <1>2, <1>5, <1>7 DEF Good, Bounds
<1> QED BY <1>5, <1>8, <1>9, <1>10 DEF Good, q

-----------------------------------------------------------------------------
(* Clients leave, are handed out and come back *)

\* Only the sets of waiting callers and queue timers tell p and Settle(p, R) apart.
LEMMA SettleGood ==
    ASSUME NEW p, Good(p), NEW R
    PROVE  Good(Settle(p, R)) /\ Settle(p, R).ending = p.ending
<1> DEFINE q == Settle(p, R)
<1>1. /\ q \in PoolState
      /\ q.clients = p.clients /\ q.dialing = p.dialing /\ q.rolling = p.rolling
      /\ q.connTimer = p.connTimer /\ q.idle = p.idle /\ q.holds = p.holds
      /\ q.warm = p.warm /\ q.attached = p.attached /\ q.idleTimer = p.idleTimer
      /\ q.ending = p.ending
  BY ZenonT(60) DEF Settle, Good, PoolState
<1> HIDE DEF q
<1>2. Held(q) = Held(p) /\ Late(q) = Late(p)
  BY <1>1 DEF Held, Late
<1>3. Owners(q) /\ Marks(q) /\ Bounds(q)
  BY <1>1, <1>2 DEF Good, Owners, Marks, Bounds
<1> QED BY <1>1, <1>3 DEF Good, q

\* What _remove leaves of the state.
LEMMA DropFields ==
    ASSUME NEW p \in PoolState, NEW C
    PROVE  /\ Drop(p, C) \in PoolState
           /\ Drop(p, C).clients = p.clients \ C
           /\ Drop(p, C).attached = p.attached \ C
           /\ Drop(p, C).dialing = p.dialing /\ Drop(p, C).rolling = p.rolling
           /\ Drop(p, C).connTimer = p.connTimer /\ Drop(p, C).idle = p.idle
           /\ Drop(p, C).holds = p.holds /\ Drop(p, C).warm = p.warm
           /\ Drop(p, C).idleTimer = p.idleTimer /\ Drop(p, C).ending = p.ending
<1> DEFINE q == Settle(p, {p.request[c] : c \in C})
           d == Drop(p, C)
<1>1. /\ q \in PoolState
      /\ q.clients = p.clients /\ q.dialing = p.dialing /\ q.rolling = p.rolling
      /\ q.connTimer = p.connTimer /\ q.idle = p.idle /\ q.holds = p.holds
      /\ q.warm = p.warm /\ q.attached = p.attached /\ q.idleTimer = p.idleTimer
      /\ q.ending = p.ending
  BY ZenonT(60) DEF Settle, PoolState
<1>2. d = [q EXCEPT
            !.clients = @ \ C,
            !.connecting = @ \ C,
            !.request = [c \in Clients |-> IF c \in C THEN None ELSE @[c]],
            !.uses = [c \in Clients |-> IF c \in C THEN 0 ELSE @[c]],
            !.lifeTimer = @ \ C,
            !.expired = @ \ C,
            !.attached = @ \ C,
            !.inTx = @ \ C]
  BY DEF Drop
<1> HIDE DEF q, d
<1>3. /\ d \in PoolState
      /\ d.clients = q.clients \ C /\ d.attached = q.attached \ C
      /\ d.dialing = q.dialing /\ d.rolling = q.rolling
      /\ d.connTimer = q.connTimer /\ d.idle = q.idle /\ d.holds = q.holds
      /\ d.warm = q.warm /\ d.idleTimer = q.idleTimer /\ d.ending = q.ending
  BY ZenonT(60), <1>1, <1>2 DEF PoolState
<1> QED BY <1>1, <1>3 DEF d

\* _remove keeps the invariant when its promise may still be late.
LEMMA RemoveClientGood ==
    ASSUME NEW p, Good(p), NEW c \in Clients,
           c \in p.clients /\ ~p.ending =>
                /\ c \notin p.warm
                /\ c \in p.dialing \cup p.rolling \cup p.connTimer
                        => Cardinality(Late(p)) < MaxLate
    PROVE  Good(RemoveClient(p, c))
<1> SUFFICES ASSUME c \in p.clients
             PROVE  Good(RemoveClient(p, c))
  BY DEF RemoveClient
<1> DEFINE d == Drop(p, {c})
           q == RemoveClient(p, c)
<1>1. /\ d \in PoolState
      /\ d.clients = p.clients \ {c} /\ d.attached = p.attached \ {c}
      /\ d.dialing = p.dialing /\ d.rolling = p.rolling
      /\ d.connTimer = p.connTimer /\ d.idle = p.idle /\ d.holds = p.holds
      /\ d.warm = p.warm /\ d.idleTimer = p.idleTimer /\ d.ending = p.ending
  BY DropFields DEF Good
<1>2. /\ p.idle \in Seq(Clients) /\ IsInjective(p.idle)
  BY ZenonT(60) DEF Good, Owners, PoolState
<1>3. /\ Without(p.idle, c) \in Seq(Clients) /\ IsInjective(Without(p.idle, c))
      /\ ToSet(Without(p.idle, c)) = ToSet(p.idle) \ {c}
  BY <1>2, WithoutElement
<1>4. q = [d EXCEPT !.idle = Without(@, c), !.idleTimer = @ \ {c}]
  BY DEF RemoveClient
<1> HIDE DEF d, q
<1>5. /\ q \in PoolState
      /\ q.clients = p.clients \ {c} /\ q.attached = p.attached \ {c}
      /\ q.dialing = p.dialing /\ q.rolling = p.rolling
      /\ q.connTimer = p.connTimer /\ q.holds = p.holds
      /\ q.warm = p.warm /\ q.ending = p.ending
      /\ q.idle = Without(p.idle, c) /\ q.idleTimer = p.idleTimer \ {c}
  BY ZenonT(60), <1>1, <1>3, <1>4 DEF PoolState
<1>6. Held(q) = Held(p)
  BY <1>5 DEF Held
<1>7. Owners(q)
  BY <1>3, <1>5, <1>6 DEF Good, Owners
<1>8. Marks(q)
  BY <1>3, <1>5 DEF Good, Marks
<1>9. Cardinality(q.clients) <= PoolMax
  <2>1. IsFiniteSet(p.clients) /\ q.clients \in SUBSET p.clients
    BY <1>5, NamesAssumption, FS_Subset DEF Good, PoolState
  <2>2. /\ Cardinality(q.clients) <= Cardinality(p.clients)
        /\ Cardinality(q.clients) \in Nat /\ Cardinality(p.clients) \in Nat
    BY <2>1, FS_Subset, FS_CardinalityType
  <2> QED BY <2>2, SizesAssumption DEF Good, Bounds
<1>10. ASSUME ~p.ending
       PROVE  Cardinality(Late(q)) <= MaxLate
  <2>1. IsFiniteSet(Late(p)) /\ Cardinality(Late(p)) \in Nat
    BY NamesAssumption, FS_Subset, FS_CardinalityType, Late(p) \in SUBSET Clients
       DEF Good, PoolState, Late
  <2>2. CASE c \in p.dialing \cup p.rolling \cup p.connTimer
    <3>1. Late(q) = Late(p) \cup {c}
      BY <2>2, <1>5 DEF Late
    <3>2. Cardinality(Late(q)) <= Cardinality(Late(p)) + 1
      BY <3>1, <2>1, FS_Singleton, UnionSize
    <3>3. Cardinality(Late(p)) < MaxLate
      BY <2>2, <1>10
    <3>4. Cardinality(Late(q)) \in Nat
      BY <3>1, <2>1, FS_Singleton, UnionSize
    <3> QED BY <3>2, <3>3, <3>4, <2>1, SizesAssumption
  <2>3. CASE c \notin p.dialing \cup p.rolling \cup p.connTimer
    <3>1. Late(q) = Late(p)
      BY <2>3, <1>5 DEF Late
    <3> QED BY <3>1, <1>10 DEF Good, Bounds
  <2> QED BY <2>2, <2>3
<1> QED BY <1>5, <1>7, <1>8, <1>9, <1>10 DEF Good, Bounds, q

\* Handing out a client that nobody owns keeps the invariant.
LEMMA AcquireGood ==
    ASSUME NEW p, Good(p), NEW r \in Callers, NEW c \in p.clients,
           c \notin ToSet(p.idle) \cup Held(p) \cup p.dialing \cup p.rolling
    PROVE  Good(Acquire(p, c, r))
<1> DEFINE s == Settle(p, {r})
           q == Acquire(p, c, r)
<1>1. /\ s \in PoolState
      /\ s.clients = p.clients /\ s.dialing = p.dialing /\ s.rolling = p.rolling
      /\ s.connTimer = p.connTimer /\ s.idle = p.idle /\ s.holds = p.holds
      /\ s.warm = p.warm /\ s.attached = p.attached /\ s.idleTimer = p.idleTimer
      /\ s.ending = p.ending
  BY ZenonT(60) DEF Settle, Good, PoolState
<1>2. q = [s EXCEPT !.holds[r] = c] /\ c \in Clients
  BY ZenonT(60) DEF Acquire, Good, PoolState
<1> HIDE DEF s, q
<1>3. /\ q \in PoolState
      /\ q.clients = p.clients /\ q.dialing = p.dialing /\ q.rolling = p.rolling
      /\ q.connTimer = p.connTimer /\ q.idle = p.idle
      /\ q.holds = [p.holds EXCEPT ![r] = c]
      /\ q.warm = p.warm /\ q.attached = p.attached /\ q.idleTimer = p.idleTimer
      /\ q.ending = p.ending
  BY ZenonT(60), <1>1, <1>2 DEF PoolState
<1>4. p.holds \in [Callers -> Clients \cup {None}]
  BY ZenonT(60) DEF Good, PoolState
<1>5. Late(q) = Late(p) /\ Held(q) \subseteq Held(p) \cup {c}
  BY <1>3, <1>4 DEF Held, Late
<1>6. \A a \in Callers : p.holds[a] # c
  <2>1. c # None
    BY <1>2, NamesAssumption
  <2> QED BY <2>1 DEF Held
<1>7. Owners(q)
  <2>1. \A a, b \in Callers : q.holds[a] = q.holds[b] /\ q.holds[a] # None => a = b
    BY <1>3, <1>4, <1>6 DEF Good, Owners
  <2> QED BY <2>1, <1>3, <1>5 DEF Good, Owners
<1>8. Marks(q) /\ Bounds(q)
  BY <1>3, <1>5 DEF Good, Marks, Bounds
<1> QED BY <1>3, <1>7, <1>8 DEF Good, q

\* _pulseQueue of an ending pool keeps the invariant.
LEMMA PulseEndingGood ==
    ASSUME NEW p, Good(p), p.ending
    PROVE  Good(PulseEnding(p))
<1> DEFINE C == (p.connecting \cap p.clients) \cup ToSet(p.idle)
           d == Drop(p, C)
           e == [d EXCEPT !.idle = <<>>, !.idleTimer = {}]
           q == PulseEnding(p)
<1> HIDE DEF C
<1>1. /\ d \in PoolState
      /\ d.clients = p.clients \ C /\ d.attached = p.attached \ C
      /\ d.dialing = p.dialing /\ d.rolling = p.rolling
      /\ d.connTimer = p.connTimer /\ d.idle = p.idle /\ d.holds = p.holds
      /\ d.warm = p.warm /\ d.idleTimer = p.idleTimer /\ d.ending = p.ending
  <2>1. p \in PoolState
    BY DEF Good
  <2> HIDE DEF e, q
  <2>2. \A S : /\ Drop(p, S) \in PoolState
               /\ Drop(p, S).clients = p.clients \ S
               /\ Drop(p, S).attached = p.attached \ S
               /\ Drop(p, S).dialing = p.dialing /\ Drop(p, S).rolling = p.rolling
               /\ Drop(p, S).connTimer = p.connTimer /\ Drop(p, S).idle = p.idle
               /\ Drop(p, S).holds = p.holds /\ Drop(p, S).warm = p.warm
               /\ Drop(p, S).idleTimer = p.idleTimer /\ Drop(p, S).ending = p.ending
    BY <2>1, DropFields
  <2> QED BY <2>2, Zenon
<1> HIDE DEF d
<1>2. /\ e \in PoolState
      /\ e.clients = p.clients \ C /\ e.attached = p.attached \ C
      /\ e.dialing = p.dialing /\ e.rolling = p.rolling
      /\ e.connTimer = p.connTimer /\ e.holds = p.holds
      /\ e.warm = p.warm /\ e.ending = p.ending
      /\ e.idle = <<>> /\ e.idleTimer = {}
  <2>1. <<>> \in Seq(Clients)
    OBVIOUS
  <2> QED BY <1>1, <2>1 DEF PoolState
<1>3. q = IF e.clients = {}
          THEN [e EXCEPT !.ended = TRUE, !.endWait = {}, !.endDone = @ \cup e.endWait]
          ELSE e
  BY DEF PulseEnding, C, d
<1> HIDE DEF e, q
<1>4. /\ q \in PoolState
      /\ q.clients = p.clients \ C /\ q.attached = p.attached \ C
      /\ q.dialing = p.dialing /\ q.rolling = p.rolling
      /\ q.connTimer = p.connTimer /\ q.holds = p.holds
      /\ q.warm = p.warm /\ q.ending = p.ending
      /\ q.idle = <<>> /\ q.idleTimer = {}
  BY ZenonT(60), <1>2, <1>3 DEF PoolState
<1>5. Held(q) = Held(p)
  BY <1>4 DEF Held
<1>6. ToSet(q.idle) = {} /\ IsInjective(q.idle)
  BY <1>4 DEF ToSet, IsInjective
<1>7. Owners(q) /\ Marks(q)
  BY <1>4, <1>5, <1>6 DEF Good, Owners, Marks
<1>8. Bounds(q)
  <2>1. IsFiniteSet(p.clients) /\ q.clients \in SUBSET p.clients
    BY <1>4, NamesAssumption, FS_Subset DEF Good, PoolState
  <2>2. /\ Cardinality(q.clients) <= Cardinality(p.clients)
        /\ Cardinality(q.clients) \in Nat /\ Cardinality(p.clients) \in Nat
    BY <2>1, FS_Subset, FS_CardinalityType
  <2> QED BY <2>2, <1>4, SizesAssumption DEF Good, Bounds
<1> QED BY <1>4, <1>7, <1>8 DEF Good, q

\* Serving the first queued request keeps the invariant.
LEMMA ServeNextGood ==
    ASSUME NEW p, Good(p), ~p.ending, CanServe(p)
    PROVE  Good(ServeNext(p))
<1> DEFINE r == Head(p.queue)
           q == [p EXCEPT !.queue = Tail(@)]
<1>1. r \in Callers /\ Tail(p.queue) \in Seq(Callers)
  BY DEF CanServe, Good, PoolState
<1>2. /\ q \in PoolState
      /\ q.clients = p.clients /\ q.dialing = p.dialing /\ q.rolling = p.rolling
      /\ q.connTimer = p.connTimer /\ q.idle = p.idle /\ q.holds = p.holds
      /\ q.warm = p.warm /\ q.attached = p.attached /\ q.idleTimer = p.idleTimer
      /\ q.ending = p.ending
  BY ZenonT(60), <1>1 DEF Good, PoolState
<1>3. ServeNext(p) =
        IF q.idle # <<>>
        THEN Acquire([q EXCEPT !.idle = Front(@), !.idleTimer = @ \ {Last(q.idle)}],
                     Last(q.idle), r)
        ELSE NewClient(q, r)
  BY DEF ServeNext
<1> HIDE DEF q, r
<1>4. Good(q)
  <2>1. Held(q) = Held(p) /\ Late(q) = Late(p)
    BY <1>2 DEF Held, Late
  <2> QED BY <1>2, <2>1 DEF Good, Owners, Marks, Bounds
<1>5. CASE q.idle # <<>>
  <2> DEFINE c == Last(q.idle)
             t == [q EXCEPT !.idle = Front(@), !.idleTimer = @ \ {c}]
  <2>1. /\ c \in ToSet(q.idle) /\ c \in Clients
        /\ Front(q.idle) \in Seq(Clients) /\ IsInjective(Front(q.idle))
        /\ ToSet(Front(q.idle)) = ToSet(q.idle) \ {c}
    BY <1>5, <1>4, PopStack DEF Good, Owners, PoolState
  <2> HIDE DEF c
  <2>2. /\ t \in PoolState
        /\ t.clients = q.clients /\ t.dialing = q.dialing /\ t.rolling = q.rolling
        /\ t.connTimer = q.connTimer /\ t.holds = q.holds
        /\ t.warm = q.warm /\ t.attached = q.attached /\ t.ending = q.ending
        /\ t.idle = Front(q.idle) /\ t.idleTimer = q.idleTimer \ {c}
    BY ZenonT(60), <2>1, <1>4 DEF Good, PoolState
  <2> HIDE DEF t
  <2>3. Held(t) = Held(q) /\ Late(t) = Late(q)
    BY <2>2 DEF Held, Late
  <2>4. Good(t)
    <3>1. Owners(t)
      BY <1>4, <2>1, <2>2, <2>3 DEF Good, Owners
    <3>2. Marks(t) /\ Bounds(t)
      BY <1>4, <2>1, <2>2, <2>3 DEF Good, Marks, Bounds
    <3> QED BY <2>2, <3>1, <3>2 DEF Good
  <2>5. c \in t.clients /\ c \notin ToSet(t.idle) \cup Held(t) \cup t.dialing \cup t.rolling
    BY <1>4, <2>1, <2>2, <2>3 DEF Good, Owners
  <2>6. Good(Acquire(t, c, r))
    BY <2>4, <2>5, <1>1, AcquireGood
  <2> QED BY <2>6, <1>3, <1>5 DEF t, c
<1>6. CASE q.idle = <<>>
  <2>1. ~Full(q) /\ ~q.ending
    BY <1>2, <1>6 DEF CanServe, Full
  <2> QED BY <2>1, <1>1, <1>3, <1>4, <1>6, NewClientGood
<1> QED BY <1>5, <1>6

\* _pulseQueue keeps the invariant.
LEMMA PulseGood ==
    ASSUME NEW p, Good(p)
    PROVE  Good(Pulse(p))
<1>1. p.ending \in BOOLEAN /\ p.ended \in BOOLEAN
  BY ZenonT(60) DEF Good, PoolState
<1>2. CASE p.ended
  BY <1>2 DEF Pulse
<1>3. CASE ~p.ended /\ p.ending
  BY <1>3, PulseEndingGood DEF Pulse
<1>4. CASE ~p.ended /\ ~p.ending /\ CanServe(p)
  BY <1>4, ServeNextGood DEF Pulse
<1>5. CASE ~p.ended /\ ~p.ending /\ ~CanServe(p)
  BY <1>5 DEF Pulse
<1> QED BY <1>1, <1>2, <1>3, <1>4, <1>5

\* _ensureMinIdle followed by _pulseQueue keeps the invariant.
LEMMA RefillGood ==
    ASSUME NEW p, Good(p)
    PROVE  Good(Refill(p))
  BY EnsureMinIdleGood, PulseGood DEF Refill

\* _pushIdle of a client that nobody owns keeps the invariant.
LEMMA PushIdleGood ==
    ASSUME NEW p, Good(p), NEW c \in p.clients,
           c \notin ToSet(p.idle) \cup Held(p) \cup p.dialing \cup p.rolling
    PROVE  Good(PushIdle(p, c))
<1> DEFINE q == [p EXCEPT
                    !.idle = Append(@, c),
                    !.idleTimer = IF IdleTimeout /\ AboveMin(p) THEN @ \cup {c} ELSE @]
<1>1. /\ c \in Clients /\ p.idle \in Seq(Clients) /\ IsInjective(p.idle)
  BY ZenonT(60) DEF Good, Owners, PoolState
<1>2. /\ Append(p.idle, c) \in Seq(Clients) /\ IsInjective(Append(p.idle, c))
      /\ ToSet(Append(p.idle, c)) = ToSet(p.idle) \cup {c}
  BY <1>1, PushStack
<1>3. /\ q \in PoolState
      /\ q.clients = p.clients /\ q.dialing = p.dialing /\ q.rolling = p.rolling
      /\ q.connTimer = p.connTimer /\ q.holds = p.holds
      /\ q.warm = p.warm /\ q.attached = p.attached /\ q.ending = p.ending
      /\ q.idle = Append(p.idle, c) /\ q.idleTimer \in {p.idleTimer, p.idleTimer \cup {c}}
  BY ZenonT(60), <1>1, <1>2 DEF Good, PoolState
<1> HIDE DEF q
<1>4. Held(q) = Held(p) /\ Late(q) = Late(p)
  BY <1>3 DEF Held, Late
<1>5. Owners(q)
  BY <1>2, <1>3, <1>4 DEF Good, Owners
<1>6. Marks(q) /\ Bounds(q)
  BY <1>2, <1>3, <1>4 DEF Good, Marks, Bounds
<1>7. Good(q)
  BY <1>3, <1>5, <1>6 DEF Good
<1> QED BY <1>7, PulseGood DEF PushIdle, q

\* The invariant reads some fields of the state only.
SameOwners(p, q) ==
    /\ q.clients = p.clients /\ q.dialing = p.dialing /\ q.rolling = p.rolling
    /\ q.connTimer = p.connTimer /\ q.idle = p.idle /\ q.holds = p.holds
    /\ q.warm = p.warm /\ q.attached = p.attached /\ q.idleTimer = p.idleTimer
    /\ q.ending = p.ending

\* A step that leaves those fields alone keeps the invariant.
LEMMA SameGood ==
    ASSUME NEW p, Good(p), NEW q \in PoolState, SameOwners(p, q)
    PROVE  Good(q)
<1>1. Held(q) = Held(p) /\ Late(q) = Late(p)
  BY DEF SameOwners, Held, Late
<1> QED BY <1>1 DEF SameOwners, Good, Owners, Marks, Bounds

\* A caller gives its client back: nobody owns the client for a moment.
LEMMA HandBack ==
    ASSUME NEW p, Good(p), NEW r \in Callers, p.holds[r] # None,
           NEW q, q = [p EXCEPT !.holds[r] = None]
    PROVE  /\ Good(q) /\ q.clients = p.clients /\ q.ending = p.ending
           /\ p.holds[r] \in Clients
           /\ p.holds[r] \notin ToSet(q.idle) \cup Held(q) \cup q.dialing \cup q.rolling
<1>1. p.holds \in [Callers -> Clients \cup {None}] /\ p.holds[r] \in Held(p)
  BY ZenonT(60) DEF Good, PoolState, Held
<1>2. /\ q \in PoolState
      /\ q.clients = p.clients /\ q.dialing = p.dialing /\ q.rolling = p.rolling
      /\ q.connTimer = p.connTimer /\ q.idle = p.idle
      /\ q.holds = [p.holds EXCEPT ![r] = None]
      /\ q.warm = p.warm /\ q.attached = p.attached /\ q.idleTimer = p.idleTimer
      /\ q.ending = p.ending
  BY ZenonT(60) DEF Good, PoolState
<1>3. Late(q) = Late(p)
  BY <1>2 DEF Late
<1>4. Held(q) \subseteq Held(p) /\ p.holds[r] \notin Held(q)
  BY <1>1, <1>2 DEF Held, Good, Owners
<1>5. Owners(q)
  <2>1. \A a, b \in Callers : q.holds[a] = q.holds[b] /\ q.holds[a] # None => a = b
    BY <1>1, <1>2 DEF Good, Owners
  <2> QED BY <2>1, <1>2, <1>4 DEF Good, Owners
<1>6. Marks(q) /\ Bounds(q)
  BY <1>2, <1>3 DEF Good, Marks, Bounds
<1> QED BY <1>1, <1>2, <1>4, <1>5, <1>6 DEF Good, Owners

\* _release of a client that nobody owns any more keeps the invariant.
LEMMA ReleaseKnownGood ==
    ASSUME NEW p, Good(p), NEW c \in p.clients, NEW err \in BOOLEAN,
           c \notin ToSet(p.idle) \cup Held(p) \cup p.dialing \cup p.rolling
    PROVE  Good(ReleaseKnown(p, c, err))
<1> DEFINE used == p.uses[c] + 1
           gone == err \/ p.ending \/ (MaxUses # 0 /\ used >= MaxUses) \/ c \in p.expired
           q == [p EXCEPT !.uses[c] = IF MaxUses = 0 THEN 0 ELSE used]
<1>1. c \in Clients /\ used \in Nat
  BY DEF Good, PoolState
<1>2. q \in PoolState /\ SameOwners(p, q)
  BY ZenonT(60), <1>1 DEF Good, PoolState, SameOwners
<1>3. /\ gone => ReleaseKnown(p, c, err) = Refill(RemoveClient(q, c))
      /\ ~gone => ReleaseKnown(p, c, err) =
            IF RollbackOnRelease /\ c \in p.inTx
            THEN [q EXCEPT !.rolling = @ \cup {c}]
            ELSE PushIdle(q, c)
  BY DEF ReleaseKnown
<1> HIDE DEF q, gone, used
<1>4. Good(q)
  BY <1>2, SameGood
<1>5. c \in q.clients /\ c \notin ToSet(q.idle) \cup Held(q) \cup q.dialing \cup q.rolling
  BY <1>2 DEF SameOwners, Held
<1>6. CASE gone
  <2>1. c \notin q.warm /\ c \notin q.dialing \cup q.rolling \cup q.connTimer
    BY <1>4, <1>5 DEF Good, Marks
  <2> QED BY <2>1, <1>1, <1>3, <1>4, <1>6, RemoveClientGood, RefillGood
<1>7. CASE ~gone /\ RollbackOnRelease /\ c \in p.inTx
  <2> DEFINE t == [q EXCEPT !.rolling = @ \cup {c}]
  <2>1. /\ t \in PoolState
        /\ t.clients = q.clients /\ t.dialing = q.dialing
        /\ t.rolling = q.rolling \cup {c}
        /\ t.connTimer = q.connTimer /\ t.idle = q.idle /\ t.holds = q.holds
        /\ t.warm = q.warm /\ t.attached = q.attached /\ t.idleTimer = q.idleTimer
        /\ t.ending = q.ending
    BY ZenonT(60), <1>1, <1>4 DEF Good, PoolState
  <2> HIDE DEF t
  <2>2. Held(t) = Held(q) /\ Late(t) = Late(q)
    BY <2>1, <1>5 DEF Held, Late
  <2>3. Owners(t) /\ Marks(t) /\ Bounds(t)
    BY <2>1, <2>2, <1>4, <1>5 DEF Good, Owners, Marks, Bounds
  <2> QED BY <2>1, <2>3, <1>3, <1>7 DEF Good, t
<1>8. CASE ~gone /\ ~(RollbackOnRelease /\ c \in p.inTx)
  BY <1>3, <1>4, <1>5, <1>8, PushIdleGood
<1> QED BY <1>6, <1>7, <1>8

\* A warm client that has connected: one the pool still knows, unless it is ending.
LEMMA WarmReadyGood ==
    ASSUME NEW p, Good(p), NEW c \in Clients, c \in p.dialing, c \in p.warm
    PROVE  Good(WarmReady(p, c))
<1> DEFINE q == [p EXCEPT !.dialing = @ \ {c}, !.connecting = @ \ {c}, !.warm = @ \ {c}]
           t == [q EXCEPT !.attached = @ \cup {c}, !.idle = Append(@, c)]
<1>1. /\ q \in PoolState
      /\ q.clients = p.clients /\ q.dialing = p.dialing \ {c} /\ q.rolling = p.rolling
      /\ q.connTimer = p.connTimer /\ q.idle = p.idle /\ q.holds = p.holds
      /\ q.warm = p.warm \ {c} /\ q.attached = p.attached /\ q.idleTimer = p.idleTimer
      /\ q.ending = p.ending /\ q.ended = p.ended
  BY ZenonT(60) DEF Good, PoolState
<1>2. WarmReady(p, c) =
        IF p.ending \/ p.ended THEN RemoveClient(q, c) ELSE Pulse(t)
  BY DEF WarmReady
<1> HIDE DEF q
<1>3. Held(q) = Held(p) /\ Late(q) \subseteq Late(p) /\ (~p.ending => Late(q) = Late(p))
  BY <1>1 DEF Held, Late, Good, Marks
<1>4. c \notin p.connTimer /\ c \notin p.rolling /\ c \notin Held(p) /\ c \notin ToSet(p.idle)
  BY DEF Good, Marks, Owners
<1>5. Good(q)
  <2>1. Owners(q) /\ Marks(q)
    BY <1>1, <1>3, <1>4 DEF Good, Owners, Marks
  <2>2. Bounds(q)
    BY <1>1, <1>3 DEF Good, Bounds
  <2> QED BY <1>1, <2>1, <2>2 DEF Good
<1>6. CASE p.ending
  <2>1. Good(RemoveClient(q, c))
    BY <1>1, <1>5, <1>6, RemoveClientGood
  <2> QED BY <2>1, <1>2, <1>6
<1>7. CASE p.ended /\ ~p.ending
  <2>1. c \notin q.warm /\ c \notin q.dialing \cup q.rolling \cup q.connTimer
    BY <1>1, <1>4
  <2> QED BY <2>1, <1>2, <1>5, <1>7, RemoveClientGood
<1>8. CASE ~p.ended /\ ~p.ending
  <2>1. c \in p.clients
    BY <1>8 DEF Good, Marks
  <2>2. /\ Append(q.idle, c) \in Seq(Clients) /\ IsInjective(Append(q.idle, c))
        /\ ToSet(Append(q.idle, c)) = ToSet(q.idle) \cup {c}
    BY <1>1, <1>4, <1>5, PushStack DEF Good, Owners, PoolState
  <2>3. /\ t \in PoolState
        /\ t.clients = q.clients /\ t.dialing = q.dialing /\ t.rolling = q.rolling
        /\ t.connTimer = q.connTimer /\ t.idle = Append(q.idle, c) /\ t.holds = q.holds
        /\ t.warm = q.warm /\ t.attached = q.attached \cup {c}
        /\ t.idleTimer = q.idleTimer /\ t.ending = q.ending
    BY ZenonT(60), <1>5, <2>2 DEF Good, PoolState
  <2> HIDE DEF t
  <2>4. Held(t) = Held(q) /\ Late(t) = Late(q)
    BY <2>3 DEF Held, Late
  <2>5. Owners(t)
    BY <1>1, <1>3, <1>4, <1>5, <2>1, <2>2, <2>3, <2>4 DEF Good, Owners
  <2>6. Marks(t) /\ Bounds(t)
    BY <1>1, <1>5, <2>1, <2>2, <2>3, <2>4 DEF Good, Marks, Bounds
  <2>7. Good(t)
    BY <2>3, <2>5, <2>6 DEF Good
  <2> QED BY <2>7, <1>2, <1>8, PulseGood
<1> QED BY <1>6, <1>7, <1>8

\* A client whose connect() has failed leaves the pool.
LEMMA ForgetGood ==
    ASSUME NEW p, Good(p), NEW c \in Clients, c \in p.dialing, NEW q \in PoolState,
           q.clients = p.clients \ {c}, q.dialing = p.dialing \ {c},
           q.warm = p.warm \ {c}, q.connTimer = p.connTimer \ {c},
           q.rolling = p.rolling, q.idle = p.idle, q.holds = p.holds,
           q.attached = p.attached, q.idleTimer = p.idleTimer, q.ending = p.ending
    PROVE  Good(q)
<1>1. /\ c \notin p.rolling /\ c \notin Held(p) /\ c \notin ToSet(p.idle)
      /\ c \notin p.attached
  BY DEF Good, Owners, Marks
<1>2. Held(q) = Held(p) /\ Late(q) \subseteq Late(p)
  BY <1>1 DEF Held, Late
<1>3. Owners(q) /\ Marks(q)
  BY <1>1, <1>2 DEF Good, Owners, Marks
<1>4. Bounds(q)
  <2>1. /\ IsFiniteSet(p.clients) /\ q.clients \in SUBSET p.clients
        /\ IsFiniteSet(Late(p)) /\ Late(q) \in SUBSET Late(p)
    BY <1>2, NamesAssumption, FS_Subset, Late(p) \in SUBSET Clients
       DEF Good, PoolState, Late
  <2>2. /\ Cardinality(q.clients) <= Cardinality(p.clients)
        /\ Cardinality(q.clients) \in Nat /\ Cardinality(p.clients) \in Nat
        /\ Cardinality(Late(q)) <= Cardinality(Late(p))
        /\ Cardinality(Late(q)) \in Nat /\ Cardinality(Late(p)) \in Nat
    BY <2>1, FS_Subset, FS_CardinalityType
  <2> QED BY <2>2, SizesAssumption DEF Good, Bounds
<1> QED BY <1>3, <1>4 DEF Good

\* A warm client that has failed to connect leaves the pool.
LEMMA WarmFailedGood ==
    ASSUME NEW p, Good(p), NEW c \in Clients, c \in p.dialing, c \in p.warm
    PROVE  Good(WarmFailed(p, c))
<1> DEFINE q == [p EXCEPT !.dialing = @ \ {c}, !.connecting = @ \ {c},
                          !.warm = @ \ {c}, !.clients = @ \ {c}]
<1>1. c \notin p.connTimer
  BY DEF Good, Marks
<1>2. /\ q \in PoolState
      /\ q.clients = p.clients \ {c} /\ q.dialing = p.dialing \ {c}
      /\ q.warm = p.warm \ {c} /\ q.connTimer = p.connTimer \ {c}
      /\ q.rolling = p.rolling /\ q.idle = p.idle /\ q.holds = p.holds
      /\ q.attached = p.attached /\ q.idleTimer = p.idleTimer /\ q.ending = p.ending
  BY ZenonT(60), <1>1 DEF Good, PoolState
<1> HIDE DEF q
<1>3. Good(q)
  BY <1>2, ForgetGood
<1> QED BY <1>3, PulseGood DEF WarmFailed, q

\* connect() has settled: the client is no longer dialling.
LEMMA DialledGood ==
    ASSUME NEW p, Good(p), NEW c \in Clients, c \in p.dialing, c \notin p.warm,
           NEW q, q = Dialled(p, c)
    PROVE  /\ Good(q) /\ q.clients = p.clients /\ q.ending = p.ending
           /\ q.warm = p.warm
           /\ c \notin ToSet(q.idle) \cup Held(q) \cup q.dialing \cup q.rolling \cup q.connTimer
<1>1. /\ q \in PoolState
      /\ q.clients = p.clients /\ q.dialing = p.dialing \ {c} /\ q.rolling = p.rolling
      /\ q.connTimer = p.connTimer \ {c} /\ q.idle = p.idle /\ q.holds = p.holds
      /\ q.warm = p.warm /\ q.attached = p.attached /\ q.idleTimer = p.idleTimer
      /\ q.ending = p.ending
  BY ZenonT(60) DEF Dialled, Good, PoolState
<1>2. c \notin p.rolling /\ c \notin Held(p) /\ c \notin ToSet(p.idle)
  BY DEF Good, Owners
<1>3. Held(q) = Held(p) /\ Late(q) \subseteq Late(p)
  BY <1>1 DEF Held, Late
<1>4. Owners(q) /\ Marks(q)
  BY <1>1, <1>3 DEF Good, Owners, Marks
<1>5. Bounds(q)
  <2>1. IsFiniteSet(Late(p)) /\ Late(q) \in SUBSET Late(p)
    BY <1>3, NamesAssumption, FS_Subset, Late(p) \in SUBSET Clients
       DEF Good, PoolState, Late
  <2>2. /\ Cardinality(Late(q)) <= Cardinality(Late(p))
        /\ Cardinality(Late(q)) \in Nat /\ Cardinality(Late(p)) \in Nat
    BY <2>1, FS_Subset, FS_CardinalityType
  <2> QED BY <2>2, <1>1, SizesAssumption DEF Good, Bounds
<1> QED BY <1>1, <1>2, <1>3, <1>4, <1>5 DEF Good

\* A client opened for a request has connected: handed out only if still known.
LEMMA NewReadyGood ==
    ASSUME NEW p, Good(p), NEW c \in Clients, c \in p.dialing, c \notin p.warm
    PROVE  Good(NewReady(p, c))
<1> DEFINE r == p.request[c]
           q == Dialled(p, c)
           t == [q EXCEPT !.attached = @ \cup {c},
                          !.lifeTimer = IF MaxLifetime THEN @ \cup {c} ELSE @]
<1>1. /\ Good(q) /\ q.clients = p.clients /\ q.ending = p.ending
      /\ q.warm = p.warm
      /\ c \notin ToSet(q.idle) \cup Held(q) \cup q.dialing \cup q.rolling \cup q.connTimer
  BY DialledGood
<1>2. r \in Callers \cup {None}
  BY ZenonT(60) DEF Good, PoolState
<1>3. /\ c \notin p.clients \/ r = None => NewReady(p, c) = Settle(q, {r})
      /\ c \in p.clients /\ r # None /\ p.ending =>
            NewReady(p, c) = Pulse(RemoveClient(Settle(q, {r}), c))
      /\ c \in p.clients /\ r # None /\ ~p.ending => NewReady(p, c) = Acquire(t, c, r)
  BY DEF NewReady
<1> HIDE DEF q, r
<1>4. CASE c \notin p.clients \/ r = None
  BY <1>1, <1>3, <1>4, SettleGood
<1>5. CASE c \in p.clients /\ r # None /\ p.ending
  <2>1. Good(Settle(q, {r})) /\ Settle(q, {r}).ending
    BY <1>1, <1>5, SettleGood
  <2>2. Good(RemoveClient(Settle(q, {r}), c))
    BY <2>1, RemoveClientGood
  <2> QED BY <2>2, <1>3, <1>5, PulseGood
<1>6. CASE c \in p.clients /\ r # None /\ ~p.ending
  <2>1. /\ t \in PoolState
        /\ t.clients = q.clients /\ t.dialing = q.dialing /\ t.rolling = q.rolling
        /\ t.connTimer = q.connTimer /\ t.idle = q.idle /\ t.holds = q.holds
        /\ t.warm = q.warm /\ t.attached = q.attached \cup {c}
        /\ t.idleTimer = q.idleTimer /\ t.ending = q.ending
    BY ZenonT(60), <1>1 DEF Good, PoolState
  <2> HIDE DEF t
  <2>2. Held(t) = Held(q) /\ Late(t) = Late(q)
    BY <2>1 DEF Held, Late
  <2>3. Good(t)
    BY <1>1, <1>6, <2>1, <2>2 DEF Good, Owners, Marks, Bounds
  <2>4. c \in t.clients /\ c \notin ToSet(t.idle) \cup Held(t) \cup t.dialing \cup t.rolling
    BY <1>1, <1>6, <2>1, <2>2
  <2> QED BY <2>3, <2>4, <1>2, <1>3, <1>6, AcquireGood
<1> QED BY <1>4, <1>5, <1>6 DEF Good, PoolState

\* A client opened for a request has failed to connect.
LEMMA NewFailedGood ==
    ASSUME NEW p, Good(p), NEW c \in Clients, c \in p.dialing, c \notin p.warm
    PROVE  Good(NewFailed(p, c))
<1> DEFINE q == Dialled(p, c)
           t == [q EXCEPT !.clients = @ \ {c}]
<1>1. /\ q \in PoolState
      /\ q.clients = p.clients /\ q.dialing = p.dialing \ {c} /\ q.rolling = p.rolling
      /\ q.connTimer = p.connTimer \ {c} /\ q.idle = p.idle /\ q.holds = p.holds
      /\ q.warm = p.warm /\ q.attached = p.attached /\ q.idleTimer = p.idleTimer
      /\ q.ending = p.ending
  BY ZenonT(60) DEF Dialled, Good, PoolState
<1>2. NewFailed(p, c) = Settle(Pulse(t), {p.request[c]})
  BY DEF NewFailed
<1> HIDE DEF q
<1>3. /\ t \in PoolState
      /\ t.clients = p.clients \ {c} /\ t.dialing = p.dialing \ {c}
      /\ t.warm = p.warm \ {c} /\ t.connTimer = p.connTimer \ {c}
      /\ t.rolling = p.rolling /\ t.idle = p.idle /\ t.holds = p.holds
      /\ t.attached = p.attached /\ t.idleTimer = p.idleTimer /\ t.ending = p.ending
  BY ZenonT(60), <1>1 DEF PoolState
<1> HIDE DEF t
<1>4. Good(t)
  BY <1>3, ForgetGood
<1>5. Good(Pulse(t))
  BY <1>4, PulseGood
<1> QED BY <1>5, <1>2, SettleGood

-----------------------------------------------------------------------------
(* The actions *)

\* The invariant holds of a new pool.
LEMMA InitGood ==
    ASSUME Init
    PROVE  Good(pool)
<1>1. /\ pool.clients = {} /\ pool.idle = <<>> /\ pool.dialing = {} /\ pool.rolling = {}
      /\ pool.connTimer = {} /\ pool.warm = {} /\ pool.attached = {}
      /\ pool.idleTimer = {} /\ pool.holds = [r \in Callers |-> None]
  BY DEF Init
<1>2. pool \in PoolState
  <2>1. <<>> \in Seq(Clients) /\ <<>> \in Seq(Callers)
    OBVIOUS
  <2> QED BY <2>1 DEF Init, PoolState
<1>3. ToSet(pool.idle) = {} /\ IsInjective(pool.idle) /\ Held(pool) = {} /\ Late(pool) = {}
  BY <1>1 DEF ToSet, IsInjective, Held, Late
<1>4. Owners(pool) /\ Marks(pool)
  BY <1>1, <1>3 DEF Owners, Marks
<1>5. Bounds(pool)
  BY <1>1, <1>3, FS_EmptySet, SizesAssumption DEF Bounds
<1> QED BY <1>2, <1>4, <1>5 DEF Good

\* A caller that starts to wait does not touch the clients.
LEMMA AskedGood ==
    ASSUME Good(pool), NEW r \in Callers
    PROVE  /\ Good(Asked(r)) /\ SameOwners(pool, Asked(r))
           /\ Asked(r).queue = pool.queue /\ Asked(r).ticks = pool.ticks
<1>1. /\ Asked(r) \in PoolState /\ SameOwners(pool, Asked(r))
      /\ Asked(r).queue = pool.queue /\ Asked(r).ticks = pool.ticks
  BY ZenonT(60) DEF Asked, SameOwners, Good, PoolState
<1> QED BY <1>1, SameGood

\* The three branches of connect().
LEMMA ConnectGood ==
    ASSUME Good(pool), NEW r \in Callers,
           ConnectIdle(r) \/ ConnectNew(r) \/ ConnectQueued(r)
    PROVE  Good(pool')
<1> DEFINE a == Asked(r)
<1>1. Good(a) /\ SameOwners(pool, a) /\ a \in PoolState
  BY AskedGood DEF Good
<1>2. CASE ConnectIdle(r)
  <2>1. pool' = [a EXCEPT !.queue = Append(@, r), !.ticks = @ + 1]
    BY <1>2 DEF ConnectIdle
  <2> HIDE DEF a
  <2>2. Append(a.queue, r) \in Seq(Callers)
    BY <1>1 DEF PoolState
  <2>3. pool' \in PoolState /\ SameOwners(a, pool')
    <3> DEFINE n == a.ticks + 1
               Q == Append(a.queue, r)
    <3>1. n \in Nat /\ Q \in Seq(Callers)
      BY <2>2, <1>1 DEF PoolState
    <3>2. pool' = [a EXCEPT !.queue = Q, !.ticks = n]
      BY <2>1
    <3> HIDE DEF n, Q
    <3> QED BY <3>1, <3>2, <1>1 DEF PoolState, SameOwners
  <2> QED BY <2>3, <1>1, SameGood
<1>3. CASE ConnectNew(r)
  <2>1. pool' = NewClient(a, r) /\ ~Full(pool) /\ ~pool.ending
    BY <1>3 DEF ConnectNew, CanConnect
  <2> HIDE DEF a
  <2>2. ~Full(a) /\ ~a.ending
    BY <2>1, <1>1 DEF Full, SameOwners
  <2> QED BY <2>1, <2>2, <1>1, NewClientGood
<1>4. CASE ConnectQueued(r)
  <2>1. pool' = [a EXCEPT !.queue = Append(@, r),
                          !.queueTimer = IF ConnectionTimeout THEN @ \cup {r} ELSE @]
    BY <1>4 DEF ConnectQueued
  <2> HIDE DEF a
  <2>2. Append(a.queue, r) \in Seq(Callers)
    BY <1>1 DEF PoolState
  <2>3. pool' \in PoolState /\ SameOwners(a, pool')
    <3> DEFINE T == IF ConnectionTimeout THEN a.queueTimer \cup {r} ELSE a.queueTimer
               Q == Append(a.queue, r)
    <3>1. T \in SUBSET Callers /\ Q \in Seq(Callers)
      BY ZenonT(60), <2>2, <1>1 DEF PoolState
    <3>2. pool' = [a EXCEPT !.queue = Q, !.queueTimer = T]
      BY <2>1
    <3> HIDE DEF T, Q
    <3> QED BY <3>1, <3>2, <1>1 DEF PoolState, SameOwners
  <2> QED BY <2>3, <1>1, SameGood
<1> QED BY <1>2, <1>3, <1>4

\* Statements of the holder.
LEMMA UseClientGood ==
    ASSUME Good(pool), NEW r \in Callers, UseClient(r)
    PROVE  Good(pool')
<1>1. pool' \in PoolState /\ SameOwners(pool, pool')
  BY ZenonT(60) DEF UseClient, SameOwners, Good, PoolState
<1> QED BY <1>1, SameGood

\* The release function of a checkout.
LEMMA ReleaseGood ==
    ASSUME Good(pool), NEW r \in Callers, NEW err \in BOOLEAN, Release(r, err)
    PROVE  Good(pool')
<1> DEFINE c == pool.holds[r]
           p == [pool EXCEPT !.holds[r] = None]
<1>1. /\ c # None
      /\ pool' = IF c \in pool.clients THEN ReleaseKnown(p, c, err) ELSE p
  BY DEF Release
<1>2. /\ Good(p) /\ p.clients = pool.clients
      /\ c \notin ToSet(p.idle) \cup Held(p) \cup p.dialing \cup p.rolling
  BY <1>1, HandBack
<1> HIDE DEF c, p
<1> QED BY <1>1, <1>2, ReleaseKnownGood

\* end() of an open, an ending and an ended pool.
LEMMA EndGood ==
    ASSUME Good(pool), NEW e \in Enders, End(e)
    PROVE  Good(pool')
<1>0. pool.ended \in BOOLEAN /\ pool.ending \in BOOLEAN
  BY ZenonT(60) DEF Good, PoolState
<1>1. CASE pool.ended
  <2>1. pool' = [pool EXCEPT !.endDone = @ \cup {e}]
    BY <1>1 DEF End
  <2>2. pool' \in PoolState /\ SameOwners(pool, pool')
    BY ZenonT(60), <2>1 DEF SameOwners, Good, PoolState
  <2> QED BY <2>2, SameGood
<1>2. CASE ~pool.ended /\ pool.ending
  <2>1. pool' = [pool EXCEPT !.endWait = @ \cup {e}]
    BY <1>2 DEF End
  <2>2. pool' \in PoolState /\ SameOwners(pool, pool')
    BY ZenonT(60), <2>1 DEF SameOwners, Good, PoolState
  <2> QED BY <2>2, SameGood
<1>3. CASE ~pool.ended /\ ~pool.ending
  <2> DEFINE s == Settle(pool, ToSet(pool.queue))
             q == [s EXCEPT !.ending = TRUE, !.queue = <<>>, !.endWait = {e}]
  <2>1. pool' = Pulse(q)
    BY <1>3 DEF End
  <2>2. Good(s)
    BY SettleGood
  <2> HIDE DEF s
  <2>3. /\ q \in PoolState
        /\ q.clients = s.clients /\ q.dialing = s.dialing /\ q.rolling = s.rolling
        /\ q.connTimer = s.connTimer /\ q.idle = s.idle /\ q.holds = s.holds
        /\ q.warm = s.warm /\ q.attached = s.attached /\ q.idleTimer = s.idleTimer
        /\ q.ending = TRUE
    <3>1. <<>> \in Seq(Callers)
      OBVIOUS
    <3> QED BY <3>1, <2>2 DEF Good, PoolState
  <2> HIDE DEF q
  <2>4. Good(q)
    BY <2>2, <2>3 DEF Good, Owners, Marks, Bounds, Held
  <2> QED BY <2>1, <2>4, PulseGood
<1> QED BY <1>0, <1>1, <1>2, <1>3

\* The nextTick callbacks.
LEMMA TickGood ==
    ASSUME Good(pool), Boot \/ Tick
    PROVE  Good(pool')
<1>1. CASE Boot
  <2> DEFINE q == [pool EXCEPT !.boot = FALSE]
  <2>1. pool' = EnsureMinIdle(q)
    BY <1>1 DEF Boot
  <2>2. q \in PoolState /\ SameOwners(pool, q)
    BY ZenonT(60) DEF Good, PoolState, SameOwners
  <2> HIDE DEF q
  <2> QED BY <2>1, <2>2, SameGood, EnsureMinIdleGood
<1>2. CASE Tick
  <2> DEFINE q == [pool EXCEPT !.ticks = @ - 1]
  <2>1. pool' = Pulse(q) /\ pool.ticks > 0
    BY <1>2 DEF Tick
  <2>2. q \in PoolState /\ SameOwners(pool, q)
    <3>1. pool.ticks - 1 \in Nat
      BY <2>1 DEF Good, PoolState
    <3> QED BY <3>1 DEF Good, PoolState, SameOwners
  <2> HIDE DEF q
  <2> QED BY <2>1, <2>2, SameGood, PulseGood
<1> QED BY <1>1, <1>2

\* A promise of client.connect() settles.
LEMMA ConnectSettlesGood ==
    ASSUME Good(pool), NEW c \in Clients, ConnectSucceeds(c) \/ ConnectFails(c)
    PROVE  Good(pool')
<1>1. c \in pool.dialing
  BY DEF ConnectSucceeds, ConnectFails
<1>2. CASE ConnectSucceeds(c)
  <2>1. pool' = IF c \in pool.warm THEN WarmReady(pool, c) ELSE NewReady(pool, c)
    BY <1>2 DEF ConnectSucceeds
  <2> QED BY <1>1, <2>1, WarmReadyGood, NewReadyGood
<1>3. CASE ConnectFails(c)
  <2>1. pool' = IF c \in pool.warm THEN WarmFailed(pool, c) ELSE NewFailed(pool, c)
    BY <1>3 DEF ConnectFails
  <2> QED BY <1>1, <2>1, WarmFailedGood, NewFailedGood
<1> QED BY <1>2, <1>3

\* Fewer promises and timers only make the late clients fewer.
LEMMA FewerPromises ==
    ASSUME NEW p, Good(p), NEW c \in Clients, NEW q \in PoolState,
           q.clients = p.clients, q.idle = p.idle, q.holds = p.holds,
           q.attached = p.attached, q.idleTimer = p.idleTimer, q.ending = p.ending,
           q.rolling \in {p.rolling, p.rolling \ {c}},
           q.connTimer \in {p.connTimer, p.connTimer \ {c}},
           \/ q.dialing = p.dialing /\ q.warm = p.warm
           \/ /\ q.dialing = p.dialing \ {c} /\ q.warm = p.warm \ {c}
              /\ c \notin p.clients
    PROVE  Good(q)
<1>1. Held(q) = Held(p) /\ Late(q) \subseteq Late(p)
  BY DEF Held, Late
<1>2. Owners(q)
  BY <1>1 DEF Good, Owners
<1>3. Marks(q)
  BY DEF Good, Marks
<1>4. Bounds(q)
  <2>1. IsFiniteSet(Late(p)) /\ Late(q) \in SUBSET Late(p)
    BY <1>1, NamesAssumption, FS_Subset, Late(p) \in SUBSET Clients
       DEF Good, PoolState, Late
  <2>2. /\ Cardinality(Late(q)) <= Cardinality(Late(p))
        /\ Cardinality(Late(q)) \in Nat /\ Cardinality(Late(p)) \in Nat
    BY <2>1, FS_Subset, FS_CardinalityType
  <2> QED BY <2>2, SizesAssumption DEF Good, Bounds
<1> QED BY <1>2, <1>3, <1>4 DEF Good

\* A removed client whose promise never settles.
LEMMA LateForgottenGood ==
    ASSUME Good(pool), NEW c \in Clients, LateForgotten(c)
    PROVE  Good(pool')
<1>1. /\ pool' = [pool EXCEPT !.dialing = @ \ {c}, !.warm = @ \ {c}]
      /\ c \notin pool.clients
  BY DEF LateForgotten
<1>2. /\ pool' \in PoolState
      /\ pool'.clients = pool.clients /\ pool'.dialing = pool.dialing \ {c}
      /\ pool'.rolling = pool.rolling /\ pool'.connTimer = pool.connTimer
      /\ pool'.idle = pool.idle /\ pool'.holds = pool.holds
      /\ pool'.warm = pool.warm \ {c} /\ pool'.attached = pool.attached
      /\ pool'.idleTimer = pool.idleTimer /\ pool'.ending = pool.ending
  BY ZenonT(60), <1>1 DEF Good, PoolState
<1> QED BY <1>1, <1>2, FewerPromises

\* The connection timer of a new client.
LEMMA ConnectionTimerGood ==
    ASSUME Good(pool), NEW c \in Clients, ConnectionTimerFires(c)
    PROVE  Good(pool')
<1> DEFINE q == [pool EXCEPT !.connTimer = @ \ {c}]
<1>1. /\ pool' = Pulse(RemoveClient(q, c)) /\ c \in pool.connTimer
      /\ c \in pool.clients => MayBeLate(c)
  BY DEF ConnectionTimerFires
<1>2. /\ q \in PoolState
      /\ q.clients = pool.clients /\ q.dialing = pool.dialing /\ q.rolling = pool.rolling
      /\ q.connTimer = pool.connTimer \ {c} /\ q.idle = pool.idle
      /\ q.holds = pool.holds /\ q.warm = pool.warm /\ q.attached = pool.attached
      /\ q.idleTimer = pool.idleTimer /\ q.ending = pool.ending
  BY ZenonT(60) DEF Good, PoolState
<1> HIDE DEF q
<1>3. Good(q)
  BY <1>2, FewerPromises
<1>4. c \in q.clients =>
        /\ c \notin q.warm
        /\ c \in q.dialing \cup q.rolling \cup q.connTimer => Cardinality(Late(q)) < MaxLate
  <2>1. c \in q.clients => Late(q) = Late(pool)
    BY <1>2 DEF Late
  <2> QED BY <2>1, <1>1, <1>2 DEF MayBeLate, Good, Marks
<1>5. Good(RemoveClient(q, c))
  BY <1>3, <1>4, RemoveClientGood
<1> QED BY <1>1, <1>5, PulseGood

\* The timer of a queued request.
LEMMA QueueTimerGood ==
    ASSUME Good(pool), NEW r \in Callers, QueueTimerFires(r)
    PROVE  Good(pool')
<1> DEFINE s == Settle(pool, {r})
<1>1. pool' = [s EXCEPT
                !.queue = Without(@, r),
                !.request = [c \in Clients |-> IF @[c] = r THEN None ELSE @[c]]]
  BY DEF QueueTimerFires
<1>2. Good(s)
  BY SettleGood
<1> HIDE DEF s
<1>3. Without(s.queue, r) \in Seq(Callers)
  <2>1. s.queue \in Seq(Callers)
    BY ZenonT(60), <1>2 DEF Good, PoolState
  <2> QED BY <2>1, WithoutTyped
<1>4. pool' \in PoolState /\ SameOwners(s, pool')
  BY ZenonT(60), <1>1, <1>2, <1>3 DEF Good, PoolState, SameOwners
<1> QED BY <1>2, <1>4, SameGood

\* An idle client can be removed at any time.
LEMMA RemoveIdleGood ==
    ASSUME NEW p, Good(p), NEW c \in ToSet(p.idle)
    PROVE  Good(RemoveClient(p, c))
<1>1. c \in Clients
  BY ZenonT(60) DEF Good, Owners, PoolState
<1>2. c \notin p.warm /\ c \notin p.dialing \cup p.rolling \cup p.connTimer
  BY DEF Good, Owners, Marks
<1> QED BY <1>1, <1>2, RemoveClientGood

\* The timer of an idle item, which is one of the idle stack.
LEMMA IdleTimerGood ==
    ASSUME Good(pool), NEW c \in Clients, IdleTimerFires(c)
    PROVE  Good(pool')
<1> DEFINE q == [pool EXCEPT !.idleTimer = @ \ {c}]
<1>1. /\ pool' = IF AboveMin(q) THEN Refill(RemoveClient(q, c)) ELSE q
      /\ c \in pool.idleTimer
  BY DEF IdleTimerFires
<1>2. /\ q \in PoolState
      /\ q.clients = pool.clients /\ q.dialing = pool.dialing /\ q.rolling = pool.rolling
      /\ q.connTimer = pool.connTimer /\ q.idle = pool.idle
      /\ q.holds = pool.holds /\ q.warm = pool.warm /\ q.attached = pool.attached
      /\ q.idleTimer = pool.idleTimer \ {c} /\ q.ending = pool.ending
  BY ZenonT(60) DEF Good, PoolState
<1> HIDE DEF q
<1>3. Held(q) = Held(pool) /\ Late(q) = Late(pool)
  BY <1>2 DEF Held, Late
<1>4. Good(q)
  BY <1>2, <1>3 DEF Good, Owners, Marks, Bounds
<1>5. c \in ToSet(q.idle)
  BY <1>1, <1>2 DEF Good, Marks
<1> QED BY <1>1, <1>4, <1>5, RemoveIdleGood, RefillGood

\* The lifetime timer.
LEMMA LifetimeTimerGood ==
    ASSUME Good(pool), NEW c \in Clients, LifetimeTimerFires(c)
    PROVE  Good(pool')
<1> DEFINE q == [pool EXCEPT !.lifeTimer = @ \ {c}, !.expired = @ \cup {c}]
<1>1. pool' = IF c \in ToSet(q.idle) THEN Pulse(RemoveClient(q, c)) ELSE q
  BY DEF LifetimeTimerFires
<1>2. q \in PoolState /\ SameOwners(pool, q)
  BY ZenonT(60) DEF Good, PoolState, SameOwners
<1> HIDE DEF q
<1>3. Good(q)
  BY <1>2, SameGood
<1> QED BY <1>1, <1>3, RemoveIdleGood, PulseGood

\* The death of a connected client.
LEMMA ClientDiesGood ==
    ASSUME Good(pool), NEW c \in Clients, ClientDies(c)
    PROVE  Good(pool')
<1>1. /\ pool' = Refill(RemoveClient(pool, c))
      /\ c \in pool.attached /\ c \in pool.clients /\ MayBeLate(c)
  BY DEF ClientDies
<1>2. /\ c \notin pool.warm
      /\ c \in pool.dialing \cup pool.rolling \cup pool.connTimer
            => Cardinality(Late(pool)) < MaxLate
  BY <1>1 DEF Good, Marks, MayBeLate
<1>3. Good(RemoveClient(pool, c))
  BY <1>2, RemoveClientGood
<1> QED BY <1>1, <1>3, RefillGood

\* The rollback of a release settles; the client may be gone by then.
LEMMA RollbackGood ==
    ASSUME Good(pool), NEW c \in Clients, RollbackSucceeds(c) \/ RollbackFails(c)
    PROVE  Good(pool')
<1>1. /\ c \in pool.rolling /\ c \notin pool.dialing
      /\ c \notin ToSet(pool.idle) \cup Held(pool)
  BY DEF RollbackSucceeds, RollbackFails, Good, Owners
<1>2. CASE RollbackSucceeds(c)
  <2> DEFINE q == [pool EXCEPT !.rolling = @ \ {c}, !.inTx = @ \ {c}]
  <2>1. pool' = IF c \in q.clients THEN PushIdle(q, c) ELSE q
    BY <1>2 DEF RollbackSucceeds
  <2>2. /\ q \in PoolState
        /\ q.clients = pool.clients /\ q.dialing = pool.dialing
        /\ q.rolling = pool.rolling \ {c} /\ q.connTimer = pool.connTimer
        /\ q.idle = pool.idle /\ q.holds = pool.holds /\ q.warm = pool.warm
        /\ q.attached = pool.attached /\ q.idleTimer = pool.idleTimer
        /\ q.ending = pool.ending
    BY ZenonT(60) DEF Good, PoolState
  <2> HIDE DEF q
  <2>3. Good(q)
    BY <2>2, FewerPromises
  <2>4. c \notin ToSet(q.idle) \cup Held(q) \cup q.dialing \cup q.rolling
    BY <1>1, <2>2 DEF Held
  <2> QED BY <2>1, <2>3, <2>4, PushIdleGood
<1>3. CASE RollbackFails(c)
  <2> DEFINE q == [pool EXCEPT !.rolling = @ \ {c}]
  <2>1. pool' = Refill(RemoveClient(q, c))
    BY <1>3 DEF RollbackFails
  <2>2. /\ q \in PoolState
        /\ q.clients = pool.clients /\ q.dialing = pool.dialing
        /\ q.rolling = pool.rolling \ {c} /\ q.connTimer = pool.connTimer
        /\ q.idle = pool.idle /\ q.holds = pool.holds /\ q.warm = pool.warm
        /\ q.attached = pool.attached /\ q.idleTimer = pool.idleTimer
        /\ q.ending = pool.ending
    BY ZenonT(60) DEF Good, PoolState
  <2> HIDE DEF q
  <2>3. Good(q)
    BY <2>2, FewerPromises
  <2>4. c \in q.clients => c \notin q.warm /\ c \notin q.dialing \cup q.rolling \cup q.connTimer
    BY <1>1, <2>2, <2>3 DEF Good, Marks
  <2> QED BY <2>1, <2>3, <2>4, RemoveClientGood, RefillGood
<1> QED BY <1>2, <1>3

-----------------------------------------------------------------------------
(* The theorems *)

\* Every step keeps the invariant.
LEMMA NextGood ==
    ASSUME Good(pool), [Next]_vars
    PROVE  Good(pool')
<1>1. CASE UNCHANGED vars
  BY <1>1 DEF vars
<1>2. CASE Boot \/ Tick
  BY <1>2, TickGood
<1>3. ASSUME NEW r \in Callers, CallerStep(r)
      PROVE  Good(pool')
  BY <1>3, ConnectGood, UseClientGood, ReleaseGood, QueueTimerGood DEF CallerStep
<1>4. ASSUME NEW c \in Clients, ClientStep(c)
      PROVE  Good(pool')
  BY <1>4, ConnectSettlesGood, LateForgottenGood, ConnectionTimerGood, IdleTimerGood,
     LifetimeTimerGood, ClientDiesGood, RollbackGood DEF ClientStep
<1>5. ASSUME NEW e \in Enders, End(e)
      PROVE  Good(pool')
  BY <1>5, EndGood
<1> QED BY <1>1, <1>2, <1>3, <1>4, <1>5 DEF Next

\* Good is an invariant of the pool.
THEOREM PoolInvariant == Spec => []Good(pool)
<1>1. Init => Good(pool)
  BY InitGood
<1>2. Good(pool) /\ [Next]_vars => Good(pool)'
  BY NextGood
<1> QED BY <1>1, <1>2, PTL DEF Spec

\* The state of the pool is always well typed.
THEOREM TypeCorrect == Spec => []TypeOK
<1>1. Good(pool) => TypeOK
  BY DEF Good, TypeOK
<1> QED BY <1>1, PoolInvariant, PTL

\* Whatever max, min, the timeouts and the number of callers are, the pool
\* never has more clients than max, connecting ones included.
THEOREM CapacityBounded == Spec => []CapacityBound
<1>1. Good(pool) => CapacityBound
  BY DEF Good, Bounds, CapacityBound
<1> QED BY <1>1, PoolInvariant, PTL

\* Whatever the order of checkouts, releases, rollbacks, timers, failures and
\* end(), a client has one owner at most.
THEOREM OwnerExclusive == Spec => []ExclusiveOwner
<1>1. Good(pool) => ExclusiveOwner
  BY DEF Good, Owners, ExclusiveOwner
<1> QED BY <1>1, PoolInvariant, PTL
=============================================================================
