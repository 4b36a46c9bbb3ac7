-------------------------------- MODULE Lease --------------------------------
(***************************************************************************)
(* What a connection pool promises its callers, without a word on how: at  *)
(* most Limit sessions are open, a caller that asked is answered once, with  *)
(* an open session nobody else has or with a refusal, and once the pool is *)
(* closed nobody waits and nobody is served.                               *)
(***************************************************************************)
EXTENDS Naturals, FiniteSets

CONSTANTS
    Clients,    \* sessions
    Callers,
    None,       \* no session
    Limit         \* how many sessions may be open

VARIABLES
    open,       \* the sessions the pool has open
    asking,     \* callers that have asked and have no answer yet
    lease,      \* the session a caller has to give back
    closed

vars == <<open, asking, lease, closed>>

TypeOK ==
    /\ open \in SUBSET Clients
    /\ asking \in SUBSET Callers
    /\ lease \in [Callers -> Clients \cup {None}]
    /\ closed \in BOOLEAN

Init ==
    /\ open = {}
    /\ asking = {}
    /\ lease = [r \in Callers |-> None]
    /\ closed = FALSE

\* Sessions come and go, within the limit.
OpenAndClose ==
    /\ open' \in SUBSET Clients
    /\ Cardinality(open') <= Limit

\* r asks for a session.
Ask(r) ==
    /\ ~closed /\ r \notin asking /\ lease[r] = None
    /\ OpenAndClose
    /\ asking' = asking \cup {r}
    /\ UNCHANGED <<lease, closed>>

\* Callers that asked are answered, with a session or with an error, others give
\* theirs back; a closing pool refuses all the rest.
Turn ==
    /\ OpenAndClose
    /\ asking' \in SUBSET asking
    /\ lease' \in [Callers -> Clients \cup {None}]
    /\ \A r \in Callers :
        lease'[r] \notin {None, lease[r]} =>
            /\ r \in asking \ asking' /\ ~closed
            /\ lease'[r] \in open'
            /\ \A s \in Callers \ {r} : lease'[s] # lease'[r]
    /\ closed' \in {closed, TRUE}
    /\ closed' => asking' = {}

Next ==
    \/ \E r \in Callers : Ask(r)
    \/ Turn

Spec == Init /\ [][Next]_vars
=============================================================================
