----------------------------- MODULE RateLimiter -----------------------------
(***************************************************************************)
(* The fixed-window rate limiter of internal/httpx/ratelimit.go.  allow is *)
(* one critical section, so it is one step; between steps time passes.     *)
(* The log of admissions is history: the code keeps only a counter and a   *)
(* reset time per key, and forgets keys when the map has grown.            *)
(***************************************************************************)
EXTENDS Integers, FiniteSets, Functions

CONSTANTS
    Keys,         \* client addresses and user ids
    Limit,        \* requests per window
    Window,       \* length of a window
    GcSize,       \* size of the map from which on gc looks at it (1024)
    MaxTime,      \* bound on the clock
    MaxRequests   \* bound on the requests

ASSUME LimiterAssumption ==
    /\ {Limit, Window, GcSize} \subseteq Nat \ {0}
    /\ MaxTime \in Nat /\ MaxRequests \in Nat

VARIABLES
    now,
    hits,         \* the map: a count and a reset time for the keys it holds
    log,          \* history: the admissions, numbered by request
    requests,     \* requests so far
    refused       \* the key that the last request was refused for, or none

vars == <<now, hits, log, requests, refused>>

Init ==
    /\ now = 0 /\ hits = [k \in {} |-> 0]
    /\ log = {} /\ requests = 0 /\ refused = {}

-----------------------------------------------------------------------------
Expired(entry) == now > entry.resetAt

(* The key has a window that is not over. *)
Open(k) == k \in DOMAIN hits /\ ~Expired(hits[k])

(* Mutant: once the map is full everything goes. *)
GcAll(map) ==
    IF Cardinality(DOMAIN map) < GcSize THEN map ELSE [k \in {} |-> 0]

Gc(map) ==
    IF Cardinality(DOMAIN map) < GcSize THEN map
    ELSE Restrict(map, {k \in DOMAIN map : ~Expired(map[k])})

Put(k, entry) == [j \in DOMAIN hits \cup {k} |-> IF j = k THEN entry ELSE hits[j]]

Admit(k) ==
    /\ log' = log \cup {[key |-> k, time |-> now, n |-> requests + 1]}
    /\ refused' = {}

(* No window, or one that is over: a new one. *)
OpenWindow(k) ==
    /\ ~Open(k)
    /\ hits' = Gc(Put(k, [resetAt |-> now + Window, count |-> 1]))
    /\ Admit(k)

Count(k) ==
    /\ Open(k)
    /\ hits[k].count < Limit
    /\ hits' = Put(k, [hits[k] EXCEPT !.count = @ + 1])
    /\ Admit(k)

(* Mutant: a refused request pushes the end of the window away. *)
RefuseExtends(k) ==
    /\ Open(k)
    /\ hits[k].count >= Limit
    /\ refused' = {k}
    /\ hits' = Put(k, [hits[k] EXCEPT !.resetAt = now + Window])
    /\ UNCHANGED log

Refuse(k) ==
    /\ Open(k)
    /\ hits[k].count >= Limit
    /\ refused' = {k}
    /\ UNCHANGED <<hits, log>>

Allow(k) ==
    /\ requests < MaxRequests
    /\ requests' = requests + 1
    /\ OpenWindow(k) \/ Count(k) \/ Refuse(k)
    /\ UNCHANGED now

Tick ==
    /\ now < MaxTime
    /\ now' = now + 1
    /\ refused' = {}
    /\ UNCHANGED <<hits, log, requests>>

Next == Tick \/ \E k \in Keys : Allow(k)

Spec == Init /\ [][Next]_vars

-----------------------------------------------------------------------------
AdmittedIn(k, from, to) == {a \in log : a.key = k /\ a.time \in from..to}

(***************************************************************************)
(* Whatever the arrival times, and whatever gc forgets, no interval as     *)
(* long as a window sees more than twice the limit admitted for a key: two *)
(* windows at most meet in it.                                             *)
(***************************************************************************)
BurstBounded ==
    \A k \in Keys : \A from \in 0..MaxTime :
      Cardinality(AdmittedIn(k, from, from + Window)) <= 2 * Limit

(***************************************************************************)
(* A client is refused only for what it did: the limit was used up by its  *)
(* own admitted requests within the last window.  Refused requests and     *)
(* other keys' requests count for nothing.                                 *)
(***************************************************************************)
RefusedRightly ==
    \A k \in refused : Cardinality(AdmittedIn(k, now - Window, now)) >= Limit
=============================================================================
