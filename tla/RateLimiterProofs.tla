-------------------------- MODULE RateLimiterProofs --------------------------
(***************************************************************************)
(* What the rate limiter never does, for every limit, window length, size  *)
(* of the map and set of keys.  The code keeps one counter per key and may *)
(* forget it; the argument is about the windows that were ever opened for  *)
(* a key, which no variable holds: the inductive invariant says that there *)
(* is a set of opening times that explains the log of admissions.          *)
(***************************************************************************)
EXTENDS RateLimiter, FiniteSetTheorems, TLAPS

Admission == [key : Keys, time : Nat, n : Nat]

TypeOK ==
    /\ now \in Nat /\ requests \in Nat
    /\ DOMAIN hits \subseteq Keys
    /\ hits = [k \in DOMAIN hits |-> hits[k]]
    /\ \A k \in DOMAIN hits : hits[k] \in [resetAt : Nat, count : Nat]
    /\ refused \subseteq Keys

(* Every admission is in the past, under a number of its own. *)
LogKept ==
    /\ IsFiniteSet(log)
    /\ log \subseteq Admission
    /\ \A a \in log : a.time <= now /\ a.n <= requests

(* The admissions of the window that was opened for k at time s. *)
InWindow(k, s) == AdmittedIn(k, s, s + Window)

(* A window is over before the next one is opened. *)
Apart(opened) == \A s, t \in opened : s < t => s + Window < t

(* Each admission of k is in a window, and no window has too many. *)
Explained(k, opened) ==
    /\ \A a \in log : a.key = k => \E s \in opened : a.time \in s..(s + Window)
    /\ \A s \in opened : Cardinality(InWindow(k, s)) <= Limit

(* The entry of k is about the last window; a key without one has none open. *)
Current(k, opened) ==
    /\ k \in DOMAIN hits =>
         /\ hits[k].resetAt - Window \in opened
         /\ \A s \in opened : s <= hits[k].resetAt - Window
         /\ hits[k].count = Cardinality(InWindow(k, hits[k].resetAt - Window))
    /\ k \notin DOMAIN hits => \A s \in opened : s + Window < now

Windows(k, opened) ==
    /\ opened \subseteq 0..now
    /\ Apart(opened)
    /\ Explained(k, opened)
    /\ Current(k, opened)

Inv ==
    /\ TypeOK
    /\ LogKept
    /\ \A k \in Keys : \E opened \in SUBSET (0..now) : Windows(k, opened)
    /\ RefusedRightly

-----------------------------------------------------------------------------
(* The map, and what gc leaves of it: every window that is not over. *)

LEMMA GcFacts ==
    ASSUME NEW map, map = [j \in DOMAIN map |-> map[j]]
    PROVE  /\ DOMAIN Gc(map) \subseteq DOMAIN map
           /\ Gc(map) = [j \in DOMAIN Gc(map) |-> Gc(map)[j]]
           /\ \A j \in DOMAIN Gc(map) : Gc(map)[j] = map[j]
           /\ \A j \in DOMAIN map : ~Expired(map[j]) => j \in DOMAIN Gc(map)
<1>1. CASE Cardinality(DOMAIN map) < GcSize
    BY <1>1 DEF Gc
<1>2. CASE ~(Cardinality(DOMAIN map) < GcSize)
    <2>1. Gc(map) = [j \in {i \in DOMAIN map : ~Expired(map[i])} |-> map[j]]
        BY <1>2 DEF Gc, Restrict
    <2> QED BY <2>1
<1> QED BY <1>1, <1>2

-----------------------------------------------------------------------------
(* The log. *)

LEMMA AdmittedFinite ==
    ASSUME LogKept, NEW k, NEW from, NEW to
    PROVE  IsFiniteSet(AdmittedIn(k, from, to)) /\ Cardinality(AdmittedIn(k, from, to)) \in Nat
<1>1. IsFiniteSet(log) /\ AdmittedIn(k, from, to) \in SUBSET log
    BY DEF LogKept, AdmittedIn
<1>2. IsFiniteSet(AdmittedIn(k, from, to))
    BY <1>1, FS_Subset
<1> QED BY <1>2, FS_CardinalityType

LEMMA AdmitFacts ==
    ASSUME TypeOK, LogKept, NEW k \in Keys, Admit(k), requests' = requests + 1, now' = now
    PROVE  /\ LogKept'
           /\ \A a \in log' \ log : a.key = k /\ a.time = now
           /\ log \subseteq log'
           /\ \A from, to : now \in from..to =>
                Cardinality(AdmittedIn(k, from, to)') = Cardinality(AdmittedIn(k, from, to)) + 1
<1> DEFINE a == [key |-> k, time |-> now, n |-> requests + 1]
<1>1. log' = log \cup {a} /\ a.key = k /\ a.time = now /\ a.n = requests + 1
    BY DEF Admit
<1>2. a \in Admission /\ now \in Nat /\ requests \in Nat
    BY DEF Admission, TypeOK
<1> HIDE DEF a
<1>3. /\ IsFiniteSet(log) /\ log \subseteq Admission
      /\ \A b \in log : b.time <= now /\ b.n <= requests
    BY DEF LogKept
<1>4. \A b \in log : b.n \in Nat /\ b.time \in Nat
    BY <1>3 DEF Admission
<1>5. a \notin log
    BY <1>1, <1>2, <1>3, <1>4
<1>6. LogKept'
    <2>1. IsFiniteSet(log')
        BY <1>1, <1>3, FS_AddElement
    <2>2. \A b \in log' : b.time <= now' /\ b.n <= requests'
        BY <1>1, <1>2, <1>3, <1>4
    <2> QED BY <1>1, <1>2, <1>3, <2>1, <2>2 DEF LogKept
<1>7. ASSUME NEW from, NEW to, now \in from..to
      PROVE  Cardinality(AdmittedIn(k, from, to)') = Cardinality(AdmittedIn(k, from, to)) + 1
    <2>1. AdmittedIn(k, from, to)' = AdmittedIn(k, from, to) \cup {a}
        BY <1>1, <1>7 DEF AdmittedIn
    <2>2. a \notin AdmittedIn(k, from, to)
        BY <1>5 DEF AdmittedIn
    <2> QED BY <2>1, <2>2, AdmittedFinite, FS_AddElement
<1> QED BY <1>1, <1>6, <1>7

(* An admission that an interval does not contain leaves it as it was. *)
LEMMA AdmittedElsewhere ==
    ASSUME log \subseteq log', NEW k, NEW from, NEW to,
           \A a \in log' \ log : a.key # k \/ a.time \notin from..to
    PROVE  AdmittedIn(k, from, to)' = AdmittedIn(k, from, to)
BY DEF AdmittedIn

-----------------------------------------------------------------------------
(***************************************************************************)
(* Two windows at most meet an interval as long as a window: a third would *)
(* lie, with the gaps, wholly between the two.                             *)
(***************************************************************************)
LEMMA TwoWindowsMeet ==
    ASSUME NEW opened \in SUBSET Nat, Apart(opened), NEW from \in Nat,
           NEW s \in opened, NEW t \in opened, NEW r \in opened, s < t,
           s <= from + Window, from <= s + Window,
           t <= from + Window, from <= t + Window,
           r <= from + Window, from <= r + Window
    PROVE  r = s \/ r = t
<1>1. Window \in Nat /\ s \in Nat /\ t \in Nat /\ r \in Nat
    BY LimiterAssumption
<1>2. /\ s + Window < t
      /\ r < s => r + Window < s
      /\ t < r => t + Window < r
      /\ s < r => s + Window < r
      /\ r < t => r + Window < t
    BY DEF Apart
<1> QED BY <1>1, <1>2

LEMMA BurstFromWindows ==
    ASSUME LogKept, NEW k \in Keys, NEW from \in Nat,
           NEW opened \in SUBSET Nat, Apart(opened), Explained(k, opened)
    PROVE  Cardinality(AdmittedIn(k, from, from + Window)) <= 2 * Limit
<1> DEFINE A == AdmittedIn(k, from, from + Window)
           met == {s \in opened : s <= from + Window /\ from <= s + Window}
<1>1. Window \in Nat /\ Limit \in Nat
    BY LimiterAssumption
<1>2. \A a \in A : \E s \in met : a \in InWindow(k, s)
    <2> TAKE a \in A
    <2>1. a \in log /\ a.key = k /\ a.time \in from..(from + Window)
        BY DEF AdmittedIn
    <2>2. PICK s \in opened : a.time \in s..(s + Window)
        BY <2>1 DEF Explained
    <2>3. a.time \in Nat
        BY <2>1 DEF LogKept, Admission
    <2>4. s \in met
        BY <1>1, <2>1, <2>2, <2>3
    <2> QED BY <2>1, <2>2, <2>4 DEF InWindow, AdmittedIn
<1>3. \A s : IsFiniteSet(InWindow(k, s)) /\ Cardinality(InWindow(k, s)) \in Nat
    BY AdmittedFinite DEF InWindow
<1>4. \A s \in opened : Cardinality(InWindow(k, s)) <= Limit
    BY DEF Explained
<1>5. CASE \A s, t \in met : s = t
    <2>1. CASE A = {}
        BY <1>1, <2>1, FS_EmptySet
    <2>2. CASE A # {}
        <3>1. PICK s \in met : TRUE
            BY <1>2, <2>2
        <3>2. A \in SUBSET InWindow(k, s)
            BY <1>2, <1>5, <3>1
        <3>3. Cardinality(A) <= Cardinality(InWindow(k, s))
            BY <1>3, <3>2, FS_Subset
        <3>4. Cardinality(A) \in Nat
            BY AdmittedFinite
        <3> QED BY <1>1, <1>3, <1>4, <3>1, <3>3, <3>4
    <2> QED BY <2>1, <2>2
<1>6. CASE \E s, t \in met : s # t
    <2>1. PICK s \in met, t \in met : s < t
        BY <1>6
    <2>2. \A r \in met : r = s \/ r = t
        BY <2>1, TwoWindowsMeet
    <2>3. A \in SUBSET (InWindow(k, s) \cup InWindow(k, t))
        BY <1>2, <2>2
    <2>4. /\ IsFiniteSet(InWindow(k, s) \cup InWindow(k, t))
          /\ Cardinality(InWindow(k, s) \cup InWindow(k, t)) =
               Cardinality(InWindow(k, s)) + Cardinality(InWindow(k, t))
                 - Cardinality(InWindow(k, s) \cap InWindow(k, t))
        BY <1>3, FS_Union
    <2>5. Cardinality(InWindow(k, s) \cap InWindow(k, t)) \in Nat
        <3>1. InWindow(k, s) \cap InWindow(k, t) \in SUBSET InWindow(k, s)
            OBVIOUS
        <3> QED BY <1>3, <3>1, FS_Subset, FS_CardinalityType
    <2>6. Cardinality(A) <= Cardinality(InWindow(k, s) \cup InWindow(k, t))
        BY <2>3, <2>4, FS_Subset
    <2>7. Cardinality(A) \in Nat
        BY AdmittedFinite
    <2> QED BY <1>1, <1>3, <1>4, <2>1, <2>4, <2>5, <2>6, <2>7
<1> QED BY <1>5, <1>6

-----------------------------------------------------------------------------
(***************************************************************************)
(* A step that admits nothing for k, and drops its entry only when its     *)
(* window is over, leaves the explanation of its admissions as it was.     *)
(***************************************************************************)
LEMMA WindowsCarried ==
    ASSUME TypeOK, NEW k \in Keys, NEW opened \in SUBSET (0..now), Windows(k, opened),
           now' \in Nat, now <= now',
           log \subseteq log', \A a \in log' \ log : a.key # k,
           k \in DOMAIN hits' => k \in DOMAIN hits /\ hits'[k] = hits[k],
           k \in DOMAIN hits /\ k \notin DOMAIN hits' => hits[k].resetAt < now'
    PROVE  opened \in SUBSET (0..now') /\ Windows(k, opened)'
<1>1. now \in Nat /\ Window \in Nat /\ \A s \in opened : s \in Nat /\ s <= now
    BY LimiterAssumption DEF TypeOK
<1>2. \A s : InWindow(k, s)' = InWindow(k, s)
    BY AdmittedElsewhere DEF InWindow
<1>3. opened \subseteq 0..now'
    BY <1>1
<1>4. Apart(opened)'
    BY DEF Windows, Apart
<1>5. Explained(k, opened)'
    BY <1>2 DEF Windows, Explained
<1>6. Current(k, opened)'
    <2>1. CASE k \in DOMAIN hits'
        BY <1>2, <2>1 DEF Windows, Current
    <2>2. CASE k \notin DOMAIN hits'
        <3>1. ASSUME NEW s \in opened PROVE s + Window < now'
            <4>1. CASE k \notin DOMAIN hits
                BY <1>1, <4>1 DEF Windows, Current
            <4>2. CASE k \in DOMAIN hits
                <5>1. hits[k].resetAt \in Nat
                    BY <4>2 DEF TypeOK
                <5>2. s <= hits[k].resetAt - Window /\ hits[k].resetAt < now'
                    BY <2>2, <4>2 DEF Windows, Current
                <5> QED BY <1>1, <5>1, <5>2
            <4> QED BY <4>1, <4>2
        <3> QED BY <2>2, <3>1 DEF Current
    <2> QED BY <2>1, <2>2
<1> QED BY <1>3, <1>4, <1>5, <1>6 DEF Windows

-----------------------------------------------------------------------------
(***************************************************************************)
(* The steps.  A new window starts after every window of its key is over:  *)
(* either the entry had expired, or there was none and gc had only dropped *)
(* it after the end of its window.                                         *)
(***************************************************************************)
LEMMA NewWindow ==
    ASSUME TypeOK, LogKept, NEW k \in Keys, NEW opened \in SUBSET (0..now), Windows(k, opened),
           OpenWindow(k), requests' = requests + 1, now' = now
    PROVE  opened \cup {now} \in SUBSET (0..now') /\ Windows(k, opened \cup {now})'
<1> DEFINE entry == [resetAt |-> now + Window, count |-> 1]
           opened2 == opened \cup {now}
<1>1. /\ now \in Nat /\ Window \in Nat /\ Limit \in Nat /\ Limit >= 1
      /\ \A s \in opened : s \in Nat /\ s <= now
    BY LimiterAssumption DEF TypeOK
<1>2. ~Open(k) /\ hits' = Gc(Put(k, entry)) /\ Admit(k)
    BY DEF OpenWindow
<1>3. \A s \in opened : s + Window < now
    <2>1. CASE k \notin DOMAIN hits
        BY <2>1 DEF Windows, Current
    <2>2. CASE k \in DOMAIN hits
        <3>1. hits[k].resetAt \in Nat /\ now > hits[k].resetAt
            BY <1>2, <2>2 DEF TypeOK, Open, Expired
        <3>2. \A s \in opened : s <= hits[k].resetAt - Window
            BY <2>2 DEF Windows, Current
        <3> QED BY <1>1, <3>1, <3>2
    <2> QED BY <2>1, <2>2
<1>4. /\ LogKept' /\ log \subseteq log'
      /\ \A a \in log' \ log : a.key = k /\ a.time = now
      /\ \A from, to : now \in from..to =>
           Cardinality(AdmittedIn(k, from, to)') = Cardinality(AdmittedIn(k, from, to)) + 1
    BY <1>2, AdmitFacts
<1>5. opened2 \subseteq 0..now'
    BY <1>1
<1>6. Apart(opened2)
    BY <1>1, <1>3 DEF Windows, Apart
<1>7. \A s \in opened : InWindow(k, s)' = InWindow(k, s)
    <2> TAKE s \in opened
    <2>1. now \notin s..(s + Window)
        BY <1>1, <1>3
    <2> QED BY <1>4, <2>1, AdmittedElsewhere DEF InWindow
<1>8. Cardinality(InWindow(k, now)') = 1
    <2>1. InWindow(k, now) = {}
        <3> SUFFICES ASSUME NEW a \in InWindow(k, now) PROVE FALSE
            OBVIOUS
        <3>1. a \in log /\ a.key = k /\ a.time \in now..(now + Window)
            BY DEF InWindow, AdmittedIn
        <3>2. PICK s \in opened : a.time \in s..(s + Window)
            BY <3>1 DEF Windows, Explained
        <3> QED BY <1>1, <1>3, <3>1, <3>2
    <2>2. now \in now..(now + Window)
        BY <1>1
    <2>3. Cardinality(AdmittedIn(k, now, now + Window)') = Cardinality({}) + 1
        BY <1>4, <2>1, <2>2 DEF InWindow
    <2>4. InWindow(k, now)' = AdmittedIn(k, now, now + Window)'
        BY DEF InWindow
    <2> QED BY <2>3, <2>4, FS_EmptySet
<1>9. Explained(k, opened2)'
    <2>1. ASSUME NEW a \in log', a.key = k
          PROVE  \E s \in opened2 : a.time \in s..(s + Window)
        <3>1. CASE a \in log
            BY <2>1, <3>1 DEF Windows, Explained
        <3>2. CASE a \notin log
            BY <1>1, <1>4, <3>2
        <3> QED BY <3>1, <3>2
    <2>2. ASSUME NEW s \in opened2 PROVE Cardinality(InWindow(k, s)') <= Limit
        <3>1. CASE s \in opened
            BY <1>7, <3>1 DEF Windows, Explained
        <3>2. CASE s = now
            BY <1>1, <1>8, <3>2
        <3> QED BY <3>1, <3>2
    <2> QED BY <2>1, <2>2 DEF Explained
<1>10. Current(k, opened2)'
    <2>1. /\ k \in DOMAIN Put(k, entry) /\ Put(k, entry)[k] = entry
          /\ Put(k, entry) = [j \in DOMAIN Put(k, entry) |-> Put(k, entry)[j]]
        BY DEF Put
    <2>2. ~Expired(Put(k, entry)[k])
        BY <1>1, <2>1 DEF Expired
    <2>3. k \in DOMAIN hits' /\ hits'[k] = entry
        BY <1>2, <2>1, <2>2, GcFacts
    <2>4. entry.resetAt - Window = now /\ entry.count = 1
        BY <1>1
    <2>5. \A s \in opened2 : s <= now
        BY <1>1
    <2> QED BY <1>8, <2>3, <2>4, <2>5 DEF Current
<1> QED BY <1>5, <1>6, <1>9, <1>10 DEF Windows

LEMMA NewWindowOthers ==
    ASSUME TypeOK, LogKept, NEW k \in Keys, NEW j \in Keys, j # k,
           NEW opened \in SUBSET (0..now), Windows(j, opened),
           OpenWindow(k), requests' = requests + 1, now' = now
    PROVE  opened \in SUBSET (0..now') /\ Windows(j, opened)'
<1> DEFINE map == Put(k, [resetAt |-> now + Window, count |-> 1])
<1>1. hits' = Gc(map) /\ Admit(k) /\ now \in Nat
    BY DEF OpenWindow, TypeOK
<1>2. /\ DOMAIN map = DOMAIN hits \cup {k}
      /\ map = [i \in DOMAIN map |-> map[i]]
      /\ j \in DOMAIN hits => map[j] = hits[j]
    BY DEF Put
<1> HIDE DEF map
<1>3. j \in DOMAIN hits' => j \in DOMAIN hits /\ hits'[j] = hits[j]
    BY <1>1, <1>2, GcFacts
<1>4. j \in DOMAIN hits /\ j \notin DOMAIN hits' => hits[j].resetAt < now'
    <2> SUFFICES ASSUME j \in DOMAIN hits, j \notin DOMAIN hits' PROVE hits[j].resetAt < now'
        OBVIOUS
    <2>1. Expired(hits[j])
        BY <1>1, <1>2, GcFacts
    <2>2. hits[j].resetAt \in Nat
        BY DEF TypeOK
    <2> QED BY <1>1, <2>1, <2>2 DEF Expired
<1>5. log \subseteq log' /\ \A a \in log' \ log : a.key # j
    BY <1>1, AdmitFacts
<1>6. now <= now' /\ now' \in Nat
    BY <1>1
<1> QED BY <1>3, <1>4, <1>5, <1>6, WindowsCarried

LEMMA OpenWindowInv ==
    ASSUME Inv, NEW k \in Keys, OpenWindow(k), requests' = requests + 1, now' = now
    PROVE  Inv'
<1> DEFINE entry == [resetAt |-> now + Window, count |-> 1]
           map == Put(k, entry)
<1>1. TypeOK /\ LogKept /\ now \in Nat /\ requests \in Nat /\ Window \in Nat
    BY LimiterAssumption DEF Inv, TypeOK
<1>2. hits' = Gc(map) /\ Admit(k) /\ refused' = {}
    BY DEF OpenWindow, Admit
<1>3. TypeOK'
    <2>1. entry \in [resetAt : Nat, count : Nat]
        BY <1>1
    <2>2. /\ DOMAIN map = DOMAIN hits \cup {k}
          /\ map = [i \in DOMAIN map |-> map[i]]
          /\ map[k] = entry
          /\ \A j \in DOMAIN hits : j # k => map[j] = hits[j]
        BY DEF Put
    <2> HIDE DEF map, entry
    <2>3. \A j \in DOMAIN map : map[j] \in [resetAt : Nat, count : Nat]
        BY <1>1, <2>1, <2>2 DEF TypeOK
    <2>4. /\ DOMAIN hits' \subseteq DOMAIN map
          /\ hits' = [j \in DOMAIN hits' |-> hits'[j]]
          /\ \A j \in DOMAIN hits' : hits'[j] = map[j]
        BY <1>2, <2>2, GcFacts
    <2> QED BY <1>1, <1>2, <2>2, <2>3, <2>4 DEF TypeOK
<1>4. LogKept'
    BY <1>1, <1>2, AdmitFacts
<1>5. ASSUME NEW j \in Keys
      PROVE  \E opened \in SUBSET (0..now') : Windows(j, opened)'
    <2>1. PICK opened \in SUBSET (0..now) : Windows(j, opened)
        BY DEF Inv
    <2>2. CASE j = k
        <3>1. opened \cup {now} \in SUBSET (0..now') /\ Windows(k, opened \cup {now})'
            BY <1>1, <2>1, <2>2, NewWindow
        <3> QED BY <2>2, <3>1
    <2>3. CASE j # k
        BY <1>1, <2>1, <2>3, NewWindowOthers
    <2> QED BY <2>2, <2>3
<1>6. RefusedRightly'
    BY <1>2 DEF RefusedRightly
<1> QED BY <1>3, <1>4, <1>5, <1>6 DEF Inv

-----------------------------------------------------------------------------
(* A request more in the open window: it is the last one, so the admission *)
(* is in no other, and the counter keeps step with the log.                *)
LEMMA SameWindow ==
    ASSUME TypeOK, LogKept, NEW k \in Keys, NEW opened \in SUBSET (0..now), Windows(k, opened),
           Count(k), requests' = requests + 1, now' = now
    PROVE  opened \in SUBSET (0..now') /\ Windows(k, opened)'
<1>1. /\ now \in Nat /\ Window \in Nat /\ Limit \in Nat
      /\ \A s \in opened : s \in Nat /\ s <= now
    BY LimiterAssumption DEF TypeOK
<1>2. /\ k \in DOMAIN hits /\ hits[k] \in [resetAt : Nat, count : Nat]
      /\ now <= hits[k].resetAt /\ hits[k].count < Limit
    BY DEF Count, Open, Expired, TypeOK
<1>3. /\ DOMAIN hits' = DOMAIN hits
      /\ hits'[k].resetAt = hits[k].resetAt /\ hits'[k].count = hits[k].count + 1
    BY <1>2 DEF Count, Put
<1>4. /\ log \subseteq log' /\ \A a \in log' \ log : a.key = k /\ a.time = now
      /\ \A from, to : now \in from..to =>
           Cardinality(AdmittedIn(k, from, to)') = Cardinality(AdmittedIn(k, from, to)) + 1
    BY AdmitFacts DEF Count
<1>5. PICK s0 \in opened : s0 = hits[k].resetAt - Window
    BY <1>2 DEF Windows, Current
<1>6. /\ hits[k].count = Cardinality(InWindow(k, s0))
      /\ \A s \in opened : s <= s0
    BY <1>2, <1>5 DEF Windows, Current
<1>7. s0 \in Nat /\ now \in s0..(s0 + Window)
    BY <1>1, <1>2, <1>5
<1>8. Cardinality(InWindow(k, s0)') = hits[k].count + 1
    BY <1>4, <1>6, <1>7 DEF InWindow
<1>9. \A s \in opened : s # s0 => InWindow(k, s)' = InWindow(k, s)
    <2> SUFFICES ASSUME NEW s \in opened, s # s0 PROVE InWindow(k, s)' = InWindow(k, s)
        OBVIOUS
    <2>1. s < s0
        BY <1>1, <1>6, <1>7
    <2>2. s + Window < s0
        BY <1>5, <2>1 DEF Windows, Apart
    <2>3. now \notin s..(s + Window)
        BY <1>1, <1>7, <2>2
    <2> QED BY <1>4, <2>3, AdmittedElsewhere DEF InWindow
<1>10. Apart(opened)'
    BY DEF Windows, Apart
<1>11. Explained(k, opened)'
    <2>1. ASSUME NEW a \in log', a.key = k
          PROVE  \E s \in opened : a.time \in s..(s + Window)
        <3>1. CASE a \in log
            BY <2>1, <3>1 DEF Windows, Explained
        <3>2. CASE a \notin log
            BY <1>4, <1>7, <3>2
        <3> QED BY <3>1, <3>2
    <2>2. ASSUME NEW s \in opened PROVE Cardinality(InWindow(k, s)') <= Limit
        <3>1. CASE s # s0
            BY <1>9, <3>1 DEF Windows, Explained
        <3>2. CASE s = s0
            <4>1. hits[k].count + 1 <= Limit
                BY <1>1, <1>2
            <4> QED BY <1>8, <3>2, <4>1
        <3> QED BY <3>1, <3>2
    <2> QED BY <2>1, <2>2 DEF Explained
<1>12. Current(k, opened)'
    <2>1. hits'[k].resetAt - Window = s0
        BY <1>3, <1>5
    <2>2. InWindow(k, hits[k].resetAt - Window)' = InWindow(k, s0)'
        BY <2>1 DEF InWindow, AdmittedIn
    <2>3. hits'[k].count = Cardinality(InWindow(k, hits[k].resetAt - Window)')
        BY <1>3, <1>8, <2>2
    <2> QED BY <1>2, <1>3, <1>6, <2>1, <2>3 DEF Current
<1>13. opened \subseteq 0..now'
    BY <1>1
<1> QED BY <1>10, <1>11, <1>12, <1>13 DEF Windows

LEMMA CountInv ==
    ASSUME Inv, NEW k \in Keys, Count(k), requests' = requests + 1, now' = now
    PROVE  Inv'
<1> DEFINE entry == [hits[k] EXCEPT !.count = @ + 1]
<1>1. TypeOK /\ LogKept /\ now \in Nat /\ requests \in Nat
    BY DEF Inv, TypeOK
<1>2. /\ k \in DOMAIN hits /\ hits' = Put(k, entry) /\ Admit(k) /\ refused' = {}
    BY DEF Count, Admit, Open
<1>3. TypeOK' /\ \A j \in DOMAIN hits : j # k => hits'[j] = hits[j]
    <2>1. entry \in [resetAt : Nat, count : Nat]
        BY <1>2 DEF Inv, TypeOK
    <2> HIDE DEF entry
    <2>2. /\ DOMAIN hits' = DOMAIN hits
          /\ hits' = [i \in DOMAIN hits' |-> hits'[i]]
          /\ hits'[k] = entry
          /\ \A j \in DOMAIN hits : j # k => hits'[j] = hits[j]
        BY <1>2 DEF Put
    <2>3. \A j \in DOMAIN hits' : hits'[j] \in [resetAt : Nat, count : Nat]
        BY <1>1, <2>1, <2>2 DEF TypeOK
    <2> QED BY <1>1, <1>2, <2>2, <2>3 DEF TypeOK
<1>4. LogKept' /\ log \subseteq log' /\ \A a \in log' \ log : a.key = k
    BY <1>1, <1>2, AdmitFacts
<1>5. DOMAIN hits' = DOMAIN hits
    BY <1>2 DEF Put
<1>6. ASSUME NEW j \in Keys
      PROVE  \E opened \in SUBSET (0..now') : Windows(j, opened)'
    <2>1. PICK opened \in SUBSET (0..now) : Windows(j, opened)
        BY DEF Inv
    <2>2. CASE j = k
        BY <1>1, <2>1, <2>2, SameWindow
    <2>3. CASE j # k
        <3>1. \A a \in log' \ log : a.key # j
            BY <1>4, <2>3
        <3>2. now <= now' /\ now' \in Nat
            BY <1>1
        <3> QED BY <1>1, <1>3, <1>4, <1>5, <2>1, <2>3, <3>1, <3>2, WindowsCarried
    <2> QED BY <2>2, <2>3
<1>7. RefusedRightly'
    BY <1>2 DEF RefusedRightly
<1> QED BY <1>3, <1>4, <1>6, <1>7 DEF Inv

(***************************************************************************)
(* A refusal: the counter is the number of admissions of a window that is  *)
(* not over, so it began within the last window.                           *)
(***************************************************************************)
LEMMA RefuseInv ==
    ASSUME Inv, NEW k \in Keys, Refuse(k), requests' = requests + 1, now' = now
    PROVE  Inv'
<1>1. /\ TypeOK /\ LogKept /\ now \in Nat /\ requests \in Nat
      /\ Window \in Nat /\ Limit \in Nat
    BY LimiterAssumption DEF Inv, TypeOK
<1>2. /\ k \in DOMAIN hits /\ now <= hits[k].resetAt /\ hits[k].count >= Limit
      /\ hits[k].resetAt \in Nat /\ hits[k].count \in Nat
    BY <1>1 DEF Refuse, Open, Expired, TypeOK
<1>3. refused' = {k} /\ hits' = hits /\ log' = log
    BY DEF Refuse
<1>4. TypeOK'
    BY <1>1, <1>3 DEF TypeOK
<1>5. LogKept'
    <2>1. \A a \in log : a.n \in Nat
        BY <1>1 DEF LogKept, Admission
    <2>2. \A a \in log : a.n <= requests + 1
        BY <1>1, <2>1 DEF LogKept
    <2> QED BY <1>1, <1>3, <2>2 DEF LogKept
<1>6. ASSUME NEW j \in Keys
      PROVE  \E opened \in SUBSET (0..now') : Windows(j, opened)'
    <2>1. PICK opened \in SUBSET (0..now) : Windows(j, opened)
        BY DEF Inv
    <2> QED BY <1>1, <1>3, <2>1, WindowsCarried
<1>7. RefusedRightly'
    <2>1. PICK opened \in SUBSET (0..now) : Windows(k, opened)
        BY DEF Inv
    <2> DEFINE s == hits[k].resetAt - Window
    <2>2. hits[k].count = Cardinality(InWindow(k, s))
        BY <1>2, <2>1 DEF Windows, Current
    <2>3. InWindow(k, s) \in SUBSET AdmittedIn(k, now - Window, now)
        <3> SUFFICES ASSUME NEW a \in InWindow(k, s) PROVE a \in AdmittedIn(k, now - Window, now)
            OBVIOUS
        <3>1. a \in log /\ a.key = k /\ a.time \in s..(s + Window)
            BY DEF InWindow, AdmittedIn
        <3>2. a.time \in Nat /\ a.time <= now
            BY <1>1, <3>1 DEF LogKept, Admission
        <3>3. a.time \in (now - Window)..now
            BY <1>1, <1>2, <3>1, <3>2
        <3> QED BY <3>1, <3>3 DEF AdmittedIn
    <2>4. Cardinality(InWindow(k, s)) <= Cardinality(AdmittedIn(k, now - Window, now))
        BY <1>1, <2>3, AdmittedFinite, FS_Subset
    <2>5. Cardinality(AdmittedIn(k, now - Window, now)) \in Nat
        BY <1>1, AdmittedFinite
    <2>6. Cardinality(AdmittedIn(k, now - Window, now)) >= Limit
        BY <1>1, <1>2, <2>2, <2>4, <2>5
    <2>7. \A j : AdmittedIn(j, now - Window, now)' = AdmittedIn(j, now - Window, now)
        BY <1>3 DEF AdmittedIn
    <2> QED BY <1>3, <2>6, <2>7 DEF RefusedRightly
<1> QED BY <1>4, <1>5, <1>6, <1>7 DEF Inv

LEMMA TickInv == ASSUME Inv, Tick PROVE Inv'
<1>1. /\ TypeOK /\ LogKept /\ now \in Nat /\ now' \in Nat /\ now <= now'
      /\ refused' = {} /\ UNCHANGED <<hits, log, requests>>
    BY DEF Inv, TypeOK, Tick
<1>2. TypeOK'
    BY <1>1 DEF TypeOK
<1>3. LogKept'
    <2>1. \A a \in log : a.time \in Nat /\ a.time <= now
        BY <1>1 DEF LogKept, Admission
    <2>2. \A a \in log : a.time <= now'
        BY <1>1, <2>1
    <2> QED BY <1>1, <2>2 DEF LogKept
<1>4. ASSUME NEW j \in Keys
      PROVE  \E opened \in SUBSET (0..now') : Windows(j, opened)'
    <2>1. PICK opened \in SUBSET (0..now) : Windows(j, opened)
        BY DEF Inv
    <2> QED BY <1>1, <2>1, WindowsCarried
<1>5. RefusedRightly'
    BY <1>1 DEF RefusedRightly
<1> QED BY <1>2, <1>3, <1>4, <1>5 DEF Inv

-----------------------------------------------------------------------------
LEMMA InitInv == Init => Inv
<1> SUFFICES ASSUME Init PROVE Inv
    OBVIOUS
<1>1. now = 0 /\ hits = [k \in {} |-> 0] /\ log = {} /\ requests = 0 /\ refused = {}
    BY DEF Init
<1>2. TypeOK
    BY <1>1 DEF TypeOK
<1>3. LogKept
    BY <1>1, FS_EmptySet DEF LogKept
<1>4. ASSUME NEW k \in Keys PROVE {} \in SUBSET (0..now) /\ Windows(k, {})
    BY <1>1 DEF Windows, Apart, Explained, Current
<1>5. RefusedRightly
    BY <1>1 DEF RefusedRightly
<1> QED BY <1>2, <1>3, <1>4, <1>5 DEF Inv

LEMMA NextInv == Inv /\ [Next]_vars => Inv'
<1> SUFFICES ASSUME Inv, [Next]_vars PROVE Inv'
    OBVIOUS
<1>1. CASE UNCHANGED vars
    <2>1. /\ TypeOK' /\ LogKept' /\ RefusedRightly'
        BY <1>1 DEF vars, Inv, TypeOK, LogKept, RefusedRightly, AdmittedIn
    <2>2. ASSUME NEW j \in Keys
          PROVE  \E opened \in SUBSET (0..now') : Windows(j, opened)'
        <3>1. PICK opened \in SUBSET (0..now) : Windows(j, opened)
            BY DEF Inv
        <3>2. TypeOK /\ now' \in Nat /\ now <= now'
            BY <1>1 DEF vars, Inv, TypeOK
        <3> QED BY <1>1, <3>1, <3>2, WindowsCarried DEF vars
    <2> QED BY <2>1, <2>2 DEF Inv
<1>2. CASE Tick
    BY <1>2, TickInv
<1>3. ASSUME NEW k \in Keys, Allow(k) PROVE Inv'
    BY <1>3, OpenWindowInv, CountInv, RefuseInv DEF Allow
<1> QED BY <1>1, <1>2, <1>3 DEF Next

(***************************************************************************)
(* In every reachable state the counters and the log agree: some set of    *)
(* opening times, at least a window apart, explains all that was admitted. *)
(***************************************************************************)
THEOREM LimiterInvariant == Spec => []Inv
<1> QED BY InitInv, NextInv, PTL DEF Spec

(***************************************************************************)
(* No interval as long as a window sees more than twice the limit admitted *)
(* for a key, whatever the arrival times and whatever gc forgets.          *)
(***************************************************************************)
THEOREM BurstsBounded == Spec => []BurstBounded
<1>1. Inv => BurstBounded
    <2> SUFFICES ASSUME Inv, NEW k \in Keys, NEW from \in 0..MaxTime
                 PROVE  Cardinality(AdmittedIn(k, from, from + Window)) <= 2 * Limit
        BY DEF BurstBounded
    <2>1. PICK opened \in SUBSET (0..now) : Windows(k, opened)
        BY DEF Inv
    <2>2. opened \in SUBSET Nat /\ from \in Nat
        BY LimiterAssumption DEF Inv, TypeOK
    <2> QED BY <2>1, <2>2, BurstFromWindows DEF Inv, Windows
<1> QED BY <1>1, LimiterInvariant, PTL

(***************************************************************************)
(* A refused client had used the limit up by its own admitted requests     *)
(* within the last window.                                                 *)
(***************************************************************************)
THEOREM RefusalsJust == Spec => []RefusedRightly
<1>1. Inv => RefusedRightly
    BY DEF Inv
<1> QED BY <1>1, LimiterInvariant, PTL
=============================================================================
