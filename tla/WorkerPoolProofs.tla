--------------------------- MODULE WorkerPoolProofs ---------------------------
(***************************************************************************)
(* Proofs about WorkerPool for any number of goroutines, any ceiling and   *)
(* any sequence of Resize calls.  The counters of the pool are exact, they *)
(* respect the ceiling, and a Stop that reports success has drained it.    *)
(***************************************************************************)
EXTENDS WorkerPool, FiniteSetTheorems, TLAPS

(***************************************************************************)
(* Why Stop's report can be trusted although Resize may start goroutines   *)
(* behind its back: from the moment Wait is released, stopCh is closed and *)
(* nobody ticks, and with stopCh closed nobody starts to.                  *)
(***************************************************************************)
DrainInv ==
    /\ waiter # "none" => closed
    /\ stopRet = "nil" => waiter = "done"
    /\ waiter \in {"released", "done"} => At(Ticking) = {}

(* TypeOK alone is not inductive: the counters stay in range because they  *)
(* count goroutines.                                                       *)
IInv == TypeOK /\ CountersExact /\ DrainInv

Counted  == Serving \cup {"leave"}
Unjoined == Points \ {"none"}

-----------------------------------------------------------------------------
(* The goroutines at given points are finitely many. *)
LEMMA AtFinite ==
    ASSUME NEW S
    PROVE  IsFiniteSet(At(S)) /\ Cardinality(At(S)) \in Nat
<1>1. At(S) \in SUBSET Goroutines
  BY DEF At
<1>2. IsFiniteSet(At(S))
  BY <1>1, FS_Subset, PoolAssumption DEF PoolAssumption
<1> QED
  BY <1>2, FS_CardinalityType

(* A goroutine's own step changes the sets of points only at itself. *)
LEMMA GotoAt ==
    ASSUME TypeOK, NEW g \in Goroutines, NEW point \in Points, Goto(g, point), NEW S
    PROVE  /\ pc' \in [Goroutines -> Points]
           /\ (pc[g] \in S <=> point \in S) => At(S)' = At(S)
           /\ pc[g] \in S /\ point \notin S =>
                /\ g \in At(S) /\ At(S)' = At(S) \ {g}
                /\ Cardinality(At(S)') = Cardinality(At(S)) - 1
<1>1. pc \in [Goroutines -> Points] /\ pc' = [pc EXCEPT ![g] = point]
  BY DEF TypeOK, Goto
<1>2. (pc[g] \in S <=> point \in S) => At(S)' = At(S)
  BY <1>1 DEF At
<1>3. ASSUME pc[g] \in S, point \notin S
      PROVE  g \in At(S) /\ At(S)' = At(S) \ {g}
  BY <1>1, <1>3 DEF At
<1>4. ASSUME pc[g] \in S, point \notin S
      PROVE  Cardinality(At(S)') = Cardinality(At(S)) - 1
  BY <1>3, <1>4, AtFinite, FS_RemoveElement
<1> QED
  BY <1>1, <1>2, <1>3, <1>4

(* The goroutines that Resize starts were not there before. *)
LEMMA SpawnAt ==
    ASSUME TypeOK, NEW S \in SUBSET At({"none"}), Spawn(S),
           NEW P, "top" \in P, "none" \notin P
    PROVE  /\ pc' \in [Goroutines -> Points]
           /\ Cardinality(At(P)') = Cardinality(At(P)) + Cardinality(S)
<1>1. pc \in [Goroutines -> Points] /\ S \subseteq Goroutines
  BY DEF TypeOK, At
<1>2. pc' = [g \in Goroutines |-> IF g \in S THEN "top" ELSE pc[g]]
  BY DEF Spawn
<1>3. pc' \in [Goroutines -> Points]
  BY <1>1, <1>2 DEF Points, Serving
<1>4. At(P)' = At(P) \cup S
  BY <1>1, <1>2 DEF At
<1>5. At(P) \cap S = {}
  BY DEF At
<1>6. IsFiniteSet(S) /\ Cardinality(S) \in Nat
  BY AtFinite, FS_Subset, FS_CardinalityType
<1>7. Cardinality(At(P) \cup S) = Cardinality(At(P)) + Cardinality(S) - Cardinality({})
  BY <1>5, <1>6, AtFinite, FS_Union
<1> QED
  BY <1>3, <1>4, <1>6, <1>7, AtFinite, FS_EmptySet

-----------------------------------------------------------------------------
LEMMA InitIInv == Init => IInv
<1> SUFFICES ASSUME Init PROVE IInv
  OBVIOUS
<1>1. At(Counted) = {} /\ At(Unjoined) = {} /\ At(Ticking) = {}
  BY DEF Init, At, Counted, Unjoined, Serving, Points, Ticking
<1>2. TypeOK
  <2>1. wake \in BOOLEAN /\ closed \in BOOLEAN
    BY Zenon DEF Init
  <2>2. pc \in [Goroutines -> Points]
    BY DEF Init, Points
  <2>3. /\ 0 \in 0..MaxWorkers /\ 0 \in 0..MaxCreates
        /\ 0 \in 0..MaxResizes /\ 0 \in 0..0 /\ 0 \in Nat /\ 0 \in Int
    BY PoolAssumption DEF PoolAssumption
  <2> QED
    BY <2>1, <2>2, <2>3, Zenon DEF Init, TypeOK
<1>3. CountersExact
  BY <1>1, FS_EmptySet DEF Init, CountersExact, Counted, Unjoined
<1>4. DrainInv
  BY <1>1 DEF Init, DrainInv
<1> QED
  BY <1>2, <1>3, <1>4 DEF IInv

(* A goroutine that moves about its loop, without entering a tick once     *)
(* stopCh is closed, keeps the counters and the drain condition.           *)
LEMMA LoopStep ==
    ASSUME IInv, NEW g \in Goroutines, NEW point \in Counted,
           pc[g] \in Serving, Goto(g, point),
           UNCHANGED <<current, wg, closed, waiter, stopRet>>,
           point \in Ticking => pc[g] \in Ticking \/ ~closed
    PROVE  pc' \in [Goroutines -> Points] /\ CountersExact' /\ DrainInv'
<1>1. TypeOK /\ CountersExact /\ DrainInv
  BY DEF IInv
<1>2. point \in Points /\ Serving \subseteq Counted /\ Serving \subseteq Unjoined
      /\ point \in Unjoined
  BY DEF Counted, Unjoined, Points, Serving
<1>3. pc' \in [Goroutines -> Points]
  BY <1>1, <1>2, GotoAt
<1>4. At(Counted)' = At(Counted) /\ At(Unjoined)' = At(Unjoined)
  BY <1>1, <1>2, GotoAt
<1>5. CountersExact'
  BY <1>1, <1>4 DEF CountersExact, Counted, Unjoined
<1>6. DrainInv'
  <2>1. ASSUME waiter \in {"released", "done"} PROVE At(Ticking)' = {}
    <3>1. closed /\ At(Ticking) = {}
      BY <1>1, <2>1 DEF DrainInv
    <3>2. pc[g] \notin Ticking /\ point \notin Ticking
      BY <3>1 DEF At
    <3>3. At(Ticking)' = At(Ticking)
      BY <1>1, <1>2, <3>2, GotoAt
    <3> QED
      BY <3>1, <3>3
  <2> QED
    BY <1>1, <2>1 DEF DrainInv
<1> QED
  BY <1>3, <1>5, <1>6

LEMMA ResizeIInv == ASSUME IInv, NEW t \in Targets, Resize(t) PROVE IInv'
<1>1. TypeOK /\ CountersExact /\ DrainInv
  BY DEF IInv
<1>2. t \in Int /\ MaxWorkers \in Nat /\ MaxResizes \in Nat
  BY PoolAssumption DEF PoolAssumption
<1>3. Clamp(t) \in 0..MaxWorkers
  BY <1>2 DEF Clamp
<1>4. current \in 0..MaxWorkers /\ wg \in Nat /\ resizes \in 0..MaxResizes
  BY <1>1 DEF TypeOK
<1>5. /\ wake' \in BOOLEAN /\ closed' \in BOOLEAN
      /\ waiter' \in {"none", "called", "waiting", "released", "done", "panicked"}
      /\ stopRet' \in {"none", "nil", "deadline"}
      /\ waiting' \in 0..creates' /\ hints' \in 0..creates'
      /\ creates' \in 0..MaxCreates /\ due' \in Int
  BY <1>1, Zenon DEF TypeOK, Resize, stopVars, queueVars
<1>6. desired' \in 0..MaxWorkers /\ resizes' \in 0..MaxResizes
  BY <1>2, <1>3, <1>4 DEF Resize
<1>7. CASE Clamp(t) - current <= 0
  <2>1. UNCHANGED <<current, pc, wg, closed, waiter, stopRet>>
    BY <1>3, <1>4, <1>7 DEF Resize, stopVars
  <2>2. TypeOK'
    BY <1>1, <1>5, <1>6, <2>1 DEF TypeOK
  <2>3. CountersExact' /\ DrainInv'
    BY <1>1, <2>1 DEF CountersExact, DrainInv, At
  <2> QED
    BY <2>2, <2>3 DEF IInv
<1>8. CASE Clamp(t) - current > 0
  <2>1. PICK S \in SUBSET At({"none"}) :
             Cardinality(S) = Clamp(t) - current /\ Spawn(S)
    BY <1>3, <1>4, <1>8 DEF Resize
  <2>2. /\ current' = current + (Clamp(t) - current)
        /\ wg' = wg + (Clamp(t) - current)
        /\ UNCHANGED <<closed, waiter, stopRet>>
    BY <1>3, <1>4, <1>8 DEF Resize, stopVars
  <2>3. /\ "top" \in Counted /\ "none" \notin Counted
        /\ "top" \in Unjoined /\ "none" \notin Unjoined
    BY DEF Counted, Unjoined, Serving, Points
  <2>4. /\ pc' \in [Goroutines -> Points]
        /\ Cardinality(At(Counted)') = Cardinality(At(Counted)) + Cardinality(S)
        /\ Cardinality(At(Unjoined)') = Cardinality(At(Unjoined)) + Cardinality(S)
    BY <1>1, <2>1, <2>3, SpawnAt
  <2>5. current' \in 0..MaxWorkers /\ wg' \in Nat
    BY <1>3, <1>4, <1>8, <2>2
  <2>6. TypeOK'
    BY <1>5, <1>6, <2>4, <2>5, Zenon DEF TypeOK
  <2>7. CountersExact'
    BY <1>1, <2>1, <2>2, <2>4 DEF CountersExact, Counted, Unjoined
  <2>8. At(Ticking)' = At(Ticking)
    BY <1>1, <2>1 DEF TypeOK, At, Spawn, Ticking
  <2>9. DrainInv'
    BY <1>1, <2>2, <2>8 DEF DrainInv
  <2> QED
    BY <2>6, <2>7, <2>9 DEF IInv
<1> QED
  BY <1>3, <1>4, <1>7, <1>8

(* The steps of the loop of run. *)
LEMMA LoopIInv ==
    ASSUME IInv, NEW g \in Goroutines,
           \/ CheckExcess(g) \/ PollStop(g) \/ Claim(g) \/ ClaimError(g)
           \/ FinishTick(g) \/ IdleStop(g) \/ IdleWake(g) \/ IdleBackoff(g)
    PROVE  IInv'
<1> DEFINE Moves(point) ==
      /\ point \in Counted /\ pc[g] \in Serving /\ Goto(g, point)
      /\ point \in Ticking => pc[g] \in Ticking \/ ~closed
<1>1. TypeOK
  BY DEF IInv
<1>2. \E point \in Counted : Moves(point)
  <2>1. CASE CheckExcess(g)
    <3>1. Moves(IF current > desired THEN "leave" ELSE "poll")
      BY <2>1 DEF CheckExcess, Counted, Serving, Ticking
    <3> QED
      BY <3>1
  <2>2. CASE PollStop(g)
    <3>1. CASE closed
      <4>1. Moves("leave")
        BY <2>2, <3>1 DEF PollStop, Counted, Serving, Ticking
      <4> QED
        BY <4>1
    <3>2. CASE ~closed
      <4>1. Moves("claim")
        BY <2>2, <3>2 DEF PollStop, Counted, Serving, Ticking
      <4> QED
        BY <4>1
    <3> QED
      BY <3>1, <3>2
  <2>3. CASE Claim(g)
    <3>1. Moves("busy") \/ Moves("idle")
      BY <2>3 DEF Claim, Counted, Serving, Ticking
    <3> QED
      BY <3>1
  <2>4. CASE ClaimError(g) \/ FinishTick(g) \/ IdleStop(g) \/ IdleWake(g) \/ IdleBackoff(g)
    <3>1. Moves("idle") \/ Moves("top") \/ Moves("leave")
      BY <2>4 DEF ClaimError, FinishTick, IdleStop, IdleWake, IdleBackoff,
                  Counted, Serving, Ticking
    <3> QED
      BY <3>1
  <2> QED
    BY <2>1, <2>2, <2>3, <2>4
<1>3. UNCHANGED <<desired, current, wg, closed, waiter, stopRet, hints, resizes, creates>>
  BY DEF CheckExcess, PollStop, Claim, ClaimError, FinishTick, IdleStop, IdleWake,
         IdleBackoff, stopVars, queueVars
<1>4. pc' \in [Goroutines -> Points] /\ CountersExact' /\ DrainInv'
  BY <1>2, <1>3, LoopStep
<1>5. waiting' \in 0..creates
  <2>1. waiting \in 0..creates /\ creates \in 0..MaxCreates /\ MaxCreates \in Nat
    BY <1>1, PoolAssumption DEF TypeOK, PoolAssumption
  <2>2. waiting' = waiting \/ (waiting' = waiting - 1 /\ waiting' \in Nat)
    BY <2>1 DEF CheckExcess, PollStop, Claim, ClaimError, FinishTick, IdleStop,
                IdleWake, IdleBackoff, queueVars
  <2> QED
    BY <2>1, <2>2
<1>6. wake' \in BOOLEAN
  <2>1. wake' = wake \/ wake' = FALSE
    BY Zenon DEF CheckExcess, PollStop, Claim, ClaimError, FinishTick, IdleStop,
                 IdleWake, IdleBackoff
  <2> QED
    BY <1>1, <2>1, Zenon DEF TypeOK
<1>7. due' \in Int
  <2>1. waiting \in Int /\ waiting' \in Int /\ due \in Int
    BY <1>1, <1>5, PoolAssumption DEF TypeOK, PoolAssumption
  <2>2. due' \in {due, due - 1, due - (waiting - waiting')}
    BY DEF CheckExcess, PollStop, Claim, ClaimError, FinishTick, IdleStop, IdleWake,
           IdleBackoff
  <2> QED
    BY <2>1, <2>2
<1>8. TypeOK'
  BY <1>1, <1>3, <1>4, <1>5, <1>6, <1>7, Zenon DEF TypeOK
<1> QED
  BY <1>4, <1>8 DEF IInv

LEMMA DecCurrentIInv == ASSUME IInv, NEW g \in Goroutines, DecCurrent(g) PROVE IInv'
<1>1. TypeOK /\ CountersExact /\ DrainInv
  BY DEF IInv
<1>2. /\ pc[g] = "leave" /\ Goto(g, "left")
      /\ current' = current - 1
      /\ UNCHANGED <<desired, wg, wake, closed, waiter, stopRet, waiting, hints,
                     creates, resizes, due>>
  BY DEF DecCurrent, stopVars, queueVars
<1>3. /\ "left" \in Points /\ "left" \in Unjoined /\ "leave" \in Unjoined
      /\ "leave" \in Counted /\ "left" \notin Counted
      /\ "leave" \notin Ticking /\ "left" \notin Ticking
  BY DEF Points, Unjoined, Counted, Serving, Ticking
<1>4. /\ pc' \in [Goroutines -> Points]
      /\ At(Unjoined)' = At(Unjoined) /\ At(Ticking)' = At(Ticking)
      /\ Cardinality(At(Counted)') = Cardinality(At(Counted)) - 1
  BY <1>1, <1>2, <1>3, GotoAt
<1>5. CountersExact'
  BY <1>1, <1>2, <1>4 DEF CountersExact, Counted, Unjoined
<1>6. current' \in 0..MaxWorkers
  <2>1. Cardinality(At(Counted)') \in Nat
    <3>1. At(Counted)' = At(Counted) \ {g}
      BY <1>1, <1>2, <1>3, GotoAt
    <3> QED
      BY <3>1, AtFinite, FS_RemoveElement, FS_CardinalityType
  <2>2. current' = Cardinality(At(Counted)')
    BY <1>5 DEF CountersExact, Counted
  <2>3. current \in 0..MaxWorkers /\ MaxWorkers \in Nat
    BY <1>1, PoolAssumption DEF TypeOK, PoolAssumption
  <2> QED
    BY <1>2, <2>1, <2>2, <2>3
<1>7. TypeOK'
  BY <1>1, <1>2, <1>4, <1>6, Zenon DEF TypeOK
<1>8. DrainInv'
  BY <1>1, <1>2, <1>4 DEF DrainInv
<1> QED
  BY <1>5, <1>7, <1>8 DEF IInv

(* The last Done releases Wait: the goroutine that calls it is then the    *)
(* only one left, and it is not in a tick.                                 *)
LEMMA DoneIInv == ASSUME IInv, NEW g \in Goroutines, Done(g) PROVE IInv'
<1>1. TypeOK /\ CountersExact /\ DrainInv
  BY DEF IInv
<1>2. /\ pc[g] = "left" /\ Goto(g, "none") /\ wg' = wg - 1
      /\ waiter' = IF waiter = "waiting" /\ wg = 1 THEN "released" ELSE waiter
      /\ UNCHANGED <<desired, current, wake, closed, stopRet, waiting, hints,
                     creates, resizes, due>>
  BY DEF Done, queueVars
<1>3. /\ "none" \in Points /\ "none" \notin Unjoined /\ "left" \in Unjoined
      /\ "left" \notin Counted /\ "none" \notin Counted
      /\ "left" \notin Ticking /\ "none" \notin Ticking /\ Ticking \subseteq Unjoined
  BY DEF Points, Unjoined, Counted, Serving, Ticking
<1>4. /\ pc' \in [Goroutines -> Points]
      /\ At(Counted)' = At(Counted) /\ At(Ticking)' = At(Ticking)
      /\ g \in At(Unjoined) /\ At(Unjoined)' = At(Unjoined) \ {g}
      /\ Cardinality(At(Unjoined)') = Cardinality(At(Unjoined)) - 1
  BY <1>1, <1>2, <1>3, GotoAt
<1>5. CountersExact'
  BY <1>1, <1>2, <1>4 DEF CountersExact, Counted, Unjoined
<1>6. wg' \in Nat
  <2>1. Cardinality(At(Unjoined)') \in Nat
    BY <1>4, AtFinite, FS_RemoveElement, FS_CardinalityType
  <2> QED
    BY <1>5, <2>1 DEF CountersExact, Unjoined
<1>7. waiter' \in {"none", "called", "waiting", "released", "done", "panicked"}
  BY <1>1, <1>2 DEF TypeOK
<1>8. TypeOK'
  BY <1>1, <1>2, <1>4, <1>6, <1>7, Zenon DEF TypeOK
<1>9. DrainInv'
  <2>1. ASSUME waiter = "waiting", wg = 1 PROVE At(Ticking)' = {}
    <3>1. Cardinality(At(Unjoined)) = 1
      BY <1>1, <2>1 DEF CountersExact, Unjoined
    <3>2. Cardinality(At(Unjoined) \ {g}) = 0
      BY <1>4, <3>1
    <3>3. At(Unjoined) \ {g} = {}
      BY <3>2, AtFinite, FS_RemoveElement, FS_EmptySet
    <3>4. g \notin At(Ticking) /\ At(Ticking) \subseteq At(Unjoined)
      BY <1>2, <1>3 DEF At
    <3> QED
      BY <1>4, <3>3, <3>4
  <2> QED
    BY <1>1, <1>2, <1>4, <2>1 DEF DrainInv
<1> QED
  BY <1>5, <1>8, <1>9 DEF IInv

LEMMA RequestIInv ==
    ASSUME IInv, (\E ok \in BOOLEAN : Enqueue(ok)) \/ Wake
    PROVE  IInv'
<1>1. TypeOK /\ CountersExact /\ DrainInv
  BY DEF IInv
<1>2. UNCHANGED <<desired, current, pc, wg, closed, waiter, stopRet, resizes, due>>
  BY DEF Enqueue, Wake, poolVars, stopVars
<1>3. CountersExact' /\ DrainInv'
  BY <1>1, <1>2 DEF CountersExact, DrainInv, At
<1>4. wake' \in BOOLEAN
  <2>1. wake' = wake \/ wake' = TRUE
    BY Zenon DEF Enqueue, Wake
  <2> QED
    BY <1>1, <2>1, Zenon DEF TypeOK
<1>5. waiting' \in 0..creates' /\ hints' \in 0..creates' /\ creates' \in 0..MaxCreates
  <2>1. /\ waiting \in 0..creates /\ hints \in 0..creates
        /\ creates \in 0..MaxCreates /\ MaxCreates \in Nat
    BY <1>1, PoolAssumption DEF TypeOK, PoolAssumption
  <2>2. CASE Wake
    BY <2>1, <2>2 DEF Wake
  <2>3. ASSUME NEW ok \in BOOLEAN, Enqueue(ok)
        PROVE  waiting' \in 0..creates' /\ hints' \in 0..creates' /\ creates' \in 0..MaxCreates
    BY <2>1, <2>3 DEF Enqueue
  <2> QED
    BY <2>2, <2>3
<1> QED
  BY <1>1, <1>2, <1>3, <1>4, <1>5, Zenon DEF IInv, TypeOK

LEMMA StopIInv ==
    ASSUME IInv, Stop \/ WaitCall \/ WaitResume \/ StopReturns
    PROVE  IInv'
<1>1. TypeOK /\ CountersExact /\ DrainInv
  BY DEF IInv
<1>2. UNCHANGED <<desired, current, pc, wg, wake, waiting, hints, creates, resizes>>
  BY DEF Stop, WaitCall, WaitResume, StopReturns, poolVars, queueVars
<1>3. CountersExact' /\ At(Ticking)' = At(Ticking)
  BY <1>1, <1>2 DEF CountersExact, At
<1>4. closed' \in BOOLEAN
  <2>1. closed' = closed \/ closed' = TRUE
    BY Zenon DEF Stop, WaitCall, WaitResume, StopReturns
  <2> QED
    BY <1>1, <2>1, Zenon DEF TypeOK
<1>5. /\ waiter' \in {"none", "called", "waiting", "released", "done", "panicked"}
      /\ stopRet' \in {"none", "nil", "deadline"}
  BY <1>1 DEF TypeOK, Stop, WaitCall, WaitResume, StopReturns
<1>6. TypeOK'
  <2>1. due' \in Int
    <3>1. due' = due \/ due' = Cardinality(At({"claim"}))
      BY DEF Stop, WaitCall, WaitResume, StopReturns
    <3> QED
      BY <1>1, <3>1, AtFinite DEF TypeOK
  <2> QED
    BY <1>1, <1>2, <1>4, <1>5, <2>1, Zenon DEF TypeOK
<1>7. ASSUME wg = 0 PROVE At(Ticking) = {}
  <2>1. At(Unjoined) = {}
    BY <1>1, <1>7, AtFinite, FS_EmptySet DEF CountersExact, Unjoined
  <2>2. At(Ticking) \subseteq At(Unjoined)
    BY DEF At, Ticking, Unjoined, Points, Serving
  <2> QED
    BY <2>1, <2>2
<1>8. DrainInv'
  <2>1. CASE Stop
    BY <1>1, <1>3, <2>1 DEF DrainInv, Stop
  <2>2. CASE WaitCall
    BY <1>1, <1>3, <1>7, <2>2 DEF DrainInv, WaitCall
  <2>3. CASE WaitResume
    BY <1>1, <1>3, <2>3 DEF DrainInv, WaitResume
  <2>4. CASE StopReturns
    BY <1>1, <1>3, <2>4 DEF DrainInv, StopReturns
  <2> QED
    BY <2>1, <2>2, <2>3, <2>4
<1> QED
  BY <1>3, <1>6, <1>8 DEF IInv

LEMMA StutterIInv == ASSUME IInv, UNCHANGED vars PROVE IInv'
BY DEF IInv, vars, TypeOK, CountersExact, DrainInv, At

(* The inductive step: one case per action. *)
LEMMA NextIInv == ASSUME IInv, [Next]_vars PROVE IInv'
<1>1. ASSUME NEW t \in Targets, Resize(t) PROVE IInv'
  BY <1>1, ResizeIInv
<1>2. ASSUME NEW g \in Goroutines, RunStep(g) \/ ClaimError(g) PROVE IInv'
  <2>1. CASE DecCurrent(g)
    BY <2>1, DecCurrentIInv
  <2>2. CASE Done(g)
    BY <2>2, DoneIInv
  <2> QED
    BY <1>2, <2>1, <2>2, LoopIInv DEF RunStep
<1>3. CASE (\E ok \in BOOLEAN : Enqueue(ok)) \/ Wake
  BY <1>3, RequestIInv
<1>4. CASE Stop \/ WaitCall \/ WaitResume \/ StopReturns
  BY <1>4, StopIInv
<1>5. CASE UNCHANGED vars
  BY <1>5, StutterIInv
<1> QED
  BY <1>1, <1>2, <1>3, <1>4, <1>5 DEF Next

(* The inductive invariant holds in every reachable state of the pool. *)
THEOREM PoolInvariant == Spec => []IInv
<1> QED
  BY InitIInv, NextIInv, PTL DEF Spec

-----------------------------------------------------------------------------
(* The pool is always well typed; in particular the counters of Resize     *)
(* stay between zero and the ceiling.                                      *)
THEOREM TypeCorrect == Spec => []TypeOK
<1>1. IInv => TypeOK
  BY DEF IInv
<1> QED
  BY <1>1, PoolInvariant, PTL

(* p.current and the WaitGroup count exactly the goroutines they should,   *)
(* in every interleaving of Resize, run and Stop.                          *)
THEOREM CountersAreExact == Spec => []CountersExact
<1>1. IInv => CountersExact
  BY DEF IInv
<1> QED
  BY <1>1, PoolInvariant, PTL

(* Ticks are counted by current, which respects the ceiling. *)
LEMMA TicksBounded ==
    ASSUME IInv, NEW S, S \subseteq Ticking
    PROVE  Cardinality(At(S)) <= MaxWorkers
<1>1. Cardinality(At(Counted)) <= MaxWorkers
  BY DEF IInv, TypeOK, CountersExact, Counted
<1>2. At(S) \in SUBSET At(Counted)
  BY DEF At, Ticking, Counted, Serving
<1>3. Cardinality(At(S)) <= Cardinality(At(Counted))
  BY <1>2, AtFinite, FS_Subset
<1>4. /\ Cardinality(At(S)) \in Nat /\ Cardinality(At(Counted)) \in Nat
      /\ MaxWorkers \in Nat
  BY AtFinite, PoolAssumption DEF PoolAssumption
<1> QED
  BY <1>1, <1>3, <1>4

(* No more than MaxWorkers (16) records are ever in a tick at once.        *)
THEOREM CeilingHolds == Spec => []ConcurrencyCeiling
<1>1. IInv => ConcurrencyCeiling
  BY TicksBounded DEF ConcurrencyCeiling
<1> QED
  BY <1>1, PoolInvariant, PTL

(* When Stop returns nil no record is being processed, although Resize may *)
(* have started goroutines since.                                          *)
THEOREM StopQuiesces == Spec => []StopMeansQuiet
<1>1. IInv => StopMeansQuiet
  BY DEF IInv, DrainInv, StopMeansQuiet
<1> QED
  BY <1>1, PoolInvariant, PTL

-----------------------------------------------------------------------------
(***************************************************************************)
(* Why claims after Stop are bounded: every one of them uses up a worker   *)
(* that had passed the poll before stopCh closed, because nobody passes it *)
(* afterwards.  So the workers still before a claim never outnumber what   *)
(* is due.                                                                 *)
(***************************************************************************)
LateInv ==
    /\ due <= MaxWorkers
    /\ ~closed => due = 0
    /\ closed => Cardinality(At({"claim"})) <= due

(* A worker at its claim goes on with a record or without one. *)
LEMMA ClaimLate ==
    ASSUME IInv, LateInv, NEW g \in Goroutines, Claim(g) \/ ClaimError(g)
    PROVE  LateInv'
<1>1. TypeOK /\ UNCHANGED closed /\ pc[g] = "claim"
  BY DEF IInv, Claim, ClaimError, stopVars
<1>2. PICK point \in {"busy", "idle"} : Goto(g, point)
  BY DEF Claim, ClaimError
<1>3. Cardinality(At({"claim"})') = Cardinality(At({"claim"})) - 1
  <2>1. point \in Points /\ pc[g] \in {"claim"} /\ point \notin {"claim"}
    BY <1>1, <1>2 DEF Points, Serving
  <2> QED
    BY <1>1, <1>2, <2>1, GotoAt
<1>4. Cardinality(At({"claim"})) \in Nat /\ due \in Int /\ MaxWorkers \in Nat
  BY <1>1, AtFinite, PoolAssumption DEF TypeOK, PoolAssumption
<1>5. CASE ~closed
  BY <1>1, <1>5 DEF LateInv, Claim, ClaimError
<1>6. CASE closed
  <2>1. waiting \in Int
    BY <1>1, PoolAssumption DEF TypeOK, PoolAssumption
  <2>2. due' \in {due, due - 1}
    BY <1>4, <1>6, <2>1 DEF Claim, ClaimError
  <2>3. due' <= MaxWorkers /\ Cardinality(At({"claim"})') <= due'
    BY <1>3, <1>4, <1>6, <2>2 DEF LateInv
  <2> QED
    BY <1>1, <1>6, <2>3 DEF LateInv
<1> QED
  BY <1>5, <1>6

(* Any other step of a goroutine reaches its claim only while stopCh is    *)
(* open.                                                                   *)
LEMMA RunLate ==
    ASSUME IInv, LateInv, NEW g \in Goroutines, RunStep(g), ~Claim(g)
    PROVE  LateInv'
<1>1. TypeOK /\ UNCHANGED <<closed, due>>
  BY DEF IInv, RunStep, CheckExcess, PollStop, FinishTick, IdleStop, IdleWake,
         IdleBackoff, DecCurrent, Done, stopVars
<1>2. CASE ~closed
  BY <1>1, <1>2 DEF LateInv
<1>3. CASE closed
  <2>1. PICK point \in {"leave", "poll", "top", "left", "none"} : Goto(g, point)
    BY <1>3 DEF RunStep, CheckExcess, PollStop, FinishTick, IdleStop, IdleWake,
                IdleBackoff, DecCurrent, Done
  <2>2. pc[g] # "claim"
    BY DEF RunStep, CheckExcess, PollStop, FinishTick, IdleStop, IdleWake,
           IdleBackoff, DecCurrent, Done
  <2>3. At({"claim"})' = At({"claim"})
    <3>1. point \in Points /\ (pc[g] \in {"claim"} <=> point \in {"claim"})
      BY <2>1, <2>2 DEF Points, Serving
    <3> QED
      BY <1>1, <2>1, <3>1, GotoAt
  <2> QED
    BY <1>1, <2>3 DEF LateInv
<1> QED
  BY <1>2, <1>3

LEMMA NextLate == ASSUME IInv, LateInv, [Next]_vars PROVE LateInv'
<1>1. TypeOK
  BY DEF IInv
<1>2. ASSUME NEW t \in Targets, Resize(t) PROVE LateInv'
  <2>1. At({"claim"})' = At({"claim"}) /\ UNCHANGED <<closed, due>>
    BY <1>1, <1>2 DEF Resize, Spawn, At, TypeOK, stopVars
  <2> QED
    BY <2>1 DEF LateInv
<1>3. ASSUME NEW g \in Goroutines, RunStep(g) \/ ClaimError(g) PROVE LateInv'
  BY <1>3, ClaimLate, RunLate
<1>4. CASE Stop
  <2>1. due' = Cardinality(At({"claim"})) /\ closed' = TRUE /\ At({"claim"})' = At({"claim"})
    BY <1>4 DEF Stop, poolVars, At
  <2>2. Cardinality(At({"claim"})) <= MaxWorkers /\ Cardinality(At({"claim"})) \in Nat
    BY TicksBounded, AtFinite DEF Ticking
  <2> QED
    BY <2>1, <2>2 DEF LateInv
<1>5. CASE (\E ok \in BOOLEAN : Enqueue(ok)) \/ Wake
           \/ WaitCall \/ WaitResume \/ StopReturns \/ UNCHANGED vars
  <2>1. UNCHANGED <<pc, closed, due>>
    BY <1>5 DEF Enqueue, Wake, WaitCall, WaitResume, StopReturns, poolVars, stopVars, vars
  <2> QED
    BY <2>1 DEF LateInv, At
<1> QED
  BY <1>2, <1>3, <1>4, <1>5 DEF Next

(***************************************************************************)
(* The work that still begins after Stop is bounded: at most one record    *)
(* for each worker that had passed the poll, and no more than MaxWorkers.  *)
(***************************************************************************)
THEOREM LateClaimsBounded == Spec => []StopClaimsBounded
<1>1. Init => LateInv
  BY PoolAssumption DEF Init, LateInv, PoolAssumption
<1>2. IInv /\ LateInv => StopClaimsBounded
  <2> SUFFICES ASSUME IInv, LateInv PROVE StopClaimsBounded
    OBVIOUS
  <2>1. due \in Int /\ MaxWorkers \in Nat /\ Cardinality(At({"claim"})) \in Nat
    BY AtFinite, PoolAssumption DEF IInv, TypeOK, PoolAssumption
  <2>2. 0 <= due /\ due <= MaxWorkers
    BY <2>1 DEF LateInv
  <2> QED
    BY <2>1, <2>2 DEF StopClaimsBounded
<1> QED
  BY <1>1, <1>2, InitIInv, NextIInv, NextLate, PTL DEF Spec
=============================================================================
