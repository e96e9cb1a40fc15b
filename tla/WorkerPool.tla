------------------------------ MODULE WorkerPool ------------------------------
(***************************************************************************)
(* The generation worker pool of internal/worker/pool.go: how goroutines   *)
(* running Pool.run are started by Resize, notice that they are surplus,   *)
(* sleep and are woken, and are drained by Stop.                           *)
(*                                                                         *)
(* One step is one critical section of p.mu, one channel operation or one  *)
(* WaitGroup call: goroutines interleave between any two of them.  What a  *)
(* tick does to a record is the subject of RecordPipeline; here a tick     *)
(* takes one waiting record off a counter.                                 *)
(***************************************************************************)
EXTENDS Integers, FiniteSets

CONSTANTS
    Goroutines,   \* identities available to go p.run(); an ended one is reused
    MaxWorkers,   \* the ceiling in Resize (16 in the code)
    Targets,      \* the arguments Resize is called with
    MaxResizes,   \* bound on the number of Resize calls
    MaxCreates    \* bound on the number of records ever queued

ASSUME PoolAssumption ==
    /\ IsFiniteSet(Goroutines)
    /\ MaxWorkers \in Nat \ {0}
    /\ Targets \subseteq Int
    /\ MaxResizes \in Nat
    /\ MaxCreates \in Nat

VARIABLES
    desired,      \* p.desired
    current,      \* p.current
    pc,           \* where each goroutine stands in Pool.run
    wg,           \* the counter of p.wg
    wake,         \* TRUE iff the one-slot channel p.wake holds a token
    closed,       \* p.closed, set together with close(p.stopCh)
    waiter,       \* the goroutine that Stop starts to call p.wg.Wait
    stopRet,      \* what Stop returned: "none" while it has not
    waiting,      \* records in status waiting
    hints,        \* requests between their repository call and pool.Wake
    resizes,      \* Resize calls so far
    creates,      \* records queued so far
    due           \* history: workers past the poll when stopCh closed, less the
                  \* records claimed since

poolVars  == <<desired, current, pc, wg>>
stopVars  == <<closed, waiter, stopRet>>
queueVars == <<waiting, hints, creates>>
vars == <<desired, current, pc, wg, wake, closed, waiter, stopRet,
          waiting, hints, resizes, creates, due>>

(***************************************************************************)
(* Program points of Pool.run:                                             *)
(*   "none"   no goroutine            "idle"  in the idle select           *)
(*   "top"    before the excess test  "leave" returned, current-- pending  *)
(*   "poll"   before the stopCh poll  "left"  wg.Done pending              *)
(*   "claim"  in ClaimWaiting         "busy"  processing a claimed record  *)
(***************************************************************************)
Serving == {"top", "poll", "claim", "busy", "idle"}
Ticking == {"claim", "busy"}
Points  == Serving \cup {"none", "leave", "left"}

At(S) == {g \in Goroutines : pc[g] \in S}

Init ==
    /\ desired = 0 /\ current = 0 /\ wg = 0
    /\ pc = [g \in Goroutines |-> "none"]
    /\ wake = FALSE
    /\ closed = FALSE /\ waiter = "none" /\ stopRet = "none"
    /\ waiting = 0 /\ hints = 0 /\ resizes = 0 /\ creates = 0
    /\ due = 0

-----------------------------------------------------------------------------
(* Resize, and Start, which only calls it. *)

(* Mutant: the ceiling of 16 forgotten. *)
ClampNoCeiling(t) == IF t < 0 THEN 0 ELSE t

Clamp(t) == IF t < 0 THEN 0 ELSE IF t > MaxWorkers THEN MaxWorkers ELSE t

Spawn(S) == pc' = [g \in Goroutines |-> IF g \in S THEN "top" ELSE pc[g]]

(* Mutant: the target taken for the number of workers to add. *)
ResizeAddsTarget(t) ==
    /\ resizes < MaxResizes
    /\ resizes' = resizes + 1
    /\ desired' = Clamp(t)
    /\ \E S \in SUBSET At({"none"}) :
         /\ Cardinality(S) = Clamp(t)
         /\ Spawn(S)
    /\ current' = Clamp(t)
    /\ wg' = wg + Clamp(t)
    /\ UNCHANGED <<wake, stopVars, queueVars, due>>

Resize(t) ==
    /\ resizes < MaxResizes
    /\ resizes' = resizes + 1
    /\ desired' = Clamp(t)
    /\ LET delta == Clamp(t) - current IN
         \/ /\ delta <= 0
            /\ UNCHANGED <<current, pc, wg>>
         \/ /\ delta > 0
            /\ \E S \in SUBSET At({"none"}) :
                 /\ Cardinality(S) = delta
                 /\ Spawn(S)
            /\ current' = current + delta
            /\ wg' = wg + delta
    /\ UNCHANGED <<wake, stopVars, queueVars, due>>

-----------------------------------------------------------------------------
(* Pool.run. *)

Goto(g, point) == pc' = [pc EXCEPT ![g] = point]

(* The excess test: one critical section, acted on after the unlock. *)
CheckExcess(g) ==
    /\ pc[g] = "top"
    /\ Goto(g, IF current > desired THEN "leave" ELSE "poll")
    /\ UNCHANGED <<desired, current, wg, wake, stopVars, queueVars, resizes, due>>

(* Mutant: the stop channel is not polled between two ticks. *)
PollStopIgnored(g) ==
    /\ pc[g] = "poll"
    /\ Goto(g, "claim")
    /\ UNCHANGED <<desired, current, wg, wake, stopVars, queueVars, resizes, due>>

(* The non-blocking poll of stopCh. *)
PollStop(g) ==
    /\ pc[g] = "poll"
    /\ Goto(g, IF closed THEN "leave" ELSE "claim")
    /\ UNCHANGED <<desired, current, wg, wake, stopVars, queueVars, resizes, due>>

(* tickOnce claims a record, or finds none and reports (false, nil). *)
Claim(g) ==
    /\ pc[g] = "claim"
    /\ \/ /\ waiting > 0
          /\ waiting' = waiting - 1
          /\ due' = IF closed THEN due - 1 ELSE due
          /\ Goto(g, "busy")
       \/ /\ waiting = 0
          /\ UNCHANGED <<waiting, due>>
          /\ Goto(g, "idle")
    /\ UNCHANGED <<desired, current, wg, wake, stopVars, hints, resizes, creates>>

(* ClaimWaiting fails, before or after its transaction took a record. *)
ClaimError(g) ==
    /\ pc[g] = "claim"
    /\ waiting' \in {waiting, waiting - 1} \cap Nat
    /\ due' = IF closed THEN due - (waiting - waiting') ELSE due
    /\ Goto(g, "idle")
    /\ UNCHANGED <<desired, current, wg, wake, stopVars, hints, resizes, creates>>

(* The claimed record is processed; the loop continues without sleeping. *)
FinishTick(g) ==
    /\ pc[g] = "busy"
    /\ Goto(g, "top")
    /\ UNCHANGED <<desired, current, wg, wake, stopVars, queueVars, resizes, due>>

(* The idle select: stop, a wake token, or the backoff timer. *)
IdleStop(g) ==
    /\ pc[g] = "idle"
    /\ closed
    /\ Goto(g, "leave")
    /\ UNCHANGED <<desired, current, wg, wake, stopVars, queueVars, resizes, due>>

IdleWake(g) ==
    /\ pc[g] = "idle"
    /\ wake
    /\ wake' = FALSE
    /\ Goto(g, "top")
    /\ UNCHANGED <<desired, current, wg, stopVars, queueVars, resizes, due>>

(* Mutant: no backoff timer, a sleeper relies on wake tokens alone. *)
IdleNoBackoff(g) == IdleWake(g)

IdleBackoff(g) ==
    /\ pc[g] = "idle"
    /\ Goto(g, "top")
    /\ UNCHANGED <<desired, current, wg, wake, stopVars, queueVars, resizes, due>>

(* Mutant: the deferred current-- is missing. *)
DecCurrentMissing(g) ==
    /\ pc[g] = "leave"
    /\ Goto(g, "left")
    /\ UNCHANGED <<desired, current, wg, wake, stopVars, queueVars, resizes, due>>

(* The two deferred calls of run, in the order Go executes them. *)
DecCurrent(g) ==
    /\ pc[g] = "leave"
    /\ current' = current - 1
    /\ Goto(g, "left")
    /\ UNCHANGED <<desired, wg, wake, stopVars, queueVars, resizes, due>>

Done(g) ==
    /\ pc[g] = "left"
    /\ wg' = wg - 1
    /\ Goto(g, "none")
    /\ waiter' = IF waiter = "waiting" /\ wg = 1 THEN "released" ELSE waiter
    /\ UNCHANGED <<desired, current, wake, closed, stopRet, queueVars, resizes, due>>

-----------------------------------------------------------------------------
(* Requests: POST /records and POST /records/:id/retry call the handler    *)
(* and then, whatever its outcome, pool.Wake.                              *)

Enqueue(ok) ==
    /\ creates < MaxCreates
    /\ creates' = creates + 1
    /\ waiting' = IF ok THEN waiting + 1 ELSE waiting
    /\ hints' = hints + 1
    /\ UNCHANGED <<poolVars, wake, stopVars, resizes, due>>

Wake ==
    /\ hints > 0
    /\ hints' = hints - 1
    /\ wake' = TRUE
    /\ UNCHANGED <<poolVars, stopVars, waiting, creates, resizes, due>>

-----------------------------------------------------------------------------
(* Stop, called once by main: it closes stopCh under the lock and starts a *)
(* goroutine that waits for the WaitGroup; main waits for that goroutine   *)
(* or for the shutdown deadline.                                           *)

Stop ==
    /\ ~closed
    /\ closed' = TRUE
    /\ waiter' = "called"
    /\ due' = Cardinality(At({"claim"}))
    /\ UNCHANGED <<poolVars, wake, stopRet, queueVars, resizes>>

(* Mutant: the done channel is closed without waiting. *)
WaitCallSkipped ==
    /\ waiter = "called"
    /\ waiter' = "done"
    /\ UNCHANGED <<poolVars, wake, closed, stopRet, queueVars, resizes, due>>

(* wg.Wait returns at once on a zero counter and blocks otherwise. *)
WaitCall ==
    /\ waiter = "called"
    /\ waiter' = IF wg = 0 THEN "done" ELSE "waiting"
    /\ UNCHANGED <<poolVars, wake, closed, stopRet, queueVars, resizes, due>>

(* A released Wait that finds the counter raised again panics, which ends  *)
(* the process (sync.WaitGroup: reused before previous Wait has returned). *)
WaitResume ==
    /\ waiter = "released"
    /\ waiter' = IF wg = 0 THEN "done" ELSE "panicked"
    /\ UNCHANGED <<poolVars, wake, closed, stopRet, queueVars, resizes, due>>

StopReturns ==
    /\ closed /\ stopRet = "none"
    /\ \/ waiter = "done" /\ stopRet' = "nil"
       \/ stopRet' = "deadline"
    /\ UNCHANGED <<poolVars, wake, closed, waiter, queueVars, resizes, due>>

-----------------------------------------------------------------------------
RunStep(g) ==
    \/ CheckExcess(g) \/ PollStop(g)
    \/ Claim(g)       \/ FinishTick(g)
    \/ IdleStop(g)    \/ IdleWake(g)   \/ IdleBackoff(g)
    \/ DecCurrent(g)  \/ Done(g)

Next ==
    /\ waiter # "panicked"
    /\ \/ \E t \in Targets : Resize(t)
       \/ \E g \in Goroutines : RunStep(g) \/ ClaimError(g)
       \/ \E ok \in BOOLEAN : Enqueue(ok)
       \/ Wake
       \/ Stop \/ WaitCall \/ WaitResume \/ StopReturns

Spec == Init /\ [][Next]_vars

(***************************************************************************)
(* The Go scheduler runs every goroutine that can run, a tick ends within  *)
(* its six-minute context, and a database that answers at all answers a    *)
(* claim infinitely often.  Requests, Resize and Stop are never forced.    *)
(***************************************************************************)
Fairness ==
    /\ \A g \in Goroutines :
         /\ WF_vars(RunStep(g) /\ waiter # "panicked")
         /\ SF_vars(Claim(g) /\ waiter # "panicked")
    /\ WF_vars(WaitCall /\ waiter # "panicked")
    /\ WF_vars(WaitResume /\ waiter # "panicked")

FairSpec == Spec /\ Fairness

-----------------------------------------------------------------------------
(* Types, with the ceiling that Resize puts on desired and current. *)
TypeOK ==
    /\ desired \in 0..MaxWorkers
    /\ current \in 0..MaxWorkers
    /\ pc \in [Goroutines -> Points]
    /\ wg \in Nat
    /\ wake \in BOOLEAN
    /\ closed \in BOOLEAN
    /\ waiter \in {"none", "called", "waiting", "released", "done", "panicked"}
    /\ stopRet \in {"none", "nil", "deadline"}
    /\ waiting \in 0..creates
    /\ hints \in 0..creates
    /\ resizes \in 0..MaxResizes
    /\ creates \in 0..MaxCreates
    /\ due \in Int

(***************************************************************************)
(* p.current counts the goroutines that have not yet run their deferred    *)
(* decrement and the WaitGroup counts the ones that have not called Done,  *)
(* whatever Resize, excess exits and Stop interleave: nothing is counted   *)
(* twice or forgotten between the two deferred calls of run.               *)
(***************************************************************************)
CountersExact ==
    /\ current = Cardinality(At(Serving \cup {"leave"}))
    /\ wg = Cardinality(At(Points \ {"none"}))

(***************************************************************************)
(* However often Resize is called while surplus workers are still leaving, *)
(* at most MaxWorkers records are processed at a time (the cap in Resize). *)
(***************************************************************************)
ConcurrencyCeiling == Cardinality(At(Ticking)) <= MaxWorkers

(***************************************************************************)
(* When Stop reports that the pool has drained, no tick is under way, and  *)
(* none will be even though Resize still starts goroutines after Stop.     *)
(***************************************************************************)
StopMeansQuiet == stopRet = "nil" => At(Ticking) = {}

(***************************************************************************)
(* stopCh may close after a worker has polled it and before its claim      *)
(* (pool.go:132-138), so records are still claimed after Stop.  But each   *)
(* worker caught there claims at most one: whatever the others do next,    *)
(* the goroutines that Resize starts later included, no more records are   *)
(* claimed than workers were past the poll, and so at most MaxWorkers.     *)
(***************************************************************************)
StopClaimsBounded == due \in 0..MaxWorkers

(***************************************************************************)
(* If a worker stays in service, the queue empties: a wake token lost to a *)
(* worker that then leaves, or spent on a claim that fails, is made good   *)
(* by the backoff timer of the idle select.                                *)
(***************************************************************************)
QueueDrains ==
    <>[](~closed /\ At(Serving) # {}) => <>[](waiting = 0)

(* A pool told to stop drains: the Wait in Stop returns, or panics. *)
StopDrains == closed ~> waiter \in {"done", "panicked"}

(***************************************************************************)
(* What the comment of Resize says: only surplus workers exit, those that  *)
(* observe p.current > p.desired.  Then with nobody on the way out the     *)
(* pool is never smaller than desired.                                     *)
(***************************************************************************)
OnlySurplusExits == ~closed /\ At({"leave"}) = {} => current >= desired
=============================================================================
