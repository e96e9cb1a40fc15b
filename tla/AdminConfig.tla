----------------------------- MODULE AdminConfig -----------------------------
(***************************************************************************)
(* The admin configuration store of internal/admin/store.go: the single    *)
(* row of upstream_configs, the copy that Store caches under s.mu, and the *)
(* worker pool target that UpdateWorkerConcurrency pushes through the      *)
(* resizer.  Three kinds of update run concurrently, one per request.      *)
(*                                                                         *)
(* One step is one SQL statement, one critical section of s.mu or one call *)
(* of the resizer.  UpdateUpstream alone keeps s.mu locked across its SQL  *)
(* statement.                                                              *)
(***************************************************************************)
EXTENDS Integers, FiniteSets

CONSTANTS
    Admins,       \* slots for admin requests in flight
    Upstreams,    \* values of base_url together with enabled_models
    Keys,         \* plain API keys an admin types in
    Mask,         \* what View shows in place of a key
    Titles,       \* site titles
    Levels,       \* worker concurrency, 1..16 in the code
    Default,      \* the row that Load seeds
    NoRow,        \* the table before the first boot
    Nothing,      \* NULL or the empty string: no key
    LostReplies,  \* TRUE iff a statement may take effect and report an error
    MaxUpdates,   \* bound on the number of updates
    MaxCrashes    \* bound on the number of restarts

AllKeys == Keys \cup {Nothing, Mask}

Config == [upstream : Upstreams, key : AllKeys, workers : Levels, title : Titles]

ASSUME ConfigAssumption ==
    /\ Default \in Config
    /\ Default.key = Nothing
    /\ NoRow \notin Config
    /\ Mask \notin Keys \cup {Nothing} /\ Nothing \notin Keys \cup Admins
    /\ LostReplies \in BOOLEAN /\ MaxUpdates \in Nat /\ MaxCrashes \in Nat

VARIABLES
    db,         \* the row
    cache,      \* s.cached and s.apiKey
    mu,         \* the request that holds s.mu for writing, or Nothing
    pool,       \* the target last given to Pool.Resize
    req,        \* updates in flight
    up,         \* the server has loaded its configuration
    overlapped, \* history: columns for which two updates ran at once
    unsure,     \* history: columns whose last statement took effect although
                \* it reported an error
    updates, crashes

vars == <<db, cache, mu, pool, req, up, overlapped, unsure, updates, crashes>>

(***************************************************************************)
(* A request: the columns it writes, where it stands ("write": the SQL     *)
(* statement is next, "cache": the cached copy is next, "resize": the      *)
(* resizer is next) and the values it carries.                             *)
(***************************************************************************)
Kinds == {"upstream", "workers", "title"}
Idle == [kind |-> "none"]
Busy(kind) == {a \in Admins : req[a].kind = kind}
Quiet(kind) == up /\ Busy(kind) = {}

Init ==
    /\ db = NoRow /\ cache = Default /\ mu = Nothing
    /\ pool = Default.workers
    /\ req = [a \in Admins |-> Idle]
    /\ up = FALSE /\ overlapped = {} /\ unsure = {} /\ updates = 0 /\ crashes = 0

-----------------------------------------------------------------------------
(* Boot: Load reads or seeds the row, then pool.Start gets the cached      *)
(* concurrency.                                                            *)
Load ==
    /\ ~up
    /\ LET row == IF db = NoRow THEN Default ELSE db IN
         /\ db' = row /\ cache' = row /\ pool' = row.workers
    /\ up' = TRUE
    /\ overlapped' = {} /\ unsure' = {}
    /\ UNCHANGED <<mu, req, updates, crashes>>

Crash ==
    /\ up
    /\ crashes < MaxCrashes
    /\ crashes' = crashes + 1
    /\ up' = FALSE
    /\ mu' = Nothing
    /\ req' = [a \in Admins |-> Idle]
    /\ UNCHANGED <<db, cache, pool, overlapped, unsure, updates>>

Begin(a, request) ==
    /\ up
    /\ req[a] = Idle
    /\ updates < MaxUpdates
    /\ updates' = updates + 1
    /\ req' = [req EXCEPT ![a] = request]
    /\ overlapped' = IF Busy(request.kind) = {} THEN overlapped
                     ELSE overlapped \cup {request.kind}

End(a) == req' = [req EXCEPT ![a] = Idle]

Advance(a, from, to) ==
    /\ req[a] # Idle /\ req[a].stage = from
    /\ req' = [req EXCEPT ![a].stage = to]

-----------------------------------------------------------------------------
(* The statement of a request fails, without effect or after it. *)
FailedWrite(a, row) ==
    \/ UNCHANGED <<db, unsure>>
    \/ /\ LostReplies
       /\ db' = row
       /\ unsure' = unsure \cup {req[a].kind}

-----------------------------------------------------------------------------
(* UpdateUpstream: the key is replaced, cleared, or taken from the cache   *)
(* when the request carries none; any string that is given is a new key.   *)

(* Mutant: the write lock is not taken. *)
UpdateUpstreamUnlocked(a, upstream, given, key) ==
    /\ Begin(a, [kind |-> "upstream", stage |-> "write", upstream |-> upstream,
                 given |-> given, key |-> IF given THEN key ELSE cache.key])
    /\ UNCHANGED <<db, cache, mu, pool, up, unsure, crashes>>

UpdateUpstream(a, upstream, given, key) ==
    /\ mu = Nothing
    /\ mu' = a
    /\ Begin(a, [kind |-> "upstream", stage |-> "write", upstream |-> upstream,
                 given |-> given, key |-> IF given THEN key ELSE cache.key])
    /\ UNCHANGED <<db, cache, pool, up, unsure, crashes>>

UpstreamRow(a) == [db EXCEPT !.upstream = req[a].upstream, !.key = req[a].key]

WriteUpstream(a) ==
    /\ req[a].kind = "upstream"
    /\ Advance(a, "write", "cache")
    /\ db' = UpstreamRow(a)
    /\ UNCHANGED <<cache, mu, pool, up, overlapped, unsure, updates, crashes>>

(* The statement fails: nothing is cached and the lock is released. *)
WriteUpstreamFails(a) ==
    /\ req[a].kind = "upstream" /\ req[a].stage = "write"
    /\ FailedWrite(a, UpstreamRow(a))
    /\ mu' = Nothing
    /\ End(a)
    /\ UNCHANGED <<cache, pool, up, overlapped, updates, crashes>>

(* Mutant: the write lock is not released. *)
CacheUpstreamKeepsLock(a) ==
    /\ req[a].kind = "upstream" /\ req[a].stage = "cache"
    /\ cache' = [cache EXCEPT !.upstream = req[a].upstream, !.key = req[a].key]
    /\ unsure' = unsure \ {"upstream"}
    /\ End(a)
    /\ UNCHANGED <<db, mu, pool, up, overlapped, updates, crashes>>

CacheUpstream(a) ==
    /\ req[a].kind = "upstream" /\ req[a].stage = "cache"
    /\ cache' = [cache EXCEPT !.upstream = req[a].upstream, !.key = req[a].key]
    /\ unsure' = unsure \ {"upstream"}
    /\ mu' = Nothing
    /\ End(a)
    /\ UNCHANGED <<db, pool, up, overlapped, updates, crashes>>

-----------------------------------------------------------------------------
(* UpdateWorkerConcurrency: row, then cache under the lock, then resizer. *)

UpdateWorkerConcurrency(a, n) ==
    /\ Begin(a, [kind |-> "workers", stage |-> "write", n |-> n])
    /\ UNCHANGED <<db, cache, mu, pool, up, unsure, crashes>>

WriteWorkers(a) ==
    /\ req[a].kind = "workers"
    /\ Advance(a, "write", "cache")
    /\ db' = [db EXCEPT !.workers = req[a].n]
    /\ UNCHANGED <<cache, mu, pool, up, overlapped, unsure, updates, crashes>>

(* Mutant: the error of the statement is ignored. *)
WriteWorkersErrorIgnored(a) ==
    /\ req[a].kind = "workers"
    /\ Advance(a, "write", "cache")
    /\ UNCHANGED <<db, cache, mu, pool, up, overlapped, unsure, updates, crashes>>

(* The statement fails and the request ends. *)
WriteWorkersFails(a) ==
    /\ req[a].kind = "workers" /\ req[a].stage = "write"
    /\ FailedWrite(a, [db EXCEPT !.workers = req[a].n])
    /\ End(a)
    /\ UNCHANGED <<cache, mu, pool, up, overlapped, updates, crashes>>

CacheWorkers(a) ==
    /\ req[a].kind = "workers"
    /\ mu = Nothing
    /\ Advance(a, "cache", "resize")
    /\ cache' = [cache EXCEPT !.workers = req[a].n]
    /\ unsure' = unsure \ {"workers"}
    /\ UNCHANGED <<db, mu, pool, up, overlapped, updates, crashes>>

(* Mutant: the resizer gets one worker too few. *)
ApplyWorkersOffByOne(a) ==
    /\ req[a].kind = "workers" /\ req[a].stage = "resize"
    /\ pool' = req[a].n - 1
    /\ End(a)
    /\ UNCHANGED <<db, cache, mu, up, overlapped, unsure, updates, crashes>>

(* The resizer runs after s.mu is released. *)
ApplyWorkers(a) ==
    /\ req[a].kind = "workers" /\ req[a].stage = "resize"
    /\ pool' = req[a].n
    /\ End(a)
    /\ UNCHANGED <<db, cache, mu, up, overlapped, unsure, updates, crashes>>

-----------------------------------------------------------------------------
(* UpdateSiteConfig: row, then cache under the lock. *)

UpdateSiteConfig(a, title) ==
    /\ Begin(a, [kind |-> "title", stage |-> "write", title |-> title])
    /\ UNCHANGED <<db, cache, mu, pool, up, unsure, crashes>>

WriteSite(a) ==
    /\ req[a].kind = "title"
    /\ Advance(a, "write", "cache")
    /\ db' = [db EXCEPT !.title = req[a].title]
    /\ UNCHANGED <<cache, mu, pool, up, overlapped, unsure, updates, crashes>>

WriteSiteFails(a) ==
    /\ req[a].kind = "title" /\ req[a].stage = "write"
    /\ FailedWrite(a, [db EXCEPT !.title = req[a].title])
    /\ End(a)
    /\ UNCHANGED <<cache, mu, pool, up, overlapped, updates, crashes>>

CacheSite(a) ==
    /\ req[a].kind = "title" /\ req[a].stage = "cache"
    /\ mu = Nothing
    /\ cache' = [cache EXCEPT !.title = req[a].title]
    /\ unsure' = unsure \ {"title"}
    /\ End(a)
    /\ UNCHANGED <<db, mu, pool, up, overlapped, updates, crashes>>

-----------------------------------------------------------------------------
(* What an admin can type or send back: View shows only the mask of a key. *)
KeyInput == Keys \cup {Nothing} \cup (IF cache.key = Nothing THEN {} ELSE {Mask})

RequestStep(a) ==
    \/ \E upstream \in Upstreams :
         \/ UpdateUpstream(a, upstream, FALSE, Nothing)
         \/ \E key \in KeyInput : UpdateUpstream(a, upstream, TRUE, key)
    \/ \E n \in Levels : UpdateWorkerConcurrency(a, n)
    \/ \E title \in Titles : UpdateSiteConfig(a, title)

StoreStep(a) ==
    \/ WriteUpstream(a) \/ CacheUpstream(a)
    \/ WriteWorkers(a)  \/ CacheWorkers(a)  \/ ApplyWorkers(a)
    \/ WriteSite(a)     \/ CacheSite(a)

StoreFault(a) == WriteUpstreamFails(a) \/ WriteWorkersFails(a) \/ WriteSiteFails(a)

Next ==
    \/ Load \/ Crash
    \/ \E a \in Admins : RequestStep(a) \/ StoreStep(a) \/ StoreFault(a)

Spec == Init /\ [][Next]_vars

(* A statement that is sent returns, and goroutines run. *)
Fairness == WF_vars(Load) /\ \A a \in Admins : WF_vars(StoreStep(a))

FairSpec == Spec /\ Fairness

-----------------------------------------------------------------------------
(* Types of the row, its cached copy, the lock and the requests. *)
TypeOK ==
    /\ db \in Config \cup {NoRow}
    /\ cache \in Config
    /\ mu \in Admins \cup {Nothing}
    /\ pool \in Levels
    /\ \A a \in Admins : req[a].kind \in Kinds \cup {"none"}
    /\ up \in BOOLEAN /\ overlapped \subseteq Kinds /\ unsure \subseteq Kinds
    /\ updates \in 0..MaxUpdates /\ crashes \in 0..MaxCrashes

(***************************************************************************)
(* Because UpdateUpstream holds s.mu across its SQL statement, whoever can *)
(* lock s.mu finds the credentials in the cache equal to those in the row, *)
(* with any number of updates of any kind in flight.  Only a statement     *)
(* that took effect and reported an error parts them, until the next       *)
(* successful update or boot.                                              *)
(***************************************************************************)
UpstreamCoherent ==
    up /\ mu = Nothing /\ "upstream" \notin unsure
      => cache.upstream = db.upstream /\ cache.key = db.key

(* An update that carries no key never undoes another admin's new key,     *)
(* though it writes the key column from the cache, unless that key's own   *)
(* update reported an error.                                               *)
UntouchedKeySurvives ==
    [][up /\ up' /\ db'.key # db.key /\ "upstream" \notin unsure =>
         \E a \in Admins : /\ req[a].kind = "upstream" /\ req[a].given
                           /\ req[a].key = db'.key]_vars

(***************************************************************************)
(* The row, the cache and the pool agree on the concurrency once updates   *)
(* are done, failed statements included, provided that since the last boot *)
(* no two of them ran at once and no statement took effect while reporting *)
(* an error; likewise row and cache for the title.                         *)
(***************************************************************************)
Settled(kind) == Quiet(kind) /\ kind \notin overlapped \cup unsure

SerialUpdatesCoherent ==
    /\ Settled("workers") => db.workers = cache.workers /\ cache.workers = pool
    /\ Settled("title") => db.title = cache.title

(* Updates finish: nobody waits for s.mu for ever. *)
UpdatesFinish == \A a \in Admins : req[a] # Idle ~> req[a] = Idle
=============================================================================
