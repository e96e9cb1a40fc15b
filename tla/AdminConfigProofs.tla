--------------------------- MODULE AdminConfigProofs ---------------------------
(***************************************************************************)
(* Proofs about AdminConfig for any number of admins, keys, upstreams and  *)
(* levels, with restarts, failed statements and lost replies.              *)
(***************************************************************************)
EXTENDS AdminConfig, TLAPS

UpstreamRequest == [kind : {"upstream"}, stage : {"write", "cache"},
                    upstream : Upstreams, given : BOOLEAN, key : AllKeys]
WorkersRequest  == [kind : {"workers"}, stage : {"write", "cache", "resize"}, n : Levels]
TitleRequest    == [kind : {"title"}, stage : {"write", "cache"}, title : Titles]

Request == {Idle} \cup UpstreamRequest \cup WorkersRequest \cup TitleRequest

Requests == req \in [Admins -> Request]

(* The row is there once the configuration is loaded; before, no request   *)
(* is.                                                                     *)
Booted ==
    /\ up => db \in Config
    /\ ~up => mu = Nothing /\ \A a \in Admins : req[a] = Idle

(* The lock is held exactly by the one upstream update in flight. *)
Locked == \A a \in Admins : mu = a <=> req[a].kind = "upstream"

(* The holder of the lock finds the cache as it was when it took it: the   *)
(* key of a request that gives none is still the cached one, and until the *)
(* row is written row and cache agree.                                     *)
Holding ==
    \A a \in Admins : req[a].kind = "upstream" =>
        /\ ~req[a].given => req[a].key = cache.key
        /\ req[a].stage = "write" /\ "upstream" \notin unsure
             => cache.upstream = db.upstream /\ cache.key = db.key
        /\ req[a].stage = "cache"
             => db.upstream = req[a].upstream /\ db.key = req[a].key

(* Updates of one kind that never ran two at once are never two. *)
Serial(kind) ==
    up /\ kind \notin overlapped =>
        \A a, b \in Admins : req[a].kind = kind /\ req[b].kind = kind => a = b

(* A serial update of the concurrency carries the value of the row from    *)
(* the statement to the cache and from the cache to the pool; around it    *)
(* the three agree.                                                        *)
WorkersCarried ==
    up /\ "workers" \notin overlapped =>
        /\ \A a \in Admins : req[a].kind = "workers" =>
             /\ req[a].stage = "cache" => db.workers = req[a].n
             /\ req[a].stage = "resize" => db.workers = req[a].n /\ cache.workers = req[a].n
        /\ /\ "workers" \notin unsure
           /\ \A a \in Admins : req[a].kind = "workers" => req[a].stage = "write"
           => db.workers = cache.workers /\ cache.workers = pool

TitleCarried ==
    up /\ "title" \notin overlapped =>
        /\ \A a \in Admins : req[a].kind = "title" /\ req[a].stage = "cache"
                               => db.title = req[a].title
        /\ /\ "title" \notin unsure
           /\ \A a \in Admins : req[a].kind = "title" => req[a].stage = "write"
           => db.title = cache.title

Inv ==
    /\ TypeOK /\ Requests /\ Booted
    /\ Locked /\ Holding /\ UpstreamCoherent
    /\ Serial("workers") /\ Serial("title")
    /\ WorkersCarried /\ TitleCarried

-----------------------------------------------------------------------------
LEMMA RequestFacts ==
    ASSUME NEW x \in Request
    PROVE  /\ x.kind \in Kinds \cup {"none"}
           /\ x.kind = "none" <=> x = Idle
           /\ x.kind = "upstream" => x \in UpstreamRequest
           /\ x.kind = "workers" => x \in WorkersRequest
           /\ x.kind = "title" => x \in TitleRequest
BY DEF Request, UpstreamRequest, WorkersRequest, TitleRequest, Idle, Kinds

(* A request that advances keeps its kind and the values it carries. *)
LEMMA UpstreamStage ==
    ASSUME NEW x \in UpstreamRequest, NEW s \in {"write", "cache"}
    PROVE  /\ [x EXCEPT !.stage = s] \in UpstreamRequest
           /\ [x EXCEPT !.stage = s].stage = s
           /\ [x EXCEPT !.stage = s].kind = "upstream"
           /\ [x EXCEPT !.stage = s].upstream = x.upstream
           /\ [x EXCEPT !.stage = s].key = x.key
           /\ [x EXCEPT !.stage = s].given = x.given
BY DEF UpstreamRequest

LEMMA WorkersStage ==
    ASSUME NEW x \in WorkersRequest, NEW s \in {"write", "cache", "resize"}
    PROVE  /\ [x EXCEPT !.stage = s] \in WorkersRequest
           /\ [x EXCEPT !.stage = s].stage = s
           /\ [x EXCEPT !.stage = s].kind = "workers"
           /\ [x EXCEPT !.stage = s].n = x.n
BY DEF WorkersRequest

LEMMA TitleStage ==
    ASSUME NEW x \in TitleRequest, NEW s \in {"write", "cache"}
    PROVE  /\ [x EXCEPT !.stage = s] \in TitleRequest
           /\ [x EXCEPT !.stage = s].stage = s
           /\ [x EXCEPT !.stage = s].kind = "title"
           /\ [x EXCEPT !.stage = s].title = x.title
BY DEF TitleRequest

(* An update of one column leaves the others. *)
LEMMA WorkersColumn ==
    ASSUME NEW x \in Config, NEW n \in Levels
    PROVE  /\ [x EXCEPT !.workers = n] \in Config
           /\ [x EXCEPT !.workers = n].upstream = x.upstream
           /\ [x EXCEPT !.workers = n].key = x.key
           /\ [x EXCEPT !.workers = n].workers = n
           /\ [x EXCEPT !.workers = n].title = x.title
BY DEF Config

LEMMA TitleColumn ==
    ASSUME NEW x \in Config, NEW t \in Titles
    PROVE  /\ [x EXCEPT !.title = t] \in Config
           /\ [x EXCEPT !.title = t].upstream = x.upstream
           /\ [x EXCEPT !.title = t].key = x.key
           /\ [x EXCEPT !.title = t].workers = x.workers
           /\ [x EXCEPT !.title = t].title = t
BY DEF Config

LEMMA InitInv == Init => Inv
<1> SUFFICES ASSUME Init PROVE Inv
    OBVIOUS
<1>1. \A a \in Admins : req[a] = Idle /\ req[a].kind = "none"
    BY DEF Init, Idle
<1>2. Default \in Config /\ Default.workers \in Levels
    BY ConfigAssumption DEF Config
<1>3. TypeOK
    <2>1. /\ db = NoRow /\ cache = Default /\ mu = Nothing /\ pool = Default.workers
          /\ up = FALSE /\ overlapped = {} /\ unsure = {} /\ updates = 0 /\ crashes = 0
        BY DEF Init
    <2>2. 0 \in 0..MaxUpdates /\ 0 \in 0..MaxCrashes
        BY ConfigAssumption
    <2> QED BY <1>1, <1>2, <2>1, <2>2 DEF TypeOK
<1>4. Requests
    BY DEF Init, Requests, Request
<1>5. ~up /\ mu = Nothing
    BY DEF Init
<1> QED BY <1>1, <1>3, <1>4, <1>5, ConfigAssumption
        DEF Inv, Booted, Locked, Holding, UpstreamCoherent, Serial, WorkersCarried, TitleCarried

-----------------------------------------------------------------------------
(***************************************************************************)
(* The invariant has a part for the upstream columns, one for the worker   *)
(* concurrency and one for the title.  Each is stable under the steps that *)
(* leave its columns and its requests alone.                               *)
(***************************************************************************)
UpstreamInv == Locked /\ Holding /\ UpstreamCoherent
WorkersInv  == Serial("workers") /\ WorkersCarried
TitleInv    == Serial("title") /\ TitleCarried

Shape == TypeOK /\ Requests /\ Booted

LEMMA Parts == Inv <=> Shape /\ UpstreamInv /\ WorkersInv /\ TitleInv
BY DEF Inv, Shape, UpstreamInv, WorkersInv, TitleInv

(* The requests of a kind stay where they are. *)
Unmoved(kind) ==
    \A a \in Admins : req[a].kind = kind \/ req'[a].kind = kind => req'[a] = req[a]

LEMMA UpstreamStable ==
    ASSUME UpstreamInv, up' = up, mu' = mu, Unmoved("upstream"),
           db'.upstream = db.upstream, db'.key = db.key,
           cache'.upstream = cache.upstream, cache'.key = cache.key,
           "upstream" \in unsure' <=> "upstream" \in unsure
    PROVE  UpstreamInv'
BY DEF UpstreamInv, Locked, Holding, UpstreamCoherent, Unmoved

LEMMA WorkersStable ==
    ASSUME WorkersInv, up' = up, Unmoved("workers"),
           db'.workers = db.workers, cache'.workers = cache.workers, pool' = pool,
           "workers" \in overlapped => "workers" \in overlapped',
           "workers" \in unsure' <=> "workers" \in unsure
    PROVE  WorkersInv'
BY DEF WorkersInv, Serial, WorkersCarried, Unmoved

LEMMA TitleStable ==
    ASSUME TitleInv, up' = up, Unmoved("title"),
           db'.title = db.title, cache'.title = cache.title,
           "title" \in overlapped => "title" \in overlapped',
           "title" \in unsure' <=> "title" \in unsure
    PROVE  TitleInv'
BY DEF TitleInv, Serial, TitleCarried, Unmoved

(* One request moves: the requests of the other kinds stay. *)
LEMMA OneMoves ==
    ASSUME Requests, NEW a \in Admins, NEW r, req' = [req EXCEPT ![a] = r],
           NEW kind, req[a].kind # kind, r.kind # kind
    PROVE  Unmoved(kind)
BY DEF Requests, Unmoved

-----------------------------------------------------------------------------
(* Boot and crash: no request is in flight, and boot makes all agree. *)
LEMMA LoadInv == ASSUME Inv, Load PROVE Inv'
<1> DEFINE row == IF db = NoRow THEN Default ELSE db
<1>1. /\ ~up /\ up' /\ db' = row /\ cache' = row /\ pool' = row.workers
      /\ overlapped' = {} /\ unsure' = {}
      /\ UNCHANGED <<mu, req, updates, crashes>>
    BY DEF Load
<1>2. row \in Config /\ row.workers \in Levels
    BY ConfigAssumption DEF Inv, TypeOK, Config
<1>3. mu = Nothing /\ \A a \in Admins : req[a] = Idle /\ req[a].kind = "none"
    BY <1>1 DEF Inv, Booted, Idle
<1> HIDE DEF row
<1>4. TypeOK'
    <2>1. up' \in BOOLEAN
        BY DEF Load
    <2> QED BY <1>1, <1>2, <2>1 DEF Inv, TypeOK
<1>5. Requests' /\ Booted'
    BY <1>1, <1>2, <1>3 DEF Inv, Requests, Booted
<1>6. UpstreamInv'
    BY <1>1, <1>3, ConfigAssumption DEF UpstreamInv, Locked, Holding, UpstreamCoherent
<1>7. WorkersInv' /\ TitleInv'
    BY <1>1, <1>3 DEF WorkersInv, TitleInv, Serial, WorkersCarried, TitleCarried
<1> QED BY <1>4, <1>5, <1>6, <1>7, Parts DEF Inv, UpstreamInv, WorkersInv, TitleInv

LEMMA CrashInv == ASSUME Inv, Crash PROVE Inv'
<1>1. /\ ~up' /\ mu' = Nothing /\ crashes' \in 0..MaxCrashes
      /\ UNCHANGED <<db, cache, pool, overlapped, unsure, updates>>
    BY ConfigAssumption DEF Crash, Inv, TypeOK
<1>2. req' = [a \in Admins |-> Idle] /\ Idle.kind = "none" /\ Idle \in Request
    BY DEF Crash, Idle, Request
<1>3. TypeOK'
    <2>1. up' \in BOOLEAN
        BY DEF Crash
    <2> QED BY <1>1, <1>2, <2>1 DEF Inv, TypeOK
<1>4. Requests' /\ Booted'
    BY <1>1, <1>2 DEF Requests, Booted
<1>5. UpstreamInv'
    BY <1>1, <1>2, ConfigAssumption DEF UpstreamInv, Locked, Holding, UpstreamCoherent
<1>6. WorkersInv' /\ TitleInv'
    BY <1>1, <1>2 DEF WorkersInv, TitleInv, Serial, WorkersCarried, TitleCarried
<1> QED BY <1>3, <1>4, <1>5, <1>6 DEF Inv, UpstreamInv, WorkersInv, TitleInv

-----------------------------------------------------------------------------
(***************************************************************************)
(* The shape of the state survives a step of one request.                  *)
(***************************************************************************)
LEMMA StepShape ==
    ASSUME Inv, up, up' = up,
           NEW a \in Admins, NEW r \in Request, req' = [req EXCEPT ![a] = r],
           db' \in Config, cache' \in Config, pool' \in Levels,
           mu' \in Admins \cup {Nothing},
           overlapped' \subseteq Kinds, unsure' \subseteq Kinds,
           updates' \in 0..MaxUpdates, crashes' = crashes
    PROVE  Shape'
<1>1. Requests'
    BY DEF Inv, Requests
<1>2. \A b \in Admins : req'[b].kind \in Kinds \cup {"none"}
    BY <1>1, RequestFacts DEF Requests
<1> QED BY <1>1, <1>2 DEF Inv, Shape, TypeOK, Booted

(* A request begins: the columns stay, and an overlap is on record. *)
LEMMA BeginFacts ==
    ASSUME Inv, NEW a \in Admins, NEW r, Begin(a, r), r.kind \in Kinds
    PROVE  /\ up /\ req[a] = Idle /\ req[a].kind = "none"
           /\ req' = [req EXCEPT ![a] = r]
           /\ updates' \in 0..MaxUpdates
           /\ overlapped \subseteq overlapped' /\ overlapped' \subseteq Kinds
           /\ r.kind \notin overlapped' =>
                \A b \in Admins : req[b].kind # r.kind
<1>1. /\ up /\ req[a] = Idle /\ updates < MaxUpdates /\ updates' = updates + 1
      /\ req' = [req EXCEPT ![a] = r]
      /\ overlapped' = IF Busy(r.kind) = {} THEN overlapped ELSE overlapped \cup {r.kind}
    BY DEF Begin
<1>2. updates \in 0..MaxUpdates /\ overlapped \subseteq Kinds
    BY DEF Inv, TypeOK
<1>3. updates' \in 0..MaxUpdates
    BY <1>1, <1>2, ConfigAssumption
<1> QED BY <1>1, <1>2, <1>3 DEF Busy, Idle

(* The row of a loaded configuration, and of its cached copy. *)
LEMMA Rows == ASSUME Inv, up PROVE db \in Config /\ cache \in Config /\ pool \in Levels
BY DEF Inv, TypeOK, Booted

LEMMA UpdateUpstreamInv ==
    ASSUME Inv, NEW a \in Admins, NEW upstream \in Upstreams, NEW given \in BOOLEAN,
           NEW key \in AllKeys, UpdateUpstream(a, upstream, given, key)
    PROVE  Inv'
<1> DEFINE r == [kind |-> "upstream", stage |-> "write", upstream |-> upstream,
                 given |-> given, key |-> IF given THEN key ELSE cache.key]
<1>1. /\ mu = Nothing /\ mu' = a /\ Begin(a, r)
      /\ UNCHANGED <<db, cache, pool, up, unsure, crashes>>
    BY DEF UpdateUpstream
<1>2. cache.key \in AllKeys
    BY DEF Inv, TypeOK, Config
<1>3. /\ r \in Request /\ r.kind = "upstream" /\ r.kind \in Kinds /\ r.stage = "write"
      /\ ~r.given => r.key = cache.key
    BY <1>2 DEF Request, UpstreamRequest, Kinds
<1> HIDE DEF r
<1>4. /\ up /\ req[a] = Idle /\ req[a].kind = "none"
      /\ req' = [req EXCEPT ![a] = r]
      /\ updates' \in 0..MaxUpdates
      /\ overlapped \subseteq overlapped' /\ overlapped' \subseteq Kinds
    BY <1>1, <1>3, BeginFacts
<1>5. Shape'
    BY <1>1, <1>3, <1>4, Rows, StepShape DEF Inv, TypeOK
<1>6. \A b \in Admins : req'[b] = IF b = a THEN r ELSE req[b]
    BY <1>4 DEF Inv, Requests
<1>7. \A b \in Admins : req[b].kind # "upstream"
    BY <1>1, ConfigAssumption DEF Inv, Locked
<1>8. UpstreamInv'
    <2>1. mu' = a /\ mu' # Nothing
        BY <1>1, ConfigAssumption
    <2>2. Locked'
        BY <1>3, <1>6, <1>7, <2>1 DEF Locked
    <2>3. "upstream" \notin unsure => cache.upstream = db.upstream /\ cache.key = db.key
        BY <1>1, <1>4 DEF Inv, UpstreamCoherent
    <2>4. Holding'
        BY <1>1, <1>3, <1>6, <1>7, <2>3 DEF Holding
    <2> QED BY <2>1, <2>2, <2>4 DEF UpstreamInv, UpstreamCoherent
<1>9. WorkersInv'
    <2>1. Unmoved("workers")
        BY <1>3, <1>4, OneMoves DEF Inv
    <2> QED BY <1>1, <1>4, <2>1, Parts, WorkersStable
<1>10. TitleInv'
    <2>1. Unmoved("title")
        BY <1>3, <1>4, OneMoves DEF Inv
    <2> QED BY <1>1, <1>4, <2>1, Parts, TitleStable
<1> QED BY <1>5, <1>8, <1>9, <1>10 DEF Inv, Shape, UpstreamInv, WorkersInv, TitleInv

LEMMA UpdateWorkersInv ==
    ASSUME Inv, NEW a \in Admins, NEW n \in Levels, UpdateWorkerConcurrency(a, n)
    PROVE  Inv'
<1> DEFINE r == [kind |-> "workers", stage |-> "write", n |-> n]
<1>1. Begin(a, r) /\ UNCHANGED <<db, cache, mu, pool, up, unsure, crashes>>
    BY DEF UpdateWorkerConcurrency
<1>2. r \in Request /\ r.kind = "workers" /\ r.kind \in Kinds /\ r.stage = "write"
    BY DEF Request, WorkersRequest, Kinds
<1> HIDE DEF r
<1>3. /\ up /\ req[a] = Idle /\ req[a].kind = "none"
      /\ req' = [req EXCEPT ![a] = r]
      /\ updates' \in 0..MaxUpdates
      /\ overlapped \subseteq overlapped' /\ overlapped' \subseteq Kinds
      /\ "workers" \notin overlapped' => \A b \in Admins : req[b].kind # "workers"
    BY <1>1, <1>2, BeginFacts
<1>4. Shape'
    BY <1>1, <1>2, <1>3, Rows, StepShape DEF Inv, TypeOK
<1>5. \A b \in Admins : req'[b] = IF b = a THEN r ELSE req[b]
    BY <1>3 DEF Inv, Requests
<1>6. WorkersInv'
    BY <1>1, <1>2, <1>3, <1>5 DEF Inv, WorkersInv, Serial, WorkersCarried
<1>7. UpstreamInv'
    <2>1. Unmoved("upstream")
        BY <1>2, <1>3, OneMoves DEF Inv
    <2> QED BY <1>1, <1>3, <2>1, Parts, UpstreamStable
<1>8. TitleInv'
    <2>1. Unmoved("title")
        BY <1>2, <1>3, OneMoves DEF Inv
    <2> QED BY <1>1, <1>3, <2>1, Parts, TitleStable
<1> QED BY <1>4, <1>6, <1>7, <1>8 DEF Inv, Shape, UpstreamInv, WorkersInv, TitleInv

LEMMA UpdateSiteInv ==
    ASSUME Inv, NEW a \in Admins, NEW title \in Titles, UpdateSiteConfig(a, title)
    PROVE  Inv'
<1> DEFINE r == [kind |-> "title", stage |-> "write", title |-> title]
<1>1. Begin(a, r) /\ UNCHANGED <<db, cache, mu, pool, up, unsure, crashes>>
    BY DEF UpdateSiteConfig
<1>2. r \in Request /\ r.kind = "title" /\ r.kind \in Kinds /\ r.stage = "write"
    BY DEF Request, TitleRequest, Kinds
<1> HIDE DEF r
<1>3. /\ up /\ req[a] = Idle /\ req[a].kind = "none"
      /\ req' = [req EXCEPT ![a] = r]
      /\ updates' \in 0..MaxUpdates
      /\ overlapped \subseteq overlapped' /\ overlapped' \subseteq Kinds
      /\ "title" \notin overlapped' => \A b \in Admins : req[b].kind # "title"
    BY <1>1, <1>2, BeginFacts
<1>4. Shape'
    BY <1>1, <1>2, <1>3, Rows, StepShape DEF Inv, TypeOK
<1>5. \A b \in Admins : req'[b] = IF b = a THEN r ELSE req[b]
    BY <1>3 DEF Inv, Requests
<1>6. TitleInv'
    BY <1>1, <1>2, <1>3, <1>5 DEF Inv, TitleInv, Serial, TitleCarried
<1>7. UpstreamInv'
    <2>1. Unmoved("upstream")
        BY <1>2, <1>3, OneMoves DEF Inv
    <2> QED BY <1>1, <1>3, <2>1, Parts, UpstreamStable
<1>8. WorkersInv'
    <2>1. Unmoved("workers")
        BY <1>2, <1>3, OneMoves DEF Inv
    <2> QED BY <1>1, <1>3, <2>1, Parts, WorkersStable
<1> QED BY <1>4, <1>6, <1>7, <1>8 DEF Inv, Shape, UpstreamInv, WorkersInv, TitleInv

-----------------------------------------------------------------------------
(***************************************************************************)
(* UpdateUpstream holds s.mu from before its statement until the cache     *)
(* follows, so no other update of these columns is in flight.              *)
(***************************************************************************)
LEMMA Unloaded == ASSUME Inv, NEW a \in Admins, req[a].kind # "none" PROVE up
BY DEF Inv, Booted, Idle

LEMMA Holder ==
    ASSUME Inv, NEW a \in Admins, req[a].kind = "upstream"
    PROVE  /\ up /\ mu = a /\ mu # Nothing
           /\ \A b \in Admins : req[b].kind = "upstream" => b = a
           /\ req[a] \in UpstreamRequest
           /\ UpstreamRow(a) \in Config
           /\ UpstreamRow(a).upstream = req[a].upstream /\ UpstreamRow(a).key = req[a].key
           /\ UpstreamRow(a).workers = db.workers /\ UpstreamRow(a).title = db.title
<1>1. up
    BY Unloaded
<1>2. mu = a /\ mu # Nothing /\ \A b \in Admins : req[b].kind = "upstream" => b = a
    BY ConfigAssumption DEF Inv, Locked
<1>3. req[a] \in UpstreamRequest
    BY RequestFacts DEF Inv, Requests
<1>4. req[a].upstream \in Upstreams /\ req[a].key \in AllKeys
    BY <1>3 DEF UpstreamRequest
<1>5. db \in Config
    BY <1>1, Rows
<1>6. /\ UpstreamRow(a) \in Config
      /\ UpstreamRow(a).upstream = req[a].upstream /\ UpstreamRow(a).key = req[a].key
      /\ UpstreamRow(a).workers = db.workers /\ UpstreamRow(a).title = db.title
    BY <1>4, <1>5 DEF UpstreamRow, Config
<1> QED BY <1>1, <1>2, <1>3, <1>6

LEMMA WriteUpstreamInv == ASSUME Inv, NEW a \in Admins, WriteUpstream(a) PROVE Inv'
<1> DEFINE r == [req[a] EXCEPT !.stage = "cache"]
<1>1. /\ req[a].kind = "upstream" /\ db' = UpstreamRow(a)
      /\ UNCHANGED <<cache, mu, pool, up, overlapped, unsure, updates, crashes>>
      /\ req' = [req EXCEPT ![a] = r]
    BY DEF WriteUpstream, Advance
<1>2. /\ r \in UpstreamRequest /\ r.stage = "cache" /\ r.kind = "upstream"
      /\ r.upstream = req[a].upstream /\ r.key = req[a].key /\ r.given = req[a].given
    BY <1>1, Holder, UpstreamStage
<1> HIDE DEF r
<1>3. Shape'
    BY <1>1, <1>2, Holder, Rows, StepShape DEF Inv, TypeOK, Request
<1>4. \A b \in Admins : req'[b] = IF b = a THEN r ELSE req[b]
    BY <1>1 DEF Inv, Requests
<1>5. UpstreamInv'
    BY <1>1, <1>2, <1>4, Holder DEF Inv, UpstreamInv, Locked, Holding, UpstreamCoherent
<1>6. WorkersInv'
    <2>1. Unmoved("workers")
        BY <1>1, <1>2, OneMoves DEF Inv
    <2> QED BY <1>1, <2>1, Holder, Parts, WorkersStable
<1>7. TitleInv'
    <2>1. Unmoved("title")
        BY <1>1, <1>2, OneMoves DEF Inv
    <2> QED BY <1>1, <2>1, Holder, Parts, TitleStable
<1> QED BY <1>3, <1>5, <1>6, <1>7 DEF Inv, Shape, UpstreamInv, WorkersInv, TitleInv

(***************************************************************************)
(* A failed statement leaves the row, or writes it and leaves its column   *)
(* on record as unsure.                                                    *)
(***************************************************************************)
LEMMA WriteUpstreamFailsInv ==
    ASSUME Inv, NEW a \in Admins, WriteUpstreamFails(a) PROVE Inv'
<1>1. /\ req[a].kind = "upstream" /\ req[a].stage = "write" /\ mu' = Nothing
      /\ UNCHANGED <<cache, pool, up, overlapped, updates, crashes>>
      /\ req' = [req EXCEPT ![a] = Idle]
    BY DEF WriteUpstreamFails, End
<1>2. \/ UNCHANGED <<db, unsure>>
      \/ db' = UpstreamRow(a) /\ unsure' = unsure \cup {"upstream"}
    BY <1>1 DEF WriteUpstreamFails, FailedWrite
<1>3. /\ db' \in Config /\ db'.workers = db.workers /\ db'.title = db.title
      /\ unsure' \subseteq Kinds
      /\ "workers" \in unsure' <=> "workers" \in unsure
      /\ "title" \in unsure' <=> "title" \in unsure
      /\ "upstream" \notin unsure' => "upstream" \notin unsure /\ db' = db
    <2>1. /\ db \in Config /\ UpstreamRow(a) \in Config
          /\ UpstreamRow(a).workers = db.workers /\ UpstreamRow(a).title = db.title
        BY <1>1, Holder, Rows
    <2>2. unsure \subseteq Kinds
        BY DEF Inv, TypeOK
    <2> QED BY <1>2, <2>1, <2>2 DEF Kinds
<1>4. Idle \in Request /\ Idle.kind = "none"
    BY DEF Idle, Request
<1>5. Shape'
    BY <1>1, <1>3, <1>4, Holder, Rows, StepShape DEF Inv, TypeOK
<1>6. \A b \in Admins : req'[b] = IF b = a THEN Idle ELSE req[b]
    BY <1>1 DEF Inv, Requests
<1>7. UpstreamInv'
    <2>1. \A b \in Admins : req'[b].kind # "upstream"
        BY <1>1, <1>4, <1>6, Holder
    <2>2. Locked' /\ Holding'
        BY <1>1, <2>1, ConfigAssumption DEF Locked, Holding
    <2>3. UpstreamCoherent'
        BY <1>1, <1>3 DEF Inv, Holding, UpstreamCoherent
    <2> QED BY <2>2, <2>3 DEF UpstreamInv
<1>8. WorkersInv'
    <2>1. Unmoved("workers")
        BY <1>1, <1>4, OneMoves DEF Inv
    <2> QED BY <1>1, <1>3, <2>1, Parts, WorkersStable
<1>9. TitleInv'
    <2>1. Unmoved("title")
        BY <1>1, <1>4, OneMoves DEF Inv
    <2> QED BY <1>1, <1>3, <2>1, Parts, TitleStable
<1> QED BY <1>5, <1>7, <1>8, <1>9 DEF Inv, Shape, UpstreamInv, WorkersInv, TitleInv

LEMMA CacheUpstreamInv == ASSUME Inv, NEW a \in Admins, CacheUpstream(a) PROVE Inv'
<1>1. /\ req[a].kind = "upstream" /\ req[a].stage = "cache" /\ mu' = Nothing
      /\ cache' = [cache EXCEPT !.upstream = req[a].upstream, !.key = req[a].key]
      /\ unsure' = unsure \ {"upstream"}
      /\ UNCHANGED <<db, pool, up, overlapped, updates, crashes>>
      /\ req' = [req EXCEPT ![a] = Idle]
    BY DEF CacheUpstream, End
<1>2. /\ cache' \in Config
      /\ cache'.upstream = req[a].upstream /\ cache'.key = req[a].key
      /\ cache'.workers = cache.workers /\ cache'.title = cache.title
    <2>1. req[a].upstream \in Upstreams /\ req[a].key \in AllKeys
        BY <1>1, Holder DEF UpstreamRequest
    <2>2. cache \in Config
        BY DEF Inv, TypeOK
    <2> QED BY <1>1, <2>1, <2>2 DEF Config
<1>3. Idle \in Request /\ Idle.kind = "none"
    BY DEF Idle, Request
<1>4. Shape'
    BY <1>1, <1>2, <1>3, Holder, Rows, StepShape DEF Inv, TypeOK
<1>5. \A b \in Admins : req'[b] = IF b = a THEN Idle ELSE req[b]
    BY <1>1 DEF Inv, Requests
<1>6. UpstreamInv'
    <2>1. \A b \in Admins : req'[b].kind # "upstream"
        BY <1>1, <1>3, <1>5, Holder
    <2>2. Locked' /\ Holding'
        BY <1>1, <2>1, ConfigAssumption DEF Locked, Holding
    <2>3. UpstreamCoherent'
        BY <1>1, <1>2 DEF Inv, Holding, UpstreamCoherent
    <2> QED BY <2>2, <2>3 DEF UpstreamInv
<1>7. WorkersInv'
    <2>1. Unmoved("workers")
        BY <1>1, <1>3, OneMoves DEF Inv
    <2> QED BY <1>1, <1>2, <2>1, Parts, WorkersStable
<1>8. TitleInv'
    <2>1. Unmoved("title")
        BY <1>1, <1>3, OneMoves DEF Inv
    <2> QED BY <1>1, <1>2, <2>1, Parts, TitleStable
<1> QED BY <1>4, <1>6, <1>7, <1>8 DEF Inv, Shape, UpstreamInv, WorkersInv, TitleInv

-----------------------------------------------------------------------------
(***************************************************************************)
(* UpdateWorkerConcurrency: while no second update has overlapped, the     *)
(* request in flight is the only one of its kind.                          *)
(***************************************************************************)
LEMMA Workers ==
    ASSUME Inv, NEW a \in Admins, req[a].kind = "workers"
    PROVE  /\ up /\ req[a] \in WorkersRequest /\ req[a].n \in Levels
           /\ "workers" \notin overlapped =>
                \A b \in Admins : req[b].kind = "workers" => b = a
<1>1. up
    BY Unloaded
<1>2. req[a] \in WorkersRequest
    BY RequestFacts DEF Inv, Requests
<1> QED BY <1>1, <1>2 DEF Inv, Serial, WorkersRequest

LEMMA WriteWorkersInv == ASSUME Inv, NEW a \in Admins, WriteWorkers(a) PROVE Inv'
<1> DEFINE r == [req[a] EXCEPT !.stage = "cache"]
<1>1. /\ req[a].kind = "workers" /\ req[a].stage = "write"
      /\ db' = [db EXCEPT !.workers = req[a].n]
      /\ UNCHANGED <<cache, mu, pool, up, overlapped, unsure, updates, crashes>>
      /\ req' = [req EXCEPT ![a] = r]
    BY DEF WriteWorkers, Advance
<1>2. r \in WorkersRequest /\ r.stage = "cache" /\ r.kind = "workers" /\ r.n = req[a].n
    BY <1>1, Workers, WorkersStage
<1> HIDE DEF r
<1>3. /\ db' \in Config /\ db'.upstream = db.upstream /\ db'.key = db.key
      /\ db'.workers = req[a].n /\ db'.title = db.title
    BY <1>1, Workers, Rows, WorkersColumn
<1>4. Shape'
    BY <1>1, <1>2, <1>3, Workers, Rows, StepShape DEF Inv, TypeOK, Request
<1>5. \A b \in Admins : req'[b] = IF b = a THEN r ELSE req[b]
    BY <1>1 DEF Inv, Requests
<1>6. WorkersInv'
    <2>1. Serial("workers")'
        BY <1>1, <1>2, <1>5 DEF Inv, Serial
    <2>2. WorkersCarried'
        BY <1>1, <1>2, <1>3, <1>5, Workers DEF WorkersCarried
    <2> QED BY <2>1, <2>2 DEF WorkersInv
<1>7. UpstreamInv'
    <2>1. Unmoved("upstream")
        BY <1>1, <1>2, OneMoves DEF Inv
    <2> QED BY <1>1, <1>3, <2>1, Parts, UpstreamStable
<1>8. TitleInv'
    <2>1. Unmoved("title")
        BY <1>1, <1>2, OneMoves DEF Inv
    <2> QED BY <1>1, <1>3, <2>1, Parts, TitleStable
<1> QED BY <1>4, <1>6, <1>7, <1>8 DEF Inv, Shape, UpstreamInv, WorkersInv, TitleInv

LEMMA WriteWorkersFailsInv ==
    ASSUME Inv, NEW a \in Admins, WriteWorkersFails(a) PROVE Inv'
<1>1. /\ req[a].kind = "workers" /\ req[a].stage = "write"
      /\ UNCHANGED <<cache, mu, pool, up, overlapped, updates, crashes>>
      /\ req' = [req EXCEPT ![a] = Idle]
    BY DEF WriteWorkersFails, End
<1>2. \/ UNCHANGED <<db, unsure>>
      \/ db' = [db EXCEPT !.workers = req[a].n] /\ unsure' = unsure \cup {"workers"}
    BY <1>1 DEF WriteWorkersFails, FailedWrite
<1>3. /\ db' \in Config /\ db'.upstream = db.upstream /\ db'.key = db.key
      /\ db'.title = db.title
      /\ unsure' \subseteq Kinds
      /\ "upstream" \in unsure' <=> "upstream" \in unsure
      /\ "title" \in unsure' <=> "title" \in unsure
      /\ "workers" \notin unsure' => "workers" \notin unsure /\ db' = db
    <2>1. unsure \subseteq Kinds
        BY DEF Inv, TypeOK
    <2>2. CASE UNCHANGED <<db, unsure>>
        BY <1>1, <2>1, <2>2, Workers, Rows
    <2>3. CASE db' = [db EXCEPT !.workers = req[a].n] /\ unsure' = unsure \cup {"workers"}
        BY <1>1, <2>1, <2>3, Workers, Rows, WorkersColumn DEF Kinds
    <2> QED BY <1>2, <2>2, <2>3
<1>4. Idle \in Request /\ Idle.kind = "none"
    BY DEF Idle, Request
<1>5. Shape'
    BY <1>1, <1>3, <1>4, Workers, Rows, StepShape DEF Inv, TypeOK
<1>6. \A b \in Admins : req'[b] = IF b = a THEN Idle ELSE req[b]
    BY <1>1 DEF Inv, Requests
<1>7. WorkersInv'
    <2>1. Serial("workers")'
        BY <1>1, <1>4, <1>6 DEF Inv, Serial
    <2>2. WorkersCarried'
        BY <1>1, <1>3, <1>4, <1>6, Workers DEF Inv, WorkersCarried
    <2> QED BY <2>1, <2>2 DEF WorkersInv
<1>8. UpstreamInv'
    <2>1. Unmoved("upstream")
        BY <1>1, <1>4, OneMoves DEF Inv
    <2> QED BY <1>1, <1>3, <2>1, Parts, UpstreamStable
<1>9. TitleInv'
    <2>1. Unmoved("title")
        BY <1>1, <1>4, OneMoves DEF Inv
    <2> QED BY <1>1, <1>3, <2>1, Parts, TitleStable
<1> QED BY <1>5, <1>7, <1>8, <1>9 DEF Inv, Shape, UpstreamInv, WorkersInv, TitleInv

(* The cache follows, and the pool has yet to. *)
LEMMA CacheWorkersInv == ASSUME Inv, NEW a \in Admins, CacheWorkers(a) PROVE Inv'
<1> DEFINE r == [req[a] EXCEPT !.stage = "resize"]
<1>1. /\ req[a].kind = "workers" /\ req[a].stage = "cache"
      /\ cache' = [cache EXCEPT !.workers = req[a].n]
      /\ unsure' = unsure \ {"workers"}
      /\ UNCHANGED <<db, mu, pool, up, overlapped, updates, crashes>>
      /\ req' = [req EXCEPT ![a] = r]
    BY DEF CacheWorkers, Advance
<1>2. r \in WorkersRequest /\ r.stage = "resize" /\ r.kind = "workers" /\ r.n = req[a].n
    BY <1>1, Workers, WorkersStage
<1> HIDE DEF r
<1>3. /\ cache' \in Config /\ cache'.upstream = cache.upstream /\ cache'.key = cache.key
      /\ cache'.workers = req[a].n /\ cache'.title = cache.title
    BY <1>1, Workers, Rows, WorkersColumn
<1>4. Shape'
    BY <1>1, <1>2, <1>3, Workers, Rows, StepShape DEF Inv, TypeOK, Request
<1>5. \A b \in Admins : req'[b] = IF b = a THEN r ELSE req[b]
    BY <1>1 DEF Inv, Requests
<1>6. WorkersInv'
    <2>1. Serial("workers")'
        BY <1>1, <1>2, <1>5 DEF Inv, Serial
    <2>2. WorkersCarried'
        BY <1>1, <1>2, <1>3, <1>5, Workers DEF Inv, WorkersCarried
    <2> QED BY <2>1, <2>2 DEF WorkersInv
<1>7. UpstreamInv'
    <2>1. Unmoved("upstream")
        BY <1>1, <1>2, OneMoves DEF Inv
    <2> QED BY <1>1, <1>3, <2>1, Parts, UpstreamStable
<1>8. TitleInv'
    <2>1. Unmoved("title")
        BY <1>1, <1>2, OneMoves DEF Inv
    <2> QED BY <1>1, <1>3, <2>1, Parts, TitleStable
<1> QED BY <1>4, <1>6, <1>7, <1>8 DEF Inv, Shape, UpstreamInv, WorkersInv, TitleInv

LEMMA ApplyWorkersInv == ASSUME Inv, NEW a \in Admins, ApplyWorkers(a) PROVE Inv'
<1>1. /\ req[a].kind = "workers" /\ req[a].stage = "resize" /\ pool' = req[a].n
      /\ UNCHANGED <<db, cache, mu, up, overlapped, unsure, updates, crashes>>
      /\ req' = [req EXCEPT ![a] = Idle]
    BY DEF ApplyWorkers, End
<1>2. Idle \in Request /\ Idle.kind = "none"
    BY DEF Idle, Request
<1>3. Shape'
    BY <1>1, <1>2, Workers, Rows, StepShape DEF Inv, TypeOK
<1>4. \A b \in Admins : req'[b] = IF b = a THEN Idle ELSE req[b]
    BY <1>1 DEF Inv, Requests
<1>5. WorkersInv'
    <2>1. Serial("workers")'
        BY <1>1, <1>2, <1>4 DEF Inv, Serial
    <2>2. WorkersCarried'
        BY <1>1, <1>2, <1>4, Workers DEF Inv, WorkersCarried
    <2> QED BY <2>1, <2>2 DEF WorkersInv
<1>6. UpstreamInv'
    <2>1. Unmoved("upstream")
        BY <1>1, <1>2, OneMoves DEF Inv
    <2> QED BY <1>1, <2>1, Parts, UpstreamStable
<1>7. TitleInv'
    <2>1. Unmoved("title")
        BY <1>1, <1>2, OneMoves DEF Inv
    <2> QED BY <1>1, <2>1, Parts, TitleStable
<1> QED BY <1>3, <1>5, <1>6, <1>7 DEF Inv, Shape, UpstreamInv, WorkersInv, TitleInv

-----------------------------------------------------------------------------
(* UpdateSiteConfig, likewise without a resizer. *)
LEMMA Title ==
    ASSUME Inv, NEW a \in Admins, req[a].kind = "title"
    PROVE  /\ up /\ req[a] \in TitleRequest /\ req[a].title \in Titles
           /\ "title" \notin overlapped =>
                \A b \in Admins : req[b].kind = "title" => b = a
<1>1. up
    BY Unloaded
<1>2. req[a] \in TitleRequest
    BY RequestFacts DEF Inv, Requests
<1> QED BY <1>1, <1>2 DEF Inv, Serial, TitleRequest

LEMMA WriteSiteInv == ASSUME Inv, NEW a \in Admins, WriteSite(a) PROVE Inv'
<1> DEFINE r == [req[a] EXCEPT !.stage = "cache"]
<1>1. /\ req[a].kind = "title" /\ req[a].stage = "write"
      /\ db' = [db EXCEPT !.title = req[a].title]
      /\ UNCHANGED <<cache, mu, pool, up, overlapped, unsure, updates, crashes>>
      /\ req' = [req EXCEPT ![a] = r]
    BY DEF WriteSite, Advance
<1>2. r \in TitleRequest /\ r.stage = "cache" /\ r.kind = "title" /\ r.title = req[a].title
    BY <1>1, Title, TitleStage
<1> HIDE DEF r
<1>3. /\ db' \in Config /\ db'.upstream = db.upstream /\ db'.key = db.key
      /\ db'.workers = db.workers /\ db'.title = req[a].title
    BY <1>1, Title, Rows, TitleColumn
<1>4. Shape'
    BY <1>1, <1>2, <1>3, Title, Rows, StepShape DEF Inv, TypeOK, Request
<1>5. \A b \in Admins : req'[b] = IF b = a THEN r ELSE req[b]
    BY <1>1 DEF Inv, Requests
<1>6. TitleInv'
    <2>1. Serial("title")'
        BY <1>1, <1>2, <1>5 DEF Inv, Serial
    <2>2. TitleCarried'
        BY <1>1, <1>2, <1>3, <1>5, Title DEF TitleCarried
    <2> QED BY <2>1, <2>2 DEF TitleInv
<1>7. UpstreamInv'
    <2>1. Unmoved("upstream")
        BY <1>1, <1>2, OneMoves DEF Inv
    <2> QED BY <1>1, <1>3, <2>1, Parts, UpstreamStable
<1>8. WorkersInv'
    <2>1. Unmoved("workers")
        BY <1>1, <1>2, OneMoves DEF Inv
    <2> QED BY <1>1, <1>3, <2>1, Parts, WorkersStable
<1> QED BY <1>4, <1>6, <1>7, <1>8 DEF Inv, Shape, UpstreamInv, WorkersInv, TitleInv

LEMMA WriteSiteFailsInv == ASSUME Inv, NEW a \in Admins, WriteSiteFails(a) PROVE Inv'
<1>1. /\ req[a].kind = "title" /\ req[a].stage = "write"
      /\ UNCHANGED <<cache, mu, pool, up, overlapped, updates, crashes>>
      /\ req' = [req EXCEPT ![a] = Idle]
    BY DEF WriteSiteFails, End
<1>2. \/ UNCHANGED <<db, unsure>>
      \/ db' = [db EXCEPT !.title = req[a].title] /\ unsure' = unsure \cup {"title"}
    BY <1>1 DEF WriteSiteFails, FailedWrite
<1>3. /\ db' \in Config /\ db'.upstream = db.upstream /\ db'.key = db.key
      /\ db'.workers = db.workers
      /\ unsure' \subseteq Kinds
      /\ "upstream" \in unsure' <=> "upstream" \in unsure
      /\ "workers" \in unsure' <=> "workers" \in unsure
      /\ "title" \notin unsure' => "title" \notin unsure /\ db' = db
    <2>1. unsure \subseteq Kinds
        BY DEF Inv, TypeOK
    <2>2. CASE UNCHANGED <<db, unsure>>
        BY <1>1, <2>1, <2>2, Title, Rows
    <2>3. CASE db' = [db EXCEPT !.title = req[a].title] /\ unsure' = unsure \cup {"title"}
        BY <1>1, <2>1, <2>3, Title, Rows, TitleColumn DEF Kinds
    <2> QED BY <1>2, <2>2, <2>3
<1>4. Idle \in Request /\ Idle.kind = "none"
    BY DEF Idle, Request
<1>5. Shape'
    BY <1>1, <1>3, <1>4, Title, Rows, StepShape DEF Inv, TypeOK
<1>6. \A b \in Admins : req'[b] = IF b = a THEN Idle ELSE req[b]
    BY <1>1 DEF Inv, Requests
<1>7. TitleInv'
    <2>1. Serial("title")'
        BY <1>1, <1>4, <1>6 DEF Inv, Serial
    <2>2. TitleCarried'
        BY <1>1, <1>3, <1>4, <1>6, Title DEF Inv, TitleCarried
    <2> QED BY <2>1, <2>2 DEF TitleInv
<1>8. UpstreamInv'
    <2>1. Unmoved("upstream")
        BY <1>1, <1>4, OneMoves DEF Inv
    <2> QED BY <1>1, <1>3, <2>1, Parts, UpstreamStable
<1>9. WorkersInv'
    <2>1. Unmoved("workers")
        BY <1>1, <1>4, OneMoves DEF Inv
    <2> QED BY <1>1, <1>3, <2>1, Parts, WorkersStable
<1> QED BY <1>5, <1>7, <1>8, <1>9 DEF Inv, Shape, UpstreamInv, WorkersInv, TitleInv

LEMMA CacheSiteInv == ASSUME Inv, NEW a \in Admins, CacheSite(a) PROVE Inv'
<1>1. /\ req[a].kind = "title" /\ req[a].stage = "cache"
      /\ cache' = [cache EXCEPT !.title = req[a].title]
      /\ unsure' = unsure \ {"title"}
      /\ UNCHANGED <<db, mu, pool, up, overlapped, updates, crashes>>
      /\ req' = [req EXCEPT ![a] = Idle]
    BY DEF CacheSite, End
<1>2. /\ cache' \in Config /\ cache'.upstream = cache.upstream /\ cache'.key = cache.key
      /\ cache'.workers = cache.workers /\ cache'.title = req[a].title
    BY <1>1, Title, Rows, TitleColumn
<1>3. Idle \in Request /\ Idle.kind = "none"
    BY DEF Idle, Request
<1>4. Shape'
    BY <1>1, <1>2, <1>3, Title, Rows, StepShape DEF Inv, TypeOK
<1>5. \A b \in Admins : req'[b] = IF b = a THEN Idle ELSE req[b]
    BY <1>1 DEF Inv, Requests
<1>6. TitleInv'
    <2>1. Serial("title")'
        BY <1>1, <1>3, <1>5 DEF Inv, Serial
    <2>2. TitleCarried'
        BY <1>1, <1>2, <1>3, <1>5, Title DEF Inv, TitleCarried
    <2> QED BY <2>1, <2>2 DEF TitleInv
<1>7. UpstreamInv'
    <2>1. Unmoved("upstream")
        BY <1>1, <1>3, OneMoves DEF Inv
    <2> QED BY <1>1, <1>2, <2>1, Parts, UpstreamStable
<1>8. WorkersInv'
    <2>1. Unmoved("workers")
        BY <1>1, <1>3, OneMoves DEF Inv
    <2> QED BY <1>1, <1>2, <2>1, Parts, WorkersStable
<1> QED BY <1>4, <1>6, <1>7, <1>8 DEF Inv, Shape, UpstreamInv, WorkersInv, TitleInv

-----------------------------------------------------------------------------
LEMMA NextInv == Inv /\ [Next]_vars => Inv'
<1> SUFFICES ASSUME Inv, [Next]_vars PROVE Inv'
    OBVIOUS
<1>1. ASSUME NEW a \in Admins, RequestStep(a) PROVE Inv'
    <2>1. KeyInput \subseteq AllKeys /\ Nothing \in AllKeys
        BY DEF KeyInput, AllKeys
    <2> QED BY <1>1, <2>1, UpdateUpstreamInv, UpdateWorkersInv, UpdateSiteInv DEF RequestStep
<1>2. ASSUME NEW a \in Admins, StoreStep(a) PROVE Inv'
    BY <1>2, WriteUpstreamInv, CacheUpstreamInv, WriteWorkersInv, CacheWorkersInv,
       ApplyWorkersInv, WriteSiteInv, CacheSiteInv DEF StoreStep
<1>3. ASSUME NEW a \in Admins, StoreFault(a) PROVE Inv'
    BY <1>3, WriteUpstreamFailsInv, WriteWorkersFailsInv, WriteSiteFailsInv DEF StoreFault
<1>4. CASE UNCHANGED vars
    BY <1>4 DEF vars, Inv, TypeOK, Requests, Booted, Locked, Holding, UpstreamCoherent,
       Serial, WorkersCarried, TitleCarried
<1> QED BY <1>1, <1>2, <1>3, <1>4, LoadInv, CrashInv DEF Next

(* The inductive invariant of the configuration store. *)
THEOREM ConfigInvariant == Spec => []Inv
BY InitInv, NextInv, PTL DEF Spec

(* Row, cache, lock and pool stay within their types. *)
THEOREM TypeCorrect == Spec => []TypeOK
<1>1. Inv => TypeOK
    BY DEF Inv
<1> QED BY <1>1, ConfigInvariant, PTL

(***************************************************************************)
(* Whoever can lock s.mu reads from the cache the credentials of the row,  *)
(* whatever updates and restarts went before, but for a statement that     *)
(* took effect and reported an error.                                      *)
(***************************************************************************)
THEOREM CredentialsCoherent == Spec => []UpstreamCoherent
<1>1. Inv => UpstreamCoherent
    BY DEF Inv
<1> QED BY <1>1, ConfigInvariant, PTL

(***************************************************************************)
(* Updates of the concurrency, and of the title, that never overlapped     *)
(* leave row, cache and pool in agreement once they are done.              *)
(***************************************************************************)
THEOREM SerialUpdates == Spec => []SerialUpdatesCoherent
<1>1. Inv => SerialUpdatesCoherent
    BY DEF Inv, SerialUpdatesCoherent, Settled, Quiet, Busy, WorkersCarried, TitleCarried
<1> QED BY <1>1, ConfigInvariant, PTL

-----------------------------------------------------------------------------
KeyStep ==
    up /\ up' /\ db'.key # db.key /\ "upstream" \notin unsure =>
        \E a \in Admins : /\ req[a].kind = "upstream" /\ req[a].given
                          /\ req[a].key = db'.key

(* A statement that writes the key column writes the key of its request,   *)
(* which is the present one unless the admin gave another.                 *)
LEMMA KeyWritten ==
    ASSUME Inv, NEW a \in Admins, req[a].kind = "upstream", req[a].stage = "write",
           db' = UpstreamRow(a)
    PROVE  KeyStep
<1>1. db'.key = req[a].key
    BY Holder
<1>2. req[a].given \in BOOLEAN
    BY Holder DEF UpstreamRequest
<1>3. ~req[a].given /\ "upstream" \notin unsure => req[a].key = db.key
    BY DEF Inv, Holding
<1> QED BY <1>1, <1>2, <1>3 DEF KeyStep

LEMMA KeyStays == ASSUME Inv, [Next]_vars PROVE KeyStep
<1>1. CASE db'.key = db.key
    BY <1>1 DEF KeyStep
<1>2. CASE ~(up /\ up')
    BY <1>2 DEF KeyStep
<1>3. CASE Load \/ Crash
    BY <1>3, <1>2 DEF Load, Crash
<1>4. ASSUME NEW a \in Admins, RequestStep(a) PROVE KeyStep
    BY <1>1, <1>4 DEF RequestStep, UpdateUpstream, UpdateWorkerConcurrency, UpdateSiteConfig
<1>5. ASSUME NEW a \in Admins, StoreStep(a) PROVE KeyStep
    <2>1. CASE WriteUpstream(a)
        BY <2>1, KeyWritten DEF WriteUpstream, Advance
    <2>2. CASE WriteWorkers(a)
        <3>1. req[a].kind = "workers" /\ db' = [db EXCEPT !.workers = req[a].n]
            BY <2>2 DEF WriteWorkers
        <3> QED BY <1>1, <3>1, Workers, Rows, WorkersColumn
    <2>3. CASE WriteSite(a)
        <3>1. req[a].kind = "title" /\ db' = [db EXCEPT !.title = req[a].title]
            BY <2>3 DEF WriteSite
        <3> QED BY <1>1, <3>1, Title, Rows, TitleColumn
    <2>4. CASE CacheUpstream(a) \/ CacheWorkers(a) \/ ApplyWorkers(a) \/ CacheSite(a)
        BY <1>1, <2>4 DEF CacheUpstream, CacheWorkers, ApplyWorkers, CacheSite
    <2> QED BY <1>5, <2>1, <2>2, <2>3, <2>4 DEF StoreStep
<1>6. ASSUME NEW a \in Admins, StoreFault(a) PROVE KeyStep
    <2>1. CASE WriteUpstreamFails(a)
        <3>1. /\ req[a].kind = "upstream" /\ req[a].stage = "write"
              /\ db' = db \/ db' = UpstreamRow(a)
            BY <2>1 DEF WriteUpstreamFails, FailedWrite
        <3> QED BY <1>1, <3>1, KeyWritten
    <2>2. CASE WriteWorkersFails(a)
        <3>1. /\ req[a].kind = "workers"
              /\ db' = db \/ db' = [db EXCEPT !.workers = req[a].n]
            BY <2>2 DEF WriteWorkersFails, FailedWrite
        <3>2. CASE db' = [db EXCEPT !.workers = req[a].n]
            BY <1>1, <3>1, <3>2, Workers, Rows, WorkersColumn
        <3> QED BY <1>1, <3>1, <3>2
    <2>3. CASE WriteSiteFails(a)
        <3>1. /\ req[a].kind = "title"
              /\ db' = db \/ db' = [db EXCEPT !.title = req[a].title]
            BY <2>3 DEF WriteSiteFails, FailedWrite
        <3>2. CASE db' = [db EXCEPT !.title = req[a].title]
            BY <1>1, <3>1, <3>2, Title, Rows, TitleColumn
        <3> QED BY <1>1, <3>1, <3>2
    <2> QED BY <1>6, <2>1, <2>2, <2>3 DEF StoreFault
<1>7. CASE UNCHANGED vars
    BY <1>1, <1>7 DEF vars
<1> QED BY <1>3, <1>4, <1>5, <1>6, <1>7 DEF Next

(***************************************************************************)
(* No update that keeps the key undoes another admin's new key: the key it *)
(* took from the cache is still that of the row when it is written back.   *)
(***************************************************************************)
THEOREM KeySurvives == Spec => UntouchedKeySurvives
<1>1. Inv /\ [Next]_vars => [KeyStep]_vars
    BY KeyStays
<1>2. Spec => [][KeyStep]_vars
    BY <1>1, ConfigInvariant, PTL DEF Spec
<1> QED BY <1>2 DEF UntouchedKeySurvives, KeyStep
=============================================================================
