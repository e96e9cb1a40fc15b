---------------------------- MODULE RecordPipeline ----------------------------
(***************************************************************************)
(* The life of a generation record: the rows of table records              *)
(* (internal/record/repo.go), the worker ticks that process them           *)
(* (internal/worker/pool.go, tickOnce), the HTTP handlers that create,     *)
(* retry, publish, delete and stream them (internal/record/handler.go,     *)
(* internal/admin/handler.go), the stored images (internal/blob), and what *)
(* a crash and the boot sequence of cmd/server do to all of these.         *)
(*                                                                         *)
(* One step is one SQL statement or transaction boundary, one blob store   *)
(* call or one upstream call.  A column that is only ever tested for being *)
(* NULL is a Boolean.  The image of a record lives at a path made of the   *)
(* record's own uuid, so a blob is named by the record's id.               *)
(***************************************************************************)
EXTENDS Integers, FiniteSets

CONSTANTS
    Users, NoUser, Workers,
    Requests,     \* slots for requests that take more than one step
    MaxRecords,   \* bound on the number of records ever created
    MaxRetries,   \* bound on the number of accepted retries
    MaxCrashes,   \* bound on the number of process crashes
    DBFaults,     \* TRUE iff database calls may fail
    SplitDetail   \* TRUE iff an upstream detail may be cut inside a character

ASSUME PipelineAssumption ==
    /\ NoUser \notin Users
    /\ MaxRecords \in Nat /\ MaxRetries \in Nat /\ MaxCrashes \in Nat
    /\ DBFaults \in BOOLEAN /\ SplitDetail \in BOOLEAN

VARIABLES
    records,      \* the table
    created,      \* the id sequence: records created so far
    retries, crashes,
    at, job,      \* where each worker stands in tickOnce, and its record
    req,          \* multi-step requests in flight
    blobs,        \* ids whose image is in the blob store
    up,           \* the server process is running
    stranded      \* history: running records whose tick ended in a database
                  \* error, or that a failed sweep left behind

vars == <<records, created, retries, crashes, at, job, req, blobs, up, stranded>>

Ids == 1..MaxRecords

Status == {"waiting", "running", "completed", "failed"}

(* A row, before it is created ("absent") and after ("deleted") included. *)
Row == [status : Status \cup {"absent", "deleted"},
        user : Users \cup {NoUser},
        image : BOOLEAN, error : BOOLEAN, upstreamError : BOOLEAN,
        started : BOOLEAN, finished : BOOLEAN,
        public : BOOLEAN, promptPublic : BOOLEAN, published : BOOLEAN]

BlankRow(status, u) ==
    [status |-> status, user |-> u,
     image |-> FALSE, error |-> FALSE, upstreamError |-> FALSE,
     started |-> FALSE, finished |-> FALSE,
     public |-> FALSE, promptPublic |-> TRUE, published |-> FALSE]

Exists(r) == records[r].status \in Status
Gone(r)   == records[r].status = "deleted"

(***************************************************************************)
(* Points of tickOnce:                                                     *)
(*   "idle"        between ticks                                           *)
(*   "selected"    ClaimWaiting's transaction is open, its row locked      *)
(*   "claimed"     committed; the re-read of the row is pending            *)
(*   "loaded"      the row is read; Snapshot is next                       *)
(*   "generating"  in upstream.Generate                                    *)
(*   "putting"     in blob.Put                                             *)
(*   "storing"     in StoreGenerated                                       *)
(*   "failing"     in MarkFailed                                           *)
(*   "reporting"   in MarkFailedWithUpstreamError                          *)
(***************************************************************************)
Claimed  == {"claimed", "loaded", "generating", "putting", "storing",
             "failing", "reporting"}
TickPoints == Claimed \cup {"idle", "selected"}

Locked(r) == \E w \in Workers : at[w] = "selected" /\ job[w] = r
Holds(w, r) == at[w] \in Claimed /\ job[w] = r

NoRequest == [op |-> "none", id |-> 0, path |-> FALSE, admin |-> FALSE]

Init ==
    /\ records = [r \in Ids |-> BlankRow("absent", NoUser)]
    /\ created = 0 /\ retries = 0 /\ crashes = 0
    /\ at = [w \in Workers |-> "idle"]
    /\ job = [w \in Workers |-> 0]
    /\ req = [q \in Requests |-> NoRequest]
    /\ blobs = {} /\ up = TRUE /\ stranded = {}

-----------------------------------------------------------------------------
(* What each repository call writes to a row. *)

ClaimRow(row) == [row EXCEPT !.status = "running", !.started = TRUE]

(* Mutant: a status that the CHECK of the table does not list. *)
StoreRowSucceeded(row) ==
    [row EXCEPT !.status = "succeeded", !.image = TRUE, !.finished = TRUE]

StoreRow(row) ==
    [row EXCEPT !.status = "completed", !.image = TRUE, !.finished = TRUE,
                !.error = FALSE, !.upstreamError = FALSE]

FailRow(row, detail) ==
    [row EXCEPT !.status = "failed", !.error = TRUE, !.finished = TRUE,
                !.upstreamError = detail]

(* Mutant: only the status is reset. *)
RetryRowStatusOnly(row) == [row EXCEPT !.status = "waiting"]

RetryRow(row) ==
    [row EXCEPT !.status = "waiting", !.error = FALSE, !.upstreamError = FALSE,
                !.started = FALSE, !.finished = FALSE, !.image = FALSE]

SweepRow(row) == [row EXCEPT !.status = "waiting", !.started = FALSE]

PublishRow(row, isPublic, promptPublic) ==
    [row EXCEPT !.public = isPublic, !.published = isPublic,
                !.promptPublic = isPublic => promptPublic]

(* UPDATE ... WHERE id = r: no row, no effect and no error. *)
UpdateById(r, new) ==
    records' = IF Exists(r) THEN [records EXCEPT ![r] = new] ELSE records

-----------------------------------------------------------------------------
(* A worker's tick. *)

Step(w, from, to) == at[w] = from /\ at' = [at EXCEPT ![w] = to]

(* The tick is over. *)
Finish(w) ==
    /\ at' = [at EXCEPT ![w] = "idle"]
    /\ job' = [job EXCEPT ![w] = 0]

Claimable == {r \in Ids : records[r].status = "waiting" /\ ~Locked(r)}

(* Mutant: a plain SELECT, without FOR UPDATE SKIP LOCKED. *)
ClaimSelectUnlocked(w) ==
    /\ up
    /\ Step(w, "idle", "selected")
    /\ \E r \in Ids :
         /\ records[r].status = "waiting"
         /\ job' = [job EXCEPT ![w] = r]
    /\ UNCHANGED <<records, created, retries, crashes, req, blobs, up, stranded>>

(* SELECT ... ORDER BY id LIMIT 1 FOR UPDATE SKIP LOCKED. *)
ClaimSelect(w) ==
    /\ up
    /\ Step(w, "idle", "selected")
    /\ \E r \in Claimable :
         /\ \A s \in Claimable : r <= s
         /\ job' = [job EXCEPT ![w] = r]
    /\ UNCHANGED <<records, created, retries, crashes, req, blobs, up, stranded>>

(* The UPDATE and the COMMIT. *)
ClaimCommit(w) ==
    /\ Step(w, "selected", "claimed")
    /\ UpdateById(job[w], ClaimRow(records[job[w]]))
    /\ UNCHANGED <<created, retries, crashes, job, req, blobs, up, stranded>>

(* The transaction fails before its commit takes effect. *)
ClaimRollback(w) ==
    /\ DBFaults
    /\ at[w] = "selected"
    /\ Finish(w)
    /\ UNCHANGED <<records, created, retries, crashes, req, blobs, up, stranded>>

(* The commit takes effect but reports an error: the tick ends. *)
ClaimReplyLost(w) ==
    /\ DBFaults
    /\ at[w] = "selected"
    /\ UpdateById(job[w], ClaimRow(records[job[w]]))
    /\ Finish(w)
    /\ stranded' = stranded \cup {job[w]}
    /\ UNCHANGED <<created, retries, crashes, req, blobs, up>>

(* FindByID after the claim: a record deleted since then ends the tick. *)
Reload(w) ==
    /\ at[w] = "claimed"
    /\ \/ /\ Exists(job[w])
          /\ Step(w, "claimed", "loaded")
          /\ UNCHANGED job
       \/ /\ ~Exists(job[w])
          /\ Finish(w)
    /\ UNCHANGED <<records, created, retries, crashes, req, blobs, up, stranded>>

(* A database error leaves a claimed row running. *)
ReloadFails(w) ==
    /\ DBFaults
    /\ at[w] = "claimed"
    /\ Finish(w)
    /\ stranded' = stranded \cup {job[w]}
    /\ UNCHANGED <<records, created, retries, crashes, req, blobs, up>>

(* The upstream configuration is complete, or the record fails. *)
Snapshot(w) ==
    /\ \/ Step(w, "loaded", "generating")
       \/ Step(w, "loaded", "failing")
    /\ UNCHANGED <<records, created, retries, crashes, job, req, blobs, up, stranded>>

(* An image, an empty result, or an error. *)
Generate(w) ==
    /\ \/ Step(w, "generating", "putting")
       \/ Step(w, "generating", "failing")
       \/ Step(w, "generating", "reporting")
    /\ UNCHANGED <<records, created, retries, crashes, job, req, blobs, up, stranded>>

Put(w) ==
    /\ Step(w, "putting", "storing")
    /\ blobs' = blobs \cup {job[w]}
    /\ UNCHANGED <<records, created, retries, crashes, job, req, up, stranded>>

(* An error from the store, with the object written or not. *)
PutFails(w) ==
    /\ Step(w, "putting", "failing")
    /\ blobs' \in {blobs, blobs \cup {job[w]}}
    /\ UNCHANGED <<records, created, retries, crashes, job, req, up, stranded>>

StoreGenerated(w) ==
    /\ at[w] = "storing"
    /\ UpdateById(job[w], StoreRow(records[job[w]]))
    /\ Finish(w)
    /\ UNCHANGED <<created, retries, crashes, req, blobs, up, stranded>>

MarkFailed(w) ==
    /\ at[w] = "failing"
    /\ UpdateById(job[w], FailRow(records[job[w]], FALSE))
    /\ Finish(w)
    /\ UNCHANGED <<created, retries, crashes, req, blobs, up, stranded>>

MarkFailedWithUpstreamError(w) ==
    /\ at[w] = "reporting"
    /\ UpdateById(job[w], FailRow(records[job[w]], TRUE))
    /\ Finish(w)
    /\ UNCHANGED <<created, retries, crashes, req, blobs, up, stranded>>

(***************************************************************************)
(* The outcome is not written and tickOnce ignores the error: because the  *)
(* database failed, or the context of the tick has expired (a slow claim,  *)
(* call or Put used it up) and fails every later statement, both counted   *)
(* as database faults, or because the upstream detail, cut at a byte       *)
(* count, ends inside a character and is refused.                          *)
(***************************************************************************)
OutcomeLost(w) ==
    /\ \/ DBFaults /\ at[w] \in {"storing", "failing", "reporting"}
       \/ SplitDetail /\ at[w] = "reporting" /\ Exists(job[w])
    /\ Finish(w)
    /\ stranded' = stranded \cup {job[w]}
    /\ UNCHANGED <<records, created, retries, crashes, req, blobs, up>>

TickStep(w) ==
    \/ ClaimSelect(w)    \/ ClaimCommit(w)  \/ Reload(w)
    \/ Snapshot(w)       \/ Generate(w)     \/ Put(w)  \/ PutFails(w)
    \/ StoreGenerated(w) \/ MarkFailed(w)   \/ MarkFailedWithUpstreamError(w)

TickFault(w) ==
    ClaimRollback(w) \/ ClaimReplyLost(w) \/ ReloadFails(w) \/ OutcomeLost(w)

-----------------------------------------------------------------------------
(* Requests that are one statement. *)

Create(u) ==
    /\ up
    /\ created < MaxRecords
    /\ created' = created + 1
    /\ records' = [records EXCEPT ![created + 1] = BlankRow("waiting", u)]
    /\ UNCHANGED <<retries, crashes, at, job, req, blobs, up, stranded>>

(* Mutant: any settled or running record may be retried. *)
RetryAny(u, r) ==
    /\ up
    /\ retries < MaxRetries
    /\ records[r].status \in {"running", "completed", "failed"}
    /\ records[r].user = u
    /\ retries' = retries + 1
    /\ records' = [records EXCEPT ![r] = RetryRow(records[r])]
    /\ UNCHANGED <<created, crashes, at, job, req, blobs, up, stranded>>

RetryFailed(u, r) ==
    /\ up
    /\ retries < MaxRetries
    /\ records[r].status = "failed"
    /\ records[r].user = u
    /\ retries' = retries + 1
    /\ records' = [records EXCEPT ![r] = RetryRow(records[r])]
    /\ UNCHANGED <<created, crashes, at, job, req, blobs, up, stranded>>

UpdatePublic(u, r, isPublic, promptPublic) ==
    /\ up
    /\ records[r].status = "completed" /\ records[r].image
    /\ records[r].user = u
    /\ records' = [records EXCEPT ![r] = PublishRow(records[r], isPublic, promptPublic)]
    /\ UNCHANGED <<created, retries, crashes, at, job, req, blobs, up, stranded>>

-----------------------------------------------------------------------------
(* Delete: read the row, delete the row, delete the image the read saw.    *)
(* The admin's handler takes the first two steps without owner scope.      *)

Become(q, request) == req' = [req EXCEPT ![q] = request]

DeleteFind(q, u, r, admin) ==
    /\ up
    /\ req[q].op = "none"
    /\ Exists(r)
    /\ admin \/ records[r].user = u
    /\ Become(q, [op |-> "deleteRow", id |-> r,
                  path |-> records[r].image, admin |-> admin])
    /\ UNCHANGED <<records, created, retries, crashes, at, job, blobs, up, stranded>>

(* Mutant: the image goes first, then the row. *)
DeleteBlobFirst(q) ==
    /\ req[q].op = "deleteRow"
    /\ blobs' = IF req[q].path THEN blobs \ {req[q].id} ELSE blobs
    /\ Become(q, [req[q] EXCEPT !.op = "deleteBlob"])
    /\ UNCHANGED <<records, created, retries, crashes, at, job, up, stranded>>

(* DELETE waits for a claim's row lock; a second DELETE finds no row. *)
DeleteRow(q) ==
    /\ req[q].op = "deleteRow"
    /\ ~Locked(req[q].id)
    /\ records' = [records EXCEPT ![req[q].id] = BlankRow("deleted", NoUser)]
    /\ Become(q, IF req[q].path /\ ~req[q].admin
                   THEN [req[q] EXCEPT !.op = "deleteBlob"] ELSE NoRequest)
    /\ UNCHANGED <<created, retries, crashes, at, job, blobs, up, stranded>>

DeleteRowFails(q) ==
    /\ DBFaults
    /\ req[q].op = "deleteRow"
    /\ Become(q, NoRequest)
    /\ UNCHANGED <<records, created, retries, crashes, at, job, blobs, up, stranded>>

(* The error of blob.Delete is ignored. *)
DeleteBlob(q) ==
    /\ req[q].op = "deleteBlob"
    /\ blobs' \in {blobs, blobs \ {req[q].id}}
    /\ Become(q, NoRequest)
    /\ UNCHANGED <<records, created, retries, crashes, at, job, up, stranded>>

-----------------------------------------------------------------------------
(* StreamImage: find a visible image, then fetch it.  Whatever the error of *)
(* blob.Get, the answer is 404 "image not found"; the model tells the two   *)
(* reasons apart: "missing" when the store has no such object and says so,  *)
(* "unreadable" for any other error, of an object that may well be there.   *)

StreamFind(q, u, r) ==
    /\ up
    /\ req[q].op = "none"
    /\ Exists(r) /\ records[r].image
    /\ records[r].user = u \/ records[r].public
    /\ Become(q, [op |-> "stream", id |-> r, path |-> TRUE, admin |-> FALSE])
    /\ UNCHANGED <<records, created, retries, crashes, at, job, blobs, up, stranded>>

StreamGet(q) ==
    /\ req[q].op = "stream"
    /\ \/ req[q].id \in blobs /\ Become(q, NoRequest)
       \/ req[q].id \notin blobs /\ Become(q, [req[q] EXCEPT !.op = "missing"])
       \/ Become(q, [req[q] EXCEPT !.op = "unreadable"])
    /\ UNCHANGED <<records, created, retries, crashes, at, job, blobs, up, stranded>>

(* The 404 is sent. *)
StreamNotFound(q) ==
    /\ req[q].op \in {"missing", "unreadable"}
    /\ Become(q, NoRequest)
    /\ UNCHANGED <<records, created, retries, crashes, at, job, blobs, up, stranded>>

-----------------------------------------------------------------------------
(* The process dies, or exits with ticks unfinished when the deadline of   *)
(* pool.Stop passes: open transactions roll back, ticks and requests end.  *)
Crash ==
    /\ up
    /\ crashes < MaxCrashes
    /\ crashes' = crashes + 1
    /\ up' = FALSE
    /\ at' = [w \in Workers |-> "idle"]
    /\ job' = [w \in Workers |-> 0]
    /\ req' = [q \in Requests |-> NoRequest]
    /\ UNCHANGED <<records, created, retries, blobs, stranded>>

(* Mutant: the workers start and nothing is swept. *)
BootNoSweep ==
    /\ ~up
    /\ up' = TRUE
    /\ UNCHANGED <<records, created, retries, crashes, at, job, req, blobs, stranded>>

(* run: SweepRunningToWaiting, then pool.Start. *)
Boot ==
    /\ ~up
    /\ up' = TRUE
    /\ records' = [r \in Ids |-> IF records[r].status = "running"
                                   THEN SweepRow(records[r]) ELSE records[r]]
    /\ stranded' = {}
    /\ UNCHANGED <<created, retries, crashes, at, job, req, blobs>>

(* The sweep fails; run logs a warning and starts the pool all the same. *)
BootSweepFails ==
    /\ DBFaults
    /\ ~up
    /\ up' = TRUE
    /\ stranded' = stranded \cup {r \in Ids : records[r].status = "running"}
    /\ UNCHANGED <<records, created, retries, crashes, at, job, req, blobs>>

-----------------------------------------------------------------------------
UserStep ==
    \/ \E u \in Users : Create(u)
    \/ \E u \in Users, r \in Ids :
         \/ RetryFailed(u, r)
         \/ \E isPublic, promptPublic \in BOOLEAN :
              UpdatePublic(u, r, isPublic, promptPublic)
         \/ \E q \in Requests :
              \/ StreamFind(q, u, r)
              \/ \E admin \in BOOLEAN : DeleteFind(q, u, r, admin)
    \/ \E q \in Requests :
         \/ DeleteRow(q) \/ DeleteRowFails(q) \/ DeleteBlob(q)
         \/ StreamGet(q) \/ StreamNotFound(q)

Next ==
    \/ UserStep
    \/ \E w \in Workers : TickStep(w) \/ TickFault(w)
    \/ Crash \/ Boot \/ BootSweepFails

Spec == Init /\ [][Next]_vars

(***************************************************************************)
(* Every worker that can take a step takes one (a tick is bounded by its   *)
(* six-minute context and idle workers poll every two seconds), and the    *)
(* container is restarted.  The database may fail, but not every claim for *)
(* ever: the commits of a worker that keeps trying succeed now and then.   *)
(* Nothing of the kind is assumed of the writes of outcomes, which are     *)
(* tried once.  Users are not fair.                                        *)
(***************************************************************************)
Fairness ==
    /\ \A w \in Workers : WF_vars(TickStep(w)) /\ SF_vars(ClaimCommit(w))
    /\ WF_vars(Boot)

FairSpec == Spec /\ Fairness

-----------------------------------------------------------------------------
(* Types of the table, the workers, the requests and the blob store. *)
Request == [op : {"none", "deleteRow", "deleteBlob", "stream", "missing", "unreadable"},
            id : Ids \cup {0}, path : BOOLEAN, admin : BOOLEAN]

TypeOK ==
    /\ records \in [Ids -> Row]
    /\ created \in 0..MaxRecords
    /\ retries \in 0..MaxRetries
    /\ crashes \in 0..MaxCrashes
    /\ at \in [Workers -> TickPoints]
    /\ job \in [Workers -> Ids \cup {0}]
    /\ req \in [Requests -> Request]
    /\ blobs \subseteq Ids
    /\ up \in BOOLEAN
    /\ stranded \subseteq Ids

RowAgrees(row) ==
    /\ row.image <=> row.status = "completed"
    /\ row.error <=> row.status = "failed"
    /\ row.upstreamError => row.status = "failed"
    /\ row.started <=> row.status \in {"running", "completed", "failed"}
    /\ row.finished <=> row.status \in {"completed", "failed"}
    /\ row.public => row.status = "completed"
    /\ row.published <=> row.public
    /\ row.promptPublic \/ row.public

(***************************************************************************)
(* The columns of a row always tell one story, as ToDTO shows them: an     *)
(* image exactly when completed, an error exactly when failed and upstream *)
(* detail only then, timestamps that fit the status, and a publication     *)
(* date exactly while public.  No statement sets all columns, so this      *)
(* depends on the order in which claims, outcomes, retries and sweeps can  *)
(* hit a row.                                                              *)
(***************************************************************************)
ColumnsAgree == \A r \in Ids : RowAgrees(records[r])

(***************************************************************************)
(* ClaimWaiting gives a record to one worker: no two workers work on the   *)
(* same record, and until its tick ends nothing but a deletion moves the   *)
(* record out of running.  The outcome writes, which test no status, rest  *)
(* on this.                                                                *)
(***************************************************************************)
ClaimedAlone ==
    \A w \in Workers :
      /\ at[w] = "selected" => records[job[w]].status = "waiting"
      /\ at[w] \in Claimed => records[job[w]].status \in {"running", "deleted"}
      /\ \A v \in Workers : job[v] = job[w] /\ job[w] # 0 => v = w

(* The image of a completed record is in the store: Put comes before       *)
(* StoreGenerated, the row goes before the blob, and nothing retried later *)
(* or deleted twice takes the blob of a record that is still there.        *)
CompletedServable ==
    \A r \in Ids : records[r].status = "completed" => r \in blobs

(***************************************************************************)
(* A stream finds no object only for a record that was deleted since it    *)
(* was found, so a record that is still there never lost its image.  It    *)
(* does not say that a client who reads "image not found" may conclude     *)
(* that much: StreamImage gives the same answer when the store could not   *)
(* read an image that it has (handler.go:307-309), the "unreadable" case.  *)
(***************************************************************************)
StreamMissesOnlyDeleted ==
    \A q \in Requests : req[q].op = "missing" => Gone(req[q].id)

(***************************************************************************)
(* No record is left running by accident: while the server is up, a record *)
(* in running is held by a worker, unless a database call failed on it or  *)
(* its outcome was refused.  Such a record stays so until the next boot.   *)
(***************************************************************************)
RunningIsHeld ==
    up => \A r \in Ids : records[r].status = "running" =>
            r \in stranded \/ \E w \in Workers : Holds(w, r)

(***************************************************************************)
(* A queued record is completed, failed or deleted in the end, crashes and *)
(* restarts included, or it is stranded.  Stranded is what the code does   *)
(* not repair while it runs: tickOnce discards the error of the write that *)
(* records an outcome, so when that write fails, because of the database,  *)
(* of a tick whose context a slow Put or call has used up, or of a detail  *)
(* cut inside a character, the record is running until the next boot.      *)
(* What is promised is that nothing else keeps a record from settling, and *)
(* that a boot whose sweep succeeds puts a stranded record on its way      *)
(* again.                                                                  *)
(***************************************************************************)
EveryRecordSettles ==
    \A r \in Ids : records[r].status = "waiting" ~>
                      \/ records[r].status \in {"completed", "failed", "deleted"}
                      \/ r \in stranded

-----------------------------------------------------------------------------
(***************************************************************************)
(* What the pipeline promises a client, as RecordLifecycle states it.  A   *)
(* record's image counts as available when the row and the blob store      *)
(* agree on it.                                                            *)
(***************************************************************************)
life == [r \in Ids |-> records[r].status]
available == {r \in Ids : records[r].image /\ r \in blobs}
gallery == {r \in Ids : records[r].public}

Lifecycle == INSTANCE RecordLifecycle WITH
    Ids <- Ids, life <- life, available <- available, gallery <- gallery

(* Every step of the pipeline is a step of the life cycle, or none. *)
ImplementsLifecycle == Lifecycle!Spec
=============================================================================
