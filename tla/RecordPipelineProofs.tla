------------------------- MODULE RecordPipelineProofs -------------------------
(***************************************************************************)
(* Proofs about RecordPipeline for any number of users, workers, requests  *)
(* and records, with database failures and crashes: the invariants that    *)
(* the runs check, and that the pipeline implements RecordLifecycle.       *)
(***************************************************************************)
EXTENDS RecordPipeline, TLAPS

(***************************************************************************)
(* What the properties rest on.  A worker has a record exactly when it is  *)
(* in a tick; a record about to be stored has its blob unless it has been  *)
(* deleted meanwhile; a blob is deleted only for a row that is gone; what  *)
(* a stream found stays found or is deleted; no tick and no request        *)
(* survives the process.                                                   *)
(***************************************************************************)
Links ==
    /\ \A r \in Ids : records[r].status = "absent" <=> r > created
    /\ \A w \in Workers : at[w] = "idle" <=> job[w] = 0
    /\ \A w \in Workers : at[w] = "storing" => job[w] \in blobs \/ Gone(job[w])
    /\ \A q \in Requests : req[q].op # "none" =>
         /\ req[q].id \in Ids
         /\ records[req[q].id].status # "absent"
         /\ req[q].op \in {"deleteBlob", "missing"} => Gone(req[q].id)
         /\ req[q].op = "stream" =>
              records[req[q].id].status \in {"completed", "deleted"}
    /\ ~up => /\ \A w \in Workers : at[w] = "idle"
              /\ \A q \in Requests : req[q].op = "none"

Inv ==
    /\ TypeOK
    /\ ColumnsAgree
    /\ Links
    /\ ClaimedAlone
    /\ CompletedServable
    /\ RunningIsHeld

-----------------------------------------------------------------------------
(* What the row operators return. *)

LEMMA BlankRowFacts ==
    ASSUME NEW s \in Status \cup {"absent", "deleted"}, NEW u \in Users \cup {NoUser}
    PROVE  /\ BlankRow(s, u) \in Row /\ BlankRow(s, u).status = s
           /\ s \in {"waiting", "absent", "deleted"} => RowAgrees(BlankRow(s, u))
BY DEF BlankRow, Row, RowAgrees

LEMMA ClaimRowFacts ==
    ASSUME NEW row \in Row
    PROVE  /\ ClaimRow(row) \in Row /\ ClaimRow(row).status = "running"
           /\ row.status = "waiting" /\ RowAgrees(row) => RowAgrees(ClaimRow(row))
BY DEF ClaimRow, Row, Status, RowAgrees

LEMMA StoreRowFacts ==
    ASSUME NEW row \in Row
    PROVE  /\ StoreRow(row) \in Row /\ StoreRow(row).status = "completed"
           /\ row.status = "running" /\ RowAgrees(row) => RowAgrees(StoreRow(row))
BY DEF StoreRow, Row, Status, RowAgrees

LEMMA FailRowFacts ==
    ASSUME NEW row \in Row, NEW detail \in BOOLEAN
    PROVE  /\ FailRow(row, detail) \in Row /\ FailRow(row, detail).status = "failed"
           /\ row.status = "running" /\ RowAgrees(row) => RowAgrees(FailRow(row, detail))
BY DEF FailRow, Row, Status, RowAgrees

LEMMA RetryRowFacts ==
    ASSUME NEW row \in Row
    PROVE  /\ RetryRow(row) \in Row /\ RetryRow(row).status = "waiting"
           /\ row.status = "failed" /\ RowAgrees(row) => RowAgrees(RetryRow(row))
BY DEF RetryRow, Row, Status, RowAgrees

LEMMA SweepRowFacts ==
    ASSUME NEW row \in Row
    PROVE  /\ SweepRow(row) \in Row /\ SweepRow(row).status = "waiting"
           /\ row.status = "running" /\ RowAgrees(row) => RowAgrees(SweepRow(row))
BY DEF SweepRow, Row, Status, RowAgrees

LEMMA PublishRowFacts ==
    ASSUME NEW row \in Row, NEW pub \in BOOLEAN, NEW pp \in BOOLEAN
    PROVE  /\ PublishRow(row, pub, pp) \in Row
           /\ PublishRow(row, pub, pp).status = row.status
           /\ PublishRow(row, pub, pp).image = row.image
           /\ PublishRow(row, pub, pp).public = pub
           /\ row.status = "completed" /\ RowAgrees(row) => RowAgrees(PublishRow(row, pub, pp))
BY DEF PublishRow, Row, Status, RowAgrees

-----------------------------------------------------------------------------
(* One row is replaced. *)
LEMMA ReplaceRow ==
    ASSUME TypeOK, NEW r \in Ids, NEW new \in Row,
           records' = [records EXCEPT ![r] = new]
    PROVE  /\ records' \in [Ids -> Row]
           /\ records'[r] = new
           /\ \A s \in Ids \ {r} : records'[s] = records[s]
BY DEF TypeOK

(* An UPDATE by id replaces a row, or nothing. *)
LEMMA UpdateByIdCases ==
    ASSUME TypeOK, NEW r \in Ids, NEW new \in Row, UpdateById(r, new)
    PROVE  /\ records' \in [Ids -> Row]
           /\ \A s \in Ids \ {r} : records'[s] = records[s]
           /\ Exists(r) => records'[r] = new
           /\ ~Exists(r) => records' = records
BY ReplaceRow DEF UpdateById, TypeOK

(* A worker in a tick has a record. *)
LEMMA JobIsRecord ==
    ASSUME Inv, NEW w \in Workers, at[w] # "idle"
    PROVE  job[w] \in Ids
BY DEF Inv, TypeOK, Links

LEMMA InitInv == Init => Inv
<1> SUFFICES ASSUME Init PROVE Inv
  OBVIOUS
<1>1. BlankRow("absent", NoUser) \in Row /\ BlankRow("absent", NoUser).status = "absent"
      /\ RowAgrees(BlankRow("absent", NoUser))
  BY BlankRowFacts
<1>2. \A r \in Ids : records[r] = BlankRow("absent", NoUser)
  BY DEF Init
<1>3. TypeOK
  <2>1. records \in [Ids -> Row] /\ at \in [Workers -> TickPoints]
        /\ job \in [Workers -> Ids \cup {0}] /\ req \in [Requests -> Request]
    BY <1>1 DEF Init, TickPoints, Request, NoRequest
  <2>2. created \in 0..MaxRecords /\ retries \in 0..MaxRetries /\ crashes \in 0..MaxCrashes
    BY PipelineAssumption DEF Init, PipelineAssumption
  <2> QED
    BY <2>1, <2>2 DEF Init, TypeOK
<1>4. ColumnsAgree /\ CompletedServable /\ RunningIsHeld
  BY <1>1, <1>2 DEF ColumnsAgree, CompletedServable, RunningIsHeld
<1>5. Links
  BY <1>1, <1>2, PipelineAssumption DEF Links, Init, Ids, NoRequest, PipelineAssumption
<1>6. ClaimedAlone
  BY DEF Init, ClaimedAlone, Claimed
<1> QED
  BY <1>3, <1>4, <1>5, <1>6 DEF Inv

-----------------------------------------------------------------------------
(* Steps inside a tick that touch no row. *)
LEMMA TickMoveInv ==
    ASSUME Inv, NEW w \in Workers, NEW to \in Claimed,
           at[w] \in Claimed, at' = [at EXCEPT ![w] = to],
           blobs' = blobs \/ blobs' = blobs \cup {job[w]},
           to = "storing" => job[w] \in blobs',
           UNCHANGED <<records, created, retries, crashes, job, req, up, stranded>>
    PROVE  Inv'
<1>1. job[w] \in Ids
  BY JobIsRecord DEF Claimed
<1>2. TypeOK'
  BY <1>1 DEF Inv, TypeOK, TickPoints
<1>3. ColumnsAgree' /\ CompletedServable'
  BY DEF Inv, ColumnsAgree, CompletedServable
<1>4. Links'
  BY DEF Inv, TypeOK, Links, Claimed, Gone
<1>5. ClaimedAlone'
  BY DEF Inv, TypeOK, ClaimedAlone, Claimed
<1>6. RunningIsHeld'
  BY DEF Inv, TypeOK, RunningIsHeld, Holds
<1> QED
  BY <1>2, <1>3, <1>4, <1>5, <1>6 DEF Inv

(* A tick that ends without writing: the record was not running, or is     *)
(* stranded.                                                               *)
LEMMA TickEndInv ==
    ASSUME Inv, NEW w \in Workers, at[w] # "idle", Finish(w),
           \/ stranded' = stranded /\ records[job[w]].status # "running"
           \/ stranded' = stranded \cup {job[w]},
           UNCHANGED <<records, created, retries, crashes, req, blobs, up>>
    PROVE  Inv'
<1>1. job[w] \in Ids
  BY JobIsRecord
<1>2. TypeOK'
  BY <1>1 DEF Inv, TypeOK, TickPoints, Finish
<1>3. ColumnsAgree' /\ CompletedServable'
  BY DEF Inv, ColumnsAgree, CompletedServable
<1>4. Links'
  BY DEF Inv, TypeOK, Links, Gone, Finish
<1>5. ClaimedAlone'
  BY DEF Inv, TypeOK, ClaimedAlone, Claimed, Finish
<1>6. RunningIsHeld'
  BY DEF Inv, TypeOK, RunningIsHeld, Holds, Finish
<1> QED
  BY <1>2, <1>3, <1>4, <1>5, <1>6 DEF Inv

(* A tick that ends by writing its outcome. *)
LEMMA TickWriteInv ==
    ASSUME Inv, NEW w \in Workers, at[w] \in Claimed, Finish(w),
           NEW new \in Row, UpdateById(job[w], new),
           new.status \in {"completed", "failed"},
           records[job[w]].status = "running" => RowAgrees(new),
           new.status = "completed" => at[w] = "storing",
           UNCHANGED <<created, retries, crashes, req, blobs, up, stranded>>
    PROVE  Inv'
<1>1. job[w] \in Ids /\ TypeOK
  BY JobIsRecord DEF Claimed, Inv
<1>2. /\ records' \in [Ids -> Row]
      /\ \A s \in Ids \ {job[w]} : records'[s] = records[s]
      /\ Exists(job[w]) => records'[job[w]] = new
      /\ ~Exists(job[w]) => records' = records
  BY <1>1, UpdateByIdCases
<1>3. records[job[w]].status \in {"running", "deleted"}
  BY DEF Inv, ClaimedAlone
<1>4. TypeOK'
  BY <1>1, <1>2 DEF TypeOK, TickPoints, Finish
<1>5. ColumnsAgree'
  BY <1>1, <1>2, <1>3 DEF Inv, ColumnsAgree, Exists, Status
<1>6. CompletedServable'
  BY <1>1, <1>2, <1>3 DEF Inv, CompletedServable, Links, Exists, Status, Gone
<1>7. Links'
  <2>1. \A r \in Ids : (records'[r].status = "absent" <=> records[r].status = "absent")
                       /\ (records'[r].status = "deleted" <=> records[r].status = "deleted")
                       /\ (records[r].status = "completed" => records'[r].status = "completed")
    BY <1>1, <1>2, <1>3 DEF Exists, Status
  <2> QED
    BY <1>1, <2>1 DEF Inv, TypeOK, Links, Gone, Finish
<1>8. ClaimedAlone'
  <2>1. \A v \in Workers \ {w} : at[v] # "idle" => job[v] \in Ids \ {job[w]}
    BY <1>1, JobIsRecord DEF Inv, ClaimedAlone, Ids
  <2>2. \A v \in Workers \ {w} : at'[v] = at[v] /\ job'[v] = job[v]
    BY <1>1 DEF TypeOK, Finish
  <2>3. at'[w] = "idle" /\ job'[w] = 0
    BY <1>1 DEF TypeOK, Finish
  <2> QED
    BY <1>1, <1>2, <2>1, <2>2, <2>3 DEF Inv, ClaimedAlone, Claimed
<1>9. RunningIsHeld'
  BY <1>1, <1>2, <1>3 DEF Inv, TypeOK, RunningIsHeld, Holds, Finish, Exists, Status
<1> QED
  BY <1>4, <1>5, <1>6, <1>7, <1>8, <1>9 DEF Inv

(* The claim: a row no other worker has locked is picked, then flipped. *)
LEMMA ClaimSelectInv == ASSUME Inv, NEW w \in Workers, ClaimSelect(w) PROVE Inv'
<1>1. PICK r \in Claimable : job' = [job EXCEPT ![w] = r]
  BY DEF ClaimSelect
<1>2. /\ up /\ at[w] = "idle" /\ at' = [at EXCEPT ![w] = "selected"]
      /\ UNCHANGED <<records, created, retries, crashes, req, blobs, up, stranded>>
  BY DEF ClaimSelect, Step
<1>3. r \in Ids /\ records[r].status = "waiting" /\ ~Locked(r)
  BY DEF Claimable
<1>4. TypeOK'
  BY <1>1, <1>2, <1>3 DEF Inv, TypeOK, TickPoints
<1>5. ColumnsAgree' /\ CompletedServable'
  BY <1>2 DEF Inv, ColumnsAgree, CompletedServable
<1>6. Links'
  BY <1>1, <1>2, <1>3 DEF Inv, TypeOK, Links, Gone, Ids
<1>7. ClaimedAlone'
  <2>1. \A v \in Workers : job[v] # r
    BY <1>3 DEF Inv, TypeOK, ClaimedAlone, Links, Locked, TickPoints, Ids
  <2> QED
    BY <1>1, <1>2, <1>3, <2>1 DEF Inv, TypeOK, ClaimedAlone, Claimed
<1>8. RunningIsHeld'
  BY <1>1, <1>2 DEF Inv, TypeOK, RunningIsHeld, Holds, Claimed
<1> QED
  BY <1>4, <1>5, <1>6, <1>7, <1>8 DEF Inv

(* Both outcomes of the commit: the worker knows of it, or the reply is    *)
(* lost.                                                                   *)
LEMMA ClaimWriteInv ==
    ASSUME Inv, NEW w \in Workers, ClaimCommit(w) \/ ClaimReplyLost(w)
    PROVE  Inv'
<1>1. TypeOK /\ at[w] = "selected" /\ job[w] \in Ids /\ records[job[w]].status = "waiting"
  BY JobIsRecord DEF Inv, ClaimCommit, ClaimReplyLost, Step, ClaimedAlone
<1> DEFINE r == job[w]
<1>2. records[r] \in Row /\ RowAgrees(records[r]) /\ Exists(r)
  BY <1>1 DEF TypeOK, Inv, ColumnsAgree, Exists, Status
<1>3. /\ ClaimRow(records[r]) \in Row /\ ClaimRow(records[r]).status = "running"
      /\ RowAgrees(ClaimRow(records[r]))
  BY <1>1, <1>2, ClaimRowFacts
<1>4. UpdateById(r, ClaimRow(records[r]))
  BY DEF ClaimCommit, ClaimReplyLost
<1>5. /\ records' \in [Ids -> Row]
      /\ \A s \in Ids \ {r} : records'[s] = records[s]
      /\ records'[r] = ClaimRow(records[r])
  BY <1>1, <1>2, <1>3, <1>4, UpdateByIdCases
<1>6. /\ UNCHANGED <<created, retries, crashes, req, blobs, up>>
      /\ \/ at' = [at EXCEPT ![w] = "claimed"] /\ job' = job /\ stranded' = stranded
         \/ Finish(w) /\ stranded' = stranded \cup {r}
  BY DEF ClaimCommit, ClaimReplyLost, Step
<1>7. TypeOK'
  BY <1>1, <1>5, <1>6 DEF TypeOK, TickPoints, Claimed, Finish
<1>8. ColumnsAgree' /\ CompletedServable'
  BY <1>3, <1>5, <1>6 DEF Inv, ColumnsAgree, CompletedServable
<1>9. Links'
  <2>1. \A s \in Ids : (records'[s].status = "absent" <=> records[s].status = "absent")
                       /\ (records'[s].status = "deleted" <=> records[s].status = "deleted")
                       /\ (records'[s].status = "completed" <=> records[s].status = "completed")
    BY <1>1, <1>3, <1>5
  <2> QED
    BY <1>1, <1>6, <2>1 DEF Inv, TypeOK, Links, Gone, Finish, Ids
<1>10. ClaimedAlone'
  <2>1. \A v \in Workers \ {w} : at[v] # "idle" => job[v] \in Ids \ {r}
    BY <1>1, JobIsRecord DEF Inv, ClaimedAlone, Ids
  <2>2. \A v \in Workers \ {w} : at'[v] = at[v] /\ job'[v] = job[v]
    BY <1>1, <1>6 DEF TypeOK, Finish
  <2>3. (at'[w] = "claimed" /\ job'[w] = r) \/ (at'[w] = "idle" /\ job'[w] = 0)
    BY <1>1, <1>6 DEF TypeOK, Finish
  <2> QED
    BY <1>1, <1>3, <1>5, <2>1, <2>2, <2>3 DEF Inv, ClaimedAlone, Claimed, Links
<1>11. RunningIsHeld'
  BY <1>1, <1>5, <1>6 DEF Inv, TypeOK, RunningIsHeld, Holds, Finish, Claimed
<1> QED
  BY <1>7, <1>8, <1>9, <1>10, <1>11 DEF Inv

LEMMA TickInv == ASSUME Inv, NEW w \in Workers, TickStep(w) \/ TickFault(w) PROVE Inv'
<1>1. CASE ClaimSelect(w)
  BY <1>1, ClaimSelectInv
<1>2. CASE ClaimCommit(w) \/ ClaimReplyLost(w)
  BY <1>2, ClaimWriteInv
<1>3. CASE ClaimRollback(w)
  BY <1>3, TickEndInv DEF ClaimRollback, Inv, ClaimedAlone
<1>4. CASE Reload(w)
  <2>1. CASE Exists(job[w])
    BY <1>4, <2>1, TickMoveInv DEF Reload, Step, Claimed
  <2>2. CASE ~Exists(job[w])
    BY <1>4, <2>2, TickEndInv DEF Reload, Exists, Status
  <2> QED
    BY <2>1, <2>2
<1>5. CASE ReloadFails(w)
  BY <1>5, TickEndInv DEF ReloadFails
<1>6. CASE Snapshot(w)
  BY <1>6, TickMoveInv DEF Snapshot, Step, Claimed
<1>7. CASE Generate(w)
  BY <1>7, TickMoveInv DEF Generate, Step, Claimed
<1>8. CASE Put(w)
  BY <1>8, TickMoveInv DEF Put, Step, Claimed
<1>9. CASE PutFails(w)
  BY <1>9, TickMoveInv DEF PutFails, Step, Claimed
<1>10. CASE OutcomeLost(w)
  BY <1>10, TickEndInv DEF OutcomeLost
<1>11. ASSUME at[w] \in Claimed
       PROVE  job[w] \in Ids /\ records[job[w]] \in Row /\ RowAgrees(records[job[w]])
  BY <1>11, JobIsRecord DEF Claimed, Inv, TypeOK, ColumnsAgree
<1>12. CASE StoreGenerated(w)
  <2>1. at[w] \in Claimed
    BY <1>12 DEF StoreGenerated, Claimed
  <2> QED
    BY <1>11, <1>12, <2>1, StoreRowFacts, TickWriteInv DEF StoreGenerated
<1>13. CASE MarkFailed(w)
  <2>1. at[w] \in Claimed
    BY <1>13 DEF MarkFailed, Claimed
  <2> QED
    BY <1>11, <1>13, <2>1, FailRowFacts, TickWriteInv DEF MarkFailed
<1>14. CASE MarkFailedWithUpstreamError(w)
  <2>1. at[w] \in Claimed
    BY <1>14 DEF MarkFailedWithUpstreamError, Claimed
  <2> QED
    BY <1>11, <1>14, <2>1, FailRowFacts, TickWriteInv DEF MarkFailedWithUpstreamError
<1> QED
  BY <1>1, <1>2, <1>3, <1>4, <1>5, <1>6, <1>7, <1>8, <1>9, <1>10, <1>12, <1>13, <1>14
     DEF TickStep, TickFault

-----------------------------------------------------------------------------
(* A request that writes one row that no worker is entitled to. *)
LEMMA RowStepInv ==
    ASSUME Inv, up, NEW r \in Ids, NEW new \in Row,
           records' = [records EXCEPT ![r] = new], RowAgrees(new),
           \A w \in Workers : job[w] # r,
           \/ /\ r = created + 1 /\ created' = r /\ new.status = "waiting"
           \/ /\ created' = created /\ records[r].status = "failed"
              /\ new.status = "waiting"
           \/ /\ created' = created /\ records[r].status = "completed"
              /\ new.status = "completed",
           retries' \in 0..MaxRetries,
           UNCHANGED <<crashes, at, job, req, blobs, up, stranded>>
    PROVE  Inv'
<1>1. TypeOK
  BY DEF Inv
<1>2. /\ records' \in [Ids -> Row] /\ records'[r] = new
      /\ \A s \in Ids \ {r} : records'[s] = records[s]
  BY <1>1, ReplaceRow
<1>3. created \in 0..MaxRecords /\ MaxRecords \in Nat /\ created' \in 0..MaxRecords
  BY <1>1, PipelineAssumption DEF TypeOK, Ids, PipelineAssumption
<1>4. TypeOK'
  BY <1>1, <1>2, <1>3 DEF TypeOK
<1>5. ColumnsAgree' /\ CompletedServable'
  BY <1>2 DEF Inv, ColumnsAgree, CompletedServable
<1>6. Links'
  <2>1. \A s \in Ids : records'[s].status = "absent" <=> s > created'
    BY <1>2, <1>3 DEF Inv, Links, Ids
  <2>2. \A s \in Ids : records[s].status # "absent" => records'[s].status # "absent"
    BY <1>2
  <2>3. \A s \in Ids : records[s].status \in {"completed", "deleted"}
                         => records'[s].status = records[s].status
    <3>1. r = created + 1 => records[r].status = "absent"
      BY <1>3 DEF Inv, Links
    <3> QED
      BY <1>2, <3>1
  <2>4. \A w \in Workers : at[w] = "storing" => job[w] \in Ids
    BY JobIsRecord
  <2> QED
    BY <1>1, <2>1, <2>2, <2>3, <2>4 DEF Inv, TypeOK, Links, Gone
<1>7. ClaimedAlone'
  <2>1. \A v \in Workers : at[v] # "idle" => job[v] \in Ids \ {r}
    BY JobIsRecord
  <2> QED
    BY <1>2, <2>1 DEF Inv, ClaimedAlone, Claimed
<1>8. RunningIsHeld'
  BY <1>2 DEF Inv, RunningIsHeld, Holds
<1> QED
  BY <1>4, <1>5, <1>6, <1>7, <1>8 DEF Inv

(* A record with no claim on it has no worker. *)
LEMMA NotHeld ==
    ASSUME Inv, NEW r \in Ids, records[r].status \notin {"waiting", "running", "deleted"}
    PROVE  \A w \in Workers : job[w] # r
BY DEF Inv, TypeOK, ClaimedAlone, Links, TickPoints, Ids

LEMMA CreateInv == ASSUME Inv, NEW u \in Users, Create(u) PROVE Inv'
<1>1. created \in Nat /\ created < MaxRecords /\ MaxRecords \in Nat /\ retries \in 0..MaxRetries
  BY PipelineAssumption DEF Inv, TypeOK, Create, PipelineAssumption
<1>2. created + 1 \in Ids
  BY <1>1 DEF Ids
<1>3. records[created + 1].status = "absent"
  BY <1>1, <1>2 DEF Inv, Links
<1>4. /\ BlankRow("waiting", u) \in Row /\ BlankRow("waiting", u).status = "waiting"
      /\ RowAgrees(BlankRow("waiting", u))
  BY BlankRowFacts DEF Status
<1>5. \A w \in Workers : job[w] # created + 1
  BY <1>2, <1>3, NotHeld
<1> QED
  BY <1>1, <1>2, <1>4, <1>5, RowStepInv DEF Create

LEMMA RetryFailedInv ==
    ASSUME Inv, NEW u \in Users, NEW r \in Ids, RetryFailed(u, r) PROVE Inv'
<1>1. records[r] \in Row /\ RowAgrees(records[r]) /\ records[r].status = "failed"
  BY DEF Inv, TypeOK, ColumnsAgree, RetryFailed
<1>2. /\ RetryRow(records[r]) \in Row /\ RetryRow(records[r]).status = "waiting"
      /\ RowAgrees(RetryRow(records[r]))
  BY <1>1, RetryRowFacts
<1>3. retries' \in 0..MaxRetries
  BY PipelineAssumption DEF Inv, TypeOK, RetryFailed, PipelineAssumption
<1> QED
  BY <1>1, <1>2, <1>3, NotHeld, RowStepInv DEF RetryFailed

LEMMA UpdatePublicInv ==
    ASSUME Inv, NEW u \in Users, NEW r \in Ids, NEW pub \in BOOLEAN, NEW pp \in BOOLEAN,
           UpdatePublic(u, r, pub, pp)
    PROVE  Inv'
<1>1. records[r] \in Row /\ RowAgrees(records[r]) /\ records[r].status = "completed"
      /\ retries' \in 0..MaxRetries
  BY DEF Inv, TypeOK, ColumnsAgree, UpdatePublic
<1>2. /\ PublishRow(records[r], pub, pp) \in Row
      /\ PublishRow(records[r], pub, pp).status = "completed"
      /\ RowAgrees(PublishRow(records[r], pub, pp))
  BY <1>1, PublishRowFacts
<1> QED
  BY <1>1, <1>2, NotHeld, RowStepInv DEF UpdatePublic

(* A request that moves on without writing a row; a blob goes only with    *)
(* its row already gone.                                                   *)
LEMMA RequestMoveInv ==
    ASSUME Inv, NEW q \in Requests, NEW new \in Request, Become(q, new),
           up \/ new.op = "none",
           new.op # "none" => new.id \in Ids /\ records[new.id].status # "absent",
           new.op # "deleteBlob",
           new.op = "stream" => records[new.id].status = "completed",
           new.op = "missing" => Gone(new.id),
           \/ blobs' = blobs
           \/ /\ req[q].op = "deleteBlob"
              /\ blobs' = blobs \ {req[q].id},
           UNCHANGED <<records, created, retries, crashes, at, job, up, stranded>>
    PROVE  Inv'
<1>1. TypeOK'
  BY DEF Inv, TypeOK, Become
<1>2. ColumnsAgree' /\ ClaimedAlone' /\ RunningIsHeld'
  BY DEF Inv, ColumnsAgree, ClaimedAlone, RunningIsHeld, Holds
<1>3. \A r \in Ids : r \in blobs => r \in blobs' \/ records[r].status = "deleted"
  BY DEF Inv, Links, Gone
<1>4. CompletedServable'
  BY <1>3 DEF Inv, CompletedServable
<1>5. Links'
  BY <1>3 DEF Inv, TypeOK, Links, Gone, Become
<1> QED
  BY <1>1, <1>2, <1>4, <1>5 DEF Inv

(* The row goes, whether a worker holds it or not. *)
LEMMA DeleteRowInv == ASSUME Inv, NEW q \in Requests, DeleteRow(q) PROVE Inv'
<1> DEFINE r == req[q].id
<1> DEFINE gone == BlankRow("deleted", NoUser)
<1>1. TypeOK /\ req[q].op = "deleteRow" /\ r \in Ids /\ ~Locked(r)
      /\ records[r].status # "absent" /\ req[q] \in Request
  BY DEF Inv, TypeOK, Links, DeleteRow
<1>2. gone \in Row /\ gone.status = "deleted" /\ RowAgrees(gone)
  BY BlankRowFacts
<1>3. /\ records' = [records EXCEPT ![r] = gone]
      /\ req' = [req EXCEPT ![q] = IF req[q].path /\ ~req[q].admin
                   THEN [req[q] EXCEPT !.op = "deleteBlob"] ELSE NoRequest]
      /\ UNCHANGED <<created, retries, crashes, at, job, blobs, up, stranded>>
  BY DEF DeleteRow, Become
<1>4. /\ records' \in [Ids -> Row] /\ records'[r] = gone
      /\ \A s \in Ids \ {r} : records'[s] = records[s]
  BY <1>1, <1>2, <1>3, ReplaceRow
<1>5. /\ req' \in [Requests -> Request]
      /\ \A p \in Requests \ {q} : req'[p] = req[p]
      /\ req'[q].op = "none" \/ (req'[q].op = "deleteBlob" /\ req'[q].id = r)
  BY <1>1, <1>3 DEF TypeOK, Request, NoRequest
<1>6. TypeOK'
  BY <1>1, <1>3, <1>4, <1>5 DEF TypeOK
<1>7. ColumnsAgree' /\ CompletedServable'
  BY <1>2, <1>3, <1>4 DEF Inv, ColumnsAgree, CompletedServable
<1>8. Links'
  <2>1. \A s \in Ids : /\ records'[s].status = "absent" <=> records[s].status = "absent"
                       /\ records[s].status = "deleted" => records'[s].status = "deleted"
                       /\ records[s].status = "completed"
                            => records'[s].status \in {"completed", "deleted"}
    BY <1>1, <1>2, <1>4
  <2>2. \A w \in Workers : at[w] = "storing" => job[w] \in Ids
    BY JobIsRecord
  <2>3. \A p \in Requests : req'[p].op # "none" =>
         /\ req'[p].id \in Ids
         /\ records'[req'[p].id].status # "absent"
         /\ req'[p].op \in {"deleteBlob", "missing"} => records'[req'[p].id].status = "deleted"
         /\ req'[p].op = "stream" =>
              records'[req'[p].id].status \in {"completed", "deleted"}
    BY <1>1, <1>2, <1>4, <1>5, <2>1 DEF Inv, Links, Gone
  <2>4. up
    BY <1>1 DEF Inv, Links, TypeOK
  <2>5. up'
    BY <1>3, <2>4
  <2> QED
    BY <1>3, <2>1, <2>2, <2>3, <2>5 DEF Inv, Links, Gone
<1>9. ClaimedAlone'
  <2>1. \A w \in Workers : at[w] # "idle" => job[w] \in Ids
    BY JobIsRecord
  <2>2. \A w \in Workers : at[w] = "selected" => job[w] # r
    BY <1>1 DEF Locked
  <2> QED
    BY <1>2, <1>3, <1>4, <2>1, <2>2 DEF Inv, ClaimedAlone, Claimed
<1>10. RunningIsHeld'
  BY <1>2, <1>3, <1>4 DEF Inv, RunningIsHeld, Holds
<1> QED
  BY <1>6, <1>7, <1>8, <1>9, <1>10 DEF Inv

LEMMA NoRequestFacts == NoRequest \in Request /\ NoRequest.op = "none"
BY DEF NoRequest, Request

(* What the stream found was completed and is so still, with its image in  *)
(* the store, or has been deleted.                                         *)
LEMMA StreamGetInv == ASSUME Inv, NEW q \in Requests, StreamGet(q) PROVE Inv'
<1>1. /\ req[q].op = "stream" /\ req[q] \in Request /\ req[q].id \in Ids /\ up
      /\ records[req[q].id].status \in {"completed", "deleted"}
      /\ UNCHANGED <<records, created, retries, crashes, at, job, blobs, up, stranded>>
  BY DEF StreamGet, Inv, TypeOK, Links
<1>2. CASE Become(q, NoRequest)
  BY <1>1, <1>2, NoRequestFacts, RequestMoveInv
<1>3. ASSUME NEW op \in {"missing", "unreadable"},
             Become(q, [req[q] EXCEPT !.op = op]), op = "missing" => req[q].id \notin blobs
      PROVE  Inv'
  <2> DEFINE new == [req[q] EXCEPT !.op = op]
  <2>1. new \in Request /\ new.op = op /\ new.id = req[q].id
    BY <1>1 DEF Request
  <2>2. op = "missing" => Gone(req[q].id)
    BY <1>1, <1>3 DEF Inv, CompletedServable, Gone
  <2>3. Become(q, new)
    BY <1>3
  <2> HIDE DEF new
  <2> QED
    BY <1>1, <2>1, <2>2, <2>3, RequestMoveInv
<1> QED
  BY <1>2, <1>3 DEF StreamGet

LEMMA UserInv == ASSUME Inv, UserStep PROVE Inv'
<1>1. ASSUME NEW u \in Users, Create(u) PROVE Inv'
  BY <1>1, CreateInv
<1>2. ASSUME NEW u \in Users, NEW r \in Ids, RetryFailed(u, r) PROVE Inv'
  BY <1>2, RetryFailedInv
<1>3. ASSUME NEW u \in Users, NEW r \in Ids, NEW pub \in BOOLEAN, NEW pp \in BOOLEAN,
             UpdatePublic(u, r, pub, pp)
      PROVE  Inv'
  BY <1>3, UpdatePublicInv
<1>4. ASSUME NEW u \in Users, NEW r \in Ids, NEW q \in Requests, StreamFind(q, u, r)
      PROVE  Inv'
  <2> DEFINE new == [op |-> "stream", id |-> r, path |-> TRUE, admin |-> FALSE]
  <2>1. new \in Request /\ new.op = "stream" /\ new.id = r
    BY DEF Request
  <2>2. records[r].status = "completed"
    BY <1>4 DEF StreamFind, Inv, ColumnsAgree, RowAgrees
  <2>3. Become(q, new) /\ up /\ blobs' = blobs
        /\ UNCHANGED <<records, created, retries, crashes, at, job, up, stranded>>
    BY <1>4 DEF StreamFind
  <2> HIDE DEF new
  <2> QED
    BY <2>1, <2>2, <2>3, RequestMoveInv
<1>5. ASSUME NEW u \in Users, NEW r \in Ids, NEW q \in Requests, NEW admin \in BOOLEAN,
             DeleteFind(q, u, r, admin)
      PROVE  Inv'
  <2> DEFINE new == [op |-> "deleteRow", id |-> r, path |-> records[r].image, admin |-> admin]
  <2>1. records[r].image \in BOOLEAN
    BY DEF Inv, TypeOK, Row
  <2>2. new \in Request /\ new.op = "deleteRow" /\ new.id = r
    BY <2>1 DEF Request
  <2>3. records[r].status # "absent"
    BY <1>5 DEF DeleteFind, Exists, Status
  <2>4. Become(q, new) /\ up /\ blobs' = blobs
        /\ UNCHANGED <<records, created, retries, crashes, at, job, up, stranded>>
    BY <1>5 DEF DeleteFind
  <2> HIDE DEF new
  <2> QED
    BY <2>2, <2>3, <2>4, RequestMoveInv
<1>6. ASSUME NEW q \in Requests, DeleteRow(q) PROVE Inv'
  BY <1>6, DeleteRowInv
<1>7. ASSUME NEW q \in Requests, DeleteRowFails(q) \/ DeleteBlob(q) \/ StreamNotFound(q)
      PROVE  Inv'
  BY <1>7, NoRequestFacts, RequestMoveInv DEF DeleteRowFails, DeleteBlob, StreamNotFound
<1>8. ASSUME NEW q \in Requests, StreamGet(q) PROVE Inv'
  BY <1>8, StreamGetInv
<1> QED
  BY <1>1, <1>2, <1>3, <1>4, <1>5, <1>6, <1>7, <1>8 DEF UserStep

-----------------------------------------------------------------------------
LEMMA CrashInv == ASSUME Inv, Crash PROVE Inv'
<1>1. TypeOK'
  <2>1. crashes' \in 0..MaxCrashes
    BY PipelineAssumption DEF Inv, TypeOK, Crash, PipelineAssumption
  <2>2. /\ at' \in [Workers -> TickPoints] /\ job' \in [Workers -> Ids \cup {0}]
        /\ req' \in [Requests -> Request]
    BY NoRequestFacts DEF Crash, TickPoints
  <2>3. up' \in BOOLEAN
    BY Zenon DEF Crash
  <2> QED
    BY <2>1, <2>2, <2>3 DEF Inv, TypeOK, Crash
<1>2. ColumnsAgree' /\ CompletedServable' /\ ClaimedAlone' /\ RunningIsHeld'
  BY DEF Inv, ColumnsAgree, CompletedServable, ClaimedAlone, RunningIsHeld, Claimed, Crash
<1>3. Links'
  BY NoRequestFacts DEF Inv, Links, Crash
<1> QED
  BY <1>1, <1>2, <1>3 DEF Inv

(* Boot finds no tick under way, so that putting running records back in   *)
(* the queue takes them from nobody.                                       *)
LEMMA BootInv == ASSUME Inv, Boot PROVE Inv'
<1>1. /\ ~up /\ up' = TRUE /\ stranded' = {}
      /\ UNCHANGED <<created, retries, crashes, at, job, req, blobs>>
      /\ records' = [r \in Ids |-> IF records[r].status = "running"
                                      THEN SweepRow(records[r]) ELSE records[r]]
  BY DEF Boot
<1>2. /\ \A w \in Workers : at[w] = "idle"
      /\ \A q \in Requests : req[q].op = "none"
  BY <1>1 DEF Inv, Links
<1>3. ASSUME NEW r \in Ids
      PROVE  /\ records'[r] \in Row /\ RowAgrees(records'[r])
             /\ records'[r].status # "running"
             /\ records'[r].status = "absent" <=> records[r].status = "absent"
             /\ records'[r].status = "completed" <=> records[r].status = "completed"
  <2>1. records[r] \in Row /\ RowAgrees(records[r])
    BY DEF Inv, TypeOK, ColumnsAgree
  <2>2. CASE records[r].status = "running"
    <3>1. records'[r] = SweepRow(records[r])
      BY <1>1, <2>2
    <3> QED
      BY <2>1, <2>2, <3>1, SweepRowFacts
  <2>3. CASE records[r].status # "running"
    <3>1. records'[r] = records[r]
      BY <1>1, <2>3
    <3> QED
      BY <2>1, <2>3, <3>1
  <2> QED
    BY <2>2, <2>3
<1>4. TypeOK'
  <2>1. records' \in [Ids -> Row]
    BY <1>1, <1>3
  <2>2. up' \in BOOLEAN /\ stranded' \subseteq Ids
    BY <1>1, Zenon
  <2> QED
    BY <1>1, <2>1, <2>2 DEF Inv, TypeOK
<1>5. ColumnsAgree' /\ CompletedServable' /\ RunningIsHeld'
  BY <1>1, <1>3 DEF Inv, ColumnsAgree, CompletedServable, RunningIsHeld
<1>6. Links'
  BY <1>1, <1>2, <1>3 DEF Inv, Links
<1>7. ClaimedAlone'
  BY <1>1, <1>2 DEF Inv, ClaimedAlone, Claimed
<1> QED
  BY <1>4, <1>5, <1>6, <1>7 DEF Inv

LEMMA BootSweepFailsInv == ASSUME Inv, BootSweepFails PROVE Inv'
<1>1. /\ ~up /\ up' = TRUE
      /\ stranded' = stranded \cup {r \in Ids : records[r].status = "running"}
      /\ UNCHANGED <<records, created, retries, crashes, at, job, req, blobs>>
  BY DEF BootSweepFails
<1>2. up' \in BOOLEAN
  BY <1>1, Zenon
<1>3. TypeOK'
  BY <1>1, <1>2 DEF Inv, TypeOK
<1>4. ColumnsAgree' /\ CompletedServable' /\ RunningIsHeld' /\ ClaimedAlone'
  BY <1>1 DEF Inv, ColumnsAgree, CompletedServable, RunningIsHeld, ClaimedAlone
<1>5. Links'
  BY <1>1 DEF Inv, Links, Gone
<1> QED
  BY <1>3, <1>4, <1>5 DEF Inv

LEMMA StutterInv == ASSUME Inv, UNCHANGED vars PROVE Inv'
BY DEF Inv, vars, TypeOK, ColumnsAgree, Links, Gone, ClaimedAlone, CompletedServable,
       RunningIsHeld, Holds

(* The inductive step: one case per kind of step. *)
LEMMA NextInv == ASSUME Inv, [Next]_vars PROVE Inv'
<1>1. CASE UserStep
  BY <1>1, UserInv
<1>2. ASSUME NEW w \in Workers, TickStep(w) \/ TickFault(w) PROVE Inv'
  BY <1>2, TickInv
<1>3. CASE Crash
  BY <1>3, CrashInv
<1>4. CASE Boot
  BY <1>4, BootInv
<1>5. CASE BootSweepFails
  BY <1>5, BootSweepFailsInv
<1>6. CASE UNCHANGED vars
  BY <1>6, StutterInv
<1> QED
  BY <1>1, <1>2, <1>3, <1>4, <1>5, <1>6 DEF Next

(* The inductive invariant holds in every reachable state. *)
THEOREM PipelineInvariant == Spec => []Inv
<1> QED
  BY InitInv, NextInv, PTL DEF Spec

-----------------------------------------------------------------------------
(* Every variable keeps its type. *)
THEOREM TypeCorrect == Spec => []TypeOK
<1>1. Inv => TypeOK
  BY DEF Inv
<1> QED
  BY <1>1, PipelineInvariant, PTL

(* The columns of every row fit its status, whatever order claims,         *)
(* outcomes, retries, publications and sweeps come in.                     *)
THEOREM RowsConsistent == Spec => []ColumnsAgree
<1>1. Inv => ColumnsAgree
  BY DEF Inv
<1> QED
  BY <1>1, PipelineInvariant, PTL

(* A record is processed by one worker at a time, and the unguarded        *)
(* UPDATEs by id of the outcome only ever hit a running or a deleted row.  *)
THEOREM ExclusiveClaims == Spec => []ClaimedAlone
<1>1. Inv => ClaimedAlone
  BY DEF Inv
<1> QED
  BY <1>1, PipelineInvariant, PTL

(* A completed record has its image in the blob store. *)
THEOREM ImagesServable == Spec => []CompletedServable
<1>1. Inv => CompletedServable
  BY DEF Inv
<1> QED
  BY <1>1, PipelineInvariant, PTL

(* A stream that finds no object in the store is of a record that was      *)
(* deleted under it; an image that is there and cannot be read is answered *)
(* alike but is another matter.                                            *)
THEOREM StreamsMissOnlyDeleted == Spec => []StreamMissesOnlyDeleted
<1>1. Inv => StreamMissesOnlyDeleted
  BY DEF Inv, Links, StreamMissesOnlyDeleted
<1> QED
  BY <1>1, PipelineInvariant, PTL

(* While the server is up, a running record has a worker or was stranded:  *)
(* a database call about it failed or its outcome was refused.             *)
THEOREM NoLostRecords == Spec => []RunningIsHeld
<1>1. Inv => RunningIsHeld
  BY DEF Inv
<1> QED
  BY <1>1, PipelineInvariant, PTL

-----------------------------------------------------------------------------
(* Refinement.  In a reachable state the images that can be fetched are    *)
(* those of the completed records, so that a step is judged by what it     *)
(* does to the status and the publication of one record.                   *)

LEMMA AvailableIsCompleted ==
    ASSUME Inv
    PROVE  /\ available = {r \in Ids : records[r].status = "completed"}
           /\ \A r \in Ids : records[r].public => records[r].status = "completed"
           /\ \A r \in Ids : records[r].public \in BOOLEAN
BY DEF Inv, available, ColumnsAgree, RowAgrees, CompletedServable, TypeOK, Row

LEMMA MapStutter ==
    ASSUME Inv, Inv',
           \A r \in Ids : /\ records'[r].status = records[r].status
                          /\ records'[r].public = records[r].public
    PROVE  UNCHANGED Lifecycle!lifeVars
<1>1. /\ available = {r \in Ids : records[r].status = "completed"}
      /\ available' = {r \in Ids : records'[r].status = "completed"}
  BY AvailableIsCompleted DEF Inv, available, ColumnsAgree, RowAgrees, CompletedServable
<1>2. available' = available /\ life' = life /\ gallery' = gallery
  BY <1>1 DEF life, gallery
<1> QED
  BY <1>2 DEF Lifecycle!lifeVars

(* Only record r changes. *)
LEMMA MapRow ==
    ASSUME Inv, Inv', NEW r \in Ids,
           \A s \in Ids \ {r} : records'[s] = records[s]
    PROVE  /\ life[r] = records[r].status
           /\ life' = [life EXCEPT ![r] = records'[r].status]
           /\ available' = IF records'[r].status = "completed"
                             THEN available \cup {r} ELSE available \ {r}
           /\ gallery' = IF records'[r].public
                           THEN gallery \cup {r} ELSE gallery \ {r}
           /\ r \in available <=> records[r].status = "completed"
           /\ r \in gallery => records[r].status = "completed"
           /\ records'[r].public => records'[r].status = "completed"
<1>1. /\ available = {s \in Ids : records[s].status = "completed"}
      /\ available' = {s \in Ids : records'[s].status = "completed"}
  BY DEF Inv, available, ColumnsAgree, RowAgrees, CompletedServable
<1>2. \A s \in Ids : (records[s].public => records[s].status = "completed")
                     /\ (records'[s].public => records'[s].status = "completed")
  BY DEF Inv, ColumnsAgree, RowAgrees
<1> QED
  BY <1>1, <1>2 DEF life, gallery

(* One record moves between two states, neither of them completed. *)
LEMMA MapMove ==
    ASSUME Inv, Inv', NEW r \in Ids,
           \A s \in Ids \ {r} : records'[s] = records[s],
           <<records[r].status, records'[r].status>> \in
             {<<"absent", "waiting">>, <<"waiting", "running">>,
              <<"running", "failed">>, <<"failed", "waiting">>}
    PROVE  Lifecycle!LNext
<1>1. /\ life[r] = records[r].status
      /\ life' = [life EXCEPT ![r] = records'[r].status]
      /\ available' = available /\ gallery' = gallery
  BY MapRow
<1>2. \/ Lifecycle!Submit(r) \/ Lifecycle!Start(r) \/ Lifecycle!Fail(r) \/ Lifecycle!Retry(r)
  BY <1>1 DEF Lifecycle!Submit, Lifecycle!Start, Lifecycle!Fail, Lifecycle!Retry, Lifecycle!Move
<1> QED
  BY <1>2 DEF Lifecycle!LNext

LEMMA InitRefines == Init => Lifecycle!LInit
BY DEF Init, BlankRow, Lifecycle!LInit, life, available, gallery

LEMMA TickRefines ==
    ASSUME Inv, Inv', NEW w \in Workers, TickStep(w) \/ TickFault(w)
    PROVE  [Lifecycle!LNext]_(Lifecycle!lifeVars)
<1>1. CASE records' = records
  BY <1>1, MapStutter
<1>2. ASSUME at[w] # "idle"
      PROVE  job[w] \in Ids /\ records[job[w]] \in Row /\ TypeOK
  BY <1>2, JobIsRecord DEF Inv, TypeOK
<1>3. CASE ClaimCommit(w) \/ ClaimReplyLost(w)
  <2>1. at[w] = "selected" /\ records[job[w]].status = "waiting"
        /\ UpdateById(job[w], ClaimRow(records[job[w]]))
    BY <1>3 DEF ClaimCommit, ClaimReplyLost, Step, Inv, ClaimedAlone
  <2>2. Exists(job[w])
    BY <2>1 DEF Exists, Status
  <2>3. /\ \A s \in Ids \ {job[w]} : records'[s] = records[s]
        /\ records'[job[w]].status = "running"
    BY <1>2, <2>1, <2>2, ClaimRowFacts, UpdateByIdCases
  <2> QED
    BY <1>2, <2>1, <2>3, MapMove
<1>4. CASE MarkFailed(w) \/ MarkFailedWithUpstreamError(w)
  <2>1. PICK detail \in BOOLEAN : UpdateById(job[w], FailRow(records[job[w]], detail))
    BY <1>4 DEF MarkFailed, MarkFailedWithUpstreamError
  <2>2. at[w] # "idle" /\ records[job[w]].status \in {"running", "deleted"}
    BY <1>4 DEF MarkFailed, MarkFailedWithUpstreamError, Inv, ClaimedAlone, Claimed
  <2>3. CASE records[job[w]].status = "running"
    <3>1. Exists(job[w])
      BY <2>3 DEF Exists, Status
    <3>2. /\ \A s \in Ids \ {job[w]} : records'[s] = records[s]
          /\ records'[job[w]].status = "failed"
      BY <1>2, <2>1, <2>2, <3>1, FailRowFacts, UpdateByIdCases
    <3> QED
      BY <1>2, <2>2, <2>3, <3>2, MapMove
  <2>4. CASE records[job[w]].status = "deleted"
    BY <1>1, <2>1, <2>4 DEF UpdateById, Exists, Status
  <2> QED
    BY <2>2, <2>3, <2>4
<1>5. CASE StoreGenerated(w)
  <2>1. at[w] # "idle" /\ records[job[w]].status \in {"running", "deleted"}
        /\ UpdateById(job[w], StoreRow(records[job[w]]))
    BY <1>5 DEF StoreGenerated, Inv, ClaimedAlone, Claimed
  <2>2. CASE records[job[w]].status = "running"
    <3> DEFINE r == job[w]
    <3>1. Exists(r)
      BY <2>2 DEF Exists, Status
    <3>2. r \in Ids /\ records[r].public = FALSE
      <4>1. ~records[r].public /\ records[r].public \in BOOLEAN
        BY <1>2, <2>1, <2>2 DEF Inv, ColumnsAgree, RowAgrees, Row
      <4> QED
        BY <1>2, <2>1, <4>1
    <3>3. /\ \A s \in Ids \ {r} : records'[s] = records[s]
          /\ records'[r] = StoreRow(records[r])
      BY <1>2, <2>1, <3>1, StoreRowFacts, UpdateByIdCases
    <3>4. records'[r].status = "completed" /\ ~records'[r].public
      BY <1>2, <2>1, <3>2, <3>3 DEF StoreRow, Row
    <3>5. /\ life[r] = "running" /\ life' = [life EXCEPT ![r] = "completed"]
          /\ available' = available \cup {r} /\ gallery' = gallery
      BY <2>2, <3>2, <3>3, <3>4, MapRow
    <3>6. Lifecycle!Complete(r)
      BY <3>5 DEF Lifecycle!Complete, Lifecycle!Move
    <3> QED
      BY <3>2, <3>6 DEF Lifecycle!LNext
  <2>3. CASE records[job[w]].status = "deleted"
    BY <1>1, <2>1, <2>3 DEF UpdateById, Exists, Status
  <2> QED
    BY <2>1, <2>2, <2>3
<1>6. CASE \/ ClaimSelect(w) \/ Reload(w) \/ Snapshot(w) \/ Generate(w) \/ Put(w) \/ PutFails(w)
          \/ ClaimRollback(w) \/ ReloadFails(w) \/ OutcomeLost(w)
  BY <1>1, <1>6 DEF ClaimSelect, Reload, Snapshot, Generate, Put, PutFails,
                    ClaimRollback, ReloadFails, OutcomeLost
<1> QED
  BY <1>3, <1>4, <1>5, <1>6 DEF TickStep, TickFault

LEMMA UserRefines ==
    ASSUME Inv, Inv', UserStep
    PROVE  [Lifecycle!LNext]_(Lifecycle!lifeVars)
<1>1. TypeOK
  BY DEF Inv
<1>2. ASSUME NEW u \in Users, Create(u) PROVE Lifecycle!LNext
  <2> DEFINE r == created + 1
  <2>1. r \in Ids /\ records[r].status = "absent"
    BY <1>1, <1>2, PipelineAssumption DEF TypeOK, Create, Ids, Inv, Links, PipelineAssumption
  <2>2. BlankRow("waiting", u) \in Row /\ BlankRow("waiting", u).status = "waiting"
    BY BlankRowFacts DEF Status
  <2>3. records'[r].status = "waiting" /\ \A s \in Ids \ {r} : records'[s] = records[s]
    BY <1>1, <1>2, <2>1, <2>2, ReplaceRow DEF Create
  <2> QED
    BY <2>1, <2>3, MapMove
<1>3. ASSUME NEW u \in Users, NEW r \in Ids, RetryFailed(u, r) PROVE Lifecycle!LNext
  <2>1. records[r] \in Row /\ records[r].status = "failed"
    BY <1>1, <1>3 DEF TypeOK, RetryFailed
  <2>2. records'[r].status = "waiting" /\ \A s \in Ids \ {r} : records'[s] = records[s]
    BY <1>1, <1>3, <2>1, RetryRowFacts, ReplaceRow DEF RetryFailed
  <2> QED
    BY <2>1, <2>2, MapMove
<1>4. ASSUME NEW u \in Users, NEW r \in Ids, NEW pub \in BOOLEAN, NEW pp \in BOOLEAN,
             UpdatePublic(u, r, pub, pp)
      PROVE  Lifecycle!LNext
  <2>1. records[r] \in Row /\ records[r].status = "completed"
    BY <1>1, <1>4 DEF TypeOK, UpdatePublic
  <2>2. /\ records'[r].status = "completed" /\ records'[r].public = pub
        /\ \A s \in Ids \ {r} : records'[s] = records[s]
    <3> DEFINE row == PublishRow(records[r], pub, pp)
    <3>1. row \in Row /\ row.status = "completed"
      BY <2>1, PublishRowFacts
    <3>2. row.public = pub
      BY <2>1 DEF PublishRow, Row
    <3>3. records' = [records EXCEPT ![r] = row]
      BY <1>4 DEF UpdatePublic
    <3> HIDE DEF row
    <3>4. records'[r] = row /\ \A s \in Ids \ {r} : records'[s] = records[s]
      BY <1>1, <3>3 DEF TypeOK
    <3> QED
      BY <3>1, <3>2, <3>4
  <2>3. /\ r \in available /\ available' = available \cup {r}
        /\ life[r] = "completed" /\ life' = [life EXCEPT ![r] = "completed"]
        /\ gallery' = IF pub THEN gallery \cup {r} ELSE gallery \ {r}
    BY <2>1, <2>2, MapRow
  <2>4. life' = life /\ available' = available
    BY <2>3 DEF life
  <2>5. Lifecycle!Publish(r) \/ Lifecycle!Unpublish(r)
    BY <2>3, <2>4 DEF Lifecycle!Publish, Lifecycle!Unpublish
  <2> QED
    BY <2>5 DEF Lifecycle!LNext
<1>5. ASSUME NEW q \in Requests, DeleteRow(q)
      PROVE  [Lifecycle!LNext]_(Lifecycle!lifeVars)
  <2> DEFINE r == req[q].id
  <2>1. r \in Ids /\ records[r].status # "absent"
    BY <1>5 DEF DeleteRow, Inv, Links
  <2>2. BlankRow("deleted", NoUser) \in Row /\ BlankRow("deleted", NoUser).status = "deleted"
        /\ BlankRow("deleted", NoUser).public = FALSE
    BY BlankRowFacts DEF BlankRow
  <2>3. /\ records'[r].status = "deleted" /\ records'[r].public = FALSE
        /\ \A s \in Ids \ {r} : records'[s] = records[s]
    BY <1>1, <1>5, <2>1, <2>2, ReplaceRow DEF DeleteRow
  <2>4. /\ life[r] = records[r].status /\ life' = [life EXCEPT ![r] = "deleted"]
        /\ available' = available \ {r} /\ gallery' = gallery \ {r}
        /\ r \in available <=> records[r].status = "completed"
        /\ r \in gallery => records[r].status = "completed"
    BY <2>1, <2>3, MapRow
  <2>5. CASE records[r].status # "deleted"
    <3>1. Lifecycle!Remove(r)
      BY <2>1, <2>4, <2>5 DEF Lifecycle!Remove
    <3> QED
      BY <2>1, <3>1 DEF Lifecycle!LNext
  <2>6. CASE records[r].status = "deleted"
    <3>1. life' = life /\ available' = available /\ gallery' = gallery
      BY <2>1, <2>4, <2>6 DEF life
    <3> QED
      BY <3>1 DEF Lifecycle!lifeVars
  <2> QED
    BY <2>5, <2>6
<1>6. CASE records' = records
  BY <1>6, MapStutter
<1>7. ASSUME NEW q \in Requests,
             \/ \E u \in Users, r \in Ids :
                  StreamFind(q, u, r) \/ \E admin \in BOOLEAN : DeleteFind(q, u, r, admin)
             \/ DeleteRowFails(q) \/ DeleteBlob(q) \/ StreamGet(q) \/ StreamNotFound(q)
      PROVE  [Lifecycle!LNext]_(Lifecycle!lifeVars)
  BY <1>6, <1>7 DEF StreamFind, DeleteFind, DeleteRowFails, DeleteBlob, StreamGet,
                    StreamNotFound
<1> QED
  BY <1>2, <1>3, <1>4, <1>5, <1>7 DEF UserStep

LEMMA BootRefines == ASSUME Inv, Inv', Boot PROVE Lifecycle!LNext
<1>1. ASSUME NEW r \in Ids
      PROVE  /\ records'[r].status = IF records[r].status = "running"
                                       THEN "waiting" ELSE records[r].status
             /\ records'[r].public = records[r].public
  BY <1>1 DEF Boot, SweepRow, Inv, TypeOK, Row
<1>2. life' = [r \in Ids |-> IF life[r] = "running" THEN "waiting" ELSE life[r]]
  BY <1>1 DEF life
<1>3. /\ available = {s \in Ids : records[s].status = "completed"}
      /\ available' = {s \in Ids : records'[s].status = "completed"}
  BY DEF Inv, available, ColumnsAgree, RowAgrees, CompletedServable
<1>4. available' = available /\ gallery' = gallery
  BY <1>1, <1>3 DEF gallery
<1> QED
  BY <1>2, <1>4 DEF Lifecycle!LNext, Lifecycle!Requeue

LEMMA NextRefines ==
    ASSUME Inv, Inv', [Next]_vars
    PROVE  [Lifecycle!LNext]_(Lifecycle!lifeVars)
<1>1. CASE UserStep
  BY <1>1, UserRefines
<1>2. ASSUME NEW w \in Workers, TickStep(w) \/ TickFault(w)
      PROVE  [Lifecycle!LNext]_(Lifecycle!lifeVars)
  BY <1>2, TickRefines
<1>3. CASE Boot
  BY <1>3, BootRefines
<1>4. CASE Crash \/ BootSweepFails \/ UNCHANGED vars
  BY <1>4, MapStutter DEF Crash, BootSweepFails, vars
<1> QED
  BY <1>1, <1>2, <1>3, <1>4 DEF Next

(***************************************************************************)
(* The pipeline implements the life cycle that clients rely on: whatever   *)
(* fails or crashes, a record starts only from waiting, settles only from  *)
(* running, stays completed until it is deleted, and is published only     *)
(* while its image can be fetched.                                         *)
(***************************************************************************)
THEOREM Refinement == Spec => ImplementsLifecycle
<1>1. Init => Lifecycle!LInit
  BY InitRefines
<1>2. Inv /\ Inv' /\ [Next]_vars => [Lifecycle!LNext]_(Lifecycle!lifeVars)
  BY NextRefines
<1> QED
  BY <1>1, <1>2, PipelineInvariant, PTL DEF Spec, ImplementsLifecycle, Lifecycle!Spec
-----------------------------------------------------------------------------
(* What clients get from the life cycle. *)

(***************************************************************************)
(* An image that could be fetched can be fetched until its record is       *)
(* deleted: no retry, sweep, crash or second outcome takes it away.        *)
(***************************************************************************)
ImagesLast ==
    [][\A r \in Ids : r \in available => r \in available' \/ life'[r] = "deleted"]_vars

(***************************************************************************)
(* Every picture in the community gallery can be fetched.                  *)
(***************************************************************************)
GalleryServed == gallery \subseteq available

LEMMA LifecycleKeepsImages ==
    ASSUME Lifecycle!LNext, NEW r \in available
    PROVE  r \in available' \/ life'[r] = "deleted"
<1>1. r \in Ids
  BY DEF available
<1>2. ASSUME NEW s \in Ids, Lifecycle!Remove(s) PROVE r \in available' \/ life'[r] = "deleted"
  <2>1. life = [q \in Ids |-> life[q]] /\ life' = [life EXCEPT ![s] = "deleted"]
    BY <1>2 DEF Lifecycle!Remove, life
  <2>2. available' = available \ {s}
    BY <1>2 DEF Lifecycle!Remove
  <2> QED
    BY <1>1, <2>1, <2>2
<1>3. ASSUME NEW s \in Ids,
             \/ Lifecycle!Submit(s) \/ Lifecycle!Start(s) \/ Lifecycle!Fail(s)
             \/ Lifecycle!Retry(s) \/ Lifecycle!Complete(s)
             \/ Lifecycle!Publish(s) \/ Lifecycle!Unpublish(s)
      PROVE  r \in available'
  BY <1>3 DEF Lifecycle!Submit, Lifecycle!Start, Lifecycle!Fail, Lifecycle!Retry,
              Lifecycle!Complete, Lifecycle!Publish, Lifecycle!Unpublish
<1>4. ASSUME Lifecycle!Requeue PROVE r \in available'
  BY <1>4 DEF Lifecycle!Requeue
<1> QED
  BY <1>2, <1>3, <1>4 DEF Lifecycle!LNext

(* Whatever workers, requests and crashes do, an image that was available  *)
(* goes only with its record.                                              *)
THEOREM ImagesLastUntilDeleted == Spec => ImagesLast
<1>1. ASSUME Inv, Inv', [Next]_vars, NEW r \in available
      PROVE  r \in available' \/ life'[r] = "deleted"
  <2>1. CASE Lifecycle!LNext
    BY <1>1, <2>1, LifecycleKeepsImages
  <2>2. CASE UNCHANGED Lifecycle!lifeVars
    BY <1>1, <2>2 DEF Lifecycle!lifeVars
  <2> QED
    BY <1>1, <2>1, <2>2, NextRefines
<1>2. Inv /\ Inv' /\ [Next]_vars =>
        [\A r \in Ids : r \in available => r \in available' \/ life'[r] = "deleted"]_vars
  BY <1>1
<1> QED
  BY <1>2, PipelineInvariant, PTL DEF Spec, ImagesLast

(* The gallery never shows a record whose image is gone. *)
THEOREM GalleryAlwaysServed == Spec => []GalleryServed
<1>1. Inv => GalleryServed
  BY AvailableIsCompleted DEF GalleryServed, gallery
<1> QED
  BY <1>1, PipelineInvariant, PTL
=============================================================================
