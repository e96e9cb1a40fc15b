------------------------------ MODULE ImageStore ------------------------------
(***************************************************************************)
(* The two implementations of blob.Store (internal/blob) under the server: *)
(* LocalFS, whose Put goes through a temporary file, and S3Store.  The     *)
(* server runs with one of them; the operator may change LocalFS to S3     *)
(* when the server is down.                                                *)
(*                                                                         *)
(* One step of LocalFS is one system call.  A file's data and a directory  *)
(* entry reach the disk on their own unless Sync forces the data.  The     *)
(* random name that CreateTemp picks is taken to be one that no Put still  *)
(* uses.                                                                   *)
(***************************************************************************)
EXTENDS Naturals

CONSTANTS
    Paths,    \* image paths
    Temps,    \* names of temporary files; they start with a dot
    Images,   \* contents that are whole images
    Torn,     \* a part of an image
    Absent,   \* no file, no object
    MaxPuts,  \* bound on the images ever put
    Workers   \* slots for Puts in flight

ASSUME ImageStoreAssumption ==
    /\ Paths \cap Temps = {}
    /\ {Torn, Absent} \cap Images = {} /\ Torn # Absent
    /\ MaxPuts \in Nat

VARIABLES
    files,    \* what is in the data directory, by name
    disk,     \* what the disk holds of the directory for each path
    put,      \* Puts of LocalFS in flight
    bucket,   \* objects in the S3 bucket, by key
    up, driver,
    puts      \* images put so far

storeVars == <<files, disk, put, bucket, up, driver, puts>>

Names == Paths \cup Temps

(* A file is its contents, and whether Sync has forced them to the disk. *)
NoFile == [image |-> Absent, synced |-> TRUE]

NoPut == [at |-> "idle", path |-> Absent, image |-> Absent, temp |-> Absent]

StoreInit ==
    /\ files = [n \in Names |-> NoFile]
    /\ disk = [p \in Paths |-> NoFile]
    /\ put = [w \in Workers |-> NoPut]
    /\ bucket = [n \in Names |-> Absent]
    /\ up = TRUE /\ driver = "local" /\ puts = 0

-----------------------------------------------------------------------------
(* LocalFS.Put *)

Step(w, from, to) == put[w].at = from /\ put' = [put EXCEPT ![w].at = to]

(* MkdirAll and CreateTemp.  No two workers have the same record. *)
CreateTemp(w, p, i, t) ==
    /\ up /\ driver = "local" /\ put[w].at = "idle"
    /\ files[t] = NoFile /\ puts < MaxPuts /\ puts' = puts + 1
    /\ \A v \in Workers : put[v].temp # t /\ put[v].path # p
    /\ put' = [put EXCEPT ![w] = [at |-> "write", path |-> p, image |-> i, temp |-> t]]
    /\ files' = [files EXCEPT ![t] = [image |-> Torn, synced |-> FALSE]]
    /\ UNCHANGED <<disk, bucket, up, driver>>

(* Mutant: no Sync. *)
WriteNoSync(w) ==
    /\ Step(w, "write", "rename")
    /\ files' = [files EXCEPT ![put[w].temp].image = put[w].image]
    /\ UNCHANGED <<disk, bucket, up, driver, puts>>

Write(w) ==
    /\ Step(w, "write", "sync")
    /\ files' = [files EXCEPT ![put[w].temp].image = put[w].image]
    /\ UNCHANGED <<disk, bucket, up, driver, puts>>

(* Sync and Close. *)
Sync(w) ==
    /\ Step(w, "sync", "rename")
    /\ files' = [files EXCEPT ![put[w].temp].synced = TRUE]
    /\ UNCHANGED <<disk, bucket, up, driver, puts>>

Rename(w) ==
    /\ Step(w, "rename", "remove")
    /\ files' = [files EXCEPT ![put[w].path] = files[put[w].temp],
                              ![put[w].temp] = NoFile]
    /\ UNCHANGED <<disk, bucket, up, driver, puts>>

(* One of the calls fails; Put returns through the deferred cleanup. *)
PutError(w) ==
    /\ put[w].at \in {"write", "sync", "rename"}
    /\ put' = [put EXCEPT ![w].at = "remove"]
    /\ UNCHANGED <<files, disk, bucket, up, driver, puts>>

(* The deferred Remove, which finds nothing after a Rename. *)
Remove(w) ==
    /\ put[w].at = "remove"
    /\ put' = [put EXCEPT ![w] = NoPut]
    /\ files' = [files EXCEPT ![put[w].temp] = NoFile]
    /\ UNCHANGED <<disk, bucket, up, driver, puts>>

Delete(p) ==
    /\ up /\ driver = "local" /\ files[p] # NoFile
    /\ files' = [files EXCEPT ![p] = NoFile]
    /\ UNCHANGED <<disk, put, bucket, up, driver, puts>>

-----------------------------------------------------------------------------
(* S3Store: PutObject and DeleteObject of the server.  A call that reports *)
(* an error has taken effect or not.                                       *)

S3Put(p, i) ==
    /\ up /\ driver = "s3" /\ puts < MaxPuts /\ puts' = puts + 1
    /\ bucket' = [bucket EXCEPT ![p] = i]
    /\ UNCHANGED <<files, disk, put, up, driver>>

S3Delete(p) ==
    /\ up /\ driver = "s3" /\ bucket[p] # Absent
    /\ bucket' = [bucket EXCEPT ![p] = Absent]
    /\ UNCHANGED <<files, disk, put, up, driver, puts>>

-----------------------------------------------------------------------------
(* The machine. *)

(* The operating system writes the directory out. *)
Flush ==
    /\ disk # [p \in Paths |-> files[p]]
    /\ disk' = [p \in Paths |-> files[p]]
    /\ UNCHANGED <<files, put, bucket, up, driver, puts>>

Crash ==
    /\ up /\ up' = FALSE
    /\ put' = [w \in Workers |-> NoPut]
    /\ UNCHANGED <<files, disk, bucket, driver, puts>>

OnDisk(n) == IF n \in Paths THEN disk[n] ELSE NoFile

(* The names in back are as the disk had them, the others as in memory;    *)
(* data that was not forced out is lost in part for the names in torn.     *)
AfterPowerLoss(back, torn) ==
    [n \in Names |->
       LET file == IF n \in back THEN OnDisk(n) ELSE files[n] IN
       [image |-> IF n \in torn /\ ~file.synced THEN Torn ELSE file.image,
        synced |-> TRUE]]

PowerLoss ==
    /\ up' = FALSE
    /\ put' = [w \in Workers |-> NoPut]
    /\ \E back \in SUBSET {n \in Names : OnDisk(n) # files[n]},
         torn \in SUBSET {n \in Names : ~files[n].synced \/ ~OnDisk(n).synced} :
           files' = AfterPowerLoss(back, torn)
    /\ disk' = [p \in Paths |-> files'[p]]
    /\ UNCHANGED <<bucket, driver, puts>>

Shutdown ==
    /\ up /\ \A w \in Workers : put[w].at = "idle"
    /\ up' = FALSE
    /\ UNCHANGED <<files, disk, put, bucket, driver, puts>>

(* buildBlobStore reads BLOB_DRIVER. *)
Boot(d) ==
    /\ ~up /\ up' = TRUE
    /\ driver = "s3" => d = "s3"
    /\ driver' = d
    /\ UNCHANGED <<files, disk, put, bucket, puts>>

PutStep(w) ==
    \/ \E p \in Paths, i \in Images, t \in Temps : CreateTemp(w, p, i, t)
    \/ Write(w) \/ Sync(w) \/ Rename(w) \/ PutError(w) \/ Remove(w)

ServerStep ==
    \/ \E w \in Workers : PutStep(w)
    \/ \E p \in Paths : Delete(p) \/ S3Delete(p) \/ \E i \in Images : S3Put(p, i)
    \/ Crash \/ Shutdown \/ \E d \in {"local", "s3"} : Boot(d)

-----------------------------------------------------------------------------
(***************************************************************************)
(* LocalFS as an AtomicStore.  A Put is pending until its Rename; Delete   *)
(* takes effect at once.                                                   *)
(***************************************************************************)
Local == INSTANCE AtomicStore WITH
    Paths <- Paths, Images <- Images, Absent <- Absent,
    content <- [p \in Paths |-> files[p].image],
    saved <- [p \in Paths |-> disk[p].image],
    pending <- {<<put[w].path, put[w].image>> :
                  w \in {v \in Workers : put[v].at \in {"write", "sync", "rename"}}}

(* Every step of LocalFS, its failures, crashes and losses of power        *)
(* included, is a step of an atomic store.                                 *)
LocalIsAtomic == Local!Spec
=============================================================================
