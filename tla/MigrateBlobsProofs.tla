--------------------------- MODULE MigrateBlobsProofs --------------------------
(***************************************************************************)
(* Proofs about MigrateBlobs, and about the image store under it, for any  *)
(* number of images, Puts in flight and runs of the tool, with crashes and *)
(* losses of power at any step.                                            *)
(***************************************************************************)
EXTENDS MigrateBlobs, TLAPS

Contents == Images \cup {Torn, Absent}

File == [image : Contents, synced : BOOLEAN]

PutRow == [at : {"idle", "write", "sync", "rename", "remove"},
           path : Paths \cup {Absent}, image : Images \cup {Absent},
           temp : Temps \cup {Absent}]

Tool == [at : {"idle", "walk", "read", "put", "stat", "done"}, mode : Modes,
         unlisted : SUBSET Names, entries : SUBSET Names,
         name : Names \cup {Absent}, data : Contents,
         failed : BOOLEAN, quiet : BOOLEAN]

(* Types of the store; those of the bucket are part of BucketWhole. *)
StoreTypes ==
    /\ files \in [Names -> File] /\ disk \in [Paths -> File]
    /\ put \in [Workers -> PutRow]
    /\ bucket \in [Names -> Images \cup {Absent}]
    /\ up \in BOOLEAN /\ driver \in {"local", "s3"} /\ puts \in Nat

(* A path names a whole image that has reached the disk, or nothing. *)
PathsWhole ==
    \A p \in Paths : /\ files[p].image # Torn /\ files[p].synced
                     /\ disk[p].image # Torn /\ disk[p].synced

(* Puts in flight have a path and a temporary file of their own, and the   *)
(* file holds what the Put has written and forced out so far.              *)
PutsOwn ==
    /\ ~up => \A w \in Workers : put[w].at = "idle"
    /\ \A w \in Workers : put[w].at # "idle" =>
         /\ put[w].path \in Paths /\ put[w].image \in Images /\ put[w].temp \in Temps
         /\ put[w].at \in {"sync", "rename"} => files[put[w].temp].image = put[w].image
         /\ put[w].at = "rename" => files[put[w].temp].synced
         /\ \A v \in Workers \ {w} : put[v].at # "idle" =>
              put[v].path # put[w].path /\ put[v].temp # put[w].temp

(* The tool handles image paths only, and whole images. *)
ToolOnPaths ==
    /\ tool.at \in {"read", "put", "stat"} => tool.name \in Paths
    /\ tool.at = "read" \/ tool.at = "put" => tool.mode = "copy"
    /\ tool.at = "stat" => tool.mode = "verify"
    /\ tool.at \in {"put", "stat"} => tool.data \in Images

Copied(p) ==
    /\ tool.mode = "copy" => bucket[p] = files[p].image
    /\ tool.mode = "verify" => bucket[p] \in Images /\ Size[bucket[p]] = Size[files[p].image]

(* An image that has not changed since the run began is ahead of the walk, *)
(* in the tool's hands with the contents it still has, or copied; unless   *)
(* the run has counted a failure.                                          *)
Progress ==
    tool.at # "idle" =>
        /\ tool.at = "done" => tool.unlisted = {} /\ tool.entries = {} /\ ~tool.failed
        /\ \A p \in since :
             /\ files[p] # NoFile
             /\ tool.name = p /\ tool.at \in {"put", "stat"} => tool.data = files[p].image
             /\ ~tool.failed =>
                  \/ p \in tool.unlisted \cup tool.entries
                  \/ tool.at \in {"read", "put", "stat"} /\ tool.name = p
                  \/ Copied(p)

(* While the server has been down since the run began, nothing changed. *)
Quietly ==
    tool.quiet => ~up /\ \A p \in Paths : files[p] # NoFile => p \in since

StoreInv == StoreTypes /\ PathsWhole /\ PutsOwn

ToolInv ==
    /\ tool \in Tool /\ since \subseteq Paths
    /\ BucketWhole /\ ToolOnPaths /\ Progress /\ Quietly

Inv == StoreInv /\ ToolInv

-----------------------------------------------------------------------------
LEMMA NoFileFacts == NoFile \in File /\ NoFile.image = Absent /\ NoFile.synced
BY DEF NoFile, File, Contents

LEMMA NoPutFacts == NoPut \in PutRow /\ NoPut.at = "idle"
BY DEF NoPut, PutRow

LEMMA NoRunFacts ==
    /\ NoRun \in Tool /\ NoRun.at = "idle" /\ ~NoRun.quiet
    /\ NoRun.name = Absent /\ ~NoRun.failed
BY DEF NoRun, Tool, Modes, Contents

(* No name is both a path and a temporary file's. *)
LEMMA NamesApart ==
    /\ Paths \subseteq Names /\ Temps \subseteq Names
    /\ \A p \in Paths, t \in Temps : p # t
    /\ Torn \notin Images /\ Absent \notin Images /\ Torn # Absent
BY ImageStoreAssumption DEF Names

(* Every image path holds a whole image or nothing at all. *)
LEMMA PathFacts ==
    ASSUME StoreInv, NEW p \in Paths
    PROVE  /\ files[p] \in File /\ files[p].image \in Images \cup {Absent} /\ files[p].synced
           /\ disk[p] \in File /\ disk[p].image \in Images \cup {Absent} /\ disk[p].synced
           /\ files[p] # NoFile <=> files[p].image \in Images
<1>1. files[p] \in File /\ disk[p] \in File
    BY NamesApart DEF StoreInv, StoreTypes
<1>2. files[p].image # Torn /\ files[p].synced /\ disk[p].image # Torn /\ disk[p].synced
    BY DEF StoreInv, PathsWhole
<1>3. files[p].image \in Images \cup {Absent} /\ disk[p].image \in Images \cup {Absent}
    BY <1>1, <1>2 DEF File, Contents
<1>4. files[p].image = Absent => files[p] = NoFile
    BY <1>1, <1>2 DEF File, NoFile
<1> QED BY <1>1, <1>2, <1>3, <1>4, NoFileFacts, NamesApart

LEMMA InitInv == Init => Inv
<1> SUFFICES ASSUME Init PROVE Inv
    OBVIOUS
<1> USE NoFileFacts, NoPutFacts, NoRunFacts, NamesApart
<1>1. StoreTypes
    BY DEF Init, StoreInit, StoreTypes
<1>2. PathsWhole /\ PutsOwn
    BY DEF Init, StoreInit, PathsWhole, PutsOwn
<1>3. ToolInv
    BY DEF Init, StoreInit, ToolInv, BucketWhole, ToolOnPaths, Progress, Quietly
<1> QED BY <1>1, <1>2, <1>3 DEF Inv, StoreInv

-----------------------------------------------------------------------------
(***************************************************************************)
(* A Put in flight takes a step: it touches its temporary file, and its    *)
(* path only to put a whole image there.                                   *)
(***************************************************************************)
LEMMA PutMoveInv ==
    ASSUME StoreInv, NEW w \in Workers, put[w].at # "idle",
           NEW r \in PutRow, put' = [put EXCEPT ![w] = r],
           r.at # "idle" =>
             r.path = put[w].path /\ r.image = put[w].image /\ r.temp = put[w].temp,
           files' \in [Names -> File],
           \A n \in Names \ {put[w].temp, put[w].path} : files'[n] = files[n],
           \/ files'[put[w].path] = files[put[w].path]
           \/ files'[put[w].path].image \in Images /\ files'[put[w].path].synced,
           r.at \in {"sync", "rename"} => files'[put[w].temp].image = put[w].image,
           r.at = "rename" => files'[put[w].temp].synced,
           UNCHANGED <<disk, bucket, up, driver, puts>>
    PROVE  StoreInv'
<1>1. /\ put[w].path \in Paths /\ put[w].image \in Images /\ put[w].temp \in Temps
      /\ up
    BY DEF StoreInv, PutsOwn
<1>2. StoreTypes'
    BY DEF StoreInv, StoreTypes
<1>3. PathsWhole'
    BY <1>1, NamesApart DEF StoreInv, PathsWhole
<1>4. \A v \in Workers : put'[v] = IF v = w THEN r ELSE put[v]
    BY DEF StoreInv, StoreTypes
<1>5. PutsOwn'
    <2>1. ASSUME NEW v \in Workers, put'[v].at # "idle"
          PROVE  /\ put'[v].path \in Paths /\ put'[v].image \in Images /\ put'[v].temp \in Temps
                 /\ put'[v].at \in {"sync", "rename"} =>
                      files'[put'[v].temp].image = put'[v].image
                 /\ put'[v].at = "rename" => files'[put'[v].temp].synced
        <3>1. CASE v = w
            BY <1>1, <1>4, <2>1, <3>1
        <3>2. CASE v # w
            <4>1. put'[v] = put[v] /\ put[v].temp \in Temps /\ put[v].temp # put[w].temp
                BY <1>4, <2>1, <3>2 DEF StoreInv, PutsOwn
            <4>2. files'[put[v].temp] = files[put[v].temp]
                BY <1>1, <4>1, NamesApart
            <4> QED BY <2>1, <4>1, <4>2 DEF StoreInv, PutsOwn
        <3> QED BY <3>1, <3>2
    <2>2. ASSUME NEW v \in Workers, NEW x \in Workers \ {v},
                 put'[v].at # "idle", put'[x].at # "idle"
          PROVE  put'[x].path # put'[v].path /\ put'[x].temp # put'[v].temp
        BY <1>4, <2>2 DEF StoreInv, PutsOwn
    <2> QED BY <1>1, <2>1, <2>2 DEF PutsOwn
<1> QED BY <1>2, <1>3, <1>5 DEF StoreInv

(* A Put that moves on keeps its path, image and temporary file. *)
LEMMA PutFacts ==
    ASSUME NEW x \in PutRow, NEW s \in {"idle", "write", "sync", "rename", "remove"}
    PROVE  /\ [x EXCEPT !.at = s] \in PutRow
           /\ [x EXCEPT !.at = s].at = s
           /\ [x EXCEPT !.at = s].path = x.path
           /\ [x EXCEPT !.at = s].image = x.image
           /\ [x EXCEPT !.at = s].temp = x.temp
BY DEF PutRow

LEMMA OwnRow ==
    ASSUME StoreInv, NEW w \in Workers, put[w].at # "idle"
    PROVE  /\ put[w] \in PutRow /\ up
           /\ put[w].path \in Paths /\ put[w].image \in Images /\ put[w].temp \in Temps
           /\ put[w].temp \in Names /\ put[w].path \in Names /\ put[w].temp # put[w].path
           /\ put[w].temp \notin Paths /\ put[w].image \in Contents
           /\ files[put[w].temp] \in File
BY NamesApart DEF StoreInv, StoreTypes, PutsOwn, Contents

LEMMA CreateTempInv ==
    ASSUME StoreInv, NEW w \in Workers, NEW p \in Paths, NEW i \in Images, NEW t \in Temps,
           CreateTemp(w, p, i, t)
    PROVE  StoreInv'
<1> DEFINE r == [at |-> "write", path |-> p, image |-> i, temp |-> t]
           f == [image |-> Torn, synced |-> FALSE]
<1>1. /\ up /\ put[w].at = "idle" /\ puts' = puts + 1
      /\ \A v \in Workers : put[v].temp # t /\ put[v].path # p
      /\ put' = [put EXCEPT ![w] = r] /\ files' = [files EXCEPT ![t] = f]
      /\ UNCHANGED <<disk, bucket, up, driver>>
    BY DEF CreateTemp
<1>2. r \in PutRow /\ r.at = "write" /\ r.path = p /\ r.image = i /\ r.temp = t /\ f \in File
    BY DEF PutRow, File, Contents
<1> HIDE DEF r, f
<1>3. /\ \A v \in Workers : put'[v] = IF v = w THEN r ELSE put[v]
      /\ \A n \in Names : files'[n] = IF n = t THEN f ELSE files[n]
    BY <1>1 DEF StoreInv, StoreTypes
<1>4. StoreTypes'
    <2>1. puts' \in Nat
        BY <1>1 DEF StoreInv, StoreTypes
    <2>2. files' \in [Names -> File] /\ put' \in [Workers -> PutRow]
        BY <1>1, <1>2 DEF StoreInv, StoreTypes
    <2> QED BY <1>1, <2>1, <2>2 DEF StoreInv, StoreTypes
<1>5. PathsWhole'
    BY <1>1, <1>3, NamesApart DEF StoreInv, PathsWhole
<1>6. PutsOwn'
    <2>1. ASSUME NEW v \in Workers, put'[v].at # "idle"
          PROVE  /\ put'[v].path \in Paths /\ put'[v].image \in Images /\ put'[v].temp \in Temps
                 /\ put'[v].at \in {"sync", "rename"} =>
                      files'[put'[v].temp].image = put'[v].image
                 /\ put'[v].at = "rename" => files'[put'[v].temp].synced
        BY <1>1, <1>2, <1>3, <2>1, NamesApart DEF StoreInv, PutsOwn
    <2>2. ASSUME NEW v \in Workers, NEW x \in Workers \ {v},
                 put'[v].at # "idle", put'[x].at # "idle"
          PROVE  put'[x].path # put'[v].path /\ put'[x].temp # put'[v].temp
        BY <1>1, <1>2, <1>3, <2>2 DEF StoreInv, PutsOwn
    <2> QED BY <1>1, <2>1, <2>2 DEF PutsOwn
<1> QED BY <1>4, <1>5, <1>6 DEF StoreInv

LEMMA WriteInv == ASSUME StoreInv, NEW w \in Workers, Write(w) PROVE StoreInv'
<1> DEFINE r == [put[w] EXCEPT !.at = "sync"]
<1>1. /\ put[w].at # "idle" /\ put' = [put EXCEPT ![w] = r]
      /\ files' = [files EXCEPT ![put[w].temp].image = put[w].image]
      /\ UNCHANGED <<disk, bucket, up, driver, puts>>
    BY DEF Write, Step
<1>2. /\ r \in PutRow /\ r.at = "sync"
      /\ r.path = put[w].path /\ r.image = put[w].image /\ r.temp = put[w].temp
    BY <1>1, OwnRow, PutFacts
<1> HIDE DEF r
<1>3. /\ files' \in [Names -> File] /\ files'[put[w].temp].image = put[w].image
      /\ \A n \in Names \ {put[w].temp} : files'[n] = files[n]
    BY <1>1, OwnRow DEF StoreInv, StoreTypes, File
<1> QED BY <1>1, <1>2, <1>3, OwnRow, PutMoveInv

LEMMA SyncInv == ASSUME StoreInv, NEW w \in Workers, Sync(w) PROVE StoreInv'
<1> DEFINE r == [put[w] EXCEPT !.at = "rename"]
<1>1. /\ put[w].at = "sync" /\ put' = [put EXCEPT ![w] = r]
      /\ files' = [files EXCEPT ![put[w].temp].synced = TRUE]
      /\ UNCHANGED <<disk, bucket, up, driver, puts>>
    BY DEF Sync, Step
<1>2. /\ r \in PutRow /\ r.at = "rename"
      /\ r.path = put[w].path /\ r.image = put[w].image /\ r.temp = put[w].temp
    BY <1>1, OwnRow, PutFacts
<1> HIDE DEF r
<1>3. /\ files' \in [Names -> File] /\ files'[put[w].temp].synced
      /\ files'[put[w].temp].image = files[put[w].temp].image
      /\ \A n \in Names \ {put[w].temp} : files'[n] = files[n]
    BY <1>1, OwnRow DEF StoreInv, StoreTypes, File
<1>4. files[put[w].temp].image = put[w].image
    BY <1>1 DEF StoreInv, PutsOwn
<1> QED BY <1>1, <1>2, <1>3, <1>4, OwnRow, PutMoveInv

(* Rename brings the whole image, already on the disk, under its path. *)
LEMMA RenameFacts ==
    ASSUME StoreInv, NEW w \in Workers, Rename(w)
    PROVE  /\ put[w].at = "rename" /\ put' = [put EXCEPT ![w].at = "remove"]
           /\ files' \in [Names -> File]
           /\ files'[put[w].path].image = put[w].image /\ files'[put[w].path].synced
           /\ \A n \in Names \ {put[w].temp, put[w].path} : files'[n] = files[n]
           /\ UNCHANGED <<disk, bucket, up, driver, puts>>
<1>1. /\ put[w].at = "rename" /\ put' = [put EXCEPT ![w].at = "remove"]
      /\ files' = [files EXCEPT ![put[w].path] = files[put[w].temp], ![put[w].temp] = NoFile]
      /\ UNCHANGED <<disk, bucket, up, driver, puts>>
    BY DEF Rename, Step
<1>2. files[put[w].temp].image = put[w].image /\ files[put[w].temp].synced
    BY <1>1 DEF StoreInv, PutsOwn
<1> QED BY <1>1, <1>2, OwnRow, NoFileFacts DEF StoreInv, StoreTypes

LEMMA RenameInv == ASSUME StoreInv, NEW w \in Workers, Rename(w) PROVE StoreInv'
<1> DEFINE r == [put[w] EXCEPT !.at = "remove"]
<1>1. put[w].at # "idle" /\ put' = [put EXCEPT ![w] = r]
    BY RenameFacts
<1>2. /\ r \in PutRow /\ r.at = "remove"
      /\ r.path = put[w].path /\ r.image = put[w].image /\ r.temp = put[w].temp
    BY <1>1, OwnRow, PutFacts
<1> HIDE DEF r
<1> QED BY <1>1, <1>2, RenameFacts, OwnRow, PutMoveInv

LEMMA PutErrorInv == ASSUME StoreInv, NEW w \in Workers, PutError(w) PROVE StoreInv'
<1> DEFINE r == [put[w] EXCEPT !.at = "remove"]
<1>1. /\ put[w].at # "idle" /\ put' = [put EXCEPT ![w] = r]
      /\ UNCHANGED <<files, disk, bucket, up, driver, puts>>
    BY DEF PutError
<1>2. /\ r \in PutRow /\ r.at = "remove"
      /\ r.path = put[w].path /\ r.image = put[w].image /\ r.temp = put[w].temp
    BY <1>1, OwnRow, PutFacts
<1> HIDE DEF r
<1> QED BY <1>1, <1>2, PutMoveInv DEF StoreInv, StoreTypes

LEMMA RemoveInv == ASSUME StoreInv, NEW w \in Workers, Remove(w) PROVE StoreInv'
<1> DEFINE r == NoPut
<1>1. /\ put[w].at # "idle" /\ put' = [put EXCEPT ![w] = r]
      /\ files' = [files EXCEPT ![put[w].temp] = NoFile]
      /\ UNCHANGED <<disk, bucket, up, driver, puts>>
    BY DEF Remove
<1>2. r \in PutRow /\ r.at = "idle"
    BY NoPutFacts
<1> HIDE DEF r
<1>3. /\ files' \in [Names -> File]
      /\ \A n \in Names \ {put[w].temp} : files'[n] = files[n]
    BY <1>1, OwnRow, NoFileFacts DEF StoreInv, StoreTypes
<1> QED BY <1>1, <1>2, <1>3, OwnRow, PutMoveInv

LEMMA DeleteInv == ASSUME StoreInv, NEW p \in Paths, Delete(p) PROVE StoreInv'
<1>1. /\ files' = [files EXCEPT ![p] = NoFile] /\ up
      /\ UNCHANGED <<disk, put, bucket, up, driver, puts>>
    BY DEF Delete
<1>2. /\ files' \in [Names -> File]
      /\ \A n \in Names : files'[n] = IF n = p THEN NoFile ELSE files[n]
    BY <1>1, NoFileFacts DEF StoreInv, StoreTypes
<1>3. StoreTypes'
    BY <1>1, <1>2 DEF StoreInv, StoreTypes
<1>4. PathsWhole'
    BY <1>1, <1>2, NoFileFacts, NamesApart DEF StoreInv, PathsWhole
<1>5. PutsOwn'
    BY <1>1, <1>2, NamesApart DEF StoreInv, PutsOwn
<1> QED BY <1>3, <1>4, <1>5 DEF StoreInv

(* The bucket is no part of LocalFS. *)
LEMMA BucketStep ==
    ASSUME StoreInv, bucket' \in [Names -> Images \cup {Absent}], puts' \in Nat,
           UNCHANGED <<files, disk, put, up, driver>>
    PROVE  StoreInv'
BY DEF StoreInv, StoreTypes, PathsWhole, PutsOwn

LEMMA S3PutInv ==
    ASSUME StoreInv, NEW p \in Paths, NEW i \in Images, S3Put(p, i) PROVE StoreInv'
<1>1. puts' \in Nat
    BY DEF S3Put, StoreInv, StoreTypes
<1>2. bucket' \in [Names -> Images \cup {Absent}]
    BY DEF S3Put, StoreInv, StoreTypes
<1> QED BY <1>1, <1>2, BucketStep DEF S3Put

LEMMA S3DeleteInv == ASSUME StoreInv, NEW p \in Paths, S3Delete(p) PROVE StoreInv'
<1>1. bucket' \in [Names -> Images \cup {Absent}] /\ puts' \in Nat
    BY DEF S3Delete, StoreInv, StoreTypes
<1> QED BY <1>1, BucketStep DEF S3Delete

LEMMA FlushInv == ASSUME StoreInv, Flush PROVE StoreInv'
<1>1. /\ disk' = [p \in Paths |-> files[p]]
      /\ UNCHANGED <<files, put, bucket, up, driver, puts>>
    BY DEF Flush
<1>2. disk' \in [Paths -> File]
    BY <1>1, PathFacts
<1> QED BY <1>1, <1>2 DEF StoreInv, StoreTypes, PathsWhole, PutsOwn

(* Whatever ends the process ends every Put. *)
LEMMA NoPuts ==
    ASSUME put' = [w \in Workers |-> NoPut]
    PROVE  PutsOwn' /\ put' \in [Workers -> PutRow]
BY NoPutFacts DEF PutsOwn

LEMMA CrashInv == ASSUME StoreInv, Crash PROVE StoreInv'
<1>1. up' \in BOOLEAN
    BY DEF Crash
<1> QED BY <1>1, NoPuts DEF Crash, StoreInv, StoreTypes, PathsWhole

LEMMA ShutdownInv == ASSUME StoreInv, Shutdown PROVE StoreInv'
<1>1. /\ up' \in BOOLEAN /\ \A w \in Workers : put[w].at = "idle"
      /\ UNCHANGED <<files, disk, put, bucket, driver, puts>>
    BY DEF Shutdown
<1> QED BY <1>1 DEF StoreInv, StoreTypes, PathsWhole, PutsOwn

LEMMA BootInv == ASSUME StoreInv, NEW d \in {"local", "s3"}, Boot(d) PROVE StoreInv'
<1>1. /\ ~up /\ up' /\ up' \in BOOLEAN /\ driver' = d
      /\ UNCHANGED <<files, disk, put, bucket, puts>>
    BY DEF Boot
<1>2. \A w \in Workers : put'[w].at = "idle"
    BY <1>1 DEF StoreInv, PutsOwn
<1> QED BY <1>1, <1>2 DEF StoreInv, StoreTypes, PathsWhole, PutsOwn

(***************************************************************************)
(* A loss of power leaves each path with the file in memory or the one on  *)
(* the disk, and both were forced out: none is torn.                       *)
(***************************************************************************)
LEMMA PowerLossFacts ==
    ASSUME StoreInv, PowerLoss
    PROVE  /\ files' \in [Names -> File]
           /\ \A p \in Paths : /\ files'[p].image \in {files[p].image, disk[p].image}
                               /\ files'[p].synced
           /\ disk' = [p \in Paths |-> files'[p]]
           /\ put' = [w \in Workers |-> NoPut]
           /\ ~up' /\ up' \in BOOLEAN /\ UNCHANGED <<bucket, driver, puts>>
<1>1. PICK back, torn : files' = AfterPowerLoss(back, torn)
    BY DEF PowerLoss
<1> DEFINE file(n) == IF n \in back THEN OnDisk(n) ELSE files[n]
<1>2. \A n \in Names : file(n) \in File
    BY NoFileFacts DEF OnDisk, StoreInv, StoreTypes
<1>3. files' = [n \in Names |->
                  [image |-> IF n \in torn /\ ~file(n).synced THEN Torn ELSE file(n).image,
                   synced |-> TRUE]]
    BY <1>1 DEF AfterPowerLoss
<1>4. \A p \in Paths : file(p) \in {files[p], disk[p]} /\ file(p).synced
    BY PathFacts DEF OnDisk
<1> HIDE DEF file
<1>5. files' \in [Names -> File]
    BY <1>2, <1>3 DEF File, Contents
<1>6. \A p \in Paths : /\ files'[p].image \in {files[p].image, disk[p].image}
                       /\ files'[p].synced
    BY <1>3, <1>4, NamesApart
<1> QED BY <1>5, <1>6 DEF PowerLoss

LEMMA PowerLossInv == ASSUME StoreInv, PowerLoss PROVE StoreInv'
<1>1. disk' \in [Paths -> File]
    BY PowerLossFacts, NamesApart
<1>2. PathsWhole'
    BY PowerLossFacts, PathFacts, NamesApart DEF PathsWhole
<1>3. StoreTypes'
    BY <1>1, PowerLossFacts, NoPuts DEF StoreInv, StoreTypes
<1> QED BY <1>2, <1>3, PowerLossFacts, NoPuts DEF StoreInv

LEMMA PutStepInv == ASSUME StoreInv, NEW w \in Workers, PutStep(w) PROVE StoreInv'
BY CreateTempInv, WriteInv, SyncInv, RenameInv, PutErrorInv, RemoveInv DEF PutStep

LEMMA ServerInv == ASSUME StoreInv, ServerStep PROVE StoreInv'
BY PutStepInv, DeleteInv, S3DeleteInv, S3PutInv, CrashInv, ShutdownInv, BootInv DEF ServerStep

-----------------------------------------------------------------------------
(***************************************************************************)
(* LocalFS implements AtomicStore.                                         *)
(***************************************************************************)
PendingPoints == {"write", "sync", "rename"}

content == [p \in Paths |-> files[p].image]
saved   == [p \in Paths |-> disk[p].image]
pending == {<<put[w].path, put[w].image>> : w \in {v \in Workers : put[v].at \in PendingPoints}}

AtomicStep == Local!Next \/ UNCHANGED Local!vars

LEMMA InitRefines == Init => Local!Init
<1> SUFFICES ASSUME Init PROVE Local!Init
    OBVIOUS
<1>1. content = [p \in Paths |-> Absent] /\ saved = content /\ pending = {}
    BY NoFileFacts, NoPutFacts, NamesApart
       DEF Init, StoreInit, content, saved, pending, PendingPoints
<1> QED BY <1>1 DEF Local!Init, content, saved, pending, PendingPoints

(* Steps that leave the paths, the disk and the pending Puts alone. *)
LEMMA Stutters ==
    ASSUME \A p \in Paths : files'[p] = files[p], disk' = disk, pending' = pending
    PROVE  AtomicStep
<1>1. content' = content /\ saved' = saved
    BY DEF content, saved
<1> QED BY <1>1 DEF AtomicStep, Local!vars, content, saved, pending, PendingPoints

(* Steps that only end Puts. *)
LEMMA Abandons ==
    ASSUME \A p \in Paths : files'[p] = files[p], disk' = disk, pending' \subseteq pending
    PROVE  AtomicStep
<1>1. content' = content /\ saved' = saved
    BY DEF content, saved
<1>2. Local!Abandon
    BY <1>1 DEF Local!Abandon, content, saved, pending, PendingPoints
<1> QED BY <1>2 DEF AtomicStep, Local!Next

(* A Put in flight moves on: it stays pending, or it is no longer. *)
LEMMA PutPending ==
    ASSUME StoreInv, NEW w \in Workers, put[w].at \in PendingPoints,
           NEW s \in {"sync", "rename", "remove"}, put' = [put EXCEPT ![w].at = s]
    PROVE  /\ s # "remove" => pending' = pending
           /\ s = "remove" => pending' = pending \ {<<put[w].path, put[w].image>>}
<1>1. \A v \in Workers : /\ put'[v].path = put[v].path /\ put'[v].image = put[v].image
                         /\ put'[v].at = IF v = w THEN s ELSE put[v].at
    BY PutFacts DEF StoreInv, StoreTypes, PutRow
<1>2. \A v \in Workers \ {w} : put[v].at \in PendingPoints => put[v].path # put[w].path
    BY DEF StoreInv, PutsOwn, PendingPoints
<1>3. CASE s # "remove"
    <2>1. \A v \in Workers : put'[v].at \in PendingPoints <=> put[v].at \in PendingPoints
        BY <1>1, <1>3 DEF PendingPoints
    <2>2. pending' \subseteq pending /\ pending \subseteq pending'
        BY <1>1, <2>1 DEF pending
    <2> QED BY <1>3, <2>2
<1>4. CASE s = "remove"
    <2>1. \A v \in Workers : put'[v].at \in PendingPoints
                               <=> v # w /\ put[v].at \in PendingPoints
        BY <1>1, <1>4 DEF PendingPoints
    <2>2. pending' \subseteq pending \ {<<put[w].path, put[w].image>>}
        <3> SUFFICES ASSUME NEW v \in Workers, v # w, put[v].at \in PendingPoints
                     PROVE  /\ <<put[v].path, put[v].image>> \in pending
                            /\ <<put[v].path, put[v].image>> # <<put[w].path, put[w].image>>
            BY <1>1, <2>1 DEF pending
        <3> QED BY <1>2 DEF pending
    <2>3. pending \ {<<put[w].path, put[w].image>>} \subseteq pending'
        BY <1>1, <2>1 DEF pending
    <2> QED BY <1>4, <2>2, <2>3
<1> QED BY <1>3, <1>4

LEMMA CreateTempRefines ==
    ASSUME StoreInv, NEW w \in Workers, NEW p \in Paths, NEW i \in Images, NEW t \in Temps,
           CreateTemp(w, p, i, t)
    PROVE  AtomicStep
<1> DEFINE r == [at |-> "write", path |-> p, image |-> i, temp |-> t]
<1>1. /\ put[w].at = "idle" /\ disk' = disk /\ put' = [put EXCEPT ![w] = r]
      /\ \A q \in Paths : files'[q] = files[q]
    BY NamesApart DEF CreateTemp, StoreInv, StoreTypes
<1>2. r.at = "write" /\ r.path = p /\ r.image = i
    OBVIOUS
<1> HIDE DEF r
<1>3. \A v \in Workers : put'[v] = IF v = w THEN r ELSE put[v]
    BY <1>1 DEF StoreInv, StoreTypes
<1>4. pending' \subseteq pending \cup {<<p, i>>}
    BY <1>2, <1>3 DEF pending
<1>5. pending \cup {<<p, i>>} \subseteq pending'
    <2>1. \A v \in Workers : put[v].at \in PendingPoints => put'[v] = put[v]
        BY <1>1, <1>3 DEF PendingPoints
    <2>2. pending \subseteq pending'
        BY <2>1 DEF pending
    <2>3. <<p, i>> \in pending'
        BY <1>2, <1>3 DEF pending, PendingPoints
    <2> QED BY <2>2, <2>3
<1>6. content' = content /\ saved' = saved
    BY <1>1 DEF content, saved
<1>7. Local!Call(<<p, i>>)
    BY <1>4, <1>5, <1>6 DEF Local!Call, content, saved, pending, PendingPoints
<1> QED BY <1>7 DEF AtomicStep, Local!Next

LEMMA WriteRefines == ASSUME StoreInv, NEW w \in Workers, Write(w) PROVE AtomicStep
<1>1. /\ put[w].at = "write" /\ put[w].at # "idle" /\ put' = [put EXCEPT ![w].at = "sync"]
      /\ files' = [files EXCEPT ![put[w].temp].image = put[w].image] /\ disk' = disk
    BY DEF Write, Step
<1>2. \A p \in Paths : files'[p] = files[p]
    BY <1>1, OwnRow, NamesApart DEF StoreInv, StoreTypes
<1> QED BY <1>1, <1>2, PutPending, Stutters DEF PendingPoints

LEMMA SyncRefines == ASSUME StoreInv, NEW w \in Workers, Sync(w) PROVE AtomicStep
<1>1. /\ put[w].at = "sync" /\ put[w].at # "idle" /\ put' = [put EXCEPT ![w].at = "rename"]
      /\ files' = [files EXCEPT ![put[w].temp].synced = TRUE] /\ disk' = disk
    BY DEF Sync, Step
<1>2. \A p \in Paths : files'[p] = files[p]
    BY <1>1, OwnRow, NamesApart DEF StoreInv, StoreTypes
<1> QED BY <1>1, <1>2, PutPending, Stutters DEF PendingPoints

(* The instant at which a Put takes effect. *)
LEMMA RenameRefines == ASSUME StoreInv, NEW w \in Workers, Rename(w) PROVE AtomicStep
<1>0. PICK p \in Paths, i \in Images : p = put[w].path /\ i = put[w].image
    BY RenameFacts, OwnRow
<1>1. p = put[w].path /\ i = put[w].image /\ put[w].at \in PendingPoints
    BY <1>0, RenameFacts DEF PendingPoints
<1>2. <<p, i>> \in pending
    BY <1>1 DEF pending
<1>3. pending' = pending \ {<<p, i>>}
    BY <1>1, RenameFacts, PutPending
<1>4. content' = [content EXCEPT ![p] = i]
    <2>1. \A q \in Paths \ {p} : files'[q] = files[q]
        BY <1>1, RenameFacts, OwnRow, NamesApart
    <2> QED BY <1>1, <2>1, RenameFacts DEF content
<1>5. saved' = saved
    BY RenameFacts DEF saved
<1>6. Local!Effect(<<p, i>>)
    BY <1>2, <1>3, <1>4, <1>5 DEF Local!Effect, content, saved, pending, PendingPoints
<1> QED BY <1>6 DEF AtomicStep, Local!Next

LEMMA PutErrorRefines == ASSUME StoreInv, NEW w \in Workers, PutError(w) PROVE AtomicStep
<1>1. /\ put[w].at \in PendingPoints /\ put' = [put EXCEPT ![w].at = "remove"]
      /\ UNCHANGED <<files, disk>>
    BY DEF PutError, PendingPoints
<1> QED BY <1>1, PutPending, Abandons

LEMMA RemoveRefines == ASSUME StoreInv, NEW w \in Workers, Remove(w) PROVE AtomicStep
<1>1. /\ put[w].at = "remove" /\ put' = [put EXCEPT ![w] = NoPut] /\ disk' = disk
      /\ files' = [files EXCEPT ![put[w].temp] = NoFile]
    BY DEF Remove
<1>2. \A p \in Paths : files'[p] = files[p]
    BY <1>1, OwnRow, NamesApart DEF StoreInv, StoreTypes
<1>3. \A v \in Workers : put'[v].at \in PendingPoints => put'[v] = put[v]
    BY <1>1, NoPutFacts DEF StoreInv, StoreTypes, PendingPoints
<1>4. pending' \subseteq pending
    BY <1>3 DEF pending
<1> QED BY <1>1, <1>2, <1>4, Abandons

LEMMA DeleteRefines == ASSUME StoreInv, NEW p \in Paths, Delete(p) PROVE AtomicStep
<1>1. files' = [files EXCEPT ![p] = NoFile] /\ UNCHANGED <<disk, put>>
    BY DEF Delete
<1>2. content' = [content EXCEPT ![p] = Absent]
    BY <1>1, NoFileFacts, NamesApart DEF content, StoreInv, StoreTypes
<1>3. saved' = saved /\ pending' = pending
    BY <1>1 DEF saved, pending
<1>4. Local!Delete(p)
    BY <1>2, <1>3 DEF Local!Delete, content, saved, pending, PendingPoints
<1> QED BY <1>4 DEF AtomicStep, Local!Next

LEMMA FlushRefines == ASSUME StoreInv, Flush PROVE AtomicStep
<1>1. disk' = [p \in Paths |-> files[p]] /\ UNCHANGED <<files, put>>
    BY DEF Flush
<1>2. saved' = content /\ content' = content /\ pending' = pending
    BY <1>1 DEF saved, content, pending
<1>3. Local!Flush
    BY <1>2 DEF Local!Flush, content, saved, pending, PendingPoints
<1> QED BY <1>3 DEF AtomicStep, Local!Next

LEMMA PowerLossRefines == ASSUME StoreInv, PowerLoss PROVE AtomicStep
<1>1. content' \in [Paths -> Images \cup {Absent}]
    BY PowerLossFacts, PathFacts DEF content
<1>2. \A p \in Paths : content'[p] \in {content[p], saved[p]}
    BY PowerLossFacts DEF content, saved
<1>3. saved' = content'
    BY PowerLossFacts DEF content, saved
<1>4. pending' = {}
    BY PowerLossFacts, NoPutFacts DEF pending, PendingPoints
<1>5. Local!PowerLoss
    BY <1>1, <1>2, <1>3, <1>4
       DEF Local!PowerLoss, Local!Stored, content, saved, pending, PendingPoints
<1> QED BY <1>5 DEF AtomicStep, Local!Next

LEMMA CrashRefines == ASSUME StoreInv, Crash PROVE AtomicStep
<1>1. put' = [w \in Workers |-> NoPut] /\ UNCHANGED <<files, disk>>
    BY DEF Crash
<1>2. pending' \subseteq pending
    BY <1>1, NoPutFacts DEF pending, PendingPoints
<1> QED BY <1>1, <1>2, Abandons

(* Steps of S3, of the operator and of the tool are none of LocalFS. *)
LEMMA OthersRefine == ASSUME UNCHANGED <<files, disk, put>> PROVE AtomicStep
<1>1. pending' = pending
    BY DEF pending
<1> QED BY <1>1, Stutters

LEMMA ServerRefines == ASSUME StoreInv, ServerStep PROVE AtomicStep
<1>1. ASSUME NEW w \in Workers, PutStep(w) PROVE AtomicStep
    BY <1>1, CreateTempRefines, WriteRefines, SyncRefines, RenameRefines,
       PutErrorRefines, RemoveRefines DEF PutStep
<1>2. ASSUME NEW p \in Paths, S3Delete(p) \/ \E i \in Images : S3Put(p, i) PROVE AtomicStep
    BY <1>2, OthersRefine DEF S3Delete, S3Put
<1>3. ASSUME Shutdown \/ \E d \in {"local", "s3"} : Boot(d) PROVE AtomicStep
    BY <1>3, OthersRefine DEF Shutdown, Boot
<1> QED BY <1>1, <1>2, <1>3, DeleteRefines, CrashRefines DEF ServerStep

-----------------------------------------------------------------------------
(***************************************************************************)
(* The server beside the tool.  Its objects are images at image paths, and *)
(* while it is down nothing moves but what the operating system flushes.   *)
(***************************************************************************)
LEMMA ServerBucket ==
    ASSUME StoreInv, BucketWhole, ServerStep \/ Flush
    PROVE  /\ BucketWhole'
           /\ ~up /\ ~up' => UNCHANGED <<files, bucket>>
<1>1. CASE Flush
    BY <1>1 DEF Flush, BucketWhole
<1>2. ASSUME NEW w \in Workers, PutStep(w)
      PROVE  bucket' = bucket /\ up
    <2>1. ASSUME NEW p \in Paths, NEW i \in Images, NEW t \in Temps, CreateTemp(w, p, i, t)
          PROVE  bucket' = bucket /\ up
        BY <2>1 DEF CreateTemp
    <2>2. CASE Write(w) \/ Sync(w) \/ Rename(w) \/ PutError(w) \/ Remove(w)
        <3>1. put[w].at # "idle" /\ bucket' = bucket
            BY <2>2 DEF Write, Sync, Rename, PutError, Remove, Step
        <3> QED BY <3>1, OwnRow
    <2> QED BY <1>2, <2>1, <2>2 DEF PutStep
<1>3. ASSUME NEW p \in Paths, Delete(p) \/ S3Delete(p) \/ \E i \in Images : S3Put(p, i)
      PROVE  BucketWhole' /\ up
    <2>1. CASE Delete(p)
        BY <2>1 DEF Delete, BucketWhole
    <2>2. CASE S3Delete(p)
        BY <2>2, NamesApart DEF S3Delete, BucketWhole, StoreInv, StoreTypes
    <2>3. ASSUME NEW i \in Images, S3Put(p, i) PROVE BucketWhole' /\ up
        BY <2>3, NamesApart DEF S3Put, BucketWhole, StoreInv, StoreTypes
    <2> QED BY <1>3, <2>1, <2>2, <2>3
<1>4. CASE Crash \/ Shutdown \/ \E d \in {"local", "s3"} : Boot(d)
    BY <1>4 DEF Crash, Shutdown, Boot, BucketWhole
<1> QED BY <1>1, <1>2, <1>3, <1>4 DEF ServerStep, BucketWhole

(* What the tool has seen of an unchanged image is still so. *)
LEMMA BesideInv ==
    ASSUME Inv, NEW step, step => ServerStep \/ Flush, Beside(step)
    PROVE  Inv'
<1>1. /\ ServerStep \/ Flush
      /\ tool' = [tool EXCEPT !.quiet = tool.quiet /\ ~up']
      /\ since' = {p \in since : files'[p] = files[p] /\ bucket'[p] = bucket[p]}
    BY DEF Beside
<1>2. StoreInv'
    BY <1>1, ServerInv, FlushInv DEF Inv
<1>3. /\ BucketWhole'
      /\ ~up /\ ~up' => UNCHANGED <<files, bucket>>
    BY <1>1, ServerBucket DEF Inv, ToolInv
<1>4. /\ tool' \in Tool /\ tool'.quiet = (tool.quiet /\ ~up')
      /\ tool'.at = tool.at /\ tool'.mode = tool.mode
      /\ tool'.unlisted = tool.unlisted /\ tool'.entries = tool.entries
      /\ tool'.name = tool.name /\ tool'.data = tool.data /\ tool'.failed = tool.failed
    BY <1>1 DEF Inv, ToolInv, Tool
<1>5. \A p \in since' : p \in since /\ files'[p] = files[p] /\ bucket'[p] = bucket[p]
    BY <1>1
<1>6. ToolOnPaths'
    BY <1>4 DEF Inv, ToolInv, ToolOnPaths
<1>7. Progress'
    BY <1>4, <1>5 DEF Inv, ToolInv, Progress, Copied
<1>8. Quietly'
    <2> SUFFICES ASSUME tool'.quiet
                 PROVE  ~up' /\ \A p \in Paths : files'[p] # NoFile => p \in since'
        BY DEF Quietly
    <2>1. tool.quiet /\ ~up /\ ~up'
        BY <1>4 DEF Inv, ToolInv, Quietly
    <2>2. files' = files /\ bucket' = bucket
        BY <1>3, <2>1
    <2> QED BY <1>1, <2>1, <2>2 DEF Inv, ToolInv, Quietly
<1>9. since' \subseteq Paths
    BY <1>1 DEF Inv, ToolInv
<1> QED BY <1>2, <1>3, <1>4, <1>6, <1>7, <1>8, <1>9 DEF Inv, ToolInv

-----------------------------------------------------------------------------
(* The tool leaves the store alone, but for the bucket. *)
LEMMA StoreStays == ASSUME StoreInv, UNCHANGED storeVars PROVE StoreInv'
BY DEF storeVars, StoreInv, StoreTypes, PathsWhole, PutsOwn

(* No run in progress: there is nothing to say of it. *)
LEMMA NoRunInv ==
    ASSUME Inv, tool' = NoRun, since' = {}, StoreInv', BucketWhole'
    PROVE  Inv'
BY NoRunFacts DEF Inv, ToolInv, ToolOnPaths, Progress, Quietly

LEMMA StartInv == ASSUME Inv, NEW mode \in Modes, Start(mode) PROVE Inv'
<1>1. /\ tool' = [NoRun EXCEPT !.at = "walk", !.mode = mode, !.unlisted = Names, !.quiet = ~up]
      /\ since' = {p \in Paths : files[p] # NoFile}
      /\ UNCHANGED storeVars
    BY DEF Start
<1>2. /\ tool' \in Tool /\ tool'.at = "walk" /\ tool'.unlisted = Names /\ tool'.quiet = ~up
    <2>1. up \in BOOLEAN
        BY DEF Inv, StoreInv, StoreTypes
    <2> QED BY <1>1, <2>1, NoRunFacts DEF Tool
<1>3. StoreInv' /\ UNCHANGED <<files, bucket, up>>
    BY <1>1, StoreStays DEF Inv, storeVars
<1>4. BucketWhole' /\ since' \subseteq Paths
    BY <1>1, <1>3 DEF Inv, ToolInv, BucketWhole
<1>5. ToolOnPaths'
    BY <1>2 DEF ToolOnPaths
<1>6. Progress'
    BY <1>1, <1>2, <1>3, NamesApart DEF Progress
<1>7. Quietly'
    BY <1>1, <1>2, <1>3 DEF Quietly
<1> QED BY <1>2, <1>3, <1>4, <1>5, <1>6, <1>7 DEF Inv, ToolInv

(***************************************************************************)
(* The run goes on: the tool moves, store and bucket stay, and no image    *)
(* that has not changed drops out of sight without a failure counted.      *)
(***************************************************************************)
LEMMA RunInv ==
    ASSUME Inv, UNCHANGED storeVars, UNCHANGED since, tool.at # "idle",
           tool' \in Tool, tool'.at # "idle",
           tool'.mode = tool.mode, tool'.quiet = tool.quiet,
           tool.failed => tool'.failed,
           tool'.at \in {"read", "put", "stat"} => tool'.name \in Paths,
           tool'.at \in {"read", "put"} => tool.mode = "copy",
           tool'.at = "stat" => tool.mode = "verify",
           tool'.at \in {"put", "stat"} =>
               tool'.data = files[tool'.name].image /\ tool'.data \in Images,
           tool'.at = "done" => tool'.unlisted = {} /\ tool'.entries = {} /\ ~tool'.failed,
           ~tool'.failed => \A p \in since :
             \/ p \in tool'.unlisted \cup tool'.entries
             \/ tool'.at \in {"read", "put", "stat"} /\ tool'.name = p
             \/ Copied(p)
    PROVE  Inv'
<1>1. StoreInv' /\ UNCHANGED <<files, bucket, up>>
    BY StoreStays DEF Inv, storeVars
<1>2. BucketWhole' /\ since' \subseteq Paths /\ ToolOnPaths' /\ Quietly'
    BY <1>1 DEF Inv, ToolInv, BucketWhole, ToolOnPaths, Quietly
<1>3. Progress'
    BY <1>1 DEF Inv, ToolInv, Progress, Copied
<1> QED BY <1>1, <1>2, <1>3 DEF Inv, ToolInv

(* Where an unchanged image is while the tool walks. *)
LEMMA Walking ==
    ASSUME Inv, tool.at = "walk", ~tool.failed, NEW p \in since
    PROVE  p \in tool.unlisted \cup tool.entries \/ Copied(p)
BY DEF Inv, ToolInv, Progress

LEMMA ListInv == ASSUME Inv, NEW dir \in SUBSET tool.unlisted, List(dir) PROVE Inv'
<1>1. tool.at = "walk" /\ UNCHANGED storeVars /\ UNCHANGED since /\ tool \in Tool
    BY DEF List, Inv, ToolInv
<1>2. dir \subseteq Names
    BY <1>1 DEF Tool
<1>3. \A p \in since : files[p] # NoFile
    BY <1>1 DEF Inv, ToolInv, Progress
<1> DEFINE new == {n \in dir : files[n] # NoFile}
<1>4. CASE tool' = [tool EXCEPT !.unlisted = @ \ dir, !.entries = @ \cup new]
    <2>1. /\ tool' \in Tool /\ tool'.at = "walk" /\ tool'.mode = tool.mode
          /\ tool'.quiet = tool.quiet /\ tool'.failed = tool.failed
          /\ tool'.unlisted = tool.unlisted \ dir /\ tool'.entries = tool.entries \cup new
        BY <1>1, <1>2, <1>4 DEF Tool
    <2>2. ~tool'.failed => \A p \in since :
              p \in tool'.unlisted \cup tool'.entries \/ Copied(p)
        BY <1>1, <1>3, <2>1, Walking
    <2> QED BY <1>1, <2>1, <2>2, RunInv
<1>5. CASE tool' = [tool EXCEPT !.unlisted = @ \ dir, !.failed = TRUE]
    <2>1. /\ tool' \in Tool /\ tool'.at = "walk" /\ tool'.mode = tool.mode
          /\ tool'.quiet = tool.quiet /\ tool'.failed
        BY <1>1, <1>2, <1>5 DEF Tool
    <2> QED BY <1>1, <2>1, RunInv
<1> QED BY <1>4, <1>5 DEF List

LEMMA VisitInv == ASSUME Inv, NEW n \in tool.entries, Visit(n) PROVE Inv'
<1> DEFINE next == [tool EXCEPT !.entries = @ \ {n}]
<1>1. tool.at = "walk" /\ UNCHANGED storeVars /\ UNCHANGED since /\ tool \in Tool
    BY DEF Visit, Inv, ToolInv
<1>2. n \in Names
    BY <1>1 DEF Tool
<1>3. \A p \in since : p \in Paths /\ files[p] # NoFile
    BY <1>1 DEF Inv, ToolInv, Progress
<1>4. /\ next \in Tool /\ next.at = "walk" /\ next.mode = tool.mode
      /\ next.quiet = tool.quiet /\ next.failed = tool.failed
      /\ next.unlisted = tool.unlisted /\ next.entries = tool.entries \ {n}
    BY <1>1 DEF Tool
<1>5. ~Hidden(n) => n \in Paths
    BY <1>2 DEF Hidden, Names
<1>6. Hidden(n) => n \notin since
    BY <1>3, NamesApart DEF Hidden
<1>7. \/ (Hidden(n) \/ (files[n] # NoFile /\ tool.mode = "dry")) /\ tool' = next
      \/ ~Hidden(n) /\ tool' = [next EXCEPT !.failed = TRUE]
      \/ /\ ~Hidden(n) /\ files[n] # NoFile /\ tool.mode = "verify"
         /\ tool' = [next EXCEPT !.at = "stat", !.name = n, !.data = files[n].image]
      \/ /\ ~Hidden(n) /\ files[n] # NoFile /\ tool.mode = "copy"
         /\ tool' = [next EXCEPT !.at = "read", !.name = n]
    BY DEF Visit
<1> HIDE DEF next
<1>8. CASE (Hidden(n) \/ tool.mode = "dry") /\ tool' = next
    <2>1. ~tool'.failed => \A p \in since :
              p \in tool'.unlisted \cup tool'.entries \/ Copied(p)
        BY <1>1, <1>4, <1>6, <1>8, Walking DEF Copied
    <2> QED BY <1>1, <1>4, <1>8, <2>1, RunInv
<1>9. CASE tool' = [next EXCEPT !.failed = TRUE]
    <2>1. /\ tool' \in Tool /\ tool'.at = "walk" /\ tool'.mode = tool.mode
          /\ tool'.quiet = tool.quiet /\ tool'.failed
        BY <1>4, <1>9 DEF Tool
    <2> QED BY <1>1, <2>1, RunInv
<1>10. CASE /\ ~Hidden(n) /\ files[n] # NoFile /\ tool.mode = "verify"
            /\ tool' = [next EXCEPT !.at = "stat", !.name = n, !.data = files[n].image]
    <2>1. files[n].image \in Images
        BY <1>5, <1>10, PathFacts DEF Inv
    <2>2. /\ tool' \in Tool /\ tool'.at = "stat" /\ tool'.mode = tool.mode
          /\ tool'.quiet = tool.quiet /\ tool'.failed = tool.failed
          /\ tool'.name = n /\ tool'.data = files[n].image
          /\ tool'.unlisted = tool.unlisted /\ tool'.entries = tool.entries \ {n}
        BY <1>2, <1>4, <1>10, <2>1 DEF Tool, Contents
    <2>3. ~tool'.failed => \A p \in since :
              p \in tool'.unlisted \cup tool'.entries \/ tool'.name = p \/ Copied(p)
        BY <1>1, <2>2, Walking
    <2> QED BY <1>1, <1>5, <1>10, <2>1, <2>2, <2>3, RunInv
<1>11. CASE /\ ~Hidden(n) /\ files[n] # NoFile /\ tool.mode = "copy"
            /\ tool' = [next EXCEPT !.at = "read", !.name = n]
    <2>1. /\ tool' \in Tool /\ tool'.at = "read" /\ tool'.mode = tool.mode
          /\ tool'.quiet = tool.quiet /\ tool'.failed = tool.failed /\ tool'.name = n
          /\ tool'.unlisted = tool.unlisted /\ tool'.entries = tool.entries \ {n}
        BY <1>2, <1>4, <1>11 DEF Tool
    <2>2. ~tool'.failed => \A p \in since :
              p \in tool'.unlisted \cup tool'.entries \/ tool'.name = p \/ Copied(p)
        BY <1>1, <2>1, Walking
    <2> QED BY <1>1, <1>5, <1>11, <2>1, <2>2, RunInv
<1> QED BY <1>7, <1>8, <1>9, <1>10, <1>11

(* One file is dealt with, under the name and with the contents it had. *)
LEMMA CountedFacts ==
    ASSUME tool \in Tool, NEW failed \in BOOLEAN, Counted(failed)
    PROVE  /\ tool' \in Tool /\ tool'.at = "walk" /\ tool'.mode = tool.mode
           /\ tool'.quiet = tool.quiet /\ tool'.failed = (tool.failed \/ failed)
           /\ tool'.unlisted = tool.unlisted /\ tool'.entries = tool.entries
BY DEF Counted, Tool, Contents

(* Where an unchanged image is while the tool holds a file. *)
LEMMA HoldingFile ==
    ASSUME Inv, tool.at \in {"read", "put", "stat"}, ~tool.failed, NEW p \in since
    PROVE  p \in tool.unlisted \cup tool.entries \/ tool.name = p \/ Copied(p)
BY DEF Inv, ToolInv, Progress

LEMMA ReadInv == ASSUME Inv, Read PROVE Inv'
<1>1. /\ tool.at = "read" /\ UNCHANGED storeVars /\ UNCHANGED since /\ tool \in Tool
      /\ tool.mode = "copy" /\ tool.name \in Paths
    BY DEF Read, Inv, ToolInv, ToolOnPaths
<1>2. CASE /\ files[tool.name] # NoFile
           /\ tool' = [tool EXCEPT !.at = "put", !.data = files[tool.name].image]
    <2>1. files[tool.name].image \in Images
        BY <1>1, <1>2, PathFacts DEF Inv
    <2>2. /\ tool' \in Tool /\ tool'.at = "put" /\ tool'.mode = tool.mode
          /\ tool'.quiet = tool.quiet /\ tool'.failed = tool.failed
          /\ tool'.name = tool.name /\ tool'.data = files[tool.name].image
          /\ tool'.unlisted = tool.unlisted /\ tool'.entries = tool.entries
        BY <1>1, <1>2, <2>1 DEF Tool, Contents
    <2>3. ~tool'.failed => \A p \in since :
              p \in tool'.unlisted \cup tool'.entries \/ tool'.name = p \/ Copied(p)
        BY <1>1, <2>2, HoldingFile
    <2> QED BY <1>1, <2>1, <2>2, <2>3, RunInv
<1>3. CASE Counted(TRUE)
    BY <1>1, <1>3, CountedFacts, RunInv
<1> QED BY <1>2, <1>3 DEF Read

(* An upload that is not counted as failed has stored the image it read. *)
LEMMA UploadInv == ASSUME Inv, Upload PROVE Inv'
<1> DEFINE n == tool.name
<1>1. /\ tool.at = "put" /\ UNCHANGED <<files, disk, put, up, driver, puts, since>>
      /\ tool \in Tool /\ tool.mode = "copy" /\ n \in Paths /\ tool.data \in Images
      /\ bucket \in [Names -> Images \cup {Absent}]
    BY DEF Upload, Inv, ToolInv, ToolOnPaths, StoreInv, StoreTypes
<1>2. PICK failed \in BOOLEAN :
         /\ Counted(failed)
         /\ bucket' = [bucket EXCEPT ![n] = tool.data] \/ (failed /\ bucket' = bucket)
    BY DEF Upload
<1>3. /\ tool' \in Tool /\ tool'.at = "walk" /\ tool'.mode = tool.mode
      /\ tool'.quiet = tool.quiet /\ tool'.failed = (tool.failed \/ failed)
      /\ tool'.unlisted = tool.unlisted /\ tool'.entries = tool.entries
    BY <1>1, <1>2, CountedFacts
<1>4. /\ \A m \in Names \ {n} : bucket'[m] = bucket[m]
      /\ bucket'[n] \in {bucket[n], tool.data}
      /\ ~failed => bucket'[n] = tool.data
      /\ bucket' \in [Names -> Images \cup {Absent}]
    BY <1>1, <1>2, NamesApart
<1>5. StoreInv'
    BY <1>1, <1>4, BucketStep DEF Inv, StoreInv, StoreTypes
<1>6. BucketWhole' /\ since' \subseteq Paths /\ ToolOnPaths' /\ Quietly'
    BY <1>1, <1>3, <1>4 DEF Inv, ToolInv, BucketWhole, ToolOnPaths, Quietly
<1>7. Progress'
    <2> SUFFICES ASSUME NEW p \in since
                 PROVE  /\ files[p] # NoFile
                        /\ ~tool'.failed => p \in tool'.unlisted \cup tool'.entries \/ Copied(p)'
        BY <1>1, <1>3 DEF Progress
    <2>1. files[p] # NoFile /\ (n = p => tool.data = files[p].image) /\ p \in Paths
        BY <1>1 DEF Inv, ToolInv, Progress
    <2>2. ASSUME ~tool'.failed
          PROVE  p \in tool'.unlisted \cup tool'.entries \/ Copied(p)'
        <3>1. CASE p = n
            BY <1>1, <1>3, <1>4, <2>1, <2>2, <3>1 DEF Copied
        <3>2. CASE p # n
            <4>1. p \in tool.unlisted \cup tool.entries \/ Copied(p)
                BY <1>1, <1>3, <2>2, <3>2, HoldingFile
            <4>2. bucket'[p] = bucket[p]
                BY <1>4, <2>1, <3>2, NamesApart
            <4> QED BY <1>1, <1>3, <4>1, <4>2 DEF Copied
        <3> QED BY <3>1, <3>2
    <2> QED BY <2>1, <2>2
<1> QED BY <1>3, <1>5, <1>6, <1>7 DEF Inv, ToolInv

LEMMA StatInv == ASSUME Inv, Stat PROVE Inv'
<1> DEFINE n == tool.name
           differs == bucket[n] = Absent \/ Size[bucket[n]] # Size[tool.data]
<1>1. /\ tool.at = "stat" /\ UNCHANGED storeVars /\ UNCHANGED since /\ tool \in Tool
      /\ tool.mode = "verify" /\ n \in Paths
    BY DEF Stat, Inv, ToolInv, ToolOnPaths
<1>2. PICK failed \in BOOLEAN : Counted(failed) /\ (failed \/ ~differs)
    BY DEF Stat
<1>3. /\ tool' \in Tool /\ tool'.at = "walk" /\ tool'.mode = tool.mode
      /\ tool'.quiet = tool.quiet /\ tool'.failed = (tool.failed \/ failed)
      /\ tool'.unlisted = tool.unlisted /\ tool'.entries = tool.entries
    BY <1>1, <1>2, CountedFacts
<1>4. ASSUME ~tool'.failed, NEW p \in since
      PROVE  p \in tool'.unlisted \cup tool'.entries \/ Copied(p)
    <2>1. CASE p = n
        <3>1. tool.data = files[p].image
            BY <1>1, <2>1 DEF Inv, ToolInv, Progress
        <3>2. bucket[p] \in Images
            BY <1>1, <1>2, <1>3, <1>4, <2>1, NamesApart DEF Inv, ToolInv, BucketWhole
        <3> QED BY <1>1, <1>2, <1>3, <1>4, <2>1, <3>1, <3>2 DEF Copied
    <2>2. CASE p # n
        BY <1>1, <1>3, <1>4, <2>2, HoldingFile
    <2> QED BY <2>1, <2>2
<1>5. tool.failed => tool'.failed
    BY <1>3
<1> QED BY <1>1, <1>3, <1>4, <1>5, RunInv

LEMMA FinishInv == ASSUME Inv, Finish PROVE Inv'
<1>1. /\ tool.at = "walk" /\ tool.unlisted = {} /\ tool.entries = {}
      /\ UNCHANGED storeVars /\ tool \in Tool
    BY DEF Finish, Inv, ToolInv
<1>2. CASE ~tool.failed /\ tool' = [tool EXCEPT !.at = "done"] /\ UNCHANGED since
    <2>1. /\ tool' \in Tool /\ tool'.at = "done" /\ tool'.mode = tool.mode
          /\ tool'.quiet = tool.quiet /\ tool'.failed = tool.failed
          /\ tool'.unlisted = {} /\ tool'.entries = {}
        BY <1>1, <1>2 DEF Tool
    <2>2. \A p \in since : Copied(p)
        BY <1>1, <1>2, Walking
    <2> QED BY <1>1, <1>2, <2>1, <2>2, RunInv
<1>3. CASE tool' = NoRun /\ since' = {}
    <2>1. StoreInv' /\ BucketWhole'
        BY <1>1, StoreStays DEF Inv, ToolInv, BucketWhole, storeVars
    <2> QED BY <1>3, <2>1, NoRunInv
<1> QED BY <1>2, <1>3 DEF Finish

LEMMA KilledInv == ASSUME Inv, Killed PROVE Inv'
<1>1. StoreInv' /\ BucketWhole'
    BY StoreStays DEF Killed, Inv, ToolInv, BucketWhole, storeVars
<1> QED BY <1>1, NoRunInv DEF Killed

LEMMA LossInv == ASSUME Inv, PowerLoss, tool' = NoRun, since' = {} PROVE Inv'
<1>1. StoreInv'
    BY PowerLossInv DEF Inv
<1>2. BucketWhole'
    BY DEF PowerLoss, Inv, ToolInv, BucketWhole
<1> QED BY <1>1, <1>2, NoRunInv

-----------------------------------------------------------------------------
LEMMA ToolStepInv == ASSUME Inv, ToolStep PROVE Inv'
BY StartInv, ListInv, VisitInv, ReadInv, UploadInv, StatInv, FinishInv, KilledInv
   DEF ToolStep

LEMMA NextInv == Inv /\ [Next]_vars => Inv'
<1> SUFFICES ASSUME Inv, [Next]_vars PROVE Inv'
    OBVIOUS
<1>1. CASE Beside(ServerStep)
    BY <1>1, BesideInv
<1>2. CASE Beside(Flush)
    BY <1>2, BesideInv
<1>3. CASE UNCHANGED vars
    <2>1. StoreInv'
        BY <1>3, StoreStays DEF vars, storeVars, Inv
    <2> QED BY <1>3, <2>1 DEF vars, Inv, ToolInv, BucketWhole, ToolOnPaths, Progress,
                              Copied, Quietly
<1> QED BY <1>1, <1>2, <1>3, ToolStepInv, LossInv DEF Next

(* The inductive invariant of the store and of the tool beside it. *)
THEOREM MigrationInvariant == Spec => []Inv
BY InitInv, NextInv, PTL DEF Spec

(***************************************************************************)
(* The bucket holds whole images at image paths and nothing else: neither  *)
(* S3Store nor the tool ever uploads a temporary file or part of an image. *)
(***************************************************************************)
THEOREM BucketStaysWhole == Spec => []BucketWhole
<1>1. Inv => BucketWhole
    BY DEF Inv, ToolInv
<1> QED BY <1>1, MigrationInvariant, PTL

(***************************************************************************)
(* A run that exits with status 0 has copied, or verified, every image     *)
(* that was there throughout and did not change.                           *)
(***************************************************************************)
THEOREM StatusZero == Spec => []SuccessMeansCopied
<1>1. Inv => SuccessMeansCopied
    BY DEF Inv, ToolInv, Progress, Copied, SuccessMeansCopied
<1> QED BY <1>1, MigrationInvariant, PTL

-----------------------------------------------------------------------------
SwitchStep ==
    /\ up' /\ driver = "local" /\ driver' = "s3"
    /\ tool.at = "done" /\ tool.mode = "copy" /\ tool.quiet
    => \A p \in Paths : files[p] # NoFile => bucket'[p] = files[p].image

(* The server cannot have changed an image before it starts with S3. *)
LEMMA SwitchKeeps == ASSUME Inv, [Next]_vars PROVE SwitchStep
<1> SUFFICES ASSUME up', driver = "local", driver' = "s3", tool.at = "done",
                    tool.mode = "copy", tool.quiet,
                    NEW p \in Paths, files[p] # NoFile
             PROVE  bucket'[p] = files[p].image
    BY DEF SwitchStep
<1>1. ~up /\ p \in since
    BY DEF Inv, ToolInv, Quietly
<1>2. bucket[p] = files[p].image
    BY <1>1 DEF Inv, ToolInv, Progress, Copied
<1>3. bucket' = bucket
    <2>1. CASE ToolStep
        <3>1. driver' = driver
            BY <2>1 DEF ToolStep, Start, List, Visit, Read, Upload, Stat, Finish, Killed,
                        storeVars
        <3> QED BY <3>1
    <2>2. CASE ServerStep
        <3>1. ASSUME NEW w \in Workers, PutStep(w) PROVE FALSE
            <4>1. ASSUME NEW q \in Paths, NEW i \in Images, NEW t \in Temps,
                         CreateTemp(w, q, i, t)
                  PROVE  FALSE
                BY <1>1, <4>1 DEF CreateTemp
            <4>2. put[w].at = "idle"
                BY <1>1 DEF Inv, StoreInv, PutsOwn
            <4> QED BY <3>1, <4>1, <4>2 DEF PutStep, Write, Sync, Rename, PutError, Remove, Step
        <3>2. ASSUME NEW q \in Paths, Delete(q) \/ S3Delete(q) \/ \E i \in Images : S3Put(q, i)
              PROVE  FALSE
            BY <1>1, <3>2 DEF Delete, S3Delete, S3Put
        <3>3. ASSUME Crash \/ Shutdown PROVE FALSE
            BY <1>1, <3>3 DEF Crash, Shutdown
        <3>4. ASSUME \E d \in {"local", "s3"} : Boot(d) PROVE bucket' = bucket
            BY <3>4 DEF Boot
        <3> QED BY <2>2, <3>1, <3>2, <3>3, <3>4 DEF ServerStep
    <2>3. CASE Flush \/ PowerLoss
        BY <2>3 DEF Flush, PowerLoss
    <2>4. CASE UNCHANGED vars
        BY <2>4 DEF vars
    <2> QED BY <2>1, <2>2, <2>3, <2>4 DEF Next, Beside
<1> QED BY <1>2, <1>3

(***************************************************************************)
(* A copy that succeeded while the server was down, and stayed down until  *)
(* it starts with S3, loses no image.                                      *)
(***************************************************************************)
THEOREM SwitchLosesNothing == Spec => SwitchKeepsImages
<1>1. Inv /\ [Next]_vars => [SwitchStep]_vars
    BY SwitchKeeps
<1>2. Spec => [][SwitchStep]_vars
    BY <1>1, MigrationInvariant, PTL DEF Spec
<1> QED BY <1>2 DEF SwitchKeepsImages, SwitchStep

(***************************************************************************)
(* LocalFS.Put is atomic: Rename is the instant at which it takes effect,  *)
(* and no crash, failed call, loss of power or concurrent Put is more than *)
(* a step of the atomic store.                                             *)
(***************************************************************************)
THEOREM Refinement == Spec => LocalIsAtomic
<1>1. Inv /\ [Next]_vars => [Local!Next]_(Local!vars)
    <2> SUFFICES ASSUME Inv, [Next]_vars PROVE AtomicStep
        BY DEF AtomicStep
    <2>1. StoreInv
        BY DEF Inv
    <2>2. CASE ToolStep
        <3>1. UNCHANGED <<files, disk, put>>
            BY <2>2 DEF ToolStep, Start, List, Visit, Read, Upload, Stat, Finish, Killed,
                        storeVars
        <3> QED BY <3>1, OthersRefine
    <2>3. CASE UNCHANGED vars
        BY <2>3, OthersRefine DEF vars
    <2> QED BY <2>1, <2>2, <2>3, ServerRefines, FlushRefines, PowerLossRefines
            DEF Next, Beside
<1> QED BY <1>1, InitRefines, MigrationInvariant, PTL DEF Spec, LocalIsAtomic, Local!Spec
=============================================================================
