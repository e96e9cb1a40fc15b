----------------------------- MODULE MigrateBlobs -----------------------------
(***************************************************************************)
(* cmd/migrate-blobs, the tool that copies the images of LocalFS to the S3 *)
(* bucket, beside a server (ImageStore) that may be running, crash or lose *)
(* power meanwhile.  A run walks the image directories; each is listed     *)
(* when the walk reaches it, and its files are then taken one by one.      *)
(* Files that are not at images/<user>/<file> are left out: the server     *)
(* makes none.                                                             *)
(***************************************************************************)
EXTENDS ImageStore

CONSTANT Size   \* the size of each image; different images may have the same

ASSUME SizeAssumption == Size \in [Images -> Nat]

VARIABLES
    tool,    \* the run in progress, or the last one that succeeded
    since    \* history: paths whose image has not changed since the run began

vars == <<files, disk, put, bucket, up, driver, puts, tool, since>>

Modes == {"copy", "verify", "dry"}

(* unlisted: names in directories the walk has not reached; entries: files *)
(* listed and not looked at; quiet: the server has been down all the time. *)
NoRun == [at |-> "idle", mode |-> "copy", unlisted |-> {}, entries |-> {},
          name |-> Absent, data |-> Absent, failed |-> FALSE, quiet |-> FALSE]

Init == StoreInit /\ tool = NoRun /\ since = {}

-----------------------------------------------------------------------------
Start(mode) ==
    /\ tool.at \in {"idle", "done"}
    /\ tool' = [NoRun EXCEPT !.at = "walk", !.mode = mode, !.unlisted = Names,
                             !.quiet = ~up]
    /\ since' = {p \in Paths : files[p] # NoFile}
    /\ UNCHANGED storeVars

(* Mutant: an unreadable directory is skipped silently. *)
ListUncounted(dir) ==
    /\ tool.at = "walk"
    /\ tool' = [tool EXCEPT !.unlisted = @ \ dir]
    /\ UNCHANGED <<storeVars, since>>

(* WalkDir reads a directory, or cannot. *)
List(dir) ==
    /\ tool.at = "walk"
    /\ \/ tool' = [tool EXCEPT !.unlisted = @ \ dir,
                               !.entries = @ \cup {n \in dir : files[n] # NoFile}]
       \/ tool' = [tool EXCEPT !.unlisted = @ \ dir, !.failed = TRUE]
    /\ UNCHANGED <<storeVars, since>>

(* Mutant: hidden files are not skipped. *)
HiddenNever(n) == FALSE

Hidden(n) == n \in Temps

(* The next file: a hidden one is skipped, the others are looked up, and a *)
(* dry run does no more.                                                   *)
Visit(n) ==
    LET next == [tool EXCEPT !.entries = @ \ {n}] IN
    /\ tool.at = "walk"
    /\ \/ /\ Hidden(n) \/ (files[n] # NoFile /\ tool.mode = "dry")
          /\ tool' = next
       \/ /\ ~Hidden(n) /\ files[n] = NoFile
          /\ tool' = [next EXCEPT !.failed = TRUE]
       \/ /\ ~Hidden(n) /\ files[n] # NoFile /\ tool.mode = "verify"
          /\ tool' = [next EXCEPT !.at = "stat", !.name = n, !.data = files[n].image]
       \/ /\ ~Hidden(n) /\ files[n] # NoFile /\ tool.mode = "copy"
          /\ tool' = [next EXCEPT !.at = "read", !.name = n]
    /\ UNCHANGED <<storeVars, since>>

(* The callback returns nil: on to the next file. *)
Counted(failed) ==
    tool' = [tool EXCEPT !.at = "walk", !.name = Absent, !.data = Absent,
                         !.failed = @ \/ failed]

(* os.ReadFile, of the file that has the name now. *)
Read ==
    /\ tool.at = "read"
    /\ \/ /\ files[tool.name] # NoFile
          /\ tool' = [tool EXCEPT !.at = "put", !.data = files[tool.name].image]
       \/ files[tool.name] = NoFile /\ Counted(TRUE)
    /\ UNCHANGED <<storeVars, since>>

(* Mutant: a failed upload is reported and not counted. *)
UploadUncounted ==
    /\ tool.at = "put"
    /\ \/ bucket' = [bucket EXCEPT ![tool.name] = tool.data]
       \/ UNCHANGED bucket
    /\ Counted(FALSE)
    /\ UNCHANGED <<files, disk, put, up, driver, puts, since>>

(* S3Store.Put.  One that reports an error may have stored the object. *)
Upload ==
    /\ tool.at = "put"
    /\ \/ bucket' = [bucket EXCEPT ![tool.name] = tool.data] /\ Counted(FALSE)
       \/ bucket' = [bucket EXCEPT ![tool.name] = tool.data] /\ Counted(TRUE)
       \/ UNCHANGED bucket /\ Counted(TRUE)
    /\ UNCHANGED <<files, disk, put, up, driver, puts, since>>

(* S3Store.Stat, compared with the size found by Visit. *)
Stat ==
    /\ tool.at = "stat"
    /\ \/ Counted(bucket[tool.name] = Absent \/ Size[bucket[tool.name]] # Size[tool.data])
       \/ Counted(TRUE)
    /\ UNCHANGED <<storeVars, since>>

(* The walk is over.  The run is "done" when it exits with status 0; of a  *)
(* run that failed nothing is remembered.                                  *)
Finish ==
    /\ tool.at = "walk" /\ tool.unlisted = {} /\ tool.entries = {}
    /\ \/ ~tool.failed /\ tool' = [tool EXCEPT !.at = "done"] /\ UNCHANGED since
       \/ tool.failed /\ tool' = NoRun /\ since' = {}
    /\ UNCHANGED storeVars

Killed ==
    /\ tool.at \notin {"idle", "done"}
    /\ tool' = NoRun /\ since' = {}
    /\ UNCHANGED storeVars

ToolStep ==
    \/ \E mode \in Modes : Start(mode)
    \/ \E dir \in SUBSET tool.unlisted \ {{}} : List(dir)
    \/ \E n \in tool.entries : Visit(n)
    \/ Read \/ Upload \/ Stat \/ Finish \/ Killed

(* A step of the server or the machine; what it changes is no longer as it *)
(* was when the run began.                                                 *)
Beside(step) ==
    /\ step
    /\ tool' = [tool EXCEPT !.quiet = @ /\ ~up']
    /\ since' = {p \in since : files'[p] = files[p] /\ bucket'[p] = bucket[p]}

Next ==
    \/ ToolStep
    \/ Beside(ServerStep) \/ Beside(Flush)
    \/ PowerLoss /\ tool' = NoRun /\ since' = {}

Spec == Init /\ [][Next]_vars

-----------------------------------------------------------------------------
(***************************************************************************)
(* The bucket only ever holds whole images, at image paths, although the   *)
(* tool reads a directory in which Puts are under way and crashes have     *)
(* left temporary files.                                                   *)
(***************************************************************************)
BucketWhole ==
    \A n \in Names : bucket[n] \in (IF n \in Paths THEN Images ELSE {}) \cup {Absent}

(***************************************************************************)
(* Exit status 0 can be relied on: every image that was there from the     *)
(* beginning of the run and did not change has been copied, or, when       *)
(* verifying, has an object of the same size.  Images that came, changed   *)
(* or went during the run are the ones it says nothing about.              *)
(***************************************************************************)
SuccessMeansCopied ==
    tool.at = "done" =>
      \A p \in since :
        /\ tool.mode = "copy" => bucket[p] = files[p].image
        /\ tool.mode = "verify" => bucket[p] \in Images /\ Size[bucket[p]] = Size[files[p].image]

(***************************************************************************)
(* The change of drivers loses no image when the server stays down from    *)
(* the beginning of a copy that succeeds until it starts with S3: what it  *)
(* could serve before it can serve after, since the paths in the database  *)
(* stay as they are.                                                       *)
(***************************************************************************)
SwitchKeepsImages ==
    [][/\ up' /\ driver = "local" /\ driver' = "s3"
       /\ tool.at = "done" /\ tool.mode = "copy" /\ tool.quiet
       => \A p \in Paths : files[p] # NoFile => bucket'[p] = files[p].image]_vars
=============================================================================
