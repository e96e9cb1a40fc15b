--------------------------- MODULE RecordLifecycle ---------------------------
(***************************************************************************)
(* What a client may rely on about a generation record, whatever workers,  *)
(* requests, crashes and failures do underneath: a record runs only after  *)
(* waiting, settles only from running, is completed for good, its image is *)
(* available from the moment it is completed until it is deleted, and only *)
(* completed records are in the public gallery.                            *)
(***************************************************************************)
EXTENDS Integers

CONSTANT Ids

VARIABLES
    life,        \* the status of each record
    available,   \* records whose image can be fetched
    gallery      \* records in the public gallery

lifeVars == <<life, available, gallery>>

LInit ==
    /\ life = [r \in Ids |-> "absent"]
    /\ available = {} /\ gallery = {}

Move(r, from, to) == life[r] = from /\ life' = [life EXCEPT ![r] = to]

Submit(r) == Move(r, "absent", "waiting") /\ UNCHANGED <<available, gallery>>
Start(r)  == Move(r, "waiting", "running") /\ UNCHANGED <<available, gallery>>
Fail(r)   == Move(r, "running", "failed") /\ UNCHANGED <<available, gallery>>
Retry(r)  == Move(r, "failed", "waiting") /\ UNCHANGED <<available, gallery>>

Complete(r) ==
    /\ Move(r, "running", "completed")
    /\ available' = available \cup {r}
    /\ UNCHANGED gallery

(* A restart puts every record that was running back in the queue. *)
Requeue ==
    /\ life' = [r \in Ids |-> IF life[r] = "running" THEN "waiting" ELSE life[r]]
    /\ UNCHANGED <<available, gallery>>

Publish(r) ==
    /\ r \in available
    /\ gallery' = gallery \cup {r}
    /\ UNCHANGED <<life, available>>

Unpublish(r) ==
    /\ gallery' = gallery \ {r}
    /\ UNCHANGED <<life, available>>

Remove(r) ==
    /\ life[r] \notin {"absent", "deleted"}
    /\ life' = [life EXCEPT ![r] = "deleted"]
    /\ available' = available \ {r}
    /\ gallery' = gallery \ {r}

LNext ==
    \/ \E r \in Ids : \/ Submit(r) \/ Start(r) \/ Fail(r) \/ Retry(r) \/ Complete(r)
                      \/ Publish(r) \/ Unpublish(r) \/ Remove(r)
    \/ Requeue

Spec == LInit /\ [][LNext]_lifeVars
=============================================================================
