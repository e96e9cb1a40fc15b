----------------------------- MODULE AtomicStore ------------------------------
(***************************************************************************)
(* What blob.Store promises: "Put atomically writes data" (the comment on  *)
(* the interface).  A Put that was called takes effect at one instant or   *)
(* not at all, one that failed or was cut off by a crash never does, and a *)
(* path never holds anything but an image somebody put there.  A loss of   *)
(* power may take a path back to what the disk had, never to something in  *)
(* between.                                                                *)
(***************************************************************************)
CONSTANTS Paths, Images, Absent

VARIABLES
    content,  \* what Get returns for each path
    saved,    \* what the disk is known to hold
    pending   \* Puts that were called and have not taken effect

vars == <<content, saved, pending>>

Stored == [Paths -> Images \cup {Absent}]

Init ==
    /\ content = [p \in Paths |-> Absent]
    /\ saved = content
    /\ pending = {}

Call(put) ==
    /\ pending' = pending \cup {put}
    /\ UNCHANGED <<content, saved>>

Effect(put) ==
    /\ put \in pending
    /\ content' = [content EXCEPT ![put[1]] = put[2]]
    /\ pending' = pending \ {put}
    /\ UNCHANGED saved

Abandon ==
    /\ pending' \subseteq pending
    /\ UNCHANGED <<content, saved>>

Delete(p) ==
    /\ content' = [content EXCEPT ![p] = Absent]
    /\ UNCHANGED <<saved, pending>>

Flush ==
    /\ saved' = content
    /\ UNCHANGED <<content, pending>>

PowerLoss ==
    /\ content' \in Stored
    /\ \A p \in Paths : content'[p] \in {content[p], saved[p]}
    /\ saved' = content'
    /\ pending' = {}

Next ==
    \/ \E put \in Paths \X Images : Call(put) \/ Effect(put)
    \/ \E p \in Paths : Delete(p)
    \/ Abandon \/ Flush \/ PowerLoss

Spec == Init /\ [][Next]_vars
=============================================================================
