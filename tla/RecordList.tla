------------------------------ MODULE RecordList ------------------------------
(***************************************************************************)
(* Reading a list page by page: List, ListPublic and AdminList of          *)
(* internal/record/repo.go, the list of users, and the page numbers that   *)
(* the handlers put into the answer, while the rows of the list come and   *)
(* go.  One request is two statements, a count and a page of rows.         *)
(*                                                                         *)
(* A list is ordered by id, newest first, whatever its filter; the         *)
(* community gallery is ordered by the time of publication, which a second *)
(* publication renews.  What a row shows is left out.                      *)
(***************************************************************************)
EXTENDS Integers, FiniteSets

CONSTANTS
    Ids,          \* rows that can be in the list, numbered from 1
    MaxStamp,     \* bound on publications
    MaxSize,      \* the largest page size served, 100 in the code
    DefaultSize,  \* the page size used instead of any other, 20 in the code
    Sizes         \* page sizes that clients ask for

ASSUME RecordListAssumption ==
    /\ Ids \subseteq Nat \ {0} /\ IsFiniteSet(Ids) /\ MaxStamp \in Nat
    /\ MaxSize \in Nat \ {0} /\ DefaultSize \in 1..MaxSize
    /\ Sizes \subseteq Int

VARIABLES
    scope,   \* "own", or "public" for the community gallery
    key,     \* what each row is ordered by; 0 when it is not in the list
    clock,   \* publications so far
    walk     \* a client on its way through the pages

listVars == <<scope, key, clock, walk>>

NoWalk == [at |-> "idle", size |-> 1, page |-> 1, total |-> 0,
           seen |-> {}, twice |-> FALSE, stable |-> {},
           left |-> FALSE, entered |-> FALSE, torn |-> FALSE]

ListInit ==
    /\ scope \in {"own", "public"}
    /\ key = [r \in Ids |-> 0]
    /\ clock = 0
    /\ walk = NoWalk

Listed == {r \in Ids : key[r] # 0}

-----------------------------------------------------------------------------
(* What a page holds and how many there are. *)

PageSize(size) == IF size <= 0 \/ size > MaxSize THEN DefaultSize ELSE size

Position(r) == Cardinality({s \in Listed : key[s] >= key[r]})

(* Mutant: OFFSET is one short on every page after the first. *)
PageOverlapping(page, size) ==
    LET offset == (page - 1) * (PageSize(size) - 1) IN
    {r \in Listed : Position(r) \in offset + 1 .. offset + PageSize(size)}

Page(page, size) ==
    LET offset == (page - 1) * PageSize(size) IN
    {r \in Listed : Position(r) \in offset + 1 .. offset + PageSize(size)}

(* Mutant: rounded down. *)
TotalPagesFloor(total, size) ==
    LET n == IF size <= 0 THEN DefaultSize ELSE size IN
    IF total < n THEN 1 ELSE total \div n

(* pagingMeta *)
TotalPages(total, size) ==
    LET n == IF size <= 0 THEN DefaultSize ELSE size
        pages == (total + n - 1) \div n
    IN  IF pages < 1 THEN 1 ELSE pages

-----------------------------------------------------------------------------
(* A client asks for page after page until the answer says that there are  *)
(* no more.                                                                *)

StartWalk(size) ==
    /\ walk.at = "idle"
    /\ walk' = [NoWalk EXCEPT !.at = "count", !.size = size, !.stable = Listed]
    /\ UNCHANGED <<scope, key, clock>>

CountRows ==
    /\ walk.at = "count"
    /\ walk' = [walk EXCEPT !.at = "find", !.total = Cardinality(Listed), !.torn = FALSE]
    /\ UNCHANGED <<scope, key, clock>>

FindRows ==
    LET rows == Page(walk.page, walk.size)
        last == walk.page >= TotalPages(walk.total, walk.size)
    IN
    /\ walk.at = "find"
    /\ walk' = [walk EXCEPT !.seen = @ \cup rows,
                            !.twice = @ \/ rows \cap walk.seen # {},
                            !.at = IF last THEN "done" ELSE "count",
                            !.page = IF last THEN @ ELSE @ + 1]
    /\ UNCHANGED <<scope, key, clock>>

(* A statement fails and the client gives up, or it has seen enough. *)
GiveUp ==
    /\ walk.at # "idle"
    /\ walk' = NoWalk
    /\ UNCHANGED <<scope, key, clock>>

-----------------------------------------------------------------------------
(* The list changes. *)

Entered(r) ==
    walk' = IF walk.at \in {"idle", "done"} THEN walk
            ELSE [walk EXCEPT !.entered = TRUE, !.stable = @ \ {r},
                              !.torn = @ \/ (walk.at = "find" /\ key[r] = 0)]

(* A record is created, or begins to pass the filter of the list: its      *)
(* place is that of its id.                                                *)
Enter(r) ==
    /\ scope = "own" /\ key[r] = 0
    /\ key' = [key EXCEPT ![r] = r]
    /\ Entered(r)
    /\ UNCHANGED <<scope, clock>>

(* UpdatePublic with isPublic: a record that is public already moves to    *)
(* the front.                                                              *)
MakePublic(r) ==
    /\ scope = "public" /\ clock < MaxStamp
    /\ clock' = clock + 1
    /\ key' = [key EXCEPT ![r] = clock + 1]
    /\ Entered(r)
    /\ UNCHANGED scope

(* A record is deleted, unpublished, or no longer passes the filter. *)
Leave(r) ==
    /\ key[r] # 0
    /\ key' = [key EXCEPT ![r] = 0]
    /\ walk' = IF walk.at \in {"idle", "done"} THEN walk
               ELSE [walk EXCEPT !.left = TRUE, !.stable = @ \ {r}]
    /\ UNCHANGED <<scope, clock>>

ListNext ==
    \/ \E size \in Sizes : StartWalk(size)
    \/ CountRows \/ FindRows \/ GiveUp
    \/ \E r \in Ids : Enter(r) \/ MakePublic(r) \/ Leave(r)

ListSpec == ListInit /\ [][ListNext]_listVars

-----------------------------------------------------------------------------
(***************************************************************************)
(* A client that follows totalPages, with a page size up to the largest    *)
(* that is served, sees every row that stayed in its place from the first  *)
(* request to the last, however many rows are created or published         *)
(* meanwhile.  It can miss one only when another row left the list, or     *)
(* when a row came in between the two statements of the last request, so   *)
(* that its count was too small for its page.                              *)
(*                                                                         *)
(* A larger size is not covered, and the code does lose rows then:         *)
(* repo.go:117 serves DefaultSize rows a page, while pagingMeta            *)
(* (handler.go:423) divides by the size that was asked for, so the walk    *)
(* ends before it has had all pages.                                       *)
(***************************************************************************)
WalkMissesNothing ==
    walk.at = "done" /\ walk.size <= MaxSize /\ ~walk.left /\ ~walk.torn =>
        walk.stable \subseteq walk.seen

(***************************************************************************)
(* No row is shown on two pages of a walk unless a row came into the list  *)
(* or moved to its front meanwhile; rows that leave repeat nothing.        *)
(***************************************************************************)
NoRepeats ==
    walk.twice => walk.entered
=============================================================================
