------------------------------- MODULE Gallery --------------------------------
(***************************************************************************)
(* Projects, favourites and PATCH /records/:id: the columns of a record    *)
(* that users organise their pictures with, the tables projects and        *)
(* record_favorites, and the handlers of internal/record/handler.go that   *)
(* change them.                                                            *)
(*                                                                         *)
(* One step is one SQL statement.  Handler.Update runs up to six of them   *)
(* without a transaction, so other requests come in between.  Whether an   *)
(* optional field is in the body is chosen when the handler looks at it.   *)
(* A record is "completed" when StoreGenerated has given it an image, and  *)
(* "pending" before; RecordPipeline has the life of a record in full, the  *)
(* prompt_public and published_at columns included.  A project's name      *)
(* decides nothing and is left out, and Rename with it.                    *)
(***************************************************************************)
EXTENDS Naturals

CONSTANTS
    Users, NoUser,
    Records, NoRecord,    \* the ids that records will get, and none
    Projects, NoProject,  \* the ids that projects will get, and NULL
    Requests              \* slots for requests of more than one statement

ASSUME GalleryAssumption ==
    NoUser \notin Users /\ NoProject \notin Projects /\ NoRecord \notin Records

VARIABLES
    records,    \* table records
    projects,   \* table projects: the user_id of each project
    dropped,    \* ids of deleted projects
    favorites,  \* table record_favorites, unique on (user_id, record_id)
    req,        \* requests in flight, and the answer of the last one
    shown       \* history: records that have ever been public

vars == <<records, projects, dropped, favorites, req, shown>>

Row == [state : {"absent", "pending", "completed", "deleted"},
        user : Users \cup {NoUser}, favorite : BOOLEAN, public : BOOLEAN,
        project : Projects \cup {NoProject}]

NoRow == [state |-> "absent", user |-> NoUser, favorite |-> FALSE,
          public |-> FALSE, project |-> NoProject]

(* Where a request stands: Create checks the project, inserts the row and  *)
(* reads it back; Update passes the stages from "favorite" to "reply".     *)
Stages == {"idle", "create", "insert", "created", "favorite", "ownFavorite",
           "otherFavorite", "public", "project", "setProject", "reply"}

(* The status of the answer; 0 before it is sent. *)
Codes == {0, 200, 201, 404, 409, 422, 500}

(* The fields of a PATCH that Update handles, in its order. *)
Parts == {"favorite", "public", "project"}

Request == [at : Stages, user : Users \cup {NoUser}, id : Records \cup {NoRecord},
            value : BOOLEAN, project : Projects \cup {NoProject},
            code : Codes,
            asked : SUBSET Parts, wrote : SUBSET Parts]

NoRequest == [at |-> "idle", user |-> NoUser, id |-> NoRecord, value |-> FALSE,
              project |-> NoProject, code |-> 0,
              asked |-> {}, wrote |-> {}]

Init ==
    /\ records = [r \in Records |-> NoRow]
    /\ projects = [p \in Projects |-> NoUser]
    /\ dropped = {} /\ favorites = {} /\ shown = {}
    /\ req = [q \in Requests |-> NoRequest]

-----------------------------------------------------------------------------
Exists(r)  == records[r].state \in {"pending", "completed"}
Visible(r) == records[r].state = "completed" /\ records[r].public

(* Mutant: the record is looked up by id alone. *)
FindByIDUnscoped(r, u) == Exists(r)

(* Repository.FindByID, and the WHERE clause of the updates, find r for    *)
(* user u.                                                                 *)
FindByID(r, u) == Exists(r) /\ records[r].user = u

(* Mutant: the project is looked up by id alone. *)
FindProjectUnscoped(p, u) == projects[p] # NoUser

(* ProjectRepository.FindByID finds p for user u. *)
FindProject(p, u) == projects[p] = u

(* The foreign key of project_id accepts p. *)
ForeignKey(p) == p # NoProject => projects[p] # NoUser

(* Request x goes on: past a field that the body lacks, with a project     *)
(* that was checked, with its row, with a field that was found or written, *)
(* or to the answer, refused at a field or not.                            *)
Arrived(stage, u, r)      == [NoRequest EXCEPT !.at = stage, !.user = u, !.id = r]
To(x, stage)              == [x EXCEPT !.at = stage]
WithProject(x, stage, p)  == [x EXCEPT !.at = stage, !.project = p]
Inserted(x, r) == [x EXCEPT !.at = "created", !.id = r, !.project = NoProject]
Found(x, part, stage)     == [x EXCEPT !.at = stage, !.asked = @ \cup {part}]
FoundFavorite(x, stage, value) ==
    [x EXCEPT !.at = stage, !.value = value, !.asked = @ \cup {"favorite"}]
Written(x, part, stage) ==
    [x EXCEPT !.at = stage, !.value = FALSE, !.project = NoProject,
              !.asked = @ \cup {part}, !.wrote = @ \cup {part}]
Answered(x, code) ==
    [x EXCEPT !.at = "idle", !.code = code, !.value = FALSE, !.project = NoProject]
Refused(x, part, code) ==
    [x EXCEPT !.at = "idle", !.code = code, !.value = FALSE, !.project = NoProject,
              !.asked = @ \cup {part}]

Begin(q, stage, u, r) ==
    req[q].at = "idle" /\ req' = [req EXCEPT ![q] = Arrived(stage, u, r)]
GoTo(q, stage)        == req' = [req EXCEPT ![q] = To(req[q], stage)]
Find(q, part, stage)  == req' = [req EXCEPT ![q] = Found(req[q], part, stage)]
Done(q, part, stage)  == req' = [req EXCEPT ![q] = Written(req[q], part, stage)]
Answer(q, code)       == req' = [req EXCEPT ![q] = Answered(req[q], code)]
Refuse(q, part, code) == req' = [req EXCEPT ![q] = Refused(req[q], part, code)]

-----------------------------------------------------------------------------
(* POST /records: the project of the body, if any, is checked, then the    *)
(* row is inserted.  The foreign key refuses a project deleted meanwhile.  *)
(* 404 is a project that was not found, or a lookup that failed.           *)

Create(q) ==
    /\ req[q].at = "create"
    /\ \/ GoTo(q, "insert")
       \/ \E p \in Projects :
            /\ FindProject(p, req[q].user)
            /\ req' = [req EXCEPT ![q] = WithProject(req[q], "insert", p)]
       \/ Answer(q, 422)
       \/ Answer(q, 404)
    /\ UNCHANGED <<records, projects, dropped, favorites, shown>>

CreateInsert(q, r) ==
    /\ req[q].at = "insert" /\ records[r].state = "absent"
    /\ \/ /\ ForeignKey(req[q].project)
          /\ records' = [records EXCEPT ![r] =
                           [NoRow EXCEPT !.state = "pending", !.user = req[q].user,
                                         !.project = req[q].project]]
          /\ req' = [req EXCEPT ![q] = Inserted(req[q], r)]
       \/ ~ForeignKey(req[q].project) /\ Answer(q, 500) /\ UNCHANGED records
    /\ UNCHANGED <<projects, dropped, favorites, shown>>

CreateReply(q) ==
    /\ req[q].at = "created"
    /\ Answer(q, IF FindByID(req[q].id, req[q].user) THEN 201 ELSE 500)
    /\ UNCHANGED <<records, projects, dropped, favorites, shown>>

-----------------------------------------------------------------------------
(* PATCH /records/:id, field favorite: UpdateFavorite reads the row and    *)
(* then writes the record of its owner, or the favourite of anyone else.   *)

FavoriteTo(q, stage) ==
    \E value \in BOOLEAN :
        req' = [req EXCEPT ![q] = FoundFavorite(req[q], stage, value)]

(* Mutant: the record need not be public. *)
FavoriteReadHidden(q) ==
    /\ req[q].at = "favorite" /\ Exists(req[q].id)
    /\ FavoriteTo(q, IF FindByID(req[q].id, req[q].user)
                     THEN "ownFavorite" ELSE "otherFavorite")
    /\ UNCHANGED <<records, projects, dropped, favorites, shown>>

FavoriteRead(q) ==
    /\ req[q].at = "favorite"
    /\ LET r == req[q].id  own == FindByID(r, req[q].user) IN
         \/ GoTo(q, "public")
         \/ own /\ FavoriteTo(q, "ownFavorite")
         \/ ~own /\ Visible(r) /\ FavoriteTo(q, "otherFavorite")
         \/ ~own /\ ~Visible(r) /\ Refuse(q, "favorite", 404)
    /\ UNCHANGED <<records, projects, dropped, favorites, shown>>

OwnFavorite(q) ==
    /\ req[q].at = "ownFavorite"
    /\ LET r == req[q].id  found == FindByID(r, req[q].user) IN
         \/ /\ found
            /\ records' = [records EXCEPT ![r].favorite = req[q].value]
            /\ Done(q, "favorite", "public")
         \/ ~found /\ Answer(q, 404) /\ UNCHANGED records
    /\ UNCHANGED <<projects, dropped, favorites, shown>>

(* INSERT ... ON CONFLICT DO NOTHING, or DELETE.  The record may have been *)
(* unpublished since it was read; if it was deleted, the foreign key       *)
(* refuses the insert.                                                     *)
OtherFavorite(q) ==
    /\ req[q].at = "otherFavorite"
    /\ LET r == req[q].id  pair == <<req[q].user, r>>  value == req[q].value IN
         \/ /\ value => Exists(r)
            /\ favorites' = IF value THEN favorites \cup {pair} ELSE favorites \ {pair}
            /\ Done(q, "favorite", "public")
         \/ value /\ ~Exists(r) /\ Answer(q, 500) /\ UNCHANGED favorites
    /\ UNCHANGED <<records, projects, dropped, shown>>

(* Field isPublic: one UPDATE of a completed record of the caller. *)
Publish(q, isPublic) ==
    /\ records' = [records EXCEPT ![req[q].id].public = isPublic]
    /\ shown' = IF isPublic THEN shown \cup {req[q].id} ELSE shown
    /\ Done(q, "public", "project")

(* Mutant: RowsAffected is not looked at. *)
UpdatePublicUnchecked(q) ==
    /\ req[q].at = "public"
    /\ LET r == req[q].id
           found == FindByID(r, req[q].user) /\ records[r].state = "completed" IN
         \/ GoTo(q, "project") /\ UNCHANGED <<records, shown>>
         \/ found /\ \E isPublic \in BOOLEAN : Publish(q, isPublic)
         \/ ~found /\ Find(q, "public", "project") /\ UNCHANGED <<records, shown>>
    /\ UNCHANGED <<projects, dropped, favorites>>

UpdatePublic(q) ==
    /\ req[q].at = "public"
    /\ LET r == req[q].id
           found == FindByID(r, req[q].user) /\ records[r].state = "completed" IN
         \/ GoTo(q, "project") /\ UNCHANGED <<records, shown>>
         \/ found /\ \E isPublic \in BOOLEAN : Publish(q, isPublic)
         \/ ~found /\ Refuse(q, "public", 409) /\ UNCHANGED <<records, shown>>
    /\ UNCHANGED <<projects, dropped, favorites>>

(* Field projectId: absent or null, "" (out of its project), malformed, or *)
(* a project that must be the caller's; 404 is again a project that was    *)
(* not found, or a lookup that failed.                                     *)
UpdateProjectCheck(q) ==
    /\ req[q].at = "project"
    /\ \/ GoTo(q, "reply")
       \/ Find(q, "project", "setProject")
       \/ \E p \in Projects :
            /\ FindProject(p, req[q].user)
            /\ req' = [req EXCEPT ![q] =
                         WithProject(Found(req[q], "project", "setProject"),
                                     "setProject", p)]
       \/ Refuse(q, "project", 422)
       \/ Refuse(q, "project", 404)
    /\ UNCHANGED <<records, projects, dropped, favorites, shown>>

UpdateProject(q) ==
    /\ req[q].at = "setProject"
    /\ LET r == req[q].id  p == req[q].project  found == FindByID(r, req[q].user) IN
         \/ /\ found /\ ForeignKey(p)
            /\ records' = [records EXCEPT ![r].project = p]
            /\ Done(q, "project", "reply")
         \/ found /\ ~ForeignKey(p) /\ Answer(q, 500) /\ UNCHANGED records
         \/ ~found /\ Answer(q, 404) /\ UNCHANGED records
    /\ UNCHANGED <<projects, dropped, favorites, shown>>

(* The row is read back, for the caller as its owner. *)
UpdateReply(q) ==
    /\ req[q].at = "reply"
    /\ Answer(q, IF FindByID(req[q].id, req[q].user) THEN 200 ELSE 500)
    /\ UNCHANGED <<records, projects, dropped, favorites, shown>>

(* A statement reports an error: the handler answers 500, and what its     *)
(* earlier statements did stays.  One that takes effect and yet reports an *)
(* error is that statement's action followed by this one.                  *)
StatementFails(q) ==
    /\ \/ req[q].at \in {"favorite", "public"} /\ Refuse(q, req[q].at, 500)
       \/ /\ req[q].at \in {"insert", "created", "ownFavorite", "otherFavorite",
                             "setProject", "reply"}
          /\ Answer(q, 500)
    /\ UNCHANGED <<records, projects, dropped, favorites, shown>>

-----------------------------------------------------------------------------
(* Requests of one statement, and the worker. *)

CreateProject(u, p) ==
    /\ projects[p] = NoUser /\ p \notin dropped
    /\ projects' = [projects EXCEPT ![p] = u]
    /\ UNCHANGED <<records, dropped, favorites, req, shown>>

(* By its owner; ON DELETE SET NULL clears project_id. *)
DeleteProject(p) ==
    /\ projects[p] # NoUser
    /\ projects' = [projects EXCEPT ![p] = NoUser]
    /\ dropped' = dropped \cup {p}
    /\ records' = [r \in Records |->
                     IF records[r].project = p
                     THEN [records[r] EXCEPT !.project = NoProject] ELSE records[r]]
    /\ UNCHANGED <<favorites, req, shown>>

(* Mutant: a status that the CHECK of the table does not list. *)
CompleteSucceeded(r) ==
    /\ records[r].state = "pending"
    /\ records' = [records EXCEPT ![r].state = "succeeded"]
    /\ UNCHANGED <<projects, dropped, favorites, req, shown>>

(* StoreGenerated, by the worker that has the record. *)
Complete(r) ==
    /\ records[r].state = "pending"
    /\ records' = [records EXCEPT ![r].state = "completed"]
    /\ UNCHANGED <<projects, dropped, favorites, req, shown>>

(* By its owner or an admin; ON DELETE CASCADE removes the favourites.     *)
(* The owner is read in a statement before, and never changes.             *)
DeleteRecord(r) ==
    /\ Exists(r)
    /\ records' = [records EXCEPT ![r] =
                     [NoRow EXCEPT !.state = "deleted", !.user = records[r].user]]
    /\ favorites' = {f \in favorites : f[2] # r}
    /\ UNCHANGED <<projects, dropped, req, shown>>

Arrive(q, u) ==
    /\ \/ Begin(q, "create", u, NoRecord)
       \/ \E r \in Records : Begin(q, "favorite", u, r)
    /\ UNCHANGED <<records, projects, dropped, favorites, shown>>

CreateStep(q) ==
    Create(q) \/ (\E r \in Records : CreateInsert(q, r)) \/ CreateReply(q)

UpdateStep(q) ==
    \/ FavoriteRead(q) \/ OwnFavorite(q) \/ OtherFavorite(q) \/ UpdatePublic(q)
    \/ UpdateProjectCheck(q) \/ UpdateProject(q) \/ UpdateReply(q)

Next ==
    \/ \E q \in Requests :
         \/ \E u \in Users : Arrive(q, u)
         \/ CreateStep(q) \/ UpdateStep(q) \/ StatementFails(q)
    \/ \E p \in Projects : DeleteProject(p) \/ \E u \in Users : CreateProject(u, p)
    \/ \E r \in Records : Complete(r) \/ DeleteRecord(r)

Spec == Init /\ [][Next]_vars

-----------------------------------------------------------------------------
(* Types of the three tables and of the requests. *)
TypeOK ==
    /\ records \in [Records -> Row]
    /\ projects \in [Projects -> Users \cup {NoUser}]
    /\ dropped \subseteq Projects
    /\ favorites \subseteq Users \X Records
    /\ req \in [Requests -> Request]
    /\ shown \subseteq Records

(***************************************************************************)
(* A record's project exists and belongs to the record's owner.  The       *)
(* database only knows that it exists: ownership is tested by Create and   *)
(* Update one statement before the write, while the project may be deleted *)
(* and another created in between.                                         *)
(***************************************************************************)
ProjectOwned ==
    \A r \in Records : records[r].project # NoProject =>
        Exists(r) /\ projects[records[r].project] = records[r].user

(***************************************************************************)
(* A row of record_favorites is of another user's record that exists and   *)
(* was public at some time.  UpdateFavorite tests this on a row it read    *)
(* before the insert, so the record need not be public any more.           *)
(***************************************************************************)
FavoritesOfShared ==
    \A f \in favorites :
        Exists(f[2]) /\ records[f[2]].user # f[1] /\ f[2] \in shown

(***************************************************************************)
(* A PATCH that is answered 200 has done every part of its body, and its   *)
(* caller owns the record: nobody else is sent the full RecordDTO, with    *)
(* its private prompt and upstream error.  The parts are written one after *)
(* another and nothing is rolled back, so a refused PATCH may have done    *)
(* earlier parts; it leaves undone the part that was refused and all that  *)
(* come after it, and nothing else.                                        *)
(***************************************************************************)
PatchAllOrPrefix ==
    \A q \in Requests :
      /\ req[q].code = 200 =>
           req[q].wrote = req[q].asked /\ records[req[q].id].user = req[q].user
      /\ \A part \in req[q].asked \ req[q].wrote :
           /\ req[q].asked \ req[q].wrote = {part}
           /\ part = "favorite" => req[q].wrote = {}
           /\ part = "public" => req[q].wrote \subseteq {"favorite"}

(***************************************************************************)
(* A PATCH of somebody else's record changes nothing of the record, not    *)
(* even the author's favourite mark, whatever fields it carries: while a   *)
(* request of a stranger moves, the tables records and projects stay.      *)
(***************************************************************************)
StrangersLeaveRecords ==
    [][\A q \in Requests :
         /\ req'[q] # req[q]
         /\ req[q].id # NoRecord /\ records[req[q].id].user # req[q].user
         => UNCHANGED <<records, projects>>]_vars

(***************************************************************************)
(* What docs/api.md says of PATCH: for another user's public picture,      *)
(* favorite writes the caller's favourite.  A caller whose favourite was   *)
(* written is not told that the request failed when every statement of it  *)
(* succeeded.                                                              *)
(***************************************************************************)
FavoriteOfOthersSucceeds ==
    [][\A q \in Requests :
         /\ req[q].at = "reply" /\ <<req[q].user, req[q].id>> \in favorites
         /\ UpdateReply(q)
         => req'[q].code = 200]_vars
=============================================================================
