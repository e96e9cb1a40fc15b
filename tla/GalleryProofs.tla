---------------------------- MODULE GalleryProofs ----------------------------
(***************************************************************************)
(* Proofs about the pictures of users and the lists that show them: first  *)
(* about Gallery, for any number of users, records, projects and requests  *)
(* in flight, then about RecordList, for lists of any length that change   *)
(* in any way while they are read, and any page sizes.                     *)
(***************************************************************************)
EXTENDS Gallery, RecordList, FiniteSetTheorems, TLAPS

(* The parts of a PATCH that a request x has found and written, by the     *)
(* statement it executes next.                                             *)
PartsInOrder(x) ==
    /\ x.at \in {"create", "insert", "created", "favorite"} => x.asked = {} /\ x.wrote = {}
    /\ x.at \in {"ownFavorite", "otherFavorite"} => x.asked = {"favorite"} /\ x.wrote = {}
    /\ x.at = "public" => x.asked = x.wrote /\ x.wrote \subseteq {"favorite"}
    /\ x.at = "project" => x.asked = x.wrote /\ x.wrote \subseteq {"favorite", "public"}
    /\ x.at = "setProject" =>
         x.asked = x.wrote \cup {"project"} /\ x.wrote \subseteq {"favorite", "public"}
    /\ x.at = "reply" => x.asked = x.wrote
    /\ \A part \in x.asked \ x.wrote :
         /\ x.asked \ x.wrote = {part}
         /\ part = "favorite" => x.wrote = {}
         /\ part = "public" => x.wrote \subseteq {"favorite"}

(***************************************************************************)
(* What a request x still relies on of the tables, read in an earlier      *)
(* statement: a project it has checked is its user's, or was dropped since *)
(* and its id is not used again; a record it found shared was shared, and  *)
(* belongs to somebody else; one it was answered for is its user's.        *)
(***************************************************************************)
Linked(x, recs, projs, drops, shared) ==
    /\ x.at # "idle" => x.user \in Users /\ x.code = 0
    /\ x.at \in {"create", "insert"} => x.id = NoRecord
    /\ x.at \notin {"idle", "create", "insert"} => x.id \in Records
    /\ x.at = "otherFavorite" =>
         recs[x.id].state # "absent" /\ recs[x.id].user # x.user /\ x.id \in shared
    /\ x.project # NoProject =>
         x.at # "idle" /\ (projs[x.project] = x.user \/ x.project \in drops)
    /\ x.code = 200 =>
         /\ x.asked = x.wrote
         /\ x.id \in Records /\ recs[x.id].state # "absent" /\ recs[x.id].user = x.user
    /\ PartsInOrder(x)

RequestsLinked == \A q \in Requests : Linked(req[q], records, projects, dropped, shown)

(* A record that exists has an owner and is public only if it was shared;  *)
(* a dropped project is gone.                                              *)
TablesKnown ==
    /\ \A r \in Records : Exists(r) => records[r].user \in Users
    /\ \A r \in Records : records[r].public => r \in shown
    /\ \A p \in dropped : projects[p] = NoUser

Inv ==
    /\ TypeOK
    /\ ProjectOwned
    /\ FavoritesOfShared
    /\ TablesKnown
    /\ RequestsLinked

tables == <<records, projects, dropped, favorites, shown>>

-----------------------------------------------------------------------------
LEMMA NoRequestFacts ==
    NoRequest \in Request /\ \A recs, projs, drops, shared :
                               Linked(NoRequest, recs, projs, drops, shared)
BY DEF NoRequest, Request, Stages, Codes, Parts, Linked, PartsInOrder

LEMMA NoRowFacts == NoRow \in Row
BY DEF NoRow, Row

LEMMA InitInv == Init => Inv
<1> SUFFICES ASSUME Init PROVE Inv
  OBVIOUS
<1>1. TypeOK
  BY NoRequestFacts, NoRowFacts DEF Init, TypeOK
<1>2. ProjectOwned /\ FavoritesOfShared /\ TablesKnown
  BY DEF Init, NoRow, ProjectOwned, FavoritesOfShared, TablesKnown, Exists
<1>3. RequestsLinked
  BY NoRequestFacts DEF Init, RequestsLinked
<1> QED
  BY <1>1, <1>2, <1>3 DEF Inv

(* Request y is x at another stage, as far as the proof looks at it. *)
Becomes(x, y, stage, project, code, asked, wrote) ==
    /\ y.at = stage /\ y.user = x.user /\ y.id = x.id
    /\ y.project = project /\ y.code = code /\ y.asked = asked /\ y.wrote = wrote

(* What the updates of a request do to its fields. *)
LEMMA ArrivedFacts ==
    ASSUME NEW stage \in Stages, NEW u \in Users, NEW r \in Records \cup {NoRecord}
    PROVE  LET y == Arrived(stage, u, r) IN
             /\ y \in Request
             /\ y.at = stage /\ y.user = u /\ y.id = r
             /\ y.project = NoProject /\ y.code = 0 /\ y.asked = {} /\ y.wrote = {}
<1>1. 0 \in Codes
  BY DEF Codes
<1> QED
  BY <1>1 DEF Arrived, NoRequest, Request

LEMMA ToFacts ==
    ASSUME NEW x \in Request, NEW stage \in Stages
    PROVE  /\ To(x, stage) \in Request
           /\ Becomes(x, To(x, stage), stage, x.project, x.code, x.asked, x.wrote)
BY DEF To, Request, Becomes

LEMMA WithProjectFacts ==
    ASSUME NEW x \in Request, NEW stage \in Stages, NEW p \in Projects
    PROVE  /\ WithProject(x, stage, p) \in Request
           /\ Becomes(x, WithProject(x, stage, p), stage, p, x.code, x.asked, x.wrote)
BY DEF WithProject, Request, Becomes

LEMMA InsertedFacts ==
    ASSUME NEW x \in Request, NEW r \in Records
    PROVE  LET y == Inserted(x, r) IN
             /\ y \in Request
             /\ y.at = "created" /\ y.user = x.user /\ y.id = r
             /\ y.project = NoProject /\ y.code = x.code
             /\ y.asked = x.asked /\ y.wrote = x.wrote
<1>1. "created" \in Stages
  BY DEF Stages
<1> QED
  BY <1>1 DEF Inserted, Request

LEMMA FoundFacts ==
    ASSUME NEW x \in Request, NEW stage \in Stages, NEW part \in Parts
    PROVE  /\ Found(x, part, stage) \in Request
           /\ Becomes(x, Found(x, part, stage), stage, x.project, x.code,
                      x.asked \cup {part}, x.wrote)
BY DEF Found, Request, Becomes

LEMMA FoundFavoriteFacts ==
    ASSUME NEW x \in Request, NEW stage \in Stages, NEW value \in BOOLEAN
    PROVE  /\ FoundFavorite(x, stage, value) \in Request
           /\ Becomes(x, FoundFavorite(x, stage, value), stage, x.project, x.code,
                      x.asked \cup {"favorite"}, x.wrote)
<1>1. "favorite" \in Parts
  BY DEF Parts
<1> QED
  BY <1>1 DEF FoundFavorite, Request, Becomes

LEMMA WrittenFacts ==
    ASSUME NEW x \in Request, NEW stage \in Stages, NEW part \in Parts
    PROVE  /\ Written(x, part, stage) \in Request
           /\ Becomes(x, Written(x, part, stage), stage, NoProject, x.code,
                      x.asked \cup {part}, x.wrote \cup {part})
BY DEF Written, Request, Becomes

LEMMA AnsweredFacts ==
    ASSUME NEW x \in Request, NEW code \in Codes
    PROVE  /\ Answered(x, code) \in Request
           /\ Becomes(x, Answered(x, code), "idle", NoProject, code, x.asked, x.wrote)
<1>1. "idle" \in Stages
  BY DEF Stages
<1> QED
  BY <1>1 DEF Answered, Request, Becomes

LEMMA RefusedFacts ==
    ASSUME NEW x \in Request, NEW code \in Codes, NEW part \in Parts
    PROVE  /\ Refused(x, part, code) \in Request
           /\ Becomes(x, Refused(x, part, code), "idle", NoProject, code,
                      x.asked \cup {part}, x.wrote)
<1>1. "idle" \in Stages
  BY DEF Stages
<1> QED
  BY <1>1 DEF Refused, Request, Becomes

(* What requests rely on survives every change of the tables. *)
LEMMA LinkedStable ==
    ASSUME NEW x \in Request,
           NEW recs, NEW recs2, NEW projs, NEW projs2,
           NEW drops, NEW drops2, NEW shared, NEW shared2,
           \A r \in Records : recs[r].state # "absent" =>
               recs2[r].state # "absent" /\ recs2[r].user = recs[r].user,
           \A p \in Projects : projs[p] \in Users =>
               projs2[p] = projs[p] \/ p \in drops2,
           drops \subseteq drops2, shared \subseteq shared2,
           Linked(x, recs, projs, drops, shared)
    PROVE  Linked(x, recs2, projs2, drops2, shared2)
<1>1. x.project # NoProject => x.project \in Projects /\ x.user \in Users
  BY DEF Linked, Request
<1>2. x.project # NoProject => projs2[x.project] = x.user \/ x.project \in drops2
  BY <1>1 DEF Linked
<1> QED
  BY <1>2 DEF Linked

(* A request moves and the tables stay. *)
LEMMA MoveInv ==
    ASSUME Inv, NEW q \in Requests, NEW y \in Request,
           req' = [req EXCEPT ![q] = y],
           Linked(y, records, projects, dropped, shown),
           UNCHANGED tables
    PROVE  Inv'
<1>1. TypeOK'
  BY DEF Inv, TypeOK, tables
<1>2. ProjectOwned' /\ FavoritesOfShared' /\ TablesKnown'
  BY DEF Inv, tables, ProjectOwned, FavoritesOfShared, TablesKnown, Exists
<1>3. RequestsLinked'
  <2>1. \A p \in Requests : req'[p] = IF p = q THEN y ELSE req[p]
    BY DEF Inv, TypeOK
  <2>2. \A p \in Requests : Linked(req'[p], records, projects, dropped, shown)
    BY <2>1 DEF Inv, RequestsLinked
  <2> QED
    BY <2>2 DEF RequestsLinked, tables
<1> QED
  BY <1>1, <1>2, <1>3 DEF Inv

(* The tables change; a request stays, or moves to what the new tables     *)
(* bear out.                                                               *)
LEMMA TablesInv ==
    ASSUME Inv, TypeOK', ProjectOwned', FavoritesOfShared', TablesKnown',
           \A q \in Requests :
               req'[q] = req[q] \/ Linked(req'[q], records', projects', dropped', shown'),
           \A r \in Records : records[r].state # "absent" =>
               records'[r].state # "absent" /\ records'[r].user = records[r].user,
           \A p \in Projects : projects[p] \in Users =>
               projects'[p] = projects[p] \/ p \in dropped',
           dropped \subseteq dropped', shown \subseteq shown'
    PROVE  Inv'
<1>1. \A q \in Requests : Linked(req'[q], records', projects', dropped', shown')
  <2> SUFFICES ASSUME NEW q \in Requests, req'[q] = req[q]
               PROVE  Linked(req[q], records', projects', dropped', shown')
    OBVIOUS
  <2>1. req[q] \in Request /\ Linked(req[q], records, projects, dropped, shown)
    BY DEF Inv, TypeOK, RequestsLinked
  <2> QED
    BY <2>1, LinkedStable
<1> QED
  BY <1>1 DEF Inv, RequestsLinked

-----------------------------------------------------------------------------
(* The updates that a request may make in any stage keep what it relies on. *)

(* It is answered: anything but 200. *)
LEMMA AnswerInv ==
    ASSUME Inv, NEW q \in Requests, NEW code \in Codes, code # 200,
           Answer(q, code), UNCHANGED tables
    PROVE  Inv'
<1> DEFINE x == req[q]
           y == Answered(x, code)
<1>1. /\ x \in Request /\ Linked(x, records, projects, dropped, shown)
      /\ req' = [req EXCEPT ![q] = y]
  BY DEF Inv, TypeOK, RequestsLinked, Answer
<1> HIDE DEF x
<1>2. y \in Request /\ Becomes(x, y, "idle", NoProject, code, x.asked, x.wrote)
  BY <1>1, AnsweredFacts
<1> HIDE DEF y
<1>3. PartsInOrder(y)
  BY <1>1, <1>2 DEF Becomes, Linked, PartsInOrder
<1>4. Linked(y, records, projects, dropped, shown)
  BY <1>2, <1>3 DEF Becomes, Linked
<1> QED
  BY <1>1, <1>2, <1>4, MoveInv

(* It is refused at a part, with nothing of that part or later parts done. *)
LEMMA RefuseInv ==
    ASSUME Inv, NEW q \in Requests, NEW code \in Codes, code # 200, NEW part \in Parts,
           req[q].at = part, Refuse(q, part, code), UNCHANGED tables
    PROVE  Inv'
<1> DEFINE x == req[q]
           y == Refused(x, part, code)
<1>1. /\ x \in Request /\ PartsInOrder(x) /\ x.at = part
      /\ req' = [req EXCEPT ![q] = y]
  BY DEF Inv, TypeOK, RequestsLinked, Linked, Refuse
<1> HIDE DEF x
<1>2. y \in Request /\ Becomes(x, y, "idle", NoProject, code, x.asked \cup {part}, x.wrote)
  BY <1>1, RefusedFacts
<1> HIDE DEF y
<1>3. PartsInOrder(y)
  <2>1. /\ x.asked = x.wrote
        /\ part = "favorite" => x.wrote = {}
        /\ part = "public" => x.wrote \subseteq {"favorite"}
        /\ part = "project" => x.wrote \subseteq {"favorite", "public"}
    BY <1>1 DEF PartsInOrder, Parts
  <2>2. part \notin x.wrote
    BY <2>1 DEF Parts
  <2>3. y.asked \ y.wrote = {part}
    BY <1>2, <2>1, <2>2 DEF Becomes
  <2> QED
    BY <1>2, <2>1, <2>3 DEF Becomes, PartsInOrder
<1>4. Linked(y, records, projects, dropped, shown)
  BY <1>2, <1>3 DEF Becomes, Linked
<1> QED
  BY <1>1, <1>2, <1>4, MoveInv

(* Its body lacks the field it looks for. *)
LEMMA GoToInv ==
    ASSUME Inv, NEW q \in Requests, NEW stage,
           <<req[q].at, stage>> \in {<<"create", "insert">>, <<"favorite", "public">>,
                                     <<"public", "project">>, <<"project", "reply">>},
           GoTo(q, stage), UNCHANGED tables
    PROVE  Inv'
<1> DEFINE x == req[q]
           y == To(x, stage)
<1>1. /\ x \in Request /\ Linked(x, records, projects, dropped, shown)
      /\ req' = [req EXCEPT ![q] = y]
      /\ <<x.at, stage>> \in {<<"create", "insert">>, <<"favorite", "public">>,
                              <<"public", "project">>, <<"project", "reply">>}
  BY DEF Inv, TypeOK, RequestsLinked, GoTo
<1> HIDE DEF x
<1>2. stage \in Stages
  BY <1>1 DEF Stages
<1>3. y \in Request /\ Becomes(x, y, stage, x.project, x.code, x.asked, x.wrote)
  BY <1>1, <1>2, ToFacts
<1> HIDE DEF y
<1>4. PartsInOrder(y)
  BY <1>1, <1>3 DEF Becomes, Linked, PartsInOrder
<1>5. Linked(y, records, projects, dropped, shown)
  BY <1>1, <1>3, <1>4 DEF Becomes, Linked
<1> QED
  BY <1>1, <1>3, <1>5, MoveInv

-----------------------------------------------------------------------------
(* The steps of one request that leave the tables alone. *)

LEMMA ArriveInv ==
    ASSUME Inv, NEW q \in Requests, NEW u \in Users, Arrive(q, u)
    PROVE  Inv'
<1>1. PICK stage \in {"create", "favorite"}, r \in Records \cup {NoRecord} :
        /\ stage = "create" => r = NoRecord
        /\ stage = "favorite" => r \in Records
        /\ Begin(q, stage, u, r)
  BY DEF Arrive
<1> DEFINE y == Arrived(stage, u, r)
<1>2. stage \in Stages
  BY DEF Stages
<1>3. /\ y \in Request /\ y.at = stage /\ y.user = u /\ y.id = r
      /\ y.project = NoProject /\ y.code = 0 /\ y.asked = {} /\ y.wrote = {}
  BY <1>2, ArrivedFacts
<1>4. req' = [req EXCEPT ![q] = y] /\ UNCHANGED tables
  BY <1>1 DEF Begin, Arrive, tables
<1> HIDE DEF y
<1>5. Linked(y, records, projects, dropped, shown)
  BY <1>1, <1>3 DEF Linked, PartsInOrder
<1> QED
  BY <1>3, <1>4, <1>5, MoveInv

LEMMA CreateInv ==
    ASSUME Inv, NEW q \in Requests, Create(q) PROVE Inv'
<1>1. req[q].at = "create" /\ UNCHANGED tables /\ {404, 422} \subseteq Codes
  BY DEF Create, tables, Codes
<1>2. CASE GoTo(q, "insert")
  BY <1>1, <1>2, GoToInv
<1>3. ASSUME NEW p \in Projects, FindProject(p, req[q].user),
             req' = [req EXCEPT ![q] = WithProject(req[q], "insert", p)]
      PROVE  Inv'
  <2> DEFINE x == req[q]
             y == WithProject(x, "insert", p)
  <2>1. /\ x \in Request /\ Linked(x, records, projects, dropped, shown)
        /\ x.at = "create" /\ projects[p] = x.user
        /\ req' = [req EXCEPT ![q] = y]
    BY <1>1, <1>3 DEF Inv, TypeOK, RequestsLinked, FindProject
  <2> HIDE DEF x
  <2>2. "insert" \in Stages
    BY DEF Stages
  <2>3. y \in Request /\ Becomes(x, y, "insert", p, x.code, x.asked, x.wrote)
    BY <2>1, <2>2, WithProjectFacts
  <2> HIDE DEF y
  <2>4. PartsInOrder(y)
    BY <2>1, <2>3 DEF Becomes, Linked, PartsInOrder
  <2>5. Linked(y, records, projects, dropped, shown)
    BY <2>1, <2>3, <2>4 DEF Becomes, Linked
  <2> QED
    BY <1>1, <2>1, <2>3, <2>5, MoveInv
<1>4. CASE Answer(q, 404) \/ Answer(q, 422)
  BY <1>1, <1>4, AnswerInv
<1> QED
  BY <1>2, <1>3, <1>4 DEF Create

LEMMA CreateReplyInv ==
    ASSUME Inv, NEW q \in Requests, CreateReply(q) PROVE Inv'
<1>1. UNCHANGED tables /\ {201, 500} \subseteq Codes
  BY DEF CreateReply, tables, Codes
<1>2. Answer(q, 201) \/ Answer(q, 500)
  BY DEF CreateReply
<1> QED
  BY <1>1, <1>2, AnswerInv

LEMMA FavoriteReadInv ==
    ASSUME Inv, NEW q \in Requests, FavoriteRead(q) PROVE Inv'
<1>1. /\ req[q].at = "favorite" /\ UNCHANGED tables
      /\ 404 \in Codes /\ "favorite" \in Parts
  BY DEF FavoriteRead, tables, Codes, Parts
<1>2. CASE GoTo(q, "public")
  BY <1>1, <1>2, GoToInv
<1>3. CASE Refuse(q, "favorite", 404)
  BY <1>1, <1>3, RefuseInv
<1>4. ASSUME NEW stage \in {"ownFavorite", "otherFavorite"}, FavoriteTo(q, stage),
             stage = "otherFavorite" =>
               ~FindByID(req[q].id, req[q].user) /\ Visible(req[q].id)
      PROVE  Inv'
  <2>1. PICK value \in BOOLEAN :
          req' = [req EXCEPT ![q] = FoundFavorite(req[q], stage, value)]
    BY <1>4 DEF FavoriteTo
  <2> DEFINE x == req[q]
             y == FoundFavorite(x, stage, value)
  <2>2. /\ x \in Request /\ Linked(x, records, projects, dropped, shown)
        /\ x.at = "favorite" /\ x.id \in Records
        /\ req' = [req EXCEPT ![q] = y]
    BY <1>1, <2>1 DEF Inv, TypeOK, RequestsLinked, Linked
  <2>3. stage = "otherFavorite" =>
          /\ records[x.id].state # "absent" /\ records[x.id].user # x.user
          /\ x.id \in shown
    BY <1>4, <2>2 DEF Inv, TablesKnown, Visible, FindByID, Exists
  <2> HIDE DEF x
  <2>4. stage \in Stages
    BY DEF Stages
  <2>5. y \in Request /\ Becomes(x, y, stage, x.project, x.code,
                                 x.asked \cup {"favorite"}, x.wrote)
    BY <2>2, <2>4, FoundFavoriteFacts
  <2> HIDE DEF y
  <2>6. y.asked = {"favorite"} /\ y.wrote = {}
    BY <2>2, <2>5 DEF Becomes, Linked, PartsInOrder
  <2>7. PartsInOrder(y)
    BY <2>5, <2>6 DEF Becomes, PartsInOrder
  <2>8. Linked(y, records, projects, dropped, shown)
    BY <2>2, <2>3, <2>5, <2>7 DEF Becomes, Linked
  <2> QED
    BY <1>1, <2>2, <2>5, <2>8, MoveInv
<1> QED
  BY <1>2, <1>3, <1>4 DEF FavoriteRead

LEMMA UpdateProjectCheckInv ==
    ASSUME Inv, NEW q \in Requests, UpdateProjectCheck(q) PROVE Inv'
<1>1. /\ req[q].at = "project" /\ UNCHANGED tables
      /\ {404, 422} \subseteq Codes /\ "project" \in Parts /\ "setProject" \in Stages
  BY DEF UpdateProjectCheck, tables, Codes, Parts, Stages
<1>2. CASE GoTo(q, "reply")
  BY <1>1, <1>2, GoToInv
<1>3. CASE Refuse(q, "project", 422) \/ Refuse(q, "project", 404)
  BY <1>1, <1>3, RefuseInv
<1> DEFINE x == req[q]
           y == Found(x, "project", "setProject")
<1>4. /\ x \in Request /\ Linked(x, records, projects, dropped, shown) /\ x.at = "project"
  BY <1>1 DEF Inv, TypeOK, RequestsLinked
<1>5. /\ Find(q, "project", "setProject") => req' = [req EXCEPT ![q] = y]
      /\ \A p \in Projects : FindProject(p, req[q].user) => projects[p] = x.user
  BY DEF Find, FindProject
<1> HIDE DEF x
<1>6. /\ y \in Request
      /\ Becomes(x, y, "setProject", x.project, x.code, x.asked \cup {"project"}, x.wrote)
  BY <1>1, <1>4, FoundFacts
<1> HIDE DEF y
<1>7. PartsInOrder(y)
  BY <1>4, <1>6 DEF Becomes, Linked, PartsInOrder
<1>8. Linked(y, records, projects, dropped, shown)
  BY <1>4, <1>6, <1>7 DEF Becomes, Linked
<1>9. CASE Find(q, "project", "setProject")
  BY <1>1, <1>5, <1>6, <1>8, <1>9, MoveInv
<1>10. ASSUME NEW p \in Projects, FindProject(p, req[q].user),
              req' = [req EXCEPT ![q] = WithProject(y, "setProject", p)]
       PROVE  Inv'
  <2> DEFINE z == WithProject(y, "setProject", p)
  <2>1. z \in Request /\ Becomes(y, z, "setProject", p, y.code, y.asked, y.wrote)
    BY <1>1, <1>6, WithProjectFacts
  <2>2. req' = [req EXCEPT ![q] = z]
    BY <1>10
  <2> HIDE DEF z
  <2>3. PartsInOrder(z)
    BY <1>6, <1>7, <2>1 DEF Becomes, PartsInOrder
  <2>4. projects[p] = y.user
    BY <1>5, <1>6, <1>10 DEF Becomes
  <2>5. Linked(z, records, projects, dropped, shown)
    BY <1>6, <1>8, <2>1, <2>3, <2>4 DEF Becomes, Linked
  <2> QED
    BY <1>1, <2>1, <2>2, <2>5, MoveInv
<1> QED
  BY <1>2, <1>3, <1>9, <1>10 DEF UpdateProjectCheck, x, y

(* Only here is a request answered 200: at "reply" every part found has    *)
(* been written, and the row was read back as the caller's own.            *)
LEMMA UpdateReplyInv ==
    ASSUME Inv, NEW q \in Requests, UpdateReply(q) PROVE Inv'
<1>1. req[q].at = "reply" /\ UNCHANGED tables /\ {200, 500} \subseteq Codes
  BY DEF UpdateReply, tables, Codes
<1>2. CASE Answer(q, 500)
  BY <1>1, <1>2, AnswerInv
<1>3. CASE Answer(q, 200) /\ FindByID(req[q].id, req[q].user)
  <2> DEFINE x == req[q]
             y == Answered(x, 200)
  <2>1. /\ x \in Request /\ Linked(x, records, projects, dropped, shown)
        /\ x.at = "reply" /\ x.id \in Records
        /\ records[x.id].state # "absent" /\ records[x.id].user = x.user
        /\ req' = [req EXCEPT ![q] = y]
    BY <1>1, <1>3 DEF Inv, TypeOK, RequestsLinked, Linked, Answer, FindByID, Exists
  <2> HIDE DEF x
  <2>2. y \in Request /\ Becomes(x, y, "idle", NoProject, 200, x.asked, x.wrote)
    BY <1>1, <2>1, AnsweredFacts
  <2> HIDE DEF y
  <2>3. PartsInOrder(y) /\ y.asked = y.wrote
    BY <2>1, <2>2 DEF Becomes, Linked, PartsInOrder
  <2>4. Linked(y, records, projects, dropped, shown)
    BY <2>1, <2>2, <2>3 DEF Becomes, Linked
  <2> QED
    BY <1>1, <2>1, <2>2, <2>4, MoveInv
<1> QED
  BY <1>2, <1>3 DEF UpdateReply

LEMMA StatementFailsInv ==
    ASSUME Inv, NEW q \in Requests, StatementFails(q) PROVE Inv'
<1>1. UNCHANGED tables /\ 500 \in Codes /\ {"favorite", "public"} \subseteq Parts
  BY DEF StatementFails, tables, Codes, Parts
<1>2. CASE Answer(q, 500)
  BY <1>1, <1>2, AnswerInv
<1>3. ASSUME NEW part \in {"favorite", "public"}, req[q].at = part, Refuse(q, part, 500)
      PROVE  Inv'
  BY <1>1, <1>3, RefuseInv
<1> QED
  BY <1>2, <1>3 DEF StatementFails

-----------------------------------------------------------------------------
(* The steps that write the tables. *)

(* A part is written: the request relies on nothing it read before. *)
LEMMA WrittenLinked ==
    ASSUME NEW x \in Request, Linked(x, records, projects, dropped, shown),
           NEW part, NEW stage,
           <<x.at, part, stage>> \in
             {<<"ownFavorite", "favorite", "public">>,
              <<"otherFavorite", "favorite", "public">>,
              <<"public", "public", "project">>, <<"setProject", "project", "reply">>}
    PROVE  /\ Written(x, part, stage) \in Request
           /\ \A recs, projs, drops, shared :
                Linked(Written(x, part, stage), recs, projs, drops, shared)
<1> DEFINE y == Written(x, part, stage)
<1>1. part \in Parts /\ stage \in Stages
  BY DEF Parts, Stages
<1>2. y \in Request /\ Becomes(x, y, stage, NoProject, x.code,
                               x.asked \cup {part}, x.wrote \cup {part})
  BY <1>1, WrittenFacts
<1> HIDE DEF y
<1>3. y.asked = y.wrote /\ PartsInOrder(y)
  BY <1>2 DEF Becomes, Linked, PartsInOrder
<1>4. ASSUME NEW recs, NEW projs, NEW drops, NEW shared
      PROVE  Linked(y, recs, projs, drops, shared)
  BY <1>2, <1>3 DEF Becomes, Linked
<1> QED
  BY <1>2, <1>4 DEF y

LEMMA OwnFavoriteInv ==
    ASSUME Inv, NEW q \in Requests, OwnFavorite(q) PROVE Inv'
<1> DEFINE x == req[q]
           y == Written(x, "favorite", "public")
<1>1. /\ x \in Request /\ Linked(x, records, projects, dropped, shown)
      /\ x.at = "ownFavorite" /\ x.id \in Records /\ x.value \in BOOLEAN
  BY DEF Inv, TypeOK, RequestsLinked, Linked, OwnFavorite, Request
<1>2. CASE Answer(q, 404) /\ UNCHANGED records
  BY <1>2, AnswerInv DEF OwnFavorite, tables, Codes
<1>3. CASE /\ FindByID(x.id, x.user)
           /\ records' = [records EXCEPT ![x.id].favorite = x.value]
           /\ req' = [req EXCEPT ![q] = y]
  <2>1. UNCHANGED <<projects, dropped, favorites, shown>>
    BY DEF OwnFavorite
  <2>2. /\ records' \in [Records -> Row]
        /\ \A r \in Records : /\ records'[r].state = records[r].state
                              /\ records'[r].user = records[r].user
                              /\ records'[r].public = records[r].public
                              /\ records'[r].project = records[r].project
    BY <1>1, <1>3 DEF Inv, TypeOK, Row
  <2> HIDE DEF x
  <2>3. y \in Request /\ Linked(y, records', projects', dropped', shown')
    BY <1>1, WrittenLinked
  <2> HIDE DEF y
  <2>4. /\ req' \in [Requests -> Request]
        /\ \A p \in Requests : req'[p] = req[p] \/ req'[p] = y
    BY <1>3, <2>3 DEF Inv, TypeOK
  <2>5. TypeOK'
    BY <2>1, <2>2, <2>4 DEF Inv, TypeOK
  <2>6. ProjectOwned' /\ FavoritesOfShared' /\ TablesKnown'
    BY <2>1, <2>2 DEF Inv, TypeOK, ProjectOwned, FavoritesOfShared, TablesKnown, Exists
  <2> QED
    BY <2>1, <2>2, <2>3, <2>4, <2>5, <2>6, TablesInv
<1> QED
  BY <1>2, <1>3 DEF OwnFavorite, Done

LEMMA OtherFavoriteInv ==
    ASSUME Inv, NEW q \in Requests, OtherFavorite(q) PROVE Inv'
<1> DEFINE x == req[q]
           y == Written(x, "favorite", "public")
           pair == <<x.user, x.id>>
<1>1. /\ x \in Request /\ Linked(x, records, projects, dropped, shown)
      /\ x.at = "otherFavorite" /\ x.id \in Records /\ x.user \in Users
      /\ records[x.id].user # x.user /\ x.id \in shown
  BY DEF Inv, TypeOK, RequestsLinked, Linked, OtherFavorite
<1>2. CASE Answer(q, 500) /\ UNCHANGED favorites
  BY <1>2, AnswerInv DEF OtherFavorite, tables, Codes
<1>3. CASE /\ x.value => Exists(x.id)
           /\ favorites' = IF x.value THEN favorites \cup {pair} ELSE favorites \ {pair}
           /\ req' = [req EXCEPT ![q] = y]
  <2>1. UNCHANGED <<records, projects, dropped, shown>>
    BY DEF OtherFavorite
  <2>2. pair \in Users \X Records /\ pair[1] = x.user /\ pair[2] = x.id
    BY <1>1
  <2>3. \A f \in favorites' : f \in favorites \/ (f = pair /\ Exists(x.id))
    BY <1>3
  <2> HIDE DEF x, pair
  <2>4. y \in Request /\ Linked(y, records', projects', dropped', shown')
    BY <1>1, WrittenLinked
  <2> HIDE DEF y
  <2>5. /\ req' \in [Requests -> Request]
        /\ \A p \in Requests : req'[p] = req[p] \/ req'[p] = y
    BY <1>3, <2>4 DEF Inv, TypeOK
  <2>6. TypeOK'
    BY <2>1, <2>2, <2>3, <2>5 DEF Inv, TypeOK
  <2>7. ProjectOwned' /\ TablesKnown'
    BY <2>1 DEF Inv, ProjectOwned, TablesKnown, Exists
  <2>8. FavoritesOfShared'
    BY <1>1, <2>1, <2>2, <2>3 DEF Inv, FavoritesOfShared, Exists
  <2> QED
    BY <2>1, <2>4, <2>5, <2>6, <2>7, <2>8, TablesInv
<1> QED
  BY <1>2, <1>3 DEF OtherFavorite, Done

LEMMA UpdatePublicInv ==
    ASSUME Inv, NEW q \in Requests, UpdatePublic(q) PROVE Inv'
<1> DEFINE x == req[q]
           y == Written(x, "public", "project")
<1>1. /\ x \in Request /\ Linked(x, records, projects, dropped, shown)
      /\ x.at = "public" /\ x.id \in Records
  BY DEF Inv, TypeOK, RequestsLinked, Linked, UpdatePublic
<1>2. CASE GoTo(q, "project") /\ UNCHANGED <<records, shown>>
  BY <1>1, <1>2, GoToInv DEF UpdatePublic, tables
<1>3. CASE Refuse(q, "public", 409) /\ UNCHANGED <<records, shown>>
  BY <1>1, <1>3, RefuseInv DEF UpdatePublic, tables, Codes, Parts
<1>4. ASSUME FindByID(x.id, x.user), NEW isPublic \in BOOLEAN, Publish(q, isPublic)
      PROVE  Inv'
  <2>1. UNCHANGED <<projects, dropped, favorites>>
    BY DEF UpdatePublic
  <2>2. /\ records' = [records EXCEPT ![x.id].public = isPublic]
        /\ shown' = IF isPublic THEN shown \cup {x.id} ELSE shown
        /\ req' = [req EXCEPT ![q] = y]
    BY <1>4 DEF Publish, Done
  <2>3. /\ records' \in [Records -> Row]
        /\ \A r \in Records : /\ records'[r].state = records[r].state
                              /\ records'[r].user = records[r].user
                              /\ records'[r].project = records[r].project
                              /\ r # x.id => records'[r].public = records[r].public
        /\ records'[x.id].public = isPublic
    BY <1>1, <2>2 DEF Inv, TypeOK, Row
  <2> HIDE DEF x
  <2>4. y \in Request /\ Linked(y, records', projects', dropped', shown')
    BY <1>1, WrittenLinked
  <2> HIDE DEF y
  <2>5. /\ req' \in [Requests -> Request]
        /\ \A p \in Requests : req'[p] = req[p] \/ req'[p] = y
    BY <2>2, <2>4 DEF Inv, TypeOK
  <2>6. shown \subseteq shown' /\ shown' \subseteq Records /\ (isPublic => x.id \in shown')
    BY <1>1, <2>2 DEF Inv, TypeOK
  <2>7. TypeOK'
    BY <2>1, <2>3, <2>5, <2>6 DEF Inv, TypeOK
  <2>8. ProjectOwned' /\ FavoritesOfShared'
    BY <2>1, <2>3, <2>6 DEF Inv, TypeOK, ProjectOwned, FavoritesOfShared, Exists
  <2>9. TablesKnown'
    BY <2>1, <2>3, <2>6 DEF Inv, TablesKnown, Exists
  <2> QED
    BY <2>1, <2>3, <2>4, <2>5, <2>6, <2>7, <2>8, <2>9, TablesInv
<1> QED
  BY <1>2, <1>3, <1>4 DEF UpdatePublic

(* The foreign key knows only that the project exists.  It is the caller's *)
(* because it was checked to be, and an id is not used twice.              *)
LEMMA UpdateProjectInv ==
    ASSUME Inv, NEW q \in Requests, UpdateProject(q) PROVE Inv'
<1> DEFINE x == req[q]
           y == Written(x, "project", "reply")
<1>1. /\ x \in Request /\ Linked(x, records, projects, dropped, shown)
      /\ x.at = "setProject" /\ x.id \in Records
      /\ x.project \in Projects \cup {NoProject}
  BY DEF Inv, TypeOK, RequestsLinked, Linked, UpdateProject, Request
<1>2. CASE (Answer(q, 500) \/ Answer(q, 404)) /\ UNCHANGED records
  BY <1>2, AnswerInv DEF UpdateProject, tables, Codes
<1>3. CASE /\ FindByID(x.id, x.user) /\ ForeignKey(x.project)
           /\ records' = [records EXCEPT ![x.id].project = x.project]
           /\ req' = [req EXCEPT ![q] = y]
  <2>1. UNCHANGED <<projects, dropped, favorites, shown>>
    BY DEF UpdateProject
  <2>2. /\ records' \in [Records -> Row]
        /\ \A r \in Records : /\ records'[r].state = records[r].state
                              /\ records'[r].user = records[r].user
                              /\ records'[r].public = records[r].public
                              /\ r # x.id => records'[r].project = records[r].project
        /\ records'[x.id].project = x.project
    BY <1>1, <1>3 DEF Inv, TypeOK, Row
  <2>3. x.project # NoProject => Exists(x.id) /\ projects[x.project] = records[x.id].user
    BY <1>1, <1>3 DEF Inv, TablesKnown, Linked, FindByID, ForeignKey
  <2> HIDE DEF x
  <2>4. y \in Request /\ Linked(y, records', projects', dropped', shown')
    BY <1>1, WrittenLinked
  <2> HIDE DEF y
  <2>5. /\ req' \in [Requests -> Request]
        /\ \A p \in Requests : req'[p] = req[p] \/ req'[p] = y
    BY <1>3, <2>4 DEF Inv, TypeOK
  <2>6. TypeOK'
    BY <2>1, <2>2, <2>5 DEF Inv, TypeOK
  <2>7. ProjectOwned'
    BY <2>1, <2>2, <2>3 DEF Inv, ProjectOwned, Exists
  <2>8. FavoritesOfShared' /\ TablesKnown'
    BY <2>1, <2>2 DEF Inv, TypeOK, FavoritesOfShared, TablesKnown, Exists
  <2> QED
    BY <2>1, <2>2, <2>4, <2>5, <2>6, <2>7, <2>8, TablesInv
<1> QED
  BY <1>2, <1>3 DEF UpdateProject, Done

LEMMA CreateInsertInv ==
    ASSUME Inv, NEW q \in Requests, NEW r \in Records, CreateInsert(q, r) PROVE Inv'
<1> DEFINE x == req[q]
           y == Inserted(x, r)
           row == [NoRow EXCEPT !.state = "pending", !.user = x.user, !.project = x.project]
<1>1. /\ x \in Request /\ Linked(x, records, projects, dropped, shown)
      /\ x.at = "insert" /\ records[r].state = "absent" /\ x.user \in Users
      /\ x.project \in Projects \cup {NoProject}
  BY DEF Inv, TypeOK, RequestsLinked, Linked, CreateInsert, Request
<1>2. CASE Answer(q, 500) /\ UNCHANGED records
  BY <1>2, AnswerInv DEF CreateInsert, tables, Codes
<1>3. CASE /\ ForeignKey(x.project) /\ records' = [records EXCEPT ![r] = row]
           /\ req' = [req EXCEPT ![q] = y]
  <2>1. UNCHANGED <<projects, dropped, favorites, shown>>
    BY DEF CreateInsert
  <2>2. /\ row \in Row /\ row.state = "pending" /\ row.user = x.user
        /\ row.public = FALSE /\ row.project = x.project
    BY <1>1 DEF NoRow, Row
  <2>3. x.project # NoProject => projects[x.project] = x.user
    BY <1>1, <1>3 DEF Inv, TablesKnown, Linked, ForeignKey
  <2> HIDE DEF x, row
  <2>4. /\ records' \in [Records -> Row] /\ records'[r] = row
        /\ \A s \in Records \ {r} : records'[s] = records[s]
    BY <1>3, <2>2 DEF Inv, TypeOK
  <2>5. /\ y \in Request
        /\ y.at = "created" /\ y.user = x.user /\ y.id = r
        /\ y.project = NoProject /\ y.code = x.code
        /\ y.asked = x.asked /\ y.wrote = x.wrote
    BY <1>1, InsertedFacts
  <2> HIDE DEF y
  <2>6. PartsInOrder(y)
    BY <1>1, <2>5 DEF Linked, PartsInOrder
  <2>7. Linked(y, records', projects', dropped', shown')
    BY <1>1, <2>5, <2>6 DEF Linked
  <2>8. /\ req' \in [Requests -> Request]
        /\ \A p \in Requests : req'[p] = req[p] \/ req'[p] = y
    BY <1>3, <2>5 DEF Inv, TypeOK
  <2>9. TypeOK'
    BY <2>1, <2>4, <2>8 DEF Inv, TypeOK
  <2>10. ProjectOwned'
    BY <2>1, <2>2, <2>3, <2>4 DEF Inv, ProjectOwned, Exists
  <2>11. FavoritesOfShared' /\ TablesKnown'
    BY <1>1, <2>1, <2>2, <2>4 DEF Inv, TypeOK, FavoritesOfShared, TablesKnown, Exists
  <2>12. \A s \in Records : records[s].state # "absent" =>
           records'[s].state # "absent" /\ records'[s].user = records[s].user
    BY <1>1, <2>4
  <2> QED
    BY <2>1, <2>7, <2>8, <2>9, <2>10, <2>11, <2>12, TablesInv
<1> QED
  BY <1>2, <1>3 DEF CreateInsert

LEMMA CreateProjectInv ==
    ASSUME Inv, NEW u \in Users, NEW p \in Projects, CreateProject(u, p) PROVE Inv'
<1>1. /\ projects' \in [Projects -> Users \cup {NoUser}] /\ projects'[p] = u
      /\ \A o \in Projects \ {p} : projects'[o] = projects[o]
      /\ projects[p] = NoUser /\ p \notin dropped
      /\ UNCHANGED <<records, dropped, favorites, req, shown>>
  BY DEF CreateProject, Inv, TypeOK
<1>2. TypeOK'
  BY <1>1 DEF Inv, TypeOK
<1>3. ProjectOwned'
  <2>1. \A r \in Records : records[r].project # NoProject =>
          /\ Exists(r) /\ records[r].project \in Projects
          /\ projects[records[r].project] = records[r].user /\ records[r].user # NoUser
    BY GalleryAssumption DEF Inv, TypeOK, ProjectOwned, TablesKnown, Row
  <2> QED
    BY <1>1, <2>1 DEF ProjectOwned, Exists
<1>4. FavoritesOfShared' /\ TablesKnown'
  BY <1>1 DEF Inv, TypeOK, FavoritesOfShared, TablesKnown, Exists
<1> QED
  BY <1>1, <1>2, <1>3, <1>4, TablesInv, GalleryAssumption

LEMMA DeleteProjectInv ==
    ASSUME Inv, NEW p \in Projects, DeleteProject(p) PROVE Inv'
<1>1. /\ projects' \in [Projects -> Users \cup {NoUser}] /\ projects'[p] = NoUser
      /\ \A o \in Projects \ {p} : projects'[o] = projects[o]
      /\ dropped' = dropped \cup {p} /\ UNCHANGED <<favorites, req, shown>>
  BY DEF DeleteProject, Inv, TypeOK
<1>2. /\ records' \in [Records -> Row]
      /\ \A r \in Records :
           /\ records'[r].state = records[r].state /\ records'[r].user = records[r].user
           /\ records'[r].public = records[r].public
           /\ records'[r].project = IF records[r].project = p THEN NoProject
                                    ELSE records[r].project
  <2> SUFFICES ASSUME NEW r \in Records
               PROVE  /\ records'[r] \in Row
                      /\ records'[r].state = records[r].state
                      /\ records'[r].user = records[r].user
                      /\ records'[r].public = records[r].public
                      /\ records'[r].project = IF records[r].project = p THEN NoProject
                                               ELSE records[r].project
    BY DEF DeleteProject
  <2> DEFINE row == records[r]
  <2>1. /\ row \in Row
        /\ records'[r] = IF row.project = p THEN [row EXCEPT !.project = NoProject] ELSE row
    BY DEF DeleteProject, Inv, TypeOK
  <2> HIDE DEF row
  <2>2. /\ [row EXCEPT !.project = NoProject] \in Row
        /\ [row EXCEPT !.project = NoProject].state = row.state
        /\ [row EXCEPT !.project = NoProject].user = row.user
        /\ [row EXCEPT !.project = NoProject].public = row.public
        /\ [row EXCEPT !.project = NoProject].project = NoProject
    BY <2>1 DEF Row
  <2> QED
    BY <2>1, <2>2 DEF row
<1>3. TypeOK'
  BY <1>1, <1>2 DEF Inv, TypeOK
<1>4. ProjectOwned'
  <2>1. \A r \in Records : records'[r].project # NoProject =>
          /\ records[r].project \in Projects \ {p} /\ records'[r].project = records[r].project
          /\ Exists(r) /\ projects[records[r].project] = records[r].user
    BY <1>2 DEF Inv, TypeOK, ProjectOwned, Row
  <2> QED
    BY <1>1, <1>2, <2>1 DEF ProjectOwned, Exists
<1>5. FavoritesOfShared' /\ TablesKnown'
  BY <1>1, <1>2 DEF Inv, TypeOK, FavoritesOfShared, TablesKnown, Exists
<1> QED
  BY <1>1, <1>2, <1>3, <1>4, <1>5, TablesInv

LEMMA CompleteInv ==
    ASSUME Inv, NEW r \in Records, Complete(r) PROVE Inv'
<1>1. UNCHANGED <<projects, dropped, favorites, req, shown>>
  BY DEF Complete
<1>2. /\ records' \in [Records -> Row]
      /\ \A s \in Records : /\ records'[s].user = records[s].user
                            /\ records'[s].public = records[s].public
                            /\ records'[s].project = records[s].project
                            /\ s # r => records'[s].state = records[s].state
      /\ records[r].state = "pending" /\ records'[r].state = "completed"
  BY DEF Complete, Inv, TypeOK, Row
<1>3. TypeOK'
  BY <1>1, <1>2 DEF Inv, TypeOK
<1>4. ProjectOwned' /\ FavoritesOfShared' /\ TablesKnown'
  BY <1>1, <1>2 DEF Inv, TypeOK, ProjectOwned, FavoritesOfShared, TablesKnown, Exists
<1> QED
  BY <1>1, <1>2, <1>3, <1>4, TablesInv

LEMMA DeleteRecordInv ==
    ASSUME Inv, NEW r \in Records, DeleteRecord(r) PROVE Inv'
<1> DEFINE gone == [NoRow EXCEPT !.state = "deleted", !.user = records[r].user]
<1>1. /\ Exists(r) /\ records' = [records EXCEPT ![r] = gone]
      /\ favorites' = {f \in favorites : f[2] # r}
      /\ UNCHANGED <<projects, dropped, req, shown>>
  BY DEF DeleteRecord
<1>2. /\ gone \in Row /\ gone.state = "deleted" /\ gone.user = records[r].user
      /\ gone.public = FALSE /\ gone.project = NoProject
  BY DEF NoRow, Row, Inv, TypeOK
<1> HIDE DEF gone
<1>3. /\ records' \in [Records -> Row] /\ records'[r] = gone
      /\ \A s \in Records \ {r} : records'[s] = records[s]
  BY <1>1, <1>2 DEF Inv, TypeOK
<1>4. TypeOK'
  BY <1>1, <1>3 DEF Inv, TypeOK
<1>5. ProjectOwned' /\ TablesKnown'
  BY <1>1, <1>2, <1>3 DEF Inv, ProjectOwned, TablesKnown, Exists
<1>6. FavoritesOfShared'
  BY <1>1, <1>3 DEF Inv, TypeOK, FavoritesOfShared, Exists
<1>7. \A s \in Records : records[s].state # "absent" =>
        records'[s].state # "absent" /\ records'[s].user = records[s].user
  BY <1>2, <1>3
<1> QED
  BY <1>1, <1>4, <1>5, <1>6, <1>7, TablesInv

LEMMA StutterInv == ASSUME Inv, UNCHANGED vars PROVE Inv'
<1>1. UNCHANGED tables /\ req' = req
  BY DEF vars, tables
<1>2. TypeOK' /\ ProjectOwned' /\ FavoritesOfShared' /\ TablesKnown'
  BY <1>1 DEF Inv, tables, TypeOK, ProjectOwned, FavoritesOfShared, TablesKnown, Exists
<1> QED
  BY <1>1, <1>2, TablesInv DEF tables

(* The inductive step: one case per kind of step. *)
LEMMA NextInv == ASSUME Inv, [Next]_vars PROVE Inv'
<1>1. ASSUME NEW q \in Requests, NEW u \in Users, Arrive(q, u) PROVE Inv'
  BY <1>1, ArriveInv
<1>2. ASSUME NEW q \in Requests, CreateStep(q) PROVE Inv'
  BY <1>2, CreateInv, CreateInsertInv, CreateReplyInv DEF CreateStep
<1>3. ASSUME NEW q \in Requests, UpdateStep(q) PROVE Inv'
  BY <1>3, FavoriteReadInv, OwnFavoriteInv, OtherFavoriteInv, UpdatePublicInv,
     UpdateProjectCheckInv, UpdateProjectInv, UpdateReplyInv DEF UpdateStep
<1>4. ASSUME NEW q \in Requests, StatementFails(q) PROVE Inv'
  BY <1>4, StatementFailsInv
<1>5. ASSUME NEW p \in Projects, DeleteProject(p) \/ \E u \in Users : CreateProject(u, p)
      PROVE  Inv'
  BY <1>5, DeleteProjectInv, CreateProjectInv
<1>6. ASSUME NEW r \in Records, Complete(r) \/ DeleteRecord(r) PROVE Inv'
  BY <1>6, CompleteInv, DeleteRecordInv
<1>7. CASE UNCHANGED vars
  BY <1>7, StutterInv
<1> QED
  BY <1>1, <1>2, <1>3, <1>4, <1>5, <1>6, <1>7 DEF Next

(* The inductive invariant holds in every reachable state. *)
THEOREM GalleryInvariant == Spec => []Inv
<1> QED
  BY InitInv, NextInv, PTL DEF Spec

-----------------------------------------------------------------------------
(* Every variable keeps its type. *)
THEOREM TypeCorrect == Spec => []TypeOK
<1>1. Inv => TypeOK
  BY DEF Inv
<1> QED
  BY <1>1, GalleryInvariant, PTL

(* A record is never in a project of another user, nor in one that is      *)
(* gone, although Create and Update test ownership a statement before they *)
(* write and projects come and go in between.                              *)
THEOREM ProjectsOwned == Spec => []ProjectOwned
<1>1. Inv => ProjectOwned
  BY DEF Inv
<1> QED
  BY <1>1, GalleryInvariant, PTL

(* A favourite is never a user's own record, nor one that was never shared *)
(* or is gone.                                                             *)
THEOREM FavoritesShared == Spec => []FavoritesOfShared
<1>1. Inv => FavoritesOfShared
  BY DEF Inv
<1> QED
  BY <1>1, GalleryInvariant, PTL

(* A PATCH answered 200 did all that was asked, for the record's owner; a  *)
(* refused one did the parts before the one refused.                       *)
THEOREM PatchesInOrder == Spec => []PatchAllOrPrefix
<1>1. Inv => PatchAllOrPrefix
  <2> SUFFICES ASSUME Inv, NEW q \in Requests
               PROVE  /\ req[q].code = 200 =>
                           /\ req[q].wrote = req[q].asked
                           /\ records[req[q].id].user = req[q].user
                      /\ PartsInOrder(req[q])
    BY DEF PatchAllOrPrefix, PartsInOrder
  <2> QED
    BY DEF Inv, RequestsLinked, Linked
<1> QED
  BY <1>1, GalleryInvariant, PTL

(* Steps of a request for somebody else's record. *)
StrangersStay ==
    \A q \in Requests :
        /\ req'[q] # req[q]
        /\ req[q].id # NoRecord /\ records[req[q].id].user # req[q].user
        => UNCHANGED <<records, projects>>

(* Only the step of the request itself changes it, and its updates find    *)
(* the record by its owner.                                                *)
LEMMA NextStrangersStay == ASSUME Inv, [Next]_vars PROVE StrangersStay
<1> SUFFICES ASSUME NEW q \in Requests, req'[q] # req[q], req[q].id # NoRecord,
                    records[req[q].id].user # req[q].user
             PROVE  UNCHANGED <<records, projects>>
  BY DEF StrangersStay
<1>1. \A r \in Records : ~CreateInsert(q, r)
  BY DEF CreateInsert, Inv, RequestsLinked, Linked
<1>2. \A p \in Requests \ {q} : \A y : req' # [req EXCEPT ![p] = y]
  BY DEF Inv, TypeOK
<1>3. \A p \in Requests \ {q} :
        /\ \A u \in Users : ~Arrive(p, u)
        /\ ~CreateStep(p) /\ ~UpdateStep(p) /\ ~StatementFails(p)
  <2> SUFFICES ASSUME NEW p \in Requests \ {q}
               PROVE  /\ \A u \in Users : ~Arrive(p, u)
                      /\ ~CreateStep(p) /\ ~UpdateStep(p) /\ ~StatementFails(p)
    OBVIOUS
  <2>1. /\ \A stage : ~GoTo(p, stage)
        /\ \A stage, u, r : ~Begin(p, stage, u, r)
        /\ \A stage, part : ~Find(p, part, stage) /\ ~Done(p, part, stage)
        /\ \A code : ~Answer(p, code)
        /\ \A part, code : ~Refuse(p, part, code)
        /\ \A stage : ~FavoriteTo(p, stage)
        /\ \A isPublic : ~Publish(p, isPublic)
    BY <1>2 DEF GoTo, Begin, Find, Done, Answer, Refuse, FavoriteTo, Publish
  <2>2. /\ \A u \in Users : ~Arrive(p, u)
        /\ ~StatementFails(p)
    BY <2>1 DEF Arrive, StatementFails
  <2>3. ~CreateStep(p)
    BY <1>2, <2>1 DEF CreateStep, Create, CreateInsert, CreateReply
  <2>4. ~FavoriteRead(p) /\ ~OwnFavorite(p) /\ ~OtherFavorite(p)
    BY <2>1 DEF FavoriteRead, OwnFavorite, OtherFavorite
  <2>5. ~UpdatePublic(p) /\ ~UpdateProject(p) /\ ~UpdateReply(p)
    BY <2>1 DEF UpdatePublic, UpdateProject, UpdateReply
  <2>6. ~UpdateProjectCheck(p)
    BY <1>2, <2>1 DEF UpdateProjectCheck
  <2> QED
    BY <2>2, <2>3, <2>4, <2>5, <2>6 DEF UpdateStep
<1>4. req' # req
  OBVIOUS
<1>5. ~(\E p \in Projects : DeleteProject(p) \/ \E u \in Users : CreateProject(u, p))
  BY <1>4 DEF DeleteProject, CreateProject
<1>6. ~(\E r \in Records : Complete(r) \/ DeleteRecord(r))
  BY <1>4 DEF Complete, DeleteRecord
<1>7. ~FindByID(req[q].id, req[q].user)
  BY DEF FindByID
<1>8. CASE (\E u \in Users : Arrive(q, u)) \/ CreateStep(q) \/ StatementFails(q)
  BY <1>1, <1>8 DEF Arrive, CreateStep, Create, CreateReply, StatementFails
<1>9. CASE UpdateStep(q)
  <2>1. CASE FavoriteRead(q) \/ OtherFavorite(q) \/ UpdateProjectCheck(q) \/ UpdateReply(q)
    BY <2>1 DEF FavoriteRead, OtherFavorite, UpdateProjectCheck, UpdateReply
  <2>2. CASE OwnFavorite(q) \/ UpdatePublic(q) \/ UpdateProject(q)
    BY <1>7, <2>2 DEF OwnFavorite, UpdatePublic, UpdateProject
  <2> QED
    BY <1>9, <2>1, <2>2 DEF UpdateStep
<1>10. CASE UNCHANGED vars
  BY <1>10 DEF vars
<1> QED
  BY <1>3, <1>5, <1>6, <1>8, <1>9, <1>10 DEF Next

(* A PATCH of somebody else's record writes no record and no project.      *)
THEOREM StrangersLeave == Spec => StrangersLeaveRecords
<1>1. Inv /\ [Next]_vars => [StrangersStay]_vars
  BY NextStrangersStay
<1>2. Spec => [][StrangersStay]_vars
  BY <1>1, GalleryInvariant, PTL DEF Spec
<1> QED
  BY <1>2 DEF StrangersLeaveRecords, StrangersStay

-----------------------------------------------------------------------------
(***************************************************************************)
(* The lists.  A walk relies on positions read in earlier requests: rows   *)
(* that leave only bring the others forward, rows that come in or move to  *)
(* the front only push them back.                                          *)
(***************************************************************************)
Walk == [at : {"idle", "count", "find", "done"}, size : Int, page : Nat \ {0}, total : Nat,
         seen : SUBSET Ids, twice : BOOLEAN, stable : SUBSET Ids,
         left : BOOLEAN, entered : BOOLEAN, torn : BOOLEAN]

ListTypes ==
    /\ scope \in {"own", "public"} /\ clock \in Nat
    /\ key \in [Ids -> Nat]
    /\ walk \in Walk

(* The next publication is in front of all the others. *)
KeysInPast == scope = "public" => \A r \in Ids : key[r] <= clock

Walking == walk.at \in {"count", "find"}

Offset == (walk.page - 1) * PageSize(walk.size)

(* As long as no row came in, what the walk has seen is before its page. *)
SeenBehind ==
    Walking /\ ~walk.entered => \A r \in walk.seen \cap Listed : Position(r) <= Offset

(* As long as no row left, what the walk has not seen is not before it. *)
UnseenAhead ==
    Walking /\ ~walk.left =>
        /\ walk.stable \subseteq Listed
        /\ \A r \in walk.stable \ walk.seen : Position(r) > Offset

(* No more rows than were counted, unless one came in since the count. *)
CountHolds == walk.at = "find" /\ ~walk.torn => Cardinality(Listed) <= walk.total

ListInv ==
    /\ ListTypes /\ KeysInPast
    /\ SeenBehind /\ UnseenAhead /\ CountHolds
    /\ WalkMissesNothing /\ NoRepeats

-----------------------------------------------------------------------------
(* Positions are numbers between 1 and the length of the list. *)
LEMMA ListedFinite ==
    ASSUME ListTypes
    PROVE  /\ IsFiniteSet(Listed) /\ Cardinality(Listed) \in Nat
           /\ \A r : IsFiniteSet({s \in Listed : key[s] >= key[r]}) /\ Position(r) \in Nat
<1>1. IsFiniteSet(Ids) /\ Listed \in SUBSET Ids
    BY RecordListAssumption DEF Listed
<1>2. IsFiniteSet(Listed)
    BY <1>1, FS_Subset
<1>3. ASSUME NEW r
      PROVE  IsFiniteSet({s \in Listed : key[s] >= key[r]}) /\ Position(r) \in Nat
    <2>1. {s \in Listed : key[s] >= key[r]} \in SUBSET Listed
        OBVIOUS
    <2>2. IsFiniteSet({s \in Listed : key[s] >= key[r]})
        BY <1>2, <2>1, FS_Subset
    <2> QED BY <2>2, FS_CardinalityType DEF Position
<1> QED BY <1>2, <1>3, FS_CardinalityType

LEMMA PositionBounds ==
    ASSUME ListTypes, NEW r \in Listed
    PROVE  1 <= Position(r) /\ Position(r) <= Cardinality(Listed)
<1> DEFINE S == {s \in Listed : key[s] >= key[r]}
<1>1. S \in SUBSET Listed /\ IsFiniteSet(S) /\ IsFiniteSet(Listed) /\ Cardinality(S) \in Nat
    BY ListedFinite DEF Position
<1>2. key[r] \in Nat
    BY DEF ListTypes, Listed
<1>3. r \in S
    BY <1>2
<1>4. Cardinality(S) # 0
    BY <1>1, <1>3, FS_EmptySet
<1>5. Cardinality(S) <= Cardinality(Listed)
    BY <1>1, FS_Subset
<1>6. Position(r) = Cardinality(S)
    BY DEF Position
<1> HIDE DEF S
<1> QED BY <1>1, <1>4, <1>5, <1>6

LEMMA LaterPositions == \A r : Position(r)' \in Nat
<1> TAKE r
<1>1. IsFiniteSet(Ids) /\ {s \in Listed' : key'[s] >= key'[r]} \in SUBSET Ids
    BY RecordListAssumption DEF Listed
<1>2. IsFiniteSet({s \in Listed' : key'[s] >= key'[r]})
    BY <1>1, FS_Subset
<1> QED BY <1>2, FS_CardinalityType DEF Position

(* A row that stays is not further back when others leave ... *)
LEMMA LeavingBringsForward ==
    ASSUME ListTypes, NEW r, Listed' \subseteq Listed, r \in Listed',
           \A s \in Listed' : key'[s] = key[s]
    PROVE  Position(r)' <= Position(r)
<1>1. {s \in Listed' : key'[s] >= key'[r]} \in SUBSET {s \in Listed : key[s] >= key[r]}
    OBVIOUS
<1>2. Cardinality({s \in Listed' : key'[s] >= key'[r]})
        <= Cardinality({s \in Listed : key[s] >= key[r]})
    BY <1>1, ListedFinite, FS_Subset
<1> QED BY <1>2 DEF Position

(* ... and one whose place is kept is not further forward when others come. *)
LEMMA EnteringPushesBack ==
    ASSUME ListTypes, ListTypes', NEW r \in Ids, key'[r] = key[r],
           \A s \in Ids : key'[s] >= key[s]
    PROVE  Position(r) <= Position(r)'
<1>1. \A s \in Ids : key[s] \in Nat /\ key'[s] \in Nat
    BY DEF ListTypes
<1>2. {s \in Listed : key[s] >= key[r]} \in SUBSET {s \in Listed' : key'[s] >= key'[r]}
    BY <1>1 DEF Listed
<1>3. IsFiniteSet({s \in Listed' : key'[s] >= key'[r]})
    <2>1. IsFiniteSet(Ids) /\ {s \in Listed' : key'[s] >= key'[r]} \in SUBSET Ids
        BY RecordListAssumption DEF Listed
    <2> QED BY <2>1, FS_Subset
<1>4. Cardinality({s \in Listed : key[s] >= key[r]})
        <= Cardinality({s \in Listed' : key'[s] >= key'[r]})
    BY <1>2, <1>3, FS_Subset
<1> QED BY <1>4 DEF Position

LEMMA SameList == ASSUME UNCHANGED key
                  PROVE  Listed' = Listed /\ \A r : Position(r)' = Position(r)
BY DEF Listed, Position

-----------------------------------------------------------------------------
(* Pages: consecutive, and as many as the rows need. *)

LEMMA PageSizeFacts ==
    ASSUME NEW size \in Int
    PROVE  /\ PageSize(size) \in Nat /\ PageSize(size) >= 1
           /\ size <= MaxSize => PageSize(size) = IF size <= 0 THEN DefaultSize ELSE size
BY RecordListAssumption DEF PageSize

LEMMA PagesFollow ==
    ASSUME NEW page \in Nat \ {0}, NEW n \in Nat
    PROVE  /\ (page - 1) * n \in Nat
           /\ page * n = (page - 1) * n + n
           /\ ((page + 1) - 1) * n = (page - 1) * n + n
<1>1. (page - 1) \in Nat
    OBVIOUS
<1> QED BY <1>1

LEMMA PagesSuffice ==
    ASSUME NEW total \in Nat, NEW n \in Nat \ {0}, NEW page \in Nat,
           (total + n - 1) \div n <= page
    PROVE  total <= page * n
<1> DEFINE a == total + n - 1
           q == a \div n
<1>1. a \in Nat /\ q \in Int /\ q <= page
    OBVIOUS
<1>2. a = n * q + (a % n) /\ (a % n) \in 0..(n - 1)
    OBVIOUS
<1>3. n * q <= page * n
    BY <1>1
<1> QED BY <1>1, <1>2, <1>3

-----------------------------------------------------------------------------
(* The requests of a walk. *)

LEMMA StartWalkInv == ASSUME ListInv, NEW size \in Sizes, StartWalk(size) PROVE ListInv'
<1>1. ListTypes /\ size \in Int /\ UNCHANGED <<scope, key, clock>>
    BY RecordListAssumption DEF ListInv, StartWalk
<1>2. Listed' = Listed /\ \A r : Position(r)' = Position(r)
    BY <1>1, SameList
<1>3. walk' = [NoWalk EXCEPT !.at = "count", !.size = size, !.stable = Listed]
    BY DEF StartWalk
<1>4. walk' = [at |-> "count", size |-> size, page |-> 1, total |-> 0, seen |-> {},
               twice |-> FALSE, stable |-> Listed,
               left |-> FALSE, entered |-> FALSE, torn |-> FALSE]
    BY <1>3 DEF NoWalk
<1>5. walk' \in Walk
    BY <1>1, <1>4 DEF Walk, Listed
<1>6. ListTypes' /\ KeysInPast'
    BY <1>1, <1>5 DEF ListInv, ListTypes, KeysInPast
<1>7. Offset' = 0
    <2>1. PageSize(size) \in Nat /\ 1 - 1 = 0
        BY <1>1, PageSizeFacts
    <2>2. (1 - 1) * PageSize(size) = 0
        BY <2>1
    <2> QED BY <1>4, <2>2 DEF Offset, PageSize
<1>8. ASSUME NEW r \in Listed PROVE Position(r) > 0
    <2>1. Position(r) \in Nat /\ 1 <= Position(r)
        BY <1>1, PositionBounds, ListedFinite
    <2> QED BY <2>1
<1>9. SeenBehind' /\ UnseenAhead' /\ CountHolds'
    BY <1>2, <1>4, <1>7, <1>8 DEF SeenBehind, UnseenAhead, CountHolds
<1>10. WalkMissesNothing' /\ NoRepeats'
    BY <1>4 DEF WalkMissesNothing, NoRepeats
<1> QED BY <1>6, <1>9, <1>10 DEF ListInv

LEMMA CountRowsInv == ASSUME ListInv, CountRows PROVE ListInv'
<1>1. /\ ListTypes /\ walk \in Walk /\ walk.at = "count" /\ UNCHANGED <<scope, key, clock>>
      /\ walk' = [walk EXCEPT !.at = "find", !.total = Cardinality(Listed), !.torn = FALSE]
    BY DEF ListInv, ListTypes, CountRows
<1>2. Listed' = Listed /\ \A r : Position(r)' = Position(r)
    BY <1>1, SameList
<1>3. Cardinality(Listed) \in Nat
    BY <1>1, ListedFinite
<1>4. /\ walk' \in Walk /\ walk'.at = "find" /\ walk'.total = Cardinality(Listed)
      /\ walk'.size = walk.size /\ walk'.page = walk.page /\ walk'.seen = walk.seen
      /\ walk'.twice = walk.twice /\ walk'.stable = walk.stable
      /\ walk'.left = walk.left /\ walk'.entered = walk.entered
    BY <1>1, <1>3 DEF Walk
<1>5. ListTypes' /\ KeysInPast'
    BY <1>1, <1>4 DEF ListInv, ListTypes, KeysInPast
<1>6. Offset' = Offset
    BY <1>4 DEF Offset, PageSize
<1>7. SeenBehind' /\ UnseenAhead'
    BY <1>1, <1>2, <1>4, <1>6 DEF ListInv, SeenBehind, UnseenAhead, Walking
<1>8. CountHolds'
    BY <1>2, <1>3, <1>4 DEF CountHolds
<1>9. WalkMissesNothing' /\ NoRepeats'
    BY <1>4 DEF ListInv, WalkMissesNothing, NoRepeats
<1> QED BY <1>5, <1>7, <1>8, <1>9 DEF ListInv

(***************************************************************************)
(* A page: it shows the rows at the positions after the offset, so what    *)
(* was behind the walk is not shown again, and what is not seen then is    *)
(* ahead of the next page.  After the last page no position is left, for   *)
(* the pages hold as many rows as were counted.                            *)
(***************************************************************************)
LEMMA FindRowsInv == ASSUME ListInv, FindRows PROVE ListInv'
<1> DEFINE rows == Page(walk.page, walk.size)
           last == walk.page >= TotalPages(walk.total, walk.size)
           n    == PageSize(walk.size)
<1>1. /\ ListTypes /\ walk \in Walk /\ walk.at = "find" /\ UNCHANGED <<scope, key, clock>>
      /\ walk' = [walk EXCEPT !.seen = @ \cup rows,
                              !.twice = @ \/ rows \cap walk.seen # {},
                              !.at = IF last THEN "done" ELSE "count",
                              !.page = IF last THEN @ ELSE @ + 1]
    BY DEF ListInv, ListTypes, FindRows
<1>2. Listed' = Listed /\ \A r : Position(r)' = Position(r)
    BY <1>1, SameList
<1>3. /\ walk.size \in Int /\ walk.page \in Nat \ {0} /\ walk.total \in Nat
      /\ walk.left \in BOOLEAN /\ walk.entered \in BOOLEAN /\ walk.torn \in BOOLEAN
      /\ walk.twice \in BOOLEAN
    BY <1>1 DEF Walk
<1>4. n \in Nat /\ n >= 1 /\ Offset \in Nat /\ walk.page * n = Offset + n
      /\ ((walk.page + 1) - 1) * n = Offset + n
    BY <1>3, PageSizeFacts, PagesFollow DEF Offset
<1>5. rows = {r \in Listed : Position(r) \in (Offset + 1)..(Offset + n)}
    BY DEF Page, Offset
<1>6. /\ walk' \in Walk
      /\ walk'.size = walk.size /\ walk'.total = walk.total
      /\ walk'.seen = walk.seen \cup rows
      /\ walk'.twice = (walk.twice \/ rows \cap walk.seen # {})
      /\ walk'.stable = walk.stable /\ walk'.left = walk.left
      /\ walk'.entered = walk.entered /\ walk'.torn = walk.torn
      /\ walk'.at = (IF last THEN "done" ELSE "count")
      /\ walk'.page = (IF last THEN walk.page ELSE walk.page + 1)
    <2> DEFINE seen2 == walk.seen \cup rows
               twice2 == walk.twice \/ rows \cap walk.seen # {}
               at2 == IF last THEN "done" ELSE "count"
               page2 == IF last THEN walk.page ELSE walk.page + 1
    <2>1. walk' = [walk EXCEPT !.seen = seen2, !.twice = twice2, !.at = at2, !.page = page2]
        BY <1>1
    <2>2. seen2 \in SUBSET Ids
        BY <1>1, <1>5 DEF Listed, Walk
    <2>3. twice2 \in BOOLEAN /\ at2 \in {"done", "count"}
        BY <1>3
    <2>4. page2 \in Nat \ {0}
        <3> HIDE DEF last
        <3> QED BY <1>3
    <2> HIDE DEF seen2, twice2, at2, page2
    <2>5. /\ walk' \in Walk
          /\ walk'.size = walk.size /\ walk'.total = walk.total
          /\ walk'.seen = seen2 /\ walk'.twice = twice2
          /\ walk'.stable = walk.stable /\ walk'.left = walk.left
          /\ walk'.entered = walk.entered /\ walk'.torn = walk.torn
          /\ walk'.at = at2 /\ walk'.page = page2
        BY <1>1, <2>1, <2>2, <2>3, <2>4 DEF Walk
    <2> QED BY <2>5 DEF seen2, twice2, at2, page2
<1> HIDE DEF rows, last
<1>7. /\ walk' \in Walk
      /\ walk'.size = walk.size /\ walk'.total = walk.total
      /\ walk'.seen = walk.seen \cup rows
      /\ walk'.twice = (walk.twice \/ rows \cap walk.seen # {})
      /\ walk'.stable = walk.stable /\ walk'.left = walk.left
      /\ walk'.entered = walk.entered /\ walk'.torn = walk.torn
      /\ last => walk'.at = "done" /\ walk'.page = walk.page
      /\ ~last => walk'.at = "count" /\ walk'.page = walk.page + 1
    BY <1>6
<1>8. ListTypes' /\ KeysInPast' /\ CountHolds'
    BY <1>1, <1>7 DEF ListInv, ListTypes, KeysInPast, CountHolds
<1>9. \A r \in Listed : Position(r) \in Nat
    BY <1>1, ListedFinite
<1>10. ~walk.entered => \A r \in walk.seen \cap Listed : Position(r) <= Offset
    BY <1>1 DEF ListInv, SeenBehind, Walking
<1>11. ~walk.left => /\ walk.stable \subseteq Listed
                     /\ \A r \in walk.stable \ walk.seen : Position(r) > Offset
    BY <1>1 DEF ListInv, UnseenAhead, Walking
<1>12. ~walk.left => \A r \in walk.stable \ walk'.seen : Position(r) > Offset + n
    <2> SUFFICES ASSUME ~walk.left, NEW r \in walk.stable \ walk'.seen
                 PROVE  Position(r) > Offset + n
        OBVIOUS
    <2>1. r \in Listed /\ r \notin rows /\ Position(r) > Offset
        BY <1>7, <1>11
    <2> QED BY <1>4, <1>5, <1>9, <2>1
<1>13. NoRepeats'
    <2> SUFFICES ASSUME ~walk.entered PROVE ~walk'.twice
        BY <1>3, <1>7 DEF NoRepeats
    <2>1. ~walk.twice
        BY DEF ListInv, NoRepeats
    <2>2. rows \cap walk.seen = {}
        BY <1>4, <1>5, <1>9, <1>10
    <2> QED BY <1>7, <2>1, <2>2
<1>14. CASE last
    <2>1. ASSUME walk.size <= MaxSize, ~walk.left, ~walk.torn, NEW r \in walk.stable,
                 r \notin walk'.seen
          PROVE  FALSE
        <3>1. Position(r) > walk.page * n /\ r \in Listed
            BY <1>4, <1>11, <1>12, <2>1
        <3>2. Cardinality(Listed) <= walk.total
            BY <1>1, <2>1 DEF ListInv, CountHolds
        <3>3. n = IF walk.size <= 0 THEN DefaultSize ELSE walk.size
            BY <1>3, <2>1, PageSizeFacts
        <3>4. (walk.total + n - 1) \div n <= walk.page
            <4>1. TotalPages(walk.total, walk.size)
                    = IF (walk.total + n - 1) \div n < 1 THEN 1 ELSE (walk.total + n - 1) \div n
                BY <3>3 DEF TotalPages
            <4>2. walk.page >= TotalPages(walk.total, walk.size)
                BY <1>14 DEF last
            <4>3. (walk.total + n - 1) \div n \in Int
                BY <1>3, <1>4
            <4> HIDE DEF n
            <4> QED BY <1>3, <4>1, <4>2, <4>3
        <3>5. walk.total <= walk.page * n
            <4>1. n \in Nat \ {0} /\ walk.page \in Nat
                BY <1>3, <1>4
            <4> HIDE DEF n
            <4> QED BY <1>3, <3>4, <4>1, PagesSuffice
        <3>6. Position(r) <= Cardinality(Listed)
            BY <1>1, <3>1, PositionBounds
        <3>7. Cardinality(Listed) \in Nat /\ walk.page * n \in Nat
            BY <1>1, <1>4, ListedFinite
        <3> QED BY <1>3, <1>9, <3>1, <3>2, <3>5, <3>6, <3>7
    <2>2. WalkMissesNothing'
        BY <1>7, <2>1 DEF WalkMissesNothing
    <2>3. SeenBehind' /\ UnseenAhead'
        BY <1>7, <1>14 DEF SeenBehind, UnseenAhead, Walking
    <2> QED BY <1>8, <1>13, <2>2, <2>3 DEF ListInv
<1>15. CASE ~last
    <2>1. Offset' = Offset + n
        BY <1>4, <1>7, <1>15 DEF Offset, PageSize
    <2>2. SeenBehind'
        <3> SUFFICES ASSUME ~walk.entered, NEW r \in walk'.seen \cap Listed
                     PROVE  Position(r) <= Offset + n
            BY <1>2, <1>7, <2>1 DEF SeenBehind
        <3>1. r \in walk.seen \/ r \in rows
            BY <1>7
        <3> QED BY <1>4, <1>5, <1>9, <1>10, <3>1
    <2>3. UnseenAhead'
        BY <1>2, <1>7, <1>11, <1>12, <2>1 DEF UnseenAhead
    <2>4. WalkMissesNothing'
        BY <1>7, <1>15 DEF WalkMissesNothing
    <2> QED BY <1>8, <1>13, <2>2, <2>3, <2>4 DEF ListInv
<1> QED BY <1>14, <1>15

LEMMA GiveUpInv == ASSUME ListInv, GiveUp PROVE ListInv'
<1>1. ListTypes /\ UNCHANGED <<scope, key, clock>> /\ walk' = NoWalk
    BY DEF ListInv, GiveUp
<1>2. NoWalk \in Walk /\ NoWalk.at = "idle" /\ NoWalk.twice = FALSE
    BY DEF NoWalk, Walk
<1> QED BY <1>1, <1>2 DEF ListInv, ListTypes, KeysInPast, SeenBehind, UnseenAhead, CountHolds,
           Walking, WalkMissesNothing, NoRepeats

-----------------------------------------------------------------------------
(* The list changes under the walk. *)

LEMMA EnteredInv ==
    ASSUME ListInv, NEW r \in Ids, Entered(r), NEW k \in Nat, k # 0, k >= key[r],
           key' = [key EXCEPT ![r] = k],
           scope' = scope, clock' \in Nat, KeysInPast'
    PROVE  ListInv'
<1>1. ListTypes /\ walk \in Walk /\ key \in [Ids -> Nat]
    BY DEF ListInv, ListTypes
<1>2. /\ key' \in [Ids -> Nat] /\ key'[r] = k
      /\ \A s \in Ids : s # r => key'[s] = key[s]
    BY <1>1
<1>3. /\ \A s \in Ids : key'[s] >= key[s]
      /\ Listed \subseteq Listed' /\ (key[r] # 0 => Listed' = Listed)
    BY <1>1, <1>2 DEF Listed
<1>4. CASE ~Walking
    <2>1. walk' = walk
        BY <1>1, <1>4 DEF Entered, Walking, Walk
    <2>2. ListTypes'
        BY <1>1, <1>2, <2>1 DEF ListTypes
    <2> QED BY <1>4, <2>1, <2>2 DEF ListInv, SeenBehind, UnseenAhead, CountHolds, Walking,
               WalkMissesNothing, NoRepeats
<1>5. CASE Walking
    <2> DEFINE torn2 == walk.torn \/ (walk.at = "find" /\ key[r] = 0)
    <2>1. walk' = [walk EXCEPT !.entered = TRUE, !.stable = walk.stable \ {r}, !.torn = torn2]
        BY <1>5 DEF Entered, Walking
    <2>2. torn2 \in BOOLEAN /\ walk.stable \ {r} \in SUBSET Ids
        BY <1>1 DEF Walk
    <2> HIDE DEF torn2
    <2>3. /\ walk' \in Walk /\ walk'.entered = TRUE /\ walk'.at = walk.at
          /\ walk'.stable = walk.stable \ {r} /\ walk'.torn = torn2
          /\ walk'.size = walk.size /\ walk'.page = walk.page /\ walk'.total = walk.total
          /\ walk'.seen = walk.seen /\ walk'.left = walk.left
        BY <1>1, <2>1, <2>2 DEF Walk
    <2>4. ListTypes'
        BY <1>1, <1>2, <2>3 DEF ListTypes
    <2>5. Offset' = Offset
        BY <2>3 DEF Offset, PageSize
    <2>6. UnseenAhead'
        <3> SUFFICES ASSUME ~walk.left
                     PROVE  /\ walk'.stable \subseteq Listed'
                            /\ \A s \in walk'.stable \ walk'.seen : Position(s)' > Offset
            BY <2>3, <2>5 DEF UnseenAhead
        <3>1. /\ walk.stable \subseteq Listed
              /\ \A s \in walk.stable \ walk.seen : Position(s) > Offset
            BY <1>5 DEF ListInv, UnseenAhead
        <3>2. ASSUME NEW s \in walk'.stable \ walk'.seen PROVE Position(s)' > Offset
            <4>1. s \in Ids /\ s # r /\ Position(s) > Offset
                BY <2>3, <3>1, <3>2 DEF Listed
            <4>2. Position(s) <= Position(s)'
                BY <1>1, <1>2, <1>3, <2>4, <4>1, EnteringPushesBack
            <4>3. Position(s) \in Nat /\ Position(s)' \in Nat
                BY <1>1, ListedFinite, LaterPositions
            <4>4. Offset \in Nat
                BY <1>1, PageSizeFacts, PagesFollow DEF Walk, Offset
            <4> QED BY <4>1, <4>2, <4>3, <4>4
        <3> QED BY <1>3, <2>3, <3>1, <3>2
    <2>7. CountHolds'
        BY <1>3, <2>3 DEF torn2, ListInv, CountHolds
    <2>8. SeenBehind' /\ WalkMissesNothing' /\ NoRepeats'
        BY <1>5, <2>3 DEF SeenBehind, WalkMissesNothing, NoRepeats, Walking
    <2> QED BY <2>4, <2>6, <2>7, <2>8 DEF ListInv
<1> QED BY <1>4, <1>5

LEMMA LeaveInv == ASSUME ListInv, NEW r \in Ids, Leave(r) PROVE ListInv'
<1>1. /\ ListTypes /\ walk \in Walk /\ key \in [Ids -> Nat] /\ UNCHANGED <<scope, clock>>
      /\ key' = [key EXCEPT ![r] = 0]
    BY DEF ListInv, ListTypes, Leave
<1>2. /\ key' \in [Ids -> Nat] /\ key'[r] = 0
      /\ \A s \in Ids : s # r => key'[s] = key[s]
    BY <1>1
<1>3. Listed' \subseteq Listed /\ \A s \in Listed' : key'[s] = key[s]
    BY <1>2 DEF Listed
<1>4. KeysInPast'
    BY <1>1, <1>2 DEF ListInv, ListTypes, KeysInPast
<1>5. CASE ~Walking
    <2>1. walk' = walk
        BY <1>1, <1>5 DEF Leave, Walking, Walk
    <2>2. ListTypes'
        BY <1>1, <1>2, <2>1 DEF ListTypes
    <2> QED BY <1>4, <1>5, <2>1, <2>2 DEF ListInv, SeenBehind, UnseenAhead, CountHolds, Walking,
               WalkMissesNothing, NoRepeats
<1>6. CASE Walking
    <2>1. walk' = [walk EXCEPT !.left = TRUE, !.stable = walk.stable \ {r}]
        BY <1>6 DEF Leave, Walking
    <2>2. walk.stable \ {r} \in SUBSET Ids
        BY <1>1 DEF Walk
    <2>3. /\ walk' \in Walk /\ walk'.left = TRUE /\ walk'.at = walk.at
          /\ walk'.entered = walk.entered /\ walk'.torn = walk.torn /\ walk'.twice = walk.twice
          /\ walk'.size = walk.size /\ walk'.page = walk.page /\ walk'.total = walk.total
          /\ walk'.seen = walk.seen
        BY <1>1, <2>1, <2>2 DEF Walk
    <2>4. ListTypes'
        BY <1>1, <1>2, <2>3 DEF ListTypes
    <2>5. Offset' = Offset
        BY <2>3 DEF Offset, PageSize
    <2>6. SeenBehind'
        <3> SUFFICES ASSUME ~walk.entered, NEW s \in walk.seen \cap Listed'
                     PROVE  Position(s)' <= Offset
            BY <2>3, <2>5 DEF SeenBehind
        <3>1. Position(s) <= Offset
            BY <1>3, <1>6 DEF ListInv, SeenBehind
        <3>2. Position(s)' <= Position(s)
            BY <1>1, <1>3, LeavingBringsForward
        <3>3. Position(s) \in Nat /\ Position(s)' \in Nat
            BY <1>1, ListedFinite, LaterPositions
        <3>4. Offset \in Nat
            BY <1>1, PageSizeFacts, PagesFollow DEF Walk, Offset
        <3> QED BY <3>1, <3>2, <3>3, <3>4
    <2>7. CountHolds'
        <3>1. IsFiniteSet(Listed) /\ Cardinality(Listed) \in Nat
            BY <1>1, ListedFinite
        <3>2. IsFiniteSet(Listed') /\ Cardinality(Listed') <= Cardinality(Listed)
            BY <1>3, <3>1, FS_Subset
        <3>3. Cardinality(Listed') \in Nat /\ walk.total \in Nat
            BY <1>1, <3>2, FS_CardinalityType DEF Walk
        <3>4. walk'.at = "find" /\ ~walk'.torn => Cardinality(Listed) <= walk.total
            BY <2>3 DEF ListInv, CountHolds
        <3> QED BY <2>3, <3>1, <3>2, <3>3, <3>4 DEF CountHolds
    <2>8. UnseenAhead' /\ WalkMissesNothing' /\ NoRepeats'
        BY <1>6, <2>3 DEF ListInv, UnseenAhead, WalkMissesNothing, NoRepeats, Walking
    <2> QED BY <1>4, <2>4, <2>6, <2>7, <2>8 DEF ListInv
<1> QED BY <1>5, <1>6

LEMMA ListNextInv == ListInv /\ [ListNext]_listVars => ListInv'
<1> SUFFICES ASSUME ListInv, [ListNext]_listVars PROVE ListInv'
    OBVIOUS
<1>1. ListTypes /\ clock \in Nat /\ key \in [Ids -> Nat] /\ MaxStamp \in Nat
    BY RecordListAssumption DEF ListInv, ListTypes
<1>2. CASE UNCHANGED listVars
    <2>1. walk' = walk /\ UNCHANGED <<scope, key, clock>>
        BY <1>2 DEF listVars
    <2>2. Listed' = Listed /\ \A r : Position(r)' = Position(r)
        BY <2>1, SameList
    <2> QED BY <2>1, <2>2 DEF ListInv, ListTypes, KeysInPast, SeenBehind, UnseenAhead,
               CountHolds, Walking, Offset, PageSize, WalkMissesNothing, NoRepeats
<1>3. ASSUME NEW size \in Sizes, StartWalk(size) PROVE ListInv'
    BY <1>3, StartWalkInv
<1>4. CASE CountRows \/ FindRows \/ GiveUp
    BY <1>4, CountRowsInv, FindRowsInv, GiveUpInv
<1>5. ASSUME NEW r \in Ids, Enter(r) PROVE ListInv'
    <2>1. r \in Nat /\ r # 0 /\ r >= key[r]
        BY <1>5, RecordListAssumption DEF Enter
    <2>2. /\ key' = [key EXCEPT ![r] = r] /\ Entered(r)
          /\ scope' = scope /\ clock' \in Nat /\ KeysInPast'
        BY <1>1, <1>5 DEF Enter, KeysInPast
    <2> QED BY <2>1, <2>2, EnteredInv
<1>6. ASSUME NEW r \in Ids, MakePublic(r) PROVE ListInv'
    <2>1. /\ key' = [key EXCEPT ![r] = clock + 1] /\ Entered(r)
          /\ scope = "public" /\ scope' = scope /\ clock' = clock + 1
        BY <1>6 DEF MakePublic
    <2>2. \A s \in Ids : key[s] \in Nat /\ key[s] <= clock
        BY <1>1, <2>1 DEF ListInv, KeysInPast
    <2>3. clock + 1 \in Nat /\ clock + 1 # 0 /\ clock + 1 >= key[r] /\ clock' \in Nat
        BY <1>1, <2>1, <2>2
    <2>4. KeysInPast'
        BY <1>1, <2>1, <2>2 DEF KeysInPast
    <2> QED BY <2>1, <2>3, <2>4, EnteredInv
<1>7. ASSUME NEW r \in Ids, Leave(r) PROVE ListInv'
    BY <1>7, LeaveInv
<1> QED BY <1>2, <1>3, <1>4, <1>5, <1>6, <1>7 DEF ListNext

LEMMA ListInitInv == ListInit => ListInv
<1> SUFFICES ASSUME ListInit PROVE ListInv
    OBVIOUS
<1>1. NoWalk \in Walk /\ NoWalk.at = "idle" /\ NoWalk.twice = FALSE
    BY DEF NoWalk, Walk
<1> QED BY <1>1 DEF ListInit, ListInv, ListTypes, KeysInPast, SeenBehind, UnseenAhead, CountHolds,
           Walking, WalkMissesNothing, NoRepeats

(***************************************************************************)
(* In every reachable state the rows a walk has seen and those it has yet  *)
(* to see are on their sides of its next page, as far as the changes of    *)
(* the list allow.                                                         *)
(***************************************************************************)
THEOREM ListInvariant == ListSpec => []ListInv
<1> QED BY ListInitInv, ListNextInv, PTL DEF ListSpec

(***************************************************************************)
(* A client that follows totalPages with a page size up to the largest     *)
(* misses no row that stayed in its place, unless another left or the last *)
(* count was overtaken.                                                    *)
(***************************************************************************)
THEOREM WalksMissNothing == ListSpec => []WalkMissesNothing
<1>1. ListInv => WalkMissesNothing
    BY DEF ListInv
<1> QED BY <1>1, ListInvariant, PTL

(***************************************************************************)
(* No row is shown on two pages unless one came in or moved to the front.  *)
(***************************************************************************)
THEOREM PagesRepeatNothing == ListSpec => []NoRepeats
<1>1. ListInv => NoRepeats
    BY DEF ListInv
<1> QED BY <1>1, ListInvariant, PTL

-----------------------------------------------------------------------------
(***************************************************************************)
(* What pagingMeta announces and what the page statement serves agree, for *)
(* every page size up to the largest that is served: each row of the list  *)
(* is on one of the announced pages, and on no other page.  (Above that    *)
(* size they do not agree, see WalkMissesNothing.)                         *)
(***************************************************************************)
PagesCover ==
    \A size \in Sizes : size <= MaxSize =>
        \A r \in Listed :
            \E page \in 1..TotalPages(Cardinality(Listed), size) :
                /\ r \in Page(page, size)
                /\ \A other \in Nat \ {0} : r \in Page(other, size) => other = page

(* A positive number is in exactly one of the intervals of n numbers. *)
LEMMA OnePage ==
    ASSUME NEW n \in Nat \ {0}, NEW pos \in Nat \ {0}
    PROVE  \E page \in Nat \ {0} :
             /\ (page - 1) * n < pos /\ pos <= (page - 1) * n + n
             /\ \A other \in Nat \ {0} :
                   (other - 1) * n < pos /\ pos <= (other - 1) * n + n => other = page
<1> DEFINE q == (pos - 1) \div n
<1>1. q \in Nat /\ (pos - 1) = n * q + ((pos - 1) % n) /\ ((pos - 1) % n) \in 0..(n - 1)
    OBVIOUS
<1> HIDE DEF q
<1>2. q + 1 \in Nat \ {0} /\ (q + 1) - 1 = q /\ q * n \in Nat /\ q * n = n * q
    BY <1>1
<1>3. q * n < pos /\ pos <= q * n + n
    BY <1>1, <1>2
<1>4. ASSUME NEW other \in Nat \ {0}, (other - 1) * n < pos, pos <= (other - 1) * n + n
      PROVE  other = q + 1
    <2> DEFINE o == other - 1
    <2>1. o \in Nat /\ o * n < pos /\ pos <= o * n + n /\ other = o + 1
        BY <1>4
    <2> HIDE DEF o
    <2>2. ASSUME o < q PROVE FALSE
        <3>1. (o + 1) * n <= q * n /\ (o + 1) * n = o * n + n
            BY <1>1, <2>1, <2>2
        <3>2. o * n \in Nat
            BY <2>1
        <3> QED BY <1>2, <1>3, <2>1, <3>1, <3>2
    <2>3. ASSUME q < o PROVE FALSE
        <3>1. (q + 1) * n <= o * n /\ (q + 1) * n = q * n + n
            BY <1>1, <2>1, <2>3
        <3>2. o * n \in Nat
            BY <2>1
        <3> QED BY <1>2, <1>3, <2>1, <3>1, <3>2
    <2> QED BY <1>1, <2>1, <2>2, <2>3
<1> QED BY <1>2, <1>3, <1>4

LEMMA ListInvCovers == ListInv => PagesCover
<1> SUFFICES ASSUME ListInv, NEW size \in Sizes, size <= MaxSize, NEW r \in Listed
             PROVE  \E page \in 1..TotalPages(Cardinality(Listed), size) :
                      /\ r \in Page(page, size)
                      /\ \A other \in Nat \ {0} : r \in Page(other, size) => other = page
    BY DEF PagesCover
<1> DEFINE n     == PageSize(size)
           total == Cardinality(Listed)
           pos   == Position(r)
           a     == total + n - 1
           pages == TotalPages(total, size)
<1>1. ListTypes /\ size \in Int
    BY RecordListAssumption DEF ListInv
<1>2. n \in Nat \ {0} /\ n = IF size <= 0 THEN DefaultSize ELSE size
    BY <1>1, PageSizeFacts
<1>3. total \in Nat /\ pos \in Nat \ {0} /\ pos <= total
    <2>1. total \in Nat /\ pos \in Nat
        BY <1>1, ListedFinite
    <2>2. 1 <= pos /\ pos <= total
        BY <1>1, PositionBounds
    <2> QED BY <2>1, <2>2
<1>4. \A page \in Nat \ {0} :
        r \in Page(page, size) <=> (page - 1) * n < pos /\ pos <= (page - 1) * n + n
    <2>1. TAKE page \in Nat \ {0}
    <2>2. (page - 1) * n \in Nat
        BY <1>2, PagesFollow
    <2> DEFINE offset == (page - 1) * n
    <2>3. r \in Page(page, size) <=> pos \in offset + 1 .. offset + n
        BY DEF Page
    <2> HIDE DEF n, pos, offset
    <2>4. r \in Page(page, size) <=> offset < pos /\ pos <= offset + n
        <3>1. offset \in Nat
            BY <2>2 DEF offset
        <3> QED BY <1>2, <1>3, <2>3, <3>1
    <2> QED BY <2>4 DEF offset
<1>5. pages = IF a \div n < 1 THEN 1 ELSE a \div n
    BY <1>2 DEF TotalPages
<1> HIDE DEF n, total, pos, pages
<1>6. PICK page \in Nat \ {0} :
        /\ (page - 1) * n < pos /\ pos <= (page - 1) * n + n
        /\ \A other \in Nat \ {0} :
              (other - 1) * n < pos /\ pos <= (other - 1) * n + n => other = page
    BY <1>2, <1>3, OnePage
<1>7. page <= pages
    <2>1. (a \div n) \in Int /\ pages \in Int /\ a \div n <= pages /\ pages >= 1
        BY <1>2, <1>3, <1>5
    <2>2. total <= pages * n
        BY <1>2, <1>3, <2>1, PagesSuffice
    <2>3. ASSUME pages < page PROVE FALSE
        <3>1. pages * n <= (page - 1) * n
            BY <1>2, <2>1, <2>3
        <3>2. pages * n \in Int /\ (page - 1) * n \in Int
            BY <1>2, <2>1
        <3> QED BY <1>3, <1>6, <2>2, <3>1, <3>2
    <2> QED BY <2>1, <2>3
<1>8. page \in 1..pages
    BY <1>7
<1> QED BY <1>4, <1>6, <1>8 DEF pages, total

(***************************************************************************)
(* The announced pages, as they are served, hold every row exactly once.   *)
(***************************************************************************)
THEOREM PagesHoldAll == ListSpec => []PagesCover
<1> QED BY ListInvCovers, ListInvariant, PTL
=============================================================================
