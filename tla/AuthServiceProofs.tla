-------------------------- MODULE AuthServiceProofs ---------------------------
(***************************************************************************)
(* Proofs about AuthService for any number of accounts, requests, tokens   *)
(* and passwords, with statements that fail.                               *)
(***************************************************************************)
EXTENDS AuthService, TLAPS

(* The rows of refresh_tokens are those of the tokens issued so far; each  *)
(* belongs to an account, and a usable one to an account that exists.      *)
TokensIssued ==
    \A t \in TokenIds :
        /\ t > issued => tokens[t] = NoToken
        /\ t <= issued => tokens[t].state # "absent" /\ tokens[t].user \in Users
        /\ Live(t) => users[tokens[t].user].registered

(* What a request has read: its account, and a token that was issued. *)
RequestsKnown ==
    \A q \in Requests :
        /\ req[q].at # "idle" => req[q].user \in Users
        /\ req[q].at \in {"findUser", "rotate", "logout"} => req[q].token \in 1..issued
        /\ req[q].at \in {"issue", "findUser", "rotate"} => users[req[q].user].registered

(* A session request and a password request that overlap are on record. *)
OverlapsExposed ==
    \A p, q \in Requests :
        /\ req[p].at \in SessionPoints /\ req[q].at \in PasswordPoints
        /\ req[p].user = req[q].user
        => req[p].user \in exposed

(* A request about to revoke the sessions of u. *)
Revoking(u) == \E q \in Requests : req[q].at = "revokeAll" /\ req[q].user = u

(* Between UpdatePassword and RevokeAllForUser alone may a session rest on *)
(* an older password; while a password request has not written yet, and    *)
(* also when it fails there, every session rests on the present one.       *)
SessionsKept ==
    \A t \in TokenIds :
        Live(t) /\ tokens[t].user \notin exposed /\ ~Revoking(tokens[t].user)
        => tokens[t].password = users[tokens[t].user].password

(* The password a session request carries is the present one, unless a     *)
(* password request overlapped it.                                         *)
RequestsKept ==
    \A q \in Requests :
        req[q].at \in {"issue", "findUser", "rotate"} /\ req[q].user \notin exposed
        => req[q].password = users[req[q].user].password

Inv ==
    /\ TypeOK
    /\ TokensIssued
    /\ RequestsKnown
    /\ RotationConsumes
    /\ OverlapsExposed
    /\ SessionsKept
    /\ RequestsKept

tables == <<users, tokens, issued, writes>>

Request == [at : Points, user : Users \cup {""},
            token : TokenIds \cup {0}, password : Passwords]

Answers == {"none", "ok", "conflict", "unauthorized", "disabled", "internal error"}

(* The points at which a request carries a password it will mint with. *)
CarryingPoints == {"issue", "findUser", "rotate"}

-----------------------------------------------------------------------------
(* Revoking a token, and letting it expire, change nothing else of its row. *)
LEMMA RowFacts ==
    ASSUME NEW x \in Token
    PROVE  /\ [x EXCEPT !.state = "revoked"] \in Token
           /\ [x EXCEPT !.state = "revoked"].state = "revoked"
           /\ [x EXCEPT !.state = "revoked"].user = x.user
           /\ [x EXCEPT !.state = "revoked"].parent = x.parent
           /\ [x EXCEPT !.state = "revoked"].password = x.password
           /\ [x EXCEPT !.expired = TRUE] \in Token
           /\ [x EXCEPT !.expired = TRUE].state = x.state
           /\ [x EXCEPT !.expired = TRUE].user = x.user
           /\ [x EXCEPT !.expired = TRUE].parent = x.parent
           /\ [x EXCEPT !.expired = TRUE].password = x.password
BY DEF Token

(* A request that moves on to its next statement keeps what it has read. *)
LEMMA PointFacts ==
    ASSUME NEW x \in Request, NEW point \in Points
    PROVE  /\ [x EXCEPT !.at = point] \in Request
           /\ [x EXCEPT !.at = point].at = point
           /\ [x EXCEPT !.at = point].user = x.user
           /\ [x EXCEPT !.at = point].token = x.token
           /\ [x EXCEPT !.at = point].password = x.password
BY DEF Request

LEMMA IdleFacts == Idle \in Request /\ Idle.at = "idle"
BY AuthAssumption DEF Idle, Request, Points, Passwords

LEMMA InitInv == Init => Inv
<1> SUFFICES ASSUME Init PROVE Inv
    OBVIOUS
<1> USE AuthAssumption
<1>1. NoToken \in Token /\ NoToken.state = "absent" /\ NoToken.parent = 0
    BY DEF NoToken, Token, Passwords
<1>2. TypeOK
    <2>1. users \in [Users -> User]
        BY DEF Init, User, Passwords
    <2>2. tokens \in [TokenIds -> Token]
        BY <1>1 DEF Init
    <2>3. req \in [Requests -> Request]
        BY IdleFacts DEF Init
    <2>4. issued \in 0..MaxTokens /\ writes \in 0..MaxWrites /\ exposed \subseteq Users
        BY DEF Init
    <2>5. resp \in [Requests -> Answers]
        BY DEF Init, Answers
    <2> QED BY <2>1, <2>2, <2>3, <2>4, <2>5 DEF TypeOK, Request, Answers
<1>3. TokensIssued /\ SessionsKept /\ RotationConsumes
    BY <1>1, IdleFacts DEF Init, TokensIssued, SessionsKept, RotationConsumes, Live, TokenIds
<1>4. RequestsKnown /\ OverlapsExposed /\ RequestsKept
    BY IdleFacts DEF Init, RequestsKnown, OverlapsExposed, RequestsKept, SessionPoints
<1> QED BY <1>2, <1>3, <1>4 DEF Inv

-----------------------------------------------------------------------------
(***************************************************************************)
(* One request moves to row r and the tables stay.  What must be known of  *)
(* r is what its statement has read; who overlaps it is on record, and so  *)
(* is a revocation that ends here without having been carried out.         *)
(***************************************************************************)
LEMMA MoveInv ==
    ASSUME Inv, UNCHANGED tables,
           NEW q \in Requests, NEW r \in Request,
           req' = [req EXCEPT ![q] = r],
           resp' \in [Requests -> Answers],
           exposed \subseteq exposed', exposed' \subseteq Users,
           r.at # "idle" => r.user \in Users,
           r.at \in {"findUser", "rotate", "logout"} => r.token \in 1..issued,
           r.at \in CarryingPoints => users[r.user].registered,
           r.at \in CarryingPoints /\ r.user \notin exposed'
               => r.password = users[r.user].password,
           r.at = "issue" /\ r.token # 0 => tokens[r.token].state = "revoked",
           \A p \in Requests \ {q} :
               /\ req[p].user = r.user
               /\ \/ r.at \in SessionPoints /\ req[p].at \in PasswordPoints
                  \/ r.at \in PasswordPoints /\ req[p].at \in SessionPoints
               => r.user \in exposed',
           req[q].at = "revokeAll" => req[q].user \in exposed'
    PROVE  Inv'
<1>1. TypeOK'
    BY DEF Inv, TypeOK, tables, Request, Answers
<1> DEFINE row(p) == IF p = q THEN r ELSE req[p]
<1>2. \A p \in Requests : req'[p] = row(p)
    BY DEF Inv, TypeOK
<1>3. TokensIssued'
    BY DEF Inv, TokensIssued, tables, Live
<1>4. RequestsKnown'
    BY <1>2 DEF Inv, RequestsKnown, tables, CarryingPoints
<1>5. RotationConsumes'
    BY <1>2 DEF Inv, RotationConsumes, tables
<1>6. OverlapsExposed'
    <2> SUFFICES ASSUME NEW p1 \in Requests, NEW p2 \in Requests,
                        row(p1).at \in SessionPoints, row(p2).at \in PasswordPoints,
                        row(p1).user = row(p2).user
                 PROVE  row(p1).user \in exposed'
        BY <1>2 DEF OverlapsExposed
    <2>1. CASE p1 # q /\ p2 # q
        BY <2>1 DEF Inv, OverlapsExposed
    <2>2. CASE p1 = q /\ p2 # q
        BY <2>2
    <2>3. CASE p1 # q /\ p2 = q
        BY <2>3
    <2>4. CASE p1 = q /\ p2 = q
        BY <2>4 DEF SessionPoints, PasswordPoints
    <2> QED BY <2>1, <2>2, <2>3, <2>4
<1>7. SessionsKept'
    <2> SUFFICES ASSUME NEW t \in TokenIds, Live(t), tokens[t].user \notin exposed',
                        ~Revoking(tokens[t].user)'
                 PROVE  tokens[t].password = users[tokens[t].user].password
        BY DEF SessionsKept, tables, Live
    <2>1. ~Revoking(tokens[t].user)
        BY <1>2 DEF Revoking, tables
    <2> QED BY <2>1 DEF Inv, SessionsKept
<1>8. RequestsKept'
    BY <1>2 DEF Inv, RequestsKept, tables, CarryingPoints
<1> QED BY <1>1, <1>3, <1>4, <1>5, <1>6, <1>7, <1>8 DEF Inv

(* An answer that leaves the tables alone. *)
LEMMA AnswerInv ==
    ASSUME Inv, UNCHANGED tables, NEW q \in Requests, NEW r \in Answers, Answer(q, r),
           exposed \subseteq exposed', exposed' \subseteq Users,
           req[q].at = "revokeAll" => req[q].user \in exposed'
    PROVE  Inv'
<1>1. resp' \in [Requests -> Answers]
    BY DEF Answer, Inv, TypeOK, Answers
<1>2. req' = [req EXCEPT ![q] = Idle]
    BY DEF Answer
<1>3. Idle.at \notin CarryingPoints \cup SessionPoints \cup PasswordPoints
    BY IdleFacts DEF CarryingPoints, SessionPoints, PasswordPoints
<1> DEFINE r0 == Idle
<1>4. r0 \in Request /\ r0.at = "idle"
    BY IdleFacts
<1> HIDE DEF r0
<1>5. r0.at \notin CarryingPoints \cup SessionPoints \cup PasswordPoints
    BY <1>3 DEF r0
<1>6. req' = [req EXCEPT ![q] = r0]
    BY <1>2 DEF r0
<1> QED BY <1>1, <1>4, <1>5, <1>6, MoveInv

(* The first statement of a request that will execute another. *)
LEMMA EnterInv ==
    ASSUME Inv, UNCHANGED tables,
           NEW q \in Requests, req[q] = Idle,
           NEW point \in Points, NEW u \in Users,
           NEW t \in TokenIds \cup {0}, NEW p \in Passwords,
           Enter(q, point, u, t, p),
           point \in {"findUser", "rotate", "logout"} => t \in 1..issued,
           point \in CarryingPoints => users[u].registered,
           point \in CarryingPoints /\ u \notin exposed' => p = users[u].password,
           point = "issue" /\ t # 0 => tokens[t].state = "revoked"
    PROVE  Inv'
<1> DEFINE r == [at |-> point, user |-> u, token |-> t, password |-> p]
<1>1. /\ r \in Request
      /\ r.at = point /\ r.user = u /\ r.token = t /\ r.password = p
      /\ req' = [req EXCEPT ![q] = r]
    BY DEF Request, Enter, Goto
<1> HIDE DEF r
<1>2. resp' \in [Requests -> Answers]
    BY DEF Enter, Inv, TypeOK, Answers
<1>3. exposed \subseteq exposed' /\ exposed' \subseteq Users
    BY DEF Enter, Inv, TypeOK
<1>4. \A p1 \in Requests \ {q} :
          /\ req[p1].user = r.user
          /\ \/ r.at \in SessionPoints /\ req[p1].at \in PasswordPoints
             \/ r.at \in PasswordPoints /\ req[p1].at \in SessionPoints
          => r.user \in exposed'
    BY <1>1 DEF Enter, InFlight
<1>5. req[q].at # "revokeAll"
    BY IdleFacts
<1> QED BY <1>1, <1>2, <1>3, <1>4, <1>5, MoveInv

-----------------------------------------------------------------------------
LEMMA Counters ==
    ASSUME Inv
    PROVE  /\ writes \in 0..MaxWrites /\ issued \in 0..MaxTokens
           /\ 0..writes \subseteq Passwords /\ 1..issued \subseteq TokenIds
<1>1. writes \in 0..MaxWrites /\ issued \in 0..MaxTokens
    BY DEF Inv, TypeOK
<1> QED BY <1>1, AuthAssumption DEF Passwords, TokenIds

LEMMA Rows ==
    ASSUME Inv
    PROVE  /\ \A q \in Requests : req[q] \in Request
           /\ \A t \in TokenIds : tokens[t] \in Token
           /\ \A u \in Users : users[u] \in User
BY DEF Inv, TypeOK, Request

(* A usable token is an issued one of an account that exists. *)
LEMMA LiveFacts ==
    ASSUME Inv, NEW t \in TokenIds, Live(t)
    PROVE  /\ t \in 1..issued /\ tokens[t].user \in Users
           /\ users[tokens[t].user].registered
<1>1. NoToken.state = "absent"
    BY DEF NoToken
<1>2. ~(t > issued)
    BY <1>1 DEF Inv, TokensIssued, Live
<1>3. t \in 1..issued
    BY <1>2, Counters, AuthAssumption DEF TokenIds
<1>4. t <= issued
    BY <1>3, Counters
<1> QED BY <1>3, <1>4 DEF Inv, TokensIssued

(* The operations that only read, and the requests that end without effect. *)
LEMMA RegisterInv ==
    ASSUME Inv, NEW q \in Requests, NEW u \in Users, Register(q, u) PROVE Inv'
<1>1. UNCHANGED tables /\ req[q] = Idle
    BY DEF Register, tables
<1>2. CASE Refuse(q, "conflict")
    BY <1>1, <1>2, AnswerInv, IdleFacts DEF Refuse, Answers, Inv, TypeOK
<1>3. CASE Enter(q, "create", u, 0, 0)
    <2>1. "create" \in Points /\ "create" \notin CarryingPoints /\ 0 \in Passwords
        BY AuthAssumption DEF Points, SessionPoints, CarryingPoints, Passwords
    <2> QED BY <1>1, <1>3, <2>1, EnterInv
<1> QED BY <1>2, <1>3 DEF Register

LEMMA LoginInv ==
    ASSUME Inv, NEW q \in Requests, NEW u \in Users, NEW p \in 0..writes, Login(q, u, p)
    PROVE  Inv'
<1>1. UNCHANGED tables /\ req[q] = Idle
    BY DEF Login, tables
<1>2. ASSUME NEW r \in Answers, Refuse(q, r) PROVE Inv'
    BY <1>1, <1>2, AnswerInv, IdleFacts DEF Refuse, Inv, TypeOK
<1>3. "unauthorized" \in Answers /\ "disabled" \in Answers
    BY DEF Answers
<1>4. CASE users[u].registered /\ users[u].password = p /\ Enter(q, "issue", u, 0, p)
    <2>1. "issue" \in Points /\ p \in Passwords
        BY Counters DEF Points, SessionPoints
    <2> QED BY <1>1, <1>4, <2>1, EnterInv
<1> QED BY <1>2, <1>3, <1>4 DEF Login

LEMMA RefreshInv ==
    ASSUME Inv, NEW q \in Requests, NEW t \in TokenIds, Refresh(q, t) PROVE Inv'
<1>1. UNCHANGED tables /\ req[q] = Idle
    BY DEF Refresh, tables
<1>2. CASE Refuse(q, "unauthorized")
    BY <1>1, <1>2, AnswerInv, IdleFacts DEF Refuse, Answers, Inv, TypeOK
<1>3. CASE Live(t) /\ t <= issued
           /\ Enter(q, "findUser", tokens[t].user, t, tokens[t].password)
    <2> DEFINE u == tokens[t].user  p == tokens[t].password
    <2>1. u \in Users /\ users[u].registered /\ p \in Passwords /\ t \in 1..issued
        <3>1. t \in 1..issued
            BY <1>3, Counters DEF TokenIds
        <3>2. p \in Passwords
            BY Rows DEF Token
        <3> QED BY <1>3, <3>1, <3>2 DEF Inv, TokensIssued
    <2>2. "findUser" \in Points /\ "findUser" \in SessionPoints
        BY DEF Points, SessionPoints
    <2>3. u \notin exposed' => p = users[u].password
        <3> SUFFICES ASSUME u \notin exposed' PROVE p = users[u].password
            OBVIOUS
        <3>1. u \notin exposed /\ InFlight(u, PasswordPoints) = {}
            BY <1>3, <2>2 DEF Enter
        <3>2. ~Revoking(u)
            BY <3>1 DEF Revoking, InFlight, PasswordPoints
        <3> QED BY <1>3, <3>1, <3>2 DEF Inv, SessionsKept
    <2> HIDE DEF u, p
    <2>4. Enter(q, "findUser", u, t, p)
        BY <1>3 DEF u, p
    <2> QED BY <1>1, <2>1, <2>2, <2>3, <2>4, EnterInv
<1> QED BY <1>2, <1>3 DEF Refresh

LEMMA LogoutInv ==
    ASSUME Inv, NEW q \in Requests, NEW t \in TokenIds, Logout(q, t) PROVE Inv'
<1> DEFINE u == tokens[t].user
<1>1. UNCHANGED tables /\ req[q] = Idle
    BY DEF Logout, tables
<1>2. u \in Users /\ t \in 1..issued
    BY DEF Logout, Inv, TokensIssued, TokenIds
<1>3. "logout" \in Points /\ "logout" \notin CarryingPoints /\ 0 \in Passwords
    BY AuthAssumption DEF Points, CarryingPoints, Passwords
<1>4. Enter(q, "logout", u, t, 0)
    BY DEF Logout
<1> HIDE DEF u
<1> QED BY <1>1, <1>2, <1>3, <1>4, EnterInv

LEMMA ChangePasswordInv ==
    ASSUME Inv, NEW q \in Requests, NEW u \in Users, NEW p \in 0..writes,
           ChangePassword(q, u, p)
    PROVE  Inv'
<1>1. UNCHANGED tables /\ req[q] = Idle
    BY DEF ChangePassword, tables
<1>2. CASE Refuse(q, "unauthorized")
    BY <1>1, <1>2, AnswerInv, IdleFacts DEF Refuse, Answers, Inv, TypeOK
<1>3. CASE Enter(q, "change", u, 0, p)
    <2>1. "change" \in Points /\ "change" \notin CarryingPoints /\ p \in Passwords
        BY Counters DEF Points, PasswordPoints, CarryingPoints
    <2> QED BY <1>1, <1>3, <2>1, EnterInv
<1> QED BY <1>2, <1>3 DEF ChangePassword

LEMMA ResetPasswordInv ==
    ASSUME Inv, NEW q \in Requests, NEW u \in Users, ResetPasswordByAdmin(q, u) PROVE Inv'
<1>1. UNCHANGED tables /\ req[q] = Idle
    BY DEF ResetPasswordByAdmin, tables
<1>2. "reset" \in Points /\ "reset" \notin CarryingPoints /\ 0 \in Passwords
    BY AuthAssumption DEF Points, PasswordPoints, CarryingPoints, Passwords
<1> QED BY <1>1, <1>2, EnterInv DEF ResetPasswordByAdmin

LEMMA FailsInv == ASSUME Inv, NEW q \in Requests, Fails(q) PROVE Inv'
<1>1. UNCHANGED tables /\ Answer(q, "internal error")
    BY DEF Fails, tables
<1>2. req[q].at = "revokeAll" => req[q].user \in Users
    BY DEF Inv, RequestsKnown
<1>3. /\ exposed \subseteq exposed' /\ exposed' \subseteq Users
      /\ req[q].at = "revokeAll" => req[q].user \in exposed'
    BY <1>2 DEF Fails, Inv, TypeOK
<1> QED BY <1>1, <1>3, AnswerInv DEF Answers

(* A rotation goes on under the password it has read. *)
LEMMA RefreshUserInv == ASSUME Inv, NEW q \in Requests, RefreshUser(q) PROVE Inv'
<1>1. UNCHANGED tables /\ req[q].at = "findUser" /\ UNCHANGED exposed
    BY DEF RefreshUser, Continue, tables
<1>2. CASE Answer(q, "disabled")
    BY <1>1, <1>2, AnswerInv DEF Answers, Inv, TypeOK
<1>3. CASE Continue(q, "rotate")
    <2> DEFINE r == [req[q] EXCEPT !.at = "rotate"]
    <2>1. req[q] \in Request /\ "rotate" \in Points
        BY DEF Inv, TypeOK, Request, Points, SessionPoints
    <2>2. /\ r \in Request /\ r.at = "rotate" /\ r.user = req[q].user
          /\ r.token = req[q].token /\ r.password = req[q].password
        BY <2>1, PointFacts
    <2>3. req' = [req EXCEPT ![q] = r] /\ resp' \in [Requests -> Answers]
        BY <1>3 DEF Continue, Inv, TypeOK, Answers
    <2> HIDE DEF r
    <2>4. /\ r.user \in Users /\ r.token \in 1..issued /\ users[r.user].registered
          /\ r.user \notin exposed => r.password = users[r.user].password
        BY <1>1, <2>2 DEF Inv, RequestsKnown, RequestsKept
    <2>5. \A p \in Requests \ {q} :
              req[p].user = r.user /\ req[p].at \in PasswordPoints => r.user \in exposed
        BY <1>1, <2>2 DEF Inv, OverlapsExposed, SessionPoints
    <2>6. r.at \notin PasswordPoints /\ r.at # "issue"
        BY <2>2 DEF PasswordPoints
    <2>7. exposed' = exposed /\ exposed \subseteq Users
        BY <1>1 DEF Inv, TypeOK
    <2>8. \A p \in Requests \ {q} :
              /\ req[p].user = r.user
              /\ \/ r.at \in SessionPoints /\ req[p].at \in PasswordPoints
                 \/ r.at \in PasswordPoints /\ req[p].at \in SessionPoints
              => r.user \in exposed'
        BY <2>5, <2>6, <2>7
    <2>9. req[q].at # "revokeAll"
        BY <1>1
    <2> QED BY <1>1, <2>2, <2>3, <2>4, <2>6, <2>7, <2>8, <2>9, MoveInv
<1> QED BY <1>2, <1>3 DEF RefreshUser

-----------------------------------------------------------------------------
(***************************************************************************)
(* The operations that write.  Create is the only one that fills a row of  *)
(* users, and no token and no other request rests on that row before.      *)
(***************************************************************************)
LEMMA CreateUserInv == ASSUME Inv, NEW q \in Requests, CreateUser(q) PROVE Inv'
<1> DEFINE u == req[q].user
<1>1. req[q].at = "create" /\ req[q] \in Request /\ u \in Users /\ UNCHANGED <<tokens, issued, exposed>>
    BY Rows DEF CreateUser, Inv, RequestsKnown
<1>2. CASE users[u].registered
    <2>1. UNCHANGED tables /\ Answer(q, "internal error")
        BY <1>2 DEF CreateUser, tables
    <2> QED BY <1>1, <2>1, AnswerInv DEF Answers, Inv, TypeOK
<1>3. CASE ~users[u].registered
    <2> DEFINE n == writes + 1
               r == [at |-> "issue", user |-> u, token |-> 0, password |-> n]
    <2>1. n \in 0..MaxWrites /\ n \in Passwords
        <3>1. writes < MaxWrites
            BY <1>3 DEF CreateUser
        <3> QED BY <3>1, Counters, AuthAssumption DEF Passwords
    <2>2. /\ r \in Request
          /\ r.at = "issue" /\ r.user = u /\ r.token = 0 /\ r.password = n
          /\ req' = [req EXCEPT ![q] = r]
        BY <1>1, <1>3, <2>1 DEF CreateUser, Goto, Request, Points, SessionPoints
    <2>3. /\ users' \in [Users -> User]
          /\ users'[u].registered /\ users'[u].password = n
          /\ \A v \in Users \ {u} : users'[v] = users[v]
        <3>1. users' = [users EXCEPT ![u].registered = TRUE, ![u].password = n]
            BY <1>3 DEF CreateUser
        <3>2. users \in [Users -> User]
            BY DEF Inv, TypeOK
        <3> QED BY <1>1, <2>1, <3>1, <3>2 DEF User
    <2>4. resp' = resp /\ writes' = n
        BY <1>3 DEF CreateUser
    <2> HIDE DEF r, n
    <2>5. TypeOK'
        BY <1>1, <2>1, <2>2, <2>3, <2>4 DEF Inv, TypeOK, Request
    <2>6. \A p \in Requests : req'[p] = IF p = q THEN r ELSE req[p]
        BY <2>2 DEF Inv, TypeOK
    <2>7. TokensIssued'
        <3>1. \A t \in TokenIds : Live(t) => users'[tokens[t].user].registered
            BY <1>1, <1>3, <2>3, LiveFacts
        <3> QED BY <1>1, <3>1 DEF Inv, TokensIssued, Live
    <2>8. RequestsKnown'
        BY <1>1, <1>3, <2>2, <2>3, <2>6 DEF Inv, RequestsKnown
    <2>9. RotationConsumes'
        BY <1>1, <2>2, <2>6 DEF Inv, RotationConsumes
    <2>10. OverlapsExposed'
        BY <1>1, <2>2, <2>6 DEF Inv, OverlapsExposed, SessionPoints, PasswordPoints
    <2>11. SessionsKept'
        <3> SUFFICES ASSUME NEW t \in TokenIds, Live(t), tokens[t].user \notin exposed,
                            ~Revoking(tokens[t].user)'
                     PROVE  tokens[t].password = users'[tokens[t].user].password
            BY <1>1 DEF SessionsKept, Live
        <3>1. ~Revoking(tokens[t].user)
            BY <1>1, <2>2, <2>6 DEF Revoking
        <3>2. tokens[t].user \in Users \ {u}
            BY <1>3, LiveFacts
        <3> QED BY <2>3, <3>1, <3>2 DEF Inv, SessionsKept
    <2>12. RequestsKept'
        BY <1>1, <1>3, <2>2, <2>3, <2>6 DEF Inv, RequestsKept, RequestsKnown
    <2> QED BY <2>5, <2>7, <2>8, <2>9, <2>10, <2>11, <2>12 DEF Inv
<1> QED BY <1>2, <1>3

(* The new token is nobody's predecessor, and carries what its request has. *)
LEMMA IssueTokensInv == ASSUME Inv, NEW q \in Requests, IssueTokens(q) PROVE Inv'
<1> DEFINE n == issued + 1
           row == [state |-> "live", expired |-> FALSE, user |-> req[q].user,
                   parent |-> req[q].token, password |-> req[q].password]
<1>1. /\ req[q].at = "issue" /\ req[q] \in Request
      /\ req[q].user \in Users /\ users[req[q].user].registered
      /\ UNCHANGED <<users, writes, exposed>>
    BY Rows DEF IssueTokens, Inv, RequestsKnown
<1>2. n \in TokenIds /\ n = issued' /\ n > issued /\ issued' \in 0..MaxTokens
    BY Counters, AuthAssumption DEF IssueTokens, TokenIds
<1>3. /\ row \in Token /\ row.state = "live" /\ row.user = req[q].user
      /\ row.parent = req[q].token /\ row.password = req[q].password
      /\ tokens' = [tokens EXCEPT ![n] = row]
    BY <1>1 DEF IssueTokens, Token, Request
<1>4. req' = [req EXCEPT ![q] = Idle] /\ resp' \in [Requests -> Answers]
    BY DEF IssueTokens, Answer, Inv, TypeOK, Answers
<1> HIDE DEF row, n
<1>5. /\ tokens' \in [TokenIds -> Token]
      /\ \A t \in TokenIds : tokens'[t] = IF t = n THEN row ELSE tokens[t]
    BY <1>2, <1>3 DEF Inv, TypeOK
<1>6. \A p \in Requests : req'[p] = IF p = q THEN Idle ELSE req[p]
    BY <1>4 DEF Inv, TypeOK
<1>7. TypeOK'
    BY <1>1, <1>2, <1>4, <1>5, IdleFacts DEF Inv, TypeOK, Request, Answers
<1>8. TokensIssued'
    <2>1. \A t \in TokenIds : t > issued' => t > issued /\ t # n
        BY <1>2, Counters, AuthAssumption DEF TokenIds
    <2>2. \A t \in TokenIds : t <= issued' /\ t # n => t <= issued
        BY <1>2, Counters, AuthAssumption DEF TokenIds, n
    <2>3. \A t \in TokenIds : t # n /\ Live(t) => users[tokens[t].user].registered
        BY LiveFacts
    <2>4. \A t \in TokenIds \ {n} : tokens'[t] = tokens[t]
        BY <1>5
    <2>5. /\ tokens'[n].state = "live" /\ tokens'[n].user \in Users
          /\ users[tokens'[n].user].registered
        BY <1>1, <1>2, <1>3, <1>5
    <2>6. ~(n > issued')
        BY <1>2, Counters, AuthAssumption
    <2> QED BY <1>1, <2>1, <2>2, <2>3, <2>4, <2>5, <2>6 DEF Inv, TokensIssued, Live
<1>9. RequestsKnown'
    BY <1>1, <1>2, <1>6, IdleFacts, Counters DEF Inv, RequestsKnown
<1>10. RotationConsumes'
    <2>1. tokens[n].state = "absent"
        <3>1. NoToken.state = "absent"
            BY DEF NoToken
        <3> QED BY <1>2, <3>1 DEF Inv, TokensIssued
    <2>2. row.parent # 0 => row.parent \in TokenIds /\ tokens[row.parent].state = "revoked"
        BY <1>1, <1>3 DEF Inv, RotationConsumes, Request
    <2>3. \A t \in TokenIds : tokens[t].parent # 0 => tokens[t].parent \in TokenIds
        BY Rows DEF Token
    <2>4. \A t \in TokenIds : tokens'[t].parent # 0
              => tokens'[tokens'[t].parent].state = "revoked"
        BY <1>5, <2>1, <2>2, <2>3 DEF Inv, RotationConsumes
    <2>5. \A p \in Requests : req'[p].at = "issue" /\ req'[p].token # 0
              => tokens'[req'[p].token].state = "revoked"
        <3>1. \A p \in Requests : req[p].token # 0 => req[p].token \in TokenIds
            BY Rows DEF Request
        <3> QED BY <1>5, <1>6, <2>1, <3>1, IdleFacts DEF Inv, RotationConsumes
    <2> QED BY <2>4, <2>5 DEF RotationConsumes
<1>11. OverlapsExposed'
    BY <1>1, <1>6, IdleFacts DEF Inv, OverlapsExposed, SessionPoints, PasswordPoints
<1>12. SessionsKept'
    <2> SUFFICES ASSUME NEW t \in TokenIds, tokens'[t].state = "live",
                        tokens'[t].user \notin exposed, ~Revoking(tokens[t].user)'
                 PROVE  tokens'[t].password = users[tokens'[t].user].password
        BY <1>1 DEF SessionsKept, Live
    <2>1. ~Revoking(tokens'[t].user)
        BY <1>1, <1>6 DEF Revoking
    <2>2. CASE t = n
        BY <1>1, <1>3, <1>5, <2>2 DEF Inv, RequestsKept
    <2>3. CASE t # n
        BY <1>5, <2>1, <2>3 DEF Inv, SessionsKept, Live
    <2> QED BY <2>2, <2>3
<1>13. RequestsKept'
    BY <1>1, <1>6, IdleFacts DEF Inv, RequestsKept
<1> QED BY <1>7, <1>8, <1>9, <1>10, <1>11, <1>12, <1>13 DEF Inv

(***************************************************************************)
(* Tokens of set S are revoked, and one request moves to row r: Rotate and *)
(* LogoutRevoke, where S is one token.                                     *)
(***************************************************************************)
LEMMA RevokeInv ==
    ASSUME Inv, UNCHANGED <<users, issued, writes, exposed>>,
           NEW s \in 1..issued,
           tokens' = [tokens EXCEPT ![s].state = "revoked"],
           NEW q \in Requests, NEW r \in Request,
           req' = [req EXCEPT ![q] = r],
           resp' \in [Requests -> Answers],
           req[q].at # "revokeAll",
           r.at # "idle" =>
               /\ req[q].at = "rotate" /\ r.at = "issue"
               /\ r.user = req[q].user /\ r.token = s /\ r.password = req[q].password,
           r.at \notin PasswordPoints
    PROVE  Inv'
<1>1. s \in TokenIds
    BY Counters
<1>2. /\ tokens' \in [TokenIds -> Token]
      /\ tokens'[s].state = "revoked" /\ tokens'[s].user = tokens[s].user
      /\ tokens'[s].parent = tokens[s].parent
      /\ \A t \in TokenIds \ {s} : tokens'[t] = tokens[t]
    BY <1>1, RowFacts, Rows DEF Inv, TypeOK
<1>3. \A p \in Requests : req'[p] = IF p = q THEN r ELSE req[p]
    BY DEF Inv, TypeOK
<1>4. TypeOK'
    BY <1>2 DEF Inv, TypeOK, Request, Answers
<1>5. TokensIssued'
    BY <1>1, <1>2, Counters DEF Inv, TokensIssued, Live
<1>6. RequestsKnown'
    BY <1>3 DEF Inv, RequestsKnown
<1>7. RotationConsumes'
    <2>1. \A t \in TokenIds : tokens[t].parent # 0 => tokens[t].parent \in TokenIds
        BY Rows DEF Token
    <2>2. \A t \in TokenIds : tokens'[t].parent # 0
              => tokens'[tokens'[t].parent].state = "revoked"
        BY <1>1, <1>2, <2>1 DEF Inv, RotationConsumes
    <2>3. \A p \in Requests : req'[p].at = "issue" /\ req'[p].token # 0
              => tokens'[req'[p].token].state = "revoked"
        <3>1. \A p \in Requests : req[p].token # 0 => req[p].token \in TokenIds
            BY Rows DEF Request
        <3> QED BY <1>1, <1>2, <1>3, <3>1 DEF Inv, RotationConsumes
    <2> QED BY <2>2, <2>3 DEF RotationConsumes
<1>8. OverlapsExposed'
    BY <1>3 DEF Inv, OverlapsExposed, SessionPoints
<1>9. SessionsKept'
    <2> SUFFICES ASSUME NEW t \in TokenIds, tokens'[t].state = "live",
                        tokens'[t].user \notin exposed, ~Revoking(tokens[t].user)'
                 PROVE  tokens'[t].password = users[tokens'[t].user].password
        BY DEF SessionsKept, Live
    <2>1. ~Revoking(tokens'[t].user)
        BY <1>3 DEF Revoking
    <2> QED BY <1>2, <2>1 DEF Inv, SessionsKept, Live
<1>10. RequestsKept'
    BY <1>3 DEF Inv, RequestsKept
<1> QED BY <1>4, <1>5, <1>6, <1>7, <1>8, <1>9, <1>10 DEF Inv

LEMMA RotateInv == ASSUME Inv, NEW q \in Requests, Rotate(q) PROVE Inv'
<1> DEFINE r == [req[q] EXCEPT !.at = "issue"]
           s == req[q].token
<1>1. req[q].at = "rotate" /\ s \in 1..issued /\ UNCHANGED <<users, issued, writes, exposed>>
    BY DEF Rotate, Continue, Inv, RequestsKnown
<1>2. req[q] \in Request /\ "issue" \in Points
    BY Rows DEF Points, SessionPoints
<1>3. /\ r \in Request /\ r.at = "issue" /\ r.user = req[q].user
      /\ r.token = s /\ r.password = req[q].password
    BY <1>2, PointFacts
<1>4. req' = [req EXCEPT ![q] = r] /\ resp' \in [Requests -> Answers]
    BY DEF Rotate, Continue, Inv, TypeOK, Answers
<1>5. tokens' = [tokens EXCEPT ![s].state = "revoked"]
    BY DEF Rotate
<1> HIDE DEF r, s
<1>6. r.at \notin PasswordPoints
    BY <1>3 DEF PasswordPoints
<1> QED BY <1>1, <1>3, <1>4, <1>5, <1>6, RevokeInv

LEMMA LogoutRevokeInv == ASSUME Inv, NEW q \in Requests, LogoutRevoke(q) PROVE Inv'
<1> DEFINE r == Idle
           s == req[q].token
<1>1. req[q].at = "logout" /\ s \in 1..issued /\ UNCHANGED <<users, issued, writes, exposed>>
    BY DEF LogoutRevoke, Inv, RequestsKnown
<1>2. r \in Request /\ r.at = "idle"
    BY IdleFacts
<1>3. req' = [req EXCEPT ![q] = r] /\ resp' \in [Requests -> Answers]
    BY DEF LogoutRevoke, Answer, Inv, TypeOK, Answers
<1>4. tokens' = [tokens EXCEPT ![s].state = "revoked"]
    BY DEF LogoutRevoke
<1> HIDE DEF r, s
<1>5. r.at \notin PasswordPoints
    BY <1>2 DEF PasswordPoints
<1> QED BY <1>1, <1>2, <1>3, <1>4, <1>5, RevokeInv

-----------------------------------------------------------------------------
(***************************************************************************)
(* A new password parts the account from every session and every session   *)
(* request that rests on the old one; the revocation that follows is under *)
(* way, and the requests that overlap it are on record.                    *)
(***************************************************************************)
LEMMA UpdatePasswordInv == ASSUME Inv, NEW q \in Requests, UpdatePassword(q) PROVE Inv'
<1> DEFINE u == req[q].user
           n == writes + 1
           b == (req[q].at = "reset")
           r == [req[q] EXCEPT !.at = "revokeAll"]
<1>1. /\ req[q].at \in {"change", "reset"} /\ req[q] \in Request /\ u \in Users
      /\ UNCHANGED <<tokens, issued, exposed>>
    BY Rows DEF UpdatePassword, Continue, Inv, RequestsKnown
<1>2. n \in 0..MaxWrites /\ n \in Passwords /\ writes' = n
    <2>1. writes < MaxWrites /\ writes' = n
        BY DEF UpdatePassword
    <2> QED BY <2>1, Counters, AuthAssumption DEF Passwords
<1>3. /\ r \in Request /\ r.at = "revokeAll" /\ r.user = u
      /\ r.at \in PasswordPoints /\ req[q].at \in PasswordPoints
      /\ r.at \notin SessionPoints
    <2>1. "revokeAll" \in Points
        BY DEF Points, PasswordPoints
    <2> QED BY <1>1, <2>1, PointFacts DEF PasswordPoints, SessionPoints
<1>4. req' = [req EXCEPT ![q] = r] /\ resp' \in [Requests -> Answers]
    BY DEF UpdatePassword, Continue, Inv, TypeOK, Answers
<1>5. /\ users' \in [Users -> User]
      /\ users'[u].registered = users[u].registered
      /\ \A v \in Users \ {u} : users'[v] = users[v]
    <2>1. users' = [users EXCEPT ![u].password = n, ![u].mustChange = b]
        BY DEF UpdatePassword
    <2>2. users \in [Users -> User] /\ b \in BOOLEAN
        BY DEF Inv, TypeOK
    <2> HIDE DEF b, n
    <2> QED BY <1>1, <1>2, <2>1, <2>2 DEF User
<1> HIDE DEF r, n
<1>6. \A p \in Requests : req'[p] = IF p = q THEN r ELSE req[p]
    BY <1>4 DEF Inv, TypeOK
<1>7. TypeOK'
    BY <1>1, <1>2, <1>3, <1>4, <1>5 DEF Inv, TypeOK, Request, Answers
<1>8. TokensIssued'
    <2>1. \A t \in TokenIds : Live(t) => users'[tokens[t].user].registered
        BY <1>5, LiveFacts
    <2> QED BY <1>1, <2>1 DEF Inv, TokensIssued, Live
<1>9. RequestsKnown'
    BY <1>1, <1>3, <1>5, <1>6 DEF Inv, RequestsKnown
<1>10. RotationConsumes'
    BY <1>1, <1>3, <1>6 DEF Inv, RotationConsumes
<1>11. OverlapsExposed'
    BY <1>1, <1>3, <1>6 DEF Inv, OverlapsExposed
<1>12. SessionsKept'
    <2> SUFFICES ASSUME NEW t \in TokenIds, Live(t), tokens[t].user \notin exposed,
                        ~Revoking(tokens[t].user)'
                 PROVE  tokens[t].password = users'[tokens[t].user].password
        BY <1>1 DEF SessionsKept, Live
    <2>1. tokens[t].user # u
        BY <1>1, <1>3, <1>6 DEF Revoking
    <2>2. ~Revoking(tokens[t].user)
        BY <1>1, <1>3, <1>6 DEF Revoking
    <2> QED BY <1>5, <2>1, <2>2, LiveFacts DEF Inv, SessionsKept
<1>13. RequestsKept'
    <2> SUFFICES ASSUME NEW p \in Requests, req'[p].at \in CarryingPoints,
                        req'[p].user \notin exposed
                 PROVE  req'[p].password = users'[req'[p].user].password
        BY <1>1 DEF RequestsKept, CarryingPoints
    <2>1. p # q /\ req'[p] = req[p]
        BY <1>3, <1>6 DEF CarryingPoints
    <2>2. req[p].user # u
        BY <1>3, <2>1 DEF Inv, OverlapsExposed, CarryingPoints, SessionPoints
    <2> QED BY <1>5, <2>1, <2>2 DEF Inv, RequestsKept, RequestsKnown, CarryingPoints
<1> QED BY <1>7, <1>8, <1>9, <1>10, <1>11, <1>12, <1>13 DEF Inv

(***************************************************************************)
(* The revocation leaves the account no usable token at all; the account   *)
(* comes off the record only when no session request is under way.         *)
(***************************************************************************)
LEMMA RevokeAllInv == ASSUME Inv, NEW q \in Requests, RevokeAllForUser(q) PROVE Inv'
<1> DEFINE u == req[q].user
<1>1. req[q].at = "revokeAll" /\ UNCHANGED <<users, issued, writes>>
    BY DEF RevokeAllForUser
<1>2. req' = [req EXCEPT ![q] = Idle] /\ resp' \in [Requests -> Answers]
    BY DEF RevokeAllForUser, Answer, Inv, TypeOK, Answers
<1>3. /\ exposed' \subseteq exposed /\ exposed \ {u} \subseteq exposed'
      /\ u \notin exposed' => u \notin exposed \/ InFlight(u, SessionPoints) = {}
    BY DEF RevokeAllForUser
<1>4. /\ tokens' \in [TokenIds -> Token]
      /\ \A t \in TokenIds :
            /\ tokens'[t] = tokens[t]
                 \/ (Live(t) /\ tokens[t].user = u /\ tokens'[t].state = "revoked")
            /\ tokens'[t].user = tokens[t].user
            /\ tokens'[t].parent = tokens[t].parent
            /\ tokens'[t].password = tokens[t].password
            /\ Live(t) /\ tokens[t].user = u => tokens'[t].state = "revoked"
    <2>1. tokens' = [t \in TokenIds |->
                       IF Live(t) /\ tokens[t].user = u
                         THEN [tokens[t] EXCEPT !.state = "revoked"] ELSE tokens[t]]
        BY DEF RevokeAllForUser
    <2>2. \A t \in TokenIds :
             /\ tokens[t] \in Token
             /\ [tokens[t] EXCEPT !.state = "revoked"] \in Token
             /\ [tokens[t] EXCEPT !.state = "revoked"].state = "revoked"
             /\ [tokens[t] EXCEPT !.state = "revoked"].user = tokens[t].user
             /\ [tokens[t] EXCEPT !.state = "revoked"].parent = tokens[t].parent
             /\ [tokens[t] EXCEPT !.state = "revoked"].password = tokens[t].password
        BY Rows, RowFacts
    <2> QED BY <2>1, <2>2
<1>5. \A p \in Requests : req'[p] = IF p = q THEN Idle ELSE req[p]
    BY <1>2 DEF Inv, TypeOK
<1>6. Idle.at \notin CarryingPoints \cup SessionPoints \cup PasswordPoints
    BY IdleFacts DEF CarryingPoints, SessionPoints, PasswordPoints
<1>7. TypeOK'
    BY <1>1, <1>2, <1>3, <1>4, IdleFacts DEF Inv, TypeOK, Request, Answers
<1>8. TokensIssued'
    <2> SUFFICES ASSUME NEW t \in TokenIds
                 PROVE  /\ t > issued => tokens'[t] = NoToken
                        /\ t <= issued => tokens'[t].state # "absent" /\ tokens'[t].user \in Users
                        /\ tokens'[t].state = "live" => users[tokens'[t].user].registered
        BY <1>1 DEF TokensIssued, Live
    <2>1. t > issued => ~Live(t)
        <3>1. NoToken.state = "absent"
            BY DEF NoToken
        <3> QED BY <3>1 DEF Inv, TokensIssued, Live
    <2>2. tokens'[t].state = "live" => Live(t)
        BY <1>4 DEF Live
    <2> QED BY <1>4, <2>1, <2>2 DEF Inv, TokensIssued
<1>9. RequestsKnown'
    BY <1>1, <1>5, IdleFacts DEF Inv, RequestsKnown
<1>10. RotationConsumes'
    <2>1. \A t \in TokenIds : tokens[t].parent # 0 => tokens[t].parent \in TokenIds
        BY Rows DEF Token
    <2>2. \A p \in Requests : req[p].token # 0 => req[p].token \in TokenIds
        BY Rows DEF Request
    <2>3. \A t \in TokenIds : tokens[t].state = "revoked" => tokens'[t].state = "revoked"
        BY <1>4
    <2>4. \A t \in TokenIds : tokens'[t].parent # 0
              => tokens'[tokens'[t].parent].state = "revoked"
        BY <1>4, <2>1, <2>3 DEF Inv, RotationConsumes
    <2>5. \A p \in Requests : req'[p].at = "issue" /\ req'[p].token # 0
              => tokens'[req'[p].token].state = "revoked"
        BY <1>5, <2>2, <2>3, IdleFacts DEF Inv, RotationConsumes
    <2> QED BY <2>4, <2>5 DEF RotationConsumes
<1>11. OverlapsExposed'
    <2> SUFFICES ASSUME NEW p1 \in Requests, NEW p2 \in Requests,
                        req'[p1].at \in SessionPoints, req'[p2].at \in PasswordPoints,
                        req'[p1].user = req'[p2].user
                 PROVE  req'[p1].user \in exposed'
        BY DEF OverlapsExposed
    <2>1. req'[p1] = req[p1] /\ req'[p2] = req[p2]
        BY <1>5, <1>6
    <2>2. req[p1].user \in exposed
        BY <2>1 DEF Inv, OverlapsExposed
    <2>3. req[p1].user = u => InFlight(u, SessionPoints) # {}
        BY <2>1 DEF InFlight
    <2> QED BY <1>3, <2>1, <2>2, <2>3
<1>12. SessionsKept'
    <2> SUFFICES ASSUME NEW t \in TokenIds, tokens'[t].state = "live",
                        tokens'[t].user \notin exposed', ~Revoking(tokens[t].user)'
                 PROVE  tokens'[t].password = users[tokens'[t].user].password
        BY <1>1 DEF SessionsKept, Live
    <2>1. Live(t) /\ tokens[t].user # u /\ tokens'[t] = tokens[t]
        BY <1>4 DEF Live
    <2>2. tokens[t].user \notin exposed
        BY <1>3, <2>1
    <2>3. ~Revoking(tokens[t].user)
        BY <1>5, <2>1 DEF Revoking
    <2> QED BY <2>1, <2>2, <2>3 DEF Inv, SessionsKept
<1>13. RequestsKept'
    <2> SUFFICES ASSUME NEW p \in Requests, req'[p].at \in CarryingPoints,
                        req'[p].user \notin exposed'
                 PROVE  req'[p].password = users[req'[p].user].password
        BY <1>1 DEF RequestsKept, CarryingPoints
    <2>1. req'[p] = req[p]
        BY <1>5, <1>6
    <2>2. req[p].user \notin exposed
        BY <1>3, <2>1 DEF InFlight, CarryingPoints, SessionPoints
    <2> QED BY <2>1, <2>2 DEF Inv, RequestsKept, CarryingPoints
<1> QED BY <1>7, <1>8, <1>9, <1>10, <1>11, <1>12, <1>13 DEF Inv

(* The disabled flag bears on no session, and expiry on no session's rows. *)
LEMMA SetDisabledInv ==
    ASSUME Inv, NEW u \in Users, NEW disabled \in BOOLEAN, SetDisabled(u, disabled)
    PROVE  Inv'
<1>1. /\ users' \in [Users -> User]
      /\ \A v \in Users : /\ users'[v].registered = users[v].registered
                          /\ users'[v].password = users[v].password
    BY DEF SetDisabled, Inv, TypeOK, User
<1>2. UNCHANGED <<tokens, issued, writes, req, resp, exposed>>
    BY DEF SetDisabled
<1>3. TypeOK'
    BY <1>1, <1>2 DEF Inv, TypeOK
<1>4. TokensIssued'
    <2>1. \A t \in TokenIds : Live(t) => users'[tokens[t].user].registered
        BY <1>1, LiveFacts
    <2> QED BY <1>2, <2>1 DEF Inv, TokensIssued, Live
<1>5. RequestsKnown' /\ RotationConsumes' /\ OverlapsExposed'
    BY <1>1, <1>2 DEF Inv, RequestsKnown, RotationConsumes, OverlapsExposed
<1>6. SessionsKept'
    <2>1. \A t \in TokenIds : Live(t) => tokens[t].user \in Users
        BY LiveFacts
    <2> QED BY <1>1, <1>2, <2>1 DEF Inv, SessionsKept, Live, Revoking
<1>7. RequestsKept'
    BY <1>1, <1>2 DEF Inv, RequestsKept, RequestsKnown
<1> QED BY <1>3, <1>4, <1>5, <1>6, <1>7 DEF Inv

LEMMA ExpireInv == ASSUME Inv, NEW t \in TokenIds, Expire(t) PROVE Inv'
<1>1. UNCHANGED <<users, issued, writes, req, resp, exposed>> /\ t <= issued
    BY DEF Expire
<1>2. /\ tokens' \in [TokenIds -> Token]
      /\ \A i \in TokenIds :
            /\ i > issued => tokens'[i] = tokens[i]
            /\ tokens'[i].state = tokens[i].state
            /\ tokens'[i].user = tokens[i].user
            /\ tokens'[i].parent = tokens[i].parent
            /\ tokens'[i].password = tokens[i].password
    <2>1. tokens' = [tokens EXCEPT ![t].expired = TRUE]
        BY DEF Expire
    <2>2. ~(t > issued)
        BY <1>1, Counters, AuthAssumption DEF TokenIds
    <2> QED BY <2>1, <2>2, Rows, RowFacts DEF Inv, TypeOK
<1>3. TypeOK'
    BY <1>1, <1>2 DEF Inv, TypeOK
<1>4. TokensIssued' /\ SessionsKept'
    BY <1>1, <1>2 DEF Inv, TokensIssued, SessionsKept, Live, Revoking
<1>5. RequestsKnown' /\ OverlapsExposed' /\ RequestsKept'
    BY <1>1 DEF Inv, RequestsKnown, OverlapsExposed, RequestsKept
<1>6. RotationConsumes'
    <2>1. \A i \in TokenIds : tokens[i].parent # 0 => tokens[i].parent \in TokenIds
        BY Rows DEF Token
    <2>2. \A p \in Requests : req[p].token # 0 => req[p].token \in TokenIds
        BY Rows DEF Request
    <2> QED BY <1>1, <1>2, <2>1, <2>2 DEF Inv, RotationConsumes
<1> QED BY <1>3, <1>4, <1>5, <1>6 DEF Inv

-----------------------------------------------------------------------------
LEMMA NextInv == Inv /\ [Next]_vars => Inv'
<1> SUFFICES ASSUME Inv, [Next]_vars PROVE Inv'
    OBVIOUS
<1>1. ASSUME NEW q \in Requests, Arrive(q) PROVE Inv'
    BY <1>1, RegisterInv, ResetPasswordInv, LoginInv, ChangePasswordInv,
       RefreshInv, LogoutInv DEF Arrive
<1>2. ASSUME NEW q \in Requests, Proceed(q) PROVE Inv'
    BY <1>2, CreateUserInv, IssueTokensInv, RefreshUserInv, RotateInv,
       LogoutRevokeInv, UpdatePasswordInv, RevokeAllInv DEF Proceed
<1>3. CASE UNCHANGED vars
    BY <1>3 DEF vars, Inv, TypeOK, TokensIssued, RequestsKnown, RotationConsumes,
       OverlapsExposed, SessionsKept, RequestsKept, Live, Revoking
<1> QED BY <1>1, <1>2, <1>3, FailsInv, SetDisabledInv, ExpireInv DEF Next

(* The inductive invariant of accounts and sessions. *)
THEOREM AuthInvariant == Spec => []Inv
BY InitInv, NextInv, PTL DEF Spec

(* Both tables and every request stay within their types. *)
THEOREM TypeCorrect == Spec => []TypeOK
<1>1. Inv => TypeOK
    BY DEF Inv
<1> QED BY <1>1, AuthInvariant, PTL

(***************************************************************************)
(* Rotations consume the token they were given: Refresh revokes before it  *)
(* issues, so a request that fails between the two statements leaves the   *)
(* client with no token, never with two.                                   *)
(***************************************************************************)
THEOREM RotationsConsume == Spec => []RotationConsumes
<1>1. Inv => RotationConsumes
    BY DEF Inv
<1> QED BY <1>1, AuthInvariant, PTL

(***************************************************************************)
(* Without an overlapping session request or a failed revocation, no       *)
(* usable token outlives the password it rests on.                         *)
(***************************************************************************)
THEOREM SessionsOnPassword == Spec => []SessionsRestOnPassword
<1>1. Inv => SessionsRestOnPassword
    <2> SUFFICES ASSUME Inv, NEW t \in TokenIds, Live(t), tokens[t].user \notin exposed,
                        InFlight(tokens[t].user, PasswordPoints) = {}
                 PROVE  tokens[t].password = users[tokens[t].user].password
        BY DEF SessionsRestOnPassword
    <2>1. ~Revoking(tokens[t].user)
        BY DEF Revoking, InFlight, PasswordPoints
    <2> QED BY <2>1 DEF Inv, SessionsKept
<1> QED BY <1>1, AuthInvariant, PTL
=============================================================================
