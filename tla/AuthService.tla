----------------------------- MODULE AuthService -----------------------------
(***************************************************************************)
(* Accounts and sessions: internal/auth/service.go over the users table    *)
(* (internal/user/user.go) and the refresh_tokens table                    *)
(* (internal/auth/refresh_repo.go), with the admin operations that act on  *)
(* the same rows (internal/admin/handler.go).                              *)
(*                                                                         *)
(* No operation runs in a transaction: one step is one SQL statement, and  *)
(* requests interleave between any two.  A password is the number of the   *)
(* write that set it, so a password is never chosen twice.                 *)
(***************************************************************************)
EXTENDS Integers, FiniteSets

CONSTANTS
    Users,        \* e-mail addresses; an account per address
    Requests,     \* slots for requests in flight
    MaxTokens,    \* bound on the refresh tokens ever issued
    MaxWrites,    \* bound on the passwords ever set
    DBFaults      \* TRUE iff database calls may fail

ASSUME AuthAssumption ==
    MaxTokens \in Nat /\ MaxWrites \in Nat /\ DBFaults \in BOOLEAN

VARIABLES
    users,        \* the users table
    tokens,       \* the refresh_tokens table, with what each token rests on
    issued,       \* tokens issued so far
    writes,       \* passwords set so far
    req,          \* requests in flight
    resp,         \* what each slot's last request answered
    exposed       \* history: users with a session request and a password
                  \* request under way at once, or an unfinished revocation

vars == <<users, tokens, issued, writes, req, resp, exposed>>

TokenIds == 1..MaxTokens
Passwords == 0..MaxWrites

User == [registered : BOOLEAN, password : Passwords,
         disabled : BOOLEAN, mustChange : BOOLEAN]

(* parent: the token that was rotated into this one, 0 for a login.        *)
(* password: the password that the chain of rotations began with.          *)
Token == [state : {"absent", "live", "revoked"}, expired : BOOLEAN,
          user : Users \cup {""}, parent : TokenIds \cup {0}, password : Passwords]

NoToken == [state |-> "absent", expired |-> FALSE, user |-> "",
            parent |-> 0, password |-> 0]

(***************************************************************************)
(* A request in flight: the statement it executes next, the account and    *)
(* the token it works on, and the password it has read.                    *)
(***************************************************************************)
SessionPoints  == {"create", "issue", "findUser", "rotate"}
PasswordPoints == {"reset", "change", "revokeAll"}
Points == SessionPoints \cup PasswordPoints \cup {"idle", "logout"}

Idle == [at |-> "idle", user |-> "", token |-> 0, password |-> 0]

Live(t) == tokens[t].state = "live"
InFlight(u, S) == {q \in Requests : req[q].at \in S /\ req[q].user = u}

Init ==
    /\ users = [u \in Users |-> [registered |-> FALSE, password |-> 0,
                                 disabled |-> FALSE, mustChange |-> FALSE]]
    /\ tokens = [t \in TokenIds |-> NoToken]
    /\ issued = 0 /\ writes = 0
    /\ req = [q \in Requests |-> Idle]
    /\ resp = [q \in Requests |-> "none"]
    /\ exposed = {}

-----------------------------------------------------------------------------
Goto(q, point, u, t, p) ==
    req' = [req EXCEPT ![q] = [at |-> point, user |-> u, token |-> t, password |-> p]]

(* The request ends with an answer. *)
Answer(q, r) ==
    /\ req' = [req EXCEPT ![q] = Idle]
    /\ resp' = [resp EXCEPT ![q] = r]

(* The first statement of a request has been executed; another follows. *)
Enter(q, point, u, t, p) ==
    /\ Goto(q, point, u, t, p)
    /\ resp' = [resp EXCEPT ![q] = "none"]
    /\ exposed' =
         IF \/ point \in SessionPoints /\ InFlight(u, PasswordPoints) # {}
            \/ point \in PasswordPoints /\ InFlight(u, SessionPoints) # {}
         THEN exposed \cup {u} ELSE exposed

(* The first statement is also the last. *)
Refuse(q, r) == Answer(q, r) /\ UNCHANGED exposed

Continue(q, point) ==
    /\ req' = [req EXCEPT ![q].at = point]
    /\ UNCHANGED <<resp, exposed>>

-----------------------------------------------------------------------------
(* Register: EmailExists, then Create, which the unique index may refuse. *)
Register(q, u) ==
    /\ req[q] = Idle
    /\ \/ users[u].registered /\ Refuse(q, "conflict")
       \/ ~users[u].registered /\ Enter(q, "create", u, 0, 0)
    /\ UNCHANGED <<users, tokens, issued, writes>>

CreateUser(q) ==
    LET u == req[q].user IN
    /\ req[q].at = "create"
    /\ \/ /\ users[u].registered
          /\ Answer(q, "internal error")
          /\ UNCHANGED <<users, writes>>
       \/ /\ ~users[u].registered
          /\ writes < MaxWrites
          /\ writes' = writes + 1
          /\ users' = [users EXCEPT ![u].registered = TRUE, ![u].password = writes + 1]
          /\ Goto(q, "issue", u, 0, writes + 1)
          /\ UNCHANGED resp
    /\ UNCHANGED <<tokens, issued, exposed>>

(* Login: the account, its disabled flag and its password are read once. *)
Login(q, u, p) ==
    /\ req[q] = Idle
    /\ \/ /\ ~users[u].registered \/ (~users[u].disabled /\ users[u].password # p)
          /\ Refuse(q, "unauthorized")
       \/ users[u].registered /\ users[u].disabled /\ Refuse(q, "disabled")
       \/ /\ users[u].registered /\ ~users[u].disabled /\ users[u].password = p
          /\ Enter(q, "issue", u, 0, p)
    /\ UNCHANGED <<users, tokens, issued, writes>>

(* issueTokens: the new refresh token is stored and the request answered. *)
IssueTokens(q) ==
    /\ req[q].at = "issue"
    /\ issued < MaxTokens
    /\ issued' = issued + 1
    /\ tokens' = [tokens EXCEPT ![issued + 1] =
                    [state |-> "live", expired |-> FALSE, user |-> req[q].user,
                     parent |-> req[q].token, password |-> req[q].password]]
    /\ Answer(q, "ok")
    /\ UNCHANGED <<users, writes, exposed>>

-----------------------------------------------------------------------------
(* Refresh: find the token, find the user, revoke the token, issue. *)

Refresh(q, t) ==
    /\ req[q] = Idle
    /\ t <= issued
    /\ \/ (~Live(t) \/ tokens[t].expired) /\ Refuse(q, "unauthorized")
       \/ /\ Live(t) /\ ~tokens[t].expired
          /\ Enter(q, "findUser", tokens[t].user, t, tokens[t].password)
    /\ UNCHANGED <<users, tokens, issued, writes>>

RefreshUser(q) ==
    /\ req[q].at = "findUser"
    /\ \/ users[req[q].user].disabled /\ Answer(q, "disabled") /\ UNCHANGED exposed
       \/ ~users[req[q].user].disabled /\ Continue(q, "rotate")
    /\ UNCHANGED <<users, tokens, issued, writes>>

(* Mutant: the old token is left alone. *)
RotateKeepsOld(q) ==
    /\ req[q].at = "rotate"
    /\ Continue(q, "issue")
    /\ UNCHANGED <<users, tokens, issued, writes>>

Rotate(q) ==
    /\ req[q].at = "rotate"
    /\ tokens' = [tokens EXCEPT ![req[q].token].state = "revoked"]
    /\ Continue(q, "issue")
    /\ UNCHANGED <<users, issued, writes>>

(* Logout: find the token, revoke it whatever its state. *)
Logout(q, t) ==
    /\ req[q] = Idle
    /\ t <= issued
    /\ Enter(q, "logout", tokens[t].user, t, 0)
    /\ UNCHANGED <<users, tokens, issued, writes>>

(* Mutant: the row is deleted by a state the table does not know. *)
LogoutDeletes(q) ==
    /\ req[q].at = "logout"
    /\ tokens' = [tokens EXCEPT ![req[q].token].state = "deleted"]
    /\ Answer(q, "ok")
    /\ UNCHANGED <<users, issued, writes, exposed>>

LogoutRevoke(q) ==
    /\ req[q].at = "logout"
    /\ tokens' = [tokens EXCEPT ![req[q].token].state = "revoked"]
    /\ Answer(q, "ok")
    /\ UNCHANGED <<users, issued, writes, exposed>>

-----------------------------------------------------------------------------
(* ChangePassword and ResetPasswordByAdmin: read, write, revoke all.       *)
(* RequireAuth lets only enabled accounts reach ChangePassword.            *)
ChangePassword(q, u, old) ==
    /\ req[q] = Idle
    /\ users[u].registered /\ ~users[u].disabled
    /\ \/ users[u].password # old /\ Refuse(q, "unauthorized")
       \/ users[u].password = old /\ Enter(q, "change", u, 0, old)
    /\ UNCHANGED <<users, tokens, issued, writes>>

ResetPasswordByAdmin(q, u) ==
    /\ req[q] = Idle
    /\ users[u].registered
    /\ Enter(q, "reset", u, 0, 0)
    /\ UNCHANGED <<users, tokens, issued, writes>>

UpdatePassword(q) ==
    /\ req[q].at \in {"change", "reset"}
    /\ writes < MaxWrites
    /\ writes' = writes + 1
    /\ users' = [users EXCEPT ![req[q].user].password = writes + 1,
                              ![req[q].user].mustChange = (req[q].at = "reset")]
    /\ Continue(q, "revokeAll")
    /\ UNCHANGED <<tokens, issued>>

(* Mutant: the sessions of the account are kept. *)
RevokeNone(q) ==
    /\ req[q].at = "revokeAll"
    /\ Answer(q, "ok")
    /\ UNCHANGED <<users, tokens, issued, writes, exposed>>

RevokeAllForUser(q) ==
    LET u == req[q].user IN
    /\ req[q].at = "revokeAll"
    /\ tokens' = [t \in TokenIds |->
                    IF Live(t) /\ tokens[t].user = u
                      THEN [tokens[t] EXCEPT !.state = "revoked"] ELSE tokens[t]]
    /\ exposed' = IF InFlight(u, SessionPoints) = {} THEN exposed \ {u} ELSE exposed
    /\ Answer(q, "ok")
    /\ UNCHANGED <<users, issued, writes>>

-----------------------------------------------------------------------------
(* SetDisabled, from the admin's UpdateUser. *)
SetDisabled(u, disabled) ==
    /\ users[u].registered
    /\ users' = [users EXCEPT ![u].disabled = disabled]
    /\ UNCHANGED <<tokens, issued, writes, req, resp, exposed>>

(* Seven days pass. *)
Expire(t) ==
    /\ t <= issued
    /\ tokens' = [tokens EXCEPT ![t].expired = TRUE]
    /\ UNCHANGED <<users, issued, writes, req, resp, exposed>>

(* A statement fails, or the client goes away and its context is           *)
(* cancelled: the request ends between two of its statements.              *)
Fails(q) ==
    /\ DBFaults
    /\ req[q] # Idle
    /\ Answer(q, "internal error")
    /\ exposed' = IF req[q].at = "revokeAll" THEN exposed \cup {req[q].user} ELSE exposed
    /\ UNCHANGED <<users, tokens, issued, writes>>

-----------------------------------------------------------------------------
Arrive(q) ==
    \/ \E u \in Users :
         \/ Register(q, u) \/ ResetPasswordByAdmin(q, u)
         \/ \E p \in 0..writes : Login(q, u, p) \/ ChangePassword(q, u, p)
    \/ \E t \in TokenIds : Refresh(q, t) \/ Logout(q, t)

Proceed(q) ==
    \/ CreateUser(q)   \/ IssueTokens(q)  \/ RefreshUser(q) \/ Rotate(q)
    \/ LogoutRevoke(q) \/ UpdatePassword(q) \/ RevokeAllForUser(q)

Next ==
    \/ \E q \in Requests : Arrive(q) \/ Proceed(q) \/ Fails(q)
    \/ \E u \in Users, disabled \in BOOLEAN : SetDisabled(u, disabled)
    \/ \E t \in TokenIds : Expire(t)

Spec == Init /\ [][Next]_vars

-----------------------------------------------------------------------------
(* Types of both tables and of the requests. *)
TypeOK ==
    /\ users \in [Users -> User]
    /\ tokens \in [TokenIds -> Token]
    /\ issued \in 0..MaxTokens
    /\ writes \in 0..MaxWrites
    /\ req \in [Requests -> [at : Points, user : Users \cup {""},
                             token : TokenIds \cup {0}, password : Passwords]]
    /\ resp \in [Requests -> {"none", "ok", "conflict", "unauthorized",
                              "disabled", "internal error"}]
    /\ exposed \subseteq Users

(***************************************************************************)
(* Refresh never leaves the token it was given usable: a token minted by a *)
(* rotation, and a rotation about to mint one, have a revoked predecessor, *)
(* even when the request fails half-way.                                   *)
(***************************************************************************)
RotationConsumes ==
    /\ \A t \in TokenIds : tokens[t].parent # 0 => tokens[tokens[t].parent].state = "revoked"
    /\ \A q \in Requests : req[q].at = "issue" /\ req[q].token # 0
                             => tokens[req[q].token].state = "revoked"

(***************************************************************************)
(* A password change or reset ends every older session: with no such       *)
(* request under way, each usable token rests on the present password,     *)
(* unless a session request for that account overlapped the change or its  *)
(* revocation failed.                                                      *)
(***************************************************************************)
SessionsRestOnPassword ==
    \A t \in TokenIds : LET u == tokens[t].user IN
      Live(t) /\ u \notin exposed /\ InFlight(u, PasswordPoints) = {}
        => tokens[t].password = users[u].password
=============================================================================
