------------------------------ MODULE Identity ------------------------------
(***************************************************************************)
(* Accounts and login sessions: the slices s.users and s.sessions, the maps  *)
(* userByID and sessionByID that requests are authenticated from, and the     *)
(* handlers that change them.                                                 *)
(*                                                                           *)
(* A method of Store is one step, it runs under s.mu.  A handler is several:   *)
(* it reads a copy of an account, and later writes the whole copy back        *)
(* (UpdateUser) or creates and deletes sessions for it.  A task is one such    *)
(* goroutine: a request, or the goroutine a login leaves behind to record     *)
(* itself in the account.                                                     *)
(*                                                                           *)
(* The files users.json and sessions.json are taken to hold what the slices    *)
(* hold; how they may lag behind is the subject of StoreFile.                 *)
(*                                                                           *)
(* Left out: passwords, roles other than the built-in administrator, session  *)
(* binding to a client, SSO logins and the temporary lock of an account.      *)
(***************************************************************************)
EXTENDS Naturals, FiniteSets

CONSTANTS Names,      \* user names, other than the administrator's
          Tokens,     \* session IDs; each is issued once
          NoToken,    \* no session ID
          Tasks,      \* goroutines
          MaxCreated, \* bound on the accounts ever created
          Faults      \* which of these may happen: a "restart", a reset to
                      \* "empty", a reset of the "database", a failing "save"

ASSUME IdentityAssumption ==
    /\ MaxCreated \in Nat \ {0}
    /\ IsFiniteSet(Tasks)
    /\ "administrator" \notin Names
    /\ NoToken \notin Tokens
    /\ Faults \subseteq {"restart", "empty", "database", "save"}

VARIABLES users,       \* s.users, as a set of records with distinct IDs
          userByID,    \* the map the requests read
          nextUserID,  \* the last ID handed out
          sessions,    \* s.sessions, as a set of records
          sessionByID, \* the map the requests read
          expired,     \* sessions whose ExpiresAt has passed
          issued,      \* session IDs handed out
          task,        \* what each goroutine is doing
          created,     \* history: number of accounts created
          barred       \* history: accounts whose block was confirmed

accounts == <<users, userByID, nextUserID, created>>
logins == <<sessions, sessionByID, expired, issued>>
vars == <<accounts, logins, task, barred>>

Admin == 1

\* born numbers the account itself: IDs may be handed out again, born is not.
User == [id : Nat, born : Nat, name : Names \cup {"administrator"},
         vetted : BOOLEAN, blocked : BOOLEAN]
Session == [tok : Tokens, uid : Nat, born : Nat]

TheAdmin == [id |-> Admin, born |-> Admin, name |-> "administrator",
             vetted |-> TRUE, blocked |-> FALSE]

\* A task between two steps holds its copy of an account and its session ID.
Idle == [at |-> "idle", user |-> TheAdmin, tok |-> NoToken]

Goes(w, at, u) == task' = [task EXCEPT ![w] = [at |-> at, user |-> u, tok |-> NoToken]]
Ends(w) == task' = [task EXCEPT ![w] = Idle]

UserIndex(us) == [i \in {u.id : u \in us} |-> CHOOSE u \in us : u.id = i]
SessionIndex(ss) == [t \in {s.tok : s \in ss} |-> CHOOSE s \in ss : s.tok = t]

Init == /\ users = {TheAdmin}
        /\ userByID = UserIndex(users)
        /\ nextUserID = Admin
        /\ sessions = {}
        /\ sessionByID = SessionIndex({})
        /\ expired = {}
        /\ issued = {}
        /\ task = [w \in Tasks |-> Idle]
        /\ created = Admin
        /\ barred = {}

\* Mutant: the block is not looked at.
MayLogInBlocked(u) == u.vetted \/ u.id = Admin

(***************************************************************************)
(* What getSession accepts: a known session that has not expired, of a known  *)
(* account that is neither blocked nor awaiting approval.                     *)
(***************************************************************************)
MayLogIn(u) == ~u.blocked /\ (u.vetted \/ u.id = Admin)

Authenticates(tok) ==
    /\ tok \in DOMAIN sessionByID \ expired
    /\ sessionByID[tok].uid \in DOMAIN userByID
    /\ MayLogIn(userByID[sessionByID[tok].uid])

(***************************************************************************)
(* Bounds: a goroutine that will create an account or a session counts.      *)
(***************************************************************************)
At(step) == {w \in Tasks : task[w].at = step}
RoomForUser == created + Cardinality(At("create user")) < MaxCreated
RoomForSession == Cardinality(issued) + Cardinality(At("create session")) < Cardinality(Tokens)

\* A method has changed the memory when writing its file fails; the handler
\* answers with an error and skips the rest of its work.
SaveFails == "save" \in Faults

(***************************************************************************)
(* Methods of Store on accounts.                                             *)
(***************************************************************************)
\* Mutant: IDs are the number of accounts plus one.
CreateUserCounting(n, vetted) ==
    LET u == [id |-> Cardinality(users) + 1, born |-> created + 1, name |-> n,
              vetted |-> vetted, blocked |-> FALSE]
    IN  /\ created' = created + 1
        /\ nextUserID' = u.id
        /\ users' = users \cup {u}
        /\ userByID' = [i \in DOMAIN userByID \cup {u.id} |->
                           IF i = u.id THEN u ELSE userByID[i]]

CreateUser(n, vetted) ==
    LET u == [id |-> nextUserID + 1, born |-> created + 1, name |-> n,
              vetted |-> vetted, blocked |-> FALSE]
    IN  /\ created' = created + 1
        /\ nextUserID' = u.id
        /\ users' = users \cup {u}
        /\ userByID' = [i \in DOMAIN userByID \cup {u.id} |->
                           IF i = u.id THEN u ELSE userByID[i]]

\* The whole record is replaced, or nothing happens when the ID is gone.
Stored(id) == \E u \in users : u.id = id

UpdateUser(u) ==
    /\ Stored(u.id)
    /\ users' = {v \in users : v.id # u.id} \cup {u}
    /\ userByID' = [i \in DOMAIN userByID \cup {u.id} |->
                       IF i = u.id THEN u ELSE userByID[i]]
    /\ UNCHANGED <<nextUserID, created>>

UpdateUserOrFail(u) == UpdateUser(u) \/ (~Stored(u.id) /\ UNCHANGED accounts)

Without(f, S) == [x \in DOMAIN f \ S |-> f[x]]

\* Mutant: the account stays in the map.
DeleteUserKeepsIndex(id) ==
    /\ Stored(id) /\ id # Admin
    /\ users' = {u \in users : u.id # id}
    /\ sessions' = {s \in sessions : s.uid # id}
    /\ UNCHANGED <<userByID, nextUserID, created, sessionByID, expired, issued, task, barred>>

\* The account's sessions leave the slice; the session map is not touched.
DeleteUser(id) ==
    /\ Stored(id) /\ id # Admin
    /\ users' = {u \in users : u.id # id}
    /\ userByID' = Without(userByID, {id})
    /\ sessions' = {s \in sessions : s.uid # id}
    /\ UNCHANGED <<nextUserID, created, sessionByID, expired, issued, task, barred>>

VetUser(id) ==
    /\ \E u \in users : u.id = id /\ UpdateUser([u EXCEPT !.vetted = TRUE])
    /\ UNCHANGED <<logins, task, barred>>

(***************************************************************************)
(* Methods of Store on sessions.                                             *)
(***************************************************************************)
DropSessions(gone) ==
    /\ sessions' = sessions \ gone
    /\ sessionByID' = Without(sessionByID, {s.tok : s \in gone})
    /\ UNCHANGED <<expired, issued>>

DeleteSessionsForUser(id) == DropSessions({s \in sessions : s.uid = id})

DeleteSessionsForUserExcept(id, tok) ==
    DropSessions({s \in sessions : s.uid = id /\ s.tok # tok})

CreateSession(s) ==
    /\ sessions' = sessions \cup {s}
    /\ sessionByID' = [t \in DOMAIN sessionByID \cup {s.tok} |->
                          IF t = s.tok THEN s ELSE sessionByID[t]]
    /\ issued' = issued \cup {s.tok}
    /\ UNCHANGED expired

DeleteSession(tok) ==
    /\ \E s \in sessions : s.tok = tok
    /\ DropSessions({s \in sessions : s.tok = tok})
    /\ UNCHANGED <<accounts, task, barred>>

\* Expired sessions go, and the map is rebuilt, when there are any.
CleanExpiredSessions ==
    /\ \E s \in sessions : s.tok \in expired
    /\ sessions' = {s \in sessions : s.tok \notin expired}
    /\ sessionByID' = SessionIndex(sessions')
    /\ UNCHANGED <<accounts, expired, issued, task, barred>>

Expire(tok) ==
    /\ tok \in issued \ expired
    /\ expired' = expired \cup {tok}
    /\ UNCHANGED <<accounts, sessions, sessionByID, issued, task, barred>>

(***************************************************************************)
(* handleRegister and handleCreateUser.                                      *)
(***************************************************************************)
Named(n) == \E u \in users : u.name = n

\* CreateUserIfNotExists checks and creates under one lock.
Register(n, vetted) ==
    /\ RoomForUser /\ ~Named(n)
    /\ CreateUser(n, vetted)
    /\ UNCHANGED <<logins, task, barred>>

\* The administrator's form checks first and creates later.
CheckName(w, n) ==
    /\ RoomForUser /\ task[w] = Idle /\ ~Named(n)
    /\ Goes(w, "create user", [TheAdmin EXCEPT !.name = n])
    /\ UNCHANGED <<accounts, logins, barred>>

CreateChecked(w) ==
    /\ task[w].at = "create user"
    /\ CreateUser(task[w].user.name, TRUE)
    /\ Ends(w)
    /\ UNCHANGED <<logins, barred>>

(***************************************************************************)
(* handleLogin.  The account is read from the slice by name; the response is  *)
(* sent after the other sessions are deleted, and a goroutine then records    *)
(* the login in a copy of the account it reads again.  A wrong password       *)
(* leaves the same kind of goroutine behind.                                  *)
(***************************************************************************)
StartLogin(w, u) ==
    /\ RoomForSession /\ task[w] = Idle /\ u \in users /\ MayLogIn(u)
    /\ Goes(w, "create session", u)
    /\ UNCHANGED <<accounts, logins, barred>>

\* Mutant: the other sessions are not deleted.
LoginCreatesOnly(w, tok) ==
    /\ task[w].at = "create session" /\ tok \notin issued
    /\ CreateSession([tok |-> tok, uid |-> task[w].user.id, born |-> task[w].user.born])
    /\ Goes(w, "read back", task[w].user)
    /\ UNCHANGED <<accounts, barred>>

LoginCreates(w, tok) ==
    /\ task[w].at = "create session" /\ tok \notin issued
    /\ CreateSession([tok |-> tok, uid |-> task[w].user.id, born |-> task[w].user.born])
    /\ \/ task' = [task EXCEPT ![w].at = "evict others", ![w].tok = tok]
       \/ SaveFails /\ Ends(w)
    /\ UNCHANGED <<accounts, barred>>

LoginEvicts(w) ==
    /\ task[w].at = "evict others"
    /\ DeleteSessionsForUserExcept(task[w].user.id, task[w].tok)
    /\ Goes(w, "read back", task[w].user)
    /\ UNCHANGED <<accounts, barred>>

WrongPassword(w, u) ==
    /\ task[w] = Idle /\ u \in users /\ MayLogIn(u)
    /\ Goes(w, "read back", u)
    /\ UNCHANGED <<accounts, logins, barred>>

ReadBack(w) ==
    /\ task[w].at = "read back"
    /\ LET id == task[w].user.id
       IN  IF id \in DOMAIN userByID THEN Goes(w, "record login", userByID[id])
                                     ELSE Ends(w)
    /\ UNCHANGED <<accounts, logins, barred>>

RecordLogin(w) ==
    /\ task[w].at = "record login"
    /\ UpdateUserOrFail(task[w].user)
    /\ Ends(w)
    /\ UNCHANGED <<logins, barred>>

(***************************************************************************)
(* handleLogout, with and without "all sessions".                            *)
(***************************************************************************)
Logout(tok) == DeleteSession(tok)

LogoutEverywhere(tok) ==
    /\ Authenticates(tok)
    /\ DeleteSessionsForUser(sessionByID[tok].uid)
    /\ UNCHANGED <<accounts, task, barred>>

(***************************************************************************)
(* handleBlockUser and handleUnblockUser.                                    *)
(***************************************************************************)
ReadToBlock(w, id) ==
    /\ task[w] = Idle /\ id \in DOMAIN userByID \ {Admin}
    /\ Goes(w, "block", userByID[id])
    /\ UNCHANGED <<accounts, logins, barred>>

Block(w) ==
    /\ task[w].at = "block"
    /\ LET u == [task[w].user EXCEPT !.blocked = TRUE]
       IN  \/ UpdateUser(u) /\ Goes(w, "evict blocked", u)
           \/ UpdateUser(u) /\ SaveFails /\ Ends(w)
           \/ ~Stored(u.id) /\ UNCHANGED accounts /\ Ends(w)
    /\ UNCHANGED <<logins, barred>>

BlockEvicts(w) ==
    /\ task[w].at = "evict blocked"
    /\ DeleteSessionsForUser(task[w].user.id)
    /\ barred' = barred \cup {u.born : u \in {v \in users : v.id = task[w].user.id /\ v.blocked}}
    /\ Ends(w)
    /\ UNCHANGED accounts

ReadToUnblock(w, id) ==
    /\ task[w] = Idle /\ id \in DOMAIN userByID
    /\ Goes(w, "unblock", userByID[id])
    /\ barred' = barred \ {userByID[id].born}
    /\ UNCHANGED <<accounts, logins>>

Unblock(w) ==
    /\ task[w].at = "unblock"
    /\ UpdateUserOrFail([task[w].user EXCEPT !.blocked = FALSE])
    /\ barred' = barred \ {task[w].user.born}
    /\ Ends(w)
    /\ UNCHANGED logins

(***************************************************************************)
(* Resets and restart.                                                       *)
(***************************************************************************)
\* handleAdminReset, first ResetToEmpty: only the administrator stays in the
\* slice, as the copy the request was authenticated with, and IDs start over,
\* but neither map is cleared ...
ResetToEmpty(w) ==
    /\ "empty" \in Faults
    /\ task[w] = Idle
    /\ Admin \in DOMAIN userByID
    /\ users' = {userByID[Admin]}
    /\ nextUserID' = Admin
    /\ sessions' = {}
    /\ Goes(w, "delete all sessions", TheAdmin) \/ (SaveFails /\ Ends(w))
    /\ UNCHANGED <<userByID, sessionByID, expired, issued, created, barred>>

\* ... then every session goes, from the map too.
DeleteAllSessions(w) ==
    /\ task[w].at = "delete all sessions"
    /\ sessions' = {}
    /\ sessionByID' = SessionIndex({})
    /\ Ends(w)
    /\ UNCHANGED <<accounts, expired, issued, barred>>

\* Both maps are cleared, the slices of accounts and sessions are kept.
ResetDatabase ==
    /\ "database" \in Faults
    /\ userByID' = UserIndex({})
    /\ sessionByID' = SessionIndex({})
    /\ UNCHANGED <<users, nextUserID, created, sessions, expired, issued, task, barred>>

\* Mutant: the counter of account IDs is not restored.
LoadFromZero ==
    /\ "restart" \in Faults
    /\ userByID' = UserIndex(users)
    /\ nextUserID' = 0
    /\ sessionByID' = SessionIndex(sessions)
    /\ task' = [w \in Tasks |-> Idle]
    /\ UNCHANGED <<users, created, sessions, expired, issued, barred>>

\* A new process loads the slices from the files and builds the maps.
Load ==
    /\ "restart" \in Faults
    /\ userByID' = UserIndex(users)
    /\ nextUserID' = CHOOSE i \in {u.id : u \in users} : \A u \in users : u.id <= i
    /\ sessionByID' = SessionIndex(sessions)
    /\ task' = [w \in Tasks |-> Idle]
    /\ UNCHANGED <<users, created, sessions, expired, issued, barred>>

LoginNext(w) == \/ \E u \in users : StartLogin(w, u) \/ WrongPassword(w, u)
                \/ \E tok \in Tokens : LoginCreates(w, tok)
                \/ LoginEvicts(w) \/ ReadBack(w) \/ RecordLogin(w)

AdminNext(w) == \/ \E n \in Names : CheckName(w, n)
                \/ CreateChecked(w)
                \/ \E id \in 1..MaxCreated : ReadToBlock(w, id) \/ ReadToUnblock(w, id)
                \/ Block(w) \/ BlockEvicts(w) \/ Unblock(w)
                \/ ResetToEmpty(w) \/ DeleteAllSessions(w)

Next == \/ \E w \in Tasks : LoginNext(w) \/ AdminNext(w)
        \/ \E n \in Names, vetted \in BOOLEAN : Register(n, vetted)
        \/ \E id \in 1..MaxCreated : VetUser(id) \/ DeleteUser(id)
        \/ \E tok \in Tokens : Logout(tok) \/ LogoutEverywhere(tok) \/ Expire(tok)
        \/ CleanExpiredSessions
        \/ ResetDatabase
        \/ Load

Spec == Init /\ [][Next]_vars

(***************************************************************************)
(* Properties.                                                               *)
(***************************************************************************)

\* The variables keep their types (store.go, models.go: User, Session).
TypeOK == /\ users \subseteq User
          /\ \A i \in DOMAIN userByID : userByID[i] \in User /\ userByID[i].id = i
          /\ nextUserID \in Admin..MaxCreated
          /\ sessions \subseteq Session
          /\ \A t \in DOMAIN sessionByID : sessionByID[t] \in Session /\ sessionByID[t].tok = t
          /\ expired \subseteq issued /\ issued \subseteq Tokens
          /\ \A w \in Tasks : task[w].user \in User /\ task[w].tok \in Tokens \cup {NoToken}
          /\ created \in Admin..MaxCreated
          /\ barred \subseteq 1..MaxCreated

\* Although DeleteUser leaves sessions in the map, whoever is authenticated by
\* a session has that session in the slice and the account in the slice
\* (getSession looks only at the maps).  Holds until a reset to empty, which
\* forgets the accounts and not the map of them.
RequestsComeFromAccounts ==
    \A t \in Tokens : Authenticates(t) =>
       /\ sessionByID[t] \in sessions
       /\ userByID[sessionByID[t].uid] \in users

\* A session only ever authenticates the account that logged in: sessions die
\* with the account (DeleteUser) and its ID goes to nobody else.  Holds until a
\* reset to empty or a restart, after which IDs are handed out again.
SessionsDieWithAccount ==
    \A t \in Tokens : Authenticates(t) =>
       userByID[sessionByID[t].uid].born = sessionByID[t].born

\* Two sessions of one account exist only while a login that created one of
\* them has not yet deleted the others (handleLogin creates before it deletes).
\* Holds while files can be written: CreateSession answers with an error, and
\* keeps the session, when its save fails.
OneSessionPerUser ==
    \A s, t \in sessions : s.uid = t.uid /\ s # t =>
       \E w \in Tasks : task[w].at = "evict others" /\ task[w].user.id = s.uid

\* Once handleBlockUser has answered with the block in force, no session of that
\* account works until somebody unblocks it.  Holds when handlers run one at a
\* time; a login recorded from an older copy of the account undoes the block.
BlockHolds ==
    \A t \in Tokens : Authenticates(t) =>
       userByID[sessionByID[t].uid].born \notin barred
=============================================================================
