--------------------------- MODULE IdentityProofs ---------------------------
(***************************************************************************)
(* The properties of Identity, for any names, tokens and tasks and any number  *)
(* of accounts.                                                              *)
(*                                                                           *)
(* TypeOK holds whatever fails.  That IDs restart from the largest one stored   *)
(* needs a largest one: LargestExists takes it from the least of its bounds.   *)
(* RequestsComeFromAccounts holds until a reset to empty.                      *)
(* SessionsDieWithAccount rests on IDs not being handed out again, and so holds  *)
(* until a restart as well.  OneSessionPerUser needs saves that work and a       *)
(* process that goes on.  BlockHolds is for one handler at a time.             *)
(***************************************************************************)
EXTENDS Identity, FiniteSetTheorems, WellFoundedInduction, TLAPS

Steps == {"idle", "create user", "create session", "evict others", "read back",
          "record login", "block", "evict blocked", "unblock", "delete all sessions"}
Work == [at : Steps, user : User, tok : Tokens \cup {NoToken}]

\* One of the first n accounts.
Known(u, n) == u \in User /\ u.id \in 1..n /\ u.born \in 1..n

AccountTypes ==
    /\ \A u \in users : Known(u, created)
    /\ Stored(Admin)
    /\ \A i \in DOMAIN userByID : userByID[i].id = i /\ Known(userByID[i], created)
    /\ created \in 1..MaxCreated /\ nextUserID \in 1..created

LoginTypes ==
    /\ sessions \subseteq Session
    /\ \A t \in DOMAIN sessionByID : sessionByID[t] \in Session /\ sessionByID[t].tok = t
    /\ expired \subseteq issued /\ issued \subseteq Tokens

TaskTypes == task \in [Tasks -> Work] /\ \A w \in Tasks : Known(task[w].user, created)

\* There is room for the accounts that are about to be created.
Creating == At("create user")
Room == created + Cardinality(Creating) <= MaxCreated

TInv == AccountTypes /\ LoginTypes /\ TaskTypes /\ Room /\ barred \subseteq 1..created

(***************************************************************************)
(* What is true of the largest number of a set, and of tasks.                 *)
(***************************************************************************)
\* A bounded set of numbers has a largest one.
LEMMA LargestExists ==
    ASSUME NEW S \in SUBSET Nat, S # {}, NEW b \in Nat, \A x \in S : x <= b
    PROVE  \E m \in S : \A x \in S : x <= m
  <1> DEFINE bounds == {n \in Nat : \A x \in S : x <= n}
  <1>1. PICK m \in bounds : \A n \in bounds : ~(<<n, m>> \in OpToRel(<, Nat))
    <2>1. bounds \subseteq Nat /\ bounds # {}
      OBVIOUS
    <2>2. QED BY <2>1, WFMin, NatLessThanWellFounded, Zenon
  <1>2. \A n \in bounds : ~(n < m)
    BY <1>1 DEF OpToRel
  <1>3. m \in S
    <2> SUFFICES ASSUME m \notin S PROVE FALSE
      OBVIOUS
    <2>1. m \in Nat /\ \A x \in S : x \in Nat /\ x < m
      OBVIOUS
    <2>2. m - 1 \in Nat
      <3>1. PICK x : x \in S
        OBVIOUS
      <3>2. QED BY <2>1, <3>1
    <2>3. \A x \in S : x <= m - 1
      <3> HIDE DEF bounds
      <3>1. QED BY <2>1
    <2>4. m - 1 \in bounds /\ m - 1 < m
      BY <2>1, <2>2, <2>3
    <2>5. QED BY <2>4, <1>2
  <1>4. QED BY <1>3

\* The administrator's record is one.
LEMMA AdminShape == ASSUME created \in Nat \ {0} PROVE Known(TheAdmin, created)
  BY DEF Known, TheAdmin, User, Admin

\* A record stays the account's when other fields change.
LEMMA ChangedShape ==
    ASSUME NEW k, NEW u, Known(u, k)
    PROVE  /\ \A n \in Names : Known([u EXCEPT !.name = n], k)
           /\ \A b \in BOOLEAN : /\ Known([u EXCEPT !.vetted = b], k)
                                 /\ Known([u EXCEPT !.blocked = b], k)
  <1>1. u \in User /\ u.id \in 1..k /\ u.born \in 1..k
    BY DEF Known
  <1>2. ASSUME NEW n \in Names PROVE Known([u EXCEPT !.name = n], k)
    BY <1>1 DEF Known, User
  <1>3. ASSUME NEW b \in BOOLEAN PROVE Known([u EXCEPT !.vetted = b], k)
    BY <1>1 DEF Known, User
  <1>4. ASSUME NEW b \in BOOLEAN PROVE Known([u EXCEPT !.blocked = b], k)
    BY <1>1 DEF Known, User
  <1>5. QED BY <1>2, <1>3, <1>4

LEMMA AtFinite == ASSUME NEW step PROVE IsFiniteSet(At(step)) /\ Cardinality(At(step)) \in Nat
  <1>1. At(step) \in SUBSET Tasks /\ IsFiniteSet(Tasks)
    BY IdentityAssumption DEF At
  <1>2. QED BY <1>1, FS_Subset, FS_CardinalityType

\* A task that takes a step keeps the types, if what it holds is an account.
LEMMA TaskMoves ==
    ASSUME TaskTypes, created \in Nat, created' \in Nat, created' >= created,
           NEW w \in Tasks, NEW work \in Work, Known(work.user, created'),
           task' = [task EXCEPT ![w] = work]
    PROVE  TaskTypes'
  <1>1. task' \in [Tasks -> Work]
    BY DEF TaskTypes
  <1>2. \A v \in Tasks : Known(task'[v].user, created')
    <2> TAKE v \in Tasks
    <2>1. CASE v = w
      BY <2>1 DEF TaskTypes
    <2>2. CASE v # w
      <3>1. task'[v] = task[v]
        BY <2>2 DEF TaskTypes
      <3>2. Known(task[v].user, created)
        BY DEF TaskTypes
      <3>3. QED BY <3>1, <3>2 DEF Known
    <2>3. QED BY <2>1, <2>2
  <1>3. QED BY <1>1, <1>2 DEF TaskTypes

LEMMA TasksStay ==
    ASSUME TaskTypes, created \in Nat, created' \in Nat, created' >= created, UNCHANGED task
    PROVE  TaskTypes'
  BY DEF TaskTypes, Known

\* No task more is about to create an account.
LEMMA RoomStays ==
    ASSUME Room, created \in Nat, created' = created, Creating' \subseteq Creating
    PROVE  Room'
  <1>1. IsFiniteSet(Creating)
    BY AtFinite DEF Creating
  <1>2. /\ Cardinality(Creating') <= Cardinality(Creating)
        /\ Cardinality(Creating') \in Nat /\ Cardinality(Creating) \in Nat
    BY <1>1, FS_Subset, FS_CardinalityType
  <1>3. QED BY <1>2, IdentityAssumption DEF Room

\* A task that goes elsewhere is not about to create an account.
LEMMA Elsewhere ==
    ASSUME TaskTypes, NEW w \in Tasks, NEW work \in Work, work.at # "create user",
           task' = [task EXCEPT ![w] = work]
    PROVE  Creating' \subseteq Creating
  BY DEF At, Creating, TaskTypes

(***************************************************************************)
(* The methods keep the types.                                               *)
(***************************************************************************)
LEMMA CreateUserTypes ==
    ASSUME AccountTypes, created < MaxCreated, NEW n \in Names \cup {"administrator"},
           NEW vetted \in BOOLEAN, CreateUser(n, vetted)
    PROVE  AccountTypes' /\ created' = created + 1
  <1> DEFINE u == [id |-> nextUserID + 1, born |-> created + 1, name |-> n,
                   vetted |-> vetted, blocked |-> FALSE]
  <1>1. /\ created' = created + 1 /\ nextUserID' = u.id /\ users' = users \cup {u}
        /\ userByID' = [i \in DOMAIN userByID \cup {u.id} |->
                           IF i = u.id THEN u ELSE userByID[i]]
    BY DEF CreateUser
  <1>2. /\ created \in 1..MaxCreated /\ nextUserID \in 1..created /\ MaxCreated \in Nat
    BY IdentityAssumption DEF AccountTypes
  <1>3. Known(u, created')
    BY <1>1, <1>2 DEF Known, User
  <1>4. \A v : Known(v, created) => Known(v, created')
    BY <1>1, <1>2 DEF Known
  <1> HIDE DEF u
  <1>5. \A v \in users' : Known(v, created')
    BY <1>1, <1>3, <1>4 DEF AccountTypes
  <1>6. \A i \in DOMAIN userByID' : userByID'[i].id = i /\ Known(userByID'[i], created')
    BY <1>1, <1>3, <1>4 DEF AccountTypes
  <1>7. Stored(Admin)'
    BY <1>1 DEF AccountTypes, Stored
  <1>8. created' \in 1..MaxCreated /\ nextUserID' \in 1..created'
    BY <1>1, <1>2 DEF u
  <1>9. QED BY <1>1, <1>5, <1>6, <1>7, <1>8 DEF AccountTypes

LEMMA UpdateUserTypes ==
    ASSUME AccountTypes, NEW u, Known(u, created), UpdateUser(u)
    PROVE  AccountTypes' /\ created' = created
  <1>1. /\ created' = created /\ nextUserID' = nextUserID
        /\ users' = {v \in users : v.id # u.id} \cup {u}
        /\ userByID' = [i \in DOMAIN userByID \cup {u.id} |->
                           IF i = u.id THEN u ELSE userByID[i]]
    BY DEF UpdateUser
  <1>2. \A v \in users' : Known(v, created')
    BY <1>1 DEF AccountTypes
  <1>3. \A i \in DOMAIN userByID' : userByID'[i].id = i /\ Known(userByID'[i], created')
    BY <1>1 DEF AccountTypes
  <1>4. Stored(Admin)'
    BY <1>1 DEF AccountTypes, Stored
  <1>5. QED BY <1>1, <1>2, <1>3, <1>4 DEF AccountTypes

LEMMA AccountsStay ==
    ASSUME AccountTypes, UNCHANGED accounts
    PROVE  AccountTypes' /\ created' = created /\ created \in Nat
  BY DEF AccountTypes, accounts, Stored

LEMMA UpdateOrFailTypes ==
    ASSUME AccountTypes, NEW u, Known(u, created), UpdateUserOrFail(u)
    PROVE  AccountTypes' /\ created' = created
  BY UpdateUserTypes, AccountsStay DEF UpdateUserOrFail

LEMMA DropSessionsTypes ==
    ASSUME LoginTypes, NEW gone, DropSessions(gone)
    PROVE  LoginTypes'
  BY DEF LoginTypes, DropSessions, Without

LEMMA CreateSessionTypes ==
    ASSUME LoginTypes, NEW s \in Session, CreateSession(s)
    PROVE  LoginTypes'
  <1>1. s.tok \in Tokens
    BY DEF Session
  <1>2. sessions' \subseteq Session /\ expired' \subseteq issued' /\ issued' \subseteq Tokens
    BY <1>1 DEF LoginTypes, CreateSession
  <1>3. \A t \in DOMAIN sessionByID' : sessionByID'[t] \in Session /\ sessionByID'[t].tok = t
    BY DEF LoginTypes, CreateSession
  <1>4. QED BY <1>2, <1>3 DEF LoginTypes

LEMMA LoginsStay == ASSUME LoginTypes, UNCHANGED logins PROVE LoginTypes'
  BY DEF LoginTypes, logins

\* A map built from typed sessions is typed.
LEMMA SessionIndexShape ==
    ASSUME NEW ss \in SUBSET Session
    PROVE  \A t \in DOMAIN SessionIndex(ss) : /\ SessionIndex(ss)[t] \in ss
                                             /\ SessionIndex(ss)[t].tok = t
  BY DEF SessionIndex

\* What is idle has its type.
LEMMA IdleShape ==
    ASSUME created \in Nat \ {0}
    PROVE  Idle \in Work /\ Known(Idle.user, created) /\ Idle.at = "idle"
  BY AdminShape DEF Idle, Work, Steps, Known

LEMMA NobodyCreates == ASSUME task = [w \in Tasks |-> Idle] PROVE Creating = {}
  <1>1. Idle.at # "create user"
    BY DEF Idle
  <1>2. QED BY <1>1 DEF Creating, At

(***************************************************************************)
(* The types hold.                                                          *)
(***************************************************************************)
LEMMA InitTInv == Init => TInv
  <1> SUFFICES ASSUME Init PROVE TInv
    OBVIOUS
  <1>1. created = 1 /\ created \in 1..MaxCreated /\ Admin = 1
    BY IdentityAssumption DEF Init, Admin
  <1>2. Known(TheAdmin, created) /\ TheAdmin.id = Admin
    BY <1>1, AdminShape DEF TheAdmin
  <1>3. userByID = [i \in {u.id : u \in users} |-> CHOOSE u \in users : u.id = i]
    BY DEF Init, UserIndex
  <1>4. \A i \in DOMAIN userByID : userByID[i] \in users /\ userByID[i].id = i
    BY <1>3
  <1>5. AccountTypes
    BY <1>1, <1>2, <1>4 DEF Init, AccountTypes, Stored
  <1>6. LoginTypes
    BY DEF Init, LoginTypes, SessionIndex
  <1>7. task = [w \in Tasks |-> Idle] /\ Idle \in Work /\ Known(Idle.user, created)
    BY <1>1, IdleShape DEF Init
  <1>8. TaskTypes
    BY <1>7 DEF TaskTypes
  <1>9. Creating = {}
    BY <1>7, NobodyCreates
  <1>10. Room
    BY <1>1, <1>9, FS_EmptySet DEF Room
  <1>11. QED BY <1>5, <1>6, <1>8, <1>10 DEF TInv, Init

LEMMA CountShape ==
    ASSUME TInv
    PROVE  /\ created \in Nat \ {0} /\ created \in 1..MaxCreated /\ MaxCreated \in Nat \ {0}
           /\ created >= created
  BY IdentityAssumption DEF TInv, AccountTypes

\* A task that goes on to another step, or ends, when no account is created.
LEMMA GoesTypes ==
    ASSUME TInv, created' = created, NEW w \in Tasks, NEW at \in Steps \ {"create user"},
           NEW u, Known(u, created), Goes(w, at, u)
    PROVE  TaskTypes' /\ Room'
  <1> DEFINE work == [at |-> at, user |-> u, tok |-> NoToken]
  <1>1. work \in Work /\ work.at # "create user" /\ work.user = u
    BY DEF Work, Known
  <1>2. task' = [task EXCEPT ![w] = work]
    BY DEF Goes
  <1> HIDE DEF work
  <1>3. created \in Nat /\ created' \in Nat /\ created' >= created
    BY CountShape
  <1>4. TaskTypes'
    BY <1>1, <1>2, <1>3, TaskMoves DEF TInv
  <1>5. Room'
    BY <1>1, <1>2, <1>3, Elsewhere, RoomStays DEF TInv
  <1>6. QED BY <1>4, <1>5

LEMMA EndsTypes ==
    ASSUME TInv, created' = created, NEW w \in Tasks, Ends(w)
    PROVE  TaskTypes' /\ Room'
  <1>1. created \in Nat \ {0} /\ created' \in Nat /\ created' >= created
    BY CountShape
  <1>2. Idle \in Work /\ Idle.at # "create user" /\ Known(Idle.user, created)
    BY <1>1, IdleShape
  <1>3. task' = [task EXCEPT ![w] = Idle]
    BY DEF Ends
  <1>4. TaskTypes'
    BY <1>1, <1>2, <1>3, TaskMoves DEF TInv
  <1>5. Room'
    BY <1>1, <1>2, <1>3, Elsewhere, RoomStays DEF TInv
  <1>6. QED BY <1>4, <1>5

LEMMA TasksStayTypes ==
    ASSUME TInv, created' = created, UNCHANGED task
    PROVE  TaskTypes' /\ Room'
  <1>1. created \in Nat /\ created' \in Nat /\ created' >= created
    BY CountShape
  <1>2. Creating' \subseteq Creating
    BY DEF Creating, At
  <1>3. QED BY <1>1, <1>2, TasksStay, RoomStays DEF TInv

\* What a task holds.
LEMMA HeldShape ==
    ASSUME TInv, NEW w \in Tasks
    PROVE  /\ Known(task[w].user, created) /\ task[w].tok \in Tokens \cup {NoToken}
           /\ task[w].user \in User /\ created \in Nat \ {0} /\ created \in 1..MaxCreated
           /\ Known(TheAdmin, created)
  <1>1. created \in Nat \ {0} /\ created \in 1..MaxCreated
    BY CountShape
  <1>2. QED BY <1>1, AdminShape DEF TInv, TaskTypes, Work, Known

LEMMA CreationsTypes ==
    ASSUME TInv
    PROVE  /\ \A n \in Names, vetted \in BOOLEAN : Register(n, vetted) => TInv'
           /\ \A w \in Tasks, n \in Names : CheckName(w, n) => TInv'
           /\ \A w \in Tasks : CreateChecked(w) => TInv'
  <1>1. /\ created \in Nat \ {0} /\ MaxCreated \in Nat /\ IsFiniteSet(Creating)
        /\ Cardinality(Creating) \in Nat /\ created + Cardinality(Creating) <= MaxCreated
    BY CountShape, AtFinite DEF TInv, Room, Creating
  <1>2. RoomForUser => created + Cardinality(Creating) < MaxCreated
    BY DEF RoomForUser, Creating
  <1>3. ASSUME NEW n \in Names, NEW vetted \in BOOLEAN, Register(n, vetted) PROVE TInv'
    <2>1. created < MaxCreated /\ RoomForUser /\ CreateUser(n, vetted)
      BY <1>1, <1>2, <1>3 DEF Register
    <2>2. AccountTypes' /\ created' = created + 1
      BY <2>1, CreateUserTypes DEF TInv
    <2>3. LoginTypes' /\ TaskTypes'
      BY <1>1, <1>3, <2>2, LoginsStay, TasksStay DEF Register, TInv
    <2>4. Creating' = Creating
      BY <1>3 DEF Register, Creating, At
    <2>5. Room'
      BY <1>1, <1>2, <2>1, <2>2, <2>4 DEF Room
    <2>6. barred' \subseteq 1..created'
      BY <1>1, <1>3, <2>2 DEF Register, TInv
    <2>7. QED BY <2>2, <2>3, <2>5, <2>6 DEF TInv
  <1>4. ASSUME NEW w \in Tasks, NEW n \in Names, CheckName(w, n) PROVE TInv'
    <2> DEFINE work == [at |-> "create user", user |-> [TheAdmin EXCEPT !.name = n],
                        tok |-> NoToken]
    <2>1. /\ RoomForUser /\ UNCHANGED accounts /\ UNCHANGED logins /\ UNCHANGED barred
          /\ task' = [task EXCEPT ![w] = work]
      BY <1>4 DEF CheckName, Goes
    <2>2. work \in Work /\ Known(work.user, created) /\ work.at = "create user"
      <3>1. Known(TheAdmin, created)
        BY HeldShape
      <3>2. Known([TheAdmin EXCEPT !.name = n], created)
        BY <3>1, ChangedShape
      <3>3. QED BY <3>2 DEF Work, Steps, Known
    <2> HIDE DEF work
    <2>3. AccountTypes' /\ created' = created /\ LoginTypes'
      BY <2>1, AccountsStay, LoginsStay DEF TInv
    <2>4. TaskTypes'
      <3>1. created' \in Nat /\ created' >= created
        BY <1>1, <2>3
      <3>2. Known(work.user, created')
        BY <2>2, <2>3
      <3>3. QED BY <3>1, <3>2, <1>1, <2>1, <2>2, TaskMoves DEF TInv
    <2>5. Creating' = Creating \cup {w}
      BY <2>1, <2>2 DEF Creating, At, TInv, TaskTypes
    <2>6. Room'
      <3>1. Cardinality(Creating') = IF w \in Creating THEN Cardinality(Creating)
                                                        ELSE Cardinality(Creating) + 1
        BY <1>1, <2>5, FS_AddElement
      <3>2. QED BY <1>1, <1>2, <2>1, <2>3, <3>1 DEF Room
    <2>7. QED BY <2>1, <2>3, <2>4, <2>6 DEF TInv
  <1>5. ASSUME NEW w \in Tasks, CreateChecked(w) PROVE TInv'
    <2>1. /\ task[w].at = "create user" /\ CreateUser(task[w].user.name, TRUE)
          /\ task' = [task EXCEPT ![w] = Idle] /\ UNCHANGED logins /\ UNCHANGED barred
      BY <1>5 DEF CreateChecked, Ends
    <2>2. Idle \in Work /\ Idle.at = "idle" /\ Known(Idle.user, created)
      BY <1>1, IdleShape
    <2>3. Creating' = Creating \ {w} /\ w \in Creating
      BY <2>1, <2>2 DEF Creating, At, TInv, TaskTypes
    <2>4. /\ Cardinality(Creating') = Cardinality(Creating) - 1
          /\ Cardinality(Creating') \in Nat
      BY <1>1, <2>3, FS_RemoveElement, FS_CardinalityType
    <2>5. created < MaxCreated
      BY <1>1, <2>4
    <2>6. task[w].user.name \in Names \cup {"administrator"}
      BY HeldShape DEF User
    <2>7. AccountTypes' /\ created' = created + 1
      BY <2>1, <2>5, <2>6, CreateUserTypes DEF TInv
    <2>8. LoginTypes'
      BY <2>1, LoginsStay DEF TInv
    <2>9. created' \in Nat /\ created' >= created /\ Known(Idle.user, created')
      BY <1>1, <2>2, <2>7 DEF Known
    <2>10. TaskTypes'
      BY <1>1, <2>1, <2>2, <2>7, <2>9, TaskMoves DEF TInv
    <2>11. Room'
      BY <1>1, <2>4, <2>7 DEF Room
    <2>12. barred' \subseteq 1..created'
      <3>1. barred' = barred /\ barred \subseteq 1..created
        BY <2>1 DEF TInv
      <3>2. QED BY <1>1, <2>7, <3>1
    <2>13. QED BY <2>7, <2>8, <2>10, <2>11, <2>12 DEF TInv
  <1>6. QED BY <1>3, <1>4, <1>5

\* The steps of a login keep the types.
LEMMA LoginTypesKept == ASSUME TInv, NEW w \in Tasks, LoginNext(w) PROVE TInv'
  <1>1. /\ Known(task[w].user, created) /\ task[w].user \in User
        /\ \A u \in users : Known(u, created)
        /\ \A i \in DOMAIN userByID : Known(userByID[i], created)
    BY HeldShape DEF TInv, AccountTypes
  <1>2. UNCHANGED accounts => AccountTypes' /\ created' = created
    BY AccountsStay DEF TInv
  <1>3. UNCHANGED barred /\ created' = created => (barred \subseteq 1..created)'
    BY DEF TInv
  <1>4. UNCHANGED logins => LoginTypes'
    BY LoginsStay DEF TInv
  <1>5. CASE \E u \in users : StartLogin(w, u) \/ WrongPassword(w, u)
    <2>1. PICK u \in users : StartLogin(w, u) \/ WrongPassword(w, u)
      BY <1>5
    <2>2. /\ UNCHANGED accounts /\ UNCHANGED logins /\ UNCHANGED barred
          /\ Goes(w, "create session", u) \/ Goes(w, "read back", u)
      BY <2>1 DEF StartLogin, WrongPassword
    <2>3. TaskTypes' /\ Room'
      BY <1>1, <1>2, <2>2, GoesTypes DEF Steps
    <2>4. QED BY <1>2, <1>3, <1>4, <2>2, <2>3 DEF TInv
  <1>6. CASE \E tok \in Tokens : LoginCreates(w, tok)
    <2>1. PICK tok \in Tokens : LoginCreates(w, tok)
      BY <1>6
    <2> DEFINE s == [tok |-> tok, uid |-> task[w].user.id, born |-> task[w].user.born]
               work == [task[w] EXCEPT !.at = "evict others", !.tok = tok]
    <2>2. /\ CreateSession(s) /\ UNCHANGED accounts /\ UNCHANGED barred
          /\ \/ task' = [task EXCEPT ![w].at = "evict others", ![w].tok = tok]
             \/ Ends(w)
      BY <2>1 DEF LoginCreates
    <2>3. s \in Session
      BY <1>1 DEF Session, User
    <2>4. LoginTypes'
      BY <2>2, <2>3, CreateSessionTypes DEF TInv
    <2>5. work \in Work /\ work.at = "evict others" /\ work.user = task[w].user
      <3>1. task[w] \in Work
        BY DEF TInv, TaskTypes
      <3>2. QED BY <3>1 DEF Work, Steps
    <2>6. CASE task' = [task EXCEPT ![w].at = "evict others", ![w].tok = tok]
      <3>1. task' = [task EXCEPT ![w] = work]
        BY <2>6 DEF TInv, TaskTypes, Work
      <3>2. created' = created /\ created' \in Nat /\ created' >= created
        BY <1>2, <2>2, CountShape
      <3>3. TaskTypes' /\ Creating' \subseteq Creating
        <4> HIDE DEF work
        <4>1. Known(work.user, created')
          BY <1>1, <2>5, <3>2
        <4>2. QED BY <2>5, <3>1, <3>2, <4>1, TaskMoves, Elsewhere DEF TInv
      <3>4. Room'
        BY <3>2, <3>3, RoomStays DEF TInv
      <3>5. QED BY <1>2, <1>3, <2>2, <2>4, <3>3, <3>4 DEF TInv
    <2>7. CASE Ends(w)
      <3>1. TaskTypes' /\ Room'
        BY <1>2, <2>2, <2>7, EndsTypes
      <3>2. QED BY <1>2, <1>3, <2>2, <2>4, <3>1 DEF TInv
    <2>8. QED BY <2>2, <2>6, <2>7
  <1>7. CASE LoginEvicts(w)
    <2>1. /\ UNCHANGED accounts /\ UNCHANGED barred /\ Goes(w, "read back", task[w].user)
          /\ \E gone : DropSessions(gone)
      BY <1>7 DEF LoginEvicts, DeleteSessionsForUserExcept
    <2>2. TaskTypes' /\ Room'
      BY <1>1, <1>2, <2>1, GoesTypes DEF Steps
    <2>3. LoginTypes'
      BY <2>1, DropSessionsTypes DEF TInv
    <2>4. QED BY <1>2, <1>3, <2>1, <2>2, <2>3 DEF TInv
  <1>8. CASE ReadBack(w)
    <2>1. /\ UNCHANGED accounts /\ UNCHANGED logins /\ UNCHANGED barred
          /\ \/ \E i \in DOMAIN userByID : Goes(w, "record login", userByID[i])
             \/ Ends(w)
      BY <1>8 DEF ReadBack
    <2>2. TaskTypes' /\ Room'
      BY <1>1, <1>2, <2>1, GoesTypes, EndsTypes DEF Steps
    <2>3. QED BY <1>2, <1>3, <1>4, <2>1, <2>2 DEF TInv
  <1>9. CASE RecordLogin(w)
    <2>1. UpdateUserOrFail(task[w].user) /\ Ends(w) /\ UNCHANGED logins /\ UNCHANGED barred
      BY <1>9 DEF RecordLogin
    <2>2. AccountTypes' /\ created' = created
      BY <1>1, <2>1, UpdateOrFailTypes DEF TInv
    <2>3. TaskTypes' /\ Room'
      BY <2>1, <2>2, EndsTypes
    <2>4. QED BY <1>3, <1>4, <2>1, <2>2, <2>3 DEF TInv
  <1>10. QED BY <1>5, <1>6, <1>7, <1>8, <1>9 DEF LoginNext

\* The steps of the administrator's requests keep the types.
LEMMA AdminTypesKept == ASSUME TInv, NEW w \in Tasks, AdminNext(w) PROVE TInv'
  <1>1. /\ Known(task[w].user, created) /\ Known(TheAdmin, created)
        /\ \A u \in users : Known(u, created)
        /\ \A i \in DOMAIN userByID : Known(userByID[i], created) /\ userByID[i].id = i
    BY HeldShape DEF TInv, AccountTypes
  <1>2. UNCHANGED accounts => AccountTypes' /\ created' = created
    BY AccountsStay DEF TInv
  <1>3. /\ barred \subseteq 1..created
        /\ \A S : barred' = barred \ S /\ created' = created => (barred \subseteq 1..created)'
    BY DEF TInv
  <1>4. UNCHANGED logins => LoginTypes'
    BY LoginsStay DEF TInv
  <1>5. CASE (\E n \in Names : CheckName(w, n)) \/ CreateChecked(w)
    BY <1>5, CreationsTypes
  <1>6. ASSUME NEW id \in 1..MaxCreated, ReadToBlock(w, id) \/ ReadToUnblock(w, id)
        PROVE  TInv'
    <2>1. /\ UNCHANGED accounts /\ UNCHANGED logins /\ \E S : barred' = barred \ S
          /\ id \in DOMAIN userByID
          /\ Goes(w, "block", userByID[id]) \/ Goes(w, "unblock", userByID[id])
      <3>1. barred = barred \ {}
        OBVIOUS
      <3>2. QED BY <1>6, <3>1 DEF ReadToBlock, ReadToUnblock
    <2>2. TaskTypes' /\ Room'
      BY <1>1, <1>2, <2>1, GoesTypes DEF Steps
    <2>3. QED BY <1>2, <1>3, <1>4, <2>1, <2>2 DEF TInv
  <1>7. CASE Block(w)
    <2> DEFINE u == [task[w].user EXCEPT !.blocked = TRUE]
    <2>1. Known(u, created)
      BY <1>1, ChangedShape
    <2>2. /\ UNCHANGED logins /\ barred' = barred \ {}
          /\ \/ UpdateUser(u)
             \/ UNCHANGED accounts
          /\ Goes(w, "evict blocked", u) \/ Ends(w)
      BY <1>7 DEF Block
    <2> HIDE DEF u
    <2>3. AccountTypes' /\ created' = created
      BY <1>2, <2>1, <2>2, UpdateUserTypes DEF TInv
    <2>4. TaskTypes' /\ Room'
      BY <2>1, <2>2, <2>3, GoesTypes, EndsTypes DEF Steps
    <2>5. QED BY <1>3, <1>4, <2>2, <2>3, <2>4 DEF TInv
  <1>8. CASE BlockEvicts(w)
    <2>1. /\ UNCHANGED accounts /\ Ends(w) /\ \E gone : DropSessions(gone)
          /\ barred' = barred \cup {u.born : u \in {v \in users : v.id = task[w].user.id /\ v.blocked}}
      BY <1>8 DEF BlockEvicts, DeleteSessionsForUser
    <2>2. TaskTypes' /\ Room' /\ LoginTypes'
      BY <1>2, <2>1, EndsTypes, DropSessionsTypes DEF TInv
    <2>3. barred' \subseteq 1..created
      BY <1>1, <1>3, <2>1 DEF Known
    <2>4. QED BY <1>2, <2>1, <2>2, <2>3 DEF TInv
  <1>9. CASE Unblock(w)
    <2> DEFINE u == [task[w].user EXCEPT !.blocked = FALSE]
    <2>1. Known(u, created)
      BY <1>1, ChangedShape
    <2>2. /\ UpdateUserOrFail(u) /\ UNCHANGED logins /\ Ends(w)
          /\ barred' = barred \ {task[w].user.born}
      BY <1>9 DEF Unblock
    <2> HIDE DEF u
    <2>3. AccountTypes' /\ created' = created
      BY <2>1, <2>2, UpdateOrFailTypes DEF TInv
    <2>4. TaskTypes' /\ Room'
      BY <2>2, <2>3, EndsTypes
    <2>5. QED BY <1>3, <1>4, <2>2, <2>3, <2>4 DEF TInv
  <1>10. CASE ResetToEmpty(w)
    <2>1. /\ users' = {userByID[Admin]} /\ nextUserID' = Admin /\ sessions' = {}
          /\ Admin \in DOMAIN userByID /\ created' = created /\ barred' = barred \ {}
          /\ Goes(w, "delete all sessions", TheAdmin) \/ Ends(w)
          /\ UNCHANGED <<userByID, sessionByID, expired, issued>>
      BY <1>10 DEF ResetToEmpty
    <2>2. TaskTypes' /\ Room'
      BY <1>1, <2>1, GoesTypes, EndsTypes DEF Steps
    <2>3. created \in 1..MaxCreated /\ created \in Nat \ {0} /\ Admin \in 1..created
      BY CountShape DEF Admin
    <2>4. AccountTypes'
      BY <1>1, <2>1, <2>3 DEF AccountTypes, Stored
    <2>5. LoginTypes'
      BY <2>1 DEF TInv, LoginTypes
    <2>6. QED BY <1>3, <2>1, <2>2, <2>4, <2>5 DEF TInv
  <1>11. CASE DeleteAllSessions(w)
    <2>1. /\ sessions' = {} /\ sessionByID' = SessionIndex({}) /\ Ends(w) /\ UNCHANGED accounts
          /\ UNCHANGED <<expired, issued>> /\ barred' = barred \ {}
      BY <1>11 DEF DeleteAllSessions
    <2>2. TaskTypes' /\ Room'
      BY <1>2, <2>1, EndsTypes
    <2>3. LoginTypes'
      BY <2>1 DEF TInv, LoginTypes, SessionIndex
    <2>4. QED BY <1>2, <1>3, <2>1, <2>2, <2>3 DEF TInv
  <1>12. QED BY <1>5, <1>6, <1>7, <1>8, <1>9, <1>10, <1>11 DEF AdminNext

\* Other steps of the store keep the types.
LEMMA StoreTypesKept ==
    ASSUME TInv,
           \/ \E id \in 1..MaxCreated : VetUser(id) \/ DeleteUser(id)
           \/ \E tok \in Tokens : Logout(tok) \/ LogoutEverywhere(tok) \/ Expire(tok)
           \/ CleanExpiredSessions
           \/ ResetDatabase
    PROVE  TInv'
  <1>1. UNCHANGED accounts => AccountTypes' /\ created' = created
    BY AccountsStay DEF TInv
  <1>2. UNCHANGED task /\ created' = created => TaskTypes' /\ Room'
    BY TasksStayTypes
  <1>3. UNCHANGED barred /\ created' = created => (barred \subseteq 1..created)'
    BY DEF TInv
  <1>4. UNCHANGED logins => LoginTypes'
    BY LoginsStay DEF TInv
  <1>5. ASSUME NEW id \in 1..MaxCreated, VetUser(id) PROVE TInv'
    <2>1. PICK u \in users : u.id = id /\ UpdateUser([u EXCEPT !.vetted = TRUE])
      BY <1>5 DEF VetUser
    <2>2. UNCHANGED logins /\ UNCHANGED task /\ UNCHANGED barred
      BY <1>5 DEF VetUser
    <2>3. Known([u EXCEPT !.vetted = TRUE], created)
      BY ChangedShape DEF TInv, AccountTypes
    <2>4. AccountTypes' /\ created' = created
      BY <2>1, <2>3, UpdateUserTypes DEF TInv
    <2>5. QED BY <1>2, <1>3, <1>4, <2>2, <2>4 DEF TInv
  <1>6. ASSUME NEW id \in 1..MaxCreated, DeleteUser(id) PROVE TInv'
    <2>1. /\ id # Admin /\ users' = {u \in users : u.id # id}
          /\ userByID' = Without(userByID, {id}) /\ sessions' \subseteq sessions
          /\ UNCHANGED <<nextUserID, created, sessionByID, expired, issued>>
          /\ UNCHANGED task /\ UNCHANGED barred
      BY <1>6 DEF DeleteUser
    <2>2. AccountTypes'
      BY <2>1 DEF TInv, AccountTypes, Stored, Without
    <2>3. LoginTypes'
      BY <2>1 DEF TInv, LoginTypes
    <2>4. QED BY <1>2, <1>3, <2>1, <2>2, <2>3 DEF TInv
  <1>7. ASSUME NEW tok \in Tokens, Logout(tok) \/ LogoutEverywhere(tok) PROVE TInv'
    <2>1. UNCHANGED accounts /\ UNCHANGED task /\ UNCHANGED barred /\ \E gone : DropSessions(gone)
      BY <1>7 DEF Logout, DeleteSession, LogoutEverywhere, DeleteSessionsForUser
    <2>2. LoginTypes'
      BY <2>1, DropSessionsTypes DEF TInv
    <2>3. QED BY <1>1, <1>2, <1>3, <2>1, <2>2 DEF TInv
  <1>8. ASSUME NEW tok \in Tokens, Expire(tok) PROVE TInv'
    <2>1. /\ UNCHANGED accounts /\ UNCHANGED task /\ UNCHANGED barred
          /\ tok \in issued /\ expired' = expired \cup {tok}
          /\ UNCHANGED <<sessions, sessionByID, issued>>
      BY <1>8 DEF Expire
    <2>2. LoginTypes'
      BY <2>1 DEF TInv, LoginTypes
    <2>3. QED BY <1>1, <1>2, <1>3, <2>1, <2>2 DEF TInv
  <1>9. CASE CleanExpiredSessions
    <2>1. /\ UNCHANGED accounts /\ UNCHANGED task /\ UNCHANGED barred
          /\ UNCHANGED <<expired, issued>> /\ sessions' \subseteq sessions
          /\ sessionByID' = SessionIndex(sessions')
      BY <1>9 DEF CleanExpiredSessions
    <2>2. sessions' \subseteq Session
      BY <2>1 DEF TInv, LoginTypes
    <2>3. \A t \in DOMAIN sessionByID' : sessionByID'[t] \in sessions' /\ sessionByID'[t].tok = t
      BY <2>1, <2>2 DEF SessionIndex
    <2>4. LoginTypes'
      BY <2>1, <2>2, <2>3 DEF TInv, LoginTypes
    <2>5. QED BY <1>1, <1>2, <1>3, <2>1, <2>4 DEF TInv
  <1>10. CASE ResetDatabase
    <2>1. /\ userByID' = UserIndex({}) /\ sessionByID' = SessionIndex({})
          /\ UNCHANGED <<users, nextUserID, created, sessions, expired, issued>>
          /\ UNCHANGED task /\ UNCHANGED barred
      BY <1>10 DEF ResetDatabase
    <2>2. AccountTypes'
      BY <2>1 DEF TInv, AccountTypes, UserIndex, Stored
    <2>3. LoginTypes'
      BY <2>1 DEF TInv, LoginTypes, SessionIndex
    <2>4. QED BY <1>2, <1>3, <2>1, <2>2, <2>3 DEF TInv
  <1>11. QED BY <1>5, <1>6, <1>7, <1>8, <1>9, <1>10

\* A new process finds the accounts and sessions it needs in the files.
LEMMA LoadTypes == ASSUME TInv, Load PROVE TInv'
  <1>1. /\ userByID' = UserIndex(users) /\ sessionByID' = SessionIndex(sessions)
        /\ nextUserID' = CHOOSE i \in {u.id : u \in users} : \A u \in users : u.id <= i
        /\ task' = [w \in Tasks |-> Idle]
        /\ UNCHANGED <<users, created, sessions, expired, issued, barred>>
    BY DEF Load
  <1>2. /\ created \in Nat \ {0} /\ created \in 1..MaxCreated
        /\ \A u \in users : Known(u, created)
    BY CountShape DEF TInv, AccountTypes
  <1>3. nextUserID' \in 1..created
    <2> DEFINE ids == {u.id : u \in users}
    <2>1. ids \subseteq Nat /\ ids # {} /\ \A i \in ids : i \in 1..created /\ i <= created
      BY <1>2 DEF Known, TInv, AccountTypes, Stored
    <2>2. \E i \in ids : \A j \in ids : j <= i
      <3> HIDE DEF ids
      <3>1. QED BY <1>2, <2>1, LargestExists
    <2>3. \E i \in ids : \A u \in users : u.id <= i
      BY <2>2
    <2>4. nextUserID' \in ids
      BY <1>1, <2>3
    <2>5. QED BY <2>1, <2>4
  <1>4. AccountTypes'
    <2>1. userByID' = [i \in {u.id : u \in users} |-> CHOOSE u \in users : u.id = i]
      BY <1>1 DEF UserIndex
    <2>2. \A i \in DOMAIN userByID' : userByID'[i] \in users /\ userByID'[i].id = i
      BY <2>1
    <2>3. Stored(Admin)'
      BY <1>1 DEF TInv, AccountTypes, Stored
    <2>4. QED BY <1>1, <1>2, <1>3, <2>2, <2>3 DEF AccountTypes
  <1>5. LoginTypes'
    <2>1. sessions \subseteq Session
      BY DEF TInv, LoginTypes
    <2>2. \A t \in DOMAIN sessionByID' : sessionByID'[t] \in sessions /\ sessionByID'[t].tok = t
      BY <1>1, <2>1, SessionIndexShape
    <2>3. QED BY <1>1, <2>1, <2>2 DEF TInv, LoginTypes
  <1>6. Idle \in Work /\ Known(Idle.user, created)
    BY <1>2, IdleShape
  <1>7. TaskTypes'
    BY <1>1, <1>6 DEF TaskTypes
  <1>8. Creating' = {}
    BY <1>1, NobodyCreates DEF Creating, At, Idle
  <1>9. Room'
    BY <1>1, <1>2, <1>8, FS_EmptySet DEF Room
  <1>10. QED BY <1>1, <1>4, <1>5, <1>7, <1>9 DEF TInv

LEMMA NextTInv == TInv /\ [Next]_vars => TInv'
  <1> SUFFICES ASSUME TInv, [Next]_vars PROVE TInv'
    OBVIOUS
  <1>1. CASE Next
    BY <1>1, LoginTypesKept, AdminTypesKept, CreationsTypes, StoreTypesKept, LoadTypes DEF Next
  <1>2. CASE UNCHANGED vars
    <2>1. UNCHANGED accounts /\ UNCHANGED logins /\ UNCHANGED task /\ UNCHANGED barred
      BY <1>2 DEF vars
    <2>2. QED BY <2>1, AccountsStay, LoginsStay, TasksStayTypes DEF TInv
  <1>3. QED BY <1>1, <1>2

LEMMA TInvTypes == TInv => TypeOK
  <1> SUFFICES ASSUME TInv PROVE TypeOK
    OBVIOUS
  <1>1. /\ created \in 1..MaxCreated /\ MaxCreated \in Nat /\ Admin = 1
        /\ 1..created \subseteq 1..MaxCreated
    BY CountShape DEF Admin
  <1>2. \A u : Known(u, created) => u \in User
    BY DEF Known
  <1>3. QED BY <1>1, <1>2, HeldShape DEF TInv, AccountTypes, LoginTypes, TypeOK

\* The variables of Identity keep their types, whatever fails: in particular no more
\* accounts come to be than there is room for, although a form is checked before the
\* account is created, and after a restart IDs go on from one that exists (store.go).
THEOREM TypesHold == Spec => []TypeOK
  <1>1. QED BY InitTInv, NextTInv, TInvTypes, PTL DEF Spec

(***************************************************************************)
(* Who is behind a request.                                                  *)
(***************************************************************************)
\* Accounts have IDs of their own, and the map knows no other accounts.
AccountsApart ==
    /\ \A u, v \in users : u.id = v.id => u = v
    /\ \A u \in users : u.id <= nextUserID
    /\ \A i \in DOMAIN userByID : userByID[i] \in users

\* A session in the map that is not in the slice is one of an account that is gone,
\* and whose ID is not handed out again.
LoginsTraced ==
    \A t \in DOMAIN sessionByID :
       \/ sessionByID[t] \in sessions
       \/ sessionByID[t].uid <= nextUserID /\ ~Stored(sessionByID[t].uid)

LEMMA CreateUserApart ==
    ASSUME TInv, AccountsApart, LoginsTraced, UNCHANGED logins,
           NEW n, NEW vetted, CreateUser(n, vetted)
    PROVE  AccountsApart' /\ LoginsTraced'
  <1> DEFINE u == [id |-> nextUserID + 1, born |-> created + 1, name |-> n,
                   vetted |-> vetted, blocked |-> FALSE]
  <1>1. /\ nextUserID' = nextUserID + 1 /\ nextUserID \in Nat /\ u.id = nextUserID + 1
        /\ users' = users \cup {u}
        /\ userByID' = [i \in DOMAIN userByID \cup {u.id} |->
                           IF i = u.id THEN u ELSE userByID[i]]
        /\ \A v \in users : v.id \in Nat /\ v.id <= nextUserID
        /\ \A t \in DOMAIN sessionByID : sessionByID[t].uid \in Nat
    BY CountShape DEF CreateUser, TInv, AccountTypes, LoginTypes, Known, AccountsApart, Session
  <1> HIDE DEF u
  <1>2. AccountsApart'
    BY <1>1 DEF AccountsApart
  <1>3. LoginsTraced'
    BY <1>1 DEF LoginsTraced, Stored, logins
  <1>4. QED BY <1>2, <1>3

LEMMA UpdateUserApart ==
    ASSUME TInv, AccountsApart, LoginsTraced, UNCHANGED logins, NEW u, UpdateUser(u)
    PROVE  AccountsApart' /\ LoginsTraced'
  <1>1. /\ Stored(u.id) /\ nextUserID' = nextUserID
        /\ users' = {v \in users : v.id # u.id} \cup {u}
        /\ userByID' = [i \in DOMAIN userByID \cup {u.id} |->
                           IF i = u.id THEN u ELSE userByID[i]]
        /\ \A i \in DOMAIN userByID : userByID[i].id = i
    BY DEF UpdateUser, TInv, AccountTypes
  <1>2. AccountsApart'
    BY <1>1 DEF AccountsApart, Stored
  <1>3. LoginsTraced'
    BY <1>1 DEF LoginsTraced, Stored, logins
  <1>4. QED BY <1>2, <1>3

LEMMA ApartStays ==
    ASSUME AccountsApart, LoginsTraced, UNCHANGED accounts, UNCHANGED logins
    PROVE  AccountsApart' /\ LoginsTraced'
  BY DEF AccountsApart, LoginsTraced, Stored, accounts, logins

LEMMA UpdateOrFailApart ==
    ASSUME TInv, AccountsApart, LoginsTraced, UNCHANGED logins, NEW u, UpdateUserOrFail(u)
    PROVE  AccountsApart' /\ LoginsTraced'
  BY UpdateUserApart, ApartStays DEF UpdateUserOrFail

LEMMA DropSessionsApart ==
    ASSUME TInv, AccountsApart, LoginsTraced, UNCHANGED accounts, NEW gone, DropSessions(gone)
    PROVE  AccountsApart' /\ LoginsTraced'
  <1>1. /\ sessions' = sessions \ gone
        /\ sessionByID' = Without(sessionByID, {s.tok : s \in gone})
        /\ \A t \in DOMAIN sessionByID : sessionByID[t].tok = t
    BY DEF DropSessions, TInv, LoginTypes
  <1>2. AccountsApart'
    BY DEF AccountsApart, accounts
  <1>3. LoginsTraced'
    BY <1>1 DEF LoginsTraced, Stored, accounts, Without
  <1>4. QED BY <1>2, <1>3

LEMMA LoginApart ==
    ASSUME TInv, AccountsApart, LoginsTraced, NEW w \in Tasks, LoginNext(w)
    PROVE  AccountsApart' /\ LoginsTraced'
  <1>1. ASSUME NEW tok \in Tokens, LoginCreates(w, tok) PROVE AccountsApart' /\ LoginsTraced'
    <2> DEFINE s == [tok |-> tok, uid |-> task[w].user.id, born |-> task[w].user.born]
    <2>1. CreateSession(s) /\ UNCHANGED accounts /\ s.tok = tok
      BY <1>1 DEF LoginCreates
    <2> HIDE DEF s
    <2>2. LoginsTraced'
      BY <2>1 DEF CreateSession, LoginsTraced, Stored, accounts
    <2>3. QED BY <2>1, <2>2 DEF AccountsApart, accounts
  <1>2. CASE \E u \in users : StartLogin(w, u) \/ WrongPassword(w, u)
    BY <1>2, ApartStays DEF StartLogin, WrongPassword
  <1>3. CASE LoginEvicts(w)
    BY <1>3, DropSessionsApart DEF LoginEvicts, DeleteSessionsForUserExcept
  <1>4. CASE ReadBack(w)
    BY <1>4, ApartStays DEF ReadBack
  <1>5. CASE RecordLogin(w)
    BY <1>5, UpdateOrFailApart DEF RecordLogin
  <1>6. QED BY <1>1, <1>2, <1>3, <1>4, <1>5 DEF LoginNext

LEMMA AdminApart ==
    ASSUME TInv, AccountsApart, LoginsTraced, "empty" \notin Faults,
           NEW w \in Tasks, AdminNext(w)
    PROVE  AccountsApart' /\ LoginsTraced'
  <1>1. CASE \E n \in Names : CheckName(w, n)
    BY <1>1, ApartStays DEF CheckName
  <1>2. CASE CreateChecked(w)
    BY <1>2, CreateUserApart DEF CreateChecked
  <1>3. CASE \E id \in 1..MaxCreated : ReadToBlock(w, id) \/ ReadToUnblock(w, id)
    BY <1>3, ApartStays DEF ReadToBlock, ReadToUnblock
  <1>4. CASE Block(w)
    <2>1. /\ UNCHANGED logins
          /\ \/ UpdateUser([task[w].user EXCEPT !.blocked = TRUE])
             \/ UNCHANGED accounts
      BY <1>4 DEF Block
    <2>2. QED BY <2>1, UpdateUserApart, ApartStays
  <1>5. CASE BlockEvicts(w)
    BY <1>5, DropSessionsApart DEF BlockEvicts, DeleteSessionsForUser
  <1>6. CASE Unblock(w)
    BY <1>6, UpdateOrFailApart DEF Unblock
  <1>7. CASE DeleteAllSessions(w)
    BY <1>7 DEF DeleteAllSessions, SessionIndex, AccountsApart, LoginsTraced, accounts
  <1>8. CASE ResetToEmpty(w)
    BY <1>8 DEF ResetToEmpty
  <1>9. QED BY <1>1, <1>2, <1>3, <1>4, <1>5, <1>6, <1>7, <1>8 DEF AdminNext

LEMMA StoreApart ==
    ASSUME TInv, AccountsApart, LoginsTraced,
           \/ \E n \in Names, vetted \in BOOLEAN : Register(n, vetted)
           \/ \E id \in 1..MaxCreated : VetUser(id) \/ DeleteUser(id)
           \/ \E tok \in Tokens : Logout(tok) \/ LogoutEverywhere(tok) \/ Expire(tok)
           \/ CleanExpiredSessions
           \/ ResetDatabase
    PROVE  AccountsApart' /\ LoginsTraced'
  <1>1. CASE \E n \in Names, vetted \in BOOLEAN : Register(n, vetted)
    BY <1>1, CreateUserApart DEF Register
  <1>2. ASSUME NEW id \in 1..MaxCreated, VetUser(id) PROVE AccountsApart' /\ LoginsTraced'
    BY <1>2, UpdateUserApart DEF VetUser
  <1>3. ASSUME NEW id \in 1..MaxCreated, DeleteUser(id) PROVE AccountsApart' /\ LoginsTraced'
    <2>1. /\ Stored(id) /\ users' = {u \in users : u.id # id}
          /\ userByID' = Without(userByID, {id}) /\ sessions' = {s \in sessions : s.uid # id}
          /\ UNCHANGED <<nextUserID, sessionByID>>
          /\ \A i \in DOMAIN userByID : userByID[i].id = i
      BY <1>3 DEF DeleteUser, TInv, AccountTypes
    <2>2. id <= nextUserID
      BY <2>1 DEF AccountsApart, Stored
    <2>3. AccountsApart'
      BY <2>1 DEF AccountsApart, Without
    <2>4. LoginsTraced'
      BY <2>1, <2>2 DEF LoginsTraced, Stored
    <2>5. QED BY <2>3, <2>4
  <1>4. CASE \E tok \in Tokens : Logout(tok) \/ LogoutEverywhere(tok)
    BY <1>4, DropSessionsApart DEF Logout, DeleteSession, LogoutEverywhere, DeleteSessionsForUser
  <1>5. CASE \E tok \in Tokens : Expire(tok)
    BY <1>5 DEF Expire, AccountsApart, LoginsTraced, Stored, accounts
  <1>6. CASE CleanExpiredSessions
    <2>1. sessions' \in SUBSET Session /\ sessionByID' = SessionIndex(sessions')
          /\ UNCHANGED accounts
      BY <1>6 DEF CleanExpiredSessions, TInv, LoginTypes
    <2>2. \A t \in DOMAIN sessionByID' : sessionByID'[t] \in sessions'
      BY <2>1 DEF SessionIndex
    <2>3. QED BY <2>1, <2>2 DEF AccountsApart, LoginsTraced, accounts
  <1>7. CASE ResetDatabase
    BY <1>7 DEF ResetDatabase, UserIndex, SessionIndex, AccountsApart, LoginsTraced
  <1>8. QED BY <1>1, <1>2, <1>3, <1>4, <1>5, <1>6, <1>7

LEMMA LoadApart ==
    ASSUME TInv, AccountsApart, Load
    PROVE  AccountsApart' /\ LoginsTraced'
  <1>1. /\ userByID' = UserIndex(users) /\ sessionByID' = SessionIndex(sessions)
        /\ nextUserID' = CHOOSE i \in {u.id : u \in users} : \A u \in users : u.id <= i
        /\ users' = users /\ sessions' = sessions /\ sessions \in SUBSET Session
    BY DEF Load, TInv, LoginTypes
  <1>2. \A u \in users : u.id <= nextUserID'
    <2> DEFINE ids == {u.id : u \in users}
    <2>1. created \in Nat /\ ids \subseteq Nat /\ ids # {} /\ \A i \in ids : i <= created
      BY CountShape DEF Known, TInv, AccountTypes, Stored
    <2>2. \E i \in ids : \A j \in ids : j <= i
      <3> HIDE DEF ids
      <3>1. QED BY <2>1, LargestExists
    <2>3. \E i \in ids : \A u \in users : u.id <= i
      BY <2>2
    <2>4. QED BY <1>1, <2>3
  <1>3. \A i \in DOMAIN userByID' : userByID'[i] \in users
    BY <1>1 DEF UserIndex
  <1>4. \A t \in DOMAIN sessionByID' : sessionByID'[t] \in sessions
    BY <1>1, SessionIndexShape
  <1>5. QED BY <1>1, <1>2, <1>3, <1>4 DEF AccountsApart, LoginsTraced

ApartInv == TInv /\ AccountsApart /\ LoginsTraced

LEMMA InitApart == Init => ApartInv
  <1> SUFFICES ASSUME Init PROVE ApartInv
    OBVIOUS
  <1>1. TInv
    BY InitTInv
  <1>2. users = {TheAdmin} /\ TheAdmin.id = 1 /\ nextUserID = 1 /\ userByID = UserIndex(users)
        /\ sessionByID = SessionIndex({})
    BY DEF Init, TheAdmin, Admin
  <1>3. \A i \in DOMAIN userByID : userByID[i] \in users
    BY <1>2 DEF UserIndex
  <1>4. QED BY <1>1, <1>2, <1>3 DEF ApartInv, AccountsApart, LoginsTraced, SessionIndex

LEMMA NextApart == "empty" \notin Faults /\ ApartInv /\ [Next]_vars => ApartInv'
  <1> SUFFICES ASSUME "empty" \notin Faults, ApartInv, [Next]_vars PROVE ApartInv'
    OBVIOUS
  <1>1. TInv /\ TInv' /\ AccountsApart /\ LoginsTraced
    BY NextTInv DEF ApartInv
  <1>2. CASE Next
    BY <1>1, <1>2, LoginApart, AdminApart, StoreApart, LoadApart DEF Next, ApartInv
  <1>3. CASE UNCHANGED vars
    BY <1>1, <1>3, ApartStays DEF ApartInv, vars
  <1>4. QED BY <1>2, <1>3

\* Unless the store is reset to empty, whoever is authenticated has the session and
\* the account in the slices, whatever deletions, logins, failures and restarts come
\* between (store_users.go, DeleteUser; getSession looks only at the maps).
THEOREM RequestsAlwaysComeFromAccounts ==
    "empty" \notin Faults => (Spec => []RequestsComeFromAccounts)
  <1> SUFFICES ASSUME "empty" \notin Faults PROVE Spec => []RequestsComeFromAccounts
    OBVIOUS
  <1>1. ApartInv => RequestsComeFromAccounts
    <2> SUFFICES ASSUME ApartInv, NEW t \in Tokens, Authenticates(t)
                 PROVE  /\ sessionByID[t] \in sessions
                        /\ userByID[sessionByID[t].uid] \in users
      BY DEF RequestsComeFromAccounts
    <2>1. t \in DOMAIN sessionByID /\ sessionByID[t].uid \in DOMAIN userByID
      BY DEF Authenticates
    <2>2. /\ userByID[sessionByID[t].uid] \in users
          /\ userByID[sessionByID[t].uid].id = sessionByID[t].uid
      BY <2>1 DEF ApartInv, AccountsApart, TInv, AccountTypes
    <2>3. QED BY <2>1, <2>2 DEF ApartInv, LoginsTraced, Stored
  <1>2. QED BY <1>1, InitApart, NextApart, PTL DEF Spec

(***************************************************************************)
(* Whom a session stands for.                                                *)
(***************************************************************************)
\* Without restarts and resets IDs are handed out once: an ID is the number of the
\* account, and so it is in every copy.
Owned ==
    /\ nextUserID = created
    /\ \A u \in users : u.born = u.id
    /\ \A i \in DOMAIN userByID : userByID[i].born = i
    /\ \A s \in sessions : s.born = s.uid
    /\ \A t \in DOMAIN sessionByID : sessionByID[t].born = sessionByID[t].uid
    /\ \A w \in Tasks : task[w].user.born = task[w].user.id

OwnInv == TInv /\ Owned

\* A record whose born is its ID, when other fields change.
LEMMA OwnChanged ==
    ASSUME NEW u, NEW k, Known(u, k), u.born = u.id
    PROVE  /\ [u EXCEPT !.vetted = TRUE].born = [u EXCEPT !.vetted = TRUE].id
           /\ \A b \in BOOLEAN : [u EXCEPT !.blocked = b].born = [u EXCEPT !.blocked = b].id
  BY DEF Known, User

LEMMA CreateUserOwned ==
    ASSUME Owned, TInv, NEW n, NEW vetted, CreateUser(n, vetted), UNCHANGED logins,
           \A w \in Tasks : task'[w].user.born = task'[w].user.id
    PROVE  Owned'
  BY CountShape DEF Owned, CreateUser, logins

LEMMA UpdateUserOwned ==
    ASSUME Owned, NEW u, UpdateUserOrFail(u) \/ UpdateUser(u), u.born = u.id, UNCHANGED logins,
           \A w \in Tasks : task'[w].user.born = task'[w].user.id
    PROVE  Owned'
  <1>1. CASE UpdateUser(u)
    BY <1>1 DEF Owned, UpdateUser, logins
  <1>2. CASE UNCHANGED accounts
    BY <1>2 DEF Owned, accounts, logins
  <1>3. QED BY <1>1, <1>2 DEF UpdateUserOrFail

LEMMA DropSessionsOwned ==
    ASSUME Owned, NEW gone, DropSessions(gone), UNCHANGED accounts,
           \A w \in Tasks : task'[w].user.born = task'[w].user.id
    PROVE  Owned'
  BY DEF Owned, DropSessions, Without, accounts

LEMMA OwnStays ==
    ASSUME Owned, UNCHANGED accounts, UNCHANGED logins,
           \A w \in Tasks : task'[w].user.born = task'[w].user.id
    PROVE  Owned'
  BY DEF Owned, accounts, logins

\* What a task goes on with.
LEMMA GoesOwned ==
    ASSUME TInv, Owned, NEW w \in Tasks,
           \/ \E at, u : u.born = u.id /\ Goes(w, at, u)
           \/ Ends(w)
           \/ UNCHANGED task
    PROVE  \A v \in Tasks : task'[v].user.born = task'[v].user.id
  <1>1. /\ task \in [Tasks -> Work] /\ Idle.user.born = Idle.user.id
        /\ \A v \in Tasks : task[v].user.born = task[v].user.id
    BY DEF TInv, TaskTypes, Owned, Idle, TheAdmin
  <1>2. CASE \E at, u : u.born = u.id /\ Goes(w, at, u)
    BY <1>1, <1>2 DEF Goes
  <1>3. CASE Ends(w)
    BY <1>1, <1>3 DEF Ends
  <1>4. CASE UNCHANGED task
    BY <1>1, <1>4
  <1>5. QED BY <1>2, <1>3, <1>4

LEMMA LoginOwned == ASSUME TInv, Owned, NEW w \in Tasks, LoginNext(w) PROVE Owned'
  <1>1. /\ task[w].user.born = task[w].user.id /\ \A u \in users : u.born = u.id
        /\ \A i \in DOMAIN userByID : userByID[i].born = userByID[i].id
    BY DEF TInv, AccountTypes, Owned
  <1>2. CASE \E u \in users : StartLogin(w, u) \/ WrongPassword(w, u)
    BY <1>1, <1>2, GoesOwned, OwnStays DEF StartLogin, WrongPassword
  <1>3. ASSUME NEW tok \in Tokens, LoginCreates(w, tok) PROVE Owned'
    <2> DEFINE s == [tok |-> tok, uid |-> task[w].user.id, born |-> task[w].user.born]
    <2>1. CreateSession(s) /\ UNCHANGED accounts /\ s.tok = tok /\ s.born = s.uid
      BY <1>1, <1>3 DEF LoginCreates
    <2>2. \A v \in Tasks : task'[v].user.born = task'[v].user.id
      <3>1. CASE task' = [task EXCEPT ![w].at = "evict others", ![w].tok = tok]
        <4> TAKE v \in Tasks
        <4>1. task'[v].user = task[v].user
          BY <3>1 DEF TInv, TaskTypes, Work
        <4>2. QED BY <4>1 DEF Owned
      <3>2. CASE Ends(w)
        BY <3>2, GoesOwned
      <3>3. QED BY <1>3, <3>1, <3>2 DEF LoginCreates
    <2> HIDE DEF s
    <2>3. QED BY <2>1, <2>2 DEF Owned, CreateSession, accounts
  <1>4. CASE LoginEvicts(w)
    BY <1>1, <1>4, GoesOwned, DropSessionsOwned DEF LoginEvicts, DeleteSessionsForUserExcept
  <1>5. CASE ReadBack(w)
    <2>1. \/ \E i \in DOMAIN userByID : Goes(w, "record login", userByID[i])
          \/ Ends(w)
      BY <1>5 DEF ReadBack
    <2>2. \A v \in Tasks : task'[v].user.born = task'[v].user.id
      BY <1>1, <2>1, GoesOwned
    <2>3. QED BY <1>5, <2>2, OwnStays DEF ReadBack
  <1>6. CASE RecordLogin(w)
    BY <1>1, <1>6, GoesOwned, UpdateUserOwned DEF RecordLogin
  <1>7. QED BY <1>2, <1>3, <1>4, <1>5, <1>6 DEF LoginNext

LEMMA AdminOwned ==
    ASSUME TInv, Owned, "empty" \notin Faults, NEW w \in Tasks, AdminNext(w)
    PROVE  Owned'
  <1>1. /\ task[w].user.born = task[w].user.id /\ Known(task[w].user, created)
        /\ \A i \in DOMAIN userByID : userByID[i].born = userByID[i].id
    BY HeldShape DEF TInv, AccountTypes, Owned
  <1>2. ASSUME NEW n \in Names, CheckName(w, n) PROVE Owned'
    <2>1. [TheAdmin EXCEPT !.name = n].born = [TheAdmin EXCEPT !.name = n].id
      BY DEF TheAdmin
    <2>2. \A v \in Tasks : task'[v].user.born = task'[v].user.id
      BY <1>2, <2>1, GoesOwned DEF CheckName
    <2>3. QED BY <1>2, <2>2, OwnStays DEF CheckName
  <1>3. CASE CreateChecked(w)
    BY <1>3, GoesOwned, CreateUserOwned DEF CreateChecked
  <1>4. CASE \E id \in 1..MaxCreated : ReadToBlock(w, id) \/ ReadToUnblock(w, id)
    <2>1. /\ UNCHANGED accounts /\ UNCHANGED logins
          /\ \E i \in DOMAIN userByID : \/ Goes(w, "block", userByID[i])
                                        \/ Goes(w, "unblock", userByID[i])
      BY <1>4 DEF ReadToBlock, ReadToUnblock
    <2>2. \A v \in Tasks : task'[v].user.born = task'[v].user.id
      BY <1>1, <2>1, GoesOwned
    <2>3. QED BY <2>1, <2>2, OwnStays
  <1>5. CASE Block(w)
    <2> DEFINE u == [task[w].user EXCEPT !.blocked = TRUE]
    <2>1. u.born = u.id
      BY <1>1, OwnChanged
    <2>2. /\ UNCHANGED logins
          /\ UpdateUser(u) \/ UNCHANGED accounts
          /\ Goes(w, "evict blocked", u) \/ Ends(w)
      BY <1>5 DEF Block
    <2> HIDE DEF u
    <2>3. \A v \in Tasks : task'[v].user.born = task'[v].user.id
      BY <2>1, <2>2, GoesOwned
    <2>4. QED BY <2>1, <2>2, <2>3, UpdateUserOwned, OwnStays
  <1>6. CASE BlockEvicts(w)
    BY <1>6, GoesOwned, DropSessionsOwned DEF BlockEvicts, DeleteSessionsForUser
  <1>7. CASE Unblock(w)
    <2>1. UpdateUserOrFail([task[w].user EXCEPT !.blocked = FALSE]) /\ Ends(w) /\ UNCHANGED logins
      BY <1>7 DEF Unblock
    <2>2. QED BY <1>1, <2>1, OwnChanged, GoesOwned, UpdateUserOwned
  <1>8. CASE DeleteAllSessions(w)
    BY <1>8, GoesOwned DEF DeleteAllSessions, SessionIndex, Owned, accounts
  <1>9. CASE ResetToEmpty(w)
    BY <1>9 DEF ResetToEmpty
  <1>10. QED BY <1>2, <1>3, <1>4, <1>5, <1>6, <1>7, <1>8, <1>9 DEF AdminNext

LEMMA StoreOwned ==
    ASSUME TInv, Owned,
           \/ \E n \in Names, vetted \in BOOLEAN : Register(n, vetted)
           \/ \E id \in 1..MaxCreated : VetUser(id) \/ DeleteUser(id)
           \/ \E tok \in Tokens : Logout(tok) \/ LogoutEverywhere(tok) \/ Expire(tok)
           \/ CleanExpiredSessions
           \/ ResetDatabase
    PROVE  Owned'
  <1>1. UNCHANGED task => \A w \in Tasks : task'[w].user.born = task'[w].user.id
    BY DEF Owned
  <1>2. CASE \E n \in Names, vetted \in BOOLEAN : Register(n, vetted)
    BY <1>1, <1>2, CreateUserOwned DEF Register
  <1>3. ASSUME NEW id \in 1..MaxCreated, VetUser(id) PROVE Owned'
    <2>1. PICK u \in users : UpdateUser([u EXCEPT !.vetted = TRUE])
      BY <1>3 DEF VetUser
    <2>2. [u EXCEPT !.vetted = TRUE].born = [u EXCEPT !.vetted = TRUE].id
      BY OwnChanged DEF Owned, TInv, AccountTypes
    <2>3. QED BY <1>1, <1>3, <2>1, <2>2, UpdateUserOwned DEF VetUser
  <1>4. ASSUME NEW id \in 1..MaxCreated, DeleteUser(id) PROVE Owned'
    BY <1>4 DEF DeleteUser, Owned, Without
  <1>5. CASE \E tok \in Tokens : Logout(tok) \/ LogoutEverywhere(tok)
    BY <1>1, <1>5, DropSessionsOwned
       DEF Logout, DeleteSession, LogoutEverywhere, DeleteSessionsForUser
  <1>6. CASE \E tok \in Tokens : Expire(tok)
    BY <1>6 DEF Expire, Owned, accounts
  <1>7. CASE CleanExpiredSessions
    <2>1. sessions' \in SUBSET Session /\ sessions' \subseteq sessions
          /\ sessionByID' = SessionIndex(sessions') /\ UNCHANGED accounts /\ UNCHANGED task
      BY <1>7 DEF CleanExpiredSessions, TInv, LoginTypes
    <2>2. \A t \in DOMAIN sessionByID' : sessionByID'[t] \in sessions'
      BY <2>1 DEF SessionIndex
    <2>3. QED BY <2>1, <2>2 DEF Owned, accounts
  <1>8. CASE ResetDatabase
    BY <1>8 DEF ResetDatabase, UserIndex, SessionIndex, Owned
  <1>9. QED BY <1>2, <1>3, <1>4, <1>5, <1>6, <1>7, <1>8

LEMMA InitOwned == Init => OwnInv
  <1> SUFFICES ASSUME Init PROVE OwnInv
    OBVIOUS
  <1>1. /\ users = {TheAdmin} /\ TheAdmin.id = 1 /\ TheAdmin.born = 1 /\ nextUserID = 1
        /\ created = 1 /\ userByID = [i \in {u.id : u \in users} |-> CHOOSE u \in users : u.id = i]
        /\ Idle.user = TheAdmin
    BY DEF Init, TheAdmin, Admin, UserIndex, Idle
  <1>2. \A i \in DOMAIN userByID : userByID[i] \in users /\ userByID[i].id = i
    BY <1>1
  <1>3. Owned
    BY <1>1, <1>2 DEF Init, Owned, SessionIndex
  <1>4. QED BY <1>3, InitTInv DEF OwnInv

LEMMA NextOwned ==
    {"empty", "restart"} \cap Faults = {} /\ OwnInv /\ [Next]_vars => OwnInv'
  <1> SUFFICES ASSUME "empty" \notin Faults, "restart" \notin Faults, OwnInv, [Next]_vars
               PROVE  OwnInv'
    OBVIOUS
  <1>1. TInv /\ TInv' /\ Owned
    BY NextTInv DEF OwnInv
  <1>2. CASE Next
    BY <1>1, <1>2, LoginOwned, AdminOwned, StoreOwned DEF Next, OwnInv, Load
  <1>3. CASE UNCHANGED vars
    BY <1>1, <1>3 DEF OwnInv, Owned, vars, accounts, logins
  <1>4. QED BY <1>2, <1>3

\* Unless the store is reset to empty or the program restarts, a session never
\* authenticates another account than the one that logged in, although sessions of
\* deleted accounts stay in the map, and logins that began before the deletion create
\* more of them (store_users.go, DeleteUser; store_sessions.go, CreateSession).
THEOREM SessionsAlwaysDieWithAccount ==
    {"empty", "restart"} \cap Faults = {} => (Spec => []SessionsDieWithAccount)
  <1> SUFFICES ASSUME {"empty", "restart"} \cap Faults = {}
               PROVE  Spec => []SessionsDieWithAccount
    OBVIOUS
  <1>1. OwnInv => SessionsDieWithAccount
    BY DEF OwnInv, Owned, SessionsDieWithAccount, Authenticates
  <1>2. QED BY <1>1, InitOwned, NextOwned, PTL DEF Spec

(***************************************************************************)
(* How many sessions an account has.                                         *)
(***************************************************************************)
\* The tokens of the sessions differ, and are ones handed out.
TokensApart ==
    /\ \A s, t \in sessions : s.tok = t.tok => s = t
    /\ \A s \in sessions : s.tok \in issued

SoloInv == TInv /\ TokensApart /\ OneSessionPerUser

\* Whoever is to evict other sessions still is, when another step is taken and no
\* session is created.
LEMMA EvictersStay ==
    ASSUME SoloInv, sessions' \subseteq sessions, UNCHANGED issued,
           \/ \E w \in Tasks : /\ task[w].at # "evict others"
                               /\ Ends(w) \/ \E at, u : Goes(w, at, u)
           \/ UNCHANGED task
    PROVE  TokensApart' /\ OneSessionPerUser'
  <1>1. task \in [Tasks -> Work]
    BY DEF SoloInv, TInv, TaskTypes
  <1>2. \A v \in Tasks : task[v].at = "evict others" => task'[v] = task[v]
    <2>1. CASE UNCHANGED task
      BY <2>1
    <2>2. CASE \E w \in Tasks : /\ task[w].at # "evict others"
                                /\ Ends(w) \/ \E at, u : Goes(w, at, u)
      BY <1>1, <2>2 DEF Ends, Goes
    <2>3. QED BY <2>1, <2>2
  <1>3. TokensApart'
    BY DEF SoloInv, TokensApart
  <1>4. OneSessionPerUser'
    BY <1>2 DEF SoloInv, OneSessionPerUser
  <1>5. QED BY <1>3, <1>4

LEMMA LoginSolo ==
    ASSUME SoloInv, "save" \notin Faults, NEW w \in Tasks, LoginNext(w)
    PROVE  TokensApart' /\ OneSessionPerUser'
  <1>1. task \in [Tasks -> Work] /\ TokensApart /\ OneSessionPerUser
    BY DEF SoloInv, TInv, TaskTypes
  <1>2. CASE \E u \in users : StartLogin(w, u) \/ WrongPassword(w, u)
    <2>1. /\ UNCHANGED logins /\ task[w].at = "idle"
          /\ \E at, u : Goes(w, at, u)
      <3>1. Idle.at = "idle"
        BY DEF Idle
      <3>2. QED BY <1>2, <3>1 DEF StartLogin, WrongPassword
    <2>2. QED BY <2>1, EvictersStay DEF logins
  <1>3. ASSUME NEW tok \in Tokens, LoginCreates(w, tok)
        PROVE  TokensApart' /\ OneSessionPerUser'
    <2> DEFINE s == [tok |-> tok, uid |-> task[w].user.id, born |-> task[w].user.born]
    <2>1. /\ task[w].at = "create session" /\ tok \notin issued
          /\ sessions' = sessions \cup {s} /\ issued' = issued \cup {tok}
          /\ s.tok = tok /\ s.uid = task[w].user.id
          /\ task' = [task EXCEPT ![w].at = "evict others", ![w].tok = tok]
      BY <1>3 DEF LoginCreates, CreateSession, SaveFails
    <2> HIDE DEF s
    <2>2. TokensApart'
      BY <1>1, <2>1 DEF TokensApart
    <2>3. task'[w].at = "evict others" /\ task'[w].user.id = s.uid
      BY <1>1, <2>1 DEF Work
    <2>4. \A v \in Tasks : task[v].at = "evict others" => task'[v] = task[v]
      BY <1>1, <2>1
    <2>5. OneSessionPerUser'
      <3> SUFFICES ASSUME NEW a \in sessions', NEW b \in sessions', a.uid = b.uid, a # b
                   PROVE  \E v \in Tasks : task'[v].at = "evict others"
                                           /\ task'[v].user.id = a.uid
        BY DEF OneSessionPerUser
      <3>1. CASE a = s \/ b = s
        BY <2>3, <3>1
      <3>2. CASE a \in sessions /\ b \in sessions
        BY <1>1, <2>4, <3>2 DEF OneSessionPerUser
      <3>3. QED BY <2>1, <3>1, <3>2
    <2>6. QED BY <2>2, <2>5
  <1>4. CASE LoginEvicts(w)
    <2>1. /\ task[w].at = "evict others"
          /\ sessions' = sessions \ {s \in sessions : s.uid = task[w].user.id
                                                      /\ s.tok # task[w].tok}
          /\ UNCHANGED issued
          /\ \A v \in Tasks \ {w} : task'[v] = task[v]
      BY <1>1, <1>4
         DEF LoginEvicts, DeleteSessionsForUserExcept, DropSessions, Goes
    <2>2. TokensApart'
      BY <1>1, <2>1 DEF TokensApart
    <2>3. OneSessionPerUser'
      <3> SUFFICES ASSUME NEW a \in sessions', NEW b \in sessions', a.uid = b.uid, a # b
                   PROVE  \E v \in Tasks : task'[v].at = "evict others"
                                           /\ task'[v].user.id = a.uid
        BY DEF OneSessionPerUser
      <3>1. a \in sessions /\ b \in sessions
        BY <2>1
      <3>2. a.uid # task[w].user.id
        BY <1>1, <2>1, <3>1 DEF TokensApart
      <3>3. PICK v \in Tasks : task[v].at = "evict others" /\ task[v].user.id = a.uid
        BY <1>1, <3>1 DEF OneSessionPerUser
      <3>4. QED BY <2>1, <3>2, <3>3
    <2>4. QED BY <2>2, <2>3
  <1>5. CASE ReadBack(w)
    <2>1. /\ UNCHANGED logins /\ task[w].at = "read back"
          /\ Ends(w) \/ \E at, u : Goes(w, at, u)
      BY <1>5 DEF ReadBack
    <2>2. QED BY <2>1, EvictersStay DEF logins
  <1>6. CASE RecordLogin(w)
    BY <1>6, EvictersStay DEF RecordLogin, logins
  <1>7. QED BY <1>2, <1>3, <1>4, <1>5, <1>6 DEF LoginNext

LEMMA AdminSolo ==
    ASSUME SoloInv, NEW w \in Tasks, AdminNext(w)
    PROVE  TokensApart' /\ OneSessionPerUser'
  <1>1. /\ sessions' \subseteq sessions /\ UNCHANGED issued
        /\ task[w].at # "evict others"
        /\ Ends(w) \/ \E at, u : Goes(w, at, u)
    <2> Idle.at = "idle"
      BY DEF Idle
    <2>1. CASE \E n \in Names : CheckName(w, n)
      BY <2>1 DEF CheckName, logins
    <2>2. CASE CreateChecked(w)
      BY <2>2 DEF CreateChecked, logins
    <2>3. CASE \E id \in 1..MaxCreated : ReadToBlock(w, id) \/ ReadToUnblock(w, id)
      BY <2>3 DEF ReadToBlock, ReadToUnblock, logins
    <2>4. CASE Block(w)
      BY <2>4 DEF Block, logins
    <2>5. CASE BlockEvicts(w) \/ Unblock(w)
      BY <2>5 DEF BlockEvicts, DeleteSessionsForUser, DropSessions, Unblock, logins
    <2>6. CASE ResetToEmpty(w) \/ DeleteAllSessions(w)
      BY <2>6 DEF ResetToEmpty, DeleteAllSessions
    <2>7. QED BY <2>1, <2>2, <2>3, <2>4, <2>5, <2>6 DEF AdminNext
  <1>2. QED BY <1>1, EvictersStay

LEMMA StoreSolo ==
    ASSUME SoloInv,
           \/ \E n \in Names, vetted \in BOOLEAN : Register(n, vetted)
           \/ \E id \in 1..MaxCreated : VetUser(id) \/ DeleteUser(id)
           \/ \E tok \in Tokens : Logout(tok) \/ LogoutEverywhere(tok) \/ Expire(tok)
           \/ CleanExpiredSessions
           \/ ResetDatabase
    PROVE  TokensApart' /\ OneSessionPerUser'
  <1>1. sessions' \subseteq sessions /\ UNCHANGED issued /\ UNCHANGED task
    BY DEF Register, VetUser, DeleteUser, Logout, DeleteSession, LogoutEverywhere,
           DeleteSessionsForUser, DropSessions, Expire, CleanExpiredSessions,
           ResetDatabase, logins
  <1>2. QED BY <1>1, EvictersStay

LEMMA InitSolo == Init => SoloInv
  BY InitTInv DEF Init, SoloInv, TokensApart, OneSessionPerUser

LEMMA NextSolo ==
    {"save", "restart"} \cap Faults = {} /\ SoloInv /\ [Next]_vars => SoloInv'
  <1> SUFFICES ASSUME "save" \notin Faults, "restart" \notin Faults, SoloInv, [Next]_vars
               PROVE  SoloInv'
    OBVIOUS
  <1>1. TInv'
    BY NextTInv DEF SoloInv
  <1>2. CASE Next
    BY <1>1, <1>2, LoginSolo, AdminSolo, StoreSolo DEF Next, SoloInv, Load
  <1>3. CASE UNCHANGED vars
    BY <1>1, <1>3, EvictersStay DEF SoloInv, vars, logins
  <1>4. QED BY <1>2, <1>3

\* As long as files are written and the program runs, an account has several sessions
\* only while a login for it is still to delete the others, however logins of one
\* account, logouts, deletions and resets interleave (handlers_auth.go, handleLogin).
THEOREM AlwaysOneSessionPerUser ==
    {"save", "restart"} \cap Faults = {} => (Spec => []OneSessionPerUser)
  <1> SUFFICES ASSUME {"save", "restart"} \cap Faults = {} PROVE Spec => []OneSessionPerUser
    OBVIOUS
  <1>1. SoloInv => OneSessionPerUser
    BY DEF SoloInv
  <1>2. QED BY <1>1, InitSolo, NextSolo, PTL DEF Spec

(***************************************************************************)
(* Blocks, when handlers run one at a time.                                  *)
(***************************************************************************)
\* The accounts in memory, and those a handler or the program may put there.
Held == users \cup {userByID[i] : i \in DOMAIN userByID}
Copies == Held \cup {task[w].user : w \in Tasks} \cup {TheAdmin}

\* An ID may be handed out again after a restart or a reset, but never to two
\* accounts of the slice; the map has none, or the same, for an account of the slice.
IdsApart ==
    /\ \A u, v \in users : u.id = v.id => u = v
    /\ \A u \in users : u.id <= nextUserID
    /\ \A u \in users : u.id \in DOMAIN userByID => userByID[u.id] = u

\* An account has one ID.
OneId == \A u, v \in Copies : u.born = v.born => u.id = v.id

\* Who is barred is blocked, in memory and in what a handler is to write, unless it is
\* to unblock it; the administrator is not barred.
HeldKept == Admin \notin barred /\ \A u \in Held : u.born \in barred => u.blocked

TasksKept ==
    \A w \in Tasks :
       /\ task[w].at # "unblock" /\ task[w].user.born \in barred => task[w].user.blocked
       /\ task[w].at \in {"block", "evict blocked"} => task[w].user.id # Admin

BlockInv == TInv /\ IdsApart /\ OneId /\ HeldKept /\ TasksKept

Alone == \A v, w \in Tasks : v = w

LEMMA CopiesShape == ASSUME TInv PROVE \A v \in Copies : Known(v, created)
  <1>1. Known(TheAdmin, created)
    BY CountShape, AdminShape
  <1>2. \A v \in Held : Known(v, created)
    BY DEF TInv, AccountTypes, Held
  <1>3. QED BY <1>1, <1>2, HeldShape DEF Copies

\* Copies of copies, and at most one new account x, have one ID each.
LEMMA OneIdStays ==
    ASSUME BlockInv, NEW x,
           x.born = created + 1 \/ \E v \in Copies : v.born = x.born /\ v.id = x.id,
           \A u \in Copies' : u = x \/ \E v \in Copies : v.born = u.born /\ v.id = u.id
    PROVE  OneId'
  <1>1. created \in Nat /\ \A v \in Copies : v.born \in 1..created
    BY CountShape, CopiesShape DEF BlockInv, Known
  <1>2. SUFFICES ASSUME NEW u \in Copies', NEW v \in Copies', u.born = v.born
                 PROVE  u.id = v.id
    BY DEF OneId
  <1>3. \A a, b \in Copies : a.born = b.born => a.id = b.id
    BY DEF BlockInv, OneId
  <1>4. CASE x.born = created + 1
    BY <1>1, <1>2, <1>3, <1>4
  <1>5. CASE \E a \in Copies : a.born = x.born /\ a.id = x.id
    BY <1>2, <1>3, <1>5
  <1>6. QED BY <1>4, <1>5

LEMMA UpdateUserHeld ==
    ASSUME TInv, IdsApart, NEW u, UpdateUser(u)
    PROVE  IdsApart' /\ Held' \subseteq Held \cup {u}
  <1>1. /\ Stored(u.id) /\ nextUserID' = nextUserID
        /\ users' = {v \in users : v.id # u.id} \cup {u}
        /\ userByID' = [i \in DOMAIN userByID \cup {u.id} |->
                           IF i = u.id THEN u ELSE userByID[i]]
    BY DEF UpdateUser
  <1>2. IdsApart'
    BY <1>1 DEF IdsApart, Stored
  <1>3. Held' \subseteq Held \cup {u}
    BY <1>1 DEF Held
  <1>4. QED BY <1>2, <1>3

LEMMA CreateUserHeld ==
    ASSUME TInv, IdsApart, NEW n, NEW vetted, CreateUser(n, vetted)
    PROVE  IdsApart' /\ \E x : x.born = created + 1 /\ Held' \subseteq Held \cup {x}
  <1> DEFINE u == [id |-> nextUserID + 1, born |-> created + 1, name |-> n,
                   vetted |-> vetted, blocked |-> FALSE]
  <1>1. /\ nextUserID' = nextUserID + 1 /\ nextUserID \in Nat /\ u.id = nextUserID + 1
        /\ u.born = created + 1
        /\ users' = users \cup {u}
        /\ userByID' = [i \in DOMAIN userByID \cup {u.id} |->
                           IF i = u.id THEN u ELSE userByID[i]]
        /\ \A v \in users : v.id \in Nat /\ v.id <= nextUserID
    BY CountShape DEF CreateUser, TInv, AccountTypes, Known, IdsApart
  <1> HIDE DEF u
  <1>2. IdsApart'
    BY <1>1 DEF IdsApart
  <1>3. Held' \subseteq Held \cup {u}
    BY <1>1 DEF Held
  <1>4. QED BY <1>1, <1>2, <1>3

LEMMA HeldStays ==
    ASSUME IdsApart, UNCHANGED accounts
    PROVE  IdsApart' /\ Held' = Held
  BY DEF IdsApart, Held, accounts

\* A step that adds at most x to what is held, when x is new or a copy of an account.
LEMMA CopyKept ==
    ASSUME BlockInv, IdsApart', TasksKept', barred' \subseteq barred,
           NEW x, Held' \subseteq Held \cup {x},
           x.born = created + 1 \/ \E v \in Copies : v.born = x.born /\ v.id = x.id,
           x.born \in barred' => x.blocked,
           \A v \in Tasks : task'[v].user \in Copies \cup {x}
    PROVE  IdsApart' /\ OneId' /\ HeldKept' /\ TasksKept'
  <1>1. Copies' = Held' \cup {task'[v].user : v \in Tasks} \cup {TheAdmin}
    BY DEF Copies
  <1>2. \A u \in Copies' : u = x \/ u \in Copies
    BY <1>1 DEF Copies
  <1>3. OneId'
    BY <1>2, OneIdStays
  <1>4. HeldKept'
    BY DEF BlockInv, HeldKept
  <1>5. QED BY <1>3, <1>4

\* Nothing is held that was not.
LEMMA NothingNewKept ==
    ASSUME BlockInv, IdsApart', TasksKept', barred' \subseteq barred, Held' \subseteq Held,
           \A v \in Tasks : task'[v].user \in Copies
    PROVE  IdsApart' /\ OneId' /\ HeldKept' /\ TasksKept'
  <1>1. TheAdmin \in Copies /\ TheAdmin.born = Admin /\ Admin \notin barred'
    BY DEF Copies, TheAdmin, BlockInv, HeldKept
  <1>2. QED BY <1>1, CopyKept

\* The only task goes on.
LEMMA GoesKept ==
    ASSUME BlockInv, Alone, barred' \subseteq barred, NEW w \in Tasks, NEW work,
           task' = [task EXCEPT ![w] = work],
           work.at # "unblock" => (work.user.born \in barred' => work.user.blocked),
           work.at \in {"block", "evict blocked"} => work.user.id # Admin
    PROVE  TasksKept' /\ \A v \in Tasks : task'[v].user = work.user
  <1>1. \A v \in Tasks : task'[v] = work
    BY DEF Alone, BlockInv, TInv, TaskTypes
  <1>2. QED BY <1>1 DEF TasksKept

LEMMA EndsKept ==
    ASSUME BlockInv, Alone, barred' \subseteq barred, NEW w \in Tasks, Ends(w)
    PROVE  TasksKept' /\ \A v \in Tasks : task'[v].user \in Copies
  <1>1. /\ Idle.at = "idle" /\ Idle.user = TheAdmin /\ TheAdmin.born = Admin
        /\ TheAdmin \in Copies /\ Admin \notin barred'
    BY DEF Idle, TheAdmin, Copies, BlockInv, HeldKept
  <1>2. task' = [task EXCEPT ![w] = Idle]
    BY DEF Ends
  <1>3. QED BY <1>1, <1>2, GoesKept

LEMMA StaysKept ==
    ASSUME BlockInv, barred' \subseteq barred, UNCHANGED task
    PROVE  TasksKept' /\ \A v \in Tasks : task'[v].user \in Copies
  BY DEF BlockInv, TasksKept, Copies

LEMMA LoginKept ==
    ASSUME BlockInv, Alone, NEW w \in Tasks, LoginNext(w)
    PROVE  IdsApart' /\ OneId' /\ HeldKept' /\ TasksKept'
  <1>1. /\ \A u \in Held : u \in Copies /\ (u.born \in barred => u.blocked)
        /\ task[w].user \in Copies
        /\ task[w].at # "unblock" => (task[w].user.born \in barred => task[w].user.blocked)
    BY DEF BlockInv, HeldKept, TasksKept, Copies
  <1>2. UNCHANGED accounts => IdsApart' /\ Held' \subseteq Held
    BY HeldStays DEF BlockInv
  <1>3. ASSUME UNCHANGED accounts, UNCHANGED barred,
               NEW at, at # "block", at # "evict blocked",
               NEW u \in Copies, u.born \in barred => u.blocked, Goes(w, at, u)
        PROVE  IdsApart' /\ OneId' /\ HeldKept' /\ TasksKept'
    <2> DEFINE work == [at |-> at, user |-> u, tok |-> NoToken]
    <2>1. work.user = u /\ work.at = at /\ task' = [task EXCEPT ![w] = work]
      BY <1>3 DEF Goes
    <2> HIDE DEF work
    <2>2. TasksKept' /\ \A v \in Tasks : task'[v].user \in Copies
      BY <1>3, <2>1, GoesKept
    <2>3. QED BY <1>2, <1>3, <2>2, NothingNewKept
  <1>4. CASE \E u \in users : StartLogin(w, u) \/ WrongPassword(w, u)
    <2>1. PICK u \in users : StartLogin(w, u) \/ WrongPassword(w, u)
      BY <1>4
    <2>2. /\ UNCHANGED accounts /\ UNCHANGED barred /\ u \in Held
          /\ Goes(w, "create session", u) \/ Goes(w, "read back", u)
      BY <2>1 DEF StartLogin, WrongPassword, Held
    <2>3. QED BY <1>1, <1>3, <2>2
  <1>5. ASSUME NEW tok \in Tokens, LoginCreates(w, tok)
        PROVE  IdsApart' /\ OneId' /\ HeldKept' /\ TasksKept'
    <2>1. /\ task[w].at = "create session" /\ UNCHANGED accounts /\ UNCHANGED barred
          /\ \/ task' = [task EXCEPT ![w].at = "evict others", ![w].tok = tok]
             \/ Ends(w)
      BY <1>5 DEF LoginCreates
    <2>2. CASE Ends(w)
      BY <1>2, <2>1, <2>2, EndsKept, NothingNewKept
    <2>3. CASE task' = [task EXCEPT ![w].at = "evict others", ![w].tok = tok]
      <3> DEFINE work == [task[w] EXCEPT !.at = "evict others", !.tok = tok]
      <3>1. /\ task' = [task EXCEPT ![w] = work]
            /\ work.user = task[w].user /\ work.at = "evict others"
        BY <2>3 DEF BlockInv, TInv, TaskTypes, Work
      <3> HIDE DEF work
      <3>2. TasksKept' /\ \A v \in Tasks : task'[v].user \in Copies
        BY <1>1, <2>1, <3>1, GoesKept
      <3>3. QED BY <1>2, <2>1, <3>2, NothingNewKept
    <2>4. QED BY <2>1, <2>2, <2>3
  <1>6. CASE LoginEvicts(w)
    BY <1>1, <1>3, <1>6 DEF LoginEvicts
  <1>7. CASE ReadBack(w)
    <2>1. /\ UNCHANGED accounts /\ UNCHANGED barred
          /\ \/ \E i \in DOMAIN userByID : Goes(w, "record login", userByID[i])
             \/ Ends(w)
      BY <1>7 DEF ReadBack
    <2>2. CASE Ends(w)
      BY <1>2, <2>1, <2>2, EndsKept, NothingNewKept
    <2>3. ASSUME NEW i \in DOMAIN userByID, Goes(w, "record login", userByID[i])
          PROVE  IdsApart' /\ OneId' /\ HeldKept' /\ TasksKept'
      <3>1. userByID[i] \in Held
        BY DEF Held
      <3>2. QED BY <1>1, <1>3, <2>1, <2>3, <3>1
    <2>4. QED BY <2>1, <2>2, <2>3
  <1>8. CASE RecordLogin(w)
    <2>1. /\ task[w].at = "record login" /\ UpdateUserOrFail(task[w].user)
          /\ Ends(w) /\ UNCHANGED barred
      BY <1>8 DEF RecordLogin
    <2>2. IdsApart' /\ Held' \subseteq Held \cup {task[w].user}
      BY <1>2, <2>1, UpdateUserHeld DEF UpdateUserOrFail, BlockInv
    <2>3. TasksKept' /\ \A v \in Tasks : task'[v].user \in Copies
      BY <2>1, EndsKept
    <2>4. QED BY <1>1, <2>1, <2>2, <2>3, CopyKept
  <1>9. QED BY <1>4, <1>5, <1>6, <1>7, <1>8 DEF LoginNext

LEMMA AdminKept ==
    ASSUME BlockInv, Alone, NEW w \in Tasks, AdminNext(w)
    PROVE  IdsApart' /\ OneId' /\ HeldKept' /\ TasksKept'
  <1>1. /\ \A u \in Held : u \in Copies /\ (u.born \in barred => u.blocked)
        /\ task[w].user \in Copies /\ Known(task[w].user, created)
        /\ task[w].at \in {"block", "evict blocked"} => task[w].user.id # Admin
        /\ TheAdmin \in Copies /\ TheAdmin.born = Admin /\ Admin \notin barred
        /\ \A i \in DOMAIN userByID : userByID[i] \in Held /\ userByID[i].id = i
    BY HeldShape DEF BlockInv, HeldKept, TasksKept, Copies, Held, TheAdmin, TInv, AccountTypes
  <1>2. UNCHANGED accounts => IdsApart' /\ Held' \subseteq Held
    BY HeldStays DEF BlockInv
  <1>3. ASSUME NEW n \in Names, CheckName(w, n)
        PROVE  IdsApart' /\ OneId' /\ HeldKept' /\ TasksKept'
    <2> DEFINE x == [TheAdmin EXCEPT !.name = n]
               work == [at |-> "create user", user |-> x, tok |-> NoToken]
    <2>1. /\ UNCHANGED accounts /\ UNCHANGED barred /\ task' = [task EXCEPT ![w] = work]
          /\ work.at = "create user" /\ work.user = x
      BY <1>3 DEF CheckName, Goes
    <2>2. x.born = TheAdmin.born /\ x.id = TheAdmin.id
      BY DEF TheAdmin
    <2> HIDE DEF x, work
    <2>3. TasksKept' /\ \A v \in Tasks : task'[v].user = x
      BY <1>1, <2>1, <2>2, GoesKept
    <2>4. \E v \in Copies : v.born = x.born /\ v.id = x.id
      BY <1>1, <2>2
    <2>5. x.born \notin barred' /\ barred' \subseteq barred /\ Held' \subseteq Held \cup {x}
      BY <1>1, <1>2, <2>1, <2>2
    <2>6. \A v \in Tasks : task'[v].user \in Copies \cup {x}
      BY <2>3
    <2>7. QED BY <1>2, <2>1, <2>3, <2>4, <2>5, <2>6, CopyKept
  <1>4. CASE CreateChecked(w)
    <2>1. CreateUser(task[w].user.name, TRUE) /\ Ends(w) /\ UNCHANGED barred
      BY <1>4 DEF CreateChecked
    <2>2. IdsApart' /\ \E x : x.born = created + 1 /\ Held' \subseteq Held \cup {x}
      BY <2>1, CreateUserHeld DEF BlockInv
    <2>3. TasksKept' /\ \A v \in Tasks : task'[v].user \in Copies
      BY <2>1, EndsKept
    <2>4. created + 1 \notin barred
      BY CountShape DEF BlockInv, TInv
    <2>5. QED BY <2>1, <2>2, <2>3, <2>4, CopyKept
  <1>5. ASSUME NEW id \in 1..MaxCreated, ReadToBlock(w, id) \/ ReadToUnblock(w, id)
        PROVE  IdsApart' /\ OneId' /\ HeldKept' /\ TasksKept'
    <2>1. id \in DOMAIN userByID /\ UNCHANGED accounts /\ barred' \subseteq barred
      BY <1>5 DEF ReadToBlock, ReadToUnblock
    <2>2. TasksKept' /\ \A v \in Tasks : task'[v].user = userByID[id]
      <3>1. CASE ReadToBlock(w, id)
        <4> DEFINE work == [at |-> "block", user |-> userByID[id], tok |-> NoToken]
        <4>1. /\ id # Admin /\ task' = [task EXCEPT ![w] = work]
              /\ work.at = "block" /\ work.user = userByID[id]
          BY <3>1 DEF ReadToBlock, Goes
        <4> HIDE DEF work
        <4>2. work.user.id # Admin /\ (work.user.born \in barred' => work.user.blocked)
          BY <1>1, <2>1, <4>1
        <4>3. QED BY <2>1, <4>1, <4>2, GoesKept
      <3>2. CASE ReadToUnblock(w, id)
        <4> DEFINE work == [at |-> "unblock", user |-> userByID[id], tok |-> NoToken]
        <4>1. /\ task' = [task EXCEPT ![w] = work]
              /\ work.at = "unblock" /\ work.user = userByID[id]
          BY <3>2 DEF ReadToUnblock, Goes
        <4> HIDE DEF work
        <4>2. QED BY <2>1, <4>1, GoesKept
      <3>3. QED BY <1>5, <3>1, <3>2
    <2>3. QED BY <1>1, <1>2, <2>1, <2>2, NothingNewKept
  <1>6. CASE Block(w)
    <2> DEFINE u == [task[w].user EXCEPT !.blocked = TRUE]
               work == [at |-> "evict blocked", user |-> u, tok |-> NoToken]
    <2>1. u.born = task[w].user.born /\ u.id = task[w].user.id /\ u.blocked
      BY <1>1 DEF Known, User
    <2>2. /\ task[w].at = "block" /\ UNCHANGED barred
          /\ UpdateUser(u) \/ UNCHANGED accounts
          /\ \/ UpdateUser(u) /\ task' = [task EXCEPT ![w] = work]
             \/ Ends(w)
          /\ work.at = "evict blocked" /\ work.user = u
      BY <1>6 DEF Block, Goes
    <2> HIDE DEF u, work
    <2>3. IdsApart' /\ Held' \subseteq Held \cup {u}
      BY <1>2, <2>2, UpdateUserHeld DEF BlockInv
    <2>4. TasksKept' /\ \A v \in Tasks : task'[v].user \in Copies \cup {u}
      <3>1. CASE Ends(w)
        BY <2>2, <3>1, EndsKept
      <3>2. CASE task' = [task EXCEPT ![w] = work]
        BY <1>1, <2>1, <2>2, <3>2, GoesKept
      <3>3. QED BY <2>2, <3>1, <3>2
    <2>5. QED BY <1>1, <2>1, <2>2, <2>3, <2>4, CopyKept
  <1>7. CASE BlockEvicts(w)
    <2> DEFINE new == {v \in users : v.id = task[w].user.id /\ v.blocked}
    <2>1. /\ UNCHANGED accounts /\ Ends(w) /\ barred' = barred \cup {v.born : v \in new}
          /\ task[w].at = "evict blocked"
      BY <1>7 DEF BlockEvicts
    <2>2. IdsApart' /\ Held' = Held
      BY <2>1, HeldStays DEF BlockInv
    <2>3. Admin \notin barred'
      <3>1. \A v \in new : v \in Copies /\ v.id # Admin
        BY <1>1, <2>1 DEF Held
      <3>2. \A v \in new : v.born # Admin
        BY <1>1, <3>1 DEF BlockInv, OneId, TheAdmin
      <3>3. QED BY <1>1, <2>1, <3>2
    <2>4. \A v \in new, u \in Held : u.born = v.born => u.blocked
      <3> SUFFICES ASSUME NEW v \in new, NEW u \in Held, u.born = v.born PROVE u.blocked
        OBVIOUS
      <3>1. u.id = v.id /\ v \in users /\ v.blocked
        BY <1>1 DEF BlockInv, OneId, Held
      <3>2. CASE u \in users
        BY <3>1, <3>2 DEF BlockInv, IdsApart
      <3>3. CASE \E i \in DOMAIN userByID : u = userByID[i]
        <4>1. PICK i \in DOMAIN userByID : u = userByID[i]
          BY <3>3
        <4>2. v.id \in DOMAIN userByID /\ u = userByID[v.id]
          BY <1>1, <3>1, <4>1
        <4>3. u = v
          BY <3>1, <4>2 DEF BlockInv, IdsApart
        <4>4. QED BY <3>1, <4>3
      <3>4. QED BY <3>2, <3>3 DEF Held
    <2>5. HeldKept'
      BY <1>1, <2>1, <2>2, <2>3, <2>4 DEF HeldKept
    <2>6. \A v \in Tasks : task'[v] = Idle
      BY <2>1 DEF Ends, Alone, BlockInv, TInv, TaskTypes
    <2>7. Idle.at = "idle" /\ Idle.user = TheAdmin
      BY DEF Idle
    <2>8. TasksKept'
      BY <1>1, <2>3, <2>6, <2>7 DEF TasksKept
    <2>9. Copies' \subseteq Copies
      BY <2>2, <2>6, <2>7 DEF Copies
    <2>10. OneId'
      BY <2>9 DEF BlockInv, OneId
    <2>11. QED BY <2>2, <2>5, <2>8, <2>10
  <1>8. CASE Unblock(w)
    <2> DEFINE u == [task[w].user EXCEPT !.blocked = FALSE]
    <2>1. u.born = task[w].user.born /\ u.id = task[w].user.id
      BY <1>1 DEF Known, User
    <2>2. UpdateUserOrFail(u) /\ Ends(w) /\ barred' = barred \ {task[w].user.born}
      BY <1>8 DEF Unblock
    <2> HIDE DEF u
    <2>3. IdsApart' /\ Held' \subseteq Held \cup {u}
      BY <1>2, <2>2, UpdateUserHeld DEF BlockInv, UpdateUserOrFail
    <2>4. TasksKept' /\ \A v \in Tasks : task'[v].user \in Copies
      BY <2>2, EndsKept
    <2>5. QED BY <1>1, <2>1, <2>2, <2>3, <2>4, CopyKept
  <1>9. CASE DeleteAllSessions(w)
    BY <1>2, <1>9, EndsKept, NothingNewKept DEF DeleteAllSessions
  <1>10. CASE ResetToEmpty(w)
    <2>1. /\ Admin \in DOMAIN userByID /\ users' = {userByID[Admin]} /\ nextUserID' = Admin
          /\ UNCHANGED userByID /\ UNCHANGED barred
          /\ Ends(w) \/ Goes(w, "delete all sessions", TheAdmin)
      BY <1>10 DEF ResetToEmpty
    <2>2. IdsApart'
      <3>1. userByID[Admin].id = Admin
        BY <1>1, <2>1
      <3>2. Admin <= Admin
        BY DEF Admin
      <3>3. \A u \in users' : u = userByID[Admin] /\ u.id = Admin /\ u.id <= nextUserID'
        BY <2>1, <3>1, <3>2
      <3>4. QED BY <2>1, <3>3 DEF IdsApart
    <2>3. Held' \subseteq Held
      BY <2>1 DEF Held
    <2>4. TasksKept' /\ \A v \in Tasks : task'[v].user \in Copies
      <3>1. CASE Ends(w)
        BY <2>1, <3>1, EndsKept
      <3>2. CASE Goes(w, "delete all sessions", TheAdmin)
        <4> DEFINE work == [at |-> "delete all sessions", user |-> TheAdmin, tok |-> NoToken]
        <4>1. /\ task' = [task EXCEPT ![w] = work]
              /\ work.at = "delete all sessions" /\ work.user = TheAdmin
          BY <3>2 DEF Goes
        <4> HIDE DEF work
        <4>2. QED BY <1>1, <2>1, <4>1, GoesKept
      <3>3. QED BY <2>1, <3>1, <3>2
    <2>5. QED BY <2>1, <2>2, <2>3, <2>4, NothingNewKept
  <1>11. QED BY <1>3, <1>4, <1>5, <1>6, <1>7, <1>8, <1>9, <1>10 DEF AdminNext

LEMMA StoreKept ==
    ASSUME BlockInv,
           \/ \E n \in Names, vetted \in BOOLEAN : Register(n, vetted)
           \/ \E id \in 1..MaxCreated : VetUser(id) \/ DeleteUser(id)
           \/ \E tok \in Tokens : Logout(tok) \/ LogoutEverywhere(tok) \/ Expire(tok)
           \/ CleanExpiredSessions
           \/ ResetDatabase
    PROVE  IdsApart' /\ OneId' /\ HeldKept' /\ TasksKept'
  <1>1. ASSUME NEW n \in Names, NEW vetted \in BOOLEAN, Register(n, vetted)
        PROVE  IdsApart' /\ OneId' /\ HeldKept' /\ TasksKept'
    <2>1. CreateUser(n, vetted) /\ UNCHANGED task /\ UNCHANGED barred
      BY <1>1 DEF Register
    <2>2. IdsApart' /\ \E x : x.born = created + 1 /\ Held' \subseteq Held \cup {x}
      BY <2>1, CreateUserHeld DEF BlockInv
    <2>3. created + 1 \notin barred
      BY CountShape DEF BlockInv, TInv
    <2>4. TasksKept' /\ \A v \in Tasks : task'[v].user \in Copies
      BY <2>1, StaysKept
    <2>5. QED BY <2>1, <2>2, <2>3, <2>4, CopyKept
  <1>2. ASSUME NEW id \in 1..MaxCreated, VetUser(id)
        PROVE  IdsApart' /\ OneId' /\ HeldKept' /\ TasksKept'
    <2>1. PICK u \in users : UpdateUser([u EXCEPT !.vetted = TRUE])
      BY <1>2 DEF VetUser
    <2> DEFINE x == [u EXCEPT !.vetted = TRUE]
    <2>2. UNCHANGED task /\ UNCHANGED barred
      BY <1>2 DEF VetUser
    <2>3. u \in User /\ u \in Held /\ u \in Copies
      BY DEF BlockInv, TInv, AccountTypes, Known, Held, Copies
    <2>4. x.born = u.born /\ x.id = u.id /\ x.blocked = u.blocked
      BY <2>3 DEF User
    <2> HIDE DEF x
    <2>5. IdsApart' /\ Held' \subseteq Held \cup {x}
      BY <2>1, UpdateUserHeld DEF BlockInv, x
    <2>6. x.born \in barred => x.blocked
      BY <2>3, <2>4 DEF BlockInv, HeldKept
    <2>7. TasksKept' /\ \A v \in Tasks : task'[v].user \in Copies
      BY <2>2, StaysKept
    <2>8. QED BY <2>2, <2>3, <2>4, <2>5, <2>6, <2>7, CopyKept
  <1>3. ASSUME IdsApart', Held' \subseteq Held, UNCHANGED task, UNCHANGED barred
        PROVE  IdsApart' /\ OneId' /\ HeldKept' /\ TasksKept'
    BY <1>3, StaysKept, NothingNewKept
  <1>4. ASSUME NEW id \in 1..MaxCreated, DeleteUser(id) PROVE IdsApart' /\ Held' \subseteq Held
    BY <1>4 DEF DeleteUser, Without, BlockInv, IdsApart, Held
  <1>5. CASE ResetDatabase
    BY <1>3, <1>5 DEF ResetDatabase, UserIndex, BlockInv, IdsApart, Held
  <1>6. UNCHANGED accounts => IdsApart' /\ Held' \subseteq Held
    BY HeldStays DEF BlockInv
  <1>7. CASE \E id \in 1..MaxCreated : DeleteUser(id)
    BY <1>3, <1>4, <1>7 DEF DeleteUser
  <1>8. CASE \E tok \in Tokens : Logout(tok) \/ LogoutEverywhere(tok) \/ Expire(tok)
    BY <1>3, <1>6, <1>8 DEF Logout, DeleteSession, LogoutEverywhere, Expire
  <1>9. CASE CleanExpiredSessions
    BY <1>3, <1>6, <1>9 DEF CleanExpiredSessions
  <1>10. QED BY <1>1, <1>2, <1>5, <1>7, <1>8, <1>9

LEMMA LoadKept ==
    ASSUME BlockInv, Load
    PROVE  IdsApart' /\ OneId' /\ HeldKept' /\ TasksKept'
  <1>1. /\ userByID' = [i \in {u.id : u \in users} |-> CHOOSE u \in users : u.id = i]
        /\ nextUserID' = CHOOSE i \in {u.id : u \in users} : \A u \in users : u.id <= i
        /\ users' = users /\ task' = [w \in Tasks |-> Idle] /\ barred' = barred
    BY DEF Load, UserIndex
  <1>2. \A u \in users : u.id <= nextUserID'
    <2> DEFINE ids == {u.id : u \in users}
    <2>1. created \in Nat /\ ids \subseteq Nat /\ ids # {} /\ \A i \in ids : i <= created
      BY CountShape DEF Known, BlockInv, TInv, AccountTypes, Stored
    <2>2. \E i \in ids : \A j \in ids : j <= i
      <3> HIDE DEF ids
      <3>1. QED BY <2>1, LargestExists
    <2>3. \E i \in ids : \A u \in users : u.id <= i
      BY <2>2
    <2>4. QED BY <1>1, <2>3
  <1>3. \A i \in DOMAIN userByID' : userByID'[i] \in users /\ userByID'[i].id = i
    BY <1>1
  <1>4. IdsApart'
    BY <1>1, <1>2, <1>3 DEF BlockInv, IdsApart
  <1>5. Held' \subseteq Held
    BY <1>1, <1>3 DEF Held
  <1>6. /\ Idle.at = "idle" /\ Idle.user = TheAdmin /\ TheAdmin.born = Admin
        /\ Admin \notin barred /\ TheAdmin \in Copies
    BY DEF Idle, TheAdmin, BlockInv, HeldKept, Copies
  <1>7. TasksKept' /\ \A v \in Tasks : task'[v].user \in Copies
    BY <1>1, <1>6 DEF TasksKept
  <1>8. QED BY <1>1, <1>4, <1>5, <1>7, NothingNewKept

LEMMA InitBlock == Init => BlockInv
  <1> SUFFICES ASSUME Init PROVE BlockInv
    OBVIOUS
  <1>1. /\ users = {TheAdmin} /\ TheAdmin.id = 1 /\ nextUserID = 1 /\ barred = {}
        /\ userByID = [i \in {u.id : u \in users} |-> CHOOSE u \in users : u.id = i]
        /\ task = [w \in Tasks |-> Idle] /\ Idle.user = TheAdmin /\ Idle.at = "idle"
    BY DEF Init, TheAdmin, Admin, UserIndex, Idle
  <1>2. \A i \in DOMAIN userByID : userByID[i] \in users
    BY <1>1
  <1>3. Held \subseteq {TheAdmin} /\ Copies \subseteq {TheAdmin}
    BY <1>1, <1>2 DEF Held, Copies
  <1>4. IdsApart
    BY <1>1, <1>2 DEF IdsApart
  <1>5. OneId
    BY <1>3 DEF OneId
  <1>6. HeldKept /\ TasksKept
    BY <1>1 DEF HeldKept, TasksKept
  <1>7. QED BY <1>4, <1>5, <1>6, InitTInv DEF BlockInv

LEMMA NextBlock == Alone /\ BlockInv /\ [Next]_vars => BlockInv'
  <1> SUFFICES ASSUME Alone, BlockInv, [Next]_vars PROVE BlockInv'
    OBVIOUS
  <1>1. TInv'
    BY NextTInv DEF BlockInv
  <1>2. CASE Next
    BY <1>1, <1>2, LoginKept, AdminKept, StoreKept, LoadKept DEF Next, BlockInv
  <1>3. CASE UNCHANGED vars
    <2>1. UNCHANGED accounts /\ UNCHANGED task /\ UNCHANGED barred
      BY <1>3 DEF vars
    <2>2. IdsApart' /\ Held' \subseteq Held
      BY <2>1, HeldStays DEF BlockInv
    <2>3. TasksKept' /\ \A v \in Tasks : task'[v].user \in Copies
      BY <2>1, StaysKept
    <2>4. QED BY <1>1, <2>1, <2>2, <2>3, NothingNewKept DEF BlockInv
  <1>4. QED BY <1>2, <1>3

\* When handlers run one at a time, a confirmed block holds until somebody unblocks the
\* account, whatever saves fail and however often the program restarts, the store is
\* reset and IDs are handed out again (handlers_users.go, handleBlockUser).
THEOREM BlockAlwaysHolds == Alone => (Spec => []BlockHolds)
  <1> SUFFICES ASSUME Alone PROVE Spec => []BlockHolds
    OBVIOUS
  <1>1. BlockInv => BlockHolds
    <2> SUFFICES ASSUME BlockInv, NEW t \in Tokens, Authenticates(t)
                 PROVE  userByID[sessionByID[t].uid].born \notin barred
      BY DEF BlockHolds
    <2>1. userByID[sessionByID[t].uid] \in Held /\ ~userByID[sessionByID[t].uid].blocked
      BY DEF Authenticates, MayLogIn, Held
    <2>2. QED BY <2>1 DEF BlockInv, HeldKept
  <1>2. QED BY <1>1, InitBlock, NextBlock, PTL DEF Spec

=============================================================================
