--------------------------- MODULE AccountsProofs ---------------------------
(***************************************************************************)
(* Proofs about Accounts: its types, who owns a token and which user has   *)
(* one, and for how long a role outlives its loss, for any numbers of      *)
(* names, users and requests.                                              *)
(***************************************************************************)
EXTENDS Accounts, TLAPS

\* The local variables of a request, by the statement it is at.
Issuing == [pc : {"issue"}, op : {"login", "refresh"}, user : User, id : Id, remember : BOOLEAN]

Requests(pc, op, name, id, role) ==
    [pc : pc, op : op, tool : BOOLEAN, name : name, id : id, role : role, by : Id \cup {None}]

Inserting == Requests({"insert"}, {"create", "register"}, Name, {None}, Role)

Aiming == Requests({"reread", "token", "rollback", "revoke"},
                   {"create", "register", "regenerate"}, Name, Id, Role \cup {None})

Finding == Requests({"find"}, AdminOps, {None}, Id, Role \cup {None})

Writing == Requests({"write"}, {"role", "password", "delete"}, Name \cup {None}, Id,
                    Role \cup {None})

SlotState == {Idle} \cup Issuing \cup Inserting \cup Aiming \cup Finding \cup Writing

Typed ==
    /\ users \in [Id -> User \cup {None}]
    /\ tokens \in [Name -> Id \cup {None}]
    /\ nextId \in 1 .. MaxId + 1
    /\ jwts \subseteq JWT
    /\ day \in 0 .. MaxDay
    /\ slot \in [Slot -> SlotState]
    /\ \A s \in Slot : (At(s, "find") \/ At(s, "write")) /\ slot[s].op = "role" => slot[s].role \in Role
    /\ adminOn \in [Id -> -1 .. MaxDay]
    /\ bare \subseteq Id

\* Ids grow and are not used again, so a request that holds the id of a user
\* holds its name too, if the user is still there.
Aimed ==
    /\ \A i \in Id : Live(i) => i < nextId
    /\ \A i, j \in Id : Live(i) /\ Live(j) /\ users[i].name = users[j].name => i = j
    /\ \A s \in Slot : slot[s] \in Aiming =>
         /\ slot[s].id < nextId
         /\ Live(slot[s].id) => users[slot[s].id].name = slot[s].name

TokensInv == Aimed /\ TokensHaveOwners /\ UsersHaveTokens

\* What the roles in JWTs and in requests under way owe to the history of the
\* user they came from.
SessionsInv ==
    /\ \A i \in Id : adminOn[i] <= day
    /\ \A i \in Id : Live(i) /\ users[i].role = "HUMAN_ADMIN" => adminOn[i] = day
    /\ \A jwt \in jwts :
         /\ jwt.issuedAt <= day
         /\ jwt.expiresAt <= jwt.issuedAt + 2 * Validity
         /\ jwt.role = "HUMAN_ADMIN" => adminOn[jwt.user_id] >= jwt.issuedAt
    /\ \A s \in Slot : slot[s] \in Issuing /\ slot[s].user.role = "HUMAN_ADMIN" =>
         adminOn[slot[s].id] = day
    /\ \A s \in Slot : slot[s] \in Finding \cup Writing /\ ~slot[s].tool =>
         /\ slot[s].by \in Id
         /\ day - adminOn[slot[s].by] < 2 * Validity

Inv == Typed /\ TokensInv /\ SessionsInv
-----------------------------------------------------------------------------
(* The parts of the state *)

\* The statement a request is at tells which variables it has.
LEMMA Shapes ==
    ASSUME Typed, NEW s \in Slot
    PROVE  /\ slot[s] \in SlotState
           /\ At(s, "idle") => slot[s] = Idle
           /\ At(s, "issue") <=> slot[s] \in Issuing
           /\ At(s, "insert") <=> slot[s] \in Inserting
           /\ slot[s].pc \in {"reread", "token", "rollback", "revoke"} <=> slot[s] \in Aiming
           /\ At(s, "find") <=> slot[s] \in Finding
           /\ At(s, "write") <=> slot[s] \in Writing
<1>1. slot[s] \in SlotState
  BY DEF Typed
<1> QED
  BY <1>1 DEF SlotState, At, Idle, Issuing, Inserting, Aiming, Finding, Writing, Requests

\* A row of the table users is a user.
LEMMA Rows ==
    ASSUME Typed, NEW i \in Id, Live(i)
    PROVE  users[i] \in User
BY DEF Typed, Live

\* No user is mistaken for nothing.
LEMMA NotNone == None \notin User /\ None \notin Id
BY AccountsAssumption DEF User, Id

LEMMA InitInv == Init => Inv
<1> SUFFICES ASSUME Init PROVE Inv
  OBVIOUS
<1> USE AccountsAssumption DEF Init
<1>1. Idle \in SlotState
  BY DEF SlotState
<1>2. Typed
  BY <1>1 DEF Typed, At, Idle
<1>3. \A i \in Id : ~Live(i)
  BY DEF Live
<1>4. \A s \in Slot : slot[s] = Idle /\ slot[s] \notin Aiming \cup Issuing \cup Finding \cup Writing
  BY DEF Idle, Aiming, Issuing, Finding, Writing, Requests
<1>5. TokensInv
  BY <1>3, <1>4 DEF TokensInv, Aimed, TokensHaveOwners, UsersHaveTokens
<1>6. SessionsInv
  BY <1>3, <1>4 DEF SessionsInv
<1> QED
  BY <1>2, <1>5, <1>6 DEF Inv
-----------------------------------------------------------------------------
(* Steps of one request that change nothing that is shared, but bare *)

\* The request goes on with the variables r.
Proceeds(s, r) ==
    /\ slot' = [slot EXCEPT ![s] = r]
    /\ UNCHANGED <<users, tokens, nextId, jwts, day, adminOn>>
    /\ r \in SlotState
    /\ r \in Finding \cup Writing /\ r.op = "role" => r.role \in Role
    /\ r \in Issuing /\ r.user.role = "HUMAN_ADMIN" => adminOn[r.id] = day
    /\ r \in Finding \cup Writing /\ ~r.tool =>
         /\ r.by \in Id
         /\ day - adminOn[r.by] < 2 * Validity
    /\ r \in Aiming =>
         /\ r.id < nextId
         /\ Live(r.id) => users[r.id].name = r.name
    /\ bare \subseteq bare' /\ bare' \subseteq Id
    /\ \A i \in Left(s) : \/ i \in bare' \/ HasToken(i)
                          \/ r.pc \in {"reread", "token", "rollback"} /\ r.id = i

LEMMA ProceedsInv ==
    ASSUME Inv, NEW s \in Slot, NEW r, Proceeds(s, r)
    PROVE  Inv'
<1> USE DEF Inv, Proceeds
<1>1. /\ slot'[s] = r
      /\ \A t \in Slot \ {s} : slot'[t] = slot[t]
  BY DEF Typed
<1>2. Typed'
  <2>1. slot' \in [Slot -> SlotState]
    BY DEF Typed
  <2>2. (r.pc = "find" \/ r.pc = "write") => r \in Finding \cup Writing
    BY DEF SlotState, Idle, Issuing, Inserting, Finding, Writing, Aiming, Requests
  <2> QED
    BY <1>1, <2>1, <2>2 DEF Typed, At
<1>3. TokensInv'
  <2>1. Aimed'
    BY <1>1 DEF TokensInv, Aimed, Live
  <2>2. \A t \in Slot \ {s} : Left(t)' = Left(t)
    BY <1>1 DEF Left, Live
  <2>3. UsersHaveTokens'
    <3> SUFFICES ASSUME Enforced, NEW i \in Id, Live(i)
                 PROVE (HasToken(i) \/ i \in bare \/ \E t \in Slot : Left(t) = {i})'
      BY DEF UsersHaveTokens, Live
    <3>1. CASE Left(s) = {i}
      BY <1>1, <3>1 DEF Left, Live, HasToken
    <3>2. CASE \E t \in Slot \ {s} : Left(t) = {i}
      BY <2>2, <3>2
    <3> QED
      BY <3>1, <3>2 DEF TokensInv, UsersHaveTokens, HasToken
  <2> QED
    BY <2>1, <2>3 DEF TokensInv, TokensHaveOwners, Live
<1>4. SessionsInv'
  BY <1>1 DEF SessionsInv, Live
<1> QED
  BY <1>2, <1>3, <1>4

\* A new request, with what is known of its variables.
Starts(s, r) ==
    /\ At(s, "idle")
    /\ slot' = [slot EXCEPT ![s] = r]
    /\ UNCHANGED <<users, tokens, nextId, jwts, day, adminOn, bare>>
    /\ r \in Issuing \cup Inserting \cup Finding \cup Writing
    /\ r \in Finding \cup Writing /\ r.op = "role" => r.role \in Role
    /\ r \in Issuing /\ r.user.role = "HUMAN_ADMIN" => adminOn[r.id] = day
    /\ r \in Finding \cup Writing /\ ~r.tool =>
         /\ r.by \in Id
         /\ day - adminOn[r.by] < 2 * Validity

LEMMA StartsInv ==
    ASSUME Inv, NEW s \in Slot, NEW r, Starts(s, r)
    PROVE  Inv'
<1>1. r \notin Aiming
  BY DEF Starts, Issuing, Inserting, Finding, Writing, Aiming, Requests
<1>2. Left(s) = {}
  BY DEF Starts, Left, At
<1>3. Proceeds(s, r)
  BY <1>1, <1>2 DEF Starts, Proceeds, SlotState, Inv, Typed
<1> QED
  BY <1>3, ProceedsInv

\* The row of an administrator and a JWT that is accepted as one both tell
\* that the user was an administrator lately.
LEMMA Administrators ==
    ASSUME Inv, NEW admin \in AuthMiddlewareAdmin
    PROVE  admin.id \in Id /\ day - adminOn[admin.id] < 2 * Validity
<1> USE AccountsAssumption DEF Inv
<1>0. day \in Int /\ \A i \in Id : adminOn[i] \in Int
  BY DEF Typed
<1>1. CASE \E j \in jwts : VerifyJWT(j) /\ admin = [id |-> j.user_id, role |-> j.role]
  <2>1. PICK j \in jwts : VerifyJWT(j) /\ admin = [id |-> j.user_id, role |-> j.role]
    BY <1>1
  <2>2. j \in JWT /\ j.role = "HUMAN_ADMIN"
    BY <2>1 DEF Typed, AuthMiddlewareAdmin
  <2>3. /\ j.user_id \in Id /\ j.issuedAt \in Int /\ j.expiresAt \in Int
        /\ day < j.expiresAt
        /\ j.expiresAt <= j.issuedAt + 2 * Validity
        /\ adminOn[j.user_id] >= j.issuedAt
    BY <2>1, <2>2 DEF JWT, VerifyJWT, SessionsInv
  <2> QED
    BY <1>0, <2>1, <2>3
<1>2. CASE \E i \in Id : Live(i) /\ admin = [id |-> i, role |-> users[i].role]
  BY <1>0, <1>2 DEF SessionsInv, AuthMiddlewareAdmin
<1> QED
  BY <1>1, <1>2 DEF AuthMiddlewareAdmin, UserFromBearer, GetUserByToken

LEMMA LoginInv ==
    ASSUME Inv, NEW s \in Slot, NEW n \in Name, NEW remember \in BOOLEAN, Login(s, n, remember)
    PROVE  Inv'
<1>1. PICK id \in Named(n) :
        Begins(s, [pc |-> "issue", op |-> "login", user |-> users[id], id |-> id,
                   remember |-> remember])
  BY DEF Login
<1> DEFINE r == [pc |-> "issue", op |-> "login", user |-> users[id], id |-> id,
                 remember |-> remember]
<1>2. id \in Id /\ Live(id) /\ users[id] \in User
  BY Rows DEF Named, Inv
<1>3. r \in Issuing /\ r \notin Finding \cup Writing
  BY <1>2 DEF Issuing, Finding, Writing, Requests
<1>4. r.user.role = "HUMAN_ADMIN" => adminOn[r.id] = day
  BY <1>2 DEF Inv, SessionsInv
<1>5. Starts(s, r)
  BY <1>1, <1>3, <1>4 DEF Starts, Begins, Login
<1> QED
  BY <1>5, StartsInv

LEMMA RefreshInv ==
    ASSUME Inv, NEW s \in Slot, NEW jwt \in jwts, Refresh(s, jwt)
    PROVE  Inv'
<1>1. PICK id \in Named(jwt.username) :
        Begins(s, [pc |-> "issue", op |-> "refresh", user |-> users[id], id |-> id,
                   remember |-> FALSE])
  BY DEF Refresh
<1> DEFINE r == [pc |-> "issue", op |-> "refresh", user |-> users[id], id |-> id,
                 remember |-> FALSE]
<1>2. id \in Id /\ Live(id) /\ users[id] \in User
  BY Rows DEF Named, Inv
<1>3. r \in Issuing /\ r \notin Finding \cup Writing
  BY <1>2 DEF Issuing, Finding, Writing, Requests
<1>4. r.user.role = "HUMAN_ADMIN" => adminOn[r.id] = day
  BY <1>2 DEF Inv, SessionsInv
<1>5. Starts(s, r)
  BY <1>1, <1>3, <1>4 DEF Starts, Begins, Refresh
<1> QED
  BY <1>5, StartsInv

LEMMA RegisterInv ==
    ASSUME Inv, NEW s \in Slot, NEW n \in Name, HandleRegister(s, n)
    PROVE  Inv'
<1> DEFINE r == Request("insert", "register", FALSE, n, None, "NORMAL_AI", None)
<1>1. r \in Inserting /\ r \notin Issuing \cup Finding \cup Writing
  BY AccountsAssumption DEF Request, Inserting, Issuing, Finding, Writing, Requests
<1>2. Starts(s, r)
  BY <1>1 DEF Starts, Begins, HandleRegister
<1> QED
  BY <1>2, StartsInv

LEMMA AdminInv ==
    ASSUME Inv, NEW s \in Slot, NEW op \in AdminOps, NEW id \in Id, NEW role \in Role \cup {None},
           op = "role" => role \in Role, HandleAdmin(s, op, id, role)
    PROVE  Inv'
<1>1. PICK admin \in AuthMiddlewareAdmin :
        Begins(s, Request("find", op, FALSE, None, id, role, admin.id))
  BY DEF HandleAdmin
<1> DEFINE r == Request("find", op, FALSE, None, id, role, admin.id)
<1>2. admin.id \in Id /\ day - adminOn[admin.id] < 2 * Validity
  BY Administrators
<1>3. /\ r \in Finding /\ r \notin Issuing
      /\ r.op = op /\ r.role = role /\ r.by = admin.id
  BY <1>2 DEF Request, Finding, Issuing, Requests
<1>4. Starts(s, r)
  BY <1>1, <1>2, <1>3 DEF Starts, Begins, HandleAdmin
<1> QED
  BY <1>4, StartsInv

LEMMA ToolInv ==
    ASSUME Inv, NEW s \in Slot, NEW pc, NEW op, NEW n, NEW id, NEW role, Tool(s, pc, op, n, id, role),
           Request(pc, op, TRUE, n, id, role, None) \in Inserting \cup Finding \cup Writing,
           op = "role" => role \in Role
    PROVE  Inv'
<1> DEFINE r == Request(pc, op, TRUE, n, id, role, None)
<1>1. r \notin Issuing /\ r.tool = TRUE /\ r.op = op /\ r.role = role
  BY DEF Request, Inserting, Finding, Writing, Issuing, Requests
<1>2. Starts(s, r)
  BY <1>1 DEF Starts, Begins, Tool
<1> QED
  BY <1>2, StartsInv

\* The row is there, so the request has the user it is about.
LEMMA GetCreatedInv ==
    ASSUME Inv, NEW s \in Slot, GetCreated(s)
    PROVE  Inv'
<1> USE DEF Inv
<1>1. slot[s] \in Aiming
  BY Shapes DEF GetCreated, At
<1>2. CASE Live(slot[s].id)
  <2> DEFINE r == [slot[s] EXCEPT !.pc = "token"]
  <2>1. /\ r \in Aiming /\ r \notin Issuing \cup Finding \cup Writing
        /\ r.pc = "token" /\ r.id = slot[s].id /\ r.name = slot[s].name
    BY <1>1 DEF Aiming, Issuing, Finding, Writing, Requests
  <2>2. slot' = [slot EXCEPT ![s] = r]
    BY <1>2 DEF GetCreated, Goes, Typed
  <2>3. Proceeds(s, r)
    BY <1>1, <2>1, <2>2 DEF GetCreated, Proceeds, SlotState, Left, Typed, TokensInv, Aimed
  <2> QED
    BY <2>3, ProceedsInv
<1>3. CASE ~Live(slot[s].id)
  <2>1. Proceeds(s, Idle)
    BY <1>3 DEF GetCreated, Ends, Proceeds, SlotState, Idle, Left, Issuing, Finding, Writing,
                Aiming, Requests, Typed
  <2> QED
    BY <2>1, ProceedsInv
<1> QED
  BY <1>2, <1>3

LEMMA GetUserByIDInv ==
    ASSUME Inv, NEW s \in Slot, GetUserByID(s)
    PROVE  Inv'
<1> USE DEF Inv
<1>1. slot[s] \in Finding /\ Left(s) = {}
  BY Shapes DEF GetUserByID, At, Left
<1>2. CASE Live(slot[s].id)
  <2> DEFINE r == [slot[s] EXCEPT !.name = users[slot[s].id].name,
                                  !.pc = IF slot[s].op = "regenerate" THEN "revoke" ELSE "write"]
  <2>1. slot[s].id \in Id /\ users[slot[s].id].name \in Name /\ slot[s].id < nextId
    BY <1>1, <1>2, Rows DEF Live, User, TokensInv, Aimed
  <2>2. /\ r \in Aiming \cup Writing /\ r \notin Issuing \cup Finding
        /\ r.id = slot[s].id /\ r.name = users[slot[s].id].name
        /\ r.op = slot[s].op /\ r.role = slot[s].role /\ r.tool = slot[s].tool /\ r.by = slot[s].by
    BY <1>1, <2>1 DEF Aiming, Issuing, Finding, Writing, Requests, AdminOps
  <2>3. slot' = [slot EXCEPT ![s] = r]
    BY <1>2 DEF GetUserByID, Typed
  <2>4. slot[s].op = "role" => slot[s].role \in Role
    BY DEF GetUserByID, Typed
  <2>5. ~slot[s].tool => slot[s].by \in Id /\ day - adminOn[slot[s].by] < 2 * Validity
    BY <1>1 DEF SessionsInv
  <2>6. Proceeds(s, r)
    BY <1>1, <2>1, <2>2, <2>3, <2>4, <2>5 DEF GetUserByID, Proceeds, SlotState, Typed
  <2> QED
    BY <2>6, ProceedsInv
<1>3. CASE ~Live(slot[s].id)
  <2>1. Proceeds(s, Idle)
    BY <1>1, <1>3 DEF GetUserByID, Ends, Proceeds, SlotState, Idle, Issuing, Finding, Writing,
                      Aiming, Requests, Typed
  <2> QED
    BY <2>1, ProceedsInv
<1> QED
  BY <1>2, <1>3

LEMMA FailInv ==
    ASSUME Inv, NEW s \in Slot, Fail(s)
    PROVE  Inv'
<1> USE DEF Inv
<1>1. CASE At(s, "token") /\ slot[s].op = "register"
  <2> DEFINE r == [slot[s] EXCEPT !.pc = "rollback"]
  <2>1. slot[s] \in Aiming
    BY <1>1, Shapes DEF At
  <2>2. /\ r \in Aiming /\ r \notin Issuing \cup Finding \cup Writing
        /\ r.pc = "rollback" /\ r.id = slot[s].id /\ r.name = slot[s].name
    BY <2>1 DEF Aiming, Issuing, Finding, Writing, Requests
  <2>3. slot' = [slot EXCEPT ![s] = r]
    BY <1>1 DEF Fail, Goes, Typed
  <2>4. Proceeds(s, r)
    BY <1>1, <2>1, <2>2, <2>3 DEF Fail, Proceeds, SlotState, Left, Typed, TokensInv, Aimed
  <2> QED
    BY <2>4, ProceedsInv
<1>2. CASE ~(At(s, "token") /\ slot[s].op = "register")
  <2>1. Left(s) \subseteq Id
    BY DEF Left, Live
  <2>2. Proceeds(s, Idle)
    BY <1>2, <2>1 DEF Fail, Ends, Proceeds, SlotState, Idle, Issuing, Finding, Writing,
                      Aiming, Requests, Typed
  <2> QED
    BY <2>2, ProceedsInv
<1> QED
  BY <1>1, <1>2
-----------------------------------------------------------------------------
(* Steps that change what is shared *)

\* A request that stores nothing leaves the tokens and the users as they are.
LEMMA UndisturbedTokens ==
    ASSUME Inv, UNCHANGED <<users, tokens, nextId, bare>>,
           \A s \in Slot : slot'[s] # slot[s] => Left(s) = {} /\ slot'[s] \notin Aiming
    PROVE  TokensInv'
<1>1. \A s \in Slot : Left(s) # {} => Left(s)' = Left(s)
  BY DEF Left, Live
<1>2. UsersHaveTokens'
  BY <1>1 DEF Inv, TokensInv, UsersHaveTokens, Live, HasToken
<1> QED
  BY <1>2 DEF Inv, TokensInv, Aimed, TokensHaveOwners, Live

LEMMA IssueInv ==
    ASSUME Inv, NEW s \in Slot, Issue(s)
    PROVE  Inv'
<1> USE AccountsAssumption DEF Inv
<1> DEFINE jwt == GenerateJWT(slot[s].id, slot[s].user, slot[s].remember)
<1>1. slot[s] \in Issuing
  BY Shapes DEF Issue
<1>2. day \in Nat
  BY DEF Typed
<1>3. /\ slot[s].id \in Id /\ slot[s].user.name \in Name /\ slot[s].user.role \in Role
      /\ slot[s].remember \in BOOLEAN
  BY <1>1 DEF Issuing, User
<1>4. PICK span \in {Validity, 2 * Validity} : jwt.expiresAt = day + span
  BY <1>3 DEF GenerateJWT
<1>5. /\ jwt.user_id = slot[s].id /\ jwt.role = slot[s].user.role
      /\ jwt.issuedAt = day
  BY DEF GenerateJWT
<1>6. jwt \in JWT
  BY <1>2, <1>3 DEF JWT, GenerateJWT
<1>7. \A j \in jwts' : j \in jwts \/ j = jwt
  BY DEF Issue
<1>8. \A t \in Slot : slot'[t] = (IF t = s THEN Idle ELSE slot[t])
  BY DEF Issue, Ends, Typed
<1>9. Idle \in SlotState /\ Idle \notin Issuing \cup Finding \cup Writing \cup Aiming
  BY DEF SlotState, Idle, Issuing, Finding, Writing, Aiming, Requests
<1>10. Typed'
  <2>1. slot' \in [Slot -> SlotState]
    BY <1>9 DEF Issue, Ends, Typed
  <2> QED
    BY <1>6, <1>7, <1>8, <2>1 DEF Issue, Typed, At, Idle
<1>11. TokensInv'
  <2>1. Left(s) = {}
    BY DEF Issue, Left, At
  <2> QED
    BY <1>8, <1>9, <2>1, UndisturbedTokens DEF Issue
<1>12. SessionsInv'
  <2>1. jwt.role = "HUMAN_ADMIN" => adminOn[jwt.user_id] = day
    BY <1>1, <1>5 DEF SessionsInv
  <2>2. jwt.expiresAt <= jwt.issuedAt + 2 * Validity
    BY <1>2, <1>4, <1>5
  <2> QED
    BY <1>2, <1>5, <1>7, <1>8, <1>9, <2>1, <2>2 DEF Issue, SessionsInv, Live
<1> QED
  BY <1>10, <1>11, <1>12

\* What Remember makes of the history.
LEMMA Remembers ==
    ASSUME Inv, Remember, users' \in [Id -> User \cup {None}], day' \in 0 .. MaxDay, day <= day'
    PROVE  /\ adminOn' \in [Id -> -1 .. MaxDay]
           /\ \A i \in Id : adminOn[i] <= adminOn'[i] /\ adminOn'[i] <= day'
           /\ \A i \in Id : Live(i)' /\ users'[i].role = "HUMAN_ADMIN" => adminOn'[i] = day'
           /\ \A i \in Id : adminOn'[i] = adminOn[i] \/ adminOn'[i] = day'
<1>1. /\ day \in Int /\ day' \in Int /\ adminOn \in [Id -> -1 .. MaxDay]
      /\ \A i \in Id : adminOn[i] <= day
  BY AccountsAssumption DEF Inv, Typed, SessionsInv
<1> QED
  BY <1>1 DEF Remember, Live

LEMMA TickInv == ASSUME Inv, Tick PROVE Inv'
<1> USE AccountsAssumption DEF Inv
<1>1. day' \in 0 .. MaxDay /\ day <= day' /\ users' \in [Id -> User \cup {None}]
  BY DEF Tick, Typed
<1>2. Remember
  BY DEF Tick
<1>3. \A s \in Slot : slot[s] = Idle /\ slot[s] \notin Issuing \cup Finding \cup Writing
  <2> SUFFICES ASSUME NEW s \in Slot PROVE slot[s] = Idle /\ slot[s] \notin Issuing \cup Finding \cup Writing
    OBVIOUS
  <2>1. At(s, "idle")
    BY DEF Tick
  <2> QED
    BY <2>1, Shapes DEF At, Idle, Issuing, Finding, Writing, Requests
<1>4. Typed'
  BY <1>1, <1>2, Remembers DEF Tick, Typed, At
<1>5. TokensInv'
  BY UndisturbedTokens DEF Tick
<1>6. SessionsInv'
  <2>1. \A j \in jwts' : j \in jwts
    BY DEF Tick
  <2>2. \A j \in jwts : /\ j.issuedAt \in Int /\ j.user_id \in Id
                        /\ adminOn[j.user_id] \in Int /\ adminOn'[j.user_id] \in Int
    BY <1>1, <1>2, Remembers DEF Typed, JWT
  <2>3. \A j \in jwts' : /\ j.issuedAt <= day'
                         /\ j.expiresAt <= j.issuedAt + 2 * Validity
                         /\ j.role = "HUMAN_ADMIN" => adminOn'[j.user_id] >= j.issuedAt
    BY <1>1, <1>2, <2>1, <2>2, Remembers DEF SessionsInv, Typed
  <2> QED
    BY <1>1, <1>2, <1>3, <2>3, Remembers DEF Tick, SessionsInv
<1> QED
  BY <1>4, <1>5, <1>6

\* A statement about the users, made for a request that ends or goes on with a
\* user it has just made, leaves the roles in JWTs and requests explained.
LEMMA UndisturbedSessions ==
    ASSUME Inv, NEW s \in Slot, NEW r \in {Idle} \cup Aiming, slot' = [slot EXCEPT ![s] = r],
           Remember, UNCHANGED <<jwts, day>>, users' \in [Id -> User \cup {None}]
    PROVE  SessionsInv' /\ adminOn' \in [Id -> -1 .. MaxDay]
<1> USE AccountsAssumption DEF Inv
<1>1. day \in 0 .. MaxDay /\ day' = day /\ day <= day'
  BY DEF Typed
<1>2. /\ adminOn' \in [Id -> -1 .. MaxDay]
      /\ \A i \in Id : adminOn[i] <= adminOn'[i] /\ adminOn'[i] <= day
      /\ \A i \in Id : Live(i)' /\ users'[i].role = "HUMAN_ADMIN" => adminOn'[i] = day
      /\ \A i \in Id : adminOn'[i] = adminOn[i] \/ adminOn'[i] = day
  BY <1>1, Remembers
<1>3. r \notin Issuing \cup Finding \cup Writing
  BY DEF Idle, Aiming, Issuing, Finding, Writing, Requests
<1>4. \A t \in Slot : slot'[t] = r \/ slot'[t] = slot[t]
  BY DEF Typed
<1>5. \A j \in jwts' : /\ j.issuedAt <= day
                       /\ j.expiresAt <= j.issuedAt + 2 * Validity
                       /\ j.role = "HUMAN_ADMIN" => adminOn'[j.user_id] >= j.issuedAt
  <2> SUFFICES ASSUME NEW j \in jwts
               PROVE /\ j.issuedAt <= day
                     /\ j.expiresAt <= j.issuedAt + 2 * Validity
                     /\ j.role = "HUMAN_ADMIN" => adminOn'[j.user_id] >= j.issuedAt
    OBVIOUS
  <2>1. /\ j.issuedAt \in Int /\ j.user_id \in Id
        /\ adminOn[j.user_id] \in Int /\ adminOn'[j.user_id] \in Int
    BY <1>2 DEF Typed, JWT
  <2> QED
    BY <1>2, <2>1 DEF SessionsInv
<1>6. \A t \in Slot : slot'[t] \in Issuing /\ slot'[t].user.role = "HUMAN_ADMIN" =>
        adminOn'[slot'[t].id] = day
  <2> SUFFICES ASSUME NEW t \in Slot, slot'[t] \in Issuing, slot'[t].user.role = "HUMAN_ADMIN"
               PROVE adminOn'[slot'[t].id] = day
    OBVIOUS
  <2>1. slot'[t] = slot[t] /\ slot[t].id \in Id
    BY <1>3, <1>4 DEF Issuing
  <2>2. adminOn[slot[t].id] = day
    BY <2>1 DEF SessionsInv
  <2> QED
    BY <1>2, <2>1, <2>2
<1>7. \A t \in Slot : slot'[t] \in Finding \cup Writing /\ ~slot'[t].tool =>
        /\ slot'[t].by \in Id
        /\ day - adminOn'[slot'[t].by] < 2 * Validity
  <2> SUFFICES ASSUME NEW t \in Slot, slot'[t] \in Finding \cup Writing, ~slot'[t].tool
               PROVE /\ slot'[t].by \in Id
                     /\ day - adminOn'[slot'[t].by] < 2 * Validity
    OBVIOUS
  <2>1. slot'[t] = slot[t]
    BY <1>3, <1>4
  <2>2. slot[t].by \in Id /\ day - adminOn[slot[t].by] < 2 * Validity
    BY <2>1 DEF SessionsInv
  <2>3. adminOn[slot[t].by] \in Int /\ adminOn'[slot[t].by] \in Int
    BY <1>2, <2>2 DEF Typed
  <2> QED
    BY <1>1, <1>2, <2>1, <2>2, <2>3
<1> QED
  BY <1>1, <1>2, <1>5, <1>6, <1>7 DEF SessionsInv

\* One UPDATE or DELETE, after which the request ends: it keeps the names,
\* brings nobody back and removes no owner of a token.
LEMMA RewritesInv ==
    ASSUME Inv, NEW s \in Slot, Ends(s), Remember, UNCHANGED <<tokens, nextId, jwts, day>>,
           bare' = {id \in bare : users'[id] # None},
           users' \in [Id -> User \cup {None}],
           \A i \in Id : Live(i)' => Live(i) /\ users'[i].name = users[i].name,
           \A i \in Id : Enforced /\ Live(i) /\ HasToken(i) => Live(i)',
           \A i \in Left(s) : Enforced /\ Live(i)' => HasToken(i)
    PROVE  Inv'
<1> USE DEF Inv
<1>1. Idle \in SlotState /\ Idle \notin Aiming
  BY DEF SlotState, Idle, Aiming, Requests
<1>2. /\ slot' = [slot EXCEPT ![s] = Idle]
      /\ \A t \in Slot : slot'[t] = (IF t = s THEN Idle ELSE slot[t])
  BY DEF Ends, Typed
<1>3. SessionsInv' /\ adminOn' \in [Id -> -1 .. MaxDay]
  BY <1>2, UndisturbedSessions
<1>4. Typed'
  <2>1. slot' \in [Slot -> SlotState]
    BY <1>1, <1>2 DEF Typed
  <2> QED
    BY <1>2, <1>3, <2>1 DEF Typed, At, Idle
<1>5. Aimed'
  <2>1. \A t \in Slot : slot'[t] \in Aiming => slot'[t] = slot[t] /\ slot[t].id \in Id
    BY <1>1, <1>2 DEF Aiming, Requests
  <2> QED
    BY <2>1 DEF TokensInv, Aimed
<1>6. TokensHaveOwners'
  <2> SUFFICES ASSUME Enforced, NEW n \in Name, tokens[n] # None
               PROVE Live(tokens[n])' /\ users'[tokens[n]].name = n
    BY DEF TokensHaveOwners
  <2>1. Live(tokens[n]) /\ tokens[n] \in Id /\ users[tokens[n]].name = n
    BY DEF TokensInv, TokensHaveOwners, Live
  <2> QED
    BY <2>1 DEF HasToken, Live
<1>7. UsersHaveTokens'
  <2> SUFFICES ASSUME Enforced, NEW i \in Id, Live(i)'
               PROVE (HasToken(i) \/ i \in bare \/ \E t \in Slot : Left(t) = {i})'
    BY DEF UsersHaveTokens
  <2>1. Live(i) /\ users'[i] # None /\ HasToken(i)' = HasToken(i)
    BY DEF Live, HasToken
  <2>2. CASE \E t \in Slot \ {s} : Left(t) = {i}
    <3>1. PICK t \in Slot \ {s} : Left(t) = {i}
      BY <2>2
    <3>2. Left(t)' = {i}
      BY <1>2, <3>1 DEF Left
    <3> QED
      BY <3>2
  <2>3. CASE i \in Left(s)
    BY <2>1, <2>3
  <2> QED
    BY <2>1, <2>2, <2>3 DEF TokensInv, UsersHaveTokens
<1> QED
  BY <1>3, <1>4, <1>5, <1>6, <1>7 DEF TokensInv

LEMMA DeletedUsers ==
    ASSUME Inv, NEW id \in Id
    PROVE  /\ Deleted(id) \in [Id -> User \cup {None}]
           /\ \A i \in Id : Deleted(id)[i] \in {users[i], None}
           /\ \A i \in Id : i # id => Deleted(id)[i] = users[i]
           /\ Enforced /\ HasToken(id) => Deleted(id) = users
           /\ ~HasToken(id) => Deleted(id)[id] = None
BY DEF Inv, Typed, Deleted

LEMMA RollbackInv ==
    ASSUME Inv, NEW s \in Slot, Rollback(s)
    PROVE  Inv'
<1>1. slot[s] \in Aiming /\ slot[s].id \in Id
  BY Shapes DEF Inv, Rollback, At, Aiming, Requests
<1>2. users' = Deleted(slot[s].id)
  BY DEF Rollback
<1>3. users' \in [Id -> User \cup {None}]
  BY <1>1, <1>2, DeletedUsers
<1>4. \A i \in Id : Live(i)' => Live(i) /\ users'[i].name = users[i].name
  BY <1>1, <1>2, DeletedUsers DEF Live
<1>5. \A i \in Id : Enforced /\ Live(i) /\ HasToken(i) => Live(i)'
  BY <1>1, <1>2, DeletedUsers DEF Live
<1>6. \A i \in Left(s) : Enforced /\ Live(i)' => HasToken(i)
  BY <1>1, <1>2, DeletedUsers DEF Live, Left
<1> QED
  BY <1>3, <1>4, <1>5, <1>6, RewritesInv DEF Rollback

LEMMA WriteUserInv ==
    ASSUME Inv, NEW s \in Slot, WriteUser(s)
    PROVE  Inv'
<1> DEFINE id == slot[s].id
<1>1. slot[s] \in Writing /\ id \in Id /\ slot[s].op \in {"role", "password", "delete"}
  BY Shapes DEF Inv, WriteUser, Writing, Requests
<1>2. slot[s].op = "role" => slot[s].role \in Role
  BY DEF Inv, Typed, WriteUser
<1>3. Left(s) = {}
  BY DEF WriteUser, At, Left
<1>4. \/ users' = users
      \/ Live(id) /\ slot[s].op = "role" /\ users' = UpdatedRole(id, slot[s].role)
      \/ Live(id) /\ users' = UpdatedPassword(id)
      \/ users' = Deleted(id)
  <2>1. CASE ~Live(id)
    BY <2>1 DEF WriteUser
  <2>2. CASE Live(id) /\ slot[s].op = "role"
    BY <2>2 DEF WriteUser
  <2>3. CASE Live(id) /\ slot[s].op = "password"
    BY <2>3 DEF WriteUser
  <2>4. CASE Live(id) /\ slot[s].op = "delete"
    BY <2>4 DEF WriteUser
  <2> QED
    BY <1>1, <2>1, <2>2, <2>3, <2>4
<1>5. /\ users' \in [Id -> User \cup {None}]
      /\ \A i \in Id : Live(i)' => Live(i) /\ users'[i].name = users[i].name
      /\ \A i \in Id : Enforced /\ Live(i) /\ HasToken(i) => Live(i)'
  <2>1. CASE users' = users
    BY <2>1 DEF Inv, Typed, Live
  <2>2. CASE Live(id) /\ slot[s].op = "role" /\ users' = UpdatedRole(id, slot[s].role)
    <3>1. users[id] \in User /\ slot[s].role \in Role
      BY <1>1, <1>2, <2>2, Rows DEF Inv
    <3>2. [users[id] EXCEPT !.role = slot[s].role] \in User
      BY <3>1 DEF User
    <3>3. [users[id] EXCEPT !.role = slot[s].role].name = users[id].name
      BY <3>1 DEF User
    <3>4. users' = [users EXCEPT ![id] = [users[id] EXCEPT !.role = slot[s].role]]
      BY <2>2 DEF UpdatedRole
    <3>5. users \in [Id -> User \cup {None}]
      BY DEF Inv, Typed
    <3> QED
      BY <1>1, <2>2, <3>2, <3>3, <3>4, <3>5, NotNone DEF Live
  <2>3. CASE Live(id) /\ users' = UpdatedPassword(id)
    <3>1. users[id] \in User
      BY <1>1, <2>3, Rows DEF Inv
    <3>2. [users[id] EXCEPT !.password = TRUE] \in User
      BY <3>1 DEF User
    <3>3. [users[id] EXCEPT !.password = TRUE].name = users[id].name
      BY <3>1 DEF User
    <3>4. users' = [users EXCEPT ![id] = [users[id] EXCEPT !.password = TRUE]]
      BY <2>3 DEF UpdatedPassword
    <3>5. users \in [Id -> User \cup {None}]
      BY DEF Inv, Typed
    <3> QED
      BY <1>1, <2>3, <3>2, <3>3, <3>4, <3>5, NotNone DEF Live
  <2>4. CASE users' = Deleted(id)
    BY <1>1, <2>4, DeletedUsers DEF Live
  <2> QED
    BY <1>4, <2>1, <2>2, <2>3, <2>4
<1> QED
  BY <1>3, <1>5, RewritesInv DEF WriteUser

\* The new id is nobody's, and its user is about to get a token.
LEMMA CreateUserInv ==
    ASSUME Inv, NEW s \in Slot, CreateUser(s)
    PROVE  Inv'
<1> USE DEF Inv
<1>1. /\ slot[s] \in Inserting /\ Left(s) = {}
      /\ slot[s].name \in Name /\ slot[s].role \in Role
  BY Shapes DEF CreateUser, At, Left, Inserting, Requests
<1>2. CASE Named(slot[s].name) = {}
  <2> DEFINE r == [slot[s] EXCEPT !.pc = "reread", !.id = nextId]
             user == [name |-> slot[s].name, role |-> slot[s].role, password |-> FALSE]
  <2>1. /\ nextId \in Id /\ user \in User /\ user # None
        /\ users' = [users EXCEPT ![nextId] = user]
        /\ nextId' = nextId + 1
        /\ slot' = [slot EXCEPT ![s] = r]
    <3>1. user \in User
      BY <1>1 DEF User
    <3>2. slot' = [slot EXCEPT ![s] = r]
      BY <1>2 DEF CreateUser, Typed
    <3> QED
      BY <1>2, <3>1, <3>2, NotNone DEF CreateUser
  <2>2. /\ r \in Aiming /\ r.pc = "reread" /\ r.id = nextId /\ r.name = slot[s].name
    BY <1>1, <2>1 DEF Inserting, Aiming, Requests
  <2>3. \A t \in Slot : slot'[t] = (IF t = s THEN r ELSE slot[t])
    BY <2>1 DEF Typed
  <2>4. users' \in [Id -> User \cup {None}]
    BY <2>1 DEF Typed
  <2>5. SessionsInv' /\ adminOn' \in [Id -> -1 .. MaxDay]
    BY <2>1, <2>2, <2>4, UndisturbedSessions DEF CreateUser
  <2>6. Typed'
    <3>1. slot' \in [Slot -> SlotState]
      BY <2>1, <2>2 DEF Typed, SlotState
    <3>2. nextId' \in 1 .. MaxId + 1
      BY <2>1, AccountsAssumption DEF Id
    <3> QED
      BY <2>2, <2>3, <2>4, <2>5, <3>1, <3>2 DEF Typed, CreateUser, At
  <2>7. ~Live(nextId) /\ nextId \in Int
    BY <2>1 DEF TokensInv, Aimed, Id
  <2>8. \A i \in Id : /\ i # nextId => users'[i] = users[i] /\ (Live(i)' <=> Live(i))
                      /\ i = nextId => Live(i)' /\ users'[i] = user
    BY <2>1 DEF Live, Typed
  <2>9. Aimed'
    <3>1. \A i \in Id : Live(i)' => i < nextId'
      BY <2>1, <2>7, <2>8 DEF TokensInv, Aimed, Id
    <3>2. \A i \in Id : Live(i) => users[i].name # user.name
      BY <1>2 DEF Named
    <3>3. \A i, j \in Id : Live(i)' /\ Live(j)' /\ users'[i].name = users'[j].name => i = j
      BY <2>8, <3>2 DEF TokensInv, Aimed
    <3>4. (\A t \in Slot : slot[t] \in Aiming =>
            /\ slot[t].id < nextId
            /\ Live(slot[t].id) => users[slot[t].id].name = slot[t].name)'
      <4> SUFFICES ASSUME NEW t \in Slot, slot'[t] \in Aiming
                   PROVE (/\ slot[t].id < nextId
                          /\ Live(slot[t].id) => users[slot[t].id].name = slot[t].name)'
        BY DEF Aiming, Requests
      <4>1. CASE t = s
        <5>1. slot'[t].id = nextId /\ slot'[t].name = slot[s].name
          BY <2>2, <2>3, <4>1
        <5>2. users'[nextId].name = slot[s].name
          BY <2>1, <2>8
        <5> QED
          BY <2>1, <2>7, <5>1, <5>2
      <4>2. CASE t # s
        <5>1. slot'[t] = slot[t] /\ slot[t].id \in Id /\ slot[t].id < nextId
          BY <2>3, <4>2 DEF Aiming, Requests, TokensInv, Aimed
        <5> QED
          BY <2>1, <2>7, <2>8, <5>1 DEF TokensInv, Aimed, Id
      <4> QED
        BY <4>1, <4>2
    <3> QED
      BY <3>1, <3>3, <3>4 DEF Aimed
  <2>10. TokensHaveOwners'
    <3> SUFFICES ASSUME Enforced, NEW n \in Name, tokens[n] # None
                 PROVE (Live(tokens[n]) /\ users[tokens[n]].name = n)'
      BY DEF TokensHaveOwners, CreateUser
    <3>1. Live(tokens[n]) /\ tokens[n] \in Id /\ users[tokens[n]].name = n
      BY DEF TokensInv, TokensHaveOwners, Live
    <3> QED
      BY <2>7, <2>8, <3>1 DEF CreateUser
  <2>11. UsersHaveTokens'
    <3> SUFFICES ASSUME Enforced, NEW i \in Id, Live(i)'
                 PROVE (HasToken(i) \/ i \in bare \/ \E t \in Slot : Left(t) = {i})'
      BY DEF UsersHaveTokens
    <3>1. CASE i = nextId
      <4>1. Left(s)' = {i}
        BY <2>2, <2>3, <3>1 DEF Left
      <4> QED
        BY <4>1
    <3>2. CASE \E t \in Slot \ {s} : Left(t) = {i}
      <4>1. PICK t \in Slot \ {s} : Left(t) = {i}
        BY <3>2
      <4>2. Left(t)' = {i}
        BY <2>3, <4>1 DEF Left
      <4> QED
        BY <4>2
    <3>3. CASE i # nextId /\ ~\E t \in Slot \ {s} : Left(t) = {i}
      BY <1>1, <2>8, <3>3 DEF TokensInv, UsersHaveTokens, HasToken, CreateUser
    <3> QED
      BY <3>1, <3>2, <3>3
  <2> QED
    BY <2>5, <2>6, <2>9, <2>10, <2>11 DEF TokensInv
<1>3. CASE Named(slot[s].name) # {}
  <2>1. /\ Ends(s) /\ UNCHANGED <<users, tokens, nextId, jwts, day, bare>>
        /\ Remember
    BY <1>3 DEF CreateUser
  <2>2. adminOn' = adminOn
    BY <2>1 DEF Remember, Typed, SessionsInv, Live
  <2>3. Proceeds(s, Idle)
    BY <1>1, <2>1, <2>2 DEF Ends, Proceeds, SlotState, Idle, Issuing, Finding, Writing, Aiming,
                            Requests, Typed
  <2> QED
    BY <2>3, ProceedsInv
<1> QED
  BY <1>2, <1>3

\* What follows for a request whose step changes tokens.
LEMMA TokenStep ==
    ASSUME Inv, NEW s \in Slot, slot[s] \in Aiming, NEW r, slot' = [slot EXCEPT ![s] = r],
           r = Idle \/ (r \in Aiming /\ r.id = slot[s].id /\ r.name = slot[s].name),
           UNCHANGED <<users, nextId, jwts, day, adminOn>>,
           tokens' \in [Name -> Id \cup {None}], bare' \subseteq Id
    PROVE  Typed' /\ Aimed' /\ SessionsInv' /\ \A t \in Slot \ {s} : Left(t)' = Left(t)
<1> USE DEF Inv
<1>1. \A t \in Slot : slot'[t] = (IF t = s THEN r ELSE slot[t])
  BY DEF Typed
<1>2. r \in SlotState /\ r.pc \notin {"find", "write"} /\ r \notin Issuing \cup Finding \cup Writing
  BY DEF SlotState, Idle, Aiming, Issuing, Finding, Writing, Requests
<1>3. slot' \in [Slot -> SlotState]
  BY <1>2 DEF Typed
<1>4. Typed'
  BY <1>1, <1>2, <1>3 DEF Typed, At
<1>5. Aimed'
  <2>1. Idle \notin Aiming
    BY DEF Idle, Aiming, Requests
  <2> QED
    BY <1>1, <2>1 DEF TokensInv, Aimed, Live
<1>6. SessionsInv'
  BY <1>1, <1>2 DEF SessionsInv, Live
<1>7. \A t \in Slot \ {s} : Left(t)' = Left(t)
  BY <1>1 DEF Left, Live
<1> QED
  BY <1>4, <1>5, <1>6, <1>7

LEMMA RevokeTokensInv ==
    ASSUME Inv, NEW s \in Slot, RevokeTokens(s)
    PROVE  Inv'
<1> USE DEF Inv
<1> DEFINE r == [slot[s] EXCEPT !.pc = "token"]
<1>1. slot[s] \in Aiming /\ Left(s) = {}
  BY Shapes DEF RevokeTokens, At, Left
<1>2. PICK revoked \in SUBSET Name :
        /\ tokens' = [n \in Name |-> IF n \in revoked THEN None ELSE tokens[n]]
        /\ bare' = bare \cup {tokens[n] : n \in revoked}
        /\ \A n \in revoked : tokens[n] # None
  <2> DEFINE rs == {t.agentName : t \in {x \in ListTokens :
                         /\ x.agentName = slot[s].name
                         /\ slot[s].tool \/ x.userId = slot[s].id}}
  <2>1. rs \subseteq Name /\ \A n \in rs : tokens[n] # None
    BY DEF ListTokens
  <2> QED
    BY <2>1 DEF RevokeTokens
<1>3. /\ tokens' \in [Name -> Id \cup {None}] /\ bare' \subseteq Id
      /\ UNCHANGED <<users, nextId, jwts, day, adminOn>>
  BY <1>2 DEF RevokeTokens, Typed
<1>4. r \in Aiming /\ r.id = slot[s].id /\ r.name = slot[s].name
  BY <1>1 DEF Aiming, Requests
<1>5. slot' = [slot EXCEPT ![s] = r]
  BY DEF RevokeTokens, Goes, Typed
<1>6. Typed' /\ Aimed' /\ SessionsInv' /\ \A t \in Slot \ {s} : Left(t)' = Left(t)
  BY <1>1, <1>3, <1>4, <1>5, TokenStep
<1>7. TokensHaveOwners'
  BY <1>2, <1>3 DEF TokensInv, TokensHaveOwners, Live
<1>8. UsersHaveTokens'
  <2> SUFFICES ASSUME Enforced, NEW i \in Id, Live(i)
               PROVE (HasToken(i) \/ i \in bare \/ \E t \in Slot : Left(t) = {i})'
    BY <1>3 DEF UsersHaveTokens, Live
  <2>1. CASE HasToken(i)
    BY <1>2, <2>1 DEF HasToken
  <2>2. CASE i \in bare
    BY <1>2, <2>2
  <2>3. CASE \E t \in Slot \ {s} : Left(t) = {i}
    BY <1>6, <2>3
  <2> QED
    BY <1>1, <2>1, <2>2, <2>3 DEF TokensInv, UsersHaveTokens
<1> QED
  BY <1>6, <1>7, <1>8 DEF TokensInv

\* A token that is in the way is that of the same user, for the name is its.
LEMMA RegisterTokenForUserInv ==
    ASSUME Inv, NEW s \in Slot, RegisterTokenForUser(s)
    PROVE  Inv'
<1> USE DEF Inv
<1> DEFINE name == slot[s].name
           id == slot[s].id
<1>1. slot[s] \in Aiming /\ id \in Id /\ name \in Name /\ At(s, "token")
  BY Shapes DEF RegisterTokenForUser, At, Aiming, Requests
<1>2. UNCHANGED <<users, nextId, jwts, day, adminOn>>
  BY DEF RegisterTokenForUser
<1>3. CASE tokens[name] = None /\ (Enforced => Live(id))
  <2>1. /\ tokens' = [tokens EXCEPT ![name] = id]
        /\ bare' = bare \ {id}
        /\ slot' = [slot EXCEPT ![s] = Idle]
    BY <1>3 DEF RegisterTokenForUser, Ends
  <2>2. tokens' \in [Name -> Id \cup {None}] /\ bare' \subseteq Id
    BY <1>1, <2>1 DEF Typed
  <2>3. Typed' /\ Aimed' /\ SessionsInv' /\ \A t \in Slot \ {s} : Left(t)' = Left(t)
    BY <1>1, <1>2, <2>1, <2>2, TokenStep
  <2>4. \A n \in Name : tokens'[n] = (IF n = name THEN id ELSE tokens[n])
    BY <2>1 DEF Typed
  <2>5. TokensHaveOwners'
    BY <1>1, <1>2, <1>3, <2>4 DEF TokensInv, TokensHaveOwners, Aimed, Live
  <2>6. UsersHaveTokens'
    <3> SUFFICES ASSUME Enforced, NEW i \in Id, Live(i), i # id
                 PROVE (HasToken(i) \/ i \in bare \/ \E t \in Slot : Left(t) = {i})'
      BY <1>1, <1>2, <2>4 DEF UsersHaveTokens, Live, HasToken
    <3>1. CASE HasToken(i)
      BY <1>3, <2>4, <3>1, NotNone DEF HasToken
    <3>2. CASE i \in bare
      BY <2>1, <3>2
    <3>3. CASE \E t \in Slot \ {s} : Left(t) = {i}
      BY <2>3, <3>3
    <3>4. Left(s) # {i}
      BY DEF Left
    <3> QED
      BY <3>1, <3>2, <3>3, <3>4 DEF TokensInv, UsersHaveTokens
  <2> QED
    BY <2>3, <2>5, <2>6 DEF TokensInv
<1>4. CASE ~(tokens[name] = None /\ (Enforced => Live(id)))
  <2>1. tokens' = tokens /\ bare' = bare
    BY <1>4 DEF RegisterTokenForUser
  <2>2. PICK r : /\ slot' = [slot EXCEPT ![s] = r]
                 /\ r = Idle \/ (r \in Aiming /\ r.id = id /\ r.name = name /\ r.pc = "rollback")
    <3>1. CASE slot[s].op = "register"
      <4>1. [slot[s] EXCEPT !.pc = "rollback"] \in Aiming
        BY <1>1 DEF Aiming, Requests
      <4>2. slot' = [slot EXCEPT ![s] = [slot[s] EXCEPT !.pc = "rollback"]]
        BY <1>4, <3>1 DEF RegisterTokenForUser, Goes, Typed
      <4>3. /\ [slot[s] EXCEPT !.pc = "rollback"].id = id
            /\ [slot[s] EXCEPT !.pc = "rollback"].name = name
            /\ [slot[s] EXCEPT !.pc = "rollback"].pc = "rollback"
        BY <1>1 DEF Aiming, Requests
      <4> QED
        BY <4>1, <4>2, <4>3
    <3>2. CASE slot[s].op # "register"
      BY <1>4, <3>2 DEF RegisterTokenForUser, Ends
    <3> QED
      BY <3>1, <3>2
  <2>3. Typed' /\ Aimed' /\ SessionsInv' /\ \A t \in Slot \ {s} : Left(t)' = Left(t)
    BY <1>1, <1>2, <2>1, <2>2, TokenStep DEF Typed
  <2>4. TokensHaveOwners'
    BY <1>2, <2>1 DEF TokensInv, TokensHaveOwners, Live
  <2>5. Enforced /\ Live(id) => HasToken(id)
    <3> SUFFICES ASSUME Enforced, Live(id) PROVE HasToken(id)
      OBVIOUS
    <3>1. tokens[name] # None
      BY <1>4
    <3>2. /\ Live(tokens[name]) /\ tokens[name] \in Id
          /\ users[tokens[name]].name = name /\ users[id].name = name
      BY <1>1, <3>1 DEF TokensInv, TokensHaveOwners, Aimed, Live
    <3>3. tokens[name] = id
      BY <1>1, <3>2 DEF TokensInv, Aimed
    <3> QED
      BY <1>1, <3>3 DEF HasToken
  <2>6. UsersHaveTokens'
    <3> SUFFICES ASSUME Enforced, NEW i \in Id, Live(i)
                 PROVE (HasToken(i) \/ i \in bare \/ \E t \in Slot : Left(t) = {i})'
      BY <1>2 DEF UsersHaveTokens, Live
    <3>1. CASE HasToken(i) \/ i \in bare
      BY <2>1, <3>1 DEF HasToken
    <3>2. CASE \E t \in Slot \ {s} : Left(t) = {i}
      BY <2>3, <3>2
    <3>3. CASE Left(s) = {i}
      BY <2>1, <2>5, <3>3 DEF Left, HasToken
    <3> QED
      BY <3>1, <3>2, <3>3 DEF TokensInv, UsersHaveTokens
  <2> QED
    BY <2>3, <2>4, <2>6 DEF TokensInv
<1> QED
  BY <1>3, <1>4

LEMMA RestartInv == ASSUME Inv, Restart PROVE Inv'
<1> USE DEF Inv, Restart
<1>1. Idle \in SlotState /\ Idle \notin Issuing \cup Finding \cup Writing \cup Aiming
  BY DEF SlotState, Idle, Issuing, Finding, Writing, Aiming, Requests
<1>2. Typed'
  <2>1. \A s \in Slot : Left(s) \subseteq Id
    BY DEF Left, Live
  <2> QED
    BY <1>1, <2>1 DEF Typed, At, Idle
<1>3. TokensInv'
  <2>1. Aimed'
    BY <1>1 DEF TokensInv, Aimed, Live
  <2>2. UsersHaveTokens'
    <3> SUFFICES ASSUME Enforced, NEW i \in Id, Live(i)
                 PROVE HasToken(i)' \/ i \in bare'
      BY DEF UsersHaveTokens, Live
    <3> QED
      BY DEF TokensInv, UsersHaveTokens, HasToken
  <2> QED
    BY <2>1, <2>2 DEF TokensInv, TokensHaveOwners, Live
<1>4. SessionsInv'
  BY <1>1 DEF SessionsInv, Live
<1> QED
  BY <1>2, <1>3, <1>4
-----------------------------------------------------------------------------
(* The theorems *)

LEMMA RequestsInv ==
    ASSUME Inv, NEW s \in Slot, NEW id \in Id, NEW role \in Role
    PROVE  /\ HandleAdminUpdateUserRole(s, id, role) => Inv'
           /\ HandleAdminResetPassword(s, id) => Inv'
           /\ HandleAdminDeleteUser(s, id) => Inv'
           /\ HandleAdminRegenerateToken(s, id) => Inv'
           /\ ToolRegenerateToken(s, id) => Inv'
           /\ \A op \in AdminOps : ToolUpdate(s, op, id, role) => Inv'
<1>1. HandleAdminUpdateUserRole(s, id, role) => Inv'
  BY AdminInv DEF HandleAdminUpdateUserRole, AdminOps
<1>2. HandleAdminResetPassword(s, id) => Inv'
  BY AdminInv DEF HandleAdminResetPassword, AdminOps
<1>3. HandleAdminDeleteUser(s, id) => Inv'
  BY AdminInv DEF HandleAdminDeleteUser, AdminOps
<1>4. HandleAdminRegenerateToken(s, id) => Inv'
  BY AdminInv DEF HandleAdminRegenerateToken, AdminOps
<1>5. ASSUME ToolRegenerateToken(s, id) PROVE Inv'
  <2>1. Request("find", "regenerate", TRUE, None, id, None, None) \in Finding
    BY DEF Request, Finding, Requests, AdminOps
  <2>2. Tool(s, "find", "regenerate", None, id, None)
    BY <1>5 DEF ToolRegenerateToken
  <2>3. "regenerate" # "role"
    OBVIOUS
  <2> QED
    BY <2>1, <2>2, <2>3, ToolInv
<1>6. ASSUME NEW op \in AdminOps, ToolUpdate(s, op, id, role) PROVE Inv'
  <2> DEFINE given == IF op = "role" THEN role ELSE None
  <2>1. op \in {"role", "password", "delete"} /\ Tool(s, "write", op, None, id, given)
    BY <1>6 DEF ToolUpdate
  <2>2. Request("write", op, TRUE, None, id, given, None) \in Writing
    BY <2>1 DEF Request, Writing, Requests
  <2>3. op = "role" => given \in Role
    OBVIOUS
  <2> HIDE DEF given
  <2> QED
    BY <2>1, <2>2, <2>3, ToolInv
<1> QED
  BY <1>1, <1>2, <1>3, <1>4, <1>5, <1>6

LEMMA NextInv == Inv /\ [Next]_vars => Inv'
<1> SUFFICES ASSUME Inv, [Next]_vars PROVE Inv'
  OBVIOUS
<1>1. CASE UNCHANGED vars
  <2>1. Typed'
    BY <1>1 DEF vars, Inv, Typed, At
  <2>2. TokensInv'
    <3>1. Aimed'
      BY <1>1 DEF vars, Inv, TokensInv, Aimed, Live
    <3>2. TokensHaveOwners'
      BY <1>1 DEF vars, Inv, TokensInv, TokensHaveOwners, Live
    <3>3. UsersHaveTokens'
      BY <1>1 DEF vars, Inv, TokensInv, UsersHaveTokens, Live, HasToken, Left
    <3> QED
      BY <3>1, <3>2, <3>3 DEF TokensInv
  <2>3. SessionsInv'
    BY <1>1 DEF vars, Inv, SessionsInv, Live
  <2> QED
    BY <2>1, <2>2, <2>3 DEF Inv
<1>2. CASE Tick
  BY <1>2, TickInv
<1>3. CASE Restart
  BY <1>3, RestartInv
<1>4. ASSUME NEW s \in Slot, NEW n \in Name,
             \/ HandleRegister(s, n)
             \/ \E remember \in BOOLEAN : Login(s, n, remember)
             \/ \E role \in Role : ToolCreateUser(s, n, role)
      PROVE Inv'
  <2>1. CASE \E role \in Role : ToolCreateUser(s, n, role)
    <3>1. PICK role \in Role : ToolCreateUser(s, n, role)
      BY <2>1
    <3>2. Request("insert", "create", TRUE, n, None, role, None) \in Inserting
      BY DEF Request, Inserting, Requests
    <3> QED
      BY <3>1, <3>2, ToolInv DEF ToolCreateUser
  <2> QED
    BY <1>4, <2>1, RegisterInv, LoginInv
<1>5. ASSUME NEW s \in Slot, NEW jwt \in jwts, Refresh(s, jwt) PROVE Inv'
  BY <1>5, RefreshInv
<1>6. ASSUME NEW s \in Slot, NEW id \in Id,
             \/ \E role \in Role :
                  \/ HandleAdminUpdateUserRole(s, id, role)
                  \/ \E op \in AdminOps : ToolUpdate(s, op, id, role)
             \/ HandleAdminResetPassword(s, id)
             \/ HandleAdminDeleteUser(s, id)
             \/ HandleAdminRegenerateToken(s, id)
             \/ ToolRegenerateToken(s, id)
      PROVE Inv'
  <2>1. Role # {}
    BY AccountsAssumption
  <2> QED
    BY <1>6, <2>1, RequestsInv
<1>7. ASSUME NEW s \in Slot,
             \/ Issue(s) \/ CreateUser(s) \/ GetCreated(s) \/ GetUserByID(s) \/ RevokeTokens(s)
             \/ RegisterTokenForUser(s) \/ WriteUser(s) \/ Rollback(s) \/ Fail(s)
      PROVE Inv'
  BY <1>7, IssueInv, CreateUserInv, GetCreatedInv, GetUserByIDInv, RevokeTokensInv,
     RegisterTokenForUserInv, WriteUserInv, RollbackInv, FailInv
<1> QED
  BY <1>1, <1>2, <1>3, <1>4, <1>5, <1>6, <1>7 DEF Next

\* The inductive invariant holds.
THEOREM AlwaysInv == Spec => []Inv
BY InitInv, NextInv, PTL DEF Spec

\* The variables of the accounts have their types.
THEOREM TypesCorrect == Spec => []TypeOK
<1>1. Inv => TypeOK
  <2> SUFFICES ASSUME Inv PROVE TypeOK
    OBVIOUS
  <2>1. \A s \in Slot : At(s, "idle") \/ At(s, "issue") \/ slot[s].op \in AdminOps \cup {"create", "register"}
    <3> SUFFICES ASSUME NEW s \in Slot
                 PROVE At(s, "idle") \/ At(s, "issue") \/ slot[s].op \in AdminOps \cup {"create", "register"}
      OBVIOUS
    <3> QED
      BY Shapes DEF Inv, SlotState, At, Idle, Issuing, Inserting, Aiming, Finding, Writing,
                    Requests, AdminOps
  <2> QED
    BY <2>1 DEF Inv, Typed, TypeOK
<1> QED
  BY <1>1, AlwaysInv, PTL

\* A token belongs to a user who exists and has its name, however registrations,
\* rollbacks, regenerations and deletions overlap.
THEOREM TokensBelong == Spec => []TokensHaveOwners
<1>1. Inv => TokensHaveOwners
  BY DEF Inv, TokensInv
<1> QED
  BY <1>1, AlwaysInv, PTL

\* A user without a token is one whose request is under way or was cut short.
THEOREM UsersGetTokens == Spec => []UsersHaveTokens
<1>1. Inv => UsersHaveTokens
  BY DEF Inv, TokensInv
<1> QED
  BY <1>1, AlwaysInv, PTL

\* An administrator's JWT outlives the role by less than twice its validity,
\* through any number of refreshes.
THEOREM StaleRolesEnd == Spec => []StaleRoleBound
<1>1. Inv => StaleRoleBound
  <2> SUFFICES ASSUME Inv, NEW jwt \in jwts, jwt.role = "HUMAN_ADMIN"
               PROVE /\ adminOn[jwt.user_id] >= jwt.issuedAt
                     /\ VerifyJWT(jwt) => day - adminOn[jwt.user_id] < 2 * Validity
    BY DEF StaleRoleBound
  <2>1. /\ jwt.issuedAt \in Int /\ jwt.expiresAt \in Int /\ day \in Int
        /\ adminOn[jwt.user_id] \in Int
    BY AccountsAssumption DEF Inv, Typed, JWT
  <2>2. /\ jwt.expiresAt <= jwt.issuedAt + 2 * Validity
        /\ adminOn[jwt.user_id] >= jwt.issuedAt
    BY DEF Inv, SessionsInv
  <2> QED
    BY <2>1, <2>2, AccountsAssumption DEF VerifyJWT
<1> QED
  BY <1>1, AlwaysInv, PTL

\* Three steps write the users and two others the tokens.
LEMMA TableSteps ==
    ASSUME Next
    PROVE  \/ UNCHANGED <<users, tokens>>
           \/ UNCHANGED users /\ \E s \in Slot : RevokeTokens(s) \/ RegisterTokenForUser(s)
           \/ UNCHANGED tokens /\ \E s \in Slot : CreateUser(s) \/ WriteUser(s) \/ Rollback(s)
<1> DEFINE Same == UNCHANGED <<users, tokens>>
<1>1. CASE Tick \/ Restart
  BY <1>1 DEF Tick, Restart
<1>2. ASSUME NEW s \in Slot, NEW n \in Name,
             \/ HandleRegister(s, n)
             \/ \E remember \in BOOLEAN : Login(s, n, remember)
             \/ \E role \in Role : ToolCreateUser(s, n, role)
      PROVE  Same
  BY <1>2 DEF HandleRegister, Login, ToolCreateUser, Tool
<1>3. ASSUME NEW s \in Slot, NEW jwt \in jwts, Refresh(s, jwt)
      PROVE  Same
  BY <1>3 DEF Refresh
<1>4. ASSUME NEW s \in Slot, NEW id \in Id, NEW role \in Role,
             \/ HandleAdminUpdateUserRole(s, id, role)
             \/ \E op \in AdminOps : ToolUpdate(s, op, id, role)
      PROVE  Same
  BY <1>4 DEF HandleAdminUpdateUserRole, HandleAdmin, ToolUpdate, Tool
<1>5. ASSUME NEW s \in Slot, NEW id \in Id,
             \/ HandleAdminResetPassword(s, id)
             \/ HandleAdminDeleteUser(s, id)
             \/ HandleAdminRegenerateToken(s, id)
             \/ ToolRegenerateToken(s, id)
      PROVE  Same
  BY <1>5 DEF HandleAdminResetPassword, HandleAdminDeleteUser, HandleAdminRegenerateToken,
              HandleAdmin, ToolRegenerateToken, Tool
<1>6. ASSUME NEW s \in Slot, Issue(s) \/ GetCreated(s) \/ GetUserByID(s) \/ Fail(s)
      PROVE  Same
  BY <1>6 DEF Issue, GetCreated, GetUserByID, Fail
<1>7. ASSUME NEW s \in Slot, RevokeTokens(s) \/ RegisterTokenForUser(s)
      PROVE  UNCHANGED users
  BY <1>7 DEF RevokeTokens, RegisterTokenForUser
<1>8. ASSUME NEW s \in Slot, CreateUser(s) \/ WriteUser(s) \/ Rollback(s)
      PROVE  UNCHANGED tokens
  BY <1>8 DEF CreateUser, WriteUser, Rollback
<1> HIDE DEF Same
<1>9. \/ Same
      \/ \E s \in Slot : RevokeTokens(s) \/ RegisterTokenForUser(s)
      \/ \E s \in Slot : CreateUser(s) \/ WriteUser(s) \/ Rollback(s)
  BY <1>1, <1>2, <1>3, <1>4, <1>5, <1>6 DEF Next, Same
<1> QED
  BY <1>7, <1>8, <1>9 DEF Same

\* A token is taken away by a regeneration of its name or a deletion of its
\* user, and that of another user only if the user it was asked for is gone.
THEOREM OthersKeepTheirTokens == Spec => TokensLast
<1> DEFINE Taken(n, s) == /\ slot'[s] # slot[s]
                          /\ \/ At(s, "revoke") /\ slot[s].name = n
                             \/ At(s, "write") /\ slot[s].op = "delete"
                          /\ slot[s].id = tokens[n] \/ ~Live(slot[s].id)
           Lasts == Enforced => \A n \in Name :
                      tokens[n] # None /\ tokens'[n] # tokens[n] => \E s \in Slot : Taken(n, s)
<1>1. Inv /\ [Next]_vars => [Lasts]_vars
  <2> SUFFICES ASSUME Inv, Next, Enforced, NEW n \in Name,
                      tokens[n] # None, tokens'[n] # tokens[n]
               PROVE \E s \in Slot : Taken(n, s)
    BY DEF vars
  <2>1. \E s \in Slot : RevokeTokens(s) \/ RegisterTokenForUser(s)
    BY TableSteps
  <2>2. PICK s \in Slot : RevokeTokens(s) \/ RegisterTokenForUser(s)
    BY <2>1
  <2>3. CASE RegisterTokenForUser(s)
    BY <2>3 DEF RegisterTokenForUser, Inv, Typed
  <2>4. CASE RevokeTokens(s)
    <3>1. slot[s] \in Aiming /\ At(s, "revoke")
      BY <2>4, Shapes DEF Inv, RevokeTokens, At
    <3>2. slot'[s].pc = "token"
      BY <2>4, <3>1 DEF RevokeTokens, Goes, Inv, Typed, Aiming, Requests
    <3>3. slot[s].name = n
      BY <2>4, <3>1 DEF RevokeTokens, ListTokens, Inv, Typed
    <3>4. Live(tokens[n]) /\ users[tokens[n]].name = n
      BY DEF Inv, TokensInv, TokensHaveOwners
    <3>5. Live(slot[s].id) => slot[s].id = tokens[n]
      BY <3>1, <3>3, <3>4 DEF Inv, TokensInv, Aimed, Live
    <3> QED
      BY <3>1, <3>2, <3>3, <3>5 DEF At
  <2> QED
    BY <2>2, <2>3, <2>4
<1> QED
  BY <1>1, AlwaysInv, PTL DEF Spec, TokensLast

\* Whoever makes the server change a row was an administrator lately.
THEOREM OnlyAdministratorsAct == Spec => AdminsActed
<1> DEFINE Acted == \A id \in Id :
                      Live(id) /\ users'[id] # users[id] =>
                        \E s \in Slot :
                            /\ slot[s] # slot'[s]
                            /\ slot[s].id = id
                            /\ \/ slot[s].tool
                               \/ At(s, "rollback")
                               \/ day - adminOn[slot[s].by] < 2 * Validity
<1>1. Inv /\ [Next]_vars => [Acted]_vars
  <2> SUFFICES ASSUME Inv, Next, NEW id \in Id, Live(id), users'[id] # users[id]
               PROVE \E s \in Slot :
                        /\ slot[s] # slot'[s]
                        /\ slot[s].id = id
                        /\ \/ slot[s].tool
                           \/ At(s, "rollback")
                           \/ day - adminOn[slot[s].by] < 2 * Validity
    BY DEF vars
  <2>1. \E s \in Slot : CreateUser(s) \/ WriteUser(s) \/ Rollback(s)
    BY TableSteps
  <2>2. PICK s \in Slot : CreateUser(s) \/ WriteUser(s) \/ Rollback(s)
    BY <2>1
  <2>3. CASE CreateUser(s)
    <3>1. ~Live(nextId)
      BY DEF Inv, Typed, TokensInv, Aimed, Live, Id
    <3>2. users' = users \/ \E u \in {users'[nextId]} : users' = [users EXCEPT ![nextId] = u]
      BY <2>3 DEF CreateUser, Inv, Typed
    <3> QED
      BY <3>1, <3>2 DEF Inv, Typed
  <2>4. CASE Rollback(s)
    <3>1. slot[s] \in Aiming /\ slot[s].id \in Id /\ At(s, "rollback")
      BY <2>4, Shapes DEF Inv, Rollback, At, Aiming, Requests
    <3>2. slot[s].id = id
      BY <2>4, <3>1, DeletedUsers DEF Rollback
    <3>3. slot[s] # slot'[s]
      BY <2>4, <3>1 DEF Rollback, Ends, Idle, Inv, Typed, At
    <3> QED
      BY <3>1, <3>2, <3>3
  <2>5. CASE WriteUser(s)
    <3>1. slot[s] \in Writing /\ slot[s].id \in Id
      BY <2>5, Shapes DEF Inv, WriteUser, At, Writing, Requests
    <3>2. slot[s].id = id
      <4> SUFFICES ASSUME slot[s].id # id PROVE FALSE
        OBVIOUS
      <4>1. Deleted(slot[s].id)[id] = users[id]
        BY <3>1, DeletedUsers
      <4>2. UpdatedPassword(slot[s].id)[id] = users[id]
        BY DEF UpdatedPassword, Inv, Typed
      <4>3. UpdatedRole(slot[s].id, slot[s].role)[id] = users[id]
        BY DEF UpdatedRole, Inv, Typed
      <4>4. slot[s].op \in {"role", "password", "delete"}
        BY <3>1 DEF Writing, Requests
      <4> QED
        BY <2>5, <4>1, <4>2, <4>3, <4>4 DEF WriteUser
    <3>3. slot[s] # slot'[s]
      BY <2>5, <3>1 DEF WriteUser, Ends, Idle, Inv, Typed, At
    <3>4. slot[s].tool \/ day - adminOn[slot[s].by] < 2 * Validity
      BY <3>1 DEF Inv, SessionsInv
    <3> QED
      BY <3>2, <3>3, <3>4
  <2> QED
    BY <2>2, <2>3, <2>4, <2>5
<1> QED
  BY <1>1, AlwaysInv, PTL DEF Spec, AdminsActed
=============================================================================
