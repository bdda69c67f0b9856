------------------------------ MODULE Accounts ------------------------------
(***************************************************************************)
(* Users, API tokens and JWT sessions: the registration, login, refresh    *)
(* and administration handlers of the server and the goban-user-cli tool,  *)
(* over the tables users and agent_tokens.                                 *)
(*                                                                         *)
(* A request is a sequence of single statements without a transaction.  A  *)
(* slot runs one request of the server or one call of the tool; the fields *)
(* of a slot are the local variables of the handler.  Hashes, names of     *)
(* tokens and time stamps of rows are left out: a token row is the id of   *)
(* its user, and its key is the agent's name.                              *)
(***************************************************************************)
EXTENDS Integers, FiniteSets

CONSTANTS
    Name,       \* names of users
    Role,       \* their roles
    Slot,       \* requests and calls that run at a time
    Ops,        \* per slot, the operations the server is asked for
    ToolOps,    \* per slot, the operations the tool is asked for
    Enforced,   \* do the connections of the pool check foreign keys?
    Validity,   \* days a JWT is valid, twice that for "remember me"
    Grace,      \* days after its issue in which a JWT may be refreshed
    MaxId,      \* bound on the users ever created
    MaxDay,     \* bound on the days
    MaxJwt,     \* bound on the JWTs that clients keep at a time
    None        \* no user, no token

ASSUME AccountsAssumption ==
    /\ {"HUMAN_ADMIN", "NORMAL_AI"} \subseteq Role
    /\ Enforced \in BOOLEAN
    /\ Validity \in Nat \ {0}
    /\ Grace \in Nat
    /\ MaxId \in Nat
    /\ MaxDay \in Nat
    /\ MaxJwt \in Nat
    /\ None \notin Nat
    /\ None \notin [name : Name, role : Role, password : BOOLEAN]

VARIABLES
    users,      \* the table users, by id
    tokens,     \* the table agent_tokens: agent_name (unique) to user_id
    nextId,     \* the next id: ids are not used again
    jwts,       \* the JWTs that clients hold
    day,        \* the clock
    slot,       \* the requests
    adminOn,    \* per user, the last day on which it was an administrator
    bare        \* users whose creation or regeneration was cut short

vars == <<users, tokens, nextId, jwts, day, slot, adminOn, bare>>

Id == 1 .. MaxId

User == [name : Name, role : Role, password : BOOLEAN]

JWT == [user_id : Id, username : Name, role : Role, issuedAt : Nat, expiresAt : Nat]

Live(id) == id \in Id /\ users[id] # None

Named(n) == {id \in Id : Live(id) /\ users[id].name = n}

HasToken(id) == \E n \in Name : tokens[n] = id

Idle == [pc |-> "idle"]

At(s, pc) == slot[s].pc = pc

Ends(s) == slot' = [slot EXCEPT ![s] = Idle]

Goes(s, pc) == slot' = [slot EXCEPT ![s].pc = pc]

\* The fields of a request that has begun; nobody authorises the tool.
Request(pc, op, tool, name, id, role, by) ==
    [pc |-> pc, op |-> op, tool |-> tool, name |-> name, id |-> id, role |-> role, by |-> by]

Begins(s, request) ==
    /\ At(s, "idle")
    /\ slot' = [slot EXCEPT ![s] = request]

\* adminOn follows the rows of the next state.
Remember ==
    adminOn' = [id \in Id |-> IF users'[id] # None /\ users'[id].role = "HUMAN_ADMIN"
                              THEN day' ELSE adminOn[id]]

Init ==
    /\ users = [id \in Id |-> None]
    /\ tokens = [n \in Name |-> None]
    /\ nextId = 1
    /\ jwts = {}
    /\ day = 0
    /\ slot = [s \in Slot |-> Idle]
    /\ adminOn = [id \in Id |-> -1]
    /\ bare = {}
-----------------------------------------------------------------------------
(* Sessions *)

GenerateJWT(id, user, remember) ==
    [user_id |-> id, username |-> user.name, role |-> user.role, issuedAt |-> day,
     expiresAt |-> day + (IF remember THEN 2 ELSE 1) * Validity]

VerifyJWT(jwt) == day < jwt.expiresAt

\* A signature is good for ever, so a refresh asks only for the time of issue.
ParseJWT(jwt) == day - jwt.issuedAt <= Grace

\* GetUserByName and the password, which a user has only after a reset.
Login(s, n, remember) ==
    /\ "login" \in Ops[s]
    /\ \E id \in Named(n) :
         /\ users[id].password
         /\ Begins(s, [pc |-> "issue", op |-> "login", user |-> users[id], id |-> id,
                       remember |-> remember])
    /\ UNCHANGED <<users, tokens, nextId, jwts, day, adminOn, bare>>

\* The claims are used again.
RefreshMutant(s, jwt) ==
    /\ ParseJWT(jwt)
    /\ \E id \in Named(jwt.username) :
         Begins(s, [pc |-> "issue", op |-> "refresh", id |-> jwt.user_id,
                    user |-> [users[id] EXCEPT !.role = jwt.role], remember |-> FALSE])
    /\ UNCHANGED <<users, tokens, nextId, jwts, day, adminOn, bare>>

\* The user is looked up by the name the JWT carries, not by its id.
Refresh(s, jwt) ==
    /\ "refresh" \in Ops[s]
    /\ ParseJWT(jwt)
    /\ \E id \in Named(jwt.username) :
         Begins(s, [pc |-> "issue", op |-> "refresh", user |-> users[id], id |-> id,
                    remember |-> FALSE])
    /\ UNCHANGED <<users, tokens, nextId, jwts, day, adminOn, bare>>

\* The answer with the new JWT, beside which clients keep some of the others.
Issue(s) ==
    /\ At(s, "issue")
    /\ \E kept \in SUBSET jwts :
         jwts' = kept \cup {GenerateJWT(slot[s].id, slot[s].user, slot[s].remember)}
    /\ Cardinality(jwts') <= MaxJwt
    /\ Ends(s)
    /\ UNCHANGED <<users, tokens, nextId, day, adminOn, bare>>

\* A request takes less than a day.  JWTs of no more use are forgotten.
Tick ==
    /\ day < MaxDay
    /\ \A s \in Slot : At(s, "idle")
    /\ day' = day + 1
    /\ jwts' = {j \in jwts : day' < j.expiresAt \/ day' - j.issuedAt <= Grace}
    /\ UNCHANGED <<users, tokens, nextId, slot, bare>>
    /\ Remember
-----------------------------------------------------------------------------
(* Requests *)

\* The join of a token with its user; a token without user finds none.
GetUserByToken(n) ==
    {[id |-> id, role |-> users[id].role] : id \in {i \in Id : Live(i) /\ tokens[n] = i}}

\* A JWT stands for what its claims say, an API token for what the table says.
UserFromBearer ==
    {[id |-> j.user_id, role |-> j.role] : j \in {x \in jwts : VerifyJWT(x)}} \cup
    UNION {GetUserByToken(n) : n \in Name}

\* The role is not looked at.
AuthMiddlewareAdminMutant == UserFromBearer

AuthMiddlewareAdmin == {user \in UserFromBearer : user.role = "HUMAN_ADMIN"}

\* Anybody may register; a name that is taken is answered 409.
HandleRegister(s, n) ==
    /\ "register" \in Ops[s]
    /\ Named(n) = {}
    /\ Begins(s, Request("insert", "register", FALSE, n, None, "NORMAL_AI", None))
    /\ UNCHANGED <<users, tokens, nextId, jwts, day, adminOn, bare>>

\* An administrator asks for a change of a user.
HandleAdmin(s, op, id, role) ==
    /\ op \in Ops[s]
    /\ \E admin \in AuthMiddlewareAdmin :
         Begins(s, Request("find", op, FALSE, None, id, role, admin.id))
    /\ UNCHANGED <<users, tokens, nextId, jwts, day, adminOn, bare>>

HandleAdminUpdateUserRole(s, id, role) == HandleAdmin(s, "role", id, role)

HandleAdminResetPassword(s, id) == HandleAdmin(s, "password", id, None)

HandleAdminDeleteUser(s, id) == HandleAdmin(s, "delete", id, None)

HandleAdminRegenerateToken(s, id) == HandleAdmin(s, "regenerate", id, None)

\* The tool asks nobody.  It creates a user with a token, replaces a token, or
\* changes a user in one statement.
Tool(s, pc, op, n, id, role) ==
    /\ op \in ToolOps[s]
    /\ Begins(s, Request(pc, op, TRUE, n, id, role, None))
    /\ UNCHANGED <<users, tokens, nextId, jwts, day, adminOn, bare>>

ToolCreateUser(s, n, role) == Tool(s, "insert", "create", n, None, role)

ToolRegenerateToken(s, id) == Tool(s, "find", "regenerate", None, id, None)

ToolUpdate(s, op, id, role) ==
    /\ op \in {"role", "password", "delete"}
    /\ Tool(s, "write", op, None, id, IF op = "role" THEN role ELSE None)

\* The role is kept unchecked.
CreateUserMutant(s) ==
    /\ At(s, "insert")
    /\ users' = [users EXCEPT ![nextId] = [name |-> slot[s].name, role |-> None, password |-> FALSE]]
    /\ nextId' = nextId + 1
    /\ slot' = [slot EXCEPT ![s].pc = "reread", ![s].id = nextId]
    /\ UNCHANGED <<tokens, jwts, day, adminOn, bare>>

\* INSERT INTO users; the name is unique.
CreateUser(s) ==
    /\ At(s, "insert")
    /\ IF Named(slot[s].name) = {}
       THEN /\ nextId \in Id
            /\ users' = [users EXCEPT ![nextId] = [name |-> slot[s].name, role |-> slot[s].role,
                                                   password |-> FALSE]]
            /\ nextId' = nextId + 1
            /\ slot' = [slot EXCEPT ![s].pc = "reread", ![s].id = nextId]
       ELSE Ends(s) /\ UNCHANGED <<users, nextId>>
    /\ UNCHANGED <<tokens, jwts, day, bare>>
    /\ Remember

\* The created row is read back.
GetCreated(s) ==
    /\ At(s, "reread")
    /\ IF Live(slot[s].id) THEN Goes(s, "token") ELSE Ends(s)
    /\ UNCHANGED <<users, tokens, nextId, jwts, day, adminOn, bare>>

\* The handlers look the user up first, and so does the tool for a token.  A
\* user with tickets may be refused here: Fail.
GetUserByID(s) ==
    /\ At(s, "find")
    /\ IF Live(slot[s].id)
       THEN slot' = [slot EXCEPT ![s].name = users[slot[s].id].name,
                                 ![s].pc = IF slot[s].op = "regenerate" THEN "revoke" ELSE "write"]
       ELSE Ends(s)
    /\ UNCHANGED <<users, tokens, nextId, jwts, day, adminOn, bare>>

\* The query does not select user_id, which is left at zero.
ListTokens == {[agentName |-> n, userId |-> 0] : n \in {m \in Name : tokens[m] # None}}

\* The tool revokes every token it lists.
RevokeTokensMutant(s) ==
    /\ At(s, "revoke")
    /\ LET revoked == {t.agentName : t \in {x \in ListTokens :
                         \/ slot[s].tool
                         \/ x.agentName = slot[s].name /\ x.userId = slot[s].id}}
       IN  /\ tokens' = [n \in Name |-> IF n \in revoked THEN None ELSE tokens[n]]
           /\ bare' = bare \cup {tokens[n] : n \in revoked}
    /\ Goes(s, "token")
    /\ UNCHANGED <<users, nextId, jwts, day, adminOn>>

\* The server revokes the listed tokens with the user's id and name, the tool
\* those with the name.  A list and one delete by name are one step here: if
\* the list has the name, what counts is who has it at the delete; if not,
\* nothing is deleted, and a token that came after the list is in the way of
\* the next statement.
RevokeTokens(s) ==
    /\ At(s, "revoke")
    /\ LET revoked == {t.agentName : t \in {x \in ListTokens :
                         /\ x.agentName = slot[s].name
                         /\ slot[s].tool \/ x.userId = slot[s].id}}
       IN  /\ tokens' = [n \in Name |-> IF n \in revoked THEN None ELSE tokens[n]]
           /\ bare' = bare \cup {tokens[n] : n \in revoked}
    /\ Goes(s, "token")
    /\ UNCHANGED <<users, nextId, jwts, day, adminOn>>

\* INSERT INTO agent_tokens: the name is unique, the user must exist where
\* foreign keys are enforced.
RegisterTokenForUser(s) ==
    /\ At(s, "token")
    /\ IF tokens[slot[s].name] = None /\ (Enforced => Live(slot[s].id))
       THEN /\ tokens' = [tokens EXCEPT ![slot[s].name] = slot[s].id]
            /\ bare' = bare \ {slot[s].id}
            /\ Ends(s)
       ELSE /\ IF slot[s].op = "register" THEN Goes(s, "rollback") ELSE Ends(s)
            /\ UNCHANGED <<tokens, bare>>
    /\ UNCHANGED <<users, nextId, jwts, day, adminOn>>

\* The row goes, whoever refers to it.
DeletedMutant(id) == [users EXCEPT ![id] = None]

\* DELETE FROM users.  No constraint cascades: a row that a token refers to is
\* kept where foreign keys are enforced, and else the token is left behind.
Deleted(id) ==
    IF Enforced /\ HasToken(id) THEN users ELSE [users EXCEPT ![id] = None]

\* The handler of a registration removes the user that got no token.
Rollback(s) ==
    /\ At(s, "rollback")
    /\ users' = Deleted(slot[s].id)
    /\ Ends(s)
    /\ UNCHANGED <<tokens, nextId, jwts, day>>
    /\ bare' = {id \in bare : users'[id] # None}
    /\ Remember

UpdatedRole(id, role) == [users EXCEPT ![id].role = role]

UpdatedPassword(id) == [users EXCEPT ![id].password = TRUE]

\* One UPDATE or DELETE; it meets no row when the user is gone.
WriteUser(s) ==
    /\ At(s, "write")
    /\ LET id == slot[s].id
       IN  users' = IF ~Live(id)
                    THEN users
                    ELSE CASE slot[s].op = "role" -> UpdatedRole(id, slot[s].role)
                           [] slot[s].op = "password" -> UpdatedPassword(id)
                           [] slot[s].op = "delete" -> Deleted(id)
    /\ Ends(s)
    /\ UNCHANGED <<tokens, nextId, jwts, day>>
    /\ bare' = {id \in bare : users'[id] # None}
    /\ Remember

\* What a request leaves without a token when it goes no further.
Left(s) ==
    IF slot[s].pc \in {"reread", "token", "rollback"} /\ Live(slot[s].id) THEN {slot[s].id} ELSE {}

\* There is no rollback.
FailMutant(s) ==
    /\ ~At(s, "idle")
    /\ Ends(s)
    /\ bare' = bare \cup (IF slot[s].op = "register" /\ At(s, "token") THEN {} ELSE Left(s))
    /\ UNCHANGED <<users, tokens, nextId, jwts, day, adminOn>>

\* A statement fails, or a check of the input: only the registration does
\* something about it, and only about a token it could not store.
Fail(s) ==
    /\ ~At(s, "idle")
    /\ IF At(s, "token") /\ slot[s].op = "register"
       THEN Goes(s, "rollback") /\ UNCHANGED bare
       ELSE Ends(s) /\ bare' = bare \cup Left(s)
    /\ UNCHANGED <<users, tokens, nextId, jwts, day, adminOn>>

\* The server stops, and the tool is interrupted; the database and the JWTs
\* remain, for the secret is configured.
Restart ==
    /\ slot' = [s \in Slot |-> Idle]
    /\ bare' = bare \cup UNION {Left(s) : s \in Slot}
    /\ UNCHANGED <<users, tokens, nextId, jwts, day, adminOn>>

AdminOps == {"role", "password", "delete", "regenerate"}

Next ==
    \/ \E s \in Slot :
         \/ \E n \in Name :
              \/ HandleRegister(s, n)
              \/ \E remember \in BOOLEAN : Login(s, n, remember)
              \/ \E role \in Role : ToolCreateUser(s, n, role)
         \/ \E jwt \in jwts : Refresh(s, jwt)
         \/ \E id \in Id :
              \/ \E role \in Role :
                   \/ HandleAdminUpdateUserRole(s, id, role)
                   \/ \E op \in AdminOps : ToolUpdate(s, op, id, role)
              \/ HandleAdminResetPassword(s, id)
              \/ HandleAdminDeleteUser(s, id)
              \/ HandleAdminRegenerateToken(s, id)
              \/ ToolRegenerateToken(s, id)
         \/ Issue(s)
         \/ CreateUser(s) \/ GetCreated(s)
         \/ GetUserByID(s) \/ RevokeTokens(s) \/ RegisterTokenForUser(s)
         \/ WriteUser(s) \/ Rollback(s)
         \/ Fail(s)
    \/ Tick
    \/ Restart

Spec == Init /\ [][Next]_vars
-----------------------------------------------------------------------------
(* Properties *)

\* Every variable has its type.
TypeOK ==
    /\ users \in [Id -> User \cup {None}]
    /\ tokens \in [Name -> Id \cup {None}]
    /\ nextId \in 1 .. MaxId + 1
    /\ jwts \subseteq JWT
    /\ day \in 0 .. MaxDay
    /\ \A s \in Slot : At(s, "idle") \/ At(s, "issue") \/ slot[s].op \in AdminOps \cup {"create", "register"}
    /\ adminOn \in [Id -> -1 .. MaxDay]
    /\ bare \subseteq Id

\* Where foreign keys are enforced, a token row (CreateTokenWithUser) belongs
\* to a user who exists and has the token's name, however registrations with
\* their rollback, regenerations and deletions overlap: GetUserByToken finds
\* the agent that ValidateToken found.
TokensHaveOwners ==
    Enforced => \A n \in Name : tokens[n] # None =>
        Live(tokens[n]) /\ users[tokens[n]].name = n

\* A JWT that makes its bearer an administrator (UserFromBearer trusts its
\* claims) was issued on a day on which the user was one, and so less than
\* twice the validity ago for as long as VerifyJWT accepts it: refreshing does
\* not carry an old role on.
StaleRoleBound ==
    \A jwt \in jwts :
        jwt.role = "HUMAN_ADMIN" =>
            /\ adminOn[jwt.user_id] >= jwt.issuedAt
            /\ VerifyJWT(jwt) => day - adminOn[jwt.user_id] < 2 * Validity

\* A user has a token, or is being given one, or the request that should have
\* done it was cut short (HandleRegister, register.go:68, and the tool's
\* CreateUser and RegenerateToken): no order of registrations, rollbacks and
\* regenerations for one name leaves a user without.
UsersHaveTokens ==
    Enforced => \A id \in Id :
        Live(id) => \/ HasToken(id)
                    \/ id \in bare
                    \/ \E s \in Slot : Left(s) = {id}

\* An agent whose token is accepted goes on to be accepted as the same user
\* until somebody regenerates its token or deletes its user: no registration,
\* no rollback and nothing that is done to another user takes it away.  The
\* name, which is all a regeneration revokes by (admin.go:204 and dbclient.go:
\* RegenerateToken), may be that of another user by then only if the user it was
\* asked for is gone.  (Does the code take it away when it should?  Not always;
\* README.md has that.)
TokensLast ==
    [][Enforced => \A n \in Name :
         tokens[n] # None /\ tokens'[n] # tokens[n] =>
             \E s \in Slot :
                 /\ slot'[s] # slot[s]
                 /\ \/ At(s, "revoke") /\ slot[s].name = n
                    \/ At(s, "write") /\ slot[s].op = "delete"
                 /\ slot[s].id = tokens[n] \/ ~Live(slot[s].id)]_vars

\* A row is changed by the server only for an administrator who had the role
\* less than twice the validity before (AuthMiddlewareAdmin), or, of a user it
\* is registering.
AdminsActed ==
    [][\A id \in Id :
         Live(id) /\ users'[id] # users[id] =>
             \E s \in Slot :
                 /\ slot[s] # slot'[s]
                 /\ slot[s].id = id
                 /\ \/ slot[s].tool
                    \/ At(s, "rollback")
                    \/ day - adminOn[slot[s].by] < 2 * Validity]_vars
=============================================================================
