--------------------------- MODULE GobanCliProofs ---------------------------
(***************************************************************************)
(* Proofs about GobanCli, for any terminals, commands, tickets, keys and   *)
(* bounds: every variable has its type, no two tickets get the same key,   *)
(* and a request that has taken effect is harmless when it is repeated.    *)
(***************************************************************************)
EXTENDS GobanCli, TLAPS

-----------------------------------------------------------------------------
(* Terminals *)

\* The calls that each command makes.
Stages ==
    [claim   |-> {"get", "claim", "verifyClaim", "move", "verifyMove"},
     move    |-> {"get", "claim", "verifyClaim", "move", "verifyMove"},
     batch   |-> {"get", "claim", "verifyClaim", "move", "verifyMove"},
     release |-> {"get", "release", "verifyRelease"},
     session |-> {"move", "verifyMove"},
     create  |-> {"create", "inserting", "verifyCreate"}]

Work ==
    [pc: Reads \cup Mutations \cup {"inserting"}, op: Ops, ticket: Ticket \cup {NoTicket},
     rest: SUBSET Ticket, status: VALID_STATUSES \cup {NoStatus}, force: BOOLEAN, auto: BOOLEAN,
     key: Key \cup {NoKey}, attempt: 1 .. MaxAttempts, terminal: BOOLEAN]

\* A terminal that runs a command makes one of its calls, about a ticket
\* unless there is none yet, only a batch has more tickets to come, and a move
\* knows its status.
Working ==
    {k \in Work : /\ k.pc \in Stages[k.op]
                  /\ k.op # "batch" => k.rest = {}
                  /\ k.ticket = NoTicket <=> k.pc \in {"create", "inserting"}
                  /\ k.op \in {"move", "session", "batch"} => k.status # NoStatus
                  /\ k.pc \in {"move", "verifyMove"} => k.status # NoStatus}

Terminals == cli \in [Cli -> Working \cup {Idle}]

Sessions == session \in [User -> Ticket \cup {NoTicket}]

LEMMA FirstAttempt == 1 \in 1 .. MaxAttempts
  BY CliAssumption

LEMMA IdleOrWorking ==
    ASSUME Terminals, NEW c \in Cli
    PROVE  /\ At(c, "idle") => cli[c] = Idle
           /\ ~At(c, "idle") => cli[c] \in Working
<1>1. cli[c] \in Working => cli[c].pc # "idle"
  BY DEF Working, Work, Reads, Mutations
<1>2. Idle.pc = "idle"
  BY DEF Idle
<1> QED
  BY <1>1, <1>2 DEF Terminals, At

LEMMA GoesOn ==
    ASSUME Terminals, NEW c \in Cli, NEW k \in Working \cup {Idle}, cli' = [cli EXCEPT ![c] = k]
    PROVE  Terminals'
  BY DEF Terminals

LEMMA ProceedsTyped ==
    ASSUME Terminals, NEW c \in Cli, cli[c] \in Working, Proceeds(c)
    PROVE  Terminals'
<1>1. CASE cli[c].rest = {}
  BY <1>1, GoesOn DEF Proceeds
<1>2. CASE cli[c].rest # {}
  <2>1. PICK t \in cli[c].rest :
           cli' = [cli EXCEPT ![c] = [cli[c] EXCEPT !.pc = "get", !.ticket = t,
                                                    !.rest = cli[c].rest \ {t},
                                                    !.attempt = 1, !.terminal = FALSE]]
    BY <1>2 DEF Proceeds
  <2> DEFINE k == [cli[c] EXCEPT !.pc = "get", !.ticket = t, !.rest = cli[c].rest \ {t},
                                 !.attempt = 1, !.terminal = FALSE]
  <2>2. cli[c] \in Work /\ cli[c].op = "batch" /\ t \in Ticket /\ cli[c].status # NoStatus
    BY <1>2, <2>1 DEF Working, Work
  <2>3. k \in Work
    BY <2>1, <2>2, FirstAttempt DEF Work, Reads
  <2>4. k.pc = "get" /\ k.op = "batch" /\ k.ticket = t /\ k.status # NoStatus
    BY <2>2 DEF Work
  <2> HIDE DEF k
  <2>5. k \in Working
    BY <2>2, <2>3, <2>4, NamesAssumption DEF Working, Stages
  <2> QED
    BY <2>1, <2>5, GoesOn DEF k
<1> QED
  BY <1>1, <1>2

LEMMA GoesTyped ==
    ASSUME Terminals, NEW c \in Cli, cli[c] \in Working, cli[c].ticket # NoTicket,
           NEW pc, pc = "end" \/ pc \in Stages[cli[c].op] \ {"create", "inserting"},
           pc \in {"move", "verifyMove"} => cli[c].status # NoStatus,
           Goes(c, pc)
    PROVE  Terminals'
<1>1. CASE pc = "end"
  BY <1>1, ProceedsTyped DEF Goes
<1>2. CASE pc # "end"
  <2> DEFINE k == [cli[c] EXCEPT !.pc = pc, !.attempt = 1]
  <2>1. cli' = [cli EXCEPT ![c] = k]
    <3>1. cli' = [cli EXCEPT ![c].pc = pc, ![c].attempt = 1]
      BY <1>2 DEF Goes
    <3> QED
      BY <3>1 DEF Terminals
  <2>2. /\ cli[c] \in Work /\ (cli[c].op # "batch" => cli[c].rest = {})
        /\ cli[c].op \in {"move", "session", "batch"} => cli[c].status # NoStatus
    BY DEF Working
  <2>3. pc \in Reads \cup Mutations
    BY <1>2, <2>2 DEF Work, Stages, Ops, Reads, Mutations
  <2>4. k \in Work
    BY <2>2, <2>3, FirstAttempt DEF Work
  <2>5. /\ k.pc = pc /\ k.op = cli[c].op /\ k.rest = cli[c].rest /\ k.ticket = cli[c].ticket
        /\ k.status = cli[c].status
    BY <2>2 DEF Work
  <2> HIDE DEF k
  <2>6. k \in Working
    BY <1>2, <2>2, <2>4, <2>5 DEF Working
  <2> QED
    BY <2>1, <2>6, GoesOn
<1> QED
  BY <1>1, <1>2

LEMMA RetriesTyped ==
    ASSUME Terminals, NEW c \in Cli, cli[c] \in Working, Retries(c) \/ Fails(c)
    PROVE  Terminals' /\ UNCHANGED session
<1>1. CASE Fails(c)
  BY <1>1, ProceedsTyped DEF Fails
<1>2. CASE Retries(c) /\ ~Fails(c)
  <2> DEFINE pc == IF cli[c].pc = "inserting" THEN "create" ELSE cli[c].pc
             k == [cli[c] EXCEPT !.attempt = cli[c].attempt + 1, !.pc = pc]
  <2>1. cli[c].attempt < MaxAttempts /\ cli' = [cli EXCEPT ![c] = k] /\ UNCHANGED session
    BY <1>2 DEF Retries, Terminals
  <2>2. /\ cli[c] \in Work /\ (cli[c].op # "batch" => cli[c].rest = {})
        /\ cli[c].op \in {"move", "session", "batch"} => cli[c].status # NoStatus
        /\ cli[c].pc \in {"move", "verifyMove"} => cli[c].status # NoStatus
        /\ cli[c].ticket = NoTicket <=> cli[c].pc \in {"create", "inserting"}
        /\ cli[c].pc \in Stages[cli[c].op]
    BY DEF Working
  <2>3. pc \in Reads \cup Mutations \cup {"inserting"} /\ pc \in Stages[cli[c].op]
    BY <2>2 DEF Work, Stages, Ops, Mutations
  <2>4. cli[c].attempt + 1 \in 1 .. MaxAttempts
    BY <2>1, <2>2, CliAssumption DEF Work
  <2>5. k \in Work
    BY <2>2, <2>3, <2>4 DEF Work
  <2>6. /\ k.pc = pc /\ k.op = cli[c].op /\ k.rest = cli[c].rest /\ k.ticket = cli[c].ticket
        /\ k.status = cli[c].status
    BY <2>2 DEF Work
  <2>7. /\ pc \in {"move", "verifyMove"} => cli[c].pc \in {"move", "verifyMove"}
        /\ pc \in {"create", "inserting"} <=> cli[c].pc \in {"create", "inserting"}
    OBVIOUS
  <2> HIDE DEF k, pc
  <2>8. k \in Working
    BY <2>2, <2>3, <2>5, <2>6, <2>7 DEF Working
  <2> QED
    BY <2>1, <2>8, GoesOn
<1> QED
  BY <1>1, <1>2

\* A verified call, or the answer to one.
LEMMA SucceedsTyped ==
    ASSUME Terminals, Sessions, NEW c \in Cli, Calling(c), NEW row, Succeeds(c, row)
    PROVE  Terminals' /\ Sessions'
<1> DEFINE k == cli[c]
           u == UserOf[c]
<1>0. /\ k \in Work /\ k \in Working /\ k.pc \in Stages[k.op] /\ k.ticket \in Ticket
      /\ k.op \in {"move", "session", "batch"} => k.status # NoStatus
      /\ k.pc \in {"move", "verifyMove"} => k.status # NoStatus
      /\ k.op # "batch" => k.rest = {}
      /\ u \in User
  <2>1. k.pc # "idle"
    BY DEF Calling, Reads
  <2>2. k \in Working /\ k.pc \notin {"create", "inserting"}
    BY <2>1, IdleOrWorking DEF At, Calling, Reads
  <2>3. u \in User
    BY CliAssumption
  <2> QED
    BY <2>2, <2>3 DEF Working, Work
<1> HIDE DEF u
<1>1. CASE k.pc = "get"
  <2> DEFINE pc == AfterGet(k, u, row)
  <2>1. Goes(c, pc) /\ UNCHANGED session
    BY <1>1 DEF Succeeds, u
  <2>2. k.op \in {"claim", "move", "release", "batch"}
    BY <1>0, <1>1 DEF Work, Ops, Stages
  <2>3. /\ pc = "end" \/ pc \in Stages[k.op] \ {"create", "inserting"}
        /\ pc \in {"move", "verifyMove"} => k.op \in {"move", "batch"}
    <3>1. CASE k.op = "claim"
      BY <3>1 DEF AfterGet, claimCmd, Stages
    <3>2. CASE k.op = "move"
      BY <3>2 DEF AfterGet, moveCmd, Stages
    <3>3. CASE k.op = "release"
      BY <3>3 DEF AfterGet, releaseCmd, Stages
    <3>4. CASE k.op = "batch"
      BY <3>4 DEF AfterGet, processSingleMove, Stages
    <3> QED
      BY <2>2, <3>1, <3>2, <3>3, <3>4
  <2> HIDE DEF pc
  <2>4. Terminals'
    BY <1>0, <2>1, <2>3, GoesTyped, NamesAssumption
  <2> QED
    BY <2>1, <2>4 DEF Sessions
<1>2. CASE k.pc \in {"claim", "move", "release"}
  <2> DEFINE pc == Verifier[k.pc]
             end == k.pc = "claim" /\ Terminal(row)
             n == [k EXCEPT !.pc = pc, !.attempt = 1, !.terminal = end]
  <2>1. k.pc # "get" /\ k.pc \notin Reads \ {"get"}
    BY <1>2 DEF Reads
  <2>2. cli' = [cli EXCEPT ![c].pc = pc, ![c].attempt = 1, ![c].terminal = end] /\ UNCHANGED session
    BY <1>2, <2>1 DEF Succeeds
  <2>3. /\ pc \in Reads /\ pc \in Stages[k.op] /\ pc \notin {"create", "inserting"}
        /\ pc \in {"move", "verifyMove"} => k.status # NoStatus
    BY <1>0, <1>2 DEF Work, Ops, Stages, Verifier, Reads
  <2>4. end \in BOOLEAN
    OBVIOUS
  <2> HIDE DEF pc, end
  <2>5. cli' = [cli EXCEPT ![c] = n]
    BY <2>2 DEF Terminals
  <2>6. n \in Work
    BY <1>0, <2>3, <2>4, FirstAttempt DEF Work
  <2>7. n.pc = pc /\ n.op = k.op /\ n.rest = k.rest /\ n.ticket = k.ticket /\ n.status = k.status
    BY <1>0 DEF Work
  <2> HIDE DEF n
  <2>8. n \in Working
    BY <1>0, <2>3, <2>6, <2>7, NamesAssumption DEF Working
  <2> QED
    BY <2>2, <2>5, <2>8, GoesOn DEF Sessions
<1>3. CASE k.pc \in Reads \ {"get"}
  <2> DEFINE pc == IF k.pc = "verifyClaim" THEN AfterClaim(k) ELSE "end"
  <2>1. /\ Goes(c, pc) /\ session' = [session EXCEPT ![u] = SessionAfter(k, u)]
        \/ Fails(c)
    BY <1>3 DEF Succeeds, Reads, u
  <2>2. /\ pc = "end" \/ pc \in Stages[k.op] \ {"create", "inserting"}
        /\ pc \in {"move", "verifyMove"} => k.status # NoStatus
    <3>1. CASE k.pc = "verifyClaim"
      <4>1. k.op \in {"claim", "move", "batch"}
        BY <1>0, <3>1 DEF Work, Ops, Stages
      <4> QED
        BY <1>0, <3>1, <4>1 DEF AfterClaim, Stages
    <3> QED
      BY <3>1
  <2>3. SessionAfter(k, u) \in Ticket \cup {NoTicket}
    BY <1>0 DEF SessionAfter, Sessions
  <2> HIDE DEF pc
  <2>4. CASE Fails(c)
    BY <1>0, <2>4, RetriesTyped DEF Sessions
  <2>5. CASE Goes(c, pc) /\ session' = [session EXCEPT ![u] = SessionAfter(k, u)]
    <3>1. Terminals'
      BY <1>0, <2>2, <2>5, GoesTyped, NamesAssumption
    <3> QED
      BY <1>0, <2>3, <2>5, <3>1 DEF Sessions
  <2> QED
    BY <2>1, <2>4, <2>5
<1> QED
  BY <1>1, <1>2, <1>3 DEF Calling, Reads

LEMMA ContinuesTyped ==
    ASSUME Terminals, Sessions, NEW c \in Cli, Calling(c), NEW code, NEW row, Continues(c, code, row)
    PROVE  Terminals' /\ Sessions'
<1>1. cli[c] \in Working
  BY IdleOrWorking DEF Calling, Reads, At
<1>2. CASE code = 200
  BY <1>2, SucceedsTyped DEF Continues
<1>3. CASE code # 200
  <2>1. Retries(c) \/ Fails(c)
    BY <1>3 DEF Continues
  <2> QED
    BY <1>1, <2>1, RetriesTyped DEF Sessions
<1> QED
  BY <1>2, <1>3

\* A create gets its ticket.
LEMMA CreatedTyped ==
    ASSUME Terminals, NEW c \in Cli, cli[c].pc \in {"create", "inserting"}, NEW t \in Ticket,
           cli' = [cli EXCEPT ![c].pc = "verifyCreate", ![c].ticket = t, ![c].attempt = 1]
    PROVE  Terminals'
<1> DEFINE k == [cli[c] EXCEPT !.pc = "verifyCreate", !.ticket = t, !.attempt = 1]
<1>1. cli[c] \in Working
  BY IdleOrWorking DEF At
<1>2. cli[c] \in Work /\ cli[c].op = "create" /\ cli[c].rest = {}
  BY <1>1 DEF Working, Work, Stages, Ops
<1>3. cli' = [cli EXCEPT ![c] = k]
  BY DEF Terminals
<1>4. k \in Work
  BY <1>2, FirstAttempt DEF Work, Reads
<1>5. k.pc = "verifyCreate" /\ k.op = "create" /\ k.rest = {} /\ k.ticket = t
  BY <1>2 DEF Work
<1> HIDE DEF k
<1>6. k \in Working
  BY <1>4, <1>5, NamesAssumption DEF Working, Stages
<1> QED
  BY <1>3, <1>6, GoesOn

LEMMA InsertingTyped ==
    ASSUME Terminals, NEW c \in Cli, cli[c].pc = "create",
           cli' = [cli EXCEPT ![c].pc = "inserting"]
    PROVE  Terminals'
<1> DEFINE k == [cli[c] EXCEPT !.pc = "inserting"]
<1>1. cli[c] \in Working
  BY IdleOrWorking DEF At
<1>2. /\ cli[c] \in Work /\ cli[c].op = "create" /\ cli[c].rest = {}
      /\ cli[c].ticket = NoTicket
  BY <1>1 DEF Working, Work, Stages, Ops
<1>3. cli' = [cli EXCEPT ![c] = k]
  BY DEF Terminals
<1>4. k \in Work
  BY <1>2 DEF Work
<1>5. k.pc = "inserting" /\ k.op = "create" /\ k.rest = {} /\ k.ticket = NoTicket
  BY <1>2 DEF Work
<1> HIDE DEF k
<1>6. k \in Working
  BY <1>4, <1>5, NamesAssumption DEF Working, Stages
<1> QED
  BY <1>3, <1>6, GoesOn

LEMMA StartsTyped ==
    ASSUME Terminals, Sessions, NEW c \in Cli, NEW command \in Commands[c], Starts(c, command)
    PROVE  Terminals'
<1>1. /\ command \in [op: Ops, tickets: SUBSET Ticket, status: VALID_STATUSES \cup {NoStatus},
                      force: BOOLEAN, auto: BOOLEAN, key: Key \cup {NoKey}]
      /\ command.op = "create" => command.tickets = {}
      /\ command.op # "batch" => \A t, o \in command.tickets : t = o
      /\ command.op \in {"move", "session", "batch"} => command.status # NoStatus
  BY CommandAssumption DEF Command
<1> DEFINE named == IF command.op \in {"release", "session"} /\ command.tickets = {}
                    THEN {session[UserOf[c]]} \ {NoTicket}
                    ELSE command.tickets
           pc == CASE command.op = "session" -> "move"
                   [] command.op = "create" -> "create"
                   [] OTHER -> "get"
           k(t) == [pc |-> pc, op |-> command.op, ticket |-> t, rest |-> named \ {t},
                    status |-> command.status, force |-> command.force, auto |-> command.auto,
                    key |-> command.key, attempt |-> 1, terminal |-> FALSE]
<1>2. PICK t \in IF command.op = "create" THEN {NoTicket} ELSE named : cli' = [cli EXCEPT ![c] = k(t)]
  BY DEF Starts
<1>3. named \subseteq Ticket
  <2>1. session[UserOf[c]] \in Ticket \cup {NoTicket}
    BY CliAssumption DEF Sessions
  <2> QED
    BY <1>1, <2>1
<1>4. /\ command.op # "batch" => named \ {t} = {}
      /\ command.op = "create" => t = NoTicket
      /\ command.op # "create" => t \in Ticket
  BY <1>1, <1>2, <1>3
<1>5. pc \in Stages[command.op] /\ pc \in Reads \cup Mutations /\ pc # "inserting" /\ pc # "verifyMove"
      /\ (pc = "create" <=> command.op = "create") /\ (pc = "move" <=> command.op = "session")
  BY <1>1 DEF Stages, Ops, Reads, Mutations
<1> HIDE DEF named, pc
<1>6. k(t) \in Work
  BY <1>1, <1>3, <1>4, <1>5, FirstAttempt DEF Work
<1>7. k(t) \in Working
  BY <1>1, <1>4, <1>5, <1>6, NamesAssumption DEF Working
<1> QED
  BY <1>2, <1>7, GoesOn
-----------------------------------------------------------------------------
(* The server *)

\* The rows and the rules are the same on both sides of the instance.
LEMMA SameRows ==
    /\ Server!Row = Row
    /\ \A t : Server!Exists(t) <=> db[t] \in Row
    /\ \A d, u : Server!InProgressIn(d, u) = InProgressIn(d, u)
    /\ \A u, row : Server!ClaimedRow(row, u) = ClaimedRow(row, u)
    /\ \A row : Server!ReleasedRow(row) = ReleasedRow(row)
    /\ \A s, row : Server!MovedRow(row, s) = MovedRow(row, s)
<1>1. Server!Row = Row
  BY DEF Server!Row, Row, Server!Assignee, Assignee, Server!Column, Column
<1>2. \A t : Server!Exists(t) <=> db[t] \in Row
  BY <1>1 DEF Server!Exists
<1>3. \A d, u : Server!InProgressIn(d, u) = InProgressIn(d, u)
  BY <1>1 DEF Server!InProgressIn, InProgressIn
<1>4. /\ \A u, row : Server!ClaimedRow(row, u) = ClaimedRow(row, u)
      /\ \A row : Server!ReleasedRow(row) = ReleasedRow(row)
      /\ \A s, row : Server!MovedRow(row, s) = MovedRow(row, s)
  BY DEF Server!ClaimedRow, ClaimedRow, Server!ReleasedRow, ReleasedRow, Server!MovedRow, MovedRow,
         Server!StatusToColumnID, StatusToColumnID
<1> QED
  BY <1>1, <1>2, <1>3, <1>4

LEMMA SameStatus == \A row : Server!Status(row) = Status(row)
<1>1. Server!StatusToColumnID = StatusToColumnID /\ Server!VALID_STATUSES = VALID_STATUSES
  BY DEF Server!StatusToColumnID, StatusToColumnID, Server!VALID_STATUSES, VALID_STATUSES
<1> QED
  BY <1>1 DEF Server!Status, Status

\* What the services do when they do not return early.
LEMMA ClaimActs ==
    ASSUME NEW u, NEW x, Server!Claim(u, x)
    PROVE  /\ db[x] \in Row /\ db[x].assignee # u
           /\ \/ db' = [db EXCEPT ![x] = ClaimedRow(db[x], u)]
              \/ \E o \in InProgressIn(db, u) \ {x} :
                   db' = [db EXCEPT ![x] = ClaimedRow(db[x], u), ![o] = ReleasedRow(db[o])]
<1>1. /\ db[x] \in Row /\ db[x].assignee # u
      /\ \/ db' = [db EXCEPT ![x] = Server!ClaimedRow(db[x], u)]
         \/ \E o \in Server!InProgressIn(db, u) \ {x} :
              db' = [db EXCEPT ![x] = Server!ClaimedRow(db[x], u), ![o] = Server!ReleasedRow(db[o])]
  BY SameRows DEF Server!Claim
<1> QED
  BY <1>1, SameRows

LEMMA MoveActs ==
    ASSUME NEW u, NEW x, NEW s, NEW f, Server!Move(u, x, s, f)
    PROVE  /\ db[x] \in Row /\ ~db[x].archived /\ Status(db[x]) # s
           /\ db' = [db EXCEPT ![x] = MovedRow(db[x], s)]
  BY SameRows, SameStatus DEF Server!Move

LEMMA ReleaseActs ==
    ASSUME NEW u, NEW x, Server!Release(u, x)
    PROVE  /\ db[x] \in Row /\ ~db[x].archived /\ db[x].assignee # NoUser
           /\ db' = [db EXCEPT ![x] = ReleasedRow(db[x])]
  BY SameRows DEF Server!Release

\* Of the calls that terminals make, all but a look at a ticket or a create
\* may have an effect: the ticket is what the call asked for.
Effect(r, t) ==
    /\ r.ticket = t
    /\ db[t] \in Row
    /\ r.call \in {"claim", "move", "release"}
    /\ r.call = "claim" => db[t].assignee = r.user
    /\ r.call = "move" => ~db[t].archived /\ Status(db[t]) = r.status
    /\ r.call = "release" => ~db[t].archived /\ db[t].assignee = NoUser

\* A call that is served names its ticket, and its status if it is a move.
Servable(r) ==
    /\ r \in Call
    /\ r.call # "create" => r.ticket \in Ticket
    /\ r.call = "move" => r.status # NoStatus

Lates == \A r \in late : Servable(r) /\ r.call \in Mutations

\* Rows stay rows, with their flag.
RowsStay ==
    /\ db' \in [Ticket -> Entry]
    /\ \A t \in Ticket : db'[t] # db[t] =>
         db[t] \in Row /\ db'[t] \in Row /\ db'[t].archived = db[t].archived

LEMMA RequestServable ==
    ASSUME Terminals, NEW c \in Cli, cli[c].pc \in Reads \cup Mutations
    PROVE  /\ Servable(Request(c, cli[c])) /\ Request(c, cli[c]).call = cli[c].pc
           /\ Request(c, cli[c]).ticket = cli[c].ticket
<1>1. cli[c] \in Working /\ UserOf[c] \in User
  BY IdleOrWorking, CliAssumption DEF At, Reads, Mutations
<1>2. /\ cli[c] \in Work /\ (cli[c].pc = "move" => cli[c].status # NoStatus)
      /\ cli[c].pc # "create" => cli[c].ticket \in Ticket
  <2>1. cli[c].pc # "inserting"
    BY DEF Reads, Mutations
  <2> QED
    BY <1>1, <2>1 DEF Working, Work
<1> DEFINE s == IF cli[c].pc = "move" THEN cli[c].status ELSE NoStatus
           f == cli[c].pc = "move" /\ cli[c].force
<1>3. s \in VALID_STATUSES \cup {NoStatus} /\ f \in BOOLEAN
  BY <1>2 DEF Work
<1>4. cli[c].pc = "move" => s # NoStatus
  BY <1>2
<1>5. Request(c, cli[c]) = [user |-> UserOf[c], call |-> cli[c].pc, ticket |-> cli[c].ticket,
                            status |-> s, force |-> f, key |-> cli[c].key]
  BY DEF Request
<1> HIDE DEF s, f
<1>6. Request(c, cli[c]) \in Call
  BY <1>1, <1>2, <1>3, <1>5 DEF Call, Work
<1> QED
  BY <1>2, <1>4, <1>5, <1>6 DEF Servable

\* The columns of the statuses are distinct.
LEMMA StatusOfColumn ==
    ASSUME NEW row, NEW s \in VALID_STATUSES, row.column = StatusToColumnID[s]
    PROVE  Status(row) = s
<1>1. \A x \in VALID_STATUSES : StatusToColumnID[x] = StatusToColumnID[s] => x = s
  BY DEF VALID_STATUSES, StatusToColumnID
<1> QED
  BY <1>1 DEF Status

LEMMA ServedSteps ==
    ASSUME db \in [Ticket -> Entry], NEW r, Servable(r), r.call # "create", NEW code, Served(r, code)
    PROVE  /\ RowsStay /\ UNCHANGED <<keyOf, creating>>
           /\ \A t \in Ticket : db'[t] # db[t] /\ r.ticket = t => Effect(r, t)'
<1>0. r \in Call /\ r.ticket \in Ticket /\ UNCHANGED <<keyOf, creating>>
  BY DEF Servable, Served
<1> DEFINE x == r.ticket
<1>s. ASSUME UNCHANGED db
      PROVE  /\ RowsStay /\ UNCHANGED <<keyOf, creating>>
             /\ \A t \in Ticket : db'[t] # db[t] /\ r.ticket = t => Effect(r, t)'
  BY <1>0, <1>s DEF RowsStay
<1>1. CASE r.call \in Reads
  <2>1. UNCHANGED db
    BY <1>1 DEF Served, ServedGet, Reads
  <2> QED
    BY <1>s, <2>1
<1>2. CASE r.call = "claim"
  <2>1. ServedClaim(r.user, x, code) /\ r.user \in User
    BY <1>0, <1>2 DEF Served, Reads, Call
  <2>2. CASE Server!Claim(r.user, x)
    <3>1. db[x] \in Row
      BY <2>2, ClaimActs
    <3>2. ClaimedRow(db[x], r.user) \in Row /\ ClaimedRow(db[x], r.user).archived = db[x].archived
          /\ ClaimedRow(db[x], r.user).assignee = r.user
      BY <2>1, <3>1 DEF ClaimedRow, Row, Column, Assignee
    <3>3. CASE db' = [db EXCEPT ![x] = ClaimedRow(db[x], r.user)]
      <4>1. db'[x] = ClaimedRow(db[x], r.user) /\ \A t \in Ticket \ {x} : db'[t] = db[t]
        BY <1>0, <3>3
      <4>2. db' \in [Ticket -> Entry]
        BY <3>2, <3>3 DEF Entry
      <4> HIDE <3>3
      <4> QED
        BY <1>0, <1>2, <3>1, <3>2, <4>1, <4>2 DEF RowsStay, Effect
    <3>4. ASSUME NEW o \in InProgressIn(db, r.user) \ {x},
                 db' = [db EXCEPT ![x] = ClaimedRow(db[x], r.user), ![o] = ReleasedRow(db[o])]
          PROVE  /\ RowsStay /\ UNCHANGED <<keyOf, creating>>
                 /\ \A t \in Ticket : db'[t] # db[t] /\ r.ticket = t => Effect(r, t)'
      <4>1. o \in Ticket /\ db[o] \in Row /\ o # x
        BY <3>4 DEF InProgressIn
      <4>2. ReleasedRow(db[o]) \in Row /\ ReleasedRow(db[o]).archived = db[o].archived
        BY <4>1 DEF ReleasedRow, Row, Column, Assignee
      <4>3. /\ db'[x] = ClaimedRow(db[x], r.user) /\ db'[o] = ReleasedRow(db[o])
            /\ \A t \in Ticket \ {x, o} : db'[t] = db[t]
        BY <1>0, <3>4, <4>1
      <4>4. db' \in [Ticket -> Entry]
        BY <3>2, <3>4, <4>2 DEF Entry
      <4> HIDE <3>4
      <4> QED
        BY <1>0, <1>2, <3>1, <3>2, <4>1, <4>2, <4>3, <4>4 DEF RowsStay, Effect
    <3>5. \/ db' = [db EXCEPT ![x] = ClaimedRow(db[x], r.user)]
          \/ \E o \in InProgressIn(db, r.user) \ {x} :
               db' = [db EXCEPT ![x] = ClaimedRow(db[x], r.user), ![o] = ReleasedRow(db[o])]
      BY <2>2, ClaimActs
    <3> QED
      BY <3>3, <3>4, <3>5
  <2> QED
    BY <1>s, <2>1, <2>2 DEF ServedClaim
<1>3. CASE r.call = "move"
  <2>1. ServedMove(r.user, x, r.status, r.force, code) /\ r.status \in VALID_STATUSES
    BY <1>0, <1>3 DEF Served, Reads, Call, Servable
  <2>2. CASE Server!Move(r.user, x, r.status, r.force)
    <3>1. db[x] \in Row /\ ~db[x].archived /\ db' = [db EXCEPT ![x] = MovedRow(db[x], r.status)]
      BY <2>2, MoveActs
    <3> DEFINE row == MovedRow(db[x], r.status)
    <3>2. StatusToColumnID[r.status] \in Column
      BY <2>1 DEF StatusToColumnID, VALID_STATUSES, Column
    <3>3. row \in Row /\ row.column = StatusToColumnID[r.status] /\ row.archived = db[x].archived
      BY <3>1, <3>2 DEF MovedRow, Row
    <3> HIDE DEF row
    <3>4. Status(row) = r.status
      BY <2>1, <3>3, StatusOfColumn
    <3>5. db'[x] = row /\ \A t \in Ticket \ {x} : db'[t] = db[t]
      BY <1>0, <3>1 DEF row
    <3>6. db' \in [Ticket -> Entry]
      BY <3>1, <3>3 DEF Entry, row
    <3>7. db[x] \in Row /\ ~db[x].archived
      BY <3>1
    <3> QED
      BY <1>0, <1>3, <3>7, <3>3, <3>4, <3>5, <3>6 DEF RowsStay, Effect
  <2> QED
    BY <1>s, <2>1, <2>2 DEF ServedMove
<1>4. CASE r.call = "release"
  <2>1. ServedRelease(r.user, x, code)
    BY <1>4 DEF Served, Reads
  <2>2. CASE Server!Release(r.user, x)
    <3>1. db[x] \in Row /\ ~db[x].archived /\ db' = [db EXCEPT ![x] = ReleasedRow(db[x])]
      BY <2>2, ReleaseActs
    <3> DEFINE row == ReleasedRow(db[x])
    <3>3. row \in Row /\ row.assignee = NoUser /\ row.archived = db[x].archived
      BY <3>1 DEF ReleasedRow, Row, Column, Assignee
    <3> HIDE DEF row
    <3>5. db'[x] = row /\ \A t \in Ticket \ {x} : db'[t] = db[t]
      BY <1>0, <3>1 DEF row
    <3>6. db' \in [Ticket -> Entry]
      BY <3>1, <3>3 DEF Entry, row
    <3>7. db[x] \in Row /\ ~db[x].archived
      BY <3>1
    <3> QED
      BY <1>0, <1>4, <3>7, <3>3, <3>5, <3>6 DEF RowsStay, Effect
  <2> QED
    BY <1>s, <2>1, <2>2 DEF ServedRelease
<1> QED
  BY <1>0, <1>1, <1>2, <1>3, <1>4 DEF Call, Mutations
-----------------------------------------------------------------------------
(* Types *)

TypeInv ==
    /\ db \in [Ticket -> Entry]
    /\ keyOf \in [Ticket -> Key \cup {NoKey}]
    /\ creating \subseteq [from : Cli \cup {NoCli}, key : Key \cup {NoKey}]
    /\ Lates
    /\ Terminals
    /\ Sessions

LEMMA ElsewhereActs ==
    ASSUME db \in [Ticket -> Entry], NEW u \in User, NEW x \in Elsewhere, ElsewhereStep(u, x)
    PROVE  /\ db' \in [Ticket -> Entry]
           /\ \A t \in Ticket : db'[t] # db[t] => db[t] \in Row /\ db'[t] \in Row
<1>0. x \in Ticket
  BY CliAssumption
<1>1. ASSUME NEW row \in Row, db' = [db EXCEPT ![x] = row], db[x] \in Row
      PROVE  /\ db' \in [Ticket -> Entry]
             /\ \A t \in Ticket : db'[t] # db[t] => db[t] \in Row /\ db'[t] \in Row
  BY <1>0, <1>1 DEF Entry
<1>2. CASE Server!Archive(u, {x})
  <2>1. /\ db[x] \in Row
        /\ db' = [t \in Ticket |-> IF t \in {x} THEN [db[t] EXCEPT !.archived = TRUE] ELSE db[t]]
    BY <1>2, SameRows DEF Server!Archive
  <2>2. [db[x] EXCEPT !.archived = TRUE] \in Row
    BY <2>1 DEF Row
  <2>3. db' = [db EXCEPT ![x] = [db[x] EXCEPT !.archived = TRUE]]
    BY <1>0, <2>1
  <2> QED
    BY <1>1, <2>1, <2>2, <2>3
<1>3. CASE Server!Unarchive(u, x)
  <2>1. db[x] \in Row /\ db' = [db EXCEPT ![x] = [db[x] EXCEPT !.archived = FALSE]]
    BY <1>3, SameRows DEF Server!Unarchive
  <2>2. [db[x] EXCEPT !.archived = FALSE] \in Row
    BY <2>1 DEF Row
  <2> QED
    BY <1>1, <2>1, <2>2
<1> QED
  BY <1>2, <1>3 DEF ElsewhereStep

LEMMA NewRow ==
    ASSUME NEW b \in Board
    PROVE  FreshRow("todo-0", NoUser, b) \in Row
  BY DEF FreshRow, Row, Column, Assignee

\* An insert: the new ticket has the key of the create.
LEMMA InsertActs ==
    ASSUME TypeInv, NEW w \in creating, CreateInserts(w)
    PROVE  \E t \in Ticket :
             /\ db[t] = Unused /\ db'[t] \in Row
             /\ keyOf'[t] \in {w.key, NoKey}
             /\ \A x \in Ticket \ {t} : db'[x] = db[x] /\ keyOf'[x] = keyOf[x]
             /\ db' \in [Ticket -> Entry] /\ keyOf' \in [Ticket -> Key \cup {NoKey}]
<1>1. PICK t \in Ticket, b \in Board :
        /\ db[t] = Unused
        /\ db' = [db EXCEPT ![t] = FreshRow("todo-0", NoUser, b)]
        /\ keyOf' = [keyOf EXCEPT ![t] = IF KeyStored THEN w.key ELSE NoKey]
  BY DEF CreateInserts
<1>2. w.key \in Key \cup {NoKey}
  BY DEF TypeInv
<1> DEFINE row == FreshRow("todo-0", NoUser, b)
           k == IF KeyStored THEN w.key ELSE NoKey
<1>3. row \in Row /\ row \in Entry /\ k \in {w.key, NoKey} /\ k \in Key \cup {NoKey}
  BY <1>2, NewRow DEF Entry
<1> HIDE DEF row, k
<1>4. db' = [db EXCEPT ![t] = row] /\ keyOf' = [keyOf EXCEPT ![t] = k]
  BY <1>1 DEF row, k
<1> QED
  BY <1>1, <1>3, <1>4 DEF TypeInv

\* What a step of a terminal does to the terminals and the sessions.
LEMMA ClientTyped ==
    ASSUME TypeInv, NEW c \in Cli, ClientStep(c)
    PROVE  Terminals' /\ Sessions'
<1>0. Terminals /\ Sessions
  BY DEF TypeInv
<1>r. ASSUME ~At(c, "idle"), Retries(c) \/ Fails(c) PROVE Terminals' /\ Sessions'
  <2>1. cli[c] \in Working
    BY <1>0, <1>r, IdleOrWorking
  <2> QED
    BY <1>0, <1>r, <2>1, RetriesTyped DEF Sessions
<1>1. CASE Unserved(c)
  BY <1>1, <1>r DEF Unserved
<1>2. CASE CreateTimesOut(c)
  BY <1>2, <1>r DEF CreateTimesOut, At
<1>3. CASE Answered(c)
  <2>1. \E code \in {200, 403, 404, 500} :
           Continues(c, code, db'[Request(c, cli[c]).ticket])
    BY <1>3 DEF Answered
  <2> QED
    BY <1>0, <1>3, <2>1, ContinuesTyped DEF Answered
<1>4. CASE AnswerLost(c)
  BY <1>4, <1>r DEF AnswerLost, At
<1>5. CASE TimesOut(c)
  BY <1>5, <1>r DEF TimesOut, At, Mutations
<1>6. CASE CreateLooksUp(c)
  <2>1. cli[c].pc = "create"
    BY <1>6 DEF CreateLooksUp, At
  <2>2. CASE cli' = [cli EXCEPT ![c].pc = "inserting"] /\ UNCHANGED session
    BY <1>0, <2>1, <2>2, InsertingTyped DEF Sessions
  <2>3. ASSUME NEW t \in Ticket, UNCHANGED session,
               cli' = [cli EXCEPT ![c].pc = "verifyCreate", ![c].ticket = t, ![c].attempt = 1]
        PROVE  Terminals' /\ Sessions'
    BY <1>0, <2>1, <2>3, CreatedTyped DEF Sessions
  <2>4. CASE Retries(c) \/ Fails(c)
    BY <1>r, <2>1, <2>4 DEF At
  <2> QED
    BY <1>6, <2>2, <2>3, <2>4 DEF CreateLooksUp, Keyed
<1> QED
  BY <1>1, <1>2, <1>3, <1>4, <1>5, <1>6 DEF ClientStep

\* What a step of a terminal does to the server.
LEMMA ClientActs ==
    ASSUME TypeInv, NEW c \in Cli, ClientStep(c)
    PROVE  /\ RowsStay /\ UNCHANGED keyOf /\ Lates'
           /\ \/ UNCHANGED creating
              \/ /\ creating = {} /\ Keyed(cli[c].key) = {} /\ UNCHANGED db
                 /\ creating' = {[from |-> c, key |-> cli[c].key]} /\ cli[c].key \in Key \cup {NoKey}
           /\ \E r : /\ Remember(r)
                     /\ r = NoRequest \/ r \in Call
                     /\ \A t \in Ticket : db'[t] # db[t] /\ r.ticket = t => Effect(r, t)'
<1>0. Terminals /\ Lates /\ db \in [Ticket -> Entry]
  BY DEF TypeInv
<1>s. ASSUME UNCHANGED <<db, keyOf>>, Lates', Remember(NoRequest),
             \/ UNCHANGED creating
             \/ /\ creating = {} /\ Keyed(cli[c].key) = {}
                /\ creating' = {[from |-> c, key |-> cli[c].key]} /\ cli[c].key \in Key \cup {NoKey}
      PROVE  /\ RowsStay /\ UNCHANGED keyOf /\ Lates'
             /\ \/ UNCHANGED creating
                \/ /\ creating = {} /\ Keyed(cli[c].key) = {} /\ UNCHANGED db
                   /\ creating' = {[from |-> c, key |-> cli[c].key]}
                   /\ cli[c].key \in Key \cup {NoKey}
             /\ \E r : /\ Remember(r)
                       /\ r = NoRequest \/ r \in Call
                       /\ \A t \in Ticket : db'[t] # db[t] /\ r.ticket = t => Effect(r, t)'
  BY <1>0, <1>s DEF RowsStay
<1>v. ASSUME NEW r, r = Request(c, cli[c]), Calling(c), NEW code, Served(r, code), UNCHANGED late,
             Remember(r)
      PROVE  /\ RowsStay /\ UNCHANGED keyOf /\ Lates'
             /\ UNCHANGED creating
             /\ \E q : /\ Remember(q)
                       /\ q = NoRequest \/ q \in Call
                       /\ \A t \in Ticket : db'[t] # db[t] /\ q.ticket = t => Effect(q, t)'
  <2>1. cli[c].pc \in Reads \cup Mutations /\ cli[c].pc # "create"
    BY <1>v DEF Calling, Reads, Mutations
  <2>2. Servable(r) /\ r.call # "create"
    BY <1>0, <1>v, <2>1, RequestServable
  <2>3. /\ RowsStay /\ UNCHANGED <<keyOf, creating>>
        /\ \A t \in Ticket : db'[t] # db[t] /\ r.ticket = t => Effect(r, t)'
    BY <1>0, <1>v, <2>2, ServedSteps
  <2> QED
    BY <1>0, <1>v, <2>2, <2>3 DEF Servable, Lates
<1>1. CASE Unserved(c)
  BY <1>0, <1>1, <1>s DEF Unserved, Lates
<1>2. CASE CreateTimesOut(c)
  BY <1>0, <1>2, <1>s DEF CreateTimesOut, Lates
<1>3. CASE Answered(c)
  BY <1>3, <1>v DEF Answered
<1>4. CASE AnswerLost(c)
  <2>1. Calling(c)
    BY <1>4 DEF AnswerLost, Calling
  <2> QED
    BY <1>4, <1>v, <2>1 DEF AnswerLost
<1>5. CASE TimesOut(c)
  <2>1. /\ cli[c].pc \in Mutations /\ late' = late \cup {Request(c, cli[c])}
        /\ UNCHANGED <<db, keyOf, creating>> /\ Remember(NoRequest)
    BY <1>5 DEF TimesOut
  <2>2. Servable(Request(c, cli[c])) /\ Request(c, cli[c]).call = cli[c].pc
    BY <1>0, <2>1, RequestServable
  <2>3. Lates'
    BY <1>0, <2>1, <2>2 DEF Lates, Servable
  <2> QED
    BY <1>s, <2>1, <2>3
<1>6. CASE CreateLooksUp(c)
  <2>1. cli[c].key \in Key \cup {NoKey}
    BY <1>0, <1>6, IdleOrWorking DEF CreateLooksUp, At, Working, Work
  <2>2. /\ UNCHANGED <<db, keyOf, late>> /\ Remember(NoRequest) /\ creating = {}
        /\ \/ UNCHANGED creating
           \/ Keyed(cli[c].key) = {} /\ creating' = creating \cup {[from |-> c, key |-> cli[c].key]}
    BY <1>6 DEF CreateLooksUp, MuFree
  <2>3. Lates'
    BY <1>0, <2>2 DEF Lates
  <2> QED
    BY <1>s, <2>1, <2>2, <2>3
<1> QED
  BY <1>1, <1>2, <1>3, <1>4, <1>5, <1>6 DEF ClientStep

LEMMA NextTypeInv == TypeInv /\ [Next]_vars => TypeInv'
<1> SUFFICES ASSUME TypeInv, [Next]_vars PROVE TypeInv'
  OBVIOUS
<1>0. /\ Terminals /\ Sessions /\ Lates /\ db \in [Ticket -> Entry]
      /\ keyOf \in [Ticket -> Key \cup {NoKey}]
      /\ creating \subseteq [from : Cli \cup {NoCli}, key : Key \cup {NoKey}]
  BY DEF TypeInv
<1>t. UNCHANGED cli => Terminals'
  BY <1>0 DEF Terminals
<1>s. UNCHANGED session => Sessions'
  BY <1>0 DEF Sessions
<1>l. late' \subseteq late => Lates'
  BY <1>0 DEF Lates
<1>1. CASE UNCHANGED vars
  BY <1>0, <1>1, <1>t, <1>s, <1>l DEF vars, TypeInv
<1>2. ASSUME NEW c \in Cli, NEW command \in Commands[c], Starts(c, command) PROVE TypeInv'
  BY <1>0, <1>2, <1>s, <1>l, StartsTyped DEF Starts, TypeInv
<1>3. ASSUME NEW c \in Cli, ClientStep(c) PROVE TypeInv'
  <2>1. Terminals' /\ Sessions'
    BY <1>3, ClientTyped
  <2>2. /\ RowsStay /\ UNCHANGED keyOf /\ Lates'
        /\ \/ UNCHANGED creating
           \/ /\ creating' = {[from |-> c, key |-> cli[c].key]} /\ cli[c].key \in Key \cup {NoKey}
    BY <1>3, ClientActs
  <2>3. creating' \subseteq [from : Cli \cup {NoCli}, key : Key \cup {NoKey}]
    BY <1>0, <2>2
  <2> QED
    BY <1>0, <2>1, <2>2, <2>3 DEF TypeInv, RowsStay
<1>4. ASSUME NEW c \in Cli, Interrupted(c) PROVE TypeInv'
  <2>1. Terminals'
    BY <1>0, <1>4, GoesOn DEF Interrupted
  <2> QED
    BY <1>0, <1>4, <1>s, <1>l, <2>1 DEF Interrupted, TypeInv
<1>5. ASSUME NEW r \in late, ServedLate(r) PROVE TypeInv'
  <2>1. RowsStay /\ UNCHANGED <<keyOf, creating>>
    BY <1>0, <1>5, ServedSteps DEF ServedLate, Lates
  <2>2. late' \subseteq late /\ UNCHANGED <<cli, session>>
    BY <1>5 DEF ServedLate
  <2> QED
    BY <1>0, <1>t, <1>s, <1>l, <2>1, <2>2 DEF TypeInv, RowsStay
<1>6. ASSUME NEW r \in late, LateCreateLooksUp(r) PROVE TypeInv'
  <2>1. r.key \in Key \cup {NoKey}
    BY <1>0 DEF Lates, Servable, Call
  <2>2. creating' \subseteq creating \cup {[from |-> NoCli, key |-> r.key]}
    BY <1>6 DEF LateCreateLooksUp
  <2>3. creating' \subseteq [from : Cli \cup {NoCli}, key : Key \cup {NoKey}]
    BY <1>0, <2>1, <2>2
  <2>4. late' \subseteq late /\ UNCHANGED <<db, keyOf, cli, session>>
    BY <1>6 DEF LateCreateLooksUp
  <2> QED
    BY <1>0, <1>t, <1>s, <1>l, <2>3, <2>4 DEF TypeInv
<1>w. ASSUME NEW w, creating' = creating \ {w}, UNCHANGED late,
             \/ UNCHANGED <<cli, session>>
             \/ Waiting(w) /\ (Retries(w.from) \/ Fails(w.from))
             \/ Waiting(w) /\ UNCHANGED session
                /\ \E t \in Ticket : cli' = [cli EXCEPT ![w.from].pc = "verifyCreate",
                                                        ![w.from].ticket = t, ![w.from].attempt = 1],
             db' \in [Ticket -> Entry], keyOf' \in [Ticket -> Key \cup {NoKey}]
      PROVE  TypeInv'
  <2>1. CASE UNCHANGED <<cli, session>>
    BY <1>0, <1>w, <1>t, <1>s, <1>l, <2>1 DEF TypeInv
  <2>2. CASE Waiting(w) /\ (Retries(w.from) \/ Fails(w.from))
    <3>1. w.from \in Cli /\ cli[w.from] \in Working
      BY <1>0, <2>2, IdleOrWorking DEF Waiting, At
    <3>2. Terminals' /\ UNCHANGED session
      BY <1>0, <2>2, <3>1, RetriesTyped
    <3> QED
      BY <1>0, <1>w, <1>s, <1>l, <3>2 DEF TypeInv
  <2>3. ASSUME NEW t \in Ticket, Waiting(w), UNCHANGED session,
               cli' = [cli EXCEPT ![w.from].pc = "verifyCreate", ![w.from].ticket = t,
                                  ![w.from].attempt = 1]
        PROVE  TypeInv'
    <3>1. w.from \in Cli /\ cli[w.from].pc \in {"create", "inserting"}
      BY <2>3 DEF Waiting, At
    <3>2. Terminals'
      BY <1>0, <2>3, <3>1, CreatedTyped
    <3> QED
      BY <1>0, <1>w, <1>s, <1>l, <2>3, <3>2 DEF TypeInv
  <2> QED
    BY <1>w, <2>1, <2>2, <2>3
<1>7. ASSUME NEW w \in creating, CreateInserts(w) PROVE TypeInv'
  <2>1. db' \in [Ticket -> Entry] /\ keyOf' \in [Ticket -> Key \cup {NoKey}]
    BY <1>7, InsertActs
  <2>2. /\ creating' = creating \ {w} /\ UNCHANGED late
        /\ \/ UNCHANGED <<cli, session>>
           \/ Waiting(w) /\ (Retries(w.from) \/ Fails(w.from))
           \/ Waiting(w) /\ UNCHANGED session
              /\ \E t \in Ticket : cli' = [cli EXCEPT ![w.from].pc = "verifyCreate",
                                                      ![w.from].ticket = t, ![w.from].attempt = 1]
    BY <1>7 DEF CreateInserts
  <2> QED
    BY <1>w, <2>1, <2>2
<1>8. ASSUME NEW w \in creating, CreateFails(w) PROVE TypeInv'
  <2>1. /\ creating' = creating \ {w} /\ UNCHANGED <<db, keyOf, late>>
        /\ UNCHANGED <<cli, session>> \/ (Waiting(w) /\ Retries(w.from))
    BY <1>8 DEF CreateFails
  <2> QED
    BY <1>0, <1>w, <2>1
<1>9. CASE Restart
  BY <1>0, <1>9, <1>t, <1>s, <1>l DEF Restart, TypeInv
<1>10. ASSUME NEW u \in User, NEW x \in Elsewhere, ElsewhereStep(u, x) PROVE TypeInv'
  <2>1. db' \in [Ticket -> Entry]
    BY <1>0, <1>10, ElsewhereActs
  <2> QED
    BY <1>0, <1>10, <1>t, <1>s, <1>l, <2>1 DEF ElsewhereStep, TypeInv
<1> QED
  BY <1>1, <1>2, <1>3, <1>4, <1>5, <1>6, <1>7, <1>8, <1>9, <1>10 DEF Next

LEMMA InitTypeInv == Init => TypeInv
<1> SUFFICES ASSUME Init PROVE TypeInv
  OBVIOUS
<1>1. FreshRows \subseteq Row
  <2>1. \A c \in NewColumn, a \in Assignee, b \in Board : FreshRow(c, a, b) \in Row
    BY ColumnAssumption DEF FreshRow, Row
  <2> QED
    BY <2>1 DEF FreshRows
<1>2. db \in [Ticket -> Entry]
  BY <1>1 DEF Init, Entry
<1> QED
  BY <1>2 DEF Init, TypeInv, Lates, Terminals, Sessions

THEOREM AlwaysTypeInv == Spec => []TypeInv
  BY InitTypeInv, NextTypeInv, PTL DEF Spec

\* Every variable of GobanCli has its type: no terminal makes more attempts
\* than it has, calls the server for a ticket that it does not have, or makes
\* a call that its command never makes.
THEOREM TypeCorrect == Spec => []TypeOK
<1>1. TypeInv => TypeOK
  <2> SUFFICES ASSUME TypeInv PROVE TypeOK
    OBVIOUS
  <2>1. ASSUME NEW c \in Cli, ~At(c, "idle")
        PROVE  /\ cli[c].pc \in Reads \cup Mutations \cup {"inserting"}
               /\ cli[c].attempt \in 1 .. MaxAttempts
               /\ cli[c].ticket = NoTicket => cli[c].pc \in {"create", "inserting"}
    BY <2>1, IdleOrWorking DEF TypeInv, Working, Work
  <2> QED
    BY <2>1 DEF TypeInv, TypeOK, Lates, Sessions
<1> QED
  BY <1>1, AlwaysTypeInv, PTL
-----------------------------------------------------------------------------
(* Repeated requests *)

\* The request that changed a ticket last, and may be repeated, still holds.
Lasts(t) == last[t] # NoRequest => last[t] \in Call /\ Effect(last[t], t)

Lasting == \A t \in Ticket : Lasts(t)

LEMMA Unchanged ==
    ASSUME NEW t, Lasts(t), last'[t] = last[t], db'[t] = db[t]
    PROVE  Lasts(t)'
  BY DEF Lasts, Effect

LEMMA Remembered ==
    ASSUME Lasting, NEW r, Remember(r), r = NoRequest \/ r \in Call,
           \A t \in Ticket : db'[t] # db[t] /\ r.ticket = t => Effect(r, t)'
    PROVE  Lasting'
<1> SUFFICES ASSUME NEW t \in Ticket PROVE Lasts(t)'
  BY DEF Lasting
<1>1. \/ last'[t] = NoRequest
      \/ last'[t] = IF db'[t] = db[t] THEN last[t]
                    ELSE IF r # NoRequest /\ r.ticket = t THEN r ELSE NoRequest
  BY DEF Remember
<1>4. CASE last'[t] = NoRequest
  BY <1>4 DEF Lasts
<1>2. CASE db'[t] = db[t]
  BY <1>1, <1>2, <1>4, Unchanged DEF Lasting
<1>3. CASE db'[t] # db[t]
  <2>1. CASE r # NoRequest /\ r.ticket = t
    <3>1. (last'[t] = r \/ last'[t] = NoRequest) /\ r \in Call /\ Effect(r, t)'
      BY <1>1, <1>3, <2>1
    <3> QED
      BY <3>1, <1>4 DEF Lasts, Effect
  <2>2. CASE ~(r # NoRequest /\ r.ticket = t)
    BY <1>1, <1>3, <2>2, <1>4 DEF Lasts
  <2> QED
    BY <2>1, <2>2
<1> QED
  BY <1>2, <1>3, <1>4

LEMMA NextLasting == TypeInv /\ Lasting /\ [Next]_vars => Lasting'
<1> SUFFICES ASSUME TypeInv, Lasting, [Next]_vars PROVE Lasting'
  OBVIOUS
<1>0. db \in [Ticket -> Entry] /\ Lates
  BY DEF TypeInv
<1>n. Remember(NoRequest) => Lasting'
  <2> SUFFICES ASSUME Remember(NoRequest), NEW t \in Ticket PROVE Lasts(t)'
    BY DEF Lasting
  <2>1. last'[t] = NoRequest \/ (last'[t] = last[t] /\ db'[t] = db[t])
    BY DEF Remember
  <2> QED
    BY <2>1, Unchanged DEF Lasting, Lasts
<1>1. CASE UNCHANGED vars
  BY <1>1, Unchanged DEF vars, Lasting
<1>2. ASSUME NEW c \in Cli, NEW command \in Commands[c], Starts(c, command) PROVE Lasting'
  BY <1>2, <1>n DEF Starts
<1>3. ASSUME NEW c \in Cli, ClientStep(c) PROVE Lasting'
  <2>1. PICK r : /\ Remember(r)
                 /\ r = NoRequest \/ r \in Call
                 /\ \A t \in Ticket : db'[t] # db[t] /\ r.ticket = t => Effect(r, t)'
    BY <1>3, ClientActs
  <2> QED
    BY <2>1, Remembered
<1>4. ASSUME NEW c \in Cli, Interrupted(c) PROVE Lasting'
  BY <1>4, <1>n DEF Interrupted
<1>5. ASSUME NEW r \in late, ServedLate(r) PROVE Lasting'
  <2>1. Remember(r) /\ Servable(r) /\ r.call # "create" /\ \E code : Served(r, code)
    BY <1>0, <1>5 DEF ServedLate, Lates
  <2>2. \A t \in Ticket : db'[t] # db[t] /\ r.ticket = t => Effect(r, t)'
    BY <1>0, <2>1, ServedSteps
  <2> QED
    BY <2>1, <2>2, Remembered DEF Servable
<1>6. ASSUME NEW r \in late, LateCreateLooksUp(r) PROVE Lasting'
  BY <1>6, <1>n DEF LateCreateLooksUp
<1>7. ASSUME NEW w \in creating, CreateInserts(w) \/ CreateFails(w) PROVE Lasting'
  BY <1>7, <1>n DEF CreateInserts, CreateFails
<1>8. CASE Restart
  BY <1>8, <1>n DEF Restart
<1>9. ASSUME NEW u \in User, NEW x \in Elsewhere, ElsewhereStep(u, x) PROVE Lasting'
  BY <1>9, <1>n DEF ElsewhereStep
<1> QED
  BY <1>1, <1>2, <1>3, <1>4, <1>5, <1>6, <1>7, <1>8, <1>9 DEF Next

\* A request whose effect is there is answered by the early return.
LEMMA Again ==
    ASSUME NEW r \in Call, NEW t \in Ticket, Effect(r, t), NEW code, Served(r, code)
    PROVE  UNCHANGED db /\ code = 200
<1>0. r.ticket = t /\ db[t] \in Row /\ Server!Exists(t)
  BY SameRows DEF Effect
<1>1. CASE r.call = "claim"
  <2>1. ServedClaim(r.user, t, code) /\ db[t].assignee = r.user
    BY <1>0, <1>1 DEF Served, Reads, Effect
  <2>2. ~Server!Claim(r.user, t)
    BY <2>1, ClaimActs
  <2> QED
    BY <1>0, <2>1, <2>2 DEF ServedClaim
<1>2. CASE r.call = "move"
  <2>1. /\ ServedMove(r.user, t, r.status, r.force, code)
        /\ ~db[t].archived /\ Status(db[t]) = r.status
    BY <1>0, <1>2 DEF Served, Reads, Effect
  <2>2. ~Server!Move(r.user, t, r.status, r.force)
    BY <2>1, MoveActs
  <2> QED
    BY <1>0, <2>1, <2>2 DEF ServedMove
<1>3. CASE r.call = "release"
  <2>1. ServedRelease(r.user, t, code) /\ ~db[t].archived /\ db[t].assignee = NoUser
    BY <1>0, <1>3 DEF Served, Reads, Effect
  <2>2. ~Server!Release(r.user, t)
    BY <2>1, ReleaseActs
  <2> QED
    BY <1>0, <2>1, <2>2 DEF ServedRelease
<1> QED
  BY <1>1, <1>2, <1>3 DEF Effect

\* A claim, move or release that has taken effect changes nothing when it is
\* served again, at once or late, and a terminal that repeats it gets the same
\* answer: for any commands, terminals and numbers of attempts.
THEOREM RepeatsStayHarmless == Spec => RepeatsAreHarmless
<1> DEFINE Harmless ==
      /\ \A c \in Cli :
           Calling(c) /\ last[cli[c].ticket] = Request(c, cli[c]) /\ Answered(c) =>
               db' = db /\ cli'[c].pc = Verifier[cli[c].pc]
      /\ \A r \in late : r.call # "create" /\ last[r.ticket] = r /\ ServedLate(r) => db' = db
<1>1. Init => Lasting
  BY DEF Init, Lasting, Lasts
<1>2. ASSUME TypeInv, Lasting PROVE Harmless
  <2>1. ASSUME NEW c \in Cli, Calling(c), last[cli[c].ticket] = Request(c, cli[c]), Answered(c)
        PROVE  db' = db /\ cli'[c].pc = Verifier[cli[c].pc]
    <3> DEFINE r == Request(c, cli[c])
               t == cli[c].ticket
    <3>1. cli[c] \in Working /\ cli[c].pc \in Reads \cup Mutations
          /\ cli[c].pc \notin {"create", "inserting"}
      BY <1>2, <2>1, IdleOrWorking DEF TypeInv, Calling, At, Reads, Mutations
    <3>2. t \in Ticket /\ cli \in [Cli -> Working \cup {Idle}]
      BY <1>2, <3>1 DEF Working, Work, TypeInv, Terminals
    <3>3. r \in Call /\ r.call = cli[c].pc /\ r.ticket = t
      BY <1>2, <3>1, RequestServable DEF TypeInv, Servable
    <3> HIDE DEF r
    <3>4. last[t] = r
      BY <2>1 DEF r
    <3>5. Effect(r, t)
      BY <1>2, <3>2, <3>3, <3>4, CallAssumption DEF Lasting, Lasts
    <3>6. PICK code : Served(r, code) /\ Continues(c, code, db'[r.ticket])
      BY <2>1 DEF Answered, r
    <3>7. UNCHANGED db /\ code = 200
      BY <3>2, <3>3, <3>5, <3>6, Again
    <3>8. Succeeds(c, db'[r.ticket]) /\ cli[c].pc \in {"claim", "move", "release"}
      BY <3>3, <3>5, <3>6, <3>7 DEF Continues, Effect
    <3>9. cli' = [cli EXCEPT ![c].pc = Verifier[cli[c].pc], ![c].attempt = 1,
                             ![c].terminal = cli[c].pc = "claim" /\ Terminal(db'[r.ticket])]
      BY <3>8 DEF Succeeds, Reads
    <3>10. cli'[c].pc = Verifier[cli[c].pc]
      BY <3>1, <3>2, <3>9 DEF Working, Work
    <3> QED
      BY <3>7, <3>10
  <2>2. ASSUME NEW r \in late, r.call # "create", last[r.ticket] = r, ServedLate(r) PROVE db' = db
    <3>1. r \in Call /\ r.ticket \in Ticket
      BY <1>2, <2>2 DEF TypeInv, Lates, Servable
    <3>2. Effect(r, r.ticket)
      BY <1>2, <2>2, <3>1, CallAssumption DEF Lasting, Lasts
    <3> QED
      BY <2>2, <3>1, <3>2, Again DEF ServedLate
  <2> QED
    BY <2>1, <2>2
<1>3. TypeInv /\ Lasting => [Harmless]_vars
  BY <1>2
<1> HIDE DEF Harmless
<1>4. Spec => [][Harmless]_vars
  BY <1>1, <1>3, NextLasting, AlwaysTypeInv, PTL DEF Spec
<1> QED
  BY <1>4 DEF Harmless, RepeatsAreHarmless
-----------------------------------------------------------------------------
(* Idempotency keys *)

LEMMA KeyedRows ==
    \A k :
      /\ Keyed(k) = {t \in Ticket : /\ k # NoKey /\ keyOf[t] = k
                                    /\ db[t] \in Row /\ ~db[t].archived}
      /\ Keyed(k)' = {t \in Ticket : /\ k # NoKey /\ keyOf'[t] = k
                                     /\ db'[t] \in Row /\ ~db'[t].archived}
<1>1. Server!Row = Row
  BY DEF Server!Row, Row, Server!Assignee, Assignee, Server!Column, Column
<1> QED
  BY <1>1 DEF Keyed, Server!Exists

\* A create that is about to insert holds mu alone, and whoever has its key by
\* then came out of the archive.
Looked(w) == Keyed(w.key) \subseteq restored

OneCreate == \A w, v \in creating : w = v

KeyInv == OneTicketPerKey /\ OneCreate /\ \A w \in creating : Looked(w)

\* A ticket that has a key on the boards after a step in which no key is given
\* had it there before, or was restored by the step.
LEMMA KeysKept ==
    ASSUME NEW r, Remember(r), UNCHANGED keyOf, keyOf \in [Ticket -> Key \cup {NoKey}],
           \A t \in Ticket : db'[t] # db[t] => db[t] \in Row /\ db'[t] \in Row
    PROVE  restored \subseteq restored' /\ \A k : Keyed(k)' \subseteq Keyed(k) \cup restored'
<1>1. restored' = restored \cup {t \in Ticket : /\ keyOf[t] # NoKey
                                                /\ db[t] # db'[t]
                                                /\ db[t].archived /\ ~db'[t].archived}
  BY DEF Remember
<1>2. ASSUME NEW k, NEW t \in Ticket, t \in Keyed(k)', t \notin restored' PROVE t \in Keyed(k)
  <2>1. k # NoKey /\ keyOf[t] = k /\ db'[t] \in Row /\ ~db'[t].archived
    BY <1>2, KeyedRows
  <2>2. CASE db'[t] = db[t]
    BY <2>1, <2>2, KeyedRows
  <2>3. CASE db'[t] # db[t]
    <3>1. db[t] \in Row /\ ~db[t].archived
      BY <1>1, <1>2, <2>1, <2>3
    <3> QED
      BY <2>1, <3>1, KeyedRows
  <2> QED
    BY <2>2, <2>3
<1>3. \A k : Keyed(k)' \subseteq Ticket
  BY KeyedRows
<1> QED
  BY <1>1, <1>2, <1>3

LEMMA OneKept ==
    ASSUME OneTicketPerKey, UNCHANGED keyOf, restored \subseteq restored',
           \A k : Keyed(k)' \subseteq Keyed(k) \cup restored'
    PROVE  OneTicketPerKey'
<1> SUFFICES ASSUME NEW t \in Ticket, NEW o \in Ticket, t # o,
                    NEW k, k = keyOf'[t], {t, o} \subseteq Keyed(k)',
                    t \notin restored', o \notin restored'
             PROVE  FALSE
  BY DEF OneTicketPerKey
<1>1. {t, o} \subseteq Keyed(keyOf[t])
  BY KeyedRows
<1> QED
  BY <1>1 DEF OneTicketPerKey

\* A step that gives no key and begins no create.
LEMMA NoNewKey ==
    ASSUME TypeInv, KeyInv, NEW r, Remember(r), UNCHANGED keyOf, creating' \subseteq creating,
           \A t \in Ticket : db'[t] # db[t] => db[t] \in Row /\ db'[t] \in Row
    PROVE  KeyInv'
<1>1. restored \subseteq restored' /\ \A k : Keyed(k)' \subseteq Keyed(k) \cup restored'
  BY KeysKept DEF TypeInv
<1>2. OneTicketPerKey'
  BY <1>1, OneKept DEF KeyInv
<1>3. ASSUME NEW w \in creating' PROVE Keyed(w.key)' \subseteq restored'
  BY <1>1, <1>3 DEF KeyInv, Looked
<1> QED
  BY <1>2, <1>3 DEF KeyInv, OneCreate, Looked

\* mu is free, and no ticket has the key.
LEMMA KeyLookedUp ==
    ASSUME TypeInv, KeyInv, Remember(NoRequest), UNCHANGED <<db, keyOf>>,
           NEW w, creating' = {w}, Keyed(w.key) = {}
    PROVE  KeyInv'
<1>1. restored \subseteq restored' /\ \A k : Keyed(k)' \subseteq Keyed(k) \cup restored'
  BY KeysKept DEF TypeInv
<1>2. OneTicketPerKey'
  BY <1>1, OneKept DEF KeyInv
<1>3. Keyed(w.key)' \subseteq restored'
  BY <1>1
<1> QED
  BY <1>2, <1>3 DEF KeyInv, OneCreate, Looked

\* The new ticket has the key that was looked up under the same mu.
LEMMA KeyInserted ==
    ASSUME TypeInv, KeyInv, NEW w \in creating, CreateInserts(w)
    PROVE  KeyInv'
<1>1. PICK n \in Ticket : /\ db[n] = Unused /\ db'[n] \in Row
                          /\ keyOf'[n] \in {w.key, NoKey}
                          /\ \A x \in Ticket \ {n} : db'[x] = db[x] /\ keyOf'[x] = keyOf[x]
  BY InsertActs
<1>2. creating' = {} /\ restored \subseteq restored'
  BY DEF CreateInserts, KeyInv, OneCreate, Remember
<1>3. ASSUME NEW t \in Ticket \ {n}, NEW k, t \in Keyed(k)' PROVE t \in Keyed(k)
  BY <1>1, <1>3, KeyedRows
<1>4. Keyed(w.key) \subseteq restored
  BY DEF KeyInv, Looked
\* The new ticket and another one.
<1>5. ASSUME NEW o \in Ticket \ {n}, NEW k, n \in Keyed(k)', o \in Keyed(k)' PROVE o \in restored'
  <2>1. k = w.key
    BY <1>1, <1>5, KeyedRows
  <2> QED
    BY <1>2, <1>3, <1>4, <1>5, <2>1
<1>6. OneTicketPerKey'
  <2> SUFFICES ASSUME NEW t \in Ticket, NEW o \in Ticket, t # o,
                      NEW k, k = keyOf'[t], t \in Keyed(k)', o \in Keyed(k)'
               PROVE  t \in restored' \/ o \in restored'
    BY DEF OneTicketPerKey
  <2>1. CASE t = n
    BY <1>5, <2>1
  <2>2. CASE o = n
    BY <1>5, <2>2
  <2>3. CASE t # n /\ o # n
    <3>1. {t, o} \subseteq Keyed(keyOf[t])
      BY <1>1, <1>3, <2>3 DEF KeyInv
    <3> QED
      BY <1>2, <3>1 DEF KeyInv, OneTicketPerKey
  <2> QED
    BY <2>1, <2>2, <2>3
<1> QED
  BY <1>2, <1>6 DEF KeyInv, OneCreate

LEMMA NextKeyInv == TypeInv /\ KeyInv /\ [Next]_vars => KeyInv'
<1> SUFFICES ASSUME TypeInv, KeyInv, [Next]_vars PROVE KeyInv'
  OBVIOUS
<1>0. db \in [Ticket -> Entry] /\ Lates
  BY DEF TypeInv
<1>s. ASSUME UNCHANGED <<db, keyOf>>, creating' \subseteq creating, Remember(NoRequest) PROVE KeyInv'
  BY <1>s, NoNewKey
<1>1. CASE UNCHANGED vars
  <2>1. \A k : Keyed(k)' = Keyed(k)
    BY <1>1, KeyedRows DEF vars
  <2>2. UNCHANGED <<keyOf, restored, creating>>
    BY <1>1 DEF vars
  <2>3. OneTicketPerKey'
    BY <2>1, <2>2 DEF KeyInv, OneTicketPerKey
  <2> QED
    BY <2>1, <2>2, <2>3 DEF KeyInv, OneCreate, Looked
<1>2. ASSUME NEW c \in Cli, NEW command \in Commands[c], Starts(c, command) PROVE KeyInv'
  BY <1>2, <1>s DEF Starts
<1>3. ASSUME NEW c \in Cli, ClientStep(c) PROVE KeyInv'
  <2>1. /\ RowsStay /\ UNCHANGED keyOf
        /\ \/ UNCHANGED creating
           \/ /\ creating = {} /\ Keyed(cli[c].key) = {} /\ UNCHANGED db
              /\ creating' = {[from |-> c, key |-> cli[c].key]}
    BY <1>3, ClientActs
  <2>2. CASE UNCHANGED creating
    <3>1. PICK r : Remember(r)
      BY <1>3, ClientActs
    <3> QED
      BY <2>1, <2>2, <3>1, NoNewKey DEF RowsStay
  <2>3. CASE creating' # creating
    <3>1. Remember(NoRequest)
      <4>1. CreateLooksUp(c)
        <5>1. /\ ~Unserved(c) /\ ~CreateTimesOut(c) /\ ~TimesOut(c)
              /\ \A r, code : ~Served(r, code)
          BY <2>3 DEF Unserved, CreateTimesOut, TimesOut, Served
        <5>2. ~Answered(c) /\ ~AnswerLost(c)
          BY <5>1 DEF Answered, AnswerLost
        <5> QED
          BY <1>3, <5>1, <5>2 DEF ClientStep
      <4> QED
        BY <4>1 DEF CreateLooksUp
    <3> DEFINE w == [from |-> c, key |-> cli[c].key]
    <3>2. w.key = cli[c].key
      OBVIOUS
    <3> HIDE DEF w
    <3>3. Keyed(w.key) = {} /\ creating' = {w} /\ UNCHANGED <<db, keyOf>>
      BY <2>1, <2>3, <3>2 DEF w
    <3> QED
      BY <3>1, <3>3, KeyLookedUp
  <2> QED
    BY <2>2, <2>3
<1>4. ASSUME NEW c \in Cli, Interrupted(c) PROVE KeyInv'
  BY <1>4, <1>s DEF Interrupted
<1>5. ASSUME NEW r \in late, ServedLate(r) PROVE KeyInv'
  <2>1. Remember(r) /\ Servable(r) /\ r.call # "create" /\ \E code : Served(r, code)
    BY <1>0, <1>5 DEF ServedLate, Lates
  <2>2. RowsStay /\ UNCHANGED <<keyOf, creating>>
    BY <1>0, <2>1, ServedSteps
  <2> QED
    BY <2>1, <2>2, NoNewKey DEF RowsStay
<1>6. ASSUME NEW r \in late, LateCreateLooksUp(r) PROVE KeyInv'
  <2>1. /\ creating = {} /\ UNCHANGED <<db, keyOf>> /\ Remember(NoRequest)
        /\ \/ creating' = {}
           \/ Keyed(r.key) = {} /\ creating' = {[from |-> NoCli, key |-> r.key]}
    BY <1>6 DEF LateCreateLooksUp, MuFree
  <2>2. CASE creating' = {}
    BY <1>s, <2>1, <2>2
  <2>3. CASE creating' # {}
    <3> DEFINE w == [from |-> NoCli, key |-> r.key]
    <3>1. w.key = r.key
      OBVIOUS
    <3> HIDE DEF w
    <3>2. Keyed(w.key) = {} /\ creating' = {w}
      BY <2>1, <2>3, <3>1 DEF w
    <3> QED
      BY <2>1, <3>2, KeyLookedUp
  <2> QED
    BY <2>2, <2>3
<1>7. ASSUME NEW w \in creating, CreateInserts(w) PROVE KeyInv'
  BY <1>7, KeyInserted
<1>8. ASSUME NEW w \in creating, CreateFails(w) PROVE KeyInv'
  BY <1>8, <1>s DEF CreateFails
<1>9. CASE Restart
  BY <1>9, <1>s DEF Restart
<1>10. ASSUME NEW u \in User, NEW x \in Elsewhere, ElsewhereStep(u, x) PROVE KeyInv'
  <2>1. \A t \in Ticket : db'[t] # db[t] => db[t] \in Row /\ db'[t] \in Row
    BY <1>0, <1>10, ElsewhereActs
  <2>2. UNCHANGED <<keyOf, creating>> /\ Remember(NoRequest)
    BY <1>10 DEF ElsewhereStep
  <2> QED
    BY <2>1, <2>2, NoNewKey
<1> QED
  BY <1>1, <1>2, <1>3, <1>4, <1>5, <1>6, <1>7, <1>8, <1>9, <1>10 DEF Next

\* No two tickets on the boards have the same idempotency key, however many
\* terminals, tries, late creates and restarts there are, unless one of them
\* was restored from the archive: the lookup and the insert of a create are
\* under one mu.
THEOREM KeysAreUnique == Spec => []OneTicketPerKey
<1>1. Init => KeyInv
  <2> SUFFICES ASSUME Init PROVE KeyInv
    OBVIOUS
  <2>1. creating = {} /\ \A t \in Ticket : Keyed(keyOf[t]) = {}
    BY KeyedRows DEF Init
  <2> QED
    BY <2>1 DEF KeyInv, OneTicketPerKey, OneCreate
<1>2. KeyInv => OneTicketPerKey
  BY DEF KeyInv
<1> QED
  BY <1>1, <1>2, AlwaysTypeInv, NextKeyInv, PTL DEF Spec
-----------------------------------------------------------------------------
=============================================================================
