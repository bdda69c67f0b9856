------------------------------ MODULE GobanCli ------------------------------
(***************************************************************************)
(* The commands of goban-cli over a network that loses answers and delays  *)
(* requests: claim, move, release, the session commands, batch and create. *)
(* The server they talk to is TicketBoard, whose requests happen at one    *)
(* instant (TicketService implements it), and the creation of tickets with *)
(* idempotency keys, whose lookup and insert are two steps under mu.       *)
(*                                                                         *)
(* A terminal runs one command at a time, a sequence of HTTP calls each of *)
(* which is attempted up to MaxAttempts times.  An attempt that timed out  *)
(* may still be served: late holds such requests.                          *)
(***************************************************************************)
EXTENDS Tickets

CONSTANTS
    Cli,          \* terminals
    UserOf,       \* the user whose token and session file a terminal has
    Commands,     \* per terminal, the commands that are given there
    Elsewhere,    \* tickets that are archived and restored elsewhere
    Key,          \* idempotency keys
    MaxAttempts,  \* retry.max_attempts
    KeyStored,    \* does the store keep the keys?  SQLite does
    MaxLate,      \* bound on the requests that are served late
    NoTicket, NoStatus, NoKey, NoCli, NoRequest

ASSUME CliAssumption ==
    /\ UserOf \in [Cli -> User]
    /\ Elsewhere \subseteq Ticket
    /\ MaxAttempts \in Nat \ {0}
    /\ MaxLate \in Nat
    /\ KeyStored \in BOOLEAN

ASSUME NamesAssumption == NoTicket \notin Ticket

VARIABLES
    db,         \* the tickets
    keyOf,      \* the column idempotency_key
    creating,   \* creates between lookup and insert, which hold handlers.mu
    late,       \* requests that nobody waits for any more
    cli,        \* per terminal, the command that runs
    session,    \* per user, the ticket that session.json names
    restored,   \* tickets with a key that were taken out of the archive
    last        \* per ticket, the request that changed it last and may be repeated

vars == <<db, keyOf, creating, late, cli, session, restored, last>>

\* The activity log has the column of a ticket for its newest entry.
Server == INSTANCE TicketBoard
          WITH audit <- [t \in Ticket |-> IF db[t] \in Row THEN db[t].column ELSE "none"]

Ops == {"claim", "move", "release", "session", "batch", "create"}

\* What is typed: release and the session commands may name no ticket, only
\* batch-done and batch-cancel name several, and every move has a status that
\* ValidateStatus lets through.
Command == {command \in [op: Ops, tickets: SUBSET Ticket, status: VALID_STATUSES \cup {NoStatus},
                         force: BOOLEAN, auto: BOOLEAN, key: Key \cup {NoKey}] :
              /\ command.op = "create" => command.tickets = {}
              /\ command.op # "batch" => \A t, o \in command.tickets : t = o
              /\ command.op \in {"move", "session", "batch"} => command.status # NoStatus}

ASSUME CommandAssumption == \A c \in Cli : Commands[c] \subseteq Command

Reads == {"get", "verifyClaim", "verifyMove", "verifyRelease", "verifyCreate"}
Mutations == {"claim", "move", "release", "create"}

Idle == [pc |-> "idle"]

\* A call as the server sees it.
Call == [user: User, call: Reads \cup Mutations, ticket: Ticket \cup {NoTicket},
         status: VALID_STATUSES \cup {NoStatus}, force: BOOLEAN, key: Key \cup {NoKey}]

ASSUME CallAssumption == NoRequest \notin Call

At(c, pc) == cli[c].pc = pc

Terminal(row) == Status(row) \in TERMINAL_STATUSES

\* The call that a terminal with state k is making.
Request(c, k) ==
    [user |-> UserOf[c], call |-> k.pc, ticket |-> k.ticket,
     status |-> IF k.pc = "move" THEN k.status ELSE NoStatus,
     force |-> k.pc = "move" /\ k.force, key |-> k.key]

\* The mutations that may be served again.
Repeatable(k, l) == l \cup {Request(c, k[c]) : c \in {x \in Cli : k[x].pc \in Mutations}}

\* History.  r is the request that was served, if any.
Remember(r) ==
    /\ restored' = restored \cup {t \in Ticket : /\ keyOf[t] # NoKey
                                                 /\ db[t] # db'[t]
                                                 /\ db[t].archived /\ ~db'[t].archived}
    /\ last' = [t \in Ticket |->
                 LET by == IF db'[t] = db[t] THEN last[t]
                           ELSE IF r # NoRequest /\ r.ticket = t THEN r ELSE NoRequest
                 IN  IF by \in Repeatable(cli', late') THEN by ELSE NoRequest]

Init ==
    /\ db \in [Ticket -> FreshRows \cup {Unused, Deleted}]
    /\ keyOf = [t \in Ticket |-> NoKey]
    /\ creating = {}
    /\ late = {}
    /\ cli = [c \in Cli |-> Idle]
    /\ session = [u \in User |-> NoTicket]
    /\ restored = {}
    /\ last = [t \in Ticket |-> NoRequest]
-----------------------------------------------------------------------------
(* The server.  The code of an answer is 200, 403 for every refusal, 404 or *)
(* 500; a ticket that does not exist is a 500 of the three services.        *)

\* Any error of the store is told as a missing ticket.
ServedGet(t, code) ==
    /\ code \in IF Server!Exists(t) THEN {200, 404} ELSE {404}
    /\ UNCHANGED db

ServedClaim(u, t, code) ==
    \/ code = 200 /\ Server!Claim(u, t)
    \/ /\ code = IF ~Server!Exists(t) THEN 500 ELSE IF db[t].assignee = u THEN 200 ELSE 403
       /\ Server!Exists(t) => db[t].assignee = u \/ ~CanClaim(u, db[t])
       /\ UNCHANGED db

ServedMove(u, t, s, force, code) ==
    \/ code = 200 /\ Server!Move(u, t, s, force)
    \/ /\ Server!Exists(t) /\ ~db[t].archived =>
            Status(db[t]) = s \/ ~CanMove(u, db[t]) \/ ~IsValidTransition(u, db[t], force)
       /\ code = CASE ~Server!Exists(t) -> 500
                   [] Server!Exists(t) /\ ~db[t].archived /\ Status(db[t]) = s -> 200
                   [] OTHER -> 403
       /\ UNCHANGED db

\* The right is asked for before the early return.
ServedReleaseMutant(u, t, code) ==
    \/ code = 200 /\ Server!Release(u, t)
    \/ /\ Server!Exists(t) /\ ~db[t].archived => ~CanRelease(u, db[t])
       /\ code = IF Server!Exists(t) THEN 403 ELSE 500
       /\ UNCHANGED db

\* An unassigned ticket is released already, whoever asks.
ServedRelease(u, t, code) ==
    \/ code = 200 /\ Server!Release(u, t)
    \/ /\ Server!Exists(t) /\ ~db[t].archived =>
            db[t].assignee = NoUser \/ ~CanRelease(u, db[t])
       /\ code = CASE ~Server!Exists(t) -> 500
                   [] Server!Exists(t) /\ ~db[t].archived /\ db[t].assignee = NoUser -> 200
                   [] OTHER -> 403
       /\ UNCHANGED db

Served(r, code) ==
    /\ CASE r.call \in Reads -> ServedGet(r.ticket, code)
         [] r.call = "claim" -> ServedClaim(r.user, r.ticket, code)
         [] r.call = "move" -> ServedMove(r.user, r.ticket, r.status, r.force, code)
         [] r.call = "release" -> ServedRelease(r.user, r.ticket, code)
    /\ UNCHANGED <<keyOf, creating>>

\* The tickets a create with key k is answered with.
Keyed(k) == {t \in Ticket : k # NoKey /\ keyOf[t] = k /\ Server!Exists(t) /\ ~db[t].archived}
-----------------------------------------------------------------------------
(* The commands.  "end" is the end of the work on a ticket. *)

\* A batch goes on with its next ticket, whatever became of this one.
Proceeds(c) ==
    IF cli[c].rest = {}
    THEN cli' = [cli EXCEPT ![c] = Idle]
    ELSE \E t \in cli[c].rest :
           cli' = [cli EXCEPT ![c] = [cli[c] EXCEPT !.pc = "get", !.ticket = t, !.rest = @ \ {t},
                                                    !.attempt = 1, !.terminal = FALSE]]

Goes(c, pc) ==
    IF pc = "end" THEN Proceeds(c)
    ELSE cli' = [cli EXCEPT ![c].pc = pc, ![c].attempt = 1]

Fails(c) == Proceeds(c) /\ UNCHANGED session

\* Every failure is worth another attempt.
RetriesMutant(c) ==
    cli' = [cli EXCEPT ![c].pc = IF @ = "inserting" THEN "create" ELSE @] /\ UNCHANGED session

\* One attempt too many.
RetriesOnceMore(c) ==
    IF cli[c].attempt <= MaxAttempts
    THEN /\ cli' = [cli EXCEPT ![c].attempt = @ + 1,
                               ![c].pc = IF @ = "inserting" THEN "create" ELSE @]
         /\ UNCHANGED session
    ELSE Fails(c)

\* The next attempt of the same call, if there is one left.
Retries(c) ==
    IF cli[c].attempt < MaxAttempts
    THEN /\ cli' = [cli EXCEPT ![c].attempt = @ + 1,
                               ![c].pc = IF @ = "inserting" THEN "create" ELSE @]
         /\ UNCHANGED session
    ELSE Fails(c)

\* What follows the first look at the ticket, per command.
claimCmd(row) ==
    IF row.assignee # NoUser /\ row.column = "inprogress-0" THEN "end" ELSE "claim"

moveCmd(k, row) ==
    IF row.assignee = NoUser /\ k.auto THEN "claim"
    ELSE IF Terminal(row) /\ ~k.force THEN "end" ELSE "move"

releaseCmd(u, row) == IF row.assignee = u THEN "release" ELSE "end"

processSingleMove(k, u, row) ==
    IF row.assignee = NoUser THEN "claim"
    ELSE IF row.assignee = u \/ k.force THEN "move" ELSE "end"

AfterGet(k, u, row) ==
    CASE k.op = "claim" -> claimCmd(row)
      [] k.op = "move" -> moveCmd(k, row)
      [] k.op = "release" -> releaseCmd(u, row)
      [] k.op = "batch" -> processSingleMove(k, u, row)

\* What follows a verified claim.  terminal is about the row that the claim
\* was answered with.
AfterClaim(k) ==
    CASE k.op = "claim" -> IF k.status = NoStatus THEN "end" ELSE "move"
      [] k.op = "move" -> IF k.terminal /\ ~k.force THEN "end" ELSE "move"
      [] k.op = "batch" -> "move"

\* Statuses that end the work on a ticket.
Ending == {"DONE", "CANCELLED", "TODO", "BACKLOG"}

\* session.json after a verified call.  A move that ends the work on any
\* ticket clears it, a release only if it names the ticket; a batch never does.
SessionAfter(k, u) ==
    CASE k.pc = "verifyClaim" /\ k.op # "batch" -> k.ticket
      [] k.pc = "verifyMove" /\ k.op # "batch" /\ k.status \in Ending -> NoTicket
      [] k.pc = "verifyRelease" /\ session[u] = k.ticket -> NoTicket
      [] OTHER -> session[u]

\* Does the row show what the verified call should have done?
Verified(k, u, row) ==
    CASE k.pc = "verifyClaim" -> row.assignee = u
      [] k.pc = "verifyMove" -> row.column = StatusToColumnID[k.status]
      [] k.pc = "verifyRelease" -> row.assignee = NoUser
      [] k.pc = "verifyCreate" -> TRUE

Verifier == [claim |-> "verifyClaim", move |-> "verifyMove", release |-> "verifyRelease"]

\* The answer 200, with the row.
Succeeds(c, row) ==
    LET k == cli[c]
        u == UserOf[c]
    IN  CASE k.pc = "get" -> Goes(c, AfterGet(k, u, row)) /\ UNCHANGED session
          [] k.pc \in {"claim", "move", "release"} ->
               /\ cli' = [cli EXCEPT ![c].pc = Verifier[k.pc], ![c].attempt = 1,
                                     ![c].terminal = k.pc = "claim" /\ Terminal(row)]
               /\ UNCHANGED session
          [] k.pc \in Reads \ {"get"} ->
               IF Verified(k, u, row)
               THEN /\ Goes(c, IF k.pc = "verifyClaim" THEN AfterClaim(k) ELSE "end")
                    /\ session' = [session EXCEPT ![u] = SessionAfter(k, u)]
               ELSE Fails(c)

\* Of the answers of a handler only a 500 is asked again.
Continues(c, code, row) ==
    CASE code = 200 -> Succeeds(c, row)
      [] code = 500 -> Retries(c)
      [] OTHER -> Fails(c)

\* A command is typed.
Starts(c, command) ==
    /\ At(c, "idle")
    /\ LET named == IF command.op \in {"release", "session"} /\ command.tickets = {}
                    THEN {session[UserOf[c]]} \ {NoTicket}
                    ELSE command.tickets
           pc == CASE command.op = "session" -> "move"
                   [] command.op = "create" -> "create"
                   [] OTHER -> "get"
       IN  \E t \in IF command.op = "create" THEN {NoTicket} ELSE named :
             cli' = [cli EXCEPT ![c] =
                      [pc |-> pc, op |-> command.op, ticket |-> t, rest |-> named \ {t},
                       status |-> command.status, force |-> command.force, auto |-> command.auto,
                       key |-> command.key, attempt |-> 1, terminal |-> FALSE]]
    /\ UNCHANGED <<db, keyOf, creating, late, session>>
    /\ Remember(NoRequest)

Calling(c) == cli[c].pc \in Reads \cup {"claim", "move", "release"}

\* A call is served and its answer arrives.
Answered(c) ==
    /\ Calling(c)
    /\ LET r == Request(c, cli[c])
       IN  /\ \E code \in {200, 403, 404, 500} :
                Served(r, code) /\ Continues(c, code, db'[r.ticket])
           /\ UNCHANGED late
           /\ Remember(r)

\* A call is served and its answer is lost.  Some errors of the network are
\* known as such and retried.
AnswerLost(c) ==
    /\ cli[c].pc \in {"claim", "move", "release"}
    /\ LET r == Request(c, cli[c])
       IN  /\ \E code \in {200, 403, 404, 500} : Served(r, code)
           /\ Retries(c) \/ Fails(c)
           /\ UNCHANGED late
           /\ Remember(r)

\* The call is not served: the network or the server fails before, or there
\* is no body left to send, which the first attempt has read; or the server's
\* rate limiter answers 429, which is retried like a 500.
Unserved(c) ==
    /\ ~At(c, "idle")
    /\ ~At(c, "inserting")
    /\ Retries(c) \/ Fails(c)
    /\ UNCHANGED <<db, keyOf, creating, late>>
    /\ Remember(NoRequest)

\* The client's timeout ends an attempt that will be served.
TimesOut(c) ==
    /\ cli[c].pc \in Mutations
    /\ late' = late \cup {Request(c, cli[c])}
    /\ Cardinality(late') <= MaxLate
    /\ Retries(c)
    /\ UNCHANGED <<db, keyOf, creating>>
    /\ Remember(NoRequest)

\* A request is served that nobody waits for.
ServedLate(r) ==
    /\ r.call # "create"
    /\ \E code \in {200, 403, 404, 500} : Served(r, code)
    /\ late' = late \ {r}
    /\ UNCHANGED <<cli, session>>
    /\ Remember(r)

\* The process is interrupted.
Interrupted(c) ==
    /\ ~At(c, "idle")
    /\ cli' = [cli EXCEPT ![c] = Idle]
    /\ UNCHANGED <<db, keyOf, creating, late, session>>
    /\ Remember(NoRequest)
-----------------------------------------------------------------------------
(* Creation with an idempotency key *)

\* mu is not asked for.
MuFreeMutant == TRUE

MuFree == creating = {}

\* The handler has mu and looks the key up.  A ticket that has it is the answer.
CreateLooksUp(c) ==
    /\ At(c, "create")
    /\ MuFree
    /\ \/ /\ Keyed(cli[c].key) = {}
          /\ creating' = creating \cup {[from |-> c, key |-> cli[c].key]}
          /\ cli' = [cli EXCEPT ![c].pc = "inserting"]
          /\ UNCHANGED session
       \/ /\ \E t \in Keyed(cli[c].key) :
               \/ /\ cli' = [cli EXCEPT ![c].pc = "verifyCreate", ![c].ticket = t, ![c].attempt = 1]
                  /\ UNCHANGED session
               \/ Retries(c) \/ Fails(c)
          /\ UNCHANGED creating
    /\ UNCHANGED <<db, keyOf, late>>
    /\ Remember(NoRequest)

LateCreateLooksUp(r) ==
    /\ r.call = "create"
    /\ MuFree
    /\ late' = late \ {r}
    /\ creating' = creating \cup (IF Keyed(r.key) = {} THEN {[from |-> NoCli, key |-> r.key]} ELSE {})
    /\ UNCHANGED <<db, keyOf, cli, session>>
    /\ Remember(NoRequest)

\* Is the caller of create w still there?
Waiting(w) == w.from \in Cli /\ At(w.from, "inserting")

\* INSERT INTO tickets, and the answer to whoever waits for it.
CreateInserts(w) ==
    /\ creating' = creating \ {w}
    /\ \E t \in Ticket :
         /\ db[t] = Unused
         /\ \E b \in Board : db' = [db EXCEPT ![t] = FreshRow("todo-0", NoUser, b)]
         /\ keyOf' = [keyOf EXCEPT ![t] = IF KeyStored THEN w.key ELSE NoKey]
         /\ IF Waiting(w)
            THEN \/ /\ cli' = [cli EXCEPT ![w.from].pc = "verifyCreate", ![w.from].ticket = t,
                                          ![w.from].attempt = 1]
                    /\ UNCHANGED session
                 \/ Retries(w.from) \/ Fails(w.from)
            ELSE UNCHANGED <<cli, session>>
    /\ UNCHANGED late
    /\ Remember(NoRequest)

\* The store fails, which is a 500.
CreateFails(w) ==
    /\ creating' = creating \ {w}
    /\ IF Waiting(w) THEN Retries(w.from) ELSE UNCHANGED <<cli, session>>
    /\ UNCHANGED <<db, keyOf, late>>
    /\ Remember(NoRequest)

\* The client does not wait for the insert any longer.
CreateTimesOut(c) ==
    /\ At(c, "inserting")
    /\ Retries(c)
    /\ UNCHANGED <<db, keyOf, creating, late>>
    /\ Remember(NoRequest)

\* The server stops and starts: requests that it had taken are gone.
Restart ==
    /\ creating' = {}
    /\ late' = {}
    /\ UNCHANGED <<db, keyOf, cli, session>>
    /\ Remember(NoRequest)

\* Tickets are archived and restored elsewhere.
ElsewhereStep(u, t) ==
    /\ \/ Server!Archive(u, {t})
       \/ Server!Unarchive(u, t)
    /\ UNCHANGED <<keyOf, creating, late, cli, session>>
    /\ Remember(NoRequest)

\* Steps that end an attempt of terminal c.
ClientStep(c) ==
    \/ Unserved(c) \/ CreateTimesOut(c)
    \/ Answered(c) \/ AnswerLost(c) \/ TimesOut(c) \/ CreateLooksUp(c)

Next ==
    \/ \E c \in Cli :
         \/ \E command \in Commands[c] : Starts(c, command)
         \/ ClientStep(c)
         \/ Interrupted(c)
    \/ \E r \in late : ServedLate(r) \/ LateCreateLooksUp(r)
    \/ \E w \in creating : CreateInserts(w) \/ CreateFails(w)
    \/ Restart
    \/ \E u \in User, t \in Elsewhere : ElsewhereStep(u, t)

\* The client bounds every attempt by its timeout and every pause by 30 s.
Fairness == \A c \in Cli : WF_vars(ClientStep(c))

Spec == Init /\ [][Next]_vars /\ Fairness
-----------------------------------------------------------------------------
(* Properties *)

\* Every variable has its type.
TypeOK ==
    /\ db \in [Ticket -> Entry]
    /\ keyOf \in [Ticket -> Key \cup {NoKey}]
    /\ creating \subseteq [from : Cli \cup {NoCli}, key : Key \cup {NoKey}]
    /\ \A r \in late : r.call \in Mutations
    /\ \A c \in Cli :
         \/ At(c, "idle")
         \/ /\ cli[c].pc \in Reads \cup Mutations \cup {"inserting"}
            /\ cli[c].attempt \in 1 .. MaxAttempts
            /\ cli[c].ticket = NoTicket => cli[c].pc \in {"create", "inserting"}
    /\ session \in [User -> Ticket \cup {NoTicket}]

\* Where keys are stored, no two tickets on the boards have the same key,
\* however creates with that key overlap, are repeated, served late or cut
\* short by a restart, unless one of them was archived when the other was
\* created and then restored (CreateOrGetTicket, sqlite_store.go:617).
OneTicketPerKey ==
    \A t, o \in Ticket :
        t # o /\ {t, o} \subseteq Keyed(keyOf[t]) => {t, o} \cap restored # {}

\* A claim, move or release that has taken effect, and whose ticket nobody has
\* changed since, changes nothing when it is served again, early or late, and
\* a terminal that repeats it goes on to verify it: executeWithRetry repeats
\* only what the services' early returns make repeatable.
RepeatsAreHarmless ==
    [][/\ \A c \in Cli :
            Calling(c) /\ last[cli[c].ticket] = Request(c, cli[c]) /\ Answered(c) =>
                db' = db /\ cli'[c].pc = Verifier[cli[c].pc]
       /\ \A r \in late : r.call # "create" /\ last[r.ticket] = r /\ ServedLate(r) => db' = db]_vars

\* Every command ends: the attempts of executeWithRetry are counted, and a
\* batch takes a ticket at a time.
CommandsEnd == \A c \in Cli : []<>At(c, "idle")
=============================================================================
