# TLA+ models of the Goban server

Goban is a ticket board for humans and AI agents: a Go server (Fiber) with a REST API, an MCP
endpoint and server-sent events, over SQLite or Postgres, with two command line tools and a Go
game. This directory holds TLA+ specifications of its core, TLC configurations that check small
instances, and TLAPS proofs for all instances. `PROJECT.json` maps every definition to the source lines it models.

    tlc -workers 2 -config MCServices.cfg MCTicketService    # one run
    tlapm TicketServiceProofs.tla                            # one module of proofs

## 1. The system

| component | state | operations |
|---|---|---|
| services (`services/claim.go`, `move.go`, `release.go`) | none | claim, move, release: one store transaction each |
| stores (`store/sqlite_store.go`, `postgres_store.go`) | tables `tickets`, `task_links`, activity, runs, users, tokens | row reads, whole-row updates, transactions |
| ticket handlers (`handlers/tickets.go`, `comments.go`, `subtasks.go`, `archive.go`) | mutex `mu` | create, edit, comment, subtask, archive, unarchive, delete |
| board cache (`handlers/boards.go`) | `boardStates` | load, sync, replace, hide; answers all board requests |
| MCP tools (`mcp/tools.go`, `notify.go`) | none | create, claim, move, comment, then announce |
| task links (`handlers/links.go`, both stores) | table `task_links` | add with a cycle search, remove, cascade |
| event hub (`sse/sse.go`) | broadcast channel, map of subscribers, a channel each | emit, loop, subscribe, unsubscribe, read |
| accounts (`auth/`, `services/user.go`, `handlers/auth.go`, `admin.go`, `register.go`) | users, tokens; JWTs are with the clients | register, login, refresh, issue and revoke tokens, roles |
| runs and activity (`handlers/runs.go`, `activity.go`) | tables | start and update a run |
| Go game (`services/go_engine.go`, `go_scoring.go`, `handlers/go_game.go`, `store/game_memory_store.go`) | games in memory | move, pass, resign, score |
| web client (`public/app.js`) | the boards it shows | fetch when an event arrives |
| `goban-cli` | session file | requests with retries and verification, batches, creates with idempotency keys |
| `goban-user-cli` | none | create, change and delete users, straight on the database |

How they interact. An HTTP handler of a service calls the service, which opens a transaction,
reads, decides, writes and commits; only then does the handler lock `mu` and put the row it holds
in memory on the board. The other ticket handlers lock `mu` first, read the row from the store,
change it, write the **whole** row back, change the cache and unlock. The MCP tools call the
services or the store directly and lock `mu` only to sync. All of them emit an event, which the
hub's loop copies to the subscribers. Two mutual exclusions meet here that do not cover each
other: the database's isolation (services) and `mu` (handlers).

`goban-cli` makes a sequence of HTTP calls per command, attempts each up to three times, verifies
what it did with a GET, and keeps the ticket it works on in a session file. The accounts are a
sequence of single statements per request, without a transaction; `goban-user-cli` makes the same
statements next to the server. A handler of the Go game gets a deep copy of a game from the memory
store, works on it and puts the whole copy back.

What is hard. Decisions taken on a row that was read earlier; whole-row updates; two isolation
levels behind one interface; cache updates that happen after the commit and in another order; a
search over a table that others change, query by query; a channel closed while another goroutine
copies to it; store calls that fail half way; restarts; requests that are repeated because their
answer was lost, or served after nobody waits for them; credentials that outlive what they say.
`PROJECT.json` lists these hazards at
their lines.

## 2. Modules

| module | what it is |
|---|---|
| `Tickets` | rows and the rules on a row: roles, `CanClaim`, `CanMove`, transitions, the rows that requests write |
| `TicketBoard` | the abstract promise: every request happens at one instant on the current tickets |
| `TicketService` | the table and every request that writes it, store call by store call |
| `BoardCache` | extends `TicketService` by `boardStates` |
| `TaskLinks` | the link table, `detectCycle` and its environment |
| `EventHub` | the server-sent events |
| `GobanCli` | the terminals of `goban-cli`, the network, and creates with a key, over `TicketBoard` |
| `Accounts` | users, tokens and JWTs, under the server's requests and `goban-user-cli` |
| `GoEngine`, `GoGame` | the rules and the scoring as operators on boards; games with overlapping handlers |
| `MC*` | instances for TLC |
| `TicketServiceProofs`, `RefinementProofs` | proofs about `TicketService` |
| `BoardCacheProofs`, `TaskLinksProofs`, `EventHubProofs`, `AccountsProofs`, `GobanCliProofs`, `GoGameProofs` | proofs about these modules; the first also extends `TicketServiceProofs` |

How they compose. `TicketService` implements `TicketBoard` (checked and proved, section 4).
`BoardCache` runs `TicketService` together with the handlers' cache. `GobanCli` runs its terminals
over `TicketBoard`: what the CLI relies on is the promise that the services are shown to keep, so
its runs need no store calls.

**TicketService.** `db` is the tickets table (a row, `Unused` or `Deleted` per id), `audit` the
column named by the newest activity row a service wrote, `mu` the mutex. A request is a *slot*:
`req[r]` holds what the Go code has in local variables between two store calls, so that slots
which are used again model any number of requests without a counter. `ClaimRead`, `MoveRead` and
`ReleaseRead` are the services up to their writes, `ClaimList` the list of the caller's tickets in
progress, `TxCommit` the writes and the commit (they become visible together). `EditRead` or
`CommentRead` and `EditWrite` are the two store calls of every read-modify-write handler (the MCP
comment tool among them, without `mu`), `Unarchive`,
`UnarchivePlace` and `EditWrite` the three of an unarchive, `Archive`, `Create` and `Delete`
single statements. `Fail` is an error of any store call, `Restart` a crash and restart. An error
reply that changes nothing is not a step.

*Isolation.* With `"snapshot"` (SQLite in WAL mode) every commit puts all other open transactions
into `stale`, and a stale transaction cannot write (`SQLITE_BUSY_SNAPSHOT`), so it fails. This is
coarser than SQLite in one direction only: a transaction that has not read yet has no snapshot, and
in the model a transaction exists from its first read on. With `"readCommitted"` (Postgres'
default, which `BeginTx` uses, no `FOR UPDATE`) nothing is ever stale.

*Abstracted.* Titles, labels, subtasks, due dates and priorities are one operation `"edit"`: no
request decides on them. A comment is marked by the slot that added it. Times are left out;
the ticket that a claim releases is any of the caller's, as creation times have a resolution of a
second. The best-effort activity rows of archive and unarchive are left out.

**BoardCache.** `cache[t]` is the set of places at which `boardStates` holds ticket `t`, each with
a board, a column and the row pointed to. `Synced`, `Replaced` and `Hidden` are
`syncTicketInMemory`, `replaceTicketInCache` and `syncArchivedTicketInMemory`, with the order of Go's
map iteration left open. Each action conjoins an action of `TicketService` with its effect on the
cache. `CreateWithoutRow` and `DeleteKeepsRow` are the create and delete whose store call fails
after the cache was changed. `CachedReply` and `CachedReread` have the read of the released ticket
that fails, and `InitBoards` a start that cannot read the tickets, all of them or some rows.
`excused` is a history variable (see `CoherentOrExcused`).

**TaskLinks.** `StartAdd`, `Visit` (one query of `detectCycle`), `Refuse`, `Insert`, `Fail`;
removes, ticket creations and deletions may happen between any two of them. `ever` and `kept` are
history variables: the links stored at some time, or all the time, since the search began.
`Enforced` says whether all connections enforce foreign keys.

**EventHub.** `Emit`, the loop in four steps (take an event, lock, send to one subscriber, unlock),
`Subscribe` in two (check the limit, add), `Unsubscribe` in two (take off the map, close), and the
reader of a connection. Events are numbered as they are emitted.

**GobanCli.** `cli[c]` is the command that terminal `c` runs: the call it makes, the attempt, what
is left of a batch. An attempt ends with an answer (and then the next call, a retry or the end, as
`executeWithRetry` and the commands decide), or is lost before the server has seen it, after it
was served, or while it is still under way; then it joins `late` and may be served once more, also
when the command is over. `ServedClaim`, `ServedMove`, `ServedRelease` and `ServedGet` are the
answers of the server with their codes, over the actions of `TicketBoard`. `creating` holds
`CreateOrGetTicket` between its lookup and its insert, under `mu`. `Elsewhere` are tickets that
are archived and restored by somebody else. A restart of the server drops the requests it had taken. `last` and `restored` are history variables.

**Accounts.** A slot is one request of the server or one call of the tool; its actions are single
statements. `users` and `tokens` are the two tables (`tokens` keyed by the unique agent name),
`jwts` the JWTs that clients keep, `day` the clock. `adminOn` (the last day a user was an
administrator) and `bare` (users whose creation or regeneration was cut short) are history
variables. `Enforced` says whether the connections check foreign keys. Password hashes are left
out: a user has a password or none.

**GoEngine, GoGame.** One `Flood` stands for the five breadth-first searches of the engine, which
differ in what they collect. `ValidateMove`, `PlaceStone`, `GetKoPoint`, `Territory` follow the
code. In `GoGame` `GetGame` and `UpdateGame` are the two store calls of a handler, and nothing
keeps two handlers of one game apart. A record has the fields of `models.MoveRecord` and no more: a
resignation is stored like a stone at the first point that captures nothing.

## 3. What is checked

| run | shows | states |
|---|---|---|
| `MCServices` | SQLite, an agent and an overseer, two tickets, two overlapping services and archiving: `CommitsOnCurrentRows`, `PermittedAtCommit`, `TerminalNeedsForce`, `ArchivedIsNotMoved`, `ServicesKeepTheRest`, `ClaimSwaps`, `OneTicketInProgress`, `AuditMatches`, and the refinement `AtomicSpec` | 630 000 |
| `MCHandlers` | three handlers of every kind that hold `mu`, on any store: `UnnamedFieldsKept`, `CommentsKept`, `AtomicSpec` | 8 000 |
| `MCCache` | two overlapping requests about two tickets, with a claim that gives one back: `CacheTypeOK`, `CoherentOrExcused`, and `Answered` (liveness) | 200 000 |
| `MCLinks` | three tickets, two searches, removes, creates, deletes: `RefusalsAreFounded`, `NoneOverlooked`, `LinksHaveTickets` | 2.3 million |
| `MCEvents` | two connections, a limit of one, a buffer of one, four events: `NoSendOnClosed`, `InOrder`, `LoopGoesOn` (liveness) | 330 000 |
| `MCGobanCli` | two terminals of an agent and an overseer: claim, `session complete`, release; create with a key, a batch of two: `OneTicketPerKey`, `RepeatsAreHarmless`, `CommandsEnd` (liveness) | 360 000 |
| `MCAccounts` | two requests at a time about two names, foreign keys enforced: `TokensHaveOwners`, `UsersHaveTokens`, `StaleRoleBound`, `TokensLast`, `AdminsActed` | 2.6 million |
| `MCGoGame` | two handlers of a game on a board of 3 by 3: `BoardIsReplay`, `NoDeadGroups`, `TerritoryIsSurrounded` | 490 000 |

`CoherentOrExcused` says where the boards may differ from the table: for a ticket that a request
in flight has yet to sync, and, until the next start, for a ticket that (a) another request changed
between the commit and the sync of a request, or deleted before its write, (b) was unarchived,
(c) met a failing store call in a create or delete, or (d) could not be read again when a claim had
given it back (`handlers/claim.go:75`, `mcp/tools.go:167`), or at the start (`boards.go:49`). The run
and the theorem `BoardsShowTheTable` show that this list is complete, for store calls that report an
error only if they changed nothing: a COMMIT or an UPDATE that the database carried out and whose
answer was lost is left out.

`RepeatsAreHarmless` is what makes retries safe here: the services do not keep request ids, so a
repeated claim, move or release must find that its work is done. `OneTicketPerKey` leaves out
tickets that were restored from the archive, as `CreateOrGetTicket` does not look there.
`UsersHaveTokens` excuses users whose creation was cut short by an error or a restart, and shows
that no order of requests that run to their end leaves a user without a token.

`TokensLast` is about interference: a token that works is taken away only by what was asked for its
user, although registration, rollback and regeneration go by the name. The exception is a name that
changed hands: a regeneration that was asked for a user who is gone by now revokes the token of the
user who has the name. That a deletion or a regeneration takes a token away *when it should* is not
what the property says, and the code does not do it (below).

`BoardIsReplay` replays the records of a stored game without the engine. As the records do not tell
a resignation from a stone at the first point that captures nothing, it asks for some choice of
resignations among these that explains the game. `NoDeadGroups` and `TerritoryIsSurrounded` say what
the searches compute without a search.

**Bounds.** Every interference in this code is between two requests, or a request and a single
statement, about one ticket or about the two tickets of a claim; two slots and two tickets contain
all of these, and slots are used again. The third slot of `MCHandlers` lets a waiting handler be
overtaken. Roles: an agent, and a privileged user for the other branch of each rule;
`OVERSEER_AI` in `MCServices` because it is privileged and yet bound by the terminal statuses.
Three tickets are the least with a path of two links, and with a cycle that is no pair. A buffer
of one is full and empty; four events overrun both channels. `MaxEvents` is the only bound on a
behaviour of the hub. In `MCServices` no move goes to IN_PROGRESS, as `OneTicketInProgress` is
about claims; deletions during a service are in the theorems and, for the cache, in `MCCache`. There
one slot works on each of the two tickets: a claim reaches the other slot's ticket by giving it back,
archives, deletions, creates and restarts reach both, and with that every disjunct of `Overlaps` and
every excuse occurs. Two requests that ask for one ticket, and the MCP comment tool, are in the
theorem.

`MCGobanCli`: two attempts per call (`MaxAttempts`) and one late request (`MaxLate`) contain a
retry that finds its work done and a late request that finds it undone; one ticket of the batch is
gone, so that the batch goes past a failure. `MCAccounts`: two names, two ids (`MaxId`: a deleted
user and its successor), three days with a validity of one (`MaxDay`: issued, refreshed, expired),
one JWT kept by clients (`MaxJwt`), one user at a time with a password (`OnePassword`). The
theorems have none of these bounds. `MCGoGame`: a side of three, five points asked for
(`Playable`), which have captures and a ko and leave territory; six records (`MaxMoves`);
handlers overlap in the first two records of a game (`MaxOverlap`). `MCGoKo` has one handler and
eight records; a ko and its retake take six.

**Fairness.** Weak fairness of `StoreStep`: a store call returns, with a result or an error (busy
timeout, driver errors), and the goroutine goes on. Strong fairness of `Sync`: a goroutine
that waits for `mu` gets it though others lock it again and again, as `sync.RWMutex` hands the lock
to a waiting writer. Weak fairness of the hub's `Loop`. Weak fairness of a terminal's
`ClientStep`: `http.Client.Timeout` (30 s by default) ends an attempt without an answer and the
wait before a retry is at most 30 s, so a command goes on whatever the server does. Nothing else is
assumed of clients: they may send nothing, never read, never leave. Deadlock is checked in every run.

**Where code and comments disagree.** Each of these runs ends in a violation:

- `MCNoStealPostgres`: over Postgres two agents claim one ticket, both succeed, and the later
  commit takes it from its holder (`claim.go:47` "cannot steal from other AIs").
- `MCEditOverService`: an edit that read before a claim or move committed writes the old column
  and assignee back (`tickets.go:92` "Partial update support to prevent clearing unspecified
  fields"). Both stores.
- `MCLinksAcyclic`: `detectCycle` walks from the child to its ancestors and looks for the parent;
  a new cycle lies the other way, so a → b and then b → a are both stored.
- `MCGoKo`: `GetKoPoint` returns the point of the stone just played instead of the one it took
  (`go_engine.go:102` "opponent cannot immediately recapture there"). That point is occupied, so
  `ErrKoViolation` is never answered in a game, and a ko is retaken by the next move.
  `go_engine_test.go:165` tests the refusal with a ko point that no move computes.

Also seen while modelling, without a run of their own:

- A claim does not look at the archived flag that move and release reject, so an archived ticket
  can be put in progress.
- Over Postgres two claims by one agent both find nothing to release.
- An unarchived ticket is not put back on its board before the next start (excuse b);
  `public/app.js:195` expects it there at once.
- A link that is stored already, or that shortcuts an existing path, is refused as a cycle, so
  `INSERT OR IGNORE` never meets a duplicate.
- `PRAGMA foreign_keys` is set on one connection of the pool; with `Enforced = FALSE`
  `LinksHaveTickets` fails.
- Two connections that subscribe together exceed `maxSubscribers`; the hub stays correct.
- The MCP comment tool reads and writes without `mu` and may undo what happened in between.
- Two services commit in one order and sync in the other: the board keeps the older row (excuse
  a; `boards.go:88` "to match database state").
- CLI: `delete --force` never works (the request carries no `?force=true`, and
  `handlers/tickets.go:29` asks for it); `create --parents` is ignored by the server; a claim of
  one's own ticket in REVIEW is answered 200 and moves nothing; the claim of an unassigned DONE or
  CANCELLED ticket takes it in progress without `--force`; finishing one ticket
  clears the session of another; a batch leaves the session as it is; a missing ticket is a 500 of
  the services, and repeated as one.
- Creates: the key index is not unique; two tickets can have one key by way of the archive. Postgres
  does not store the key at all, so that over Postgres a repeated create makes a second ticket,
  against the help of the flag (`goban-cli/cmd/create.go:73` "duplicate creates with the same key
  return the existing ticket"): `OneTicketPerKey` is checked and proved for a store that keeps keys
  (`KeyStored`), which is SQLite.
- CLI: an answer 429 is retried like a 500; as the limiter refuses before a handler runs, it is one
  of the lost attempts of the model (`Unserved`).
- Accounts, deletion: `admin.go:171` "cascades token deletion via DB constraints", `admin.go:290`
  "+ cascade tokens" and `services/user.go:48` "cascades to delete associated tokens". No constraint
  cascades: a user with a token cannot be deleted, or, where keys are not enforced, leaves a token
  that blocks its name.
- Accounts, regeneration: `admin.go:204` "Revoke old token(s) for this user first". `ListTokens` does
  not select `user_id`, so the comparison in `admin.go:207` never holds, nothing is revoked, and the
  new token fails on the unique name: the administrator's regeneration is an error and the old token
  keeps working. The tool, which goes by the name alone, does revoke it.
- Accounts, refresh: a refresh looks its user up by name, so the JWT of a deleted user becomes one of
  a new user of that name.
- Go: a whole acknowledged move is lost when two handlers overlap; a game that is over takes
  moves; a move does not set the status `passed` back; the player who resigns is reported as the
  winner (`go_game.go:363`); a resignation is recorded like a stone at the first point that captures
  nothing, so the history of a game does not say where it was resigned; the score adds the prisoners to the other side than `models/game.go:25` says.

## 4. What is proved

For all tickets, users, slots, boards, buffer sizes (the ASSUMEs of the modules are all that is
assumed of the constants):

- `TypeCorrect` (`TicketServiceProofs`): `TypeOK`, for both isolation levels. `TypeOK` alone is not
  inductive: a commit writes rows from `req`, so `TypeInv` adds `Pending`, what a slot holds in each
  phase.
- `SnapshotCommitsOnCurrentRows`, `SnapshotPermittedAtCommit` (`TicketServiceProofs`), for snapshot
  isolation and requests of every kind. The inductive invariant `TxInv`: an open transaction was
  decided by its rules on the rows it saw (`Decided`), and unless it is stale these are the rows in
  the table (`Current`). Every step that changes the table makes all others stale. Over
  Postgres the statement is false (`MCNoStealPostgres`).
- `SnapshotImplementsTicketBoard` (`RefinementProofs`): with snapshot isolation and without the
  read-modify-write handlers (`MCEditOverService` is why), `Spec => AtomicSpec`. A commit maps to a
  step of `TicketBoard`, every other step of a service to a stutter.
- `RefusedIsFounded`, `NothingOverlooked` (`TaskLinksProofs`): the search is sound over `ever` and
  complete over `kept`. `Ancestors` is defined as the least closed set, so that the invariant can
  speak of closed sets and no induction over paths is needed. `EnforcedLinksHaveTickets`.
- `HubTypeCorrect`, `LoopNeverPanics` (`EventHubProofs`): the map holds exactly the open
  connections, and nothing leaves it while the loop holds the lock (`Locking`).
- `EventsInOrder` (`EventHubProofs`): `InOrder`. It is not inductive, as it says nothing of the
  events that are still on their way. `Ordered` does: what a connection has is older than the event
  in the loop, if that is yet to be served to it, and that is older than what is in the channel.
- `TypeCorrect` (`TaskLinksProofs`): `TypeOK`, with the conjunct that a search never visits a
  ticket twice.
- `LogNamesTheColumn` and `NobodyHasTwo` (`RefinementProofs`): `AuditMatches` and
  `OneTicketInProgress` under snapshot isolation (`Atomically`: no read-modify-write handlers, as
  in the refinement), the second also without moves or restored tickets that enter the column
  (`OnlyClaims`). Both
  follow from `TxInv` and one more fact each: what an open transaction has in its hands for the log,
  and that the ticket it gives back is the only one its user has in progress.
- `TerminalsStay`, `ArchivedStay`, `RestIsKept`, `ClaimsSwap` (`TicketServiceProofs`):
  `TerminalNeedsForce`, `ArchivedIsNotMoved`, `ServicesKeepTheRest` and `ClaimSwaps` under snapshot
  isolation, for requests of every kind. By `TxInv` a service that commits overwrites the rows on
  which it decided, so that what it decided holds of them still. `ClaimsSwap` compares
  cardinalities and assumes that there are finitely many tickets.
- `HandlersKeepFields`, `HandlersKeepComments`, `HandlersImplementTicketBoard` (`RefinementProofs`):
  `UnnamedFieldsKept`, `CommentsKept` and the refinement of `TicketBoard`, for the handlers beside
  each other (`OnlyHandlers`) and for both isolation levels. The inductive invariant `LockInv`: only
  the holder of `mu` is between its read and its write, and the table still holds the row it read.
  A service or the MCP comment tool writes without `mu`, which breaks `LockInv`
  (`MCEditOverService`).
- `CacheTypeCorrect`, `BoardsShowTheTable` (`BoardCacheProofs`): `CacheTypeOK` and
  `CoherentOrExcused`, for both isolation levels and requests of every kind, failed stores, failed
  reads and restarts included. The shape of the boards is not inductive by itself: `BoardInv` adds what a
  slot has filed (the row it will answer with is a row, its tickets have been created, a handler
  between its read and its write has `mu`) and that an id which is not yet in the table is on no
  board. For the content, `Tracked(t)` says of a ticket that is not excused: its place is on the
  board of its row; a request that has yet to sync it holds the row of the table, and a row that a
  request will write is on the same board (`Abreast`); a handler that holds `mu` keeps the place
  unless somebody else has yet to sync it; a ticket that nobody has yet to sync is `Settled`, at
  its place with its row. That a sync clears the columns of the row's own board only is enough
  because only an unarchive takes a ticket to another board, and that excuses it.
- `CacheImplementsTicketService` (`BoardCacheProofs`): a step of the server with its cache is a
  step of `TicketService` or leaves the table alone, so that the theorems above hold beside the
  cache. Excepted is `"create_lost"`, which uses up an id and stores nothing.
- `TypesCorrect`, `TokensBelong`, `UsersGetTokens`, `StaleRolesEnd`, `OthersKeepTheirTokens`,
  `OnlyAdministratorsAct` (`AccountsProofs`): everything that `MCAccounts` checks, for any names,
  requests, validities and bounds. The inductive invariant `Inv` has `Typed` (what a slot
  holds in each phase), `TokensInv` (the two properties of tokens, and `Aimed`: ids grow, names are
  unique, and a request that holds the id of a user holds its name too) and `SessionsInv` (a JWT, or
  one about to be issued, with the administrator's role comes from a day on which its user had it).
- `TypeCorrect`, `RepeatsStayHarmless`, `KeysAreUnique` (`GobanCliProofs`): the three safety
  properties of `MCGobanCli`, for any commands, terminals, keys, attempts and late requests. For the
  types, `Working` has the calls that each command makes (`Stages`) and when it has a ticket and a
  status. For repeats, `Lasting`: the ticket that a request changed last is still what that request
  asked for (`Effect`), so the service returns early. For the keys, `KeyInv`: at most one create is
  between its lookup and its insert, as it holds `mu`, and whoever has its key by then came out of
  the archive.

- `TypeCorrect`, `RecordsExplain`, `GroupsHaveLiberties`, `ScoreIsSurrounded`
  (`GoGameProofs`): everything that `MCGoGame` checks, for boards of any size, any games and any
  handlers. The inductive invariant is `Fair(g)` of every game that is stored or in a handler's
  hands, which is why overlapping handlers cannot break it: a lost move is lost as a whole. `Fair`
  has the types, `Alive` (no group without liberties), and `Explained`: for some choice of resignations
  a telling of the records, one picture per record, ends with what there is to see of the game. What
  the search computes (`Flood`, a recursive function on sets of points) is `FloodIsLeast`: the least
  set that has the start and is closed under neighbours of the same kind. Its proof needs no induction
  theorem: `SearchIsClosure` gives an explicit function that satisfies the recursive equation, and
  shows that there is no other by a minimal counterexample among finite sets. From there
  `MoveKeepsAlive` says that a move which `ValidateMove` accepts, with its captures taken off,
  leaves no breathless group of either colour, and `BoardsAreSurrounded` that the scoring is right
  on every board, not only on those that a game reaches.

Every safety property of a passing run is stated by one of these theorems. Only model-checked is
liveness: `Answered`, `LoopGoesOn` and `CommandsEnd` rest on fairness, which is out of TLAPS' reach.
The theorems about services say under which isolation level or beside which requests they hold;
`MCNoStealPostgres` and `MCEditOverService` show what happens otherwise.

## 5. Not modelled, and what is left

Left for later, in this order:

1. A client over `BoardCache` and `EventHub` that fetches when an event arrives. The MCP tools emit
   before they sync, so that the client may fetch the old board.
2. Comment and subtask ids, which are made from the length of the list and repeat after a deletion.
3. The `comment`, `update-description`, `link` and `unlink` commands of the CLI, which repeat their
   requests as the others do.

Not modelled: ticket runs, as no store creates their table, `SQLiteStore.UpdateRun` returns an
error whatever it does and two handlers read a parameter their route does not have, so that no
request about runs changes state; `RegisterToken`, which has no caller outside tests; the web
client, which has no state that the server depends on; configuration, validation and output (pure
functions); rate limiting (Fiber's own); migrations, deployment and test doubles; a second call of
`sse.Init`, which only tests make; reading a Go game, its score and its stream.
