----------------------------- MODULE TaskLinks -----------------------------
(***************************************************************************)
(* The dependencies between tickets: the task_links table and the requests *)
(* that change it (handlers/links.go; AddTaskLink, RemoveTaskLink and      *)
(* detectCycle in the stores).                                             *)
(*                                                                         *)
(* An add walks over the stored links first, one query per ticket, outside *)
(* any transaction and without a lock, and inserts the link in a           *)
(* transaction of its own.  Other adds, removes and ticket deletions may   *)
(* run between any two of its queries.                                     *)
(***************************************************************************)
EXTENDS Naturals, FiniteSets

CONSTANTS
    Ticket,
    Request,      \* slots for adds that are being served
    NoTicket,
    Ops,          \* the other requests that clients send
    Enforced      \* do all connections enforce foreign keys?

ASSUME TicketAssumption == NoTicket \notin Ticket

ASSUME OpsAssumption == Ops \subseteq {"remove", "create", "delete"}

\* Postgres always does.  SQLite does on the connection that ran the PRAGMA,
\* which is one of those in the pool.
ASSUME EnforcedAssumption == Enforced \in BOOLEAN

VARIABLES
    tickets,  \* per ticket id, whether it has a row
    links,    \* the rows of task_links, <<parent, child>>
    req,      \* what each slot is doing
    ever,     \* history: links that were stored at some time in the search
    kept      \* history: links that were stored all through the search

vars == <<tickets, links, req, ever, kept>>

Link == {l \in Ticket \X Ticket : l[1] # l[2]}

\* queue and visited are the variables of detectCycle.
ReqState ==
    [pc: {"idle", "search"}, parent: Ticket \cup {NoTicket}, child: Ticket \cup {NoTicket},
     queue: SUBSET Ticket, visited: SUBSET Ticket]

IdleReq ==
    [pc |-> "idle", parent |-> NoTicket, child |-> NoTicket, queue |-> {}, visited |-> {}]

Live(t) == tickets[t] = "live"

\* SELECT parent_id FROM task_links WHERE child_id = ?
\* Mutant: WHERE ? IN (parent_id, child_id), less the ticket itself.
ParentsMutant(t) ==
    {l[1] : l \in {k \in links : k[2] = t}} \cup {l[2] : l \in {k \in links : k[1] = t}}
Parents(t) == {l[1] : l \in {k \in links : k[2] = t}}

Searching(r) == req[r].pc = "search"

\* The answer is given; nothing is left of the request.
Finish(r) == req' = [req EXCEPT ![r] = IdleReq]

\* Every step that changes the table is recorded for the searches under way.
Recorded ==
    /\ ever' = [r \in Request |-> IF req'[r].pc = "search" THEN ever[r] \cup links' ELSE {}]
    /\ kept' = [r \in Request |-> IF req'[r].pc = "search" THEN kept[r] \cap links' ELSE {}]

-----------------------------------------------------------------------------
(* AddTaskLink *)

\* A ticket cannot be its own parent; the handler checks the form of the ids
\* and nobody checks that the tickets exist.
StartAdd(r, p, c) ==
    /\ req[r].pc = "idle"
    /\ p # c
    /\ req' = [req EXCEPT ![r] = [pc |-> "search", parent |-> p, child |-> c,
                                  queue |-> {c}, visited |-> {}]]
    /\ ever' = [ever EXCEPT ![r] = links]
    /\ kept' = [kept EXCEPT ![r] = links]
    /\ UNCHANGED <<tickets, links>>

\* detectCycle takes a ticket off the queue.  The order of the queue is left
\* out, and a ticket that was visited is not put into it a second time.
\* Mutant: visited tickets are queued again.
VisitMutant(r) ==
    /\ Searching(r)
    /\ \E x \in req[r].queue \ {req[r].parent} :
         req' = [req EXCEPT ![r].visited = @ \cup {x},
                            ![r].queue = (@ \ {x}) \cup Parents(x)]
    /\ UNCHANGED <<tickets, links, ever, kept>>
Visit(r) ==
    /\ Searching(r)
    /\ \E x \in req[r].queue \ {req[r].parent} :
         req' = [req EXCEPT ![r].visited = @ \cup {x},
                            ![r].queue = (@ \cup Parents(x)) \ (req[r].visited \cup {x})]
    /\ UNCHANGED <<tickets, links, ever, kept>>

Refuse(r) ==
    /\ Searching(r)
    /\ req[r].parent \in req[r].queue
    /\ Finish(r)
    /\ UNCHANGED <<tickets, links>>
    /\ Recorded

\* INSERT OR IGNORE in a transaction; a foreign key may refuse it (Fail).
\* Mutant: inserted as soon as the direct parents are known.
InsertMutant(r) ==
    /\ Searching(r)
    /\ req[r].visited # {}
    /\ Enforced => Live(req[r].parent) /\ Live(req[r].child)
    /\ links' = links \cup {<<req[r].parent, req[r].child>>}
    /\ Finish(r)
    /\ Recorded
    /\ UNCHANGED tickets
Insert(r) ==
    /\ Searching(r)
    /\ req[r].queue = {}
    /\ Enforced => Live(req[r].parent) /\ Live(req[r].child)
    /\ links' = links \cup {<<req[r].parent, req[r].child>>}
    /\ Finish(r)
    /\ Recorded
    /\ UNCHANGED tickets

\* A query, the insert or the commit fails.
Fail(r) ==
    /\ Searching(r)
    /\ Finish(r)
    /\ UNCHANGED <<tickets, links>>
    /\ Recorded
-----------------------------------------------------------------------------
(* One statement each *)

RemoveTaskLink(l) ==
    /\ "remove" \in Ops
    /\ l \in links
    /\ links' = links \ {l}
    /\ UNCHANGED <<tickets, req>>
    /\ Recorded

CreateTicket(t) ==
    /\ "create" \in Ops
    /\ tickets[t] = "unused"
    /\ tickets' = [tickets EXCEPT ![t] = "live"]
    /\ UNCHANGED <<links, req, ever, kept>>

\* DELETE FROM tickets, on a connection that cascades or on one that does not.
\* Mutant: the schema cascades for parents only.
DeleteTicketMutant(t) ==
    /\ "delete" \in Ops
    /\ Live(t)
    /\ tickets' = [tickets EXCEPT ![t] = "deleted"]
    /\ links' = {l \in links : l[1] # t}
    /\ UNCHANGED req
    /\ Recorded
DeleteTicket(t) ==
    /\ "delete" \in Ops
    /\ Live(t)
    /\ tickets' = [tickets EXCEPT ![t] = "deleted"]
    /\ \/ links' = {l \in links : t \notin {l[1], l[2]}}
       \/ ~Enforced /\ links' = links
    /\ UNCHANGED req
    /\ Recorded

Init ==
    /\ tickets \in [Ticket -> {"unused", "live"}]
    /\ links = {}
    /\ req = [r \in Request |-> IdleReq]
    /\ ever = [r \in Request |-> {}]
    /\ kept = [r \in Request |-> {}]

AddStep(r) == Visit(r) \/ Refuse(r) \/ Insert(r) \/ Fail(r)

Next ==
    \/ \E r \in Request :
         \/ \E p, c \in Ticket : StartAdd(r, p, c)
         \/ AddStep(r)
    \/ \E l \in Link : RemoveTaskLink(l)
    \/ \E t \in Ticket : CreateTicket(t) \/ DeleteTicket(t)

Spec == Init /\ [][Next]_vars
-----------------------------------------------------------------------------
(* Properties *)

\* Every variable has its type.  A search never queues a ticket again that it
\* has visited: each Visit takes a new ticket, so the search ends although the
\* stored links may contain cycles.
TypeOK ==
    /\ tickets \in [Ticket -> {"unused", "live", "deleted"}]
    /\ links \subseteq Link
    /\ req \in [Request -> ReqState]
    /\ \A r \in Request : req[r].queue \cap req[r].visited = {}
    /\ ever \in [Request -> SUBSET Link]
    /\ kept \in [Request -> SUBSET Link]

\* The reference for detectCycle: t itself and its ancestors in the graph L,
\* the least set that holds t and, with a child, its parents.
Closed(S, L) == \A l \in L : l[2] \in S => l[1] \in S

Ancestors(t, L) ==
    {x \in Ticket : \A S \in SUBSET Ticket : t \in S /\ Closed(S, L) => x \in S}

\* The search is sound: a link is refused only if the parent was an ancestor
\* of the child over links that were stored at some time during the search,
\* whatever other requests add and remove meanwhile.
RefusalsAreFounded ==
    [][\A r \in Request :
         Refuse(r) => req[r].parent \in Ancestors(req[r].child, ever[r])]_vars

\* The search is complete: a link is stored only if the parent was no ancestor
\* of the child over the links that were there all the time.
NoneOverlooked ==
    [][\A r \in Request :
         Insert(r) => req[r].parent \notin Ancestors(req[r].child, kept[r])]_vars

\* Both tickets of a stored link exist (the foreign keys of task_links, "ON
\* DELETE CASCADE"), also if one is deleted while an add searches.
LinksHaveTickets == \A l \in links : Live(l[1]) /\ Live(l[2])

\* No ticket depends on itself through other tickets: what detectCycle is
\* there for ("would create a dependency cycle", sqlite_store.go:163).
Acyclic == \A l \in links : l[2] \notin Ancestors(l[1], links)
=============================================================================
