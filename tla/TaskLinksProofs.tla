-------------------------- MODULE TaskLinksProofs --------------------------
(***************************************************************************)
(* Proofs about TaskLinks: what detectCycle finds, for any number of       *)
(* tickets and of concurrent requests, and that links outlive no ticket    *)
(* where foreign keys are enforced.                                        *)
(*                                                                         *)
(* A set S of tickets that holds the child and, with a child, its parents  *)
(* contains everything the search touches (soundness); when the queue is   *)
(* empty, visited is itself such a set (completeness).  No induction over  *)
(* paths is needed, as Ancestors is the intersection of those sets.        *)
(***************************************************************************)
EXTENDS TaskLinks, TLAPS

\* The search of slot r has seen nothing but ancestors of the child over the
\* links recorded in ever, and all parents over kept of what it has visited.
Search(r) ==
    /\ req[r].parent \in Ticket /\ req[r].child \in Ticket
    /\ kept[r] \subseteq links /\ links \subseteq ever[r]
    /\ \A S \in SUBSET Ticket :
         req[r].child \in S /\ Closed(S, ever[r]) => req[r].queue \cup req[r].visited \subseteq S
    /\ req[r].child \in req[r].queue \cup req[r].visited
    /\ req[r].parent \notin req[r].visited
    /\ \A l \in kept[r] :
         l[2] \in req[r].visited => l[1] \in req[r].queue \cup req[r].visited

SearchInv == TypeOK /\ \A r \in Request : Searching(r) => Search(r)

LEMMA InitSearchInv == Init => SearchInv
<1>1. IdleReq \in ReqState /\ IdleReq.pc = "idle" /\ IdleReq.queue = {}
  BY DEF IdleReq, ReqState
<1> QED
  BY <1>1 DEF Init, SearchInv, TypeOK, Searching

LEMMA LinkIsPair == ASSUME NEW l \in Link PROVE l[1] \in Ticket /\ l[2] \in Ticket
  BY DEF Link

\* What the other slots do to the tables leaves a search sound and complete.
LEMMA KeepsSearch ==
    ASSUME SearchInv, NEW r \in Request, Searching(r), req'[r] = req[r],
           links' \subseteq Link, ever'[r] = ever[r] \cup links', kept'[r] = kept[r] \cap links'
    PROVE  Search(r)'
<1>1. Search(r)
  BY DEF SearchInv
<1>2. ASSUME NEW S \in SUBSET Ticket, Closed(S, ever'[r]) PROVE Closed(S, ever[r])
  BY <1>2 DEF Closed
<1>3. \A S \in SUBSET Ticket :
        req'[r].child \in S /\ Closed(S, ever'[r]) => req'[r].queue \cup req'[r].visited \subseteq S
  BY <1>1, <1>2 DEF Search
<1>4. Search(r)' = ( /\ req'[r].parent \in Ticket /\ req'[r].child \in Ticket
                     /\ kept'[r] \subseteq links' /\ links' \subseteq ever'[r]
                     /\ \A S \in SUBSET Ticket :
                          req'[r].child \in S /\ Closed(S, ever'[r])
                             => req'[r].queue \cup req'[r].visited \subseteq S
                     /\ req'[r].child \in req'[r].queue \cup req'[r].visited
                     /\ req'[r].parent \notin req'[r].visited
                     /\ \A l \in kept'[r] :
                          l[2] \in req'[r].visited
                             => l[1] \in req'[r].queue \cup req'[r].visited )
  BY DEF Search, Closed
<1> QED
  BY <1>1, <1>3, <1>4 DEF Search

\* A step that records what it does to the tables and starts no search.
LEMMA RecordedSearchInv ==
    ASSUME SearchInv, Recorded, links' \subseteq Link,
           tickets' \in [Ticket -> {"unused", "live", "deleted"}],
           req' \in [Request -> ReqState],
           \A r \in Request : req'[r] = req[r] \/ req'[r] = IdleReq
    PROVE  SearchInv'
<1>0. IdleReq.pc = "idle" /\ IdleReq.queue = {}
  BY DEF IdleReq
<1>1. TypeOK'
  BY <1>0 DEF SearchInv, TypeOK, Recorded
<1>2. ASSUME NEW r \in Request, Searching(r)' PROVE Search(r)'
  <2>1. req'[r] = req[r] /\ Searching(r) /\ req'[r].pc = "search"
    BY <1>0, <1>2 DEF Searching
  <2>2. ever'[r] = ever[r] \cup links' /\ kept'[r] = kept[r] \cap links'
    BY <2>1 DEF Recorded
  <2> QED
    BY <2>1, <2>2, KeepsSearch
<1> QED
  BY <1>1, <1>2 DEF SearchInv

LEMMA StartSearchInv ==
    ASSUME SearchInv, NEW r \in Request, NEW p \in Ticket, NEW c \in Ticket, StartAdd(r, p, c)
    PROVE  SearchInv'
<1> DEFINE q == [pc |-> "search", parent |-> p, child |-> c, queue |-> {c}, visited |-> {}]
<1>1. q \in ReqState /\ q.queue \cap q.visited = {}
  BY DEF ReqState
<1>2. TypeOK'
  BY <1>1 DEF SearchInv, TypeOK, StartAdd
<1>3. req'[r] = q /\ ever'[r] = links /\ kept'[r] = links /\ links' = links
  BY DEF SearchInv, TypeOK, StartAdd
<1>4. Search(r)'
  BY <1>3 DEF Search
<1>5. ASSUME NEW x \in Request \ {r}, Searching(x)' PROVE Search(x)'
  <2>1. req'[x] = req[x] /\ ever'[x] = ever[x] /\ kept'[x] = kept[x] /\ links' = links
    BY DEF SearchInv, TypeOK, StartAdd
  <2>2. Search(x)
    BY <1>5, <2>1 DEF SearchInv, Searching
  <2> QED
    BY <2>1, <2>2 DEF Search, Closed
<1> QED
  BY <1>2, <1>4, <1>5 DEF SearchInv

LEMMA VisitSearchInv ==
    ASSUME SearchInv, NEW r \in Request, Visit(r) PROVE SearchInv'
<1>1. PICK x \in req[r].queue \ {req[r].parent} :
        req' = [req EXCEPT ![r].visited = @ \cup {x},
                           ![r].queue = (@ \cup Parents(x)) \ (req[r].visited \cup {x})]
  BY DEF Visit
<1> DEFINE q == [req[r] EXCEPT !.visited = req[r].visited \cup {x},
                               !.queue = (req[r].queue \cup Parents(x))
                                            \ (req[r].visited \cup {x})]
<1>2. req[r] \in ReqState /\ Searching(r) /\ Search(r)
  BY DEF Visit, SearchInv, TypeOK
<1>3. Parents(x) \subseteq Ticket
  BY LinkIsPair DEF Parents, SearchInv, TypeOK
<1>4. /\ q \in ReqState /\ q.pc = req[r].pc /\ q.parent = req[r].parent /\ q.child = req[r].child
      /\ q.visited = req[r].visited \cup {x}
      /\ q.queue = (req[r].queue \cup Parents(x)) \ (req[r].visited \cup {x})
  BY <1>2, <1>3 DEF ReqState
<1>5. req' = [req EXCEPT ![r] = q]
  BY <1>1 DEF SearchInv, TypeOK
<1> HIDE DEF q
<1>6. /\ req'[r] = q /\ \A y \in Request \ {r} : req'[y] = req[y]
      /\ UNCHANGED <<tickets, links, ever, kept>>
  BY <1>5 DEF SearchInv, TypeOK, Visit
<1>7. TypeOK'
  BY <1>4, <1>5, <1>6 DEF SearchInv, TypeOK
<1>8. \A S \in SUBSET Ticket :
        q.child \in S /\ Closed(S, ever[r]) => q.queue \cup q.visited \subseteq S
  <2> SUFFICES ASSUME NEW S \in SUBSET Ticket, q.child \in S, Closed(S, ever[r])
               PROVE  q.queue \cup q.visited \subseteq S
    OBVIOUS
  <2>1. req[r].queue \cup req[r].visited \subseteq S /\ links \subseteq ever[r]
    BY <1>2, <1>4 DEF Search
  <2>2. Parents(x) \subseteq S
    BY <1>1, <2>1 DEF Parents, Closed
  <2> QED
    BY <1>1, <1>4, <2>1, <2>2
<1>9. \A l \in kept[r] : l[2] \in q.visited => l[1] \in q.queue \cup q.visited
  <2> SUFFICES ASSUME NEW l \in kept[r], l[2] \in q.visited
               PROVE  l[1] \in q.queue \cup q.visited
    OBVIOUS
  <2>1. CASE l[2] = x
    BY <1>2, <1>4, <2>1 DEF Parents, Search
  <2>2. CASE l[2] \in req[r].visited
    BY <1>2, <1>4, <2>2 DEF Search
  <2> QED
    BY <1>4, <2>1, <2>2
<1>10. Search(r)'
  BY <1>1, <1>2, <1>4, <1>6, <1>8, <1>9 DEF Search, Closed
<1>11. ASSUME NEW y \in Request \ {r}, Searching(y)' PROVE Search(y)'
  <2>1. Search(y)
    BY <1>6, <1>11 DEF SearchInv, Searching
  <2> QED
    BY <1>6, <2>1 DEF Search, Closed
<1> QED
  BY <1>7, <1>10, <1>11 DEF SearchInv

LEMMA NextSearchInv == SearchInv /\ [Next]_vars => SearchInv'
<1> SUFFICES ASSUME SearchInv, [Next]_vars PROVE SearchInv'
  OBVIOUS
<1>0. TypeOK /\ IdleReq \in ReqState /\ IdleReq.pc = "idle"
  BY DEF SearchInv, IdleReq, ReqState
<1>1. ASSUME NEW r \in Request, NEW p \in Ticket, NEW c \in Ticket, StartAdd(r, p, c)
      PROVE  SearchInv'
  BY <1>1, StartSearchInv
<1>2. ASSUME NEW r \in Request, Visit(r) PROVE SearchInv'
  BY <1>2, VisitSearchInv
<1>3. ASSUME NEW r \in Request, Refuse(r) \/ Fail(r) PROVE SearchInv'
  BY <1>0, <1>3, RecordedSearchInv DEF Refuse, Fail, Finish, TypeOK
<1>4. ASSUME NEW r \in Request, Insert(r) PROVE SearchInv'
  <2>1. req[r].parent # req[r].child /\ req[r].parent \in Ticket /\ req[r].child \in Ticket
    <3>1. Search(r) /\ req[r].queue = {}
      BY <1>4 DEF Insert, SearchInv
    <3> QED
      BY <3>1 DEF Search
  <2>2. links' \subseteq Link
    BY <1>0, <1>4, <2>1 DEF Insert, TypeOK, Link
  <2> QED
    BY <1>0, <1>4, <2>2, RecordedSearchInv DEF Insert, Finish, TypeOK
<1>5. ASSUME NEW l \in Link, RemoveTaskLink(l) PROVE SearchInv'
  BY <1>0, <1>5, RecordedSearchInv DEF RemoveTaskLink, TypeOK
<1>6. ASSUME NEW t \in Ticket, DeleteTicket(t) PROVE SearchInv'
  BY <1>0, <1>6, RecordedSearchInv DEF DeleteTicket, TypeOK
<1>7. ASSUME NEW t \in Ticket, CreateTicket(t) PROVE SearchInv'
  BY <1>7 DEF CreateTicket, SearchInv, TypeOK, Searching, Search, Closed
<1>8. CASE UNCHANGED vars
  BY <1>8 DEF vars, SearchInv, TypeOK, Searching, Search, Closed
<1> QED
  BY <1>1, <1>2, <1>3, <1>4, <1>5, <1>6, <1>7, <1>8 DEF Next, AddStep

LEMMA AlwaysSearchInv == Spec => []SearchInv
  BY InitSearchInv, NextSearchInv, PTL DEF Spec

\* detectCycle is sound: it refuses a link only if the parent was an ancestor
\* of the child over links stored during the search, whatever other requests
\* did to the links meanwhile.
THEOREM RefusedIsFounded == Spec => RefusalsAreFounded
<1>1. ASSUME SearchInv, NEW r \in Request, Refuse(r)
      PROVE  req[r].parent \in Ancestors(req[r].child, ever[r])
  BY <1>1 DEF Refuse, SearchInv, Search, Ancestors
<1>2. SearchInv => \A r \in Request :
                      Refuse(r) => req[r].parent \in Ancestors(req[r].child, ever[r])
  BY <1>1
<1> QED
  BY <1>2, AlwaysSearchInv, PTL DEF Spec, RefusalsAreFounded

\* detectCycle is complete: a link is stored only if the parent was no
\* ancestor of the child over the links that were there all the time.
THEOREM NothingOverlooked == Spec => NoneOverlooked
<1>1. ASSUME SearchInv, NEW r \in Request, Insert(r)
      PROVE  req[r].parent \notin Ancestors(req[r].child, kept[r])
  <2>1. Search(r) /\ req[r].queue = {} /\ req[r].visited \in SUBSET Ticket
    BY <1>1 DEF Insert, SearchInv, TypeOK, ReqState
  <2>2. req[r].child \in req[r].visited /\ Closed(req[r].visited, kept[r])
        /\ req[r].parent \notin req[r].visited
    BY <2>1 DEF Search, Closed
  <2> QED
    BY <2>1, <2>2 DEF Ancestors
<1>2. SearchInv => \A r \in Request :
                      Insert(r) => req[r].parent \notin Ancestors(req[r].child, kept[r])
  BY <1>1
<1> QED
  BY <1>2, AlwaysSearchInv, PTL DEF Spec, NoneOverlooked

\* Where every connection enforces foreign keys, both tickets of every stored
\* link exist, also when one is deleted while an add is searching.
THEOREM EnforcedLinksHaveTickets == ASSUME Enforced PROVE Spec => []LinksHaveTickets
<1>1. Init => LinksHaveTickets
  BY DEF Init, LinksHaveTickets
<1>2. TypeOK /\ LinksHaveTickets /\ [Next]_vars => LinksHaveTickets'
  <2> SUFFICES ASSUME TypeOK, LinksHaveTickets, [Next]_vars PROVE LinksHaveTickets'
    OBVIOUS
  <2>1. ASSUME UNCHANGED <<tickets, links>> PROVE LinksHaveTickets'
    BY <2>1 DEF LinksHaveTickets, Live
  <2>2. ASSUME NEW r \in Request, Insert(r) PROVE LinksHaveTickets'
    BY <2>2 DEF Insert, LinksHaveTickets, Live
  <2>3. ASSUME NEW l \in Link, RemoveTaskLink(l) PROVE LinksHaveTickets'
    BY <2>3 DEF RemoveTaskLink, LinksHaveTickets, Live
  <2>4. ASSUME NEW t \in Ticket, CreateTicket(t) PROVE LinksHaveTickets'
    BY <2>4, LinkIsPair DEF CreateTicket, LinksHaveTickets, Live, TypeOK
  <2>5. ASSUME NEW t \in Ticket, DeleteTicket(t) PROVE LinksHaveTickets'
    BY <2>5, LinkIsPair DEF DeleteTicket, LinksHaveTickets, Live, TypeOK
  <2> QED
    BY <2>1, <2>2, <2>3, <2>4, <2>5
       DEF Next, AddStep, StartAdd, Visit, Refuse, Fail, vars
<1>3. SearchInv => TypeOK
  BY DEF SearchInv
<1> QED
  BY <1>1, <1>2, <1>3, AlwaysSearchInv, PTL DEF Spec

\* Every variable of TaskLinks keeps its type, for any tickets and requests.
THEOREM TypeCorrect == Spec => []TypeOK
<1>1. SearchInv => TypeOK
  BY DEF SearchInv
<1> QED
  BY <1>1, AlwaysSearchInv, PTL
=============================================================================
