---------------------------- MODULE GoGameProofs ----------------------------
(***************************************************************************)
(* Proofs about GoEngine and GoGame, for a board of any size, any games    *)
(* and any number of handlers.  The engine's breadth-first search is shown *)
(* to give the least set of points that has its first point and is closed  *)
(* under like neighbours; with that nothing else has to be said of it.     *)
(***************************************************************************)
EXTENDS GoGame, FiniteSetTheorems, TLAPS

-----------------------------------------------------------------------------
(* Points *)

LEMMA PointsFinite == IsFiniteSet(Point)
<1>1. IsFiniteSet(0 .. Size - 1)
  BY SizeAssumption, FS_Interval
<1> QED
  BY <1>1, FS_Product DEF Point

LEMMA Neighbors ==
    /\ \A p \in Point : neighbors[p] \subseteq Point
    /\ \A p, q \in Point : q \in neighbors[p] => p \in neighbors[q]
<1>1. neighbors = [p \in Point |->
         {<<p[1] + d[1], p[2] + d[2]>> : d \in {<<-1, 0>>, <<1, 0>>, <<0, -1>>, <<0, 1>>}} \cap Point]
  BY DEF neighbors
<1>2. \A p \in Point :
         neighbors[p] = {q \in Point : \/ q = <<p[1] - 1, p[2]>> \/ q = <<p[1] + 1, p[2]>>
                                       \/ q = <<p[1], p[2] - 1>> \/ q = <<p[1], p[2] + 1>>}
  BY <1>1, SizeAssumption DEF Point
<1>3. \A p, q \in Point : q \in neighbors[p] <=>
         \/ q = <<p[1] - 1, p[2]>> \/ q = <<p[1] + 1, p[2]>>
         \/ q = <<p[1], p[2] - 1>> \/ q = <<p[1], p[2] + 1>>
  BY <1>2
<1>4. ASSUME NEW p \in Point, NEW q \in Point, q \in neighbors[p] PROVE p \in neighbors[q]
  <2>1. /\ p = <<p[1], p[2]>> /\ q = <<q[1], q[2]>>
        /\ p[1] \in Int /\ p[2] \in Int /\ q[1] \in Int /\ q[2] \in Int
    BY SizeAssumption DEF Point
  <2>2. \/ q[1] = p[1] - 1 /\ q[2] = p[2]
        \/ q[1] = p[1] + 1 /\ q[2] = p[2]
        \/ q[1] = p[1] /\ q[2] = p[2] - 1
        \/ q[1] = p[1] /\ q[2] = p[2] + 1
    BY <1>3, <1>4
  <2>3. \/ p = <<q[1] - 1, q[2]>> \/ p = <<q[1] + 1, q[2]>>
        \/ p = <<q[1], q[2] - 1>> \/ p = <<q[1], q[2] + 1>>
    BY <2>1, <2>2
  <2> QED
    BY <1>3, <2>3
<1> QED
  BY <1>2, <1>4
-----------------------------------------------------------------------------
(* The search *)

\* S goes on to whatever lies next to it and is like p.
ClosedFor(board, p, S) ==
    \A x \in S : \A q \in neighbors[x] : board[q] = board[p] => q \in S

\* The least such set that has all of V.
Closure(board, p, V) ==
    {q \in Point : \A S \in SUBSET Point : V \subseteq S /\ ClosedFor(board, p, S) => q \in S}

\* What a search adds to the points it has visited.
Layer(board, p, V) == {q \in UNION {neighbors[x] : x \in V} : board[q] = board[p]}

LEMMA LayerStep ==
    ASSUME NEW board, NEW p, NEW V \in SUBSET Point
    PROVE  /\ Layer(board, p, V) \subseteq Point
           /\ Layer(board, p, V) \subseteq V => Closure(board, p, V) = V
           /\ Closure(board, p, V \cup Layer(board, p, V)) = Closure(board, p, V)
<1>1. Layer(board, p, V) \subseteq Point
  BY Neighbors DEF Layer
<1>2. ASSUME Layer(board, p, V) \subseteq V PROVE Closure(board, p, V) = V
  <2>1. ClosedFor(board, p, V)
    BY <1>2 DEF ClosedFor, Layer
  <2> QED
    BY <2>1 DEF Closure
<1>3. ASSUME NEW S \in SUBSET Point, ClosedFor(board, p, S), V \subseteq S
      PROVE  Layer(board, p, V) \subseteq S
  BY <1>3 DEF ClosedFor, Layer
<1>4. \A S \in SUBSET Point : ClosedFor(board, p, S) =>
          (V \cup Layer(board, p, V) \subseteq S <=> V \subseteq S)
  BY <1>3
<1> QED
  BY <1>1, <1>2, <1>4 DEF Closure

\* The recursive definition of search has this solution, and no other: a
\* search that went wrong would go wrong later too, with fewer points left.
LEMMA SearchIsClosure ==
    ASSUME NEW board, NEW p \in Point
    PROVE  Flood(board, p) = Closure(board, p, {p})
<1> DEFINE Step(f) == [visited \in SUBSET Point |->
             LET next == {q \in UNION {neighbors[x] : x \in visited} : board[q] = board[p]}
             IN  IF next \subseteq visited THEN visited ELSE f[visited \cup next]]
           search == CHOOSE f : f = Step(f)
           solution == [visited \in SUBSET Point |-> Closure(board, p, visited)]
<1>1. Flood(board, p) = search[{p}]
  BY DEF Flood
<1>2. \A f : Step(f) = [visited \in SUBSET Point |->
                          IF Layer(board, p, visited) \subseteq visited THEN visited
                          ELSE f[visited \cup Layer(board, p, visited)]]
  BY DEF Layer
<1> HIDE DEF Step
<1>3. solution = Step(solution)
  <2>1. \A V \in SUBSET Point : V \cup Layer(board, p, V) \in SUBSET Point
    BY LayerStep
  <2>2. ASSUME NEW V \in SUBSET Point
        PROVE  Closure(board, p, V) = IF Layer(board, p, V) \subseteq V THEN V
                                      ELSE solution[V \cup Layer(board, p, V)]
    BY <2>1, LayerStep
  <2>3. solution = [V \in SUBSET Point |-> IF Layer(board, p, V) \subseteq V THEN V
                                           ELSE solution[V \cup Layer(board, p, V)]]
    BY <2>2
  <2> QED
    BY <1>2, <2>3
<1>4. search = Step(search)
  BY <1>3
<1> HIDE DEF search
<1>5. \A V \in SUBSET Point :
         search[V] = IF Layer(board, p, V) \subseteq V THEN V
                     ELSE search[V \cup Layer(board, p, V)]
  BY <1>2, <1>4
<1> DEFINE Wrong == {U \in SUBSET Point : search[Point \ U] # Closure(board, p, Point \ U)}
<1>6. Wrong = {}
  <2> SUFFICES ASSUME Wrong # {} PROVE FALSE
    OBVIOUS
  <2>1. IsWellFoundedOn(StrictSubsetOrdering(Point), SUBSET Point)
    BY PointsFinite, FS_FiniteSubsetsOfFinite, FS_StrictSubsetOrderingWellFounded
  <2>2. PICK U \in Wrong : \A W \in Wrong : ~(<<W, U>> \in StrictSubsetOrdering(Point))
    <3> HIDE DEF Wrong
    <3>1. Wrong \subseteq SUBSET Point
      BY DEF Wrong
    <3> QED
      BY <2>1, <3>1, WFMin
  <2> DEFINE V == Point \ U
             W == U \ Layer(board, p, V)
  <2>3. V \in SUBSET Point /\ U \in SUBSET Point /\ search[V] # Closure(board, p, V)
    BY <2>2
  <2>4. ~(Layer(board, p, V) \subseteq V)
    BY <1>5, <2>3, LayerStep
  <2>5. W \subseteq U /\ W # U /\ Point \ W = V \cup Layer(board, p, V)
    BY <2>3, <2>4, LayerStep
  <2>6. W \notin Wrong
    BY <2>2, <2>3, <2>5 DEF StrictSubsetOrdering
  <2>7. search[V \cup Layer(board, p, V)] = Closure(board, p, V \cup Layer(board, p, V))
    BY <2>3, <2>5, <2>6
  <2>8. search[V] = search[V \cup Layer(board, p, V)]
    BY <1>5, <2>3, <2>4
  <2> HIDE DEF V
  <2> QED
    BY <2>3, <2>7, <2>8, LayerStep
<1>7. search[{p}] = Closure(board, p, {p})
  <2>1. Point \ {p} \notin Wrong /\ Point \ (Point \ {p}) = {p}
    BY <1>6
  <2> QED
    BY <2>1
<1> QED
  BY <1>1, <1>7

\* What is used of a search: it has its first point, stays on cells like that
\* one, misses none of them, and is the least set that does.
LEMMA FloodIsLeast ==
    ASSUME NEW board, NEW p \in Point
    PROVE  /\ p \in Flood(board, p) /\ Flood(board, p) \subseteq Point
           /\ \A q \in Flood(board, p) : board[q] = board[p]
           /\ ClosedFor(board, p, Flood(board, p))
           /\ \A S \in SUBSET Point :
                p \in S /\ ClosedFor(board, p, S) => Flood(board, p) \subseteq S
<1>1. Flood(board, p) = Closure(board, p, {p})
  BY SearchIsClosure
<1>2. \A S \in SUBSET Point : p \in S /\ ClosedFor(board, p, S) => Flood(board, p) \subseteq S
  BY <1>1 DEF Closure
<1>3. p \in Flood(board, p) /\ Flood(board, p) \subseteq Point
  BY <1>1 DEF Closure
<1>4. ClosedFor(board, p, Flood(board, p))
  BY <1>1, Neighbors DEF Closure, ClosedFor
<1>5. \A q \in Flood(board, p) : board[q] = board[p]
  <2> DEFINE Like == {q \in Point : board[q] = board[p]}
  <2>1. ClosedFor(board, p, Like)
    BY Neighbors DEF ClosedFor
  <2> QED
    BY <1>2, <2>1
<1> QED
  BY <1>2, <1>3, <1>4, <1>5
-----------------------------------------------------------------------------
(* Stones *)

LEMMA Opponents ==
    \A c \in Colour : Opponent(c) \in Colour /\ Opponent(c) # c /\ Opponent(Opponent(c)) = c
  BY DEF Colour, Opponent

LEMMA StoneCell == \A c \in Colour : c \in Cell /\ c # "empty"
  BY DEF Colour, Cell

\* A stone's group has no liberties when no stone of it has an empty neighbour.
LEMMA Liberties ==
    ASSUME NEW board \in Boards, NEW p \in Point, board[p] # "empty"
    PROVE  /\ CountLiberties(board, p) \in Nat
           /\ CountLiberties(board, p) = 0 <=>
                \A x \in Flood(board, p) : \A q \in neighbors[x] : board[q] # "empty"
<1> DEFINE free == {q \in Border(Flood(board, p)) : board[q] = "empty"}
<1>1. CountLiberties(board, p) = Cardinality(free)
  BY DEF CountLiberties, GetGroup
<1>2. free \subseteq Point
  BY Neighbors, FloodIsLeast DEF Border
<1>3. IsFiniteSet(free) /\ Cardinality(free) \in Nat
  BY <1>2, PointsFinite, FS_Subset, FS_CardinalityType
<1>4. Cardinality(free) = 0 <=> free = {}
  <2> HIDE DEF free
  <2> QED
    BY <1>3, FS_EmptySet
<1>5. ASSUME NEW x \in Flood(board, p), NEW q \in neighbors[x], board[q] = "empty" PROVE q \in free
  <2>1. \A y \in Flood(board, p) : board[y] = board[p]
    BY FloodIsLeast
  <2>2. q \notin Flood(board, p)
    BY <1>5, <2>1
  <2>3. q \in UNION {neighbors[y] : y \in Flood(board, p)}
    OBVIOUS
  <2> QED
    BY <1>5, <2>2, <2>3 DEF Border
<1>6. ASSUME NEW q \in free
      PROVE  \E x \in Flood(board, p) : q \in neighbors[x] /\ board[q] = "empty"
  BY <1>6 DEF Border
<1> HIDE DEF free
<1> QED
  BY <1>1, <1>3, <1>4, <1>5, <1>6

\* The board with the new stone and before captures.
Placed(board, colour, p) == [board EXCEPT ![p] = colour]

\* Captured groups are the opponent's groups next to the new stone that have
\* no liberties.
LEMMA CapturesAre ==
    ASSUME NEW board \in Boards, NEW colour \in Colour, NEW p \in Point
    PROVE  LET placed == Placed(board, colour, p)
           IN  /\ placed \in Boards /\ placed[p] = colour
               /\ Captures(board, colour, p) \subseteq Point
               /\ \A q \in Captures(board, colour, p) : placed[q] = Opponent(colour)
               /\ \A q \in neighbors[p] :
                    placed[q] = Opponent(colour) /\ CountLiberties(placed, q) = 0 =>
                        q \in Captures(board, colour, p)
               /\ p \notin Captures(board, colour, p)
<1>1. Placed(board, colour, p) \in Boards /\ Placed(board, colour, p)[p] = colour
  BY StoneCell DEF Boards, Placed
<1> DEFINE placed == Placed(board, colour, p)
           taken == {n \in neighbors[p] : placed[n] = Opponent(colour) /\ CountLiberties(placed, n) = 0}
<1>2. Captures(board, colour, p) = UNION {GetGroup(placed, q) : q \in taken}
  BY DEF Captures, Placed
<1>3. ASSUME NEW q \in taken
      PROVE  /\ GetGroup(placed, q) \subseteq Point /\ q \in GetGroup(placed, q)
             /\ \A x \in GetGroup(placed, q) : placed[x] = Opponent(colour)
  <2>1. q \in Point /\ placed[q] = Opponent(colour) /\ placed[q] # "empty"
    BY Neighbors, Opponents, StoneCell
  <2>2. GetGroup(placed, q) = Flood(placed, q)
    BY <2>1 DEF GetGroup
  <2>3. /\ q \in Flood(placed, q) /\ Flood(placed, q) \subseteq Point
        /\ \A x \in Flood(placed, q) : placed[x] = placed[q]
    BY <2>1, FloodIsLeast
  <2> QED
    BY <2>1, <2>2, <2>3
<1>4. \A q \in Captures(board, colour, p) : q \in Point /\ placed[q] = Opponent(colour)
  <2> HIDE DEF taken
  <2> QED
    BY <1>2, <1>3
<1>5. \A q \in taken : q \in Captures(board, colour, p)
  <2> HIDE DEF taken
  <2> QED
    BY <1>2, <1>3
<1> QED
  BY <1>1, <1>4, <1>5, Opponents

\* A stone stays where it is put, captured stones go, and the rest stays.
LEMMA PlaceStoneIs ==
    ASSUME NEW board \in Boards, NEW colour \in Colour, NEW p \in Point
    PROVE  /\ PlaceStone(board, colour, p) \in Boards
           /\ \A q \in Point :
                PlaceStone(board, colour, p)[q] =
                    IF q = p THEN colour
                    ELSE IF q \in Captures(board, colour, p) THEN "empty" ELSE board[q]
<1> DEFINE placed == Placed(board, colour, p)
<1>1. p \notin Captures(board, colour, p) /\ placed[p] = colour
  BY CapturesAre
<1>2. \A q \in Point \ {p} : placed[q] = board[q] /\ board[q] \in Cell
  BY DEF Boards, Placed
<1>3. PlaceStone(board, colour, p) =
        [q \in Point |-> IF q \in Captures(board, colour, p) THEN "empty" ELSE placed[q]]
  BY DEF PlaceStone, removeGroup, Placed
<1> HIDE DEF placed
<1>4. \A q \in Point :
        (IF q \in Captures(board, colour, p) THEN "empty" ELSE placed[q]) =
        IF q = p THEN colour
        ELSE IF q \in Captures(board, colour, p) THEN "empty" ELSE board[q]
  BY <1>1, <1>2
<1>5. PlaceStone(board, colour, p) =
        [q \in Point |-> IF q = p THEN colour
                         ELSE IF q \in Captures(board, colour, p) THEN "empty" ELSE board[q]]
  BY <1>3, <1>4
<1> QED
  BY <1>2, <1>5, StoneCell DEF Boards, Cell
-----------------------------------------------------------------------------
(* No group without a liberty *)

\* NoDeadGroups, of one board.
Alive(b) == \A S \in SUBSET Breathless(b) : S # {} => ~Whole(b, S)

\* A set of whole groups has the group of each of its points.
LEMMA WholeHasGroups ==
    ASSUME NEW b, NEW S \in SUBSET Point, Whole(b, S), NEW p \in S
    PROVE  Flood(b, p) \subseteq S
<1>1. ClosedFor(b, p, {q \in S : b[q] = b[p]})
  BY DEF Whole, ClosedFor
<1> QED
  BY <1>1, FloodIsLeast

LEMMA MoveKeepsAlive ==
    ASSUME NEW b \in Boards, NEW colour \in Colour, NEW p \in Point, NEW ko,
           Alive(b), ValidateMove(b, colour, p, ko)
    PROVE  Alive(PlaceStone(b, colour, p))
<1> DEFINE new == PlaceStone(b, colour, p)
           placed == Placed(b, colour, p)
           taken == Captures(b, colour, p)
<1>1. /\ new \in Boards /\ new[p] = colour
      /\ \A q \in Point \ {p} : new[q] = IF q \in taken THEN "empty" ELSE b[q]
  BY PlaceStoneIs
<1>2. /\ placed \in Boards /\ placed[p] = colour /\ p \notin taken
      /\ \A q \in Point \ {p} : placed[q] = b[q]
      /\ \A q \in taken : placed[q] = Opponent(colour)
      /\ \A q \in neighbors[p] :
           placed[q] = Opponent(colour) /\ CountLiberties(placed, q) = 0 => q \in taken
  <2>1. \A q \in Point \ {p} : placed[q] = b[q]
    BY DEF Placed, Boards
  <2> QED
    BY <2>1, CapturesAre
<1>3. b[p] = "empty" /\ CountLiberties(new, p) > 0
  BY DEF ValidateMove
<1> HIDE DEF new, placed, taken
<1> SUFFICES ASSUME NEW S \in SUBSET Breathless(new), S # {}, Whole(new, S) PROVE FALSE
  BY DEF Alive, new
<1>4. /\ S \subseteq Point /\ \A x \in S : neighbors[x] \subseteq Point
      /\ \A x \in S : new[x] # "empty" /\ \A q \in neighbors[x] : new[q] # "empty"
  BY Neighbors DEF Breathless
\* The new stone has a liberty.
<1>5. p \notin S
  <2> SUFFICES ASSUME p \in S PROVE FALSE
    OBVIOUS
  <2>1. Flood(new, p) \subseteq S
    BY <1>4, WholeHasGroups
  <2>2. CountLiberties(new, p) = 0
    BY <1>1, <1>4, <2>1, StoneCell, Liberties
  <2> QED
    BY <1>3, <2>2
\* Nothing in S has changed, and what was taken is not next to it.
<1>6. \A x \in S : new[x] = b[x] /\ placed[x] = b[x]
  BY <1>1, <1>2, <1>4, <1>5
<1>7. \A x \in S : \A q \in neighbors[x] : q \notin taken /\ placed[q] = new[q]
  BY <1>1, <1>2, <1>4
<1>8. Whole(b, S)
  <2> SUFFICES ASSUME NEW x \in S, NEW q \in neighbors[x] \ S, b[q] = b[x] PROVE FALSE
    BY DEF Whole
  <2>1. q # p
    BY <1>3, <1>4, <1>6
  <2>2. new[q] = b[q]
    BY <1>1, <1>4, <1>7, <2>1
  <2> QED
    BY <1>6, <2>2 DEF Whole
\* So one of its stones had its liberty at p.
<1>9. PICK x \in S : p \in neighbors[x]
  <2>1. PICK x \in S : \E q \in neighbors[x] : b[q] = "empty"
    BY <1>4, <1>6, <1>8 DEF Alive, Breathless
  <2>2. PICK q \in neighbors[x] : b[q] = "empty"
    BY <2>1
  <2>3. q = p
    BY <1>1, <1>4, <1>7, <2>2
  <2> QED
    BY <2>2, <2>3
<1>10. placed[x] = Opponent(colour)
  <2>1. new[x] # colour
    BY <1>1, <1>5, <1>9 DEF Whole
  <2>2. new[x] \in Cell /\ new[x] # "empty"
    BY <1>1, <1>4 DEF Boards
  <2> QED
    BY <1>6, <2>1, <2>2 DEF Cell, Colour, Opponent
\* Its group was looked at, and would have been taken.
<1>11. Flood(placed, x) \subseteq S
  <2>1. Whole(placed, S)
    BY <1>6, <1>7 DEF Whole
  <2> QED
    BY <1>4, <2>1, WholeHasGroups
<1>12. CountLiberties(placed, x) = 0
  <2>1. \A y \in Flood(placed, x) : \A q \in neighbors[y] : placed[q] # "empty"
    BY <1>4, <1>7, <1>11
  <2> QED
    BY <1>2, <1>4, <1>6, <2>1, Liberties
<1>13. x \in taken
  BY <1>2, <1>4, <1>9, <1>10, <1>12, Neighbors
<1> QED
  BY <1>1, <1>4, <1>5, <1>13
-----------------------------------------------------------------------------
(* Territory *)

\* An empty region that S meets is part of S, if only stones are next to S.
LEMMA RegionInside ==
    ASSUME NEW b, NEW S \in SUBSET Point, \A q \in Border(S) : b[q] # "empty",
           NEW o \in Point, b[o] = "empty", NEW p \in Flood(b, o), p \in S
    PROVE  Flood(b, o) \subseteq S
<1> DEFINE R == Flood(b, o)
<1>1. /\ R \subseteq Point /\ o \in R
      /\ \A q \in R : b[q] = "empty"
      /\ \A x \in R : \A q \in neighbors[x] : b[q] = "empty" => q \in R
  BY FloodIsLeast DEF ClosedFor
<1>2. \A x \in S : \A q \in neighbors[x] : b[q] = "empty" => q \in S
  BY DEF Border
<1>3. o \in S
  <2> SUFFICES ASSUME o \notin S PROVE FALSE
    OBVIOUS
  <2>1. ClosedFor(b, o, R \ S)
    <3> SUFFICES ASSUME NEW x \in R \ S, NEW q \in neighbors[x], b[q] = "empty" PROVE q \in R \ S
      BY DEF ClosedFor
    <3>1. x \in neighbors[q] /\ b[x] = "empty"
      BY <1>1, Neighbors
    <3> QED
      BY <1>1, <1>2, <3>1
  <2> QED
    BY <1>1, <2>1, FloodIsLeast
<1>4. ClosedFor(b, o, S)
  BY <1>2 DEF ClosedFor
<1> QED
  BY <1>3, <1>4, FloodIsLeast

\* Around a region there are stones only.
LEMMA RegionIs ==
    ASSUME NEW b \in Boards, NEW o \in Point, b[o] = "empty"
    PROVE  /\ Flood(b, o) \subseteq Point /\ o \in Flood(b, o)
           /\ \A x \in Flood(b, o) : b[x] = "empty"
           /\ \A q \in Border(Flood(b, o)) : q \in Point /\ b[q] \in Colour
           /\ \A x \in Flood(b, o) : \A q \in neighbors[x] :
                b[q] # "empty" => q \in Border(Flood(b, o))
<1>1. /\ Flood(b, o) \subseteq Point /\ o \in Flood(b, o)
      /\ \A x \in Flood(b, o) : b[x] = "empty"
      /\ \A x \in Flood(b, o) : \A q \in neighbors[x] : b[q] = "empty" => q \in Flood(b, o)
  BY FloodIsLeast DEF ClosedFor
<1>2. \A q \in Border(Flood(b, o)) : q \in Point /\ b[q] # "empty"
  BY <1>1, Neighbors DEF Border
<1>3. \A x \in Flood(b, o) : \A q \in neighbors[x] :
         b[q] # "empty" => q \in Border(Flood(b, o))
  BY <1>1 DEF Border
<1> QED
  BY <1>1, <1>2, <1>3 DEF Boards, Cell

LEMMA TerritoryIs ==
    ASSUME NEW b \in Boards, NEW c \in Colour
    PROVE  /\ Territory(b, c) \subseteq Point
           /\ \A p \in Territory(b, c) : \E o \in Point :
                /\ b[o] = "empty" /\ p \in Flood(b, o) /\ Flood(b, o) \subseteq Territory(b, c)
                /\ \A q \in Border(Flood(b, o)) : b[q] = c
                /\ \E q \in Border(Flood(b, o)) : b[q] = c
           /\ \A p \in Point : b[p] = "empty" /\ p \notin Territory(b, c) =>
                \/ Border(Flood(b, p)) = {}
                \/ \E q \in Border(Flood(b, p)) : b[q] = Opponent(c)
<1>1. \A p \in Territory(b, c) : \E o \in Point :
         /\ b[o] = "empty" /\ p \in Flood(b, o) /\ Flood(b, o) \subseteq Territory(b, c)
         /\ BoundaryColours(b, Flood(b, o)) = {c}
  BY DEF Territory, Regions
<1>2. \A o : BoundaryColours(b, Flood(b, o)) = {c} =>
         /\ \A q \in Border(Flood(b, o)) : b[q] = c
         /\ \E q \in Border(Flood(b, o)) : b[q] = c
  BY DEF BoundaryColours
<1>3. ASSUME NEW p \in Point, b[p] = "empty", p \notin Territory(b, c),
             \A q \in Border(Flood(b, p)) : b[q] # Opponent(c)
      PROVE  Border(Flood(b, p)) = {}
  <2>1. p \in Flood(b, p) /\ \A q \in Border(Flood(b, p)) : b[q] = c
    BY <1>3, RegionIs DEF Colour, Opponent
  <2>2. BoundaryColours(b, Flood(b, p)) # {c}
    BY <1>3, <2>1 DEF Territory, Regions
  <2> QED
    BY <2>1, <2>2 DEF BoundaryColours
<1>4. Territory(b, c) \subseteq Point
  BY <1>1, RegionIs
<1> QED
  BY <1>1, <1>2, <1>3, <1>4

LEMMA BoardsAreSurrounded == ASSUME NEW b \in Boards PROVE Surrounded(b)
<1> DEFINE Away(S, c) == {p \in S : \A q \in neighbors[p] : b[q] # c}
           IsClosed(S) == \A q \in Border(S) : b[q] # "empty"
           Rest == {p \in Point : b[p] = "empty"} \ (Territory(b, "black") \cup Territory(b, "white"))
<1>1. ASSUME NEW c \in Colour, NEW q \in Border(Territory(b, c)) PROVE b[q] = c
  <2>1. PICK x \in Territory(b, c) : q \in neighbors[x] /\ q \notin Territory(b, c)
    BY <1>1 DEF Border
  <2>2. PICK o \in Point : /\ b[o] = "empty" /\ x \in Flood(b, o)
                           /\ Flood(b, o) \subseteq Territory(b, c)
                           /\ \A y \in Border(Flood(b, o)) : b[y] = c
    BY <2>1, TerritoryIs
  <2>3. q \in Border(Flood(b, o))
    BY <2>1, <2>2 DEF Border
  <2> QED
    BY <2>2, <2>3
<1>2. ASSUME NEW c \in Colour, NEW S \in SUBSET Away(Territory(b, c), c), S # {}, IsClosed(S)
      PROVE  FALSE
  <2>1. PICK p \in S : p \in Territory(b, c)
    BY <1>2
  <2>2. PICK o \in Point : /\ b[o] = "empty" /\ p \in Flood(b, o)
                           /\ \E q \in Border(Flood(b, o)) : b[q] = c
    BY <2>1, TerritoryIs
  <2>3. S \subseteq Point
    BY <1>2, TerritoryIs
  <2>4. Flood(b, o) \subseteq S
    BY <1>2, <2>1, <2>2, <2>3, RegionInside
  <2>5. PICK x \in Flood(b, o) : \E q \in neighbors[x] : b[q] = c
    BY <2>2 DEF Border
  <2> QED
    BY <1>2, <2>4, <2>5
<1>3. ASSUME NEW c \in Colour, NEW S \in SUBSET Away(Rest, c), IsClosed(S),
             NEW p \in S, NEW q \in neighbors[p], b[q] = Opponent(c)
      PROVE  FALSE
  <2>1. S \subseteq Point /\ p \in Point /\ b[p] = "empty" /\ p \notin Territory(b, Opponent(c))
    BY <1>3 DEF Colour, Opponent
  <2>2. p \in Flood(b, p) /\ q \in Border(Flood(b, p))
    BY <1>3, <2>1, RegionIs, Opponents, StoneCell
  <2>3. PICK y \in Border(Flood(b, p)) : b[y] = c
    BY <2>1, <2>2, TerritoryIs, Opponents
  <2>4. PICK x \in Flood(b, p) : y \in neighbors[x]
    BY <2>3 DEF Border
  <2>5. Flood(b, p) \subseteq S
    BY <1>3, <2>1, <2>2, RegionInside
  <2> QED
    BY <1>3, <2>3, <2>4, <2>5
<1>4. \A c \in Colour : [d \in Colour |-> Territory(b, d)][c] = Territory(b, c)
  OBVIOUS
<1>5. "black" \in Colour /\ "white" \in Colour
  BY DEF Colour
<1> QED
  BY <1>1, <1>2, <1>3, <1>4, <1>5 DEF Surrounded
-----------------------------------------------------------------------------
(* Records *)

\* f has the game as its first records tell it, from none to all of them, if
\* those in resigned are resignations.
Tells(f, history, resigned) ==
    f = [n \in 0 .. Len(history) |->
            IF n = 0 THEN Shown(NewGame) ELSE Told(f[n - 1], history[n], n \in resigned)]

Explained(g) ==
    \E resigned \in SUBSET Ambiguous(g.moveHistory) :
        \E f : Tells(f, g.moveHistory, resigned) /\ f[Len(g.moveHistory)] = Shown(g)

\* There is but one way to tell a history: where two first differed, they
\* would have told the same record after the same game.
LEMMA ReplayTells ==
    ASSUME NEW R, NEW history \in Seq(R), NEW resigned, NEW f, Tells(f, history, resigned)
    PROVE  Replay(history, resigned) = f[Len(history)]
<1> DEFINE told == CHOOSE g : g = [n \in 0 .. Len(history) |->
                       IF n = 0 THEN Shown(NewGame) ELSE Told(g[n - 1], history[n], n \in resigned)]
           L == 0 .. Len(history)
<1>1. Replay(history, resigned) = told[Len(history)]
  BY DEF Replay
<1>2. Tells(told, history, resigned)
  BY DEF Tells
<1> HIDE DEF told
<1>3. Len(history) \in Nat
  OBVIOUS
<1>4. /\ \A n \in L : f[n] = IF n = 0 THEN Shown(NewGame)
                              ELSE Told(f[n - 1], history[n], n \in resigned)
      /\ \A n \in L : told[n] = IF n = 0 THEN Shown(NewGame)
                                 ELSE Told(told[n - 1], history[n], n \in resigned)
  <2>1. \A g : Tells(g, history, resigned) =>
           \A n \in L : g[n] = IF n = 0 THEN Shown(NewGame)
                             ELSE Told(g[n - 1], history[n], n \in resigned)
    BY DEF Tells
  <2> QED
    BY <1>2, <2>1
<1> DEFINE Wrong == {0 .. n : n \in {m \in L : told[m] # f[m]}}
<1>5. Wrong = {}
  <2> SUFFICES ASSUME Wrong # {} PROVE FALSE
    OBVIOUS
  <2>1. IsWellFoundedOn(StrictSubsetOrdering(L), SUBSET L)
    <3>1. IsFiniteSet(L)
      BY <1>3, FS_Interval
    <3> HIDE DEF L
    <3> QED
      BY <3>1, FS_FiniteSubsetsOfFinite, FS_StrictSubsetOrderingWellFounded
  <2>2. Wrong \subseteq SUBSET L
    BY <1>3
  <2>3. PICK U \in Wrong : \A W \in Wrong : ~(<<W, U>> \in StrictSubsetOrdering(L))
    <3> HIDE DEF Wrong
    <3> QED
      BY <2>1, <2>2, WFMin
  <2>4. PICK n \in L : told[n] # f[n] /\ U = 0 .. n
    BY <2>3
  <2>5. n # 0 /\ told[n - 1] # f[n - 1] /\ n - 1 \in L
    BY <1>3, <1>4, <2>4
  <2>6. 0 .. (n - 1) \in Wrong
    BY <2>5
  <2>7. 0 .. (n - 1) \subseteq U /\ 0 .. (n - 1) # U /\ U \in SUBSET L /\ 0 .. (n - 1) \in SUBSET L
    BY <1>3, <2>4, <2>5
  <2> QED
    BY <2>3, <2>6, <2>7 DEF StrictSubsetOrdering
<1>6. Len(history) \in L
  BY <1>3
<1>7. told[Len(history)] = f[Len(history)]
  <2>1. ~(told[Len(history)] # f[Len(history)])
    BY <1>5, <1>6
  <2> QED
    BY <2>1
<1> QED
  BY <1>1, <1>7

\* One more record, and what it tells; it may be read as a resignation if it is
\* like one.
LEMMA ExplainedOn ==
    ASSUME NEW R, NEW g, g.moveHistory \in Seq(R), Explained(g), NEW r \in R,
           NEW resigns \in BOOLEAN,
           resigns => ~r.isPass /\ r.point = Corner /\ r.captures = {},
           NEW next, next.moveHistory = Append(g.moveHistory, r),
           Shown(next) = Told(Shown(g), r, resigns)
    PROVE  Explained(next)
<1> DEFINE h == g.moveHistory
           n == Len(h)
           h1 == Append(h, r)
<1>1. PICK resigned \in SUBSET Ambiguous(h) : \E f : Tells(f, h, resigned) /\ f[n] = Shown(g)
  BY DEF Explained
<1>2. PICK f : Tells(f, h, resigned) /\ f[n] = Shown(g)
  BY <1>1
<1>3. /\ n \in Nat /\ Len(h1) = n + 1
      /\ \A i \in 1 .. n : h1[i] = h[i]
      /\ h1[n + 1] = r
  OBVIOUS
<1>4. \A i \in 0 .. n : f[i] = IF i = 0 THEN Shown(NewGame)
                                ELSE Told(f[i - 1], h[i], i \in resigned)
  <2>1. f = [i \in 0 .. n |-> IF i = 0 THEN Shown(NewGame)
                               ELSE Told(f[i - 1], h[i], i \in resigned)]
    BY <1>2 DEF Tells
  <2> QED
    BY <2>1
<1> DEFINE all == IF resigns THEN resigned \cup {n + 1} ELSE resigned
<1>5. resigned \subseteq 1 .. n
  BY DEF Ambiguous
<1> HIDE DEF h1
<1>6. all \subseteq Ambiguous(h1)
  <2>1. \A i \in resigned : ~h[i].isPass /\ h[i].point = Corner /\ h[i].captures = {}
    BY DEF Ambiguous
  <2> HIDE DEF h, n
  <2>2. \A i \in all : /\ i \in 1 .. n + 1
                       /\ ~h1[i].isPass /\ h1[i].point = Corner /\ h1[i].captures = {}
    BY <1>3, <1>5, <2>1
  <2> QED
    BY <1>3, <2>2 DEF Ambiguous
<1> HIDE DEF h, n
<1>7. (n + 1 \in all <=> resigns) /\ \A i \in 1 .. n : i \in all <=> i \in resigned
  BY <1>3, <1>5
<1> DEFINE e == [i \in 0 .. n + 1 |-> IF i = n + 1 THEN Shown(next) ELSE f[i]]
<1> HIDE DEF all
<1>8. e[n + 1] = Shown(next) /\ \A i \in 0 .. n : e[i] = f[i]
  BY <1>3
<1>9. ASSUME NEW i \in 0 .. n + 1
      PROVE  e[i] = IF i = 0 THEN Shown(NewGame) ELSE Told(e[i - 1], h1[i], i \in all)
  <2>1. CASE i = n + 1
    <3>1. i # 0 /\ e[i - 1] = Shown(g) /\ h1[i] = r /\ (i \in all) = resigns
      BY <1>2, <1>3, <1>7, <1>8, <2>1
    <3> QED
      BY <1>8, <2>1, <3>1
  <2>2. CASE i = 0
    BY <1>3, <1>4, <1>8, <2>2
  <2>3. CASE i \in 1 .. n
    <3>1. i - 1 \in 0 .. n /\ i \in 0 .. n /\ i # 0
      BY <1>3, <2>3
    <3>2. /\ e[i] = f[i] /\ e[i - 1] = f[i - 1] /\ h1[i] = h[i]
          /\ (i \in all) = (i \in resigned)
      BY <1>3, <1>7, <1>8, <2>3, <3>1
    <3> QED
      BY <1>4, <3>1, <3>2
  <2> QED
    BY <1>3, <1>9, <2>1, <2>2, <2>3
<1>10. Tells(e, h1, all)
  <2>1. e = [i \in 0 .. n + 1 |-> e[i]]
    OBVIOUS
  <2> HIDE DEF e
  <2>2. e = [i \in 0 .. n + 1 |-> IF i = 0 THEN Shown(NewGame)
                                   ELSE Told(e[i - 1], h1[i], i \in all)]
    BY <1>9, <2>1
  <2> QED
    BY <1>3, <2>2 DEF Tells
<1>11. next.moveHistory = h1
  BY DEF h, h1
<1> HIDE DEF e
<1> QED
  BY <1>3, <1>6, <1>8, <1>10, <1>11 DEF Explained
-----------------------------------------------------------------------------
(* Games *)

Games ==
    [board : Boards, currentTurn : Colour, blackPrisoners : Nat, whitePrisoners : Nat,
     koPoint : Point \cup {NoPoint}, moveHistory : Seq(MoveRecord), status : GameStatus,
     passes : Nat]

\* What holds of every game, stored or in the hands of a handler.
Fair(g) == g \in Games /\ Alive(g.board) /\ Explained(g)

LEMMA NoPointIsNone == NoPoint \notin Point
  BY SizeAssumption DEF NoPoint, Point

LEMMA CornerPoint == Corner \in Point
  BY SizeAssumption DEF Corner, Point

LEMMA NewGameIsFair == Fair(NewGame)
<1>1. NewGame \in Games
  BY DEF NewGame, Games, Boards, Cell, Colour, GameStatus
<1>2. Alive(NewGame.board)
  <2>1. Breathless(NewGame.board) = {}
    BY DEF NewGame, Breathless
  <2> QED
    BY <2>1 DEF Alive
<1>3. Explained(NewGame)
  <2> DEFINE f == [n \in 0 .. 0 |-> Shown(NewGame)]
  <2>1. NewGame.moveHistory = <<>> /\ Len(<<>>) = 0
    BY DEF NewGame
  <2>2. Tells(f, <<>>, {}) /\ f[0] = Shown(NewGame)
    BY DEF Tells
  <2>3. {} \in SUBSET Ambiguous(<<>>)
    OBVIOUS
  <2> HIDE DEF f
  <2> QED
    BY <2>1, <2>2, <2>3 DEF Explained
<1> QED
  BY <1>1, <1>2, <1>3 DEF Fair

LEMMA KoPoints ==
    ASSUME NEW prev, NEW board, NEW p
    PROVE  GetKoPoint(prev, board, p) \in {p, NoPoint}
  BY DEF GetKoPoint

LEMMA PlayedIsFair ==
    ASSUME NEW g, Fair(g), NEW player \in Colour, NEW p \in Point,
           player = g.currentTurn, ValidateMove(g.board, player, p, g.koPoint)
    PROVE  Fair(Played(g, player, p))
<1> DEFINE next == Played(g, player, p)
           taken == Captures(g.board, player, p)
           count == Cardinality(taken)
           board == PlaceStone(g.board, player, p)
           ko == GetKoPoint(g.board, board, p)
           r == [player |-> player, point |-> p, captures |-> taken, isPass |-> FALSE]
           h == Append(g.moveHistory, r)
           black == IF player = "black" THEN g.blackPrisoners + count ELSE g.blackPrisoners
           white == IF player = "white" THEN g.whitePrisoners + count ELSE g.whitePrisoners
<1>0. g \in Games /\ g.board \in Boards
  BY DEF Fair, Games
<1>1. taken \subseteq Point /\ IsFiniteSet(taken) /\ count \in Nat
  <2>1. taken \subseteq Point
    BY <1>0, CapturesAre
  <2> QED
    BY <2>1, PointsFinite, FS_Subset, FS_CardinalityType
<1>2. /\ board \in Boards
      /\ \A q \in Point :
           board[q] = IF q = p THEN player ELSE IF q \in taken THEN "empty" ELSE g.board[q]
  BY <1>0, PlaceStoneIs
<1>3. r \in MoveRecord /\ h \in Seq(MoveRecord) /\ ko \in {p, NoPoint}
  BY <1>0, <1>1, KoPoints DEF MoveRecord, Games
<1>4. /\ black \in Nat /\ white \in Nat
      /\ g.blackPrisoners + (IF player = "black" THEN count ELSE 0) = black
      /\ g.whitePrisoners + (IF player = "white" THEN count ELSE 0) = white
  BY <1>0, <1>1 DEF Games
<1>5. next = [g EXCEPT !.board          = board,
                       !.blackPrisoners = black,
                       !.whitePrisoners = white,
                       !.koPoint        = ko,
                       !.moveHistory    = h,
                       !.passes         = 0,
                       !.currentTurn    = Opponent(player)]
  <2> HIDE DEF board, count, ko, black, white
  <2> QED
    BY <1>0, <1>4 DEF Played, Games, board, count, ko
<1> HIDE DEF taken, count, board, ko, r, h, black, white, next
<1>6. /\ next \in Games /\ next.board = board /\ next.koPoint = ko /\ next.moveHistory = h
      /\ next.currentTurn = Opponent(player) /\ next.passes = 0 /\ next.status = g.status
      /\ next.blackPrisoners = black /\ next.whitePrisoners = white
  <2> DEFINE turn == Opponent(player)
  <2>1. turn \in Colour /\ ko \in Point \cup {NoPoint} /\ board \in Boards
    BY <1>2, <1>3, Opponents
  <2> HIDE DEF turn
  <2>2. next = [board |-> board, currentTurn |-> turn, blackPrisoners |-> black,
                whitePrisoners |-> white, koPoint |-> ko, moveHistory |-> h,
                status |-> g.status, passes |-> 0]
    BY <1>0, <1>5 DEF Games, turn
  <2>3. g.status \in GameStatus
    BY <1>0 DEF Games
  <2>4. next \in Games
    BY <1>3, <1>4, <2>1, <2>2, <2>3 DEF Games
  <2> QED
    BY <2>2, <2>4 DEF turn
<1>7. Alive(next.board)
  BY <1>0, <1>6, MoveKeepsAlive DEF Fair, board
<1>8. Shown(next) = Told(Shown(g), r, FALSE)
  <2> DEFINE s == Shown(g)
             before == [c \in Colour |-> IF c = "black" THEN g.blackPrisoners ELSE g.whitePrisoners]
             after == [c \in Colour |-> IF c = "black" THEN black ELSE white]
  <2>1. s = [board |-> g.board, passes |-> g.passes, status |-> g.status, turn |-> g.currentTurn,
             prisoners |-> before]
    BY DEF Shown
  <2>2. ~r.isPass /\ r.player = player /\ r.point = p /\ r.captures = taken
    BY DEF r
  <2>3. after = [before EXCEPT ![player] = @ + count]
    BY <1>0, <1>1 DEF Games, Colour, black, white
  <2> HIDE DEF s, before, after
  <2>4. Told(s, r, FALSE) = [s EXCEPT !.board = [q \in Point |-> IF q = p THEN player
                                                          ELSE IF q \in taken THEN "empty" ELSE s.board[q]],
                               !.prisoners = [s.prisoners EXCEPT ![player] = @ + count],
                               !.passes = 0,
                               !.turn = Opponent(player)]
    BY <2>1, <2>2 DEF Told, count
  <2>5. s.board = g.board /\ s.prisoners = before
    BY <2>1
  <2>6. Told(s, r, FALSE) = [s EXCEPT !.board = board, !.prisoners = after, !.passes = 0,
                               !.turn = Opponent(player)]
    <3>1. board = [q \in Point |-> IF q = p THEN player
                                   ELSE IF q \in taken THEN "empty" ELSE s.board[q]]
      BY <1>2, <2>5 DEF Boards
    <3> QED
      BY <2>3, <2>4, <2>5, <3>1
  <2>7. Told(s, r, FALSE) = [board |-> board, passes |-> 0, status |-> g.status, turn |-> Opponent(player),
                      prisoners |-> after]
    BY <2>1, <2>6
  <2>8. Shown(next) = [board |-> board, passes |-> 0, status |-> g.status, turn |-> Opponent(player),
                       prisoners |-> after]
    BY <1>6 DEF Shown, after
  <2> QED
    BY <2>7, <2>8 DEF s
<1>9. Explained(next)
  BY <1>0, <1>3, <1>6, <1>8, ExplainedOn DEF Fair, Games, h
<1> QED
  BY <1>6, <1>7, <1>9 DEF Fair, next

LEMMA PassedIsFair ==
    ASSUME NEW g, Fair(g), NEW player \in Colour
    PROVE  Fair(Passed(g, player))
<1> DEFINE next == Passed(g, player)
           r == [player |-> player, point |-> Corner, captures |-> {}, isPass |-> TRUE]
           h == Append(g.moveHistory, r)
           status == IF g.passes + 1 >= 2 THEN "completed"
                     ELSE IF g.status = "playing" THEN "passed" ELSE g.status
<1>0. g \in Games
  BY DEF Fair
<1>1. r \in MoveRecord /\ h \in Seq(MoveRecord)
  BY <1>0, CornerPoint DEF MoveRecord, Games
<1>2. g.passes + 1 \in Nat /\ status \in GameStatus /\ (g.passes + 1 >= 2 <=> g.passes >= 1)
  BY <1>0 DEF Games, GameStatus
<1>3. next = [g EXCEPT !.passes      = g.passes + 1,
                       !.moveHistory = h,
                       !.status      = status,
                       !.koPoint     = NoPoint,
                       !.currentTurn = Opponent(player)]
  BY <1>0 DEF Passed, Games
<1> HIDE DEF r, h, status, next
<1>4. /\ next \in Games /\ next.board = g.board /\ next.koPoint = NoPoint /\ next.moveHistory = h
      /\ next.currentTurn = Opponent(player) /\ next.passes = g.passes + 1 /\ next.status = status
      /\ next.blackPrisoners = g.blackPrisoners /\ next.whitePrisoners = g.whitePrisoners
  BY <1>0, <1>1, <1>2, <1>3, Opponents DEF Games
<1>5. Alive(next.board)
  BY <1>4 DEF Fair
<1>6. Shown(next) = Told(Shown(g), r, FALSE)
  <2> DEFINE s == Shown(g)
             prisoners == [c \in Colour |-> IF c = "black" THEN g.blackPrisoners ELSE g.whitePrisoners]
  <2>1. s = [board |-> g.board, passes |-> g.passes, status |-> g.status, turn |-> g.currentTurn,
             prisoners |-> prisoners]
    BY DEF Shown
  <2>2. r.isPass /\ r.player = player
    BY DEF r
  <2> HIDE DEF s, prisoners
  <2>3. Told(s, r, FALSE) = [s EXCEPT !.passes = g.passes + 1, !.status = status, !.turn = Opponent(player)]
    BY <1>2, <2>1, <2>2 DEF Told, status
  <2>4. Told(s, r, FALSE) = [board |-> g.board, passes |-> g.passes + 1, status |-> status,
                      turn |-> Opponent(player), prisoners |-> prisoners]
    BY <2>1, <2>3
  <2>5. Shown(next) = [board |-> g.board, passes |-> g.passes + 1, status |-> status,
                       turn |-> Opponent(player), prisoners |-> prisoners]
    BY <1>4 DEF Shown, prisoners
  <2> QED
    BY <2>4, <2>5 DEF s
<1>7. Explained(next)
  BY <1>0, <1>1, <1>4, <1>6, ExplainedOn DEF Fair, Games, h
<1> QED
  BY <1>4, <1>5, <1>7 DEF Fair, next

LEMMA ResignedIsFair ==
    ASSUME NEW g, Fair(g), NEW player \in Colour
    PROVE  Fair(Resigned(g, player))
<1> DEFINE next == Resigned(g, player)
           r == [player |-> player, point |-> Corner, captures |-> {}, isPass |-> FALSE]
           h == Append(g.moveHistory, r)
<1>0. g \in Games
  BY DEF Fair
<1>1. r \in MoveRecord /\ h \in Seq(MoveRecord)
  BY <1>0, CornerPoint DEF MoveRecord, Games
<1>2. next = [g EXCEPT !.status = "resigned", !.moveHistory = h]
  BY <1>0 DEF Resigned, Games
<1> HIDE DEF r, h, next
<1>3. /\ next \in Games /\ next.board = g.board /\ next.koPoint = g.koPoint /\ next.moveHistory = h
      /\ next.currentTurn = g.currentTurn /\ next.passes = g.passes /\ next.status = "resigned"
      /\ next.blackPrisoners = g.blackPrisoners /\ next.whitePrisoners = g.whitePrisoners
  BY <1>0, <1>1, <1>2 DEF Games, GameStatus
<1>4. Alive(next.board)
  BY <1>3 DEF Fair
<1>5. Shown(next) = Told(Shown(g), r, TRUE)
  <2>1. Told(Shown(g), r, TRUE) = [Shown(g) EXCEPT !.status = "resigned"]
    BY DEF Told
  <2> QED
    BY <1>3, <2>1 DEF Shown
<1>6. Explained(next)
  <2>1. ~r.isPass /\ r.point = Corner /\ r.captures = {}
    BY DEF r
  <2>2. g.moveHistory \in Seq(MoveRecord) /\ Explained(g)
    BY <1>0 DEF Fair, Games
  <2>3. next.moveHistory = Append(g.moveHistory, r)
    BY <1>3 DEF h
  <2> QED
    BY <1>1, <1>5, <2>1, <2>2, <2>3, ExplainedOn
<1> QED
  BY <1>3, <1>4, <1>6 DEF Fair, next
-----------------------------------------------------------------------------
(* The specification *)

Inv ==
    /\ games = [id \in Game |-> games[id]]
    /\ \A id \in Game : games[id] # NoGame => Fair(games[id])
    /\ slot = [s \in Slot |-> slot[s]]
    /\ \A s \in Slot : slot[s] # Idle => slot[s].id \in Game /\ Fair(slot[s].game)

LEMMA InitInv == Init => Inv
  BY DEF Init, Inv

LEMMA NextInv == Inv /\ [Next]_vars => Inv'
<1> SUFFICES ASSUME Inv, [Next]_vars PROVE Inv'
  OBVIOUS
<1>0. /\ games = [id \in Game |-> games[id]] /\ slot = [s \in Slot |-> slot[s]]
      /\ \A id \in Game : games[id] # NoGame => Fair(games[id])
      /\ \A s \in Slot : slot[s] # Idle => slot[s].id \in Game /\ Fair(slot[s].game)
  BY DEF Inv
\* A handler that has taken a game makes a fair one of it.
<1>h. ASSUME NEW s \in Slot, NEW id \in Game, NEW g, Fair(g), Holds(s, id, g) PROVE Inv'
  <2>1. UNCHANGED games /\ slot' = [slot EXCEPT ![s] = [id |-> id, game |-> g]]
    BY <1>h DEF Holds
  <2>2. slot' = [x \in Slot |-> IF x = s THEN [id |-> id, game |-> g] ELSE slot[x]]
    BY <1>0, <2>1
  <2>3. \A x \in Slot : slot'[x] # Idle => slot'[x].id \in Game /\ Fair(slot'[x].game)
    BY <1>0, <1>h, <2>2
  <2> QED
    BY <1>0, <2>1, <2>2, <2>3 DEF Inv
<1>1. CASE UNCHANGED vars
  BY <1>0, <1>1 DEF vars, Inv
<1>2. ASSUME NEW id \in Game, createGame(id) PROVE Inv'
  <2>1. UNCHANGED slot /\ games' = [games EXCEPT ![id] = NewGame]
    BY <1>2 DEF createGame
  <2>2. games' = [x \in Game |-> IF x = id THEN NewGame ELSE games[x]]
    BY <1>0, <2>1
  <2>3. \A x \in Game : games'[x] # NoGame => Fair(games'[x])
    BY <1>0, <2>2, NewGameIsFair
  <2> QED
    BY <1>0, <2>1, <2>2, <2>3 DEF Inv
<1>3. ASSUME NEW s \in Slot, NEW id \in Game, NEW player \in Colour, NEW p \in Playable,
             playMove(s, id, player, p)
      PROVE  Inv'
  <2>1. p \in Point /\ Fair(games[id])
    BY <1>0, <1>3, GoAssumption DEF playMove, GetGame
  <2>2. Fair(Played(games[id], player, p))
    BY <1>3, <2>1, PlayedIsFair DEF playMove
  <2> QED
    BY <1>3, <1>h, <2>2 DEF playMove
<1>4. ASSUME NEW s \in Slot, NEW id \in Game, NEW player \in Colour, passMove(s, id, player)
      PROVE  Inv'
  <2>1. Fair(Passed(games[id], player))
    BY <1>0, <1>4, PassedIsFair DEF passMove, GetGame
  <2> QED
    BY <1>4, <1>h, <2>1 DEF passMove
<1>5. ASSUME NEW s \in Slot, NEW id \in Game, NEW player \in Colour, resignGame(s, id, player)
      PROVE  Inv'
  <2>1. Fair(Resigned(games[id], player))
    BY <1>0, <1>5, ResignedIsFair DEF resignGame, GetGame
  <2> QED
    BY <1>5, <1>h, <2>1 DEF resignGame
<1>6. ASSUME NEW s \in Slot, UpdateGame(s) PROVE Inv'
  <2>1. /\ slot[s] # Idle /\ games' = [games EXCEPT ![slot[s].id] = slot[s].game]
        /\ slot' = [slot EXCEPT ![s] = Idle]
    BY <1>6 DEF UpdateGame
  <2>2. /\ games' = [x \in Game |-> IF x = slot[s].id THEN slot[s].game ELSE games[x]]
        /\ slot' = [x \in Slot |-> IF x = s THEN Idle ELSE slot[x]]
    BY <1>0, <2>1
  <2>3. \A x \in Game : games'[x] # NoGame => Fair(games'[x])
    BY <1>0, <2>1, <2>2
  <2>4. \A x \in Slot : slot'[x] # Idle => slot'[x].id \in Game /\ Fair(slot'[x].game)
    BY <1>0, <2>2
  <2> QED
    BY <2>2, <2>3, <2>4 DEF Inv
<1>7. CASE Restart
  BY <1>7 DEF Restart, Inv
<1> QED
  BY <1>1, <1>2, <1>3, <1>4, <1>5, <1>6, <1>7 DEF Next

THEOREM GamesAreFair == Spec => []Inv
  BY InitInv, NextInv, PTL DEF Spec

\* Every game, stored or held by a handler, has its type.
THEOREM TypeCorrect == Spec => []TypeOK
<1>1. Inv => TypeOK
  BY DEF Inv, TypeOK, Stored, Fair, Games
<1> QED
  BY <1>1, GamesAreFair, PTL

\* However many handlers overlap, a stored game is what its own records tell,
\* once it is said which of those that look like a resignation are one:
\* UpdateGame loses a move as a whole or not at all.
THEOREM RecordsExplain == Spec => []BoardIsReplay
<1>1. Inv => BoardIsReplay
  <2> SUFFICES ASSUME Inv, NEW id \in Stored
               PROVE  \E resigned \in SUBSET Ambiguous(games[id].moveHistory) :
                         Replay(games[id].moveHistory, resigned) = Shown(games[id])
    BY DEF BoardIsReplay
  <2>1. Fair(games[id])
    BY DEF Inv, Stored
  <2>2. games[id].moveHistory \in Seq(MoveRecord)
    BY <2>1 DEF Fair, Games
  <2> QED
    BY <2>1, <2>2, ReplayTells DEF Fair, Explained
<1> QED
  BY <1>1, GamesAreFair, PTL

\* On a board of any size no group is ever without a liberty: ValidateMove
\* refuses suicide, and PlaceStone takes what a stone leaves breathless.
THEOREM GroupsHaveLiberties == Spec => []NoDeadGroups
<1>1. Inv => NoDeadGroups
  BY DEF Inv, Stored, Fair, NoDeadGroups, Alive
<1> QED
  BY <1>1, GamesAreFair, PTL

\* The scoring gives each side exactly what only that side surrounds, on every
\* board there is.
THEOREM ScoreIsSurrounded == Spec => []TerritoryIsSurrounded
<1>1. Inv => TerritoryIsSurrounded
  <2> SUFFICES ASSUME Inv, NEW id \in Stored PROVE Surrounded(games[id].board)
    BY DEF TerritoryIsSurrounded
  <2>1. games[id].board \in Boards
    BY DEF Inv, Stored, Fair, Games
  <2> QED
    BY <2>1, BoardsAreSurrounded
<1> QED
  BY <1>1, GamesAreFair, PTL
-----------------------------------------------------------------------------
=============================================================================
