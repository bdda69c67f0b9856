------------------------------ MODULE GoEngine ------------------------------
(***************************************************************************)
(* The rules engine and the scoring of the Go game: services/go_engine.go  *)
(* and services/go_scoring.go as operators on boards.                      *)
(*                                                                         *)
(* The engine has five breadth-first searches that differ in what they     *)
(* collect; here one Flood gives the points each of them visits.  The      *)
(* order of a search, and of the slices it fills, is left out.             *)
(***************************************************************************)
EXTENDS Integers, FiniteSets

CONSTANT Size   \* the length of a side

ASSUME SizeAssumption == Size \in Nat \ {0}

Colour == {"black", "white"}

Cell == Colour \cup {"empty"}

\* 2 - color instead of 3 - color.
OpponentMutant(colour) == IF colour = "black" THEN "black" ELSE "empty"

Opponent(colour) == IF colour = "black" THEN "white" ELSE "black"

Point == (0 .. Size - 1) \X (0 .. Size - 1)

NoPoint == <<-1, -1>>

Boards == [Point -> Cell]

neighbors[p \in Point] ==
    {<<p[1] + d[1], p[2] + d[2]>> : d \in {<<-1, 0>>, <<1, 0>>, <<0, -1>>, <<0, 1>>}} \cap Point

\* The points a search from p visits that stays on cells like that of p,
\* a layer at a time.
Flood(board, p) ==
    LET search[visited \in SUBSET Point] ==
            LET next == {q \in UNION {neighbors[x] : x \in visited} : board[q] = board[p]}
            IN  IF next \subseteq visited THEN visited ELSE search[visited \cup next]
    IN  search[{p}]

GetGroup(board, p) == IF board[p] = "empty" THEN {} ELSE Flood(board, p)

Border(S) == (UNION {neighbors[q] : q \in S}) \ S

CountLiberties(board, p) ==
    Cardinality({q \in Border(GetGroup(board, p)) : board[q] = "empty"})

removeGroup(board, S) == [q \in Point |-> IF q \in S THEN "empty" ELSE board[q]]

\* What a stone of this colour at p captures.  Two groups of one colour do not
\* touch, so it makes no difference that the code removes one before it counts
\* the liberties of the next.
Captures(board, colour, p) ==
    LET placed == [board EXCEPT ![p] = colour]
    IN  UNION {GetGroup(placed, q) :
                 q \in {n \in neighbors[p] : /\ placed[n] = Opponent(colour)
                                             /\ CountLiberties(placed, n) = 0}}

\* Captured groups stay on the board.
PlaceStoneMutant(board, colour, p) == [board EXCEPT ![p] = colour]

PlaceStone(board, colour, p) ==
    removeGroup([board EXCEPT ![p] = colour], Captures(board, colour, p))

\* Suicide is allowed.
ValidateMoveMutant(board, colour, p, koPoint) ==
    /\ board[p] = "empty"
    /\ p # koPoint

ValidateMove(board, colour, p, koPoint) ==
    /\ board[p] = "empty"
    /\ p # koPoint
    /\ CountLiberties(PlaceStone(board, colour, p), p) > 0

\* The point is that of the stone just placed, not that of the captured one.
GetKoPoint(prevBoard, newBoard, p) ==
    LET diffs == {q \in Point \ {p} : prevBoard[q] # newBoard[q]}
    IN  IF \E q \in Point : /\ diffs = {q}
                            /\ \A n \in neighbors[q] : prevBoard[n] # prevBoard[q]
        THEN p
        ELSE NoPoint
-----------------------------------------------------------------------------
BoundaryColours(board, region) == {board[q] : q \in Border(region)}

Regions(board) == {Flood(board, p) : p \in {q \in Point : board[q] = "empty"}}

\* A region belongs to whoever touches it.
TerritoryMutant(board, colour) ==
    UNION {region \in Regions(board) : colour \in BoundaryColours(board, region)}

\* The empty points that only stones of this colour surround.
Territory(board, colour) ==
    UNION {region \in Regions(board) : BoundaryColours(board, region) = {colour}}

\* Totals are in half points, for the komi of 6.5.  Each side's total has the
\* prisoners the other side took.
CalculateScore(board, blackPrisoners, whitePrisoners) ==
    LET black == 2 * (Cardinality(Territory(board, "black")) + whitePrisoners)
        white == 2 * (Cardinality(Territory(board, "white")) + blackPrisoners) + 13
    IN  [blackTotal |-> black,
         whiteTotal |-> white,
         winner |-> IF black > white THEN "black" ELSE "white",
         margin |-> IF black > white THEN black - white ELSE white - black]
=============================================================================
