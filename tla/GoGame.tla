------------------------------- MODULE GoGame -------------------------------
(***************************************************************************)
(* The Go games of the server: handlers/go_game.go over the memory store.  *)
(*                                                                         *)
(* A handler gets a deep copy of the game, works on it, and puts the whole *)
(* copy back.  The store's lock covers each of the two calls and nothing   *)
(* in between, so the handlers of a game overlap and the last one wins.    *)
(* Moves are not tied to an account, and nothing but the turn is asked of  *)
(* a move's player: a game that is over takes moves, passes and            *)
(* resignations like any other.                                            *)
(***************************************************************************)
EXTENDS GoEngine, Sequences

CONSTANTS
    Game,       \* ids of games
    Slot,       \* handlers that run at a time
    Playable,   \* the points players ask for
    MaxMoves,   \* bound on the records of a game
    MaxOverlap, \* bound: a game with that many records has one handler at a time
    NoGame      \* no game

ASSUME GoAssumption ==
    /\ Playable \subseteq Point
    /\ MaxMoves \in Nat
    /\ MaxOverlap \in Nat

VARIABLES
    games,      \* the store's map
    slot        \* per handler, the game it will put back

vars == <<games, slot>>

MoveRecord == [player : Colour, point : Point, captures : SUBSET Point, isPass : BOOLEAN]

GameStatus == {"playing", "passed", "resigned", "completed"}

NewGame ==
    [board          |-> [p \in Point |-> "empty"],
     currentTurn    |-> "black",
     blackPrisoners |-> 0,
     whitePrisoners |-> 0,
     koPoint        |-> NoPoint,
     moveHistory    |-> <<>>,
     status         |-> "playing",
     passes         |-> 0]

Idle == [id |-> NoGame, game |-> NoGame]

Init ==
    /\ games = [id \in Game |-> NoGame]
    /\ slot = [s \in Slot |-> Idle]

createGame(id) ==
    /\ games[id] = NoGame
    /\ games' = [games EXCEPT ![id] = NewGame]
    /\ UNCHANGED slot

\* GetGame, with the named bounds; a game that is not there is answered 404.
GetGame(s, id) ==
    /\ slot[s] = Idle
    /\ games[id] # NoGame
    /\ Len(games[id].moveHistory) < MaxMoves
    /\ Len(games[id].moveHistory) < MaxOverlap \/ \A o \in Slot : slot[o].id # id

\* The handler has changed its copy and will put it back.
Holds(s, id, game) ==
    /\ slot' = [slot EXCEPT ![s] = [id |-> id, game |-> game]]
    /\ UNCHANGED games

\* The passes are not reset.
PlayedMutant(g, player, p) ==
    LET captures == Captures(g.board, player, p)
        board    == PlaceStone(g.board, player, p)
        taken(c) == IF player = c THEN Cardinality(captures) ELSE 0
    IN  [g EXCEPT !.board          = board,
                  !.blackPrisoners = @ + taken("black"),
                  !.whitePrisoners = @ + taken("white"),
                  !.koPoint        = GetKoPoint(g.board, board, p),
                  !.moveHistory    = Append(@, [player |-> player, point |-> p,
                                                captures |-> captures, isPass |-> FALSE]),
                  !.currentTurn    = Opponent(player)]

Played(g, player, p) ==
    LET captures == Captures(g.board, player, p)
        board    == PlaceStone(g.board, player, p)
        taken(c) == IF player = c THEN Cardinality(captures) ELSE 0
    IN  [g EXCEPT !.board          = board,
                  !.blackPrisoners = @ + taken("black"),
                  !.whitePrisoners = @ + taken("white"),
                  !.koPoint        = GetKoPoint(g.board, board, p),
                  !.moveHistory    = Append(@, [player |-> player, point |-> p,
                                                captures |-> captures, isPass |-> FALSE]),
                  !.passes         = 0,
                  !.currentTurn    = Opponent(player)]

playMove(s, id, player, p) ==
    /\ GetGame(s, id)
    /\ player = games[id].currentTurn
    /\ ValidateMove(games[id].board, player, p, games[id].koPoint)
    /\ Holds(s, id, Played(games[id], player, p))

Corner == <<0, 0>>

\* A pass is taken from either player, whoever's turn it is.
Passed(g, player) ==
    [g EXCEPT !.passes      = @ + 1,
              !.moveHistory = Append(@, [player |-> player, point |-> Corner,
                                         captures |-> {}, isPass |-> TRUE]),
              !.status      = IF g.passes + 1 >= 2 THEN "completed"
                              ELSE IF @ = "playing" THEN "passed" ELSE @,
              !.koPoint     = NoPoint,
              !.currentTurn = Opponent(player)]

passMove(s, id, player) ==
    /\ GetGame(s, id)
    /\ Holds(s, id, Passed(games[id], player))

\* The record is that of a stone at the first point which captures nothing.
Resigned(g, player) ==
    [g EXCEPT !.status      = "resigned",
              !.moveHistory = Append(@, [player |-> player, point |-> Corner,
                                         captures |-> {}, isPass |-> FALSE])]

resignGame(s, id, player) ==
    /\ GetGame(s, id)
    /\ Holds(s, id, Resigned(games[id], player))

\* The handler puts its copy back, whatever was stored since it read.
UpdateGame(s) ==
    /\ slot[s] # Idle
    /\ games' = [games EXCEPT ![slot[s].id] = slot[s].game]
    /\ slot' = [slot EXCEPT ![s] = Idle]

\* The games are in memory only.
Restart ==
    /\ games' = [id \in Game |-> NoGame]
    /\ slot' = [s \in Slot |-> Idle]

Next ==
    \/ \E id \in Game : createGame(id)
    \/ \E s \in Slot, id \in Game, player \in Colour :
         \/ \E p \in Playable : playMove(s, id, player, p)
         \/ passMove(s, id, player)
         \/ resignGame(s, id, player)
    \/ \E s \in Slot : UpdateGame(s)
    \/ Restart

Spec == Init /\ [][Next]_vars
-----------------------------------------------------------------------------
(* Properties *)

Stored == {id \in Game : games[id] # NoGame}

\* Every game, stored or held by a handler, has its type.
TypeOK ==
    LET IsGame(g) ==
            /\ g.board \in Boards
            /\ g.currentTurn \in Colour
            /\ g.blackPrisoners \in Nat
            /\ g.whitePrisoners \in Nat
            /\ g.koPoint \in Point \cup {NoPoint}
            /\ g.moveHistory \in Seq(MoveRecord)
            /\ g.status \in GameStatus
            /\ g.passes \in Nat
    IN  /\ \A id \in Stored : IsGame(games[id])
        /\ \A s \in Slot : slot[s] # Idle => slot[s].id \in Game /\ IsGame(slot[s].game)

\* What a spectator who knows only the records makes of one of them: stones
\* are set and taken off as the record says, prisoners and passes are counted.
\* Whether it is that of a resignation is for the spectator to say.
Told(g, r, resigns) ==
    CASE resigns -> [g EXCEPT !.status = "resigned"]
      [] ~resigns /\ r.isPass ->
           [g EXCEPT !.passes = @ + 1,
                     !.status = IF g.passes >= 1 THEN "completed"
                                ELSE IF @ = "playing" THEN "passed" ELSE @,
                     !.turn = Opponent(r.player)]
      [] ~resigns /\ ~r.isPass ->
           [g EXCEPT !.board = [p \in Point |-> IF p = r.point THEN r.player
                                                ELSE IF p \in r.captures THEN "empty" ELSE @[p]],
                     !.prisoners[r.player] = @ + Cardinality(r.captures),
                     !.passes = 0,
                     !.turn = Opponent(r.player)]

\* What there is to see of a game.
Shown(g) ==
    [board |-> g.board, passes |-> g.passes, status |-> g.status, turn |-> g.currentTurn,
     prisoners |-> [c \in Colour |-> IF c = "black" THEN g.blackPrisoners ELSE g.whitePrisoners]]

\* The records that may be resignations: they are stored like a stone at the
\* first point that captures nothing.
Ambiguous(history) ==
    {n \in 1 .. Len(history) :
        ~history[n].isPass /\ history[n].point = Corner /\ history[n].captures = {}}

\* The game as its first records tell it, and as all of them do, if those in
\* resigned are resignations.
Replay(history, resigned) ==
    LET told[n \in 0 .. Len(history)] ==
            IF n = 0 THEN Shown(NewGame) ELSE Told(told[n - 1], history[n], n \in resigned)
    IN  told[Len(history)]

\* However handlers overlap (playMove, passMove and resignGame between their
\* GetGame and their UpdateGame), a stored game is one that its own records
\* explain: a move that loses the race is lost as a whole, never in part, and
\* stones that leave the board are prisoners of the player who took them.  The
\* records do not say which of the ambiguous ones are resignations; some
\* reading of them gives the stored game.
BoardIsReplay ==
    \A id \in Stored :
        \E resigned \in SUBSET Ambiguous(games[id].moveHistory) :
            Replay(games[id].moveHistory, resigned) = Shown(games[id])

\* Stones that touch no empty point.
Breathless(b) == {p \in Point : b[p] # "empty" /\ \A q \in neighbors[p] : b[q] # "empty"}

\* S has all of the groups of its stones.
Whole(b, S) == \A p \in S : \A q \in neighbors[p] \ S : b[q] # b[p]

\* No group on a stored board is without a liberty: ValidateMove refuses
\* suicide and PlaceStone takes off whatever a stone leaves breathless.  Said
\* without the engine's search: no set of breathless stones is made of whole
\* groups.
NoDeadGroups ==
    \A id \in Stored :
        \A S \in SUBSET Breathless(games[id].board) : S # {} => ~Whole(games[id].board, S)

\* A stone that takes a single stone is not taken at once by a stone at the
\* same place, which would bring the position before back (go_engine.go:102,
\* "opponent cannot immediately recapture there").
KoIsNotRetaken ==
    \A id \in Stored :
        LET h == games[id].moveHistory
        IN  \A n \in 1 .. Len(h) - 1 :
               ~(h[n].captures = {h[n + 1].point} /\ h[n + 1].captures = {h[n].point})

\* Said without a search, for the empty points that go to one side: they end
\* at stones of that side only, and no part of them that touches no stone is
\* cut off; and for the others: a part that goes nowhere else and touches no
\* stone of one side touches none of the other.
Surrounded(b) ==
    LET Away(S, c) == {p \in S : \A q \in neighbors[p] : b[q] # c}
        IsClosed(S) == \A q \in Border(S) : b[q] # "empty"
        Own == [c \in Colour |-> Territory(b, c)]
        Rest == {p \in Point : b[p] = "empty"} \ (Own["black"] \cup Own["white"])
    IN  \A c \in Colour :
          /\ \A q \in Border(Own[c]) : b[q] = c
          /\ \A S \in SUBSET Away(Own[c], c) : S # {} => ~IsClosed(S)
          /\ \A S \in SUBSET Away(Rest, c) : IsClosed(S) => Away(S, Opponent(c)) = S

\* The scoring (CalculateScore) gives each side what only that side surrounds.
\* (Looked at on the boards of completed games, when no handler holds a copy:
\* every one of them is met like that.)
TerritoryIsSurrounded ==
    \A id \in {i \in Stored : games[i].status = "completed" /\ \A s \in Slot : slot[s] = Idle} :
        Surrounded(games[id].board)
====================
