SPECIFICATION Spec
CONSTANTS
    Size = 3
    Game = {g1}
    Slot = {s1, s2}
    Playable <- MCPlayable
    MaxMoves = 6
    MaxOverlap = 2
    NoGame = NoGame
SYMMETRY Symmetry
INVARIANTS TypeOK BoardIsReplay NoDeadGroups TerritoryIsSurrounded
