SPECIFICATION Spec
CONSTANTS
    Size = 3
    Game = {g1}
    Slot = {s1}
    Playable <- MCPlayable
    MaxMoves = 8
    MaxOverlap = 1
    NoGame = NoGame
INVARIANT KoIsNotRetaken
