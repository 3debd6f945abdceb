\* Two files of at most two hands together, the first one cut anywhere.
CONSTANTS
    a = a
    b = b
    s = s
    None = None
    Parsers = {p1, p2}
    Live = p1
    Players = {a, b, s}
    Spaced = {s}
    Scripts <- MCScripts
    MaxHands = 2
SPECIFICATION FairSpec
CHECK_DEADLOCK FALSE
INVARIANTS
    TypeOK
    HandsAreRead
    PlayersOfHandsAreKnown
    HeroesAreKept
    AbortsHaveCause
PROPERTIES
    CompleteFilesAreRead
