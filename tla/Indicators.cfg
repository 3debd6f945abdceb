\* Two hands of three, an import, two places of the window.
CONSTANTS
    h = h
    x = x
    y = y
    t = t
    o = o
    NoPlayer = NoPlayer
    None = None
    Table = t
    MaxHands = 2
    Deals <- MCDeals
    Rects <- MCRects
    Drops <- MCDrops
SPECIFICATION Spec
CHECK_DEADLOCK FALSE
INVARIANTS
    TypeOK
    IndicatorsMatchStats
    HeroAtTheBottom
    OffsetIsKept
PROPERTIES
    StatsMatchHands
