\* The instance of Indicators.cfg.
CONSTANTS
    h = h
    x = x
    y = y
    t = t
    o = o
    NoPlayer = NoPlayer
    None = None
    Table = t
    MaxHands = 2
    Deals <- MCDeals
    Rects <- MCRects
    Drops <- MCDrops
SPECIFICATION Spec
CHECK_DEADLOCK FALSE
INVARIANTS
    HeroSeatIsKnown
