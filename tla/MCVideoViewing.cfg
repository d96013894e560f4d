SPECIFICATION FairSpec
CONSTANTS
    Endpoints = {e1}
    NoVideo = NoVideo
    Receivers = {r1, r2}
    None = None
    StarvedLimit = 2
INVARIANTS
    OpenIsHeld
PROPERTIES
    OfferIsShown
    WithdrawnEnds
    FreezeEnds
