SPECIFICATION Spec
CONSTANTS
    None = None
    Blue = Blue
    MAX_IMAGES = 3
    Procs <- Images
    MovieOptions <- OneRow
    UserOptions <- SmallImages
INVARIANTS
    SavedImageComplete
    LoadsBack
    PoolBounded
    SkippedAfterFailedFork
PROPERTIES
    MovieEnds
CHECK_DEADLOCK FALSE
