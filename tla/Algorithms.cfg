\* Every input of the pure algorithms up to a length.
CONSTANTS
    Today <- MCToday
    Never <- MCNever
    Slug <- MCSlug
    Words <- MCWords
    Lowered <- MCLowered
    MaxParts = 2
    ListLimit = 2
    Ventures <- MCVentures
    PathVentures <- MCPathVentures
    TextVentures <- MCTextVentures
    Inputs <- MCInputs
    Longest <- MCLongest
    Nodes <- MCNodes
SPECIFICATION Spec
INVARIANTS
    NothingDueHidden AcceptedIsCanonical PathsAreAncestors
    NothingLostWithoutCollision DedupSound ClustersAreComponents
CHECK_DEADLOCK FALSE
