SPECIFICATION Spec
CONSTANTS
    None = None
    Runs = {r1, r2}
    Changes = {x}
    Edits = {}
    Starts = {c1, c2}
    Accepts = {a1}
    Picks = {p1, p2}
    MaxDrafts = 1
    EventBuffer = 2
    MaxPreviews = 2
INVARIANTS ActiveRunIsAlive PreviewShowsVariant VariantMatchesTicks
PROPERTIES PendingReviewStays
SYMMETRY Symmetry
CHECK_DEADLOCK FALSE
