SPECIFICATION FairSpec
CONSTANTS
    None = None
    Runs = {r1, r2}
    Changes = {x, y}
    Edits = {e1}
    Starts = {c1}
    Accepts = {a1}
    Picks = {}
    MaxDrafts = 1
    EventBuffer = 2
    MaxPreviews = 1
PROPERTIES RunsEnd DocumentChangesAreReviewed
CHECK_DEADLOCK FALSE
