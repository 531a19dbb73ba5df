SPECIFICATION FairSpec
CONSTANTS
    x = x  h1 = h1  h2 = h2  l1 = l1  l2 = l2  i1 = i1  i3 = i3  None = None
    Units = {x, h1, h2, l1, l2}
    High = {h1, h2}
    Low = {l1, l2}
    Keys = {}
    NoKey = None
    HistoryLimit = 0
    Sources <- MCSources
    Starter <- MCStarter
    Irs = {i1, i3}
    IrOf <- MCIrOf
    Engines = {web, cli}
    Paths = {}
    JsonPaths = {}
    MaxRevision = 4
    MaxRuns = 3
    MaxSaves = 0
    Recomputes = TRUE
    ServiceFails = TRUE
INVARIANTS IdleDescribesSource
PROPERTIES Settles
CHECK_DEADLOCK FALSE
