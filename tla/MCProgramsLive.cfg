\* One file, listed twice: does every run end?
SPECIFICATION FairSpec
CONSTANTS
    Batch = batch
    Tool = tool
    Process = {batch, tool}
    t1 = t1
    t2 = t2
    Target = {t1}
    Inode = {i1, i2, i3, i4}
    v1 = v1
    v2 = v2
    v3 = v3
    ups = ups
    raw = raw
    bad = bad
    dmg = dmg
    Data <- MCData
    Empty = {}
    Torn = Torn
    Lost = Lost
    Patch <- MCPatch
    Malformed = {bad}
    Checksummed = {ups, dmg}
    Damaged = {dmg}
    Fits <- MCFits
    Outcome <- MCOutcome
    Rejected = Rejected
    None = None
    Faults = {"copy", "rename", "remove", "crash"}
    BatchLines <- Short
    ToolLines <- ShortToolLines
    MaxRuns <- ToolTwice
PROPERTY EveryRunEnds
CHECK_DEADLOCK FALSE
