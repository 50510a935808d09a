\* Two files, or one listed twice; the batch is run twice.
SPECIFICATION ProgramsSpec
CONSTANTS
    Batch = batch
    Tool = tool
    Process = {batch, tool}
    t1 = t1
    t2 = t2
    Target = {t1, t2}
    Inode = {i1, i2, i3, i4, i5, i6, i7}
    v1 = v1
    v2 = v2
    v3 = v3
    ups = ups
    raw = raw
    bad = bad
    dmg = dmg
    Data <- MCData
    Empty = {}
    Torn = Torn
    Lost = Lost
    Patch <- MCPatch
    Malformed = {bad}
    Checksummed = {ups, dmg}
    Damaged = {dmg}
    Fits <- MCFits
    Outcome <- MCOutcome
    Rejected = Rejected
    None = None
    Faults = {"copy", "flush", "rename", "crash"}
    BatchLines <- Twice
    ToolLines <- MCToolLines
    MaxRuns <- BatchTwice
INVARIANTS ProgramsTypeOK ProgramsInv NothingLost BackupOneBack PatchedAtMostOnce ReportTrue ToolAnswersTrue
VIEW View
CHECK_DEADLOCK FALSE
