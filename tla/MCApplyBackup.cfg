\* One process, no faults: what becomes of --backup in an apply call.
SPECIFICATION Spec
CONSTANTS
    Process = {p1}
    Target = {t}
    Inode = {i1, i2, i3}
    v1 = v1
    v2 = v2
    ups = ups
    ips = ips
    bad = bad
    Data <- MCData
    Empty = {v2}
    Torn = Torn
    Lost = Lost
    Patch <- MCPatch
    Malformed = {bad}
    Checksummed = {ups}
    Damaged = {}
    Fits <- MCFits
    Outcome <- MCOutcome
    Rejected = Rejected
    None = None
    Faults = {}
INVARIANT BackupOptionHonoured
