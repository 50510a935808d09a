\* Two processes, every fault.
SPECIFICATION Spec
CONSTANTS
    Process = {p1, p2}
    Target = {t}
    Inode = {i1, i2, i3, i4}
    v1 = v1
    v2 = v2
    ups = ups
    ips = ips
    bad = bad
    Data <- MCData
    Empty = {v2}
    Torn = Torn
    Lost = Lost
    Patch <- MCPatch
    Malformed = {bad}
    Checksummed = {ups}
    Damaged = {}
    Fits <- MCFits
    Outcome <- MCOutcome
    Rejected = Rejected
    None = None
    Faults = {"open", "read", "copy", "create", "write", "flush", "rename", "remove", "crash"}
INVARIANTS IInv TypeOK TargetIntact ReadersSeeComplete
PROPERTIES BackupBeforeChange OkMeansWritten NoTempLeft VerifySeesTarget AtomicSpec
SYMMETRY Symmetry
VIEW View
