\* Buffered and mapped readers of a file that changes, every fault.
SPECIFICATION Spec
CONSTANTS
    Contents <- MCContents
    Absent = Absent
    MmapEnabled = TRUE
    Platforms = {"posix", "windows"}
    MaxRange = 4
    Faults = {"open", "mmap", "read"}
INVARIANTS TypeOK BufferFromFile AnswersAreFile MappingIsStable IInv
CHECK_DEADLOCK FALSE
