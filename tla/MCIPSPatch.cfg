SPECIFICATION Spec
CONSTANTS
    Base = 2
    Magic <- MCMagic
    EofMark <- MCEofMark
    MaxBody = 9
    Patches <- MCPatches
    Sources <- MCSources
INVARIANTS TypeOK LastWriterWins SizeLaw Idempotent ParseFaithful IInv
CHECK_DEADLOCK FALSE
