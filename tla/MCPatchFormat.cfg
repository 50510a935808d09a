\* Detection, validation and two applications of patches of all formats.
SPECIFICATION Spec
CONSTANTS
    Half = 4
    Word = 1024
    IPSMagic <- HeaderIPS
    UPSMagic <- HeaderUPS
    BPSMagic <- HeaderBPS
    EofMark <- EndIPS
    CrcSize = 1
    Crc <- Checksum
    Xor <- ByteXor
    MaxAlloc = 8
    MaxBody = 2
    Patches <- LoadedPatches
    Sources <- GivenSources
INVARIANTS NeverMisrouted ValidateForetellsApply SecondTimeHarmless IInv
CHECK_DEADLOCK FALSE
