\* UPS patches: parsing, validation and application.
SPECIFICATION Spec
CONSTANTS
    Half = 2
    Word = 16
    Magic <- MCMagic
    CrcSize = 1
    Crc <- MCCrc
    Xor <- MCXor
    MaxAlloc = 5
    MaxBody = 4
    Patches <- MCPatches
    Sources <- MCSources
INVARIANTS Reversible VerifiedIsTarget OneRegionReproduced IInv
CHECK_DEADLOCK FALSE
