\* A UPS patch with two regions of changes, against what README.md:9 says.
SPECIFICATION Spec
CONSTANTS
    Half = 2
    Word = 16
    Magic <- MCMagic
    CrcSize = 1
    Crc <- MCCrc
    Xor <- MCXor
    MaxAlloc = 5
    MaxBody = 1
    Patches <- MCPatches
    Sources <- MCSources
INVARIANT StandardReproduced
CHECK_DEADLOCK FALSE
