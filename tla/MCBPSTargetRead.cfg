\* A BPS patch with bytes of its own, against what README.md:9 says.
SPECIFICATION Spec
CONSTANTS
    Half = 2
    Word = 64
    Magic <- MCMagic
    CrcSize = 1
    Crc <- MCCrc
    MaxAlloc = 12
    MaxBody = 1
    MaxCommands = 2
    Repertoire <- MCRepertoire
    Scripts <- MCScripts
    Patches <- MCPatches
    Sources <- MCSources
INVARIANT TargetReadReproduced
CHECK_DEADLOCK FALSE
