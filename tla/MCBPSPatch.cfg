\* BPS patches: parsing, validation and application.
SPECIFICATION Spec
CONSTANTS
    Half = 2
    Word = 64
    Magic <- MCMagic
    CrcSize = 1
    Crc <- MCCrc
    MaxAlloc = 12
    MaxBody = 4
    MaxCommands = 3
    Repertoire <- MCRepertoire
    Scripts <- MCScripts
    Patches <- MCPatches
    Sources <- MCSources
INVARIANTS CursorsInside AnswerIsTarget CopiesReproduced IInv
CHECK_DEADLOCK FALSE
