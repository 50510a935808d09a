----------------------------- MODULE MCBPSPatch -----------------------------
(***************************************************************************)
(* BPS patches over base-4 digits: every body up to MaxBody bytes, and     *)
(* what a BPS encoder writes for up to MaxCommands commands, those that    *)
(* have a meaning for a source with the checksums of what they make.       *)
(***************************************************************************)
EXTENDS BPSEncoder
LOCAL INSTANCE SequencesExt

CONSTANTS
    MaxBody,       \* bound: length of the arbitrary bodies
    MaxCommands,   \* bound: commands of an encoded patch
    Repertoire     \* the commands they are taken from

MCMagic == <<1, 2, 3, 0>>
MCCrc(bytes) == <<FoldLeft(LAMBDA acc, b : (3 * acc + b + 1) % 4, Len(bytes) % 4, bytes)>>

Read(action, n, bytes) == [action |-> action, length |-> n, distance |-> 0, data |-> bytes]
Copy(action, n, d) == [action |-> action, length |-> n, distance |-> d, data |-> <<>>]

MCSources == {<<>>, <<2>>, <<1, 0, 3>>}

MCRepertoire ==
    {Read("SourceRead", 1, <<>>), Read("SourceRead", 2, <<>>),
     Read("TargetRead", 1, <<3>>), Read("TargetRead", 2, <<2, 1>>),
     Copy("SourceCopy", 1, 1), Copy("SourceCopy", 2, 0), Copy("SourceCopy", 1, -2),
     Copy("TargetCopy", 1, 0), Copy("TargetCopy", 3, 0), Copy("TargetCopy", 2, -1)}

MCScripts == UNION {[1 .. n -> Repertoire] : n \in 0 .. MaxCommands}

\* Scripts without a meaning; output without end; metadata that fits, that does
\* not, and whose end wraps.
Odd ==
    {EncodedCommands(cs) : cs \in {c \in Scripts : Len(c) <= 2 /\ ~HasMeaning(<<1, 0, 3>>, c)}}
Long ==
    EncodedCommands(<<Read("SourceRead", 1, <<>>), Copy("TargetCopy", MaxAlloc, 0)>>)
Bodies ==
    BoundedSeq(Byte, MaxBody)
      \union {Encoded[3] \o Encoded[n] \o Encoded[0] \o b : n \in {1, 2}, b \in Odd}
      \union {Encoded[1] \o Encoded[1] \o Encoded[0] \o Long, Encoded[1] \o Encoded[MaxAlloc + 1]}
      \union {Encoded[1] \o Encoded[1] \o Encoded[n] \o <<0, 1, 2>> \o Long : n \in {3, 13, Word - 5}}

Trailers == {<<0, 1, 2>>, <<3, 0, 1>>}

MCPatches ==
    {Magic \o b \o t : b \in Bodies, t \in Trailers}
      \union {m.bytes : m \in Made}
      \union {<<1, 2, 0, 0, 2, 2, 2, 1, 1, 1>>}

-----------------------------------------------------------------------------
\* README.md:9: "Supports IPS, UPS, and BPS patch formats", that is, also the
\* patches that carry new bytes, which stand behind the TargetRead.
TargetReadReproduced == \A m \in Made : Has(m, "TargetRead") => Reproduces(m)
=============================================================================
