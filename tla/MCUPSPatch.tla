----------------------------- MODULE MCUPSPatch -----------------------------
(***************************************************************************)
(* UPS patches over base-4 digits: every body up to MaxBody bytes, longer  *)
(* ones with distances that wrap, and the patches a UPS encoder makes for  *)
(* each pair of sources.                                                   *)
(***************************************************************************)
EXTENDS UPSEncoder, FiniteSets
LOCAL INSTANCE SequencesExt

CONSTANT MaxBody   \* bound: length of the arbitrary bodies

MCMagic == <<1, 2, 3, 0>>
MCXor(a, b) == ((a \div 2 + b \div 2) % 2) * 2 + ((a + b) % 2)
MCCrc(bytes) == <<FoldLeft(LAMBDA acc, b : (3 * acc + b + 1) % 4, Len(bytes) % 4, bytes)>>

-----------------------------------------------------------------------------
MCSources == {<<>>, <<2>>, <<1, 3>>, <<1, 0, 3>>, <<2, 0, 1, 3>>, <<1, 0, 2, 1>>, <<1, 1, 2, 3>>}

\* A distance that makes file_offset wrap: 0+2+... digits beyond Word.
Far == {<<0, 0, 0, 3>>, <<1, 1, 1, 2>>, <<1, 1, 1, 1, 3>>}
Near == {Encoded[0], Encoded[2]}
Stretch == {<<1>>, <<3, 2>>, <<2, 0>>, <<1, 1, 0>>, <<0>>}

Bodies ==
    BoundedSeq(Byte, MaxBody)
      \union {Encoded[2] \o Encoded[n] \o a \o x \o b \o y :
                 n \in {1, 3}, a \in Near, x \in Stretch, b \in Near \union Far, y \in Stretch}

Trailers == {<<0, 1, 2>>, <<0, 3, 1>>}

MCPatches ==
    {Magic \o b \o t : b \in Bodies, t \in Trailers}
      \union {m.bytes : m \in Made}
      \union {<<1, 2, 0, 0, 2, 2, 1, 1, 1>>}

-----------------------------------------------------------------------------
\* README.md:9: "Supports IPS, UPS, and BPS patch formats", that is, every
\* patch a UPS encoder makes: the zero that ends a block counts as a position.
StandardReproduced == \A m \in Made : m.skip = 1 => Reproduces(m)
=============================================================================
