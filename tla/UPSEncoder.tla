----------------------------- MODULE UPSEncoder -----------------------------
(***************************************************************************)
(* What a UPS encoder writes: the patches the format is for, which the     *)
(* library reads and does not make.  Sources are also the texts a patch is *)
(* made for.                                                               *)
(*                                                                         *)
(* A zero ends each block; skip is 1 where the byte it stands for counts   *)
(* as a position of the file, 0 where it does not.                         *)
(***************************************************************************)
EXTENDS UPSInv

Difference(s, t) ==
    LET n == Larger(Len(s), Len(t))
    IN [i \in 1 .. n |-> Xor(Resized(s, n)[i], Resized(t, n)[i])]

\* The parts of a difference that have no zero.
Stretches(d) ==
    {r \in [first : DOMAIN d, last : DOMAIN d] :
        r.first <= r.last /\ \A i \in r.first .. r.last : d[i] # 0}

\* The division of a difference into such parts: all that is not zero, in
\* order and with something between.
Layouts(d) ==
    {rs \in UNION {[1 .. n -> Stretches(d)] : n \in 0 .. (Len(d) + 1) \div 2} :
        /\ \A k \in 1 .. Len(rs) - 1 : rs[k].last + 1 < rs[k + 1].first
        /\ \A i \in DOMAIN d : d[i] # 0 =>
              \E k \in DOMAIN rs : rs[k].first <= i /\ i <= rs[k].last}

Distance(rs, skip, k) ==
    rs[k].first - 1 - (IF k = 1 THEN 0 ELSE rs[k - 1].last + skip)

Changed(d, r) == SubSeq(d, r.first, r.last)

Pieces(d, rs, skip) ==
    [k \in 1 .. Len(rs) |-> Encoded[Distance(rs, skip, k)] \o Changed(d, rs[k]) \o <<0>>]

Body(s, t, rs, skip) ==
    Magic \o Encoded[Len(s)] \o Encoded[Len(t)]
      \o Laid(Pieces(Difference(s, t), rs, skip))[Len(rs)] \o Crc(s) \o Crc(t)

MadeFor(s, t, rs, skip) == Body(s, t, rs, skip) \o Crc(Body(s, t, rs, skip))

\* Every patch an encoder makes from one text to another, and for what.
Made ==
    UNION {{[bytes |-> MadeFor(s, t, rs, skip), from |-> s, to |-> t, skip |-> skip,
             layout |-> rs] : rs \in Layouts(Difference(s, t)), skip \in {0, 1}} :
              s \in Sources, t \in Sources}

-----------------------------------------------------------------------------
\* What load and apply were given: the first source is the one that counts.
Given(m) == patch = m.bytes /\ (IF original = <<>> THEN source ELSE original[1]) = m.from

\* Where the patch is m, it applies to what m was made from and gives what it
\* was made for.
Reproduces(m) ==
    Given(m) =>
        /\ pc \notin {"failed", "thrown"}
        /\ pc = "done" /\ source = m.from => output = m.to

\* The encoder and the parser count distances alike.
Alike(m) == m.skip = 0 \/ Len(m.layout) <= 1

\* A UPS patch with one region of changes loads, is valid, and turns its
\* source into its target; so does one with any number of them, if distances
\* are counted from the last byte changed (ups.cc:56-75, 134-171, 193-210).
OneRegionReproduced == \A m \in Made : Alike(m) => Reproduces(m)

-----------------------------------------------------------------------------
(***************************************************************************)
(* Why OneRegionReproduced holds: what of m was read back in each state.   *)
(***************************************************************************)

DifferenceOf(m) == Difference(m.from, m.to)
PiecesOf(m) == Pieces(DifferenceOf(m), m.layout, m.skip)

\* Where the first region of m is written, and where the one behind the k-th.
FirstRegion(m) == 4 + Len(Encoded[Len(m.from)]) + Len(Encoded[Len(m.to)])
BehindRegion(m, k) == FirstRegion(m) + Len(Laid(PiecesOf(m))[k])

BlockOf(m, k) ==
    [offset |-> m.layout[k].first - 1, data |-> Changed(DifferenceOf(m), m.layout[k])]

NotApplied == pc \in {"load", "parse", "loaded", "valid"} => original = <<>>

SizesRead(m) ==
    pc # "load" => src_size = Len(m.from) /\ target_size = Len(m.to)

BlocksRead(m) ==
    /\ Len(blocks) <= Len(m.layout)
    /\ \A k \in 1 .. Len(blocks) : blocks[k] = BlockOf(m, k)
    /\ pc = "load" => blocks = <<>> /\ file_offset = 0
    /\ pc = "parse" =>
          /\ offset = BehindRegion(m, Len(blocks))
          /\ file_offset = IF blocks = <<>> THEN 0 ELSE m.layout[Len(blocks)].last

TrailerRead(m) ==
    pc \notin {"load", "parse"} =>
        /\ Len(blocks) = Len(m.layout)
        /\ src_crc = Crc(m.from) /\ target_crc = Crc(m.to)
        /\ patch_crc = Crc(CheckedPart)

\* A second application is without checksums, so what is verified is the first.
ReadBack(m) ==
    /\ pc \notin {"failed", "thrown"}
    /\ pc \in {"apply", "done"} /\ verify => source = m.from
    /\ SizesRead(m)
    /\ BlocksRead(m)
    /\ TrailerRead(m)

EncoderInv ==
    /\ NotApplied
    /\ \A m \in Made : Alike(m) /\ Given(m) => ReadBack(m)
=============================================================================
