------------------------------ MODULE UPSPatch ------------------------------
(***************************************************************************)
(* The UPS format (src/formats/ups.cc): UPSPatch::load parses blocks of    *)
(* differences, validate checks the patch against its own checksum, apply  *)
(* XORs the blocks onto a source.                                          *)
(*                                                                         *)
(* Checksums are strings of CrcSize bytes computed by Crc, as calc_crc32   *)
(* leaves them in memory; Xor is the ^ of two bytes.  In the code Magic is *)
(* "UPS1" and CrcSize 4; MaxAlloc is the longest vector that can be        *)
(* allocated, std::vector::resize throws above it.                         *)
(***************************************************************************)
EXTENDS VarInt

CONSTANTS
    Magic,      \* the 4 bytes of the header
    CrcSize,    \* bytes of a checksum
    Crc(_),     \* the checksum of a byte string
    Xor(_, _),
    MaxAlloc,   \* length of the longest output
    Patches,    \* the byte strings handed to load
    Sources     \* the byte strings patched

ASSUME UPSAssumption ==
    /\ Magic \in Seq(Byte) /\ Len(Magic) = 4
    /\ CrcSize \in Nat \ {0}
    /\ \A a, b \in Byte :
          /\ Xor(a, b) \in Byte
          /\ Xor(a, b) = Xor(b, a) /\ Xor(a, 0) = a
          /\ Xor(Xor(a, b), b) = a
          /\ \A c \in Byte : Xor(Xor(a, b), c) = Xor(Xor(a, c), b)
    /\ MaxAlloc \in Nat /\ MaxAlloc < Word
    /\ Patches \subseteq Seq(Byte)
    /\ \A s \in Sources : s \in Seq(Byte) /\ Len(s) <= MaxAlloc

VARIABLES
    patch,      \* patch_data
    pc,         \* "load", "parse", "loaded", "valid", "apply", "done", "failed", "thrown"
    offset,     \* bytes of patch already parsed
    src_size, target_size,
    file_offset,
    blocks,
    src_crc, target_crc, patch_crc,
    source,     \* the argument of apply
    verify,     \* options.verify_checksums of the call
    next,       \* index of the next block to play
    output,     \* the bytes apply is building
    original,   \* history: the source of the first application
    error       \* the error returned

vars == <<patch, pc, offset, src_size, target_size, file_offset, blocks,
          src_crc, target_crc, patch_crc, source, verify, next, output, original, error>>
header == <<src_size, target_size>>
checksums == <<src_crc, target_crc, patch_crc>>
parsed == <<patch, offset, header, file_offset, blocks, checksums>>
applying == <<source, verify, next, output, original>>

Errors == {"InvalidPatchFormat", "InvalidPatchHeader", "SourceSizeMismatch", "ChecksumMismatch"}

Trailer == 3 * CrcSize
BodyEnd == Len(patch) - Trailer
Fail(e) == pc' = "failed" /\ error' = e

Resized(bytes, n) == [i \in 1 .. n |-> IF i <= Len(bytes) THEN bytes[i] ELSE 0]
Larger(m, n) == IF m > n THEN m ELSE n

-----------------------------------------------------------------------------
(***************************************************************************)
(* Mistakes the code could contain, each a variant of an operator below.   *)
(***************************************************************************)

\* The zero that ends a block is taken for one of its bytes.
DataOfWithZero(from) ==
    LET zeros == {i \in from + 1 .. BodyEnd : patch[i] = 0}
    IN SubSeq(patch, from + 1,
              IF zeros = {} THEN BodyEnd ELSE CHOOSE i \in zeros : \A j \in zeros : i <= j)
\* The block replaces what is there.
PlayedOver(out, b) ==
    [i \in DOMAIN out |->
        IF b.offset < i /\ i <= b.offset + Len(b.data) THEN b.data[i - b.offset] ELSE out[i]]
\* The result is checked before it is cut to its size.
AcceptedUncut(out) == Crc(out) = target_crc

-----------------------------------------------------------------------------
\* Parsing.

\* The bytes of the block that starts behind an offset: up to a zero.
DataOf(from) ==
    LET zeros == {i \in from + 1 .. BodyEnd : patch[i] = 0}
    IN SubSeq(patch, from + 1,
              IF zeros = {} THEN BodyEnd ELSE (CHOOSE i \in zeros : \A j \in zeros : i <= j) - 1)

\* file_offset behind a block; the zero that ends it does not count.
PositionAfter(start, data) == (start + Len(data)) % Word

Load ==
    /\ pc = "load"
    /\ \/ /\ Len(patch) < 4 + Trailer
          /\ Fail("InvalidPatchFormat")
          /\ UNCHANGED <<offset, header>>
       \/ /\ Len(patch) >= 4 + Trailer /\ SubSeq(patch, 1, 4) # Magic
          /\ Fail("InvalidPatchHeader")
          /\ UNCHANGED <<offset, header>>
       \/ /\ Len(patch) >= 4 + Trailer /\ SubSeq(patch, 1, 4) = Magic
          /\ LET src == Decode(patch, 4)
                 target == Decode(patch, src.offset)
             IN /\ src_size' = src.value
                /\ target_size' = target.value
                /\ offset' = target.offset
          /\ pc' = "parse"
          /\ UNCHANGED error
    /\ UNCHANGED <<patch, file_offset, blocks, checksums, applying>>

\* One turn of the outer loop: the distance from the last block, then bytes
\* up to a zero or to the trailer.  A block without bytes is dropped.
ParseBlock ==
    /\ pc = "parse" /\ offset < BodyEnd
    /\ LET distance == Decode(patch, offset)
           start == (file_offset + distance.value) % Word
           data == DataOf(distance.offset)
           end == distance.offset + Len(data)
       IN /\ blocks' = IF data = <<>> THEN blocks
                       ELSE Append(blocks, [offset |-> start, data |-> data])
          /\ file_offset' = PositionAfter(start, data)
          /\ offset' = IF end < BodyEnd THEN end + 1 ELSE end
    /\ UNCHANGED <<patch, pc, header, checksums, applying, error>>

ParseTrailer ==
    /\ pc = "parse" /\ offset >= BodyEnd
    /\ src_crc' = SubSeq(patch, BodyEnd + 1, BodyEnd + CrcSize)
    /\ target_crc' = SubSeq(patch, BodyEnd + CrcSize + 1, BodyEnd + 2 * CrcSize)
    /\ patch_crc' = SubSeq(patch, BodyEnd + 2 * CrcSize + 1, Len(patch))
    /\ pc' = "loaded"
    /\ UNCHANGED <<patch, offset, header, file_offset, blocks, applying, error>>

\* validate(); load has already made sure of the size and the header.
CheckedPart == SubSeq(patch, 1, Len(patch) - CrcSize)

Validate ==
    /\ pc = "loaded"
    /\ \/ Crc(CheckedPart) = patch_crc /\ pc' = "valid" /\ UNCHANGED error
       \/ Crc(CheckedPart) # patch_crc /\ Fail("ChecksumMismatch")
    /\ UNCHANGED <<parsed, applying>>

-----------------------------------------------------------------------------
\* Applying.

\* Called on a patch that was loaded, whether or not it was validated; a
\* second time on what the first call gave, without checksums.
StartApply(bytes, v) ==
    /\ verify' = v
    /\ source' = bytes
    /\ next' = 1
    /\ \/ /\ v /\ Len(bytes) # src_size
          /\ Fail("SourceSizeMismatch")
          /\ UNCHANGED output
       \/ /\ v /\ Len(bytes) = src_size /\ Crc(bytes) # src_crc
          /\ Fail("ChecksumMismatch")
          /\ UNCHANGED output
       \/ /\ v => Len(bytes) = src_size /\ Crc(bytes) = src_crc
          /\ IF Larger(Len(bytes), target_size) > MaxAlloc
               THEN pc' = "thrown" /\ UNCHANGED output
               ELSE /\ pc' = "apply"
                    /\ output' = Resized(bytes, Larger(Len(bytes), target_size))
          /\ UNCHANGED error
    /\ UNCHANGED parsed

Apply ==
    /\ pc \in {"loaded", "valid"}
    /\ original' = <<source>>
    /\ \E v \in BOOLEAN : StartApply(source, v)

ApplyAgain ==
    /\ pc = "done" /\ source = original[1] /\ output # source
    /\ StartApply(output, FALSE)
    /\ UNCHANGED original

\* XOR one block onto the part of it that lies in the output.
Played(out, b) ==
    [i \in DOMAIN out |->
        IF b.offset < i /\ i <= b.offset + Len(b.data)
          THEN Xor(out[i], b.data[i - b.offset]) ELSE out[i]]

ApplyBlock ==
    /\ pc = "apply" /\ next <= Len(blocks)
    /\ output' = Played(output, blocks[next])
    /\ next' = next + 1
    /\ UNCHANGED <<parsed, pc, source, verify, original, error>>

Accepted(out) == Crc(Resized(out, target_size)) = target_crc

Finish ==
    /\ pc = "apply" /\ next > Len(blocks)
    /\ output' = Resized(output, target_size)
    /\ \/ verify /\ ~Accepted(output) /\ Fail("ChecksumMismatch")
       \/ (verify => Accepted(output)) /\ pc' = "done" /\ UNCHANGED error
    /\ UNCHANGED <<parsed, source, verify, next, original>>

\* verify_checksums(source, target) answers without an error.
ChecksumsMatch(s, t) == Crc(s) = src_crc /\ Crc(t) = target_crc

Init ==
    /\ patch \in Patches
    /\ source \in Sources
    /\ pc = "load"
    /\ offset = 4
    /\ src_size = 0 /\ target_size = 0
    /\ file_offset = 0
    /\ blocks = <<>>
    /\ src_crc = <<>> /\ target_crc = <<>> /\ patch_crc = <<>>
    /\ verify = FALSE
    /\ next = 1
    /\ output = <<>>
    /\ original = <<>>
    /\ error = "none"

Next ==
    \/ Load \/ ParseBlock \/ ParseTrailer
    \/ Validate
    \/ Apply \/ ApplyAgain \/ ApplyBlock \/ Finish

Spec == Init /\ [][Next]_vars

-----------------------------------------------------------------------------
(***************************************************************************)
(* Properties                                                              *)
(***************************************************************************)

Block == [offset : Number, data : Seq(Byte \ {0}) \ {<<>>}]

\* Every variable has its type.
TypeOK ==
    /\ patch \in Seq(Byte) /\ source \in Seq(Byte) /\ output \in Seq(Byte)
    /\ pc \in {"load", "parse", "loaded", "valid", "apply", "done", "failed", "thrown"}
    /\ offset \in Nat /\ offset <= Larger(4, Len(patch))
    /\ src_size \in Number /\ target_size \in Number /\ file_offset \in Number
    /\ blocks \in Seq(Block)
    /\ src_crc \in Seq(Byte) /\ target_crc \in Seq(Byte) /\ patch_crc \in Seq(Byte)
    /\ verify \in BOOLEAN
    /\ next \in 1 .. Len(blocks) + 1
    /\ original \in Seq(Seq(Byte))
    /\ error \in Errors \union {"none"}

\* Applying a patch to what it made gives back the source, as far as the
\* target reaches: what XOR is for, and true of every patch, also of one
\* whose blocks overlap because file_offset wrapped (ups.cc:59-60, 155-161).
Reversible ==
    pc = "done" /\ source # original[1] => output = Resized(original[1], target_size)

\* An answer that was verified is one verify_checksums confirms, of the size
\* the patch says (ups.cc:136-147, 161-168, 212-224).
VerifiedIsTarget ==
    pc = "done" /\ verify => Len(output) = target_size /\ ChecksumsMatch(source, output)
=============================================================================
