------------------------------ MODULE IPSPatch ------------------------------
(***************************************************************************)
(* The IPS format (src/formats/ips.cc): IPSPatch::load parses the records  *)
(* of a patch, IPSPatch::apply plays them over a source.                   *)
(*                                                                         *)
(* Bytes are digits of a small base, so that every byte string up to a     *)
(* bound is a patch the model tries: whole, truncated, with overlapping    *)
(* records, without an end marker, with the marker in the place of an      *)
(* offset.  In the code Base is 256, Magic "PATCH" and EofMark "EOF".      *)
(***************************************************************************)
EXTENDS Integers, Sequences, FiniteSets

CONSTANTS
    Base,      \* number of values of a byte
    Magic,     \* the 5 bytes of the header
    EofMark,   \* the 3 bytes that end the records
    Patches,   \* the byte strings handed to load
    Sources    \* the byte strings patched

Byte == 0 .. Base - 1

ASSUME IPSAssumption ==
    /\ Base \in Nat \ {0, 1}
    /\ Magic \in Seq(Byte) /\ Len(Magic) = 5
    /\ EofMark \in Seq(Byte) /\ Len(EofMark) = 3
    /\ Patches \subseteq Seq(Byte)
    /\ Sources \subseteq Seq(Byte)

VARIABLES
    patch,    \* patch_data
    pc,       \* "load", "parse", "apply", "done", "failed"
    offset,   \* bytes of patch already parsed
    records,
    is_ips32_format,
    source,   \* the argument of apply
    next,     \* index of the next record to play
    output,   \* the bytes apply is building
    first,    \* history: what the first application gave
    error     \* the error load returned

vars == <<patch, pc, offset, records, is_ips32_format, source, next, output, first, error>>
parsing == <<patch, offset, records, is_ips32_format>>
applying == <<source, next, output, first>>

Errors == {"InvalidPatchFormat", "InvalidPatchHeader", "CorruptedPatchData"}

-----------------------------------------------------------------------------
\* Reading the patch: the byte at an offset, and big-endian numbers.

ByteAt(o) == patch[o + 1]
Be2(o) == ByteAt(o) * Base + ByteAt(o + 1)

AtEof == SubSeq(patch, offset + 1, offset + 3) = EofMark

\* A mistake of the same kind as those below: the size of a run is 0.
RunLengthOfData(r) == r.size

\* The bytes of the output a record names, and what it puts there.
RunLength(r) == IF r.is_rle THEN r.rle_size ELSE r.size
End(r) == r.offset + RunLength(r)
ValueAt(r, i) == IF r.is_rle THEN r.rle_value ELSE r.data[i - r.offset]

-----------------------------------------------------------------------------
(***************************************************************************)
(* Mistakes the code could contain, each a variant of an operator below.   *)
(***************************************************************************)

\* The first byte of an offset is shifted too far.
Be3Wide(o) == ByteAt(o) * Base * Base * Base + Be2(o + 1)
\* The loop ends where no header of a record is left.
MoreForHeader == offset + 5 <= Len(patch)
\* The output always takes the size the record needs.
GrownExactly(out, n) == [i \in 1 .. n |-> IF i <= Len(out) THEN out[i] ELSE 0]
\* The last byte of a record is not written.
CoversShort(r, i) == r.offset < i /\ i < End(r)
\* The record is added to what is there.
WrittenAdding(out, r) ==
    [i \in DOMAIN out |->
        IF r.offset < i /\ i <= End(r) THEN (out[i] + ValueAt(r, i)) % Base ELSE out[i]]

-----------------------------------------------------------------------------
\* Parsing.  After offset and size a run has three more bytes.
Be3(o) == ByteAt(o) * Base * Base + Be2(o + 1)
RleSize == 3
More == offset + 3 <= Len(patch)
Covers(r, i) == r.offset < i /\ i <= End(r)
DataEnd(o, size) == o + 5 + size

RleRecord ==
    [offset |-> Be3(offset), size |-> 0, is_rle |-> TRUE,
     rle_size |-> Be2(offset + 5), rle_value |-> ByteAt(offset + 7), data |-> <<>>]

DataRecord ==
    [offset |-> Be3(offset), size |-> Be2(offset + 3), is_rle |-> FALSE,
     rle_size |-> 0, rle_value |-> 0,
     data |-> SubSeq(patch, offset + 6, offset + 5 + Be2(offset + 3))]

Fail(e) ==
    /\ pc' = "failed"
    /\ error' = e

Load ==
    /\ pc = "load"
    /\ \/ Len(patch) < 8 /\ Fail("InvalidPatchFormat")
       \/ Len(patch) >= 8 /\ SubSeq(patch, 1, 5) # Magic /\ Fail("InvalidPatchHeader")
       \/ /\ Len(patch) >= 8 /\ SubSeq(patch, 1, 5) = Magic
          /\ pc' = "parse"
          /\ UNCHANGED error
    /\ offset' = 5
    /\ UNCHANGED <<patch, records, is_ips32_format, applying>>

\* The end: the marker, or less than three bytes left.
StartApply ==
    /\ pc' = "apply"
    /\ output' = source
    /\ next' = 1
    /\ UNCHANGED <<patch, offset, records, source, first, error>>

ParseEof ==
    /\ pc = "parse" /\ More /\ AtEof
    /\ is_ips32_format' = (offset + 3 + 4 <= Len(patch))
    /\ StartApply

ParseEnd ==
    /\ pc = "parse" /\ ~More
    /\ UNCHANGED is_ips32_format
    /\ StartApply

\* A record that does not fit in the patch.
ParseTruncated ==
    /\ pc = "parse" /\ More /\ ~AtEof
    /\ \/ offset + 5 > Len(patch)
       \/ /\ offset + 5 <= Len(patch)
          /\ IF Be2(offset + 3) = 0
               THEN offset + 5 + RleSize > Len(patch)
               ELSE DataEnd(offset, Be2(offset + 3)) > Len(patch)
    /\ Fail("CorruptedPatchData")
    /\ UNCHANGED <<parsing, applying>>

ParseRle ==
    /\ pc = "parse" /\ More /\ ~AtEof
    /\ offset + 5 <= Len(patch) /\ Be2(offset + 3) = 0
    /\ offset + 5 + RleSize <= Len(patch)
    /\ records' = Append(records, RleRecord)
    /\ offset' = offset + 5 + RleSize
    /\ UNCHANGED <<patch, pc, is_ips32_format, applying, error>>

ParseData ==
    /\ pc = "parse" /\ More /\ ~AtEof
    /\ offset + 5 <= Len(patch) /\ Be2(offset + 3) # 0
    /\ DataEnd(offset, Be2(offset + 3)) <= Len(patch)
    /\ records' = Append(records, DataRecord)
    /\ offset' = DataEnd(offset, Be2(offset + 3))
    /\ UNCHANGED <<patch, pc, is_ips32_format, applying, error>>

\* What one record does to the output: grow with zeroes, then overwrite.
Grown(out, n) ==
    IF n > Len(out) THEN [i \in 1 .. n |-> IF i <= Len(out) THEN out[i] ELSE 0] ELSE out

Written(out, r) == [i \in DOMAIN out |-> IF Covers(r, i) THEN ValueAt(r, i) ELSE out[i]]

ApplyRecord ==
    /\ pc = "apply" /\ next <= Len(records)
    /\ output' = Written(Grown(output, End(records[next])), records[next])
    /\ next' = next + 1
    /\ UNCHANGED <<parsing, pc, source, first, error>>

Finish ==
    /\ pc = "apply" /\ next > Len(records)
    /\ pc' = "done"
    /\ first' = IF first = <<>> THEN <<output>> ELSE first
    /\ UNCHANGED <<parsing, source, next, output, error>>

\* The caller applies the same patch once more, to what it just got.
ApplyAgain ==
    /\ pc = "done" /\ source # output
    /\ pc' = "apply"
    /\ source' = output
    /\ next' = 1
    /\ UNCHANGED <<parsing, output, first, error>>

\* get_metadata: where the last byte of any record goes.
target_size ==
    LET ends == {End(records[i]) : i \in DOMAIN records} \union {0}
    IN CHOOSE m \in ends : \A e \in ends : e <= m

Init ==
    /\ patch \in Patches
    /\ source \in Sources
    /\ pc = "load"
    /\ offset = 0
    /\ records = <<>>
    /\ is_ips32_format = FALSE
    /\ next = 1
    /\ output = <<>>
    /\ first = <<>>
    /\ error = "none"

Next ==
    \/ Load
    \/ ParseEof \/ ParseEnd \/ ParseTruncated \/ ParseRle \/ ParseData
    \/ ApplyRecord \/ Finish \/ ApplyAgain

Spec == Init /\ [][Next]_vars

-----------------------------------------------------------------------------
(***************************************************************************)
(* Properties                                                              *)
(***************************************************************************)

Record ==
    [offset : 0 .. Base * Base * Base - 1, size : 0 .. Base * Base - 1, is_rle : BOOLEAN,
     rle_size : 0 .. Base * Base - 1, rle_value : Byte, data : Seq(Byte)]

\* Every variable has its type, and the fields of a record their widths.
TypeOK ==
    /\ patch \in Seq(Byte) /\ source \in Seq(Byte) /\ output \in Seq(Byte)
    /\ pc \in {"load", "parse", "apply", "done", "failed"}
    /\ offset \in Nat
    /\ records \in Seq(Record)
    /\ \A i \in DOMAIN records :
          records[i].is_rle \/ Len(records[i].data) = records[i].size
    /\ is_ips32_format \in BOOLEAN
    /\ next \in Nat \ {0}
    /\ first \in Seq(Seq(Byte))
    /\ error \in Errors \union {"none"}

\* The bytes a record stands for.
BytesOf(r) == IF r.is_rle THEN [i \in 1 .. r.rle_size |-> r.rle_value] ELSE r.data
Hits(r, i) == i - r.offset \in DOMAIN BytesOf(r)

\* The records played so far have all been written whole, inside the output;
\* where they overlap the last one wins, and what none of them names is the
\* source, or zero behind its end (ips.cc:141-157).
LastWriterWins ==
    pc \in {"apply", "done"} =>
        /\ Len(source) <= Len(output)
        /\ \A k \in 1 .. next - 1 : records[k].offset + Len(BytesOf(records[k])) <= Len(output)
        /\ \A i \in DOMAIN output :
             \/ \E k \in 1 .. next - 1 :
                   /\ Hits(records[k], i)
                   /\ \A j \in k + 1 .. next - 1 : ~Hits(records[j], i)
                   /\ output[i] = BytesOf(records[k])[i - records[k].offset]
             \/ /\ \A k \in 1 .. next - 1 : ~Hits(records[k], i)
                /\ output[i] = IF i <= Len(source) THEN source[i] ELSE 0

\* The output is as long as get_metadata says (ips.cc:122-137), or as the
\* source where that is longer: IPS never shortens a file.
SizeLaw ==
    pc = "done" =>
        Len(output) = IF target_size > Len(source) THEN target_size ELSE Len(source)

\* Without checksums nothing stops a caller from patching a file twice
\* (ips.cc:139); the second time changes nothing.
Idempotent == pc = "done" => output = first[1]

-----------------------------------------------------------------------------
(***************************************************************************)
(* What an encoder writes, and the parser reads                            *)
(***************************************************************************)

Digits2(n) == <<n \div Base, n % Base>>
Digits3(n) == <<n \div (Base * Base), (n \div Base) % Base, n % Base>>

\* The bytes that stand for a record in a patch.
Encode(r) ==
    Digits3(r.offset) \o Digits2(r.size)
      \o (IF r.is_rle THEN Append(Digits2(r.rle_size), r.rle_value) ELSE r.data)

\* One record's bytes behind the other's.
EncodeAll(rs) ==
    LET laid[k \in 0 .. Len(rs)] == IF k = 0 THEN <<>> ELSE laid[k - 1] \o Encode(rs[k])
    IN laid[Len(rs)]

\* Bytes that are one record, neither cut nor followed by another.
IsRecord(bytes) ==
    /\ Len(bytes) >= 5
    /\ LET size == bytes[4] * Base + bytes[5]
       IN Len(bytes) = IF size = 0 THEN 8 ELSE 5 + size

\* What the parser has not read, and whether it begins like the end.
Rest == SubSeq(patch, offset + 1, Len(patch))
Marked == Len(Rest) >= 3 /\ SubSeq(Rest, 1, 3) = EofMark

\* The records are the patch: encoded again they give exactly the bytes read
\* so far, whatever the bytes were, and none of them is written like the end
\* marker.  The parser stops at the marker or where none fits any more, and
\* refuses a patch only for a record that is cut (ips.cc:39-85).
ParseFaithful ==
    /\ pc \in {"parse", "apply", "done"} =>
          SubSeq(patch, 1, offset) = Magic \o EncodeAll(records)
    /\ \A k \in DOMAIN records : Digits3(records[k].offset) # EofMark
    /\ pc \in {"apply", "done"} => Marked \/ Len(Rest) < 3
    /\ error = "CorruptedPatchData" =>
          /\ Len(Rest) >= 3 /\ ~Marked
          /\ \A n \in 1 .. Len(Rest) : ~IsRecord(SubSeq(Rest, 1, n))
=============================================================================
