------------------------------ MODULE BPSPatch ------------------------------
(***************************************************************************)
(* The BPS format (src/formats/bps.cc): BPSPatch::load parses commands,    *)
(* validate checks the patch against its own checksum, apply runs the      *)
(* commands, which copy from the source, from the patch or from the output *)
(* made so far.                                                            *)
(*                                                                         *)
(* Checksums and MaxAlloc are as in UPSPatch: strings of CrcSize bytes,    *)
(* and the length above which the growing output can't be allocated.       *)
(***************************************************************************)
EXTENDS VarInt

CONSTANTS
    Magic,      \* the 4 bytes of the header
    CrcSize,    \* bytes of a checksum
    Crc(_),     \* the checksum of a byte string
    MaxAlloc,   \* length of the longest output
    Patches,    \* the byte strings handed to load
    Sources     \* the byte strings patched

ASSUME BPSAssumption ==
    /\ Magic \in Seq(Byte) /\ Len(Magic) = 4
    /\ CrcSize \in Nat \ {0}
    /\ MaxAlloc \in Nat /\ MaxAlloc < Word
    /\ Patches \subseteq Seq(Byte)
    /\ \A s \in Sources : s \in Seq(Byte) /\ Len(s) < Word
    /\ \A p \in Patches : 2 * Len(p) < Word    \* no vector is longer than PTRDIFF_MAX

VARIABLES
    patch,      \* patch_data
    pc,         \* "load", "parse", "loaded", "valid", "apply", "done", "failed", "thrown"
    offset,     \* bytes of patch already parsed
    src_size, target_size,
    commands,
    data_offset,
    src_crc, target_crc, patch_crc,
    source,     \* the argument of apply
    verify,     \* options.verify_checksums of the call
    next,       \* index of the next command to run
    output,
    source_rel_offset, target_rel_offset, patch_data_offset,
    error       \* the error returned

vars == <<patch, pc, offset, src_size, target_size, commands, data_offset,
          src_crc, target_crc, patch_crc, source, verify, next, output,
          source_rel_offset, target_rel_offset, patch_data_offset, error>>
checksums == <<src_crc, target_crc, patch_crc>>
header == <<src_size, target_size, data_offset>>
parsed == <<patch, offset, header, commands, checksums>>
cursors == <<source_rel_offset, target_rel_offset, patch_data_offset>>
applying == <<source, verify, next, output, cursors>>

Errors == {"InvalidPatchFormat", "InvalidPatchHeader", "SourceSizeMismatch", "ChecksumMismatch"}
Action == {"SourceRead", "TargetRead", "SourceCopy", "TargetCopy"}

Trailer == 3 * CrcSize
BodyEnd == Len(patch) - Trailer
Fail(e) == pc' = "failed" /\ error' = e

-----------------------------------------------------------------------------
(***************************************************************************)
(* Mistakes the code could contain, each a variant of an operator below.   *)
(***************************************************************************)

\* The length of a command is not one more than what is written.
LengthOfPlain(encoded) == encoded \div 4
\* The output is not compared with the target checksum.
AcceptedBySize(out) == Len(out) = target_size
\* The cursor stays at the start of the copy, or moves a byte too far.
BehindCopyStale(from, length) == from
BehindCopyPast(from, length) == from + length + 1

-----------------------------------------------------------------------------
\* Parsing.

ActionOf(encoded) ==
    CASE encoded % 4 = 0 -> "SourceRead"
      [] encoded % 4 = 1 -> "TargetRead"
      [] encoded % 4 = 2 -> "SourceCopy"
      [] encoded % 4 = 3 -> "TargetCopy"

LengthOf(encoded) == encoded \div 4 + 1

IsCopy(action) == action \in {"SourceCopy", "TargetCopy"}

\* Sizes, then the metadata string, which is skipped.  A metadata_size so
\* large that the end of the string wraps passes the check and makes
\* std::string::assign throw.
Load ==
    /\ pc = "load"
    /\ \/ /\ Len(patch) < 4 + Trailer
          /\ Fail("InvalidPatchFormat")
          /\ UNCHANGED <<offset, header>>
       \/ /\ Len(patch) >= 4 + Trailer /\ SubSeq(patch, 1, 4) # Magic
          /\ Fail("InvalidPatchHeader")
          /\ UNCHANGED <<offset, header>>
       \/ /\ Len(patch) >= 4 + Trailer /\ SubSeq(patch, 1, 4) = Magic
          /\ LET src == Decode(patch, 4)
                 target == Decode(patch, src.offset)
                 metadata == Decode(patch, target.offset)
             IN /\ src_size' = src.value
                /\ target_size' = target.value
                /\ offset' = metadata.offset + metadata.value
                /\ data_offset' = offset'
                /\ IF (metadata.offset + metadata.value) % Word > Len(patch)
                     THEN Fail("InvalidPatchFormat")
                     ELSE /\ pc' = IF metadata.value > Len(patch) THEN "thrown" ELSE "parse"
                          /\ UNCHANGED error
    /\ UNCHANGED <<patch, commands, checksums, applying>>

\* One turn of the loop.  The bytes of a TargetRead are not skipped.
ParseCommand ==
    /\ pc = "parse" /\ offset < BodyEnd
    /\ LET encoded == Decode(patch, offset)
           action == ActionOf(encoded.value)
           delta == IF IsCopy(action) THEN Decode(patch, encoded.offset)
                    ELSE [value |-> 0, offset |-> encoded.offset]
       IN /\ commands' = Append(commands,
                [action |-> action, length |-> LengthOf(encoded.value),
                 offset_delta |-> delta.value])
          /\ offset' = delta.offset
    /\ UNCHANGED <<patch, pc, header, checksums, applying, error>>

ParseTrailer ==
    /\ pc = "parse" /\ offset >= BodyEnd
    /\ src_crc' = SubSeq(patch, BodyEnd + 1, BodyEnd + CrcSize)
    /\ target_crc' = SubSeq(patch, BodyEnd + CrcSize + 1, BodyEnd + 2 * CrcSize)
    /\ patch_crc' = SubSeq(patch, BodyEnd + 2 * CrcSize + 1, Len(patch))
    /\ pc' = "loaded"
    /\ UNCHANGED <<patch, offset, header, commands, applying, error>>

\* validate(); load has already made sure of the size and the header.
CheckedPart == SubSeq(patch, 1, Len(patch) - CrcSize)

Validate ==
    /\ pc = "loaded"
    /\ \/ Crc(CheckedPart) = patch_crc /\ pc' = "valid" /\ UNCHANGED error
       \/ Crc(CheckedPart) # patch_crc /\ Fail("ChecksumMismatch")
    /\ UNCHANGED <<parsed, applying>>

-----------------------------------------------------------------------------
\* Applying.

\* The size is checked whatever the options, the checksum when asked for.
Apply ==
    /\ pc \in {"loaded", "valid"}
    /\ \E v \in BOOLEAN :
         /\ verify' = v
         /\ \/ Len(source) # src_size /\ Fail("SourceSizeMismatch")
            \/ /\ Len(source) = src_size /\ v /\ Crc(source) # src_crc
               /\ Fail("ChecksumMismatch")
            \/ /\ Len(source) = src_size /\ (v => Crc(source) = src_crc)
               /\ pc' = IF target_size > MaxAlloc THEN "thrown" ELSE "apply"
               /\ UNCHANGED error
    /\ patch_data_offset' = data_offset
    /\ UNCHANGED <<parsed, source, next, output, source_rel_offset, target_rel_offset>>

Running(action) ==
    /\ pc = "apply" /\ next <= Len(commands)
    /\ commands[next].action = action
    /\ next' = next + 1
    /\ UNCHANGED <<parsed, source, verify>>

Reject ==
    /\ Fail("InvalidPatchFormat")
    /\ UNCHANGED <<output, cursors>>

\* Append to the output, or run out of memory.
Emit(bytes) ==
    /\ UNCHANGED error
    /\ IF Len(output) + Len(bytes) > MaxAlloc
         THEN pc' = "thrown" /\ UNCHANGED output
         ELSE output' = output \o bytes /\ UNCHANGED pc

InSource(from, length) == 0 <= from /\ from + length <= Len(source)

\* A distance carries its sign in the lowest bit.
Moved(cursor, delta) ==
    IF delta % 2 = 1 THEN cursor - delta \div 2 ELSE cursor + delta \div 2

BehindCopy(from, length) == from + length

SourceRead ==
    /\ Running("SourceRead")
    /\ LET length == commands[next].length
           end == source_rel_offset + length
       IN \/ end > Len(source) /\ Reject
          \/ /\ end <= Len(source)
             /\ Emit(SubSeq(source, source_rel_offset + 1, end))
             /\ source_rel_offset' = end
             /\ UNCHANGED <<target_rel_offset, patch_data_offset>>

TargetRead ==
    /\ Running("TargetRead")
    /\ LET length == commands[next].length
           end == patch_data_offset + length
       IN \/ end > BodyEnd /\ Reject
          \/ /\ end <= BodyEnd
             /\ Emit(SubSeq(patch, patch_data_offset + 1, end))
             /\ patch_data_offset' = end
             /\ UNCHANGED <<source_rel_offset, target_rel_offset>>

SourceCopy ==
    /\ Running("SourceCopy")
    /\ LET length == commands[next].length
           from == Moved(source_rel_offset, commands[next].offset_delta)
       IN \/ ~InSource(from, length) /\ Reject
          \/ /\ InSource(from, length)
             /\ Emit(SubSeq(source, from + 1, from + length))
             /\ source_rel_offset' = BehindCopy(from, length)
             /\ UNCHANGED <<target_rel_offset, patch_data_offset>>

\* Byte after byte, so that a copy may read what it wrote: the check in the
\* loop cannot fail, each turn has the byte of the turn before behind it.
RunOf(out, from, length) ==
    LET run[k \in 1 .. length] ==
          IF from + k <= Len(out) THEN out[from + k] ELSE run[from + k - Len(out)]
    IN run

TargetCopy ==
    /\ Running("TargetCopy")
    /\ LET length == commands[next].length
           from == Moved(target_rel_offset, commands[next].offset_delta)
       IN \/ from \notin 0 .. Len(output) - 1 /\ Reject
          \/ /\ from \in 0 .. Len(output) - 1
             /\ Emit(RunOf(output, from, length))
             /\ target_rel_offset' = BehindCopy(from, length)
             /\ UNCHANGED <<source_rel_offset, patch_data_offset>>

Accepted(out) == Len(out) = target_size /\ (verify => Crc(out) = target_crc)

Finish ==
    /\ pc = "apply" /\ next > Len(commands)
    /\ \/ Accepted(output) /\ pc' = "done" /\ UNCHANGED error
       \/ /\ ~Accepted(output)
          /\ Fail(IF Len(output) # target_size THEN "InvalidPatchFormat" ELSE "ChecksumMismatch")
    /\ UNCHANGED <<parsed, applying>>

\* verify_checksums(source, target) answers without an error.
ChecksumsMatch(s, t) == Crc(s) = src_crc /\ Crc(t) = target_crc

Init ==
    /\ patch \in Patches
    /\ source \in Sources
    /\ pc = "load"
    /\ offset = 4
    /\ src_size = 0 /\ target_size = 0 /\ data_offset = 0
    /\ commands = <<>>
    /\ src_crc = <<>> /\ target_crc = <<>> /\ patch_crc = <<>>
    /\ verify = FALSE
    /\ next = 1
    /\ output = <<>>
    /\ source_rel_offset = 0 /\ target_rel_offset = 0 /\ patch_data_offset = 0
    /\ error = "none"

Next ==
    \/ Load \/ ParseCommand \/ ParseTrailer
    \/ Validate
    \/ Apply \/ SourceRead \/ TargetRead \/ SourceCopy \/ TargetCopy \/ Finish

Spec == Init /\ [][Next]_vars

-----------------------------------------------------------------------------
(***************************************************************************)
(* Properties                                                              *)
(***************************************************************************)

Command == [action : Action, length : Number \ {0}, offset_delta : Number]

\* Every variable has its type.
TypeOK ==
    /\ patch \in Seq(Byte) /\ source \in Seq(Byte) /\ output \in Seq(Byte)
    /\ pc \in {"load", "parse", "loaded", "valid", "apply", "done", "failed", "thrown"}
    /\ offset \in Nat /\ data_offset \in Nat
    /\ src_size \in Number /\ target_size \in Number
    /\ commands \in Seq(Command)
    /\ src_crc \in Seq(Byte) /\ target_crc \in Seq(Byte) /\ patch_crc \in Seq(Byte)
    /\ verify \in BOOLEAN
    /\ next \in 1 .. Len(commands) + 1
    /\ source_rel_offset \in Int /\ target_rel_offset \in Int /\ patch_data_offset \in Nat
    /\ error \in Errors \union {"none"}

\* However the commands move them, the cursors point into the source and the
\* output or right behind them: the code adds them to begin() (bps.cc:176-231).
CursorsInside ==
    pc \in {"apply", "done"} =>
        /\ source_rel_offset \in 0 .. Len(source)
        /\ target_rel_offset \in 0 .. Len(output)
        /\ patch_data_offset = data_offset \/ patch_data_offset <= BodyEnd

\* An answer has the size the patch says and one that was verified is one
\* verify_checksums confirms (bps.cc:154-167, 237-250, 296-313).
AnswerIsTarget ==
    pc = "done" =>
        /\ Len(source) = src_size /\ Len(output) = target_size
        /\ verify => ChecksumsMatch(source, output)
=============================================================================
