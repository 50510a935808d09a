---------------------------- MODULE PatchFormat ----------------------------
(***************************************************************************)
(* Detection and dispatch (src/patch_base.cc) and what the file operations *)
(* do with the patch they loaded (src/apply.cc), over the three formats:   *)
(* validate_patch for a source, then apply_patch to it, and apply_patch    *)
(* again to the output.                                                    *)
(*                                                                         *)
(* A patch is loaded once here and by every call in the code: loading the  *)
(* same bytes gives the same object.  The variables are those of the three *)
(* formats, so that each step of one of them is a step of this module.     *)
(***************************************************************************)
EXTENDS Integers, Sequences
LOCAL INSTANCE SequencesExt

CONSTANTS
    Half, Word,                     \* of VarInt; a byte has 2 * Half values
    IPSMagic, UPSMagic, BPSMagic,   \* the headers of the formats
    EofMark,                        \* of IPSPatch
    CrcSize, Crc(_), Xor(_, _), MaxAlloc,   \* of UPSPatch and BPSPatch
    Patches,    \* the byte strings handed to load_patch
    Sources     \* the byte strings patched

VARIABLES
    patch, pc, offset, source, next, output, error,    \* of every format
    records, is_ips32_format, first,                   \* of IPS
    src_size, target_size, src_crc, target_crc, patch_crc, verify,  \* of UPS and BPS
    file_offset, blocks, original,                     \* of UPS
    commands, data_offset, source_rel_offset, target_rel_offset, patch_data_offset,  \* of BPS
    format,             \* what detection answered
    call,               \* the call that is running
    valid,              \* what validate_patch answered
    readable,           \* read_file of the source succeeds
    verify_checksums    \* of the options of both applications

common  == <<patch, pc, offset, source, next, output, error>>
ofIPS   == <<records, is_ips32_format, first>>
ofBoth  == <<src_size, target_size, src_crc, target_crc, patch_crc, verify>>
ofUPS   == <<file_offset, blocks, original>>
cursors == <<source_rel_offset, target_rel_offset, patch_data_offset>>
ofBPS   == <<commands, data_offset, cursors>>
asked   == <<readable, verify_checksums>>
vars    == <<common, ofIPS, ofBoth, ofUPS, ofBPS, format, call, valid, asked>>

IPS == INSTANCE IPSPatch WITH Base <- 2 * Half, Magic <- IPSMagic
UPS == INSTANCE UPSPatch WITH Magic <- UPSMagic
BPS == INSTANCE BPSPatch WITH Magic <- BPSMagic

ASSUME PatchFormatAssumption ==
    /\ Half \in Nat \ {0, 1} /\ Word \in Nat \ {0, 1}
    /\ IPSMagic \in Seq(UPS!Byte) /\ UPSMagic \in Seq(UPS!Byte) /\ BPSMagic \in Seq(UPS!Byte)
    /\ Len(IPSMagic) = 5 /\ Len(UPSMagic) = 4 /\ Len(BPSMagic) = 4
    /\ UPSMagic # BPSMagic
    /\ ~IsPrefix(UPSMagic, IPSMagic) /\ ~IsPrefix(BPSMagic, IPSMagic)
    /\ EofMark \in Seq(UPS!Byte) /\ Len(EofMark) = 3
    /\ CrcSize \in Nat \ {0} /\ MaxAlloc \in Nat /\ MaxAlloc < Word
    /\ \A a, b \in UPS!Byte :
          /\ Xor(a, b) \in UPS!Byte
          /\ Xor(a, b) = Xor(b, a) /\ Xor(a, 0) = a
          /\ Xor(Xor(a, b), b) = a
          /\ \A c \in UPS!Byte : Xor(Xor(a, b), c) = Xor(Xor(a, c), b)
    /\ \A p \in Patches : p \in Seq(UPS!Byte) /\ 2 * Len(p) < Word
    /\ \A s \in Sources : s \in Seq(UPS!Byte) /\ Len(s) <= MaxAlloc /\ Len(s) < Word

Errors == IPS!Errors \union UPS!Errors \union BPS!Errors \union {"FileNotFound"}

-----------------------------------------------------------------------------
(***************************************************************************)
(* Mistakes the code could contain; not part of the model.                 *)
(***************************************************************************)

\* Four bytes are compared for each of the formats.
BeginsWithFour(magic) == IsPrefix(SubSeq(magic, 1, 4), patch)
\* Only the size of the source is looked at, or only its checksum.
SourceAnswerBySize ==
    IF src_size > 0 /\ Len(source) # src_size THEN "SourceSizeMismatch" ELSE "Ok"
\* The options do not reach Patch::apply.
PassedOnNever(v) == FALSE

-----------------------------------------------------------------------------
Begins(magic) == IsPrefix(magic, patch)

\* detect_format_from_memory: the formats are tried in this order.
DetectedFormat ==
    IF Begins(IPSMagic) THEN "IPS"
    ELSE IF Begins(UPSMagic) THEN "UPS"
    ELSE IF Begins(BPSMagic) THEN "BPS"
    ELSE "Unknown"

Detect ==
    /\ call = "load" /\ pc = "load" /\ format = "Unknown"
    /\ format' = DetectedFormat
    /\ IF DetectedFormat = "Unknown"
         THEN pc' = "failed" /\ error' = "InvalidPatchFormat"
         ELSE UNCHANGED <<pc, error>>
    /\ UNCHANGED <<patch, offset, source, next, output, ofIPS, ofBoth, ofUPS, ofBPS,
                   call, valid, asked>>

\* A step of the format that was detected.
IPSStep(A) == format = "IPS" /\ A /\ UNCHANGED <<ofBoth, ofUPS, ofBPS>>
UPSStep(A) == format = "UPS" /\ A /\ UNCHANGED <<ofIPS, ofBPS>>
BPSStep(A) == format = "BPS" /\ A /\ UNCHANGED <<ofIPS, ofUPS>>

\* load_patch_from_memory: the loader of the format parses the bytes.
LoadPatch ==
    /\ call = "load"
    /\ \/ IPSStep(IPS!Load \/ IPS!ParseEof \/ IPS!ParseEnd \/ IPS!ParseTruncated
                    \/ IPS!ParseRle \/ IPS!ParseData)
       \/ UPSStep(UPS!Load \/ UPS!ParseBlock \/ UPS!ParseTrailer)
       \/ BPSStep(BPS!Load \/ BPS!ParseCommand \/ BPS!ParseTrailer)
    /\ UNCHANGED <<format, call, valid, asked>>

\* Where the object is when load returned, and when apply is called.
Loaded == IF format = "IPS" THEN "apply" ELSE "loaded"

\* validate() of the format.  IPSPatch::validate repeats the tests of load.
Validate ==
    /\ call = "load" /\ pc = Loaded
    /\ call' = "validate"
    /\ \/ IPSStep(UNCHANGED <<common, ofIPS>>)
       \/ UPSStep(UPS!Validate)
       \/ BPSStep(BPS!Validate)
    /\ UNCHANGED <<format, valid, asked>>

has_checksums == format # "IPS"

SourceAnswer ==
    IF src_size > 0 /\ Len(source) # src_size THEN "SourceSizeMismatch"
    ELSE IF Crc(source) # src_crc THEN "ChecksumMismatch"
    ELSE "Ok"

\* The rest of validate_patch: the metadata against the source, which is not
\* read at all when there are no checksums.
AnswerValidate ==
    /\ call = "validate"
    /\ valid' = IF pc = "failed" THEN error
                ELSE IF ~has_checksums THEN "Ok"
                ELSE IF ~readable THEN "FileNotFound"
                ELSE SourceAnswer
    /\ call' = "apply"
    /\ pc' = Loaded
    /\ error' = "none"
    /\ UNCHANGED <<patch, offset, source, next, output, ofIPS, ofBoth, ofUPS, ofBPS,
                   format, asked>>

PassedOn(v) == v

\* apply_to_file: read the source, then apply.
ApplyPatch ==
    /\ call \in {"apply", "again"}
    /\ readable
    /\ \/ IPSStep(IPS!ApplyRecord \/ IPS!Finish)
       \/ UPSStep(UPS!Apply /\ verify' = PassedOn(verify_checksums))
       \/ UPSStep(UPS!ApplyBlock \/ UPS!Finish)
       \/ BPSStep(BPS!Apply /\ verify' = PassedOn(verify_checksums))
       \/ BPSStep(BPS!SourceRead \/ BPS!TargetRead \/ BPS!SourceCopy \/ BPS!TargetCopy
                    \/ BPS!Finish)
    /\ UNCHANGED <<format, call, valid, asked>>

SourceMissing ==
    /\ call = "apply" /\ pc = Loaded
    /\ ~readable
    /\ pc' = "failed" /\ error' = "FileNotFound"
    /\ UNCHANGED <<patch, offset, source, next, output, ofIPS, ofBoth, ofUPS, ofBPS,
                   format, call, valid, asked>>

\* The caller applies the patch once more, to what it got.
ApplyAgain ==
    /\ call = "apply" /\ pc = "done"
    /\ call' = "again"
    /\ pc' = Loaded
    /\ source' = output
    /\ output' = IF format = "IPS" THEN output ELSE <<>>
    /\ next' = 1
    /\ source_rel_offset' = 0 /\ target_rel_offset' = 0 /\ patch_data_offset' = 0
    /\ UNCHANGED <<patch, offset, error, ofIPS, ofBoth, ofUPS, commands, data_offset,
                   format, valid, asked>>

\* Nothing was loaded into the object yet, and no call was made.
Blank ==
    /\ pc = "load" /\ offset = 0 /\ next = 1 /\ output = <<>> /\ error = "none"
    /\ records = <<>> /\ is_ips32_format = FALSE /\ first = <<>>
    /\ src_size = 0 /\ target_size = 0 /\ verify = FALSE
    /\ src_crc = <<>> /\ target_crc = <<>> /\ patch_crc = <<>>
    /\ file_offset = 0 /\ blocks = <<>> /\ original = <<>>
    /\ commands = <<>> /\ data_offset = 0
    /\ source_rel_offset = 0 /\ target_rel_offset = 0 /\ patch_data_offset = 0
    /\ format = "Unknown" /\ call = "load" /\ valid = "none"

Init ==
    /\ patch \in Patches
    /\ source \in Sources
    /\ Blank
    /\ readable \in BOOLEAN /\ verify_checksums \in BOOLEAN

Next ==
    \/ Detect \/ LoadPatch
    \/ Validate \/ AnswerValidate
    \/ ApplyPatch \/ SourceMissing \/ ApplyAgain

Spec == Init /\ [][Next]_vars

-----------------------------------------------------------------------------
(***************************************************************************)
(* Properties                                                              *)
(***************************************************************************)

\* A patch goes to the one loader that takes its header: the header is never
\* what a loader refuses it for (patch_base.cc:14-39, 50-81).
NeverMisrouted == error # "InvalidPatchHeader"

\* Why Patch::apply turned its source down, if it did.
SourceRefused ==
    /\ call = "apply" /\ pc = "failed"
    /\ error = "SourceSizeMismatch" \/ (error = "ChecksumMismatch" /\ Crc(source) # src_crc)

\* The patch carries its own checksum, which apply does not look at.
Intact == Crc(UPS!CheckedPart) = patch_crc

\* validate_patch and a verifying apply_patch judge a source alike, in three
\* pieces of code: what the one accepts the other does not refuse for its size
\* or checksum, and what was applied had been valid.  Only a patch that says its
\* source is empty escapes the size test of the one (apply.cc:101-130 against
\* ups.cc:136-147 and bps.cc:154-167).
ValidateForetellsApply ==
    call = "apply" /\ has_checksums =>
        /\ valid = "Ok" /\ src_size > 0 => ~SourceRefused
        /\ pc = "done" /\ verify_checksums /\ Intact => valid = "Ok"

\* Applied to its own output, a patch without checksums changes nothing, and one
\* whose checksums are verified is refused, unless it gives source and target
\* the same size and checksum (ips.cc:139, ups.cc:134-171, bps.cc:152-253).
SecondTimeHarmless ==
    call = "again" /\ pc = "done" =>
        IF has_checksums
          THEN verify_checksums => src_size = target_size /\ src_crc = target_crc
          ELSE output = source
=============================================================================
