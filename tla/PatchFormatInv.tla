--------------------------- MODULE PatchFormatInv ---------------------------
(***************************************************************************)
(* The inductive invariant of PatchFormat, in named parts.  One part says  *)
(* that each format's own invariant holds between the calls as well.       *)
(***************************************************************************)
EXTENDS PatchFormat

IPSInvariant == INSTANCE IPSInv WITH Base <- 2 * Half, Magic <- IPSMagic
UPSInvariant == INSTANCE UPSInv WITH Magic <- UPSMagic
BPSInvariant == INSTANCE BPSInv WITH Magic <- BPSMagic

-----------------------------------------------------------------------------
\* A loader is only given patches with its header.
Routed ==
    /\ format \in {"Unknown", "IPS", "UPS", "BPS"}
    /\ call \in {"load", "validate", "apply", "again"}
    /\ call # "load" => format # "Unknown"
    /\ format = "IPS" => Begins(IPSMagic)
    /\ format = "UPS" => Begins(UPSMagic)
    /\ format = "BPS" => Begins(BPSMagic)
    /\ NeverMisrouted

\* What each of the two calls finds out about the checksums.
Judged ==
    /\ call = "validate" /\ has_checksums =>
          IF Intact THEN pc = "valid" ELSE pc = "failed" /\ error = "ChecksumMismatch"
    /\ call = "apply" /\ has_checksums =>
          /\ valid = "Ok" <=> Intact /\ readable /\ SourceAnswer = "Ok"
          /\ error = "SourceSizeMismatch" => Len(source) # src_size
          /\ pc \in {"apply", "done"} =>
                readable /\ (verify_checksums => Len(source) = src_size /\ Crc(source) = src_crc)

\* Until its format is known, nothing has happened to a patch.
Fresh ==
    format = "Unknown" /\ pc = "load" =>
        /\ Blank /\ patch \in Seq(UPS!Byte) /\ source \in Seq(UPS!Byte)
        /\ 2 * Len(patch) < Word

\* What is left of a load once validate has run, whatever that answered.
AtRest ==
    /\ readable =>
        /\ call # "load" /\ has_checksums => Len(patch) >= 4 + UPS!Trailer
        /\ call # "load" /\ format = "BPS" => BPSInvariant!InPatch
        /\ call = "validate" /\ format = "IPS" => pc = "apply"
        /\ call = "validate" /\ format = "BPS" =>
              output = <<>> /\ source_rel_offset = 0 /\ target_rel_offset = 0
    /\ call = "again" \/ pc = "done" => readable

\* The invariant of the format that was detected holds from call to call.
Carried ==
    readable =>
        /\ format = "IPS" => IPSInvariant!IInv
        /\ format = "UPS" => UPSInvariant!IInv
        /\ format = "BPS" => BPSInvariant!IInv

\* The second application is to what the first one answered.
Twice ==
    /\ call \in {"apply", "again"} /\ has_checksums /\ pc \in {"apply", "done"} =>
          verify = verify_checksums
    /\ call = "again" =>
          IF has_checksums
            THEN verify_checksums => Len(source) = target_size /\ Crc(source) = target_crc
            ELSE first # <<>> /\ source = first[1]

IInv ==
    /\ Routed
    /\ Judged
    /\ Fresh
    /\ AtRest
    /\ Carried
    /\ Twice
=============================================================================
