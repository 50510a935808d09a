------------------------------- MODULE BPSInv -------------------------------
(***************************************************************************)
(* The inductive invariant of BPSPatch, in named parts.                    *)
(***************************************************************************)
EXTENDS BPSPatch

\* Behind the first test of the load there are a header and a trailer.
HasTrailer == pc \notin {"load", "failed"} => Len(patch) >= 4 + Trailer

\* Once load is past the metadata the parser is inside the patch, and so is the
\* place TargetRead takes its bytes from: the test that lets a metadata_size
\* pass whose end wraps is caught by the exception, as no patch is half as long
\* as the numbers are wide.
InPatch == offset \in 0 .. Len(patch) /\ data_offset \in 0 .. offset

ParserInside ==
    /\ 2 * Len(patch) < Word
    /\ pc \in {"parse", "loaded", "valid", "apply", "done"} => InPatch

\* Before apply begins nothing is written and no cursor has moved.
Untouched ==
    pc \in {"load", "parse", "loaded", "valid"} =>
        output = <<>> /\ source_rel_offset = 0 /\ target_rel_offset = 0

\* Commands only run on a source that was accepted.
SourceAccepted ==
    pc \in {"apply", "done"} => Len(source) = src_size /\ (verify => Crc(source) = src_crc)

\* Apply only returns an output that was accepted.
OutputAccepted == pc = "done" => Accepted(output)

IInv ==
    /\ TypeOK
    /\ HasTrailer
    /\ ParserInside
    /\ Untouched
    /\ CursorsInside
    /\ SourceAccepted
    /\ OutputAccepted
=============================================================================
