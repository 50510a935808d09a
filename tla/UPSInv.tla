------------------------------- MODULE UPSInv -------------------------------
(***************************************************************************)
(* The inductive invariant of UPSPatch: what holds between the steps of a  *)
(* load and of its applications, and makes the properties true.            *)
(***************************************************************************)
EXTENDS UPSPatch

\* What some bytes are after each of the blocks bs was played on them.
PlayedAll(bytes, bs) ==
    LET out[k \in 0 .. Len(bs)] ==
          IF k = 0 THEN bytes ELSE Played(out[k - 1], bs[k])
    IN out

\* What apply builds from some bytes, before it is cut to its size.
Grown(bytes) == Resized(bytes, Larger(Len(bytes), target_size))

Answer(bytes) == Resized(PlayedAll(Grown(bytes), blocks)[Len(blocks)], target_size)

-----------------------------------------------------------------------------
\* Behind the first test of the load there are a header and a trailer.
HasTrailer == pc \notin {"load", "failed"} => Len(patch) >= 4 + Trailer

\* What was checked before the blocks are played, and what before it is answered.
SourceChecked ==
    pc \in {"apply", "done"} /\ verify => Len(source) = src_size /\ Crc(source) = src_crc

OutputChecked ==
    pc = "done" => Len(output) = target_size /\ (verify => Crc(output) = target_crc)

\* The output is the source with the blocks behind us played on it.
BlocksPlayed ==
    /\ pc = "apply" => output = PlayedAll(Grown(source), blocks)[next - 1]
    /\ pc = "done" => output = Answer(source)

\* A second application is to what the first one answered.
SecondOfFirst ==
    pc \in {"apply", "done"} => Len(original) = 1 /\ source \in {original[1], Answer(original[1])}

IInv ==
    /\ TypeOK
    /\ HasTrailer
    /\ SourceChecked
    /\ OutputChecked
    /\ BlocksPlayed
    /\ SecondOfFirst
=============================================================================
