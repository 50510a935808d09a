------------------------------- MODULE IPSInv -------------------------------
(***************************************************************************)
(* The inductive invariant of IPSPatch, in named parts.                    *)
(***************************************************************************)
EXTENDS IPSPatch

\* The types, and where in the records each phase is.
Ranges ==
    /\ TypeOK
    /\ pc \in {"apply", "done"} => next <= Len(records) + 1
    /\ pc = "done" => next = Len(records) + 1

\* How far the records played so far reach is how long the output is, unless
\* the source was longer.
LengthLaw ==
    pc \in {"apply", "done"} =>
        \E m \in {End(records[k]) : k \in 1 .. next - 1} \union {0} :
            /\ \A k \in 1 .. next - 1 : End(records[k]) <= m
            /\ Len(output) = IF m > Len(source) THEN m ELSE Len(source)

\* All records lie inside bytes, and each byte hit is the last writer's.
Settled(bytes) ==
    /\ \A k \in 1 .. Len(records) : End(records[k]) <= Len(bytes)
    /\ \A i \in DOMAIN bytes, k \in 1 .. Len(records) :
          Hits(records[k], i) /\ (\A j \in k + 1 .. Len(records) : ~Hits(records[j], i))
            => bytes[i] = BytesOf(records[k])[i - records[k].offset]

\* The first result has settled; a second application starts from it.
History ==
    /\ pc \in {"load", "parse", "failed"} => first = <<>>
    /\ pc = "done" => first # <<>> /\ output = first[1]
    /\ first # <<>> => Len(first) = 1 /\ Settled(first[1])
    /\ pc = "apply" /\ first # <<>> => source = first[1]

\* The inductive invariant (ips.cc:30-158).
IInv == Ranges /\ LastWriterWins /\ LengthLaw /\ History
=============================================================================
