------------------------------ MODULE MCApply ------------------------------
(***************************************************************************)
(* Small instances of Apply: one target, three kinds of patch.             *)
(***************************************************************************)
EXTENDS ApplyInv, TLC

CONSTANTS v1, v2, ups, ips, bad

MCData == {v1, v2}
MCPatch == {ups, ips, bad}

\* A UPS patch takes v1 to v2 and refuses anything else; an IPS patch
\* applies to whatever it is given; a malformed patch does not load.
MCOutcome ==
    [pt \in MCPatch |-> [d \in MCData \union {Torn, Lost} |->
        CASE pt = ups -> IF d = v1 THEN v2 ELSE Rejected
          [] pt = ips -> IF d = v1 THEN v2 ELSE IF d = v2 THEN v1 ELSE d
          [] OTHER -> Rejected]]

MCFits == {<<ups, v1>>}

Symmetry == Permutations(Process) \union Permutations(Inode)

\* The fields of a call its operation looks at.
Relevant(c) ==
    <<c.op, c.file,
      IF c.op \in {"backup", "verify"} THEN bad ELSE c.patch,
      c.op \in {"inplace", "backup"} /\ c.backup>>

\* What is left in an inode nobody can reach does not matter, and neither does
\* what an idle process did last: the next Begin overwrites it.
View ==
    <<dir, [i \in Inode \ Free |-> disk[i]],
      [p \in Process |->
          IF Live(p) THEN <<pc[p], Relevant(call[p]), rd[p], wr[p], data[p], result[p]>>
                     ELSE <<pc[p]>>]>>
=============================================================================
