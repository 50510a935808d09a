----------------------------- MODULE MCPrograms -----------------------------
(***************************************************************************)
(* Small instances of Programs: a patch from v1 to v2 with checksums, one  *)
(* without that can be applied to its own output, one that does not load,  *)
(* one that is damaged.                                                    *)
(***************************************************************************)
EXTENDS Programs, TLC

CONSTANTS v1, v2, v3, ups, raw, bad, dmg, t1, t2

MCData == {v1, v2, v3}
MCPatch == {ups, raw, bad, dmg}

MCOutcome ==
    [pt \in MCPatch |-> [d \in MCData \union {Torn, Lost} |->
        CASE pt \in {ups, dmg} -> IF d = v1 THEN v2 ELSE Rejected
          [] pt = raw -> (v1 :> v2 @@ v2 :> v3 @@ v3 :> Rejected @@ Torn :> Torn @@ Lost :> Lost)[d]
          [] OTHER -> Rejected]]

MCFits == {<<ups, v1>>}

Line(command, count, pt, backup) ==
    [command |-> command, count |-> count, file |-> t1, patch |-> pt, backup |-> backup]

MCToolLines ==
    {Line("none", 0, bad, FALSE), Line("--help", 0, bad, FALSE), Line("apply", 2, raw, FALSE),
     Line("apply", 3, raw, TRUE), Line("apply", 3, ups, FALSE),
     Line("info", 1, bad, FALSE), Line("validate", 2, ups, FALSE)}

ShortToolLines ==
    {Line("unknown", 1, bad, FALSE), Line("validate", 2, ups, FALSE),
     Line("validate", 2, dmg, FALSE)}

Twice == {[patch |-> ups, files |-> <<t1, t2>>], [patch |-> raw, files |-> <<t1, t1>>],
          [patch |-> ups, files |-> <<t1, t1>>], [patch |-> bad, files |-> <<t1>>],
          [patch |-> ups, files |-> <<>>]}
Short == {[patch |-> pt, files |-> <<t1, t1>>] : pt \in {ups, bad}}

BatchTwice == [p \in Process |-> IF p = Batch THEN 2 ELSE 1]
ToolTwice  == [p \in Process |-> IF p = Tool THEN 2 ELSE 1]

\* A file by one of its names, or by its content once it has none.
Whose(i) ==
    IF i = None THEN <<>>
    ELSE IF i \in Linked
      THEN CHOOSE x \in Target \X Name : dir[x[1]][x[2]] = i
      ELSE <<disk[i]>>

\* Inodes do not matter but for the names and the contents behind them, and a
\* call that is over only for its answer, until the program has looked at it.
View ==
    <<[f \in Target |-> [n \in Name |-> IF dir[f][n] = None THEN None ELSE disk[dir[f][n]]]],
      [p \in Process |->
          IF Live(p) THEN <<pc[p], call[p], Whose(rd[p]), Whose(wr[p]), data[p], result[p]>>
                     ELSE <<calling[p], IF calling[p] THEN result[p] ELSE "none">>],
      programVars, history>>
=============================================================================
