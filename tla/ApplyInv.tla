------------------------------ MODULE ApplyInv ------------------------------
(***************************************************************************)
(* The inductive invariant of Apply: who owns which name and which inode   *)
(* at each step, and what is already known of the contents behind them.    *)
(***************************************************************************)
EXTENDS Apply

\* No inode has two names.
Distinct ==
    \A f, g \in Target, m, n \in Name :
        dir[f][m] = dir[g][n] /\ dir[f][m] # None => f = g /\ m = n

\* What the environment promises about two running calls.
Exclusive ==
    \A p, q \in Process :
        p # q /\ Live(p) /\ Live(q) /\ File(p) = File(q)
          => Writes(call[p]) \intersect Writes(call[q]) = {}

\* Which operations pass through which steps.
StepFitsCall(p) ==
    /\ pc[p] = "backup" => call[p].op = "backup" \/ (InPlace(p) /\ call[p].backup)
    /\ pc[p] = "copying" => call[p].op \in {"backup", "inplace"} /\ call[p].backup
    /\ pc[p] = "load" => call[p].op \notin {"backup", "verify"}
    /\ pc[p] \in {"open", "read"} => call[p].op \in {"inplace", "apply", "validate"}
    /\ pc[p] \in {"exists", "size"} => call[p].op = "verify"
    /\ pc[p] \in {"create", "write", "flush"} => call[p].op \in {"inplace", "apply"}
    /\ pc[p] \in {"rename", "cleanup"} => InPlace(p)
    /\ pc[p] = "cleanup" => result[p] \in Error

\* The name behind the inode a process writes.
WriterName(p) == IF pc[p] = "copying" THEN "bak" ELSE OutName(call[p])

WriterOwns(p) ==
    IF pc[p] \in {"copying", "write", "flush"}
      THEN wr[p] # None /\ wr[p] = dir[File(p)][WriterName(p)]
      ELSE wr[p] = None

\* An inode open for reading is whole, and if it still has a name it is
\* that of a target: no writer will open it.
ReaderOwns(p) ==
    IF pc[p] \in {"copying", "read"}
      THEN /\ rd[p] # None
           /\ disk[rd[p]] \in Whole
           /\ \A f \in Target, n \in Name : dir[f][n] = rd[p] => n = "file"
      ELSE rd[p] = None

\* An in-place call reads its target as it still is.
ReadsTarget(p) ==
    pc[p] \in {"copying", "read"} /\ InPlace(p) => rd[p] = dir[File(p)].file

\* The bytes about to be written are the patch of the target as it still is.
DataCurrent(p) ==
    pc[p] \in {"create", "write", "flush", "rename"} =>
        /\ data[p] \in Whole
        /\ InPlace(p) => data[p] = Outcome[call[p].patch][ContentOf(File(p))]

\* The file about to be renamed holds all of them, but for a lost flush.
TempReady(p) ==
    pc[p] = "rename" => /\ dir[File(p)].tmp # None
                        /\ disk[dir[File(p)].tmp] \in {data[p]} \union Spoilt

\* From the end of create_backup to the rename the backup is the target's copy.
BackupCurrent(p) ==
    /\ InPlace(p) /\ call[p].backup
    /\ pc[p] \in {"load", "open", "read", "create", "write", "flush", "rename"}
    => /\ dir[File(p)].bak # None
       /\ disk[dir[File(p)].bak] = ContentOf(File(p))

ProcessInv(p) ==
    /\ StepFitsCall(p) /\ WriterOwns(p) /\ ReaderOwns(p) /\ ReadsTarget(p)
    /\ DataCurrent(p) /\ TempReady(p) /\ BackupCurrent(p)

\* The inductive invariant: every step of one process leaves alone the names
\* and inodes the others rely on.
IInv ==
    /\ TypeOK /\ TargetIntact /\ Distinct /\ Exclusive
    /\ \A p \in Process : ProcessInv(p)
=============================================================================
