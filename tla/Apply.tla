------------------------------- MODULE Apply -------------------------------
(***************************************************************************)
(* The file operations of the library (src/apply.cc over read_file and     *)
(* write_file of src/io.cc), run by several processes over one shared      *)
(* file system.                                                            *)
(*                                                                         *)
(* A directory entry names an inode; a process that has a file open keeps  *)
(* its inode whatever happens to the name.  What a patch does to a content *)
(* is a constant table here (Outcome): the format modules compute it.      *)
(* An incomplete file - truncated, half written - has the content Torn;    *)
(* one whose last flush failed unnoticed has the content Lost.             *)
(***************************************************************************)
EXTENDS Naturals, FiniteSets

CONSTANTS
    Process,      \* the programs that call the library
    Target,       \* the files they patch
    Inode,        \* bound: the inodes of the file system
    Data,         \* complete contents of a file
    Empty,        \* those of them without a byte
    Torn,         \* the content of a file caught between open and last write
    Lost,         \* the content of a file left by a flush that failed, or made from one
    Patch,        \* patch files, each with the options it is applied with
    Malformed,    \* the patches load_patch does not load
    Checksummed,  \* the patches whose metadata has checksums (UPS, BPS)
    Damaged,      \* those of them that do not match their own checksum
    Fits,         \* <<patch, content>>: size and CRC of the source agree
    Outcome,      \* what apply() computes: [patch][content]: a content or Rejected
    Rejected,     \* apply() gave no bytes: it returned an error, or threw
    None,         \* no inode
    Faults        \* the system calls that may fail

Content  == Data \union {Torn, Lost}
Name     == {"file", "tmp", "bak", "out"}
Op       == {"inplace", "apply", "validate", "info", "backup", "verify"}
Call     == [op : Op, file : Target, patch : Patch, backup : BOOLEAN]
Step     == {"idle", "backup", "copying", "load", "open", "read", "create",
             "write", "flush", "rename", "cleanup", "exists", "size"}
Error    == {"FileNotFound", "FileReadError", "FileWriteError", "InvalidPatch",
             "Rejected", "ChecksumMismatch", "InvalidArgument", "InvalidSourceFile"}
Result   == Error \union {"none", "Ok", "threw", "crashed"}
Fault    == {"open", "read", "copy", "create", "write", "flush", "rename",
             "remove", "crash"}

ASSUME ApplyAssumption ==
    /\ Torn \notin Data /\ Lost \notin Data \union {Torn}
    /\ Empty \subseteq Data
    /\ None \notin Inode
    /\ Rejected \notin Content
    /\ Malformed \subseteq Patch
    /\ Checksummed \subseteq Patch /\ Damaged \subseteq Checksummed
    /\ Fits \subseteq Patch \X Content
    /\ Outcome \in [Patch -> [Content -> Content \union {Rejected}]]
    /\ \A pt \in Patch : /\ \A d \in Data : Outcome[pt][d] \in Data \union {Rejected}
                         /\ Outcome[pt][Lost] \in Data \union {Lost, Rejected}
    /\ Faults \subseteq Fault

VARIABLES
    dir,     \* the directory: name -> inode or None
    disk,    \* content of every inode
    pc,      \* the step a process is at, "idle" outside a call
    call,    \* its current call, or its last one
    rd,      \* the inode it has open for reading
    wr,      \* the inode it has open for writing
    data,    \* the bytes apply() left in memory, to be written
    result   \* what the call returned, or the error it is about to return

vars == <<dir, disk, pc, call, rd, wr, data, result>>

-----------------------------------------------------------------------------
(***************************************************************************)
(* Mistakes the code could contain, each a variant of an operator below.   *)
(* They are not part of the model; the mutated runs put them in its place. *)
(***************************************************************************)

\* The patched bytes go straight into the target.
OutNameDirect(c) == IF c.op = "inplace" THEN "file" ELSE "out"
\* Two calls write the same names at once.
MayBeginUnguarded(p, c) == TRUE
\* The backup is forgotten.
EntryWithoutBackup(c) == IF c.op = "backup" THEN "backup" ELSE "load"
\* The answer of apply_patch is not looked at.
OnErrorIgnored(c) == IF c.op = "inplace" THEN "rename" ELSE "idle"
\* A failed patch is tried again, until it succeeds.
OnErrorRetried(c) == IF c.op = "inplace" THEN "load" ELSE "idle"
\* The stream is never flushed.
FlushedNever(p) == UNCHANGED disk
\* The answer of Patch::apply is not looked at.
RefusedNever(o) == FALSE
\* The clean-up removes the file in place of its temporary.
UnlinkedTarget(f) == [dir EXCEPT ![f]["file"] = None]

-----------------------------------------------------------------------------
\* What a lost flush may put in place of the bytes that were written, and what
\* there can be in a file that nobody is writing.
Spoilt == IF "flush" \in Faults THEN {Lost} ELSE {}
Whole  == Data \union Spoilt

ContentOf(f) == disk[dir[f].file]   \* what a reader of file f finds

Live(p) == pc[p] # "idle"
File(p) == call[p].file
InPlace(p) == call[p].op = "inplace"

OutName(c) == IF c.op = "inplace" THEN "tmp" ELSE "out"

\* The names of its file a call creates, truncates, replaces or removes.
Writes(c) ==
    (IF c.op = "inplace" THEN {"file", "tmp"} ELSE {})
        \union (IF c.op = "apply" THEN {"out"} ELSE {})
        \union (IF c.op \in {"inplace", "backup"} /\ c.backup THEN {"bak"} ELSE {})

\* The library takes no lock.  The environment is assumed to keep two calls
\* from writing the same names at once; readers are not kept out.
MayBegin(p, c) ==
    \A q \in Process \ {p} :
        Live(q) /\ File(q) = c.file => Writes(call[q]) \intersect Writes(c) = {}

Linked == {i \in Inode : \E f \in Target, n \in Name : dir[f][n] = i}
Opened == {i \in Inode : \E p \in Process : i \in {rd[p], wr[p]}}
Free   == Inode \ (Linked \union Opened)

\* open(O_CREAT | O_TRUNC): the inode that is there, or a new one.
OpenForWriting(f, n) == IF dir[f][n] = None THEN Free ELSE {dir[f][n]}

Fails(s) == s \in Faults

-----------------------------------------------------------------------------
\* Control flow: the next statement, a return, an error on its way out.

Goto(p, s) == pc' = [pc EXCEPT ![p] = s]

Close(p) ==
    /\ rd' = [rd EXCEPT ![p] = None]
    /\ wr' = [wr EXCEPT ![p] = None]

Return(p, r) ==
    /\ Goto(p, "idle")
    /\ result' = [result EXCEPT ![p] = r]
    /\ Close(p)

\* apply_patch failed: apply_patch_inplace goes on to remove the temporary.
OnError(c) == IF c.op = "inplace" THEN "cleanup" ELSE "idle"

\* (A mistake, not part of the model: a failure to write the temporary is
\* returned at once, and nobody removes it.)
ReturnErrorUncleaned(p, r) ==
    /\ Goto(p, IF r = "FileWriteError" THEN "idle" ELSE OnError(call[p]))
    /\ result' = [result EXCEPT ![p] = r]
    /\ Close(p)

ReturnError(p, r) ==
    /\ Goto(p, OnError(call[p]))
    /\ result' = [result EXCEPT ![p] = r]
    /\ Close(p)

\* The first statement of a call that has one to execute.
Entry(c) ==
    IF c.op = "backup" \/ (c.op = "inplace" /\ c.backup) THEN "backup"
    ELSE IF c.op = "verify" THEN "exists" ELSE "load"

Begin(p, c) ==
    /\ ~Live(p)
    /\ MayBegin(p, c)
    /\ call' = [call EXCEPT ![p] = c]
    /\ Goto(p, Entry(c))
    /\ result' = [result EXCEPT ![p] = "none"]
    /\ data' = [data EXCEPT ![p] = Torn]
    /\ UNCHANGED <<dir, disk, rd, wr>>

\* create_backup: copy_file opens the source, then truncates the old backup.
OpenBackup(p) ==
    /\ pc[p] = "backup"
    /\ \/ /\ ~call[p].backup
          /\ Return(p, "InvalidArgument")
          /\ UNCHANGED <<dir, disk>>
       \/ /\ call[p].backup
          /\ Fails("copy") \/ dir[File(p)].file = None
          /\ Return(p, "FileWriteError")
          /\ UNCHANGED <<dir, disk>>
       \/ /\ call[p].backup
          /\ dir[File(p)].file # None
          /\ \E i \in OpenForWriting(File(p), "bak") :
               /\ dir' = [dir EXCEPT ![File(p)]["bak"] = i]
               /\ disk' = [disk EXCEPT ![i] = Torn]
               /\ rd' = [rd EXCEPT ![p] = dir[File(p)].file]
               /\ wr' = [wr EXCEPT ![p] = i]
          /\ Goto(p, "copying")
          /\ UNCHANGED result
    /\ UNCHANGED <<call, data>>

\* A copy that fails half-way is reported and left where it is.
CopyBackup(p) ==
    /\ pc[p] = "copying"
    /\ \/ /\ disk' = [disk EXCEPT ![wr[p]] = disk[rd[p]]]
          /\ IF InPlace(p)
               THEN Goto(p, "load") /\ Close(p) /\ UNCHANGED result
               ELSE Return(p, "Ok")
       \/ /\ Fails("copy")
          /\ Return(p, "FileWriteError")
          /\ UNCHANGED disk
    /\ UNCHANGED <<dir, call, data>>

\* An error, or an exception, which nothing catches and nothing cleans up after.
GiveUp(p, r) == ReturnError(p, r) \/ Return(p, "threw")

\* get_patch_info stops behind load_patch, and so does validate_patch when there
\* are no checksums.
StopsAtLoad(c) == c.op = "info" \/ (c.op = "validate" /\ c.patch \notin Checksummed)

\* validate() compares the checksum of the patch itself before anything is read.
RefusedAtOnce(c) == c.op = "validate" /\ c.patch \in Damaged

\* load_patch, and what follows it before the source is opened.  A BPS patch may
\* throw: its metadata has a size that wraps.
LoadPatch(p) ==
    /\ pc[p] = "load"
    /\ \/ Fails("open") /\ ReturnError(p, "FileNotFound")
       \/ Fails("read") /\ ReturnError(p, "FileReadError")
       \/ call[p].patch \in Malformed /\ GiveUp(p, "InvalidPatch")
       \/ /\ call[p].patch \notin Malformed /\ RefusedAtOnce(call[p])
          /\ ReturnError(p, "ChecksumMismatch")
       \/ call[p].patch \notin Malformed /\ StopsAtLoad(call[p]) /\ Return(p, "Ok")
       \/ /\ call[p].patch \notin Malformed
          /\ ~RefusedAtOnce(call[p]) /\ ~StopsAtLoad(call[p])
          /\ Goto(p, "open")
          /\ UNCHANGED <<rd, wr, result>>
    /\ UNCHANGED <<dir, disk, call, data>>

OpenSource(p) ==
    /\ pc[p] = "open"
    /\ \/ /\ Fails("open") \/ dir[File(p)].file = None
          /\ ReturnError(p, "FileNotFound")
       \/ /\ dir[File(p)].file # None
          /\ rd' = [rd EXCEPT ![p] = dir[File(p)].file]
          /\ Goto(p, "read")
          /\ UNCHANGED <<wr, result>>
    /\ UNCHANGED <<dir, disk, call, data>>

Refused(o) == o = Rejected

\* read_file of the source, then Patch::apply on the bytes, or for
\* validate_patch the comparison of their size and CRC.  apply throws when an
\* output of the size the patch announces cannot be allocated.
ReadSource(p) ==
    /\ pc[p] = "read"
    /\ LET source  == disk[rd[p]]
           patched == Outcome[call[p].patch][source] IN
       \/ Fails("read") /\ ReturnError(p, "FileReadError") /\ UNCHANGED data
       \/ /\ call[p].op = "validate"
          /\ Return(p, IF <<call[p].patch, source>> \in Fits THEN "Ok" ELSE "ChecksumMismatch")
          /\ UNCHANGED data
       \/ /\ call[p].op # "validate"
          /\ Refused(patched)
          /\ GiveUp(p, "Rejected")
          /\ UNCHANGED data
       \/ /\ call[p].op # "validate"
          /\ ~Refused(patched)
          /\ data' = [data EXCEPT ![p] = patched]
          /\ Goto(p, "create")
          /\ Close(p)
          /\ UNCHANGED result
    /\ UNCHANGED <<dir, disk, call>>

CreateOutput(p) ==
    /\ pc[p] = "create"
    /\ \/ /\ Fails("create")
          /\ ReturnError(p, "FileWriteError")
          /\ UNCHANGED <<dir, disk>>
       \/ /\ \E i \in OpenForWriting(File(p), OutName(call[p])) :
               /\ dir' = [dir EXCEPT ![File(p)][OutName(call[p])] = i]
               /\ disk' = [disk EXCEPT ![i] = Torn]
               /\ wr' = [wr EXCEPT ![p] = i]
          /\ Goto(p, "write")
          /\ UNCHANGED <<rd, result>>
    /\ UNCHANGED <<call, data>>

\* ofstream::write: a large buffer goes to the file at once and a failure is
\* seen; a small one stays in the stream's buffer and cannot fail here.
WriteOutput(p) ==
    /\ pc[p] = "write"
    /\ \/ /\ disk' \in {disk, [disk EXCEPT ![wr[p]] = data[p]]}
          /\ Goto(p, "flush")
          /\ UNCHANGED <<rd, wr, result>>
       \/ /\ Fails("write")
          /\ ReturnError(p, "FileWriteError")
          /\ UNCHANGED disk
    /\ UNCHANGED <<dir, call, data>>

\* BufferedFileWriter::flush never reports anything.
Flushed(p) ==
    \/ disk' = [disk EXCEPT ![wr[p]] = data[p]]
    \/ /\ Fails("flush")
       /\ data[p] \notin Empty /\ disk[wr[p]] # data[p]
       /\ disk' = [disk EXCEPT ![wr[p]] = Lost]

FlushOutput(p) ==
    /\ pc[p] = "flush"
    /\ Flushed(p)
    /\ IF InPlace(p)
         THEN Goto(p, "rename") /\ Close(p) /\ UNCHANGED result
         ELSE Return(p, "Ok")
    /\ UNCHANGED <<dir, call, data>>

Renamed(f) == [dir EXCEPT ![f]["file"] = dir[f]["tmp"], ![f]["tmp"] = None]

\* A failed rename is reported and the temporary stays.
RenameTemp(p) ==
    /\ pc[p] = "rename"
    /\ \/ /\ dir[File(p)].tmp # None
          /\ dir' = Renamed(File(p))
          /\ Return(p, "Ok")
       \/ /\ Fails("rename") \/ dir[File(p)].tmp = None
          /\ Return(p, "FileWriteError")
          /\ UNCHANGED dir
    /\ UNCHANGED <<disk, call, data>>

Unlinked(f) == [dir EXCEPT ![f]["tmp"] = None]

\* filesystem::remove: the throwing overload, outside any try block.
RemoveTemp(p) ==
    /\ pc[p] = "cleanup"
    /\ \/ /\ dir' = Unlinked(File(p))
          /\ Return(p, result[p])
       \/ /\ Fails("remove") /\ dir[File(p)].tmp # None
          /\ Return(p, "threw")
          /\ UNCHANGED dir
    /\ UNCHANGED <<disk, call, data>>

\* verify_output asks twice: whether the file exists, and how long it is.
AskExists(p) ==
    /\ pc[p] = "exists"
    /\ \/ /\ dir[File(p)].file = None
          /\ Return(p, "FileNotFound")
       \/ /\ dir[File(p)].file # None
          /\ Goto(p, "size")
          /\ UNCHANGED <<rd, wr, result>>
    /\ UNCHANGED <<dir, disk, call, data>>

\* filesystem::file_size: the throwing overload.  An incomplete file may have any size.
AskSize(p) ==
    /\ pc[p] = "size"
    /\ \/ dir[File(p)].file = None /\ Return(p, "threw")
       \/ /\ dir[File(p)].file # None
          /\ \/ ContentOf(File(p)) \in Empty \union {Torn, Lost} /\ Return(p, "InvalidSourceFile")
             \/ ContentOf(File(p)) \notin Empty /\ Return(p, "Ok")
    /\ UNCHANGED <<dir, disk, call, data>>

\* The process dies; what the system calls did so far stays.
Crash(p) ==
    /\ Live(p)
    /\ Fails("crash")
    /\ Return(p, "crashed")
    /\ UNCHANGED <<dir, disk, call, data>>

-----------------------------------------------------------------------------
\* Every target exists and is complete; there is nothing else yet.
Init ==
    /\ \E home \in [Target -> Inode] :
         /\ \A f, g \in Target : home[f] = home[g] => f = g
         /\ dir = [f \in Target |-> [n \in Name |-> IF n = "file" THEN home[f] ELSE None]]
         /\ \E d \in [Target -> Data] :
              disk = [i \in Inode |->
                        IF \E f \in Target : home[f] = i
                          THEN d[CHOOSE f \in Target : home[f] = i] ELSE Torn]
    /\ pc = [p \in Process |-> "idle"]
    /\ call \in [Process -> Call]
    /\ rd = [p \in Process |-> None]
    /\ wr = [p \in Process |-> None]
    /\ data = [p \in Process |-> Torn]
    /\ result = [p \in Process |-> "none"]

\* A step of a call that has begun.
Advance(p) ==
    \/ OpenBackup(p) \/ CopyBackup(p)
    \/ LoadPatch(p) \/ OpenSource(p) \/ ReadSource(p)
    \/ CreateOutput(p) \/ WriteOutput(p) \/ FlushOutput(p)
    \/ RenameTemp(p) \/ RemoveTemp(p)
    \/ AskExists(p) \/ AskSize(p)
    \/ Crash(p)

Next == \E p \in Process : (\E c \in Call : Begin(p, c)) \/ Advance(p)

Spec == Init /\ [][Next]_vars

-----------------------------------------------------------------------------
(***************************************************************************)
(* Properties                                                              *)
(***************************************************************************)

\* Every variable has its type.
TypeOK ==
    /\ dir \in [Target -> [Name -> Inode \union {None}]]
    /\ disk \in [Inode -> Content]
    /\ pc \in [Process -> Step]
    /\ call \in [Process -> Call]
    /\ rd \in [Process -> Inode \union {None}]
    /\ wr \in [Process -> Inode \union {None}]
    /\ data \in [Process -> Content]
    /\ result \in [Process -> Result]

\* A target exists and is complete at every instant, whatever fails and
\* whoever dies, in the middle of any in-place call; nothing but a flush that
\* was lost unnoticed puts anything else in its place (apply.cc:69-81, io.cc:163).
TargetIntact ==
    \A f \in Target : dir[f].file # None /\ ContentOf(f) \in Whole

\* A process that opened a target, to patch, to validate or to copy it, reads
\* what was once whole in it, even while another one replaces it (io.cc:78-96).
ReadersSeeComplete ==
    \A p \in Process : pc[p] \in {"copying", "read"} => disk[rd[p]] \in Whole

Returns(p) == Live(p) /\ ~Live(p)'

BacksUpFirst(p) ==
    LET f == File(p) IN
    Live(p) /\ InPlace(p) /\ call[p].backup /\ ContentOf(f)' # ContentOf(f)
        => dir'[f].bak # None /\ disk'[dir'[f].bak] = ContentOf(f)

\* When a target changes under a call that asked for a backup, the backup
\* holds, at that very step, the content that is being replaced (apply.cc:62-77).
BackupBeforeChange == [][\A p \in Process : BacksUpFirst(p)]_vars

HasWritten(p) ==
    LET f == File(p) IN
    Returns(p) /\ result'[p] = "Ok" =>
        /\ call[p].op = "apply" => disk'[dir'[f].out] \in {data[p]} \union Spoilt
        /\ InPlace(p) => ContentOf(f)' \in {data[p]} \union Spoilt
        /\ call[p].op = "backup" => disk'[dir'[f].bak] = disk[rd[p]]

\* A call that returns Ok has left the bytes it computed, all of them, under
\* the name it was asked to write; where a flush may be lost, that is the only
\* other thing that can be behind an Ok (apply.cc:53, 77, 18, io.cc:163).
OkMeansWritten == [][\A p \in Process : HasWritten(p)]_vars

CleansUp(p) ==
    Returns(p) /\ InPlace(p) /\ dir'[File(p)].tmp # None =>
        \/ result'[p] = "crashed"
        \/ result'[p] = "threw" /\ pc[p] \in {"load", "read", "cleanup"}
        \/ result'[p] = "FileWriteError" /\ pc[p] \in {"backup", "copying", "rename"}

\* When a call returns, a temporary is left only if the process died, an
\* exception went through (of load_patch or apply, before this call made one, or
\* of remove() itself), or creating the backup or the final rename failed.
\* Every other way out has removed it, a failed create or write of the
\* temporary and one left by an earlier crash included (apply.cc:62-81).
NoTempLeft == [][\A p \in Process : CleansUp(p)]_vars

SeesTarget(p) ==
    Returns(p) /\ call[p].op = "verify" =>
        /\ result'[p] = "Ok" => ContentOf(File(p)) \in Whole \ Empty
        /\ result'[p] = "InvalidSourceFile" => ContentOf(File(p)) \in Empty \union Spoilt
        /\ result'[p] \in {"Ok", "InvalidSourceFile", "crashed"}

\* verify_output of a target, while others replace it and clean up behind their
\* errors: the file never goes away between its two questions, so that it
\* neither throws nor reports it missing, and the size it judges is that of a
\* content nobody is writing (apply.cc:28-39).
VerifySeesTarget == [][\A p \in Process : SeesTarget(p)]_vars

\* What a caller of apply_patch_inplace has seen of its call so far.
AnswerOf(p) ==
    IF ~InPlace(p) THEN "none"
    ELSE IF Live(p) THEN "running"
    ELSE IF result[p] \in {"none", "Ok"} THEN result[p]
    ELSE "failed"

\* The in-place calls implement an atomic update of the file.
Atomic == INSTANCE AtomicUpdate WITH
    content <- [f \in Target |-> ContentOf(f)],
    job <- [p \in Process |->
              [file |-> File(p), patch |-> call[p].patch, answer |-> AnswerOf(p)]]

\* Whatever other processes, failing system calls and crashes do, an in-place
\* call is all or nothing, or what a lost flush makes of all (apply.cc:56-84).
AtomicSpec == Atomic!Spec

-----------------------------------------------------------------------------
(***************************************************************************)
(* What the documentation says and the code does not do                    *)
(***************************************************************************)

\* "--backup  Create backup of original file" (iubpatch_cli.cc:22): a call with
\* the option set that succeeded has left a backup.
BackupOptionHonoured ==
    \A p \in Process :
        call[p].op \in {"apply", "inplace"} /\ call[p].backup
          /\ ~Live(p) /\ result[p] = "Ok" => dir[File(p)].bak # None

\* "Patch applied successfully!" (iubpatch_cli.cc:63), printed when apply_patch
\* returned Ok: the output then holds the patched bytes.
SuccessMeansPatched ==
    \A p \in Process :
        call[p].op = "apply" /\ ~Live(p) /\ result[p] = "Ok"
          => disk[dir[File(p)].out] = data[p]
=============================================================================
