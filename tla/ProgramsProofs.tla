--------------------------- MODULE ProgramsProofs ---------------------------
(***************************************************************************)
(* The batch and the tool keep to Apply's specification, so that what is   *)
(* proved of the library holds for them; and, for any files, patches and   *)
(* number of runs, backups are never older than one change and a patch     *)
(* that refuses its own output is never played twice.                      *)
(***************************************************************************)
EXTENDS ApplyProofs, Programs, FiniteSetTheorems

\* The calls the programs make are calls of the library.
LEMMA CallsAreTyped ==
    ASSUME ProgramsTypeOK
    PROVE  /\ turn <= Len(args.files) =>
                /\ args.files[turn] \in Target
                /\ [op |-> "inplace", file |-> args.files[turn], patch |-> args.patch,
                    backup |-> BackupAsked(args.files[turn])] \in Call
           /\ line.command \in DOMAIN Needs =>
                [op |-> line.command, file |-> line.file, patch |-> line.patch,
                 backup |-> line.backup] \in Call
<1> USE ProgramsAssumption
<1>1. /\ args.patch \in Patch /\ args.files \in Seq(Target)
      /\ line.file \in Target /\ line.patch \in Patch /\ line.backup \in BOOLEAN
  BY DEF ProgramsTypeOK
<1>2. ASSUME turn <= Len(args.files) PROVE args.files[turn] \in Target
  <2>1. turn \in 1 .. Len(args.files)
    BY <1>1, <1>2 DEF ProgramsTypeOK
  <2> QED BY <1>1, <2>1
<1>3. DOMAIN Needs \subseteq Op
  BY DEF Needs, Op
<1> QED BY <1>1, <1>2, <1>3 DEF Call, Op, BackupAsked

\* Every step of a program is a step of the library, or none.
LEMMA ProgramsStepIsApplyStep ==
    ASSUME ProgramsTypeOK, [ProgramsNext]_allVars
    PROVE  [Next]_vars
<1> USE ProgramsAssumption
<1>1. CASE BatchCall
  <2>1. \E c \in Call : Begin(Batch, c)
    BY <1>1, CallsAreTyped DEF BatchCall, Calls
  <2> QED BY <2>1 DEF Next
<1>2. CASE ToolCall
  <2>1. \E c \in Call : Begin(Tool, c)
    BY <1>2, CallsAreTyped DEF ToolCall, Calls
  <2> QED BY <2>1 DEF Next
<1>3. CASE LibraryStep(Batch) \/ LibraryStep(Tool)
  BY <1>3 DEF LibraryStep, Next
<1>4. CASE BatchReturn \/ BatchExit \/ ToolUsage \/ ToolReturn \/ RunBatchAgain \/ RunToolAgain
           \/ UNCHANGED allVars
  BY <1>4 DEF BatchReturn, BatchExit, ToolUsage, ToolReturn, RunBatchAgain, RunToolAgain,
              allVars, vars
<1> QED BY <1>1, <1>2, <1>3, <1>4 DEF ProgramsNext, BatchStep, ToolStep

\* The invariant at the start: nothing has been called, nothing has changed.
LEMMA ProgramsInitHolds == ProgramsInit => ProgramsInv
<1> USE ProgramsAssumption
<1> SUFFICES ASSUME ProgramsInit PROVE ProgramsInv
  OBVIOUS
<1>1. ProgramsTypeOK
  <2>1. args.files \in Seq(Target)
    BY DEF ProgramsInit
  <2>2. Len(args.files) \in Nat
    BY <2>1
  <2>3. original \in [Target -> Data]
    BY InitFiles DEF ProgramsInit
  <2> QED BY <2>2, <2>3 DEF ProgramsInit, ProgramsTypeOK
<1>2. CallsFit
  BY DEF ProgramsInit, CallsFit, Init, Live
<1>3. \A f \in Target : dir[f]["bak"] = None
  BY DEF ProgramsInit, Init, Name
<1>4. BackupOneBack
  BY <1>3 DEF BackupOneBack, Saved
<1>5. PatchedAtMostOnce
  BY DEF ProgramsInit, PatchedAtMostOnce
<1>6. calling[Batch] = FALSE /\ calling[Tool] = FALSE
  BY DEF ProgramsInit
<1>7. OriginalKept
  BY DEF ProgramsInit, OriginalKept
<1>8. Counted /\ TurnsStand
  <2>1. TurnsOver = 1 .. 0 /\ ~Answered(Batch)
    BY <1>6 DEF ProgramsInit, TurnsOver, Answered
  <2> QED BY <2>1 DEF ProgramsInit, Counted, TurnsStand
<1>9. ToolReadsHeld
  BY <1>6 DEF ProgramsInit, Init, Live, Answered, ToolReadsHeld, ToolAnswersTrue
<1> QED BY <1>1, <1>2, <1>4, <1>5, <1>7, <1>8, <1>9 DEF ProgramsInv

\* The program variables keep their types.
LEMMA ProgramsTypeKeeps ==
    ASSUME ProgramsTypeOK, CallsFit, [ProgramsNext]_allVars
    PROVE  ProgramsTypeOK'
<1> USE ProgramsAssumption
<1>1. /\ args \in BatchLines /\ line \in ToolLines
      /\ Len(args.files) \in Nat
      /\ turn \in 1 .. Len(args.files) + 1
      /\ success_count \in Nat /\ failure_count \in Nat
      /\ calling \in [Process -> BOOLEAN]
      /\ status \in [Process -> {"running", "0", "1", "aborted", "killed"}]
      /\ runs \in [Process -> Nat \ {0}]
      /\ \A p \in Process : runs[p] <= MaxRuns[p] /\ MaxRuns[p] \in Nat
      /\ original \in [Target -> Data]
  <2>1. args.files \in Seq(Target)
    BY DEF ProgramsTypeOK
  <2> QED BY <2>1 DEF ProgramsTypeOK
<1>2. CASE BatchCall \/ ToolCall
  BY <1>1, <1>2 DEF BatchCall, ToolCall, Calls, history, ProgramsTypeOK
<1>3. CASE BatchReturn
  <2>1. /\ UNCHANGED <<args, line, runs, original>>
        /\ calling' = [calling EXCEPT ![Batch] = FALSE]
        /\ turn <= Len(args.files)
    BY <1>3 DEF BatchReturn, Returned, history, CallsFit
  <2>2. turn' \in {turn, turn + 1}
    BY <1>3 DEF BatchReturn, Behind
  <2>3. success_count' \in Nat /\ failure_count' \in Nat
    BY <1>1, <1>3 DEF BatchReturn
  <2>4. status' \in [Process -> {"running", "0", "1", "aborted", "killed"}]
    BY <1>1, <1>3 DEF BatchReturn, Died, Exit
  <2> QED BY <1>1, <2>1, <2>2, <2>3, <2>4 DEF ProgramsTypeOK
<1>4. CASE BatchExit \/ ToolUsage \/ ToolReturn
  BY <1>1, <1>4 DEF BatchExit, ToolUsage, ToolReturn, Returned, Died, Exit, ExitCode,
                    history, ProgramsTypeOK
<1>5. CASE LibraryStep(Batch) \/ LibraryStep(Tool) \/ UNCHANGED allVars
  BY <1>1, <1>5 DEF LibraryStep, programVars, history, allVars, ProgramsTypeOK
<1>6. ASSUME NEW p \in Process, Starts(p)
      PROVE  /\ status' \in [Process -> {"running", "0", "1", "aborted", "killed"}]
             /\ runs' \in [Process -> Nat \ {0}] /\ \A q \in Process : runs'[q] <= MaxRuns[q]
  BY <1>1, <1>6 DEF Starts, Exit
<1>7. CASE RunBatchAgain
  BY <1>1, <1>6, <1>7 DEF RunBatchAgain, ProgramsTypeOK
<1>8. CASE RunToolAgain
  BY <1>1, <1>6, <1>8 DEF RunToolAgain, history, ProgramsTypeOK
<1> QED BY <1>2, <1>3, <1>4, <1>5, <1>7, <1>8 DEF ProgramsNext, BatchStep, ToolStep

\* A step of the library is one of a running call, which it leaves what it is.
LEMMA AdvanceOfCall ==
    ASSUME NEW p \in Process, Advance(p)
    PROVE  Live(p) /\ UNCHANGED call
BY DEF Advance, OpenBackup, CopyBackup, LoadPatch, OpenSource, ReadSource, CreateOutput,
       WriteOutput, FlushOutput, RenameTemp, RemoveTemp, AskExists, AskSize, Crash, Live

\* The calls stay those of the programs.
LEMMA CallsFitKeeps ==
    ASSUME IInv, ProgramsTypeOK, CallsFit, [ProgramsNext]_allVars
    PROVE  CallsFit'
<1> USE ProgramsAssumption
<1>1. /\ pc \in [Process -> Step] /\ call \in [Process -> Call]
      /\ calling \in [Process -> BOOLEAN]
      /\ status \in [Process -> {"running", "0", "1", "aborted", "killed"}]
  BY DEF IInv, TypeOK, ProgramsTypeOK
<1>2. CASE BatchCall
  <2> DEFINE c == [op |-> "inplace", file |-> args.files[turn], patch |-> args.patch,
                   backup |-> BackupAsked(args.files[turn])]
  <2>1. /\ call' = [call EXCEPT ![Batch] = c]
        /\ pc' = [pc EXCEPT ![Batch] = Entry(c)]
        /\ calling' = [calling EXCEPT ![Batch] = TRUE]
        /\ turn <= Len(args.files) /\ Running(Batch)
        /\ UNCHANGED <<args, turn, status>>
    BY <1>2 DEF BatchCall, Calls, Begin, Goto
  <2>2. c.op = "inplace" /\ c.backup /\ c.patch = args.patch /\ c.file = args.files[turn]
    BY DEF BackupAsked
  <2>3. UNCHANGED line
    BY <1>2 DEF BatchCall
  <2> HIDE DEF c
  <2> QED BY <1>1, <2>1, <2>2, <2>3 DEF CallsFit, Live, InPlace, File, Running
<1>3. CASE ToolCall
  <2> DEFINE c == [op |-> line.command, file |-> line.file, patch |-> line.patch,
                   backup |-> line.backup]
  <2>1. /\ call' = [call EXCEPT ![Tool] = c]
        /\ pc' = [pc EXCEPT ![Tool] = Entry(c)]
        /\ calling' = [calling EXCEPT ![Tool] = TRUE]
        /\ line.command \in DOMAIN Needs /\ Running(Tool)
        /\ UNCHANGED <<args, turn, status>>
    BY <1>3 DEF ToolCall, Calls, Begin, Goto
  <2>2. c.op \in DOMAIN Needs /\ c.op = line.command /\ c.file = line.file /\ c.patch = line.patch
    BY <2>1
  <2>3. UNCHANGED line
    BY <1>3 DEF ToolCall
  <2> HIDE DEF c
  <2> QED BY <1>1, <2>1, <2>2, <2>3 DEF CallsFit, Live, InPlace, File, Running
<1>4. CASE LibraryStep(Batch) \/ LibraryStep(Tool)
  <2>1. PICK p \in Process : Advance(p) /\ UNCHANGED programVars
    BY <1>4 DEF LibraryStep
  <2>2. Live(p) /\ UNCHANGED call /\ OthersStay(p)
    BY <2>1, AdvanceOfCall, OthersUndisturbed
  <2>3. \A q \in Process : Live(q)' => Live(q)
    BY <2>2 DEF OthersStay, Live
  <2> QED BY <2>1, <2>2, <2>3 DEF CallsFit, programVars, InPlace, File, Running
<1>5. CASE BatchReturn
  BY <1>1, <1>5 DEF BatchReturn, Returned, Died, Exit, CallsFit, vars, Live, InPlace, File, Running
<1>6. CASE ToolReturn
  BY <1>1, <1>6 DEF ToolReturn, Returned, Died, Exit, CallsFit, vars, Live, InPlace, File, Running
<1>7. CASE BatchExit \/ ToolUsage
  <2>1. /\ UNCHANGED <<pc, call, calling, args, turn, line>>
        /\ \/ ~calling[Batch] /\ \A q \in Process \ {Batch} : status'[q] = status[q]
           \/ ~calling[Tool] /\ \A q \in Process \ {Tool} : status'[q] = status[q]
    BY <1>1, <1>7 DEF BatchExit, ToolUsage, Exit, vars
  <2> QED BY <2>1 DEF CallsFit, Live, InPlace, File, Running
<1>10. CASE UNCHANGED allVars
  BY <1>10 DEF allVars, programVars, vars, CallsFit, Live, InPlace, File, Running
<1>8. CASE RunBatchAgain
  <2>1. ~calling[Batch] /\ ~Live(Batch)
    BY <1>8 DEF RunBatchAgain, Starts, CallsFit
  <2>2. Len(args.files) \in Nat
    BY DEF ProgramsTypeOK
  <2> QED BY <1>1, <1>8, <2>1, <2>2 DEF RunBatchAgain, Starts, Exit, vars, CallsFit, Live, InPlace,
                                        File, Running, ProgramsTypeOK
<1>9. CASE RunToolAgain
  BY <1>1, <1>9 DEF RunToolAgain, Starts, Exit, vars, CallsFit, Live, InPlace, File, Running
<1> QED BY <1>2, <1>3, <1>4, <1>5, <1>6, <1>7, <1>8, <1>9, <1>10
        DEF ProgramsNext, BatchStep, ToolStep

\* A step that touches a name other than a backup's leaves the backups alone.
LEMMA SavedKept ==
    ASSUME IInv, NEW f \in Target, NEW n \in Name, n # "bak", OnlyTouches(f, n)
    PROVE  \A g \in Target : Saved(g)' = Saved(g)
BY DEF OnlyTouches, Saved, Name

\* A step that touches a file's backup leaves those of the other files alone.
LEMMA OtherSavedKept ==
    ASSUME NEW f \in Target, OnlyTouches(f, "bak")
    PROVE  \A g \in Target : g # f => Saved(g)' = Saved(g)
<1> SUFFICES ASSUME NEW g \in Target, g # f PROVE Saved(g)' = Saved(g)
  OBVIOUS
<1>1. "bak" \in Name
  BY DEF Name
<1>2. /\ dir'[g]["bak"] = dir[g]["bak"]
      /\ dir[g]["bak"] # None => disk'[dir[g]["bak"]] = disk[dir[g]["bak"]]
  BY <1>1 DEF OnlyTouches
<1> QED BY <1>2 DEF Saved

\* Only create_backup writes backups.
LEMMA BackupKept ==
    ASSUME IInv, NEW p \in Process, Advance(p), ~OpenBackup(p), ~CopyBackup(p)
    PROVE  \A g \in Target : Saved(g)' = Saved(g)
<1> USE ApplyAssumption
<1>1. File(p) \in Target /\ OutName(call[p]) \in Name \ {"file", "bak"}
  BY DEF IInv, TypeOK, Call, File, OutName, Name
<1>2. CASE UNCHANGED <<dir, disk>>
  BY <1>2 DEF Saved
<1>3. CASE CreateOutput(p)
  BY <1>1, <1>2, <1>3, OpenTouches, SavedKept DEF CreateOutput
<1>4. CASE WriteOutput(p) \/ FlushOutput(p)
  <2>1. data[p] \in Content /\ WriterName(p) = OutName(call[p])
    BY <1>4 DEF IInv, TypeOK, WriterName, WriteOutput, FlushOutput
  <2>2. \/ UNCHANGED <<dir, disk>>
        \/ /\ UNCHANGED dir /\ pc[p] \in {"copying", "write", "flush"}
           /\ \E c \in Content : disk' = [disk EXCEPT ![wr[p]] = c]
    BY <1>4, <2>1, FlushWrites DEF WriteOutput, FlushOutput
  <2> QED BY <1>1, <1>2, <2>1, <2>2, WriteTouches, SavedKept
<1>5. CASE RenameTemp(p) \/ RemoveTemp(p)
  <2>1. UNCHANGED disk /\ \A g \in Target : dir'[g]["bak"] = dir[g]["bak"]
    BY <1>1, <1>5, "bak" \in Name DEF RenameTemp, RemoveTemp, Renamed, Unlinked, IInv, TypeOK, Name
  <2> QED BY <2>1 DEF Saved
<1> QED BY <1>2, <1>3, <1>4, <1>5 DEF Advance, LoadPatch, OpenSource, ReadSource,
      AskExists, AskSize, Crash

\* Only the rename moves a target to another inode.
LEMMA EntryKept ==
    ASSUME IInv, NEW p \in Process, Advance(p), ~RenameTemp(p)
    PROVE  \A g \in Target : dir'[g]["file"] = dir[g]["file"]
<1>1. File(p) \in Target /\ OutName(call[p]) \in Name \ {"file", "bak"}
  BY DEF IInv, TypeOK, Call, File, OutName, Name
<1>2. ASSUME NEW n \in Name \ {"file"}, NEW i, dir' = [dir EXCEPT ![File(p)][n] = i]
      PROVE  \A g \in Target : dir'[g]["file"] = dir[g]["file"]
  BY <1>1, <1>2, "file" \in Name DEF IInv, TypeOK, Name
<1>3. CASE OpenBackup(p)
  BY <1>2, <1>3, "bak" \in Name \ {"file"} DEF OpenBackup, Name
<1>4. CASE CreateOutput(p)
  BY <1>1, <1>2, <1>4 DEF CreateOutput
<1>5. CASE RemoveTemp(p)
  BY <1>2, <1>5, "tmp" \in Name \ {"file"} DEF RemoveTemp, Unlinked, Name
<1> QED BY <1>3, <1>4, <1>5 DEF Advance, CopyBackup, LoadPatch, OpenSource, ReadSource,
      WriteOutput, FlushOutput, AskExists, AskSize, Crash

\* What the calls of the tool never do.
LEMMA ToolOnlyReads ==
    ASSUME IInv, CallsFit, Advance(Tool)
    PROVE  ~OpenBackup(Tool) /\ ~CopyBackup(Tool) /\ ~RenameTemp(Tool)
<1> USE ProgramsAssumption
<1>1. call[Tool].op \in {"apply", "info", "validate"}
  BY AdvanceOfCall DEF CallsFit, Needs
<1>2. StepFitsCall(Tool)
  BY DEF IInv, ProcessInv
<1> QED BY <1>1, <1>2 DEF StepFitsCall, OpenBackup, CopyBackup, RenameTemp, InPlace

\* A backup is made of the file as it is, and a file is only replaced behind it.
LEMMA BackupOneBackKeeps ==
    ASSUME IInv, ProgramsTypeOK, CallsFit, BackupOneBack, [ProgramsNext]_allVars
    PROVE  BackupOneBack'
<1> USE ProgramsAssumption
<1>1. CASE UNCHANGED <<dir, disk, was>>
  BY <1>1 DEF BackupOneBack, Saved, ContentOf
<1>2. ASSUME NEW p \in Process, LibraryStep(p), ~RenameTemp(p)
      PROVE  was' = [f \in Target |-> was[f]] /\ \A g \in Target : ContentOf(g)' = ContentOf(g)
  BY <1>2, EntryKept, OnlyRenameChanges DEF LibraryStep
<1>3. ASSUME NEW p \in Process, LibraryStep(p), ~OpenBackup(p), ~CopyBackup(p), ~RenameTemp(p)
      PROVE  BackupOneBack'
  BY <1>2, <1>3, BackupKept DEF LibraryStep, BackupOneBack
<1>4. CASE LibraryStep(Tool)
  BY <1>3, <1>4, ToolOnlyReads DEF LibraryStep
<1>12. File(Batch) \in Target
  BY DEF IInv, TypeOK, Call, File
<1> PICK f \in Target : f = File(Batch)
  BY <1>12
<1>5. ASSUME LibraryStep(Batch)
      PROVE  InPlace(Batch) /\ call[Batch].backup /\ ProcessInv(Batch)
  <2>1. Live(Batch)
    BY <1>5, AdvanceOfCall DEF LibraryStep
  <2> QED BY <2>1 DEF CallsFit, IInv
<1>6. CASE LibraryStep(Batch) /\ OpenBackup(Batch)
  <2>3. ~RenameTemp(Batch)
    BY <1>6 DEF OpenBackup, RenameTemp
  <2>4. \A g \in Target : was'[g] = was[g] /\ ContentOf(g)' = ContentOf(g)
    BY <1>2, <1>6, <2>3
  <2>1. CASE UNCHANGED <<dir, disk>>
    BY <2>1, <2>4 DEF BackupOneBack, Saved
  <2>2. ASSUME NEW i \in OpenForWriting(f, "bak"),
               dir' = [dir EXCEPT ![f]["bak"] = i], disk' = [disk EXCEPT ![i] = Torn]
        PROVE  BackupOneBack'
    <3>1. /\ OnlyTouches(f, "bak") /\ dir'[f]["bak"] = i /\ disk'[i] = Torn
      BY <1>5, <1>6, <2>2, OpenTouches, "bak" \in Name \ {"file"} DEF Name
    <3>2. Saved(f)' \subseteq {Torn}
      BY <3>1 DEF Saved
    <3>3. \A g \in Target \ {f} : Saved(g)' = Saved(g)
      BY <3>1, OtherSavedKept
    <3> QED BY <2>4, <3>2, <3>3 DEF BackupOneBack
  <2> QED BY <1>6, <2>1, <2>2 DEF OpenBackup
<1>7. CASE LibraryStep(Batch) /\ CopyBackup(Batch)
  <2>3. ~RenameTemp(Batch)
    BY <1>7 DEF CopyBackup, RenameTemp
  <2>4. \A g \in Target : was'[g] = was[g] /\ ContentOf(g)' = ContentOf(g)
    BY <1>2, <1>7, <2>3
  <2>1. CASE UNCHANGED <<dir, disk>>
    BY <2>1, <2>4 DEF BackupOneBack, Saved
  <2>2. CASE disk' = [disk EXCEPT ![wr[Batch]] = disk[rd[Batch]]] /\ UNCHANGED dir
    <3>1. /\ pc[Batch] = "copying" /\ WriterName(Batch) = "bak"
          /\ disk[rd[Batch]] = ContentOf(f) /\ disk[rd[Batch]] \in Content
          /\ disk' = [disk EXCEPT ![wr[Batch]] = ContentOf(f)]
      BY <1>5, <1>7, <2>2, WholeContents
         DEF CopyBackup, WriterName, ProcessInv, ReadsTarget, ReaderOwns, ContentOf
    <3>2. /\ OnlyTouches(File(Batch), WriterName(Batch))
          /\ disk'[dir[File(Batch)][WriterName(Batch)]] = ContentOf(f)
      <4>1. \A c \in Content : disk' = [disk EXCEPT ![wr[Batch]] = c] =>
               /\ OnlyTouches(File(Batch), WriterName(Batch))
               /\ disk'[dir[File(Batch)][WriterName(Batch)]] = c
        BY <2>2, <3>1, WriteTouches
      <4> QED BY <3>1, <4>1
    <3>5. OnlyTouches(f, "bak") /\ disk'[dir[f]["bak"]] = ContentOf(f)
      BY <3>1, <3>2
    <3>3. Saved(f)' \subseteq {ContentOf(f)}
      BY <2>2, <3>5 DEF Saved
    <3>4. \A g \in Target \ {f} : Saved(g)' = Saved(g)
      BY <3>5, OtherSavedKept
    <3> QED BY <2>4, <3>3, <3>4 DEF BackupOneBack
  <2> QED BY <1>7, <2>1, <2>2 DEF CopyBackup
<1>8. CASE LibraryStep(Batch) /\ RenameTemp(Batch)
  <2>1. \A g \in Target : Saved(g)' = Saved(g)
    BY <1>8, BackupKept DEF LibraryStep, RenameTemp, OpenBackup, CopyBackup
  <2>2. CASE UNCHANGED <<dir, disk>>
    <3>1. \A g \in Target : ContentOf(g)' = ContentOf(g) /\ was'[g] = was[g]
      BY <1>8, <2>2 DEF ContentOf, LibraryStep
    <3> QED BY <2>1, <3>1 DEF BackupOneBack
  <2>3. CASE dir' = Renamed(f) /\ UNCHANGED disk
    <3>1. Saved(f) = {ContentOf(f)}
      BY <1>5, <1>8 DEF ProcessInv, BackupCurrent, RenameTemp, Saved
    <3>2. /\ dir'[f]["file"] = dir[f]["tmp"] /\ dir[f]["tmp"] # dir[f]["file"]
          /\ \A g \in Target \ {f} : dir'[g]["file"] = dir[g]["file"]
      <4>1. dir[f]["tmp"] # None
        BY <1>5, <1>8 DEF ProcessInv, TempReady, RenameTemp
      <4> QED BY <1>5, <2>3, <4>1, {"file", "tmp"} \subseteq Name
              DEF Renamed, IInv, TypeOK, Distinct, Name
    <3>3. was'[f] = ContentOf(f)
      BY <1>5, <1>8, <3>2 DEF LibraryStep
    <3>4. \A g \in Target \ {f} : was'[g] = was[g] /\ ContentOf(g)' = ContentOf(g)
      BY <1>8, <2>3, <3>2 DEF LibraryStep, ContentOf
    <3> QED BY <2>1, <3>1, <3>3, <3>4 DEF BackupOneBack
  <2> QED BY <1>8, <2>2, <2>3 DEF RenameTemp
<1>9. CASE LibraryStep(Batch)
  BY <1>3, <1>6, <1>7, <1>8, <1>9
<1>10. CASE BatchCall \/ ToolCall
  BY <1>1, <1>10 DEF BatchCall, ToolCall, Calls, Begin, history
<1>11. CASE BatchReturn \/ BatchExit \/ ToolUsage \/ ToolReturn \/ RunBatchAgain \/ RunToolAgain
            \/ UNCHANGED allVars
  BY <1>1, <1>11 DEF BatchReturn, BatchExit, ToolUsage, ToolReturn, RunBatchAgain, RunToolAgain,
                     allVars, vars, history
<1> QED BY <1>4, <1>9, <1>10, <1>11 DEF ProgramsNext, BatchStep, ToolStep

\* What a call of the batch puts in a file is the patch of the original, or the
\* patch of that, which it refuses.
LEMMA PatchedAtMostOnceKeeps ==
    ASSUME IInv, ProgramsTypeOK, CallsFit, PatchedAtMostOnce, [ProgramsNext]_allVars
    PROVE  PatchedAtMostOnce'
<1> USE ProgramsAssumption, ApplyAssumption
<1>1. UNCHANGED <<args, original>>
  BY DEF ProgramsNext, BatchStep, ToolStep, BatchCall, BatchReturn, BatchExit, LibraryStep,
         ToolUsage, ToolCall, ToolReturn, RunBatchAgain, RunToolAgain, allVars, programVars, history
<1>2. CASE \A g \in Target : ContentOf(g)' = ContentOf(g)
  BY <1>1, <1>2 DEF PatchedAtMostOnce
<1>3. ASSUME NEW p \in Process, LibraryStep(p), ~RenameTemp(p)
      PROVE  PatchedAtMostOnce'
  BY <1>2, <1>3, OnlyRenameChanges DEF LibraryStep
<1>4. CASE LibraryStep(Tool)
  BY <1>3, <1>4, ToolOnlyReads DEF LibraryStep
<1>5. CASE LibraryStep(Batch) /\ RenameTemp(Batch)
  <2>4. File(Batch) \in Target /\ args.patch \in Patch
    BY DEF IInv, TypeOK, Call, File, ProgramsTypeOK
  <2> PICK f \in Target, pt \in Patch : f = File(Batch) /\ pt = args.patch
    BY <2>4
  <2>1. Live(Batch) /\ UNCHANGED call /\ call[Batch].patch = pt
    BY <1>5, AdvanceOfCall DEF LibraryStep, CallsFit
  <2>2. CASE UNCHANGED <<dir, disk>>
    BY <1>2, <2>2 DEF ContentOf
  <2>3. CASE /\ ContentOf(f)' \in {data[Batch]} \union Spoilt
             /\ data[Batch] = Outcome[pt][ContentOf(f)]
             /\ data[Batch] \in Whole
             /\ \A g \in Target \ {f} : ContentOf(g)' = ContentOf(g)
    <3> SUFFICES ASSUME RefusesItsOutput(pt)
                 PROVE  ContentOf(f)' \in {original[f], Outcome[pt][original[f]]} \union Spoilt
      BY <1>1, <2>3 DEF PatchedAtMostOnce
    <3>1. /\ ContentOf(f) \in {original[f], Outcome[pt][original[f]]} \union Spoilt
          /\ ContentOf(f) \in Whole /\ Outcome[pt][ContentOf(f)] # Rejected
      BY <2>1, <2>3, WholeContents DEF PatchedAtMostOnce, IInv, TargetIntact
    <3>2. CASE ContentOf(f) = original[f]
      BY <2>3, <3>2
    <3>3. CASE ContentOf(f) = Outcome[pt][original[f]] /\ ContentOf(f) # original[f]
      <4>1. original[f] \in Data /\ Outcome[pt][original[f]] # Rejected
        BY <2>1, <3>1, <3>3, WholeContents DEF ProgramsTypeOK
      <4>2. Outcome[pt][ContentOf(f)] = Rejected
        BY <3>3, <4>1 DEF RefusesItsOutput
      <4> QED BY <3>1, <4>2
    <3>4. CASE ContentOf(f) \in Spoilt
      BY <3>1, <3>4 DEF RefusesItsOutput
    <3> QED BY <3>1, <3>2, <3>3, <3>4
  <2>5. File(Batch)' = f
    BY <2>1 DEF File
  <2> QED BY <1>5, <2>1, <2>2, <2>3, <2>5, RenameChanges DEF ContentOf
<1>6. CASE BatchCall \/ ToolCall
  BY <1>2, <1>6 DEF BatchCall, ToolCall, Calls, Begin, ContentOf
<1>7. CASE BatchReturn \/ BatchExit \/ ToolUsage \/ ToolReturn \/ RunBatchAgain \/ RunToolAgain
            \/ UNCHANGED allVars
  BY <1>2, <1>7 DEF BatchReturn, BatchExit, ToolUsage, ToolReturn, RunBatchAgain, RunToolAgain,
                    allVars, vars, ContentOf
<1> QED BY <1>3, <1>4, <1>5, <1>6, <1>7 DEF ProgramsNext, BatchStep, ToolStep

-----------------------------------------------------------------------------
(***************************************************************************)
(* The history of one run                                                  *)
(***************************************************************************)

\* The turn of a running call is one of the loop's.
LEMMA TurnOfCall ==
    ASSUME ProgramsTypeOK, CallsFit
    PROVE  /\ turn \in Nat \ {0} /\ Len(args.files) \in Nat
           /\ DOMAIN args.files = 1 .. Len(args.files)
           /\ calling[Batch] => turn \in DOMAIN args.files
           /\ \A i \in DOMAIN args.files : args.files[i] \in Target
<1>1. args.files \in Seq(Target)
  BY ProgramsAssumption DEF ProgramsTypeOK
<1> QED BY <1>1 DEF ProgramsTypeOK, CallsFit

\* A file listed once has one turn.
LEMMA OneTurn ==
    ASSUME ProgramsTypeOK, CallsFit, NEW f \in Target, ListedOnce(f),
           NEW i \in DOMAIN args.files, NEW j \in DOMAIN args.files,
           args.files[i] = f, args.files[j] = f
    PROVE  i = j
<1> DEFINE S == {k \in DOMAIN args.files : args.files[k] = f}
<1>1. IsFiniteSet(S)
  <2>1. IsFiniteSet(1 .. Len(args.files))
    BY TurnOfCall, FS_Interval
  <2> QED BY <2>1, TurnOfCall, FS_Subset
<1>2. SUFFICES ASSUME i # j PROVE FALSE
  OBVIOUS
<1>3. Cardinality({i, j}) = 2
  <2>1. IsFiniteSet({i}) /\ Cardinality({i}) = 1
    BY FS_Singleton
  <2>2. Cardinality({i} \cup {j}) = IF j \in {i} THEN Cardinality({i}) ELSE Cardinality({i}) + 1
    BY <2>1, FS_AddElement
  <2>3. {i} \cup {j} = {i, j}
    OBVIOUS
  <2> QED BY <1>2, <2>1, <2>2, <2>3
<1>4. Cardinality({i, j}) <= Cardinality(S)
  BY <1>1, FS_Subset
<1>5. Cardinality(S) \in Nat
  BY <1>1, FS_CardinalityType
<1>6. Cardinality(S) <= 1
  BY DEF ListedOnce
<1> HIDE DEF S
<1> QED BY <1>3, <1>4, <1>5, <1>6

\* The steps that end no turn and touch no file the batch works on.
Bystanding ==
    /\ \A g \in Target : ContentOf(g)' = ContentOf(g) /\ Saved(g)' = Saved(g) /\ was'[g] = was[g]
    /\ UNCHANGED <<args, original, turn, success_count, failure_count, changes>>
    /\ runs'[Batch] = runs[Batch]
    /\ Answered(Batch)' = Answered(Batch)
    /\ calling[Batch] => calling'[Batch]

\* A call of the tool is one of them.
LEMMA ToolStandsBy ==
    ASSUME IInv, ProgramsTypeOK, CallsFit, LibraryStep(Tool)
    PROVE  Bystanding
<1> USE ProgramsAssumption
<1>1. Advance(Tool) /\ UNCHANGED <<programVars, original>>
  BY DEF LibraryStep
<1>2. /\ \A g \in Target : ContentOf(g)' = ContentOf(g) /\ Saved(g)' = Saved(g)
      /\ \A g \in Target : dir'[g]["file"] = dir[g]["file"]
  BY <1>1, ToolOnlyReads, OnlyRenameChanges, BackupKept, EntryKept
<1>3. \A g \in Target : was'[g] = was[g]
  BY <1>2 DEF LibraryStep
<1>4. changes' = changes
  BY DEF LibraryStep
<1>5. pc'[Batch] = pc[Batch] /\ result'[Batch] = result[Batch]
  BY <1>1, OthersUndisturbed DEF OthersStay
<1> QED BY <1>1, <1>2, <1>3, <1>4, <1>5 DEF Bystanding, programVars, Answered, Live

\* So is every other step but those of a turn of the batch and of its restart.
LEMMA OthersStandBy ==
    ASSUME IInv, ProgramsTypeOK, CallsFit,
           \/ BatchCall \/ BatchExit \/ ToolUsage \/ ToolCall \/ ToolReturn \/ RunToolAgain
           \/ UNCHANGED allVars
    PROVE  Bystanding
<1> USE ProgramsAssumption
<1>1. /\ UNCHANGED <<dir, disk, was, args, original, turn, success_count, failure_count, changes>>
      /\ pc \in [Process -> Step] /\ result \in [Process -> Result]
      /\ runs \in [Process -> Nat \ {0}] /\ calling \in [Process -> BOOLEAN]
  BY DEF BatchCall, BatchExit, ToolUsage, ToolCall, ToolReturn, RunToolAgain, allVars, Calls,
         Begin, vars, programVars, history, IInv, TypeOK, ProgramsTypeOK
<1>2. \A g \in Target : ContentOf(g)' = ContentOf(g) /\ Saved(g)' = Saved(g) /\ was'[g] = was[g]
  BY <1>1 DEF ContentOf, Saved
<1>3. runs'[Batch] = runs[Batch]
  BY <1>1 DEF BatchCall, BatchExit, ToolUsage, ToolCall, ToolReturn, RunToolAgain, allVars,
              programVars, Starts
<1>4. CASE BatchCall
  <2>1. ~calling[Batch] /\ Live(Batch)' /\ calling'[Batch]
    BY <1>1, <1>4 DEF BatchCall, Calls, Begin, Goto, Entry, Live
  <2> QED BY <1>1, <1>2, <1>3, <2>1 DEF Bystanding, Answered
<1>5. CASE ToolCall
  <2>1. /\ pc'[Batch] = pc[Batch] /\ result'[Batch] = result[Batch]
        /\ calling'[Batch] = calling[Batch]
    BY <1>1, <1>5 DEF ToolCall, Calls, Begin, Goto
  <2> QED BY <1>1, <1>2, <1>3, <2>1 DEF Bystanding, Answered, Live
<1>6. CASE BatchExit \/ ToolUsage \/ ToolReturn \/ RunToolAgain \/ UNCHANGED allVars
  <2>1. UNCHANGED <<pc, result>> /\ calling'[Batch] = calling[Batch]
    BY <1>1, <1>6 DEF BatchExit, ToolUsage, ToolReturn, RunToolAgain, Returned, allVars, vars,
                      programVars
  <2> QED BY <1>1, <1>2, <1>3, <2>1 DEF Bystanding, Answered, Live
<1> QED BY <1>4, <1>5, <1>6

\* The turns of the other files are not disturbed by a call of the batch, which
\* either leaves its file as it is, or replaces it by the patch of what is then
\* in the backup.
LEMMA BatchTurn ==
    ASSUME IInv, ProgramsTypeOK, CallsFit, LibraryStep(Batch), NEW f \in Target, f = File(Batch)
    PROVE  /\ Live(Batch) /\ calling[Batch] /\ f = args.files[turn]
           /\ UNCHANGED <<args, original, turn, success_count, failure_count, calling, status, runs>>
           /\ \A g \in Target \ {f} :
                ContentOf(g)' = ContentOf(g) /\ Saved(g)' = Saved(g) /\ was'[g] = was[g]
           /\ \/ /\ ~Answered(Batch)'
                 /\ ContentOf(f)' = ContentOf(f) /\ was'[f] = was[f] /\ changes' = changes
              \/ /\ Answered(Batch)'
                 /\ Saved(f)' = {ContentOf(f)} /\ was'[f] = ContentOf(f)
                 /\ ContentOf(f)' \in {Outcome[args.patch][ContentOf(f)]} \union Spoilt
                 /\ changes' = changes + 1
<1> USE ProgramsAssumption
<1>1. /\ Advance(Batch) /\ UNCHANGED <<programVars, original, call>>
      /\ Live(Batch) /\ calling[Batch] /\ f = args.files[turn]
      /\ call[Batch].patch = args.patch /\ InPlace(Batch) /\ call[Batch].backup
      /\ ProcessInv(Batch)
  BY AdvanceOfCall DEF LibraryStep, CallsFit, IInv
<1>2. /\ pc \in [Process -> Step] /\ result \in [Process -> Result]
      /\ rd[Batch] \in Inode \union {None} /\ disk \in [Inode -> Content]
  BY DEF IInv, TypeOK
<1>3. ~RenameTemp(Batch) =>
        /\ \A g \in Target : ContentOf(g)' = ContentOf(g) /\ dir'[g]["file"] = dir[g]["file"]
        /\ \A g \in Target : was'[g] = was[g]
        /\ changes' = changes
  BY <1>1, OnlyRenameChanges, EntryKept DEF LibraryStep
<1>4. Answered(Batch)' => RenameTemp(Batch) /\ dir' = Renamed(f) /\ UNCHANGED disk
  <2>1. SUFFICES ASSUME Answered(Batch)'
                 PROVE  RenameTemp(Batch) /\ dir' = Renamed(f) /\ UNCHANGED disk
    OBVIOUS
  <2>2. Next /\ Returns(Batch) /\ result'[Batch] = "Ok"
    BY <1>1, <2>1 DEF Next, Returns, Answered
  <2>3. RenameTemp(Batch)
    BY <2>2, <1>1, WhereCallsEnd, VerifyAsks DEF InPlace, Result, Error
  <2> QED BY <2>2, <2>3, <1>2 DEF RenameTemp, Return
<1>5. CASE ~RenameTemp(Batch)
  <2>1. \A g \in Target \ {f} : Saved(g)' = Saved(g)
    <3>1. CASE ~OpenBackup(Batch) /\ ~CopyBackup(Batch)
      BY <1>1, <1>5, <3>1, BackupKept
    <3>2. CASE OpenBackup(Batch)
      <4>1. CASE UNCHANGED <<dir, disk>>
        BY <4>1 DEF Saved
      <4>2. ASSUME NEW i \in OpenForWriting(f, "bak"),
                   dir' = [dir EXCEPT ![f]["bak"] = i], disk' = [disk EXCEPT ![i] = Torn]
            PROVE  OnlyTouches(f, "bak")
        BY <4>2, OpenTouches, "bak" \in Name \ {"file"} DEF Name
      <4> QED BY <3>2, <4>1, <4>2, OtherSavedKept DEF OpenBackup
    <3>3. CASE CopyBackup(Batch)
      <4>1. CASE UNCHANGED <<dir, disk>>
        BY <4>1 DEF Saved
      <4>2. CASE disk' = [disk EXCEPT ![wr[Batch]] = disk[rd[Batch]]] /\ UNCHANGED dir
        <5>1. pc[Batch] = "copying" /\ WriterName(Batch) = "bak" /\ disk[rd[Batch]] \in Content
          BY <1>1, <1>2, <3>3, WholeContents DEF CopyBackup, WriterName, ProcessInv, ReaderOwns
        <5>2. \A c \in Content : disk' = [disk EXCEPT ![wr[Batch]] = c] =>
                 OnlyTouches(File(Batch), WriterName(Batch))
          BY <4>2, <5>1, WriteTouches
        <5>3. OnlyTouches(f, "bak")
          BY <4>2, <5>1, <5>2
        <5> QED BY <5>3, OtherSavedKept
      <4> QED BY <3>3, <4>1, <4>2 DEF CopyBackup
    <3> QED BY <3>1, <3>2, <3>3
  <2> QED BY <1>1, <1>3, <1>4, <1>5, <2>1 DEF programVars
<1>6. CASE RenameTemp(Batch)
  <2>1. \A g \in Target : Saved(g)' = Saved(g)
    BY <1>1, <1>6, BackupKept DEF RenameTemp, OpenBackup, CopyBackup
  <2>2. CASE UNCHANGED dir /\ Return(Batch, "FileWriteError")
    <3>1. UNCHANGED disk /\ ~Answered(Batch)'
      BY <1>2, <1>6, <2>2 DEF RenameTemp, Return, Answered
    <3>2. \A g \in Target : ContentOf(g)' = ContentOf(g) /\ was'[g] = was[g]
      BY <2>2, <3>1 DEF ContentOf, LibraryStep
    <3>3. changes' = changes
      BY <2>2 DEF LibraryStep
    <3> QED BY <1>1, <2>1, <3>1, <3>2, <3>3 DEF programVars
  <2>3. CASE dir' = Renamed(f) /\ Return(Batch, "Ok")
    <3>1. Saved(f) = {ContentOf(f)} /\ UNCHANGED disk
      BY <1>1, <1>6 DEF ProcessInv, BackupCurrent, RenameTemp, Saved
    <3>2. /\ dir'[f]["file"] = dir[f]["tmp"] /\ dir[f]["tmp"] # dir[f]["file"]
          /\ \A g \in Target \ {f} : dir'[g]["file"] = dir[g]["file"]
      <4>1. dir[f]["tmp"] # None
        BY <1>1, <1>6 DEF ProcessInv, TempReady, RenameTemp
      <4> QED BY <2>3, <4>1, {"file", "tmp"} \subseteq Name
              DEF Renamed, IInv, TypeOK, Distinct, Name
    <3>3. was'[f] = ContentOf(f) /\ changes' = changes + 1
      BY <3>2 DEF LibraryStep
    <3>4. \A g \in Target \ {f} : was'[g] = was[g] /\ ContentOf(g)' = ContentOf(g)
      BY <3>1, <3>2 DEF LibraryStep, ContentOf
    <3>5. ContentOf(f)' \in {Outcome[args.patch][ContentOf(f)]} \union Spoilt
      <4>1. File(Batch)' = f /\ result'[Batch] = "Ok"
        BY <1>1, <1>2, <2>3 DEF File, Return
      <4>2. /\ ContentOf(File(Batch))' \in {data[Batch]} \union Spoilt
            /\ data[Batch] = Outcome[call[Batch].patch][ContentOf(File(Batch))]
        BY <1>6, <4>1, RenameChanges
      <4>3. ContentOf(File(Batch))' = ContentOf(f)'
        BY <4>1 DEF ContentOf
      <4> QED BY <1>1, <4>2, <4>3
    <3>6. Answered(Batch)'
      BY <1>1, <1>2, <2>3 DEF Return, Goto, Answered, Live, programVars
    <3> QED BY <1>1, <2>1, <3>1, <3>3, <3>4, <3>5, <3>6 DEF programVars
  <2> QED BY <1>6, <2>2, <2>3 DEF RenameTemp
<1> QED BY <1>5, <1>6

\* How a turn ends: the program dies, or the answer of the call is counted.
LEMMA TurnEnds ==
    ASSUME IInv, ProgramsTypeOK, CallsFit, BatchReturn
    PROVE  /\ UNCHANGED <<dir, disk, was, args, original, changes, runs>>
           /\ ~Answered(Batch)' /\ ~calling'[Batch]
           /\ \/ /\ ~Answered(Batch) /\ status'[Batch] \in {"aborted", "killed"}
                 /\ UNCHANGED <<turn, success_count, failure_count>>
              \/ /\ Answered(Batch) /\ turn' = turn + 1
                 /\ success_count' = success_count + 1 /\ UNCHANGED <<failure_count, status>>
              \/ /\ ~Answered(Batch) /\ turn' = turn + 1
                 /\ failure_count' = failure_count + 1 /\ UNCHANGED <<success_count, status>>
<1> USE ProgramsAssumption
<1>1. /\ UNCHANGED <<dir, disk, was, args, original, changes, runs>>
      /\ calling[Batch] /\ ~Live(Batch) /\ calling' = [calling EXCEPT ![Batch] = FALSE]
      /\ calling \in [Process -> BOOLEAN] /\ Batch \in Process
      /\ status \in [Process -> {"running", "0", "1", "aborted", "killed"}]
  BY DEF BatchReturn, Returned, vars, history, ProgramsTypeOK
<1>2. ~calling'[Batch] /\ ~Answered(Batch)'
  BY <1>1 DEF Answered
<1>3. CASE Died(Batch) /\ UNCHANGED <<turn, success_count, failure_count>>
  BY <1>1, <1>2, <1>3 DEF Died, Exit, Answered
<1>4. CASE /\ result[Batch] \in Error \union {"Ok"}
           /\ turn' = Behind(turn)
           /\ IF Succeeded(result[Batch])
                THEN success_count' = success_count + 1 /\ UNCHANGED failure_count
                ELSE failure_count' = failure_count + 1 /\ UNCHANGED success_count
           /\ UNCHANGED status
  <2>1. Answered(Batch) <=> Succeeded(result[Batch])
    BY <1>1 DEF Answered, Succeeded
  <2> QED BY <1>1, <1>2, <1>4, <2>1 DEF Behind
<1> QED BY <1>3, <1>4 DEF BatchReturn

\* A file keeps its original, or its backup does (see OriginalKept).
LEMMA OriginalKeptKeeps ==
    ASSUME IInv, ProgramsTypeOK, CallsFit, OriginalKept, [ProgramsNext]_allVars
    PROVE  OriginalKept'
<1> USE ProgramsAssumption
<1> USE TurnOfCall
<1>1. CASE Bystanding
  BY <1>1 DEF Bystanding, OriginalKept, ListedOnce, TurnsOver
<1>2. CASE LibraryStep(Batch)
  <2>1. File(Batch) \in Target /\ ~Answered(Batch)
    BY <1>2, AdvanceOfCall DEF IInv, TypeOK, Call, File, LibraryStep, Answered
  <2> PICK f \in Target : f = File(Batch)
    BY <2>1
  <2>2. /\ Live(Batch) /\ calling[Batch] /\ f = args.files[turn] /\ turn \in DOMAIN args.files
        /\ UNCHANGED <<args, original, turn, runs>>
        /\ \A g \in Target \ {f} : ContentOf(g)' = ContentOf(g) /\ Saved(g)' = Saved(g)
        /\ \/ ContentOf(f)' = ContentOf(f)
           \/ Answered(Batch)' /\ Saved(f)' = {ContentOf(f)}
    BY <1>2, BatchTurn
  <2> SUFFICES ASSUME runs[Batch] = 1, NEW g \in Target, ListedOnce(g)
               PROVE  \/ ContentOf(g)' = original[g]
                      \/ /\ Saved(g)' = {original[g]}
                         /\ \A i \in DOMAIN args.files : args.files[i] = g => i \in TurnsOver'
    BY <2>2 DEF OriginalKept, ListedOnce
  <2>3. TurnsOver = 1 .. turn - 1 /\ TurnsOver \subseteq TurnsOver'
    BY <2>1, <2>2 DEF TurnsOver
  <2>4. CASE g # f
    BY <2>2, <2>3, <2>4 DEF OriginalKept
  <2>5. CASE g = f
    <3>1. ContentOf(f) = original[f]
      BY <2>2, <2>3, <2>5 DEF OriginalKept
    <3>2. \A i \in DOMAIN args.files : args.files[i] = f => i = turn
      BY <2>2, <2>5, OneTurn
    <3>3. Answered(Batch)' => turn \in TurnsOver'
      BY <2>2 DEF TurnsOver
    <3> QED BY <2>2, <2>5, <3>1, <3>2, <3>3
  <2> QED BY <2>4, <2>5
<1>3. CASE BatchReturn
  <2>1. TurnsOver \subseteq TurnsOver'
    BY <1>3, TurnEnds DEF TurnsOver
  <2> QED BY <1>3, <2>1, TurnEnds DEF OriginalKept, ListedOnce, Saved, ContentOf
<1>4. CASE RunBatchAgain
  <2>1. runs'[Batch] # 1
    BY <1>4 DEF RunBatchAgain, Starts, ProgramsTypeOK
  <2> QED BY <2>1 DEF OriginalKept
<1> QED BY <1>1, <1>2, <1>3, <1>4, ToolStandsBy, OthersStandBy
        DEF ProgramsNext, BatchStep, ToolStep

\* What a step does to the status of the batch.
LEMMA BatchStatus ==
    ASSUME ProgramsTypeOK, ProgramsNext
    PROVE  \/ status'[Batch] = status[Batch]
           \/ BatchReturn \/ RunBatchAgain
           \/ BatchExit /\ status'[Batch] = IF ShowsUsage \/ failure_count > 0 THEN "1" ELSE "0"
<1> USE ProgramsAssumption
<1>1. status \in [Process -> {"running", "0", "1", "aborted", "killed"}]
  BY DEF ProgramsTypeOK
<1>2. CASE BatchExit
  BY <1>1, <1>2 DEF BatchExit, Exit
<1>3. CASE ToolUsage \/ ToolReturn \/ RunToolAgain
  BY <1>1, <1>3 DEF ToolUsage, ToolReturn, RunToolAgain, Starts, Died, Exit
<1>4. CASE BatchCall \/ ToolCall \/ LibraryStep(Batch) \/ LibraryStep(Tool)
  BY <1>4 DEF BatchCall, ToolCall, LibraryStep, programVars
<1> QED BY <1>2, <1>3, <1>4 DEF ProgramsNext, BatchStep, ToolStep

\* The counts keep pace with the turns (see Counted).
LEMMA CountedKeeps ==
    ASSUME IInv, ProgramsTypeOK, CallsFit, Counted, [ProgramsNext]_allVars
    PROVE  Counted'
<1> USE ProgramsAssumption
<1>1. /\ success_count \in Nat /\ failure_count \in Nat /\ turn \in Nat \ {0}
      /\ Len(args.files) \in Nat
  BY TurnOfCall DEF ProgramsTypeOK
<1>2. CASE Bystanding
  <2>1. CASE status'[Batch] = status[Batch]
    BY <1>2, <2>1 DEF Bystanding, Counted
  <2>2. CASE BatchExit /\ status'[Batch] = IF ShowsUsage \/ failure_count > 0 THEN "1" ELSE "0"
    <3>1. turn > Len(args.files)
      BY <2>2 DEF BatchExit
    <3>2. status'[Batch] = "0" => failure_count = 0
      BY <1>1, <2>2
    <3> QED BY <1>2, <3>1, <3>2 DEF Bystanding, Counted
  <2>3. CASE BatchReturn \/ RunBatchAgain
    <3>1. ~calling[Batch] \/ ~calling'[Batch]
      BY <2>3, TurnEnds DEF RunBatchAgain, Starts, CallsFit
    <3>2. CASE BatchReturn
      BY <1>2, <3>1, <3>2 DEF Bystanding, BatchReturn, Returned
    <3>3. CASE RunBatchAgain
      BY <3>3, <3>1, <1>2 DEF RunBatchAgain, Bystanding, Counted, Starts, Exit, ProgramsTypeOK
    <3> QED BY <2>3, <3>2, <3>3
  <2>4. CASE UNCHANGED allVars
    BY <1>2, <2>1, <2>4 DEF allVars, programVars
  <2> QED BY <2>1, <2>2, <2>3, <2>4, BatchStatus
<1>3. CASE LibraryStep(Batch)
  <2>1. File(Batch) \in Target /\ ~Answered(Batch)
    BY <1>3, AdvanceOfCall DEF IInv, TypeOK, Call, File, LibraryStep, Answered
  <2>2. /\ UNCHANGED <<args, turn, success_count, failure_count, status>>
        /\ \/ ~Answered(Batch)' /\ changes' = changes
           \/ Answered(Batch)' /\ changes' = changes + 1
    BY <1>3, <2>1, BatchTurn
  <2> QED BY <1>1, <2>1, <2>2 DEF Counted
<1>4. CASE BatchReturn
  <2>1. calling[Batch] /\ status[Batch] = "running"
    BY <1>4 DEF BatchReturn, Returned, CallsFit, Running
  <2> QED BY <1>1, <1>4, <2>1, TurnEnds DEF Counted
<1>5. CASE RunBatchAgain
  <2>1. ~calling'[Batch] /\ status'[Batch] = "running"
    BY <1>5 DEF RunBatchAgain, Starts, Exit, CallsFit, ProgramsTypeOK
  <2>2. turn' = 1 /\ success_count' = 0 /\ failure_count' = 0 /\ changes' = 0
    BY <1>5 DEF RunBatchAgain
  <2> QED BY <2>1, <2>2 DEF Counted, Answered
<1> QED BY <1>2, <1>3, <1>4, <1>5, ToolStandsBy, OthersStandBy
        DEF ProgramsNext, BatchStep, ToolStep

\* While nothing has failed, what the turns did stands (see TurnsStand).
LEMMA TurnsStandKeeps ==
    ASSUME IInv, ProgramsTypeOK, CallsFit, Counted, TurnsStand, [ProgramsNext]_allVars
    PROVE  TurnsStand'
<1> USE ProgramsAssumption
<1> USE TurnOfCall
<1>1. failure_count \in Nat
  BY DEF ProgramsTypeOK
<1>2. CASE Bystanding /\ (status'[Batch] \in {"running", "0"} => status[Batch] \in {"running", "0"})
  <2>1. \A g \in Target : IsPatched(g)' = IsPatched(g)
    BY <1>2 DEF Bystanding, IsPatched
  <2>2. /\ UNCHANGED <<args, turn, failure_count>>
        /\ TurnsOver' = TurnsOver /\ Answered(Batch)' = Answered(Batch)
        /\ calling[Batch] => calling'[Batch]
    BY <1>2 DEF Bystanding, TurnsOver
  <2>3. TurnsOver \subseteq DOMAIN args.files
    BY DEF TurnsOver, Answered, ProgramsTypeOK
  <2>4. \A i \in TurnsOver : args.files[i] \in Target
    BY <2>3
  <2> QED BY <1>2, <2>1, <2>2, <2>4 DEF TurnsStand
<1>3. CASE LibraryStep(Batch)
  <2>1. File(Batch) \in Target /\ ~Answered(Batch)
    BY <1>3, AdvanceOfCall DEF IInv, TypeOK, Call, File, LibraryStep, Answered
  <2> PICK f \in Target : f = File(Batch)
    BY <2>1
  <2>2. /\ Live(Batch) /\ calling[Batch] /\ f = args.files[turn] /\ turn \in DOMAIN args.files
        /\ UNCHANGED <<args, turn, failure_count, calling, status>>
        /\ \A g \in Target \ {f} : IsPatched(g)' = IsPatched(g)
        /\ Answered(Batch)' => IsPatched(f)'
    BY <1>3, BatchTurn DEF IsPatched
  <2>3. /\ TurnsOver = 1 .. turn - 1
        /\ \A i \in TurnsOver' : i \in TurnsOver \/ (i = turn /\ Answered(Batch)')
    BY <2>1, <2>2 DEF TurnsOver
  <2>4. \A i \in TurnsOver : args.files[i] \in Target
    BY <2>2, <2>3
  <2> QED BY <2>1, <2>2, <2>3, <2>4 DEF TurnsStand
<1>4. CASE BatchReturn
  <2>1. /\ UNCHANGED args /\ ~calling'[Batch] /\ ~Answered(Batch)'
        /\ \A i : IsPatched(args.files[i])' = IsPatched(args.files[i])
    BY <1>4, TurnEnds DEF IsPatched, Saved, ContentOf
  <2>2. CASE ~(failure_count' = 0 /\ status'[Batch] \in {"running", "0"})
    BY <2>2 DEF TurnsStand
  <2>3. CASE Answered(Batch) /\ turn' = turn + 1 /\ UNCHANGED <<failure_count, status>>
    <3>1. TurnsOver' = TurnsOver
      BY <2>1, <2>3 DEF TurnsOver
    <3> QED BY <2>1, <2>3, <3>1 DEF TurnsStand
  <2> QED BY <1>1, <1>4, <2>2, <2>3, TurnEnds
<1>5. CASE RunBatchAgain
  <2>1. turn' = 1 /\ ~calling'[Batch]
    BY <1>5 DEF RunBatchAgain, Starts, CallsFit
  <2>2. TurnsOver' = {}
    BY <2>1 DEF TurnsOver, Answered
  <2> QED BY <2>2 DEF TurnsStand
<1>6. CASE UNCHANGED allVars
  BY <1>2, <1>6, OthersStandBy DEF allVars, programVars
<1>7. CASE BatchExit
  <2>1. status[Batch] = "running"
    BY <1>7 DEF BatchExit, Running
  <2> QED BY <1>2, <1>7, <2>1, OthersStandBy
<1> QED BY <1>2, <1>3, <1>4, <1>5, <1>6, <1>7, BatchStatus, ToolStandsBy, OthersStandBy
        DEF ProgramsNext, BatchStep, ToolStep

-----------------------------------------------------------------------------
(***************************************************************************)
(* What the tool answers                                                   *)
(***************************************************************************)

\* A call of the batch leaves alone the outputs of the tool and what it reads.
LEMMA BatchSparesTool ==
    ASSUME IInv, ProgramsTypeOK, CallsFit, LibraryStep(Batch)
    PROVE  /\ \A g \in Target : /\ dir'[g]["out"] = dir[g]["out"]
                                /\ dir[g]["out"] # None =>
                                     disk'[dir[g]["out"]] = disk[dir[g]["out"]]
           /\ pc[Tool] = "read" => disk'[rd[Tool]] = disk[rd[Tool]]
<1> USE ProgramsAssumption
<1>1. /\ Advance(Batch) /\ Live(Batch) /\ InPlace(Batch) /\ ProcessInv(Batch)
      /\ File(Batch) \in Target /\ OutName(call[Batch]) = "tmp" /\ "out" \in Name
      /\ dir \in [Target -> [Name -> Inode \union {None}]]
      /\ data[Batch] \in Content /\ rd[Batch] \in Inode \union {None}
      /\ disk \in [Inode -> Content]
  BY AdvanceOfCall DEF LibraryStep, CallsFit, IInv, TypeOK, Call, File, InPlace, OutName, Name
<1>2. CASE UNCHANGED disk /\ \A g \in Target : dir'[g]["out"] = dir[g]["out"]
  BY <1>2
<1>3. ASSUME NEW n \in {"bak", "tmp"}, OnlyTouches(File(Batch), n)
      PROVE  /\ \A g \in Target : /\ dir'[g]["out"] = dir[g]["out"]
                                  /\ dir[g]["out"] # None =>
                                       disk'[dir[g]["out"]] = disk[dir[g]["out"]]
             /\ pc[Tool] = "read" => disk'[rd[Tool]] = disk[rd[Tool]]
  <2>1. \A g \in Target : g # File(Batch) \/ "out" # n
    BY <1>3
  <2> QED BY <1>1, <1>3, <2>1 DEF OnlyTouches
<1>4. ASSUME NEW n \in {"bak", "tmp"}, NEW i \in OpenForWriting(File(Batch), n),
             dir' = [dir EXCEPT ![File(Batch)][n] = i], disk' = [disk EXCEPT ![i] = Torn]
      PROVE  OnlyTouches(File(Batch), n)
  <2>1. n \in Name \ {"file"}
    BY <1>4 DEF Name
  <2>2. File(Batch) \in Target
    BY <1>1
  <2> PICK f \in Target : f = File(Batch)
    BY <2>2
  <2> QED BY <1>4, <2>1, OpenTouches
<1>5. ASSUME NEW c \in Content, disk' = [disk EXCEPT ![wr[Batch]] = c], UNCHANGED dir,
             pc[Batch] \in {"copying", "write", "flush"}
      PROVE  \E n \in {"bak", "tmp"} : OnlyTouches(File(Batch), n)
  <2>1. WriterName(Batch) \in {"bak", "tmp"}
    BY <1>1 DEF WriterName
  <2> QED BY <1>5, <2>1, WriteTouches
<1>6. CASE OpenBackup(Batch)
  BY <1>2, <1>3, <1>4, <1>6 DEF OpenBackup
<1>7. CASE CopyBackup(Batch)
  <2>1. disk[rd[Batch]] \in Content
    BY <1>1, <1>7, WholeContents DEF CopyBackup, ProcessInv, ReaderOwns
  <2> QED BY <1>2, <1>3, <1>5, <1>7, <2>1 DEF CopyBackup
<1>8. CASE CreateOutput(Batch)
  BY <1>1, <1>2, <1>3, <1>4, <1>8 DEF CreateOutput
<1>9. CASE WriteOutput(Batch) \/ FlushOutput(Batch)
  BY <1>1, <1>2, <1>3, <1>5, <1>9, FlushWrites DEF WriteOutput, FlushOutput
<1>10. CASE RenameTemp(Batch) \/ RemoveTemp(Batch)
  BY <1>1, <1>2, <1>10 DEF RenameTemp, RemoveTemp, Renamed, Unlinked, Name
<1>11. CASE UNCHANGED <<dir, disk>>
  BY <1>11
<1> QED BY <1>1, <1>6, <1>7, <1>8, <1>9, <1>10, <1>11
        DEF Advance, LoadPatch, OpenSource, ReadSource, AskExists, AskSize, Crash

\* What the tool knows outlives a step that adds to what its file held, and
\* leaves its call, its output and what it reads as they are.
LEMMA KnowledgeStays ==
    ASSUME ProgramsTypeOK, CallsFit, ToolReadsHeld,
           UNCHANGED line, held \subseteq held',
           Live(Tool) => ContentOf(line.file)' \in held',
           pc'[Tool] = pc[Tool], rd'[Tool] = rd[Tool], data'[Tool] = data[Tool],
           result'[Tool] = result[Tool], calling'[Tool] = calling[Tool],
           status'[Tool] = status[Tool],
           pc[Tool] = "read" => disk'[rd[Tool]] = disk[rd[Tool]],
           \A g \in Target : /\ dir'[g]["out"] = dir[g]["out"]
                             /\ dir[g]["out"] # None =>
                                  disk'[dir[g]["out"]] = disk[dir[g]["out"]]
    PROVE  ToolReadsHeld'
<1>1. line.file \in Target
  BY ProgramsAssumption DEF ProgramsTypeOK
<1>2. AnswerHolds => AnswerHolds'
  <2>1. ASSUME AnswerHolds, line.command = "apply"
        PROVE  \E d \in held' : /\ dir'[line.file].out # None
                                /\ disk'[dir'[line.file].out] \in {Outcome[line.patch][d]} \union Spoilt
    <3>1. PICK d \in held : /\ dir[line.file]["out"] # None
                            /\ disk[dir[line.file]["out"]] \in {Outcome[line.patch][d]} \union Spoilt
      BY <2>1 DEF AnswerHolds
    <3> QED BY <1>1, <3>1
  <2>2. ASSUME AnswerHolds, line.command = "validate", line.patch \in Checksummed
        PROVE  \E d \in held' : <<line.patch, d>> \in Fits
    BY <2>2 DEF AnswerHolds
  <2>3. Spoilt' = Spoilt
    BY DEF Spoilt
  <2> QED BY <2>1, <2>2, <2>3 DEF AnswerHolds
<1>3. Live(Tool)' = Live(Tool) /\ Answered(Tool)' = Answered(Tool)
  BY DEF Live, Answered
<1>4. /\ pc'[Tool] = "read" => disk'[rd'[Tool]] \in held'
      /\ pc'[Tool] \in {"create", "write", "flush"} =>
           \E d \in held' : data'[Tool] = Outcome[line'.patch][d]
  BY DEF ToolReadsHeld
<1> QED BY <1>2, <1>3, <1>4 DEF ToolReadsHeld, ToolAnswersTrue

\* The steps of the batch are such steps.
LEMMA BatchKeepsKnowledge ==
    ASSUME IInv, ProgramsTypeOK, CallsFit, ToolReadsHeld,
           BatchStep \/ RunBatchAgain \/ UNCHANGED allVars
    PROVE  ToolReadsHeld'
<1> USE ProgramsAssumption
<1>1. /\ pc \in [Process -> Step] /\ result \in [Process -> Result]
      /\ data \in [Process -> Content] /\ calling \in [Process -> BOOLEAN]
      /\ status \in [Process -> {"running", "0", "1", "aborted", "killed"}]
  BY DEF IInv, TypeOK, ProgramsTypeOK
<1>2. CASE LibraryStep(Batch)
  <2>1. /\ pc'[Tool] = pc[Tool] /\ rd'[Tool] = rd[Tool] /\ data'[Tool] = data[Tool]
        /\ result'[Tool] = result[Tool] /\ call'[Tool] = call[Tool]
        /\ UNCHANGED programVars
    BY <1>2, OthersUndisturbed DEF LibraryStep, OthersStay
  <2>2. held' = IF Live(Tool) THEN held \union {ContentOf(File(Tool))'} ELSE held
    BY <1>2 DEF LibraryStep
  <2>3. ASSUME Live(Tool) PROVE ContentOf(line.file)' \in held'
    <3>1. File(Tool) = line.file /\ UNCHANGED line /\ call'[Tool] = call[Tool]
      BY <2>1, <2>3 DEF CallsFit, programVars
    <3>2. ContentOf(File(Tool))' = ContentOf(line.file)'
      BY <3>1 DEF ContentOf, File
    <3> QED BY <2>2, <2>3, <3>2
  <2> QED BY <1>2, <2>1, <2>2, <2>3, BatchSparesTool, KnowledgeStays DEF programVars
<1>3. CASE BatchCall
  <2>1. /\ UNCHANGED <<dir, disk, rd, line, held, status>>
        /\ pc'[Tool] = pc[Tool] /\ data'[Tool] = data[Tool] /\ result'[Tool] = result[Tool]
        /\ calling'[Tool] = calling[Tool]
    BY <1>1, <1>3 DEF BatchCall, Calls, Begin, Goto, history
  <2>2. Live(Tool) => ContentOf(line.file)' \in held'
    BY <2>1 DEF ToolReadsHeld, ContentOf
  <2> QED BY <2>1, <2>2, KnowledgeStays
<1>4. CASE BatchReturn \/ BatchExit \/ RunBatchAgain \/ UNCHANGED allVars
  <2>1. UNCHANGED <<vars, line, held>>
    BY <1>4 DEF BatchReturn, BatchExit, RunBatchAgain, history, allVars, programVars
  <2>2. calling'[Tool] = calling[Tool] /\ status'[Tool] = status[Tool]
    BY <1>1, <1>4 DEF BatchReturn, BatchExit, RunBatchAgain, Returned, Starts, Died, Exit,
                      allVars, programVars
  <2>3. Live(Tool) => ContentOf(line.file)' \in held'
    BY <2>1 DEF ToolReadsHeld, ContentOf, vars
  <2> QED BY <2>1, <2>2, <2>3, KnowledgeStays DEF vars
<1> QED BY <1>2, <1>3, <1>4 DEF BatchStep

\* The tool's own call: what it reads is held, what it has read is patched or
\* compared, and what it wrote is what it computed.
LEMMA CallAddsKnowledge ==
    ASSUME IInv, ProgramsTypeOK, CallsFit, ToolReadsHeld, LibraryStep(Tool)
    PROVE  ToolReadsHeld'
<1> USE ProgramsAssumption
<1>1. /\ Advance(Tool) /\ Live(Tool) /\ calling[Tool] /\ ProcessInv(Tool)
      /\ call[Tool].op = line.command /\ File(Tool) = line.file /\ call[Tool].patch = line.patch
      /\ line.command \in {"apply", "info", "validate"}
      /\ UNCHANGED <<programVars, call>>
  BY AdvanceOfCall DEF LibraryStep, CallsFit, IInv, Needs
<1>2. /\ pc \in [Process -> Step] /\ result \in [Process -> Result]
      /\ data \in [Process -> Content] /\ rd \in [Process -> Inode \union {None}]
      /\ disk \in [Inode -> Content] /\ wr[Tool] \in Inode \union {None}
      /\ Tool \in Process
  BY DEF IInv, TypeOK
<1>3. held \subseteq held' /\ ContentOf(line.file)' \in held' /\ line' = line
  <2>1. held' = held \union {ContentOf(File(Tool))'}
    BY <1>1 DEF LibraryStep
  <2>2. ContentOf(File(Tool))' = ContentOf(line.file)' /\ line' = line
    BY <1>1 DEF ContentOf, File, programVars
  <2> QED BY <2>1, <2>2
<1>4. status'[Tool] = "running"
  BY <1>1 DEF CallsFit, Running, programVars
<1>5. SUFFICES /\ pc'[Tool] = "read" => disk'[rd'[Tool]] \in held'
               /\ pc'[Tool] \in {"create", "write", "flush"} =>
                    \E d \in held' : data'[Tool] = Outcome[line.patch][d]
               /\ pc'[Tool] = "idle" /\ result'[Tool] = "Ok" => AnswerHolds'
  BY <1>3, <1>4 DEF ToolReadsHeld, ToolAnswersTrue, Answered, Live
<1>6. CASE LoadPatch(Tool)
  <2>1. pc'[Tool] \in {"idle", "open"}
    BY <1>1, <1>2, <1>6 DEF LoadPatch, ReturnError, GiveUp, Return, OnError, Goto
  <2>2. result'[Tool] = "Ok" /\ pc'[Tool] = "idle" => StopsAtLoad(call[Tool])
    BY <1>1, <1>2, <1>6 DEF LoadPatch, ReturnError, GiveUp, Return, OnError, Goto
  <2>3. StopsAtLoad(call[Tool]) => AnswerHolds'
    BY <1>1, <1>3 DEF StopsAtLoad, AnswerHolds
  <2> QED BY <2>1, <2>2, <2>3
<1>7. CASE OpenSource(Tool)
  <2>1. \/ pc'[Tool] = "idle" /\ result'[Tool] # "Ok"
        \/ pc'[Tool] = "read" /\ rd'[Tool] = dir[line.file].file
    BY <1>1, <1>2, <1>7 DEF OpenSource, ReturnError, OnError, Goto, Close
  <2>2. UNCHANGED disk /\ ContentOf(line.file) \in held
    BY <1>1, <1>7 DEF OpenSource, ToolReadsHeld
  <2> QED BY <1>3, <2>1, <2>2 DEF ContentOf
<1>8. CASE ReadSource(Tool)
  <2>1. disk[rd[Tool]] \in held
    BY <1>8 DEF ReadSource, ToolReadsHeld
  <2>2. \/ pc'[Tool] = "idle" /\ result'[Tool] # "Ok"
        \/ /\ pc'[Tool] = "idle" /\ line.command = "validate"
           /\ result'[Tool] = "Ok" => <<line.patch, disk[rd[Tool]]>> \in Fits
        \/ pc'[Tool] = "create" /\ data'[Tool] = Outcome[line.patch][disk[rd[Tool]]]
    BY <1>1, <1>2, <1>8 DEF ReadSource, ReturnError, GiveUp, Return, OnError, Goto
  <2> QED BY <1>3, <2>1, <2>2 DEF AnswerHolds
<1>9. CASE CreateOutput(Tool) \/ WriteOutput(Tool)
  <2>1. /\ UNCHANGED data
        /\ pc'[Tool] \in {"write", "flush"} \/ (pc'[Tool] = "idle" /\ result'[Tool] # "Ok")
    BY <1>1, <1>2, <1>9 DEF CreateOutput, WriteOutput, ReturnError, OnError, Goto
  <2>2. \E d \in held : data[Tool] = Outcome[line.patch][d]
    BY <1>9 DEF CreateOutput, WriteOutput, ToolReadsHeld
  <2> QED BY <1>3, <2>1, <2>2
<1>10. CASE FlushOutput(Tool)
  <2>1. /\ line.command = "apply"
        /\ wr[Tool] = dir[line.file]["out"] /\ wr[Tool] # None
    BY <1>1, <1>10 DEF FlushOutput, ProcessInv, StepFitsCall, WriterOwns, WriterName, OutName, InPlace
  <2>2. UNCHANGED dir /\ disk'[wr[Tool]] \in {data[Tool]} \union Spoilt /\ pc'[Tool] = "idle"
    BY <1>1, <1>2, <1>10, <2>1, FlushWrites DEF FlushOutput, Return, Goto, InPlace
  <2>3. \E d \in held : data[Tool] = Outcome[line.patch][d]
    BY <1>10 DEF FlushOutput, ToolReadsHeld
  <2>4. Spoilt' = Spoilt
    BY DEF Spoilt
  <2> QED BY <1>3, <2>1, <2>2, <2>3, <2>4 DEF AnswerHolds
<1>11. CASE Crash(Tool)
  BY <1>2, <1>11 DEF Crash, Return, Goto
<1>12. ~RemoveTemp(Tool) /\ ~AskExists(Tool) /\ ~AskSize(Tool)
  BY <1>1 DEF RemoveTemp, AskExists, AskSize, ProcessInv, StepFitsCall, InPlace
<1> QED BY <1>1, <1>6, <1>7, <1>8, <1>9, <1>10, <1>11, <1>12, ToolOnlyReads DEF Advance

\* What the tool knows, through every step.
LEMMA ToolReadsHeldKeeps ==
    ASSUME IInv, ProgramsTypeOK, CallsFit, ToolReadsHeld, [ProgramsNext]_allVars
    PROVE  ToolReadsHeld'
<1> USE ProgramsAssumption
<1>1. /\ pc \in [Process -> Step] /\ calling \in [Process -> BOOLEAN]
      /\ status \in [Process -> {"running", "0", "1", "aborted", "killed"}]
      /\ Tool \in Process
  BY DEF IInv, TypeOK, ProgramsTypeOK
<1>2. ASSUME UNCHANGED <<dir, disk, line, held>> PROVE AnswerHolds' = AnswerHolds
  BY <1>2 DEF AnswerHolds, Spoilt
<1>3. CASE ToolUsage
  <2>1. /\ UNCHANGED <<vars, line, held, calling>> /\ ~calling[Tool]
        /\ status'[Tool] = "0" => line.command \in {"--help", "--version"}
    BY <1>1, <1>3 DEF ToolUsage, Exit, history
  <2>2. ~Live(Tool)
    BY <2>1 DEF CallsFit
  <2> QED BY <2>1, <2>2 DEF ToolReadsHeld, ToolAnswersTrue, AnswerHolds, Answered, Live, vars
<1>4. CASE ToolCall
  <2> DEFINE c == [op |-> line.command, file |-> line.file, patch |-> line.patch,
                   backup |-> line.backup]
  <2>1. pc' = [pc EXCEPT ![Tool] = Entry(c)] /\ c.op \in {"apply", "info", "validate"}
    BY <1>4 DEF ToolCall, Calls, Begin, Goto, Needs
  <2>2. pc'[Tool] = "load"
    BY <1>1, <2>1 DEF Entry
  <2>3. /\ UNCHANGED <<dir, disk, line, status>> /\ held' = {ContentOf(line.file)}
        /\ status[Tool] = "running"
    BY <1>4 DEF ToolCall, Calls, Begin, Running
  <2> QED BY <2>2, <2>3 DEF ToolReadsHeld, ToolAnswersTrue, Answered, Live, ContentOf
<1>5. CASE ToolReturn
  <2>1. /\ UNCHANGED <<vars, line, held>> /\ calling[Tool] /\ ~Live(Tool) /\ ~calling'[Tool]
        /\ status'[Tool] = "0" => result[Tool] = "Ok"
    BY <1>1, <1>5 DEF ToolReturn, Returned, Died, Exit, ExitCode, history
  <2> QED BY <1>2, <2>1 DEF ToolReadsHeld, ToolAnswersTrue, Answered, Live, vars
<1>6. CASE RunToolAgain
  <2>1. UNCHANGED <<vars, calling, held>> /\ ~calling[Tool] /\ status'[Tool] = "running"
    BY <1>1, <1>6 DEF RunToolAgain, Starts, Exit, CallsFit, history
  <2>2. ~Live(Tool)
    BY <2>1 DEF CallsFit
  <2> QED BY <2>1, <2>2 DEF ToolReadsHeld, ToolAnswersTrue, Answered, Live, vars
<1> QED BY <1>3, <1>4, <1>5, <1>6, BatchKeepsKnowledge, CallAddsKnowledge
        DEF ProgramsNext, ToolStep

\* The invariant of the programs and that of the library hold together.
LEMMA ProgramsInvariant == ProgramsSpec => [](IInv /\ ProgramsInv)
<1>1. ProgramsInit => IInv /\ ProgramsInv
  BY InitHolds, ProgramsInitHolds DEF ProgramsInit
<1>2. IInv /\ ProgramsInv /\ [ProgramsNext]_allVars => (IInv /\ ProgramsInv)'
  BY ProgramsStepIsApplyStep, NextKeeps, ProgramsTypeKeeps, CallsFitKeeps, BackupOneBackKeeps,
     PatchedAtMostOnceKeeps, OriginalKeptKeeps, CountedKeeps, TurnsStandKeeps, ToolReadsHeldKeeps
     DEF ProgramsInv
<1> QED BY <1>1, <1>2, PTL DEF ProgramsSpec

-----------------------------------------------------------------------------
\* What is proved of Apply holds of its programs: all they do to files is calls
\* of the library, one at a time each (batch_patch.cc:25, iubpatch_cli.cc:60, 82, 125).
THEOREM ProgramsUseTheLibrary == ProgramsSpec => Spec
<1>1. ProgramsInit => Init
  BY DEF ProgramsInit
<1>2. ProgramsInv /\ [ProgramsNext]_allVars => [Next]_vars
  BY ProgramsStepIsApplyStep DEF ProgramsInv
<1> QED BY <1>1, <1>2, ProgramsInvariant, PTL DEF ProgramsSpec, Spec

\* The inductive invariant of the programs, for any files, patches and runs.
THEOREM ProgramsInvariance == ProgramsSpec => []ProgramsInv
BY ProgramsInvariant, PTL

\* No run of the batch, however often it is started and wherever it dies, leaves
\* a backup older than the last change of its file (apply.cc:18).
THEOREM BackupsAreOneBack == ProgramsSpec => []BackupOneBack
<1>1. ProgramsInv => BackupOneBack
  BY DEF ProgramsInv
<1> QED BY <1>1, ProgramsInvariant, PTL

\* Running the batch again after a crash, or over a file listed twice, patches
\* nothing twice (batch_patch.cc:21-35).
THEOREM NothingIsPatchedTwice == ProgramsSpec => []PatchedAtMostOnce
<1>1. ProgramsInv => PatchedAtMostOnce
  BY DEF ProgramsInv
<1> QED BY <1>1, ProgramsInvariant, PTL

\* The state of the programs keeps its types: no counter, index or exit code
\* leaves its range, over any number of runs (batch_patch.cc:16-40).
THEOREM ProgramsTyped == ProgramsSpec => []ProgramsTypeOK
<1>1. ProgramsInv => ProgramsTypeOK
  BY DEF ProgramsInv
<1> QED BY <1>1, ProgramsInvariant, PTL

\* Wherever the first run of the batch stops, the original of a file listed once
\* is in the file or in its backup (batch_patch.cc:16-25 over apply.cc:62-77).
THEOREM FirstRunLosesNothing == ProgramsSpec => []NothingLost
<1>1. ProgramsInv => NothingLost
  BY DEF ProgramsInv, OriginalKept, NothingLost
<1> QED BY <1>1, ProgramsInvariant, PTL

\* What the batch prints, and its exit code, are what happened to the files, for
\* any list of files and with the tool at work on them (batch_patch.cc:27-40).
THEOREM BatchReportsTruly == ProgramsSpec => []ReportTrue
<1>1. ASSUME ProgramsInv, status[Batch] \in {"0", "1"}
      PROVE  /\ success_count = changes
             /\ success_count + failure_count = Len(args.files)
             /\ status[Batch] = "0" => \A f \in Files : IsPatched(f)
  <2> USE <1>1, ProgramsAssumption DEF ProgramsInv
  <2>1. /\ ~calling[Batch] /\ turn > Len(args.files)
        /\ status[Batch] = "0" => failure_count = 0
    BY DEF CallsFit, Running, Counted
  <2>2. Len(args.files) \in Nat /\ turn = Len(args.files) + 1
    BY <2>1, TurnOfCall DEF ProgramsTypeOK
  <2>3. ~Answered(Batch)
    BY <2>1 DEF Answered
  <2>4. success_count = changes /\ success_count + failure_count = Len(args.files)
    BY <2>2, <2>3 DEF Counted, ProgramsTypeOK
  <2>5. ASSUME status[Batch] = "0", NEW f \in Files
        PROVE  IsPatched(f)
    <3>1. PICK i \in DOMAIN args.files : f = args.files[i]
      BY DEF Files
    <3>2. DOMAIN args.files = 1 .. Len(args.files)
      BY DEF ProgramsTypeOK
    <3>3. i \in TurnsOver
      BY <2>2, <2>3, <3>2 DEF TurnsOver
    <3> QED BY <2>1, <2>5, <3>1, <3>3 DEF TurnsStand
  <2> QED BY <2>4, <2>5
<1>2. ProgramsInv => ReportTrue
  BY <1>1 DEF ReportTrue
<1> QED BY <1>2, ProgramsInvariant, PTL

\* Exit code 0 of the tool is about one content that its file really had during
\* the call, whatever the batch replaced meanwhile (iubpatch_cli.cc:60-72, 125-133).
THEOREM ToolAnswersTruly == ProgramsSpec => []ToolAnswersTrue
<1>1. ProgramsInv => ToolAnswersTrue
  BY DEF ProgramsInv, ToolReadsHeld
<1> QED BY <1>1, ProgramsInvariant, PTL
=============================================================================
