------------------------------ MODULE Programs ------------------------------
(***************************************************************************)
(* The programs of the repository over the library: the batch example,     *)
(* which patches a list of files in place, and the command-line tool,      *)
(* which works on the same files meanwhile.  Both may be run again, also   *)
(* after they died half-way.  Every call they make is one of Apply's; the  *)
(* other two examples make one call, as the tool does.                     *)
(***************************************************************************)
EXTENDS Apply, Sequences

CONSTANTS
    Batch, Tool,   \* the two processes
    BatchLines,    \* argument lists of the batch: [patch, files]
    ToolLines,     \* argument lists of the tool: [command, count, file, patch, backup]
    MaxRuns        \* bound: how often each of them is run

\* The arguments a command of the tool asks for.
Needs == [apply |-> 3, info |-> 1, validate |-> 2]

Command == {"none", "--help", "--version", "unknown"} \union DOMAIN Needs

ASSUME ProgramsAssumption ==
    /\ Process = {Batch, Tool} /\ Batch # Tool
    /\ Target # {} /\ Patch # {}
    /\ BatchLines \subseteq [patch : Patch, files : Seq(Target)]
    /\ ToolLines \subseteq
         [command : Command, count : Nat, file : Target, patch : Patch, backup : BOOLEAN]
    /\ MaxRuns \in [Process -> Nat \ {0}]

VARIABLES
    args,           \* what the batch was started with
    line,           \* what the tool was started with
    turn,           \* i in the loop of the batch, from 1
    success_count,
    failure_count,
    calling,        \* [process]: it is inside a call of the library
    status,         \* [process]: "running", or how it ended
    runs,           \* [process]: how often it was started
    \* History, read by the properties only:
    original,       \* the contents before the first run
    was,            \* what each target held before it last changed
    changes,        \* how often this run of the batch replaced a target
    held            \* what the tool's file held during its call

programVars == <<args, line, turn, success_count, failure_count, calling, status, runs>>
history     == <<original, was, changes, held>>
allVars     == <<vars, programVars, history>>

-----------------------------------------------------------------------------
(***************************************************************************)
(* Mistakes the code could contain; not part of the model.                 *)
(***************************************************************************)

\* The option is left at its default.
BackupAskedNever(f) == FALSE
\* A backup is asked for when there is none yet.
BackupAskedOnce(f) == dir[f].bak = None
\* A failed call is counted as well.
SucceededAlways(r) == TRUE
\* The tool does not look at the answer of the library.
ExitCodeUnchecked(r) == "0"
\* The body of the loop moves the index as well.
BehindTwo(i) == i + 2

-----------------------------------------------------------------------------
Running(p) == status[p] = "running"

Exit(p, code) == status' = [status EXCEPT ![p] = code]

\* An exception nobody catches ends the program, and so does what kills it.
Died(p) ==
    \/ result[p] = "threw" /\ Exit(p, "aborted")
    \/ result[p] = "crashed" /\ Exit(p, "killed")

Returned(p) ==
    /\ calling[p] /\ ~Live(p)
    /\ calling' = [calling EXCEPT ![p] = FALSE]

Calls(p, c) ==
    /\ Begin(p, c)
    /\ calling' = [calling EXCEPT ![p] = TRUE]

BackupAsked(f) == TRUE

\* One turn of the loop, up to the call.
BatchCall ==
    /\ Running(Batch) /\ ~calling[Batch]
    /\ turn <= Len(args.files)
    /\ Calls(Batch, [op |-> "inplace", file |-> args.files[turn], patch |-> args.patch,
                     backup |-> BackupAsked(args.files[turn])])
    /\ UNCHANGED <<args, line, turn, success_count, failure_count, status, runs, history>>

Succeeded(r) == r = "Ok"

Behind(i) == i + 1

\* The rest of the turn.
BatchReturn ==
    /\ Returned(Batch)
    /\ \/ /\ Died(Batch)
          /\ UNCHANGED <<turn, success_count, failure_count>>
       \/ /\ result[Batch] \in Error \union {"Ok"}
          /\ turn' = Behind(turn)
          /\ IF Succeeded(result[Batch])
               THEN success_count' = success_count + 1 /\ UNCHANGED failure_count
               ELSE failure_count' = failure_count + 1 /\ UNCHANGED success_count
          /\ UNCHANGED status
    /\ UNCHANGED <<vars, args, line, runs, history>>

\* argc < 3: the program shows its usage and fails.
ShowsUsage == args.files = <<>>

\* Behind the loop.
BatchExit ==
    /\ Running(Batch) /\ ~calling[Batch]
    /\ turn > Len(args.files)
    /\ Exit(Batch, IF ShowsUsage \/ failure_count > 0 THEN "1" ELSE "0")
    /\ UNCHANGED <<vars, args, line, turn, success_count, failure_count, calling, runs, history>>

\* The tool ends without a call: help, version, no or unknown command, or too
\* few arguments.
ToolUsage ==
    /\ Running(Tool) /\ ~calling[Tool]
    /\ \/ line.command \in {"--help", "--version"} /\ Exit(Tool, "0")
       \/ line.command \in {"none", "unknown"} /\ Exit(Tool, "1")
       \/ line.command \in DOMAIN Needs /\ line.count < Needs[line.command] /\ Exit(Tool, "1")
    /\ UNCHANGED <<vars, args, line, turn, success_count, failure_count, calling, runs, history>>

ToolCall ==
    /\ Running(Tool) /\ ~calling[Tool]
    /\ line.command \in DOMAIN Needs /\ line.count >= Needs[line.command]
    /\ Calls(Tool, [op |-> line.command, file |-> line.file, patch |-> line.patch,
                    backup |-> line.backup])
    /\ held' = {ContentOf(line.file)}
    /\ UNCHANGED <<args, line, turn, success_count, failure_count, status, runs,
                   original, was, changes>>

ExitCode(r) == IF r = "Ok" THEN "0" ELSE "1"

ToolReturn ==
    /\ Returned(Tool)
    /\ Died(Tool) \/ (result[Tool] \in Error \union {"Ok"} /\ Exit(Tool, ExitCode(result[Tool])))
    /\ UNCHANGED <<vars, args, line, turn, success_count, failure_count, runs, history>>

\* A step of the library, and what the history keeps of it.
LibraryStep(p) ==
    /\ Advance(p)
    /\ was' = [f \in Target |->
                 IF dir'[f].file # dir[f].file THEN ContentOf(f) ELSE was[f]]
    /\ changes' = IF p = Batch /\ dir'[File(p)].file # dir[File(p)].file
                    THEN changes + 1 ELSE changes
    /\ held' = IF Live(Tool) THEN held \union {ContentOf(File(Tool))'} ELSE held
    /\ UNCHANGED <<programVars, original>>

Starts(p) ==
    /\ ~Running(p) /\ runs[p] < MaxRuns[p]
    /\ runs' = [runs EXCEPT ![p] = runs[p] + 1]
    /\ Exit(p, "running")

\* The user runs the batch again, with the same arguments.
RunBatchAgain ==
    /\ Starts(Batch)
    /\ turn' = 1 /\ success_count' = 0 /\ failure_count' = 0 /\ changes' = 0
    /\ UNCHANGED <<vars, args, line, calling, original, was, held>>

RunToolAgain ==
    /\ Starts(Tool)
    /\ line' \in ToolLines
    /\ UNCHANGED <<vars, args, turn, success_count, failure_count, calling, history>>

-----------------------------------------------------------------------------
ProgramsInit ==
    /\ call = [p \in Process |-> CHOOSE c \in Call : TRUE]
    /\ Init
    /\ args \in BatchLines
    /\ line \in ToolLines
    /\ turn = 1 /\ success_count = 0 /\ failure_count = 0
    /\ calling = [p \in Process |-> FALSE]
    /\ status = [p \in Process |-> "running"]
    /\ runs = [p \in Process |-> 1]
    /\ original = [f \in Target |-> ContentOf(f)]
    /\ was = original
    /\ changes = 0
    /\ held = {}

BatchStep == BatchCall \/ BatchReturn \/ BatchExit \/ LibraryStep(Batch)
ToolStep  == ToolUsage \/ ToolCall \/ ToolReturn \/ LibraryStep(Tool)

ProgramsNext == BatchStep \/ ToolStep \/ RunBatchAgain \/ RunToolAgain

ProgramsSpec == ProgramsInit /\ [][ProgramsNext]_allVars

\* A program that can take a step takes one: it waits for nobody, and the system
\* calls it makes return.  That a user runs it again is not promised.
FairSpec == ProgramsSpec /\ WF_allVars(BatchStep) /\ WF_allVars(ToolStep)

-----------------------------------------------------------------------------
(***************************************************************************)
(* Properties                                                              *)
(***************************************************************************)

Files == {args.files[i] : i \in DOMAIN args.files}

ListedOnce(f) == Cardinality({i \in DOMAIN args.files : args.files[i] = f}) <= 1

\* What the backup of a file holds.
Saved(f) == IF dir[f].bak = None THEN {} ELSE {disk[dir[f].bak]}

\* The file is the patch of what it was, or what a lost flush left of it, and
\* what it was is in its backup.
IsPatched(f) ==
    /\ Saved(f) = {was[f]}
    /\ ContentOf(f) \in {Outcome[args.patch][was[f]]} \union Spoilt

\* The contents a patch accepts are not those it makes, nor what a lost flush
\* leaves of them.
RefusesItsOutput(pt) ==
    /\ \A d \in Data : Outcome[pt][d] # Rejected => Outcome[pt][Outcome[pt][d]] = Rejected
    /\ \A d \in Spoilt : Outcome[pt][d] = Rejected

\* The program variables have their types.
ProgramsTypeOK ==
    /\ args \in BatchLines /\ line \in ToolLines
    /\ turn \in 1 .. Len(args.files) + 1
    /\ success_count \in Nat /\ failure_count \in Nat
    /\ calling \in [Process -> BOOLEAN]
    /\ status \in [Process -> {"running", "0", "1", "aborted", "killed"}]
    /\ original \in [Target -> Data]
    /\ runs \in [Process -> Nat \ {0}] /\ \A p \in Process : runs[p] <= MaxRuns[p]

\* During the first run, and however it ended, the original of a file listed
\* once is in the file or in its backup (batch_patch.cc:16-25 over apply.cc:62-77).
NothingLost ==
    runs[Batch] = 1 =>
        \A f \in Target : ListedOnce(f) => original[f] \in {ContentOf(f)} \union Saved(f)

\* Through any number of runs a backup is the file as it is, or as it was before
\* its last change, or a copy that was cut short: never something older
\* (apply.cc:18: the backup is overwritten by each call, whether or not that
\* call then changes the file).
BackupOneBack ==
    \A f \in Target : Saved(f) \subseteq {Torn, ContentOf(f), was[f]}

\* A batch that died and is run again, or lists a file twice, does not patch what
\* is patched already, when the patch refuses its own output, as one with
\* checksums does (batch_patch.cc:21-35).
PatchedAtMostOnce ==
    RefusesItsOutput(args.patch) =>
        \A f \in Target :
            ContentOf(f) \in {original[f], Outcome[args.patch][original[f]]} \union Spoilt

\* The results the batch prints and its exit code are what happened to the
\* files: each success is one file replaced, and with exit code 0 every file
\* listed is the patch of what its backup holds, but for a lost flush
\* (batch_patch.cc:27-40, io.cc:163).
ReportTrue ==
    status[Batch] \in {"0", "1"} /\ ~ShowsUsage =>
        /\ success_count = changes
        /\ success_count + failure_count = Len(args.files)
        /\ status[Batch] = "0" => \A f \in Files : IsPatched(f)

\* What success of the tool's command says of the contents its file had.
AnswerHolds ==
    /\ line.command = "apply" =>
         \E d \in held : /\ dir[line.file].out # None
                        /\ disk[dir[line.file].out] \in {Outcome[line.patch][d]} \union Spoilt
    /\ line.command = "validate" /\ line.patch \in Checksummed =>
         \E d \in held : <<line.patch, d>> \in Fits

\* Exit code 0 of the tool is about a content its file really had during the
\* call, while the batch replaced it: the output is the patch of one, but for a
\* lost flush, the checksums were compared with one (iubpatch_cli.cc:60-72,
\* 125-133).
ToolAnswersTrue == status[Tool] = "0" => AnswerHolds

\* What the calls of the two programs are, while they run.
CallsFit ==
    /\ \A p \in Process : (Live(p) => calling[p]) /\ (calling[p] => Running(p))
    /\ calling[Batch] => turn <= Len(args.files)
    /\ Live(Batch) => /\ InPlace(Batch) /\ call[Batch].backup
                      /\ File(Batch) = args.files[turn] /\ call[Batch].patch = args.patch
    /\ Live(Tool) => /\ call[Tool].op \in DOMAIN Needs /\ call[Tool].op = line.command
                     /\ File(Tool) = line.file /\ call[Tool].patch = line.patch

\* Its call has succeeded, and it has not looked at the answer yet.
Answered(p) == calling[p] /\ ~Live(p) /\ result[p] = "Ok"

\* The turns of the batch whose calls are over; the last of them is counted
\* once the batch has looked at its answer.
TurnsOver == 1 .. (IF Answered(Batch) THEN turn ELSE turn - 1)

\* During the first run a file listed once is what it was until its turn is
\* over, and then its backup is.
OriginalKept ==
    runs[Batch] = 1 =>
        \A f \in Target : ListedOnce(f) =>
            \/ ContentOf(f) = original[f]
            \/ /\ Saved(f) = {original[f]}
               /\ \A i \in DOMAIN args.files : args.files[i] = f => i \in TurnsOver

\* The counts cover the turns before this one, the changes also this one's.
Counted ==
    /\ success_count + failure_count = turn - 1
    /\ changes = success_count + (IF Answered(Batch) THEN 1 ELSE 0)
    /\ status[Batch] \in {"0", "1"} => turn > Len(args.files)
    /\ status[Batch] = "0" => failure_count = 0

\* While nothing has failed, what the turns behind us did stands, but for a file
\* that is listed again and whose call is running.
TurnsStand ==
    failure_count = 0 /\ status[Batch] \in {"running", "0"} =>
        \A i \in TurnsOver :
            \/ IsPatched(args.files[i])
            \/ /\ calling[Batch] /\ ~Answered(Batch)
               /\ args.files[i] = args.files[turn]

\* What the tool reads, has read and answers was in its file during the call.
ToolReadsHeld ==
    /\ Live(Tool) => ContentOf(line.file) \in held
    /\ pc[Tool] = "read" => disk[rd[Tool]] \in held
    /\ pc[Tool] \in {"create", "write", "flush"} =>
         \E d \in held : data[Tool] = Outcome[line.patch][d]
    /\ Answered(Tool) => AnswerHolds
    /\ ToolAnswersTrue

\* The inductive invariant, next to Apply's own: who does what to the files,
\* what a run of the batch has done so far, and what the tool knows.
ProgramsInv ==
    /\ ProgramsTypeOK /\ CallsFit /\ BackupOneBack /\ PatchedAtMostOnce
    /\ OriginalKept /\ Counted /\ TurnsStand /\ ToolReadsHeld

\* Every run of either program ends, whatever fails on the way.
EveryRunEnds == \A p \in Process : Running(p) ~> ~Running(p)
=============================================================================
