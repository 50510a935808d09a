# IUBPatchLib in TLA+

Specifications of [IUBPatchLib](../src/README.md), a C++ library that applies
IPS, UPS and BPS patches to files, with the TLC configurations that check them
and TLAPS proofs about the file operations, the programs built on them, file
readers, detection and validation, the three formats and their numbers. Source lines below are relative to the repository's root (`src/apply.cc:69` is the library's `src` directory).

## The system

| Component | State | Operations | Talks to |
|---|---|---|---|
| File operations, `src/apply.cc` | none of its own; the files on disk | `apply_patch`, `apply_patch_inplace`, `create_backup`, `validate_patch`, `verify_output`, `get_patch_info` | loads a patch, calls it, renames and removes files |
| File I/O, `src/io.cc` | the bytes read, a stream being written | `read_file`, `write_file`, `BufferedFileReader`, `BufferedFileWriter`, `open_file_reader` | operating system |
| Memory-mapped reading, `src/platform/` | a mapping | `MappedFileReader` | only behind `open_file_reader(path, true)`, which the library itself never asks for |
| Detection and dispatch, `src/patch_base.cc` | none | `detect_format`, `load_patch` | the three formats |
| IPS, `src/formats/ips.cc` | parsed records | `load`, `get_metadata`, `apply`, `apply_to_file`, `validate` | File I/O |
| UPS, `src/formats/ups.cc` | sizes, XOR blocks, three CRCs | the same and `verify_checksums` | File I/O, CRC-32 |
| BPS, `src/formats/bps.cc` | sizes, commands, three CRCs | the same and `verify_checksums` | File I/O, CRC-32 |
| Variable-length numbers, in `ups.cc` and `bps.cc` | none | `decode_variable_len`, `decode_bps_num` | |
| Command-line tool, `tools/iubpatch_cli.cc` | its arguments | `apply`, `info`, `validate` | File operations |
| Batch example, `examples/batch_patch.cc` | the index in its list, two counts | in-place calls with a backup, one per file | File operations |
| Other examples | none | one call each, as in the tool | File operations |
| CRC-32, errors, options | none | a pure function; plain data | used everywhere |

The library has no threads, locks or callbacks. What is hard about it:

* **Files are shared.** Any number of programs may use the library on the same
  files. `apply_patch_inplace` is a sequence - copy a backup, load, read,
  create the temporary, write, flush, rename - in which every step can fail,
  the process can die between any two, and other processes read meanwhile.
  It is right when the target is complete at every instant, changes in one
  step or not at all, is backed up first, and leaves no temporary behind.
* **Programs die and are run again.** A batch that ended half-way is started
  over the same list: files patched already must not be patched twice, the
  backups of the first run are overwritten by the second, and the counts and
  exit codes have to be what happened to the files.
* **The same thing is checked in several places.** Detection and the loaders
  compare headers, `validate_patch` and two `apply` functions compare a source
  with a patch. They are right when they never contradict one another.
* **Patches are arbitrary bytes.** Parsers have to tell records, end markers and
  numbers apart in truncated and odd input, with arithmetic that wraps. They
  are right when what they parse is what the bytes say.
* **Application is order-dependent.** Overlapping IPS records, UPS blocks at
  accumulated offsets, BPS cursors moved by each command, copies that read what
  they write. It is right when a patch made from a source and a target turns
  the one into the other, and when an answer that was verified is the target.

`PROJECT.json` lists the hazards one by one, each at its line.

## Modules

| Module | Models | Kind |
|---|---|---|
| `Apply` | `apply.cc` over `read_file`/`write_file`, by several processes on one file system | state machine, properties |
| `AtomicUpdate` | what an in-place call promises | abstract specification |
| `Programs` | the batch example and the command-line tool, over `Apply` | state machine, fairness, properties |
| `FileReader` | `open_file_reader` and its two readers, on POSIX and Windows, over a file that changes | state machine, properties |
| `PatchFormat` | detection, dispatch, `validate_patch` and `apply_patch`, over the three formats | composition, properties |
| `IPSPatch` | `ips.cc` | state machine, properties |
| `UPSPatch`, `BPSPatch` | `ups.cc`, `bps.cc` | state machines, properties |
| `UPSEncoder`, `BPSEncoder` | what an encoder of the two formats writes, and what that means: the patches the library is for, which it reads and does not make | reference, properties |
| `VarInt` | the numbers of UPS and BPS, what an encoder writes for one, and pieces written one behind the other | operators |
| `ApplyInv`, `PatchFormatInv`, `IPSInv`, `UPSInv`, `BPSInv` | the inductive invariants of the modules they are named after; those of `FileReader` and `Programs` are in the modules themselves | definitions |
| `ApplyProofs`, `ProgramsProofs`, `FileReaderProofs`, `PatchFormatProofs`, `IPSProofs`, `UPSProofs`, `BPSProofs`, `VarIntProofs` | theorems about them | TLAPS |
| `MC...` | constants for TLC | |

`Programs` extends `Apply`: each step of a program inside the library is one of
`Apply`'s, on the same variables. `PatchFormat` instantiates the three format
modules over variables they share: each step of a format is one of its own
module's, so that what is claimed of the composition is claimed of exactly the
code the format modules model.

Every module of the model has a section of *mistakes*: variants of its
operators as a plausible bug would have them, which are not part of the model.
`PROJECT.json` names the property that each of them breaks.

### Apply

The directory maps the four names that belong to a target (`file`, `tmp`, `bak`
and an output of `apply_patch`) to inodes, the disk maps inodes to contents. A
process that has opened a file keeps its inode, as on POSIX: rename and remove
do not disturb it, truncation does. An incomplete file has the content `Torn`; one whose
last flush failed unnoticed has the content `Lost`, if flushes may fail at all, and
what nobody is writing is then complete or that (`Whole`).
A call is one record (operation, target, patch, whether to back up) and a
program counter; one action is the code up to the next system call another
process can observe:

| Action | Code |
|---|---|
| `Begin` | the call, up to its first system call |
| `OpenBackup`, `CopyBackup` | `create_backup`, `apply.cc:10-26`: `copy_file` truncates the backup, then fills it |
| `LoadPatch` | `load_patch` with its errors and exceptions, `patch_base.cc:83-89`; the end of `get_patch_info`, and of `validate_patch` for a patch without checksums or with a wrong one of its own (`RefusedAtOnce`, `apply.cc:98-101`) |
| `OpenSource`, `ReadSource` | `read_file`, then `Patch::apply` in memory (`apply_to_file`), which may throw, or the comparison of `validate_patch` |
| `CreateOutput`, `WriteOutput`, `FlushOutput` | `write_file`, `io.cc:200-210`: `trunc`, `write`, `flush`, close |
| `RenameTemp` | `apply.cc:76-83` |
| `RemoveTemp` | `apply.cc:71-74`, the clean-up after any error of `apply_patch` |
| `AskExists`, `AskSize` | `verify_output`, `apply.cc:28-39`: `exists`, then the `file_size` that throws |
| `Crash` | the process ends between two steps |

What a patch does to a content is the constant table `Outcome`; the format
modules say what the format code computes. Applied to a complete content a
patch gives a complete content or an error; applied to what a lost flush left,
one of these or something as damaged; applied to a torn one it may give anything.
The patches are divided into those that do not load (`Malformed`), those with
checksums (`Checksummed`) and, of these, those whose own checksum is wrong (`Damaged`).
`Faults` is the set of system calls that may fail.

One assumption is about the environment: two calls do not write the same names
at the same time (`MayBegin`). The library takes no lock and the temporary has a
fixed name, so that two writers of one file do destroy it: their interference is
assumed away here, not shown to be harmless, and the mutant `MayBeginUnguarded`,
which drops the assumption, breaks `IInv`. Readers (`validate_patch`, `apply_patch`
to another file) are not kept out. A crash is that of a process: power loss, for
which the missing `fsync` would matter, is not modelled. Output and source of
`apply_patch` have different names.

### Programs

Two processes over the same files: the batch (`batch_patch.cc:16-40`), a loop of
in-place calls with a backup, and the tool (`iubpatch_cli.cc`), which makes the
one call its arguments ask for.

| Action | Code |
|---|---|
| `BatchCall`, `BatchReturn` | one turn of the loop, up to the call and behind it: the counts |
| `BatchExit` | the exit code, also that of a batch started without files |
| `ToolUsage` | help, version, no or unknown command, too few arguments |
| `ToolCall`, `ToolReturn` | `cmd_apply`, `cmd_info`, `cmd_validate`: the call and the exit code |
| `LibraryStep` | a step of `Apply`, and what the history keeps of it |
| `RunBatchAgain`, `RunToolAgain` | the user starts a program that has ended or died: the batch with the same list, the tool with any arguments |

An exception nobody catches ends a program (`aborted`), a crash too (`killed`).
`original`, `was`, `changes` and `held` are history that no action reads: the
contents before the first run, what a file held before it last changed, how
many targets this run replaced, what the tool's file held during its call. The
number of runs is bounded (`MaxRuns`).

### PatchFormat

One patch and one source go through what a careful caller does: `Detect`,
`LoadPatch`, `Validate` and `AnswerValidate` (`validate_patch`,
`apply.cc:101-130`), `ApplyPatch`, and `ApplyAgain` to the output. The code
loads the patch anew in every call; loading the same bytes gives the same
object, so one load stands for all. A format's own loader tests the header
again: the model keeps both tests, which is what `NeverMisrouted` is about.
`IPSPatch` parses and is then ready to be applied, so its `apply` is what
`loaded` is in the others (`Loaded`). `readable` says whether `read_file` of the
source succeeds, `verify_checksums` is the option both applications get. The
calls of the format modules that no file operation makes (`ApplyAgain` of their
own) are not used.

### FileReader

One reader of one file. `Open` is `open_file_reader` with and without
`prefer_mmap`; `MapOpen` and `Map` are `fstat` and `mmap` of
`mmap_posix.cc:28-53`, and any error there falls through to `BufOpen` and
`BufRead`, the constructor of the buffered reader (`io.cc:78-95`). `ReadAll` and
`ReadRange` answer, `Close` destroys the reader. `Change` is the environment:
another program rewrites, cuts or extends the file in place between any two
steps, also between two of the system's reads into the buffer.

On Windows a file is opened with `FILE_SHARE_READ` alone (`mmap_windows.cc:31-39`),
so that nobody can write it until the reader is closed or its mapping failed:
`Change` is disabled (`Locked`). Everything else is the same on both platforms.

On POSIX a private mapping shows, for each byte, what was there when it was made or what
is there now (POSIX leaves it open), and touching a page the file no longer
reaches ends the process (`killed`). Offsets and lengths are too small for
`offset + length` to wrap.

### IPSPatch, UPSPatch, BPSPatch, VarInt

Patches and sources are byte strings; a byte is a digit of a small base, so that
all strings up to a bound can be tried. `load` checks size and header, then one
action per turn of the parser's loop; `validate` and `apply` follow, one action
per record, block or command, with every early return. An error ends in
`failed`, an exception (`vector::resize`, `string::assign`, memory exhausted)
in `thrown`.

* `IPSPatch`: `Base` in place of 256; offsets are three bytes, sizes two. The
  same patch may be applied again to its own output.
* `VarInt`: `Half` in place of 128, `Word` in place of 2^64; sums and weights
  wrap at `Word`.
* `UPSPatch`: `Xor` and `Crc` are operators given as constants. `Xor` is assumed
  to be what ^ is on bytes: commutative, its own inverse, with 0 as its
  neutral element; `Crc` is any function from byte strings to
  `CrcSize` bytes. Outputs are shorter than a word, `MaxAlloc < Word`, here and
  in `BPSPatch`: no `std::string` holds 2^64 bytes. The patch may be applied once
  more, without checksums, to what it made. The checksums are compared as they
  lie in memory, which is what the code does on a little-endian host.
* `UPSEncoder`: from two texts, every way to divide their difference into regions
  (`Layouts`), and the patch of each, once with distances counted as the format
  does and once as the parser does (`skip`).
* `BPSEncoder`: from a source and a script, the commands an encoder chose, what the
  format says they mean (`Meaning`) and the patch. `Scripts` is any set of
  sequences of commands whose numbers fit in a word.
* `BPSPatch`: the in-loop check of `TargetCopy` (`bps.cc:226`) can never fire,
  since each turn appends one byte behind the one it reads; it has no branch
  in the model. Offsets are plain integers: in the code a distance of 2^63 - 1
  overflows `int64_t`, and whichever way the build wraps, one of the two halves
  of the check at `bps.cc:204` and `219` refuses it, as the model does.

## Runs

| Run | Instance | Shows |
|---|---|---|
| `apply` | 2 processes, 1 target, 4 inodes, 2 contents (one of them empty), 3 patches (UPS-like, IPS-like, malformed); every fault | all of `Apply`'s properties below |
| `apply_backup` | 1 process, no fault | `--backup` leaves no backup: violation |
| `apply_flush` | 1 process, a flush may be lost | success is reported over an unwritten output: violation |
| `programs` | the batch over two files, over one listed twice with a patch that refuses its own output and with one that does not, over one with a malformed patch, or without any, run twice; 7 kinds of tool call; 7 inodes, 3 contents; failing copies and renames, lost flushes, and crashes | `Programs`' safety properties |
| `programs_end` | the batch over a file listed twice, once; the tool run twice, also with a damaged patch; 4 inodes; failing copies, renames, throwing `remove`, crashes | `EveryRunEnds` |
| `file_reader` | both platforms, contents of up to 3 bytes that change at any time, ranges up to 4, every fault | `FileReader`'s properties |
| `formats` | base 8, the three headers and two that differ in their last byte, all bodies up to 2 bytes with right and wrong checksums, IPS records, UPS and BPS patches made for each of five sources, strings too short to have a header; source missing or not, checksums verified or not | `PatchFormat`'s properties |
| `ips` | base 2, all bodies up to 9 bytes, up to three records of eight kinds, whole or cut anywhere, five tails, three sources | `IPSPatch`'s properties |
| `ups` | base 4, word 16, all bodies up to 4 bytes, two blocks with near and wrapping distances, the encoder's patches for 49 pairs of texts | `UPSPatch`'s properties |
| `ups_standard` | the same, short bodies | the second block lands too early: violation |
| `bps` | base 4, word 64, all bodies up to 4 bytes, up to three commands of ten kinds on three sources, bad offsets, endless output, odd metadata | `BPSPatch`'s properties |
| `bps_target_read` | up to two commands | new bytes are taken for commands: violation |

The properties of `Apply`:

* `TargetIntact`, `ReadersSeeComplete` - the target, and whatever a process has
  open of it, is complete or what a lost flush left, at every instant. A lost flush
  is the one thing that puts something incomplete in the target's place: the
  rename follows it. Without that fault `Spoilt` is empty and the same theorems
  say "complete".
* `BackupBeforeChange` - at the very step that replaces a content, the backup
  holds that content.
* `OkMeansWritten` - `Ok` means all the bytes computed are under the name asked
  for; what a lost flush leaves is the only other thing that can be there.
* `NoTempLeft` - a temporary is left behind by a call only if the process died,
  an exception went through (of `load_patch` or `apply`, before the call made a
  temporary of its own, or of `remove` itself), or one of three system calls
  failed: creating or copying the backup, or the final rename. The exceptions are
  tied to these steps: a failed create or write of the temporary, which returns
  `FileWriteError` too, is cleaned up, as is, on every other way out, a stale
  temporary that an earlier crash left.
* `AtomicSpec` - refinement: seen through target contents and answers,
  in-place calls are the two-step calls of `AtomicUpdate` - begin, then commit
  or abort; a commit puts there what the patch makes of the content, or what a lost
  flush makes of that.
* `VerifySeesTarget` - `verify_output` of a target neither throws nor finds it
  missing between its two questions, and judges a content nobody is writing.

Of `Programs`:

* `NothingLost` - during the first run, and however it ended, the original of a
  file is in the file or in its backup.
* `BackupOneBack` - over any number of runs a backup is the file as it is, as it
  was before its last change, or a copy that was cut short; never older. The
  original itself is lost by a second run (`overwrite_existing`).
* `PatchedAtMostOnce` - a batch run again, or one that lists a file twice,
  patches nothing twice if the patch refuses its own output and what a lost flush
  left of it. The instances have such a patch on a file listed twice, and one that
  is not such.
* `ReportTrue` - the counts are what happened to the files, and exit code 0 means
  every file listed is the patch of what its backup holds, but for a lost flush,
  which no count shows.
* `ToolAnswersTrue` - exit code 0 is about a content the file really had during
  the call, while the batch was replacing it, again but for a lost flush.
* `EveryRunEnds` - see *Liveness*.

Of `PatchFormat`:

* `NeverMisrouted` - no loader refuses the header of a patch it was given.
* `ValidateForetellsApply` - what `validate_patch` accepts, `apply` does not refuse
  for its size or checksum, and what was applied with checksums had been valid.
  A patch that says its source is empty is excepted: a `src_size` of 0 skips
  the size test of `validate_patch` (`apply.cc:118`) but not that of `apply`;
  without the exception TLC finds a source whose checksum is that of no bytes.
* `SecondTimeHarmless` - applied to its own output a patch without checksums
  changes nothing, and a verified one is refused unless source and target have
  the same size and checksum.

Of `FileReader`:

* `BufferFromFile` - each byte a buffered reader holds was in the file, at its
  place, after the size was taken; a file cut short meanwhile is refused, not
  padded.
* `AnswersAreFile` - while nobody rewrites the file, both readers give the
  file's bytes, and refuse exactly the ranges that are not in it. The mapping
  of an empty file is left out: it opens, so that nothing falls back on the
  buffered reader, and then refuses every read (`mmap_posix.cc:76`).
* `MappingIsStable` - on Windows a mapped reader sees one content as long as it
  lives and is never killed.

Of the formats:

* `ParseFaithful` (IPS) - encoding the records again (`EncodeAll`) gives exactly the bytes
  read, so no byte is skipped, read twice or misread, on any input. And parsing ends
  where it should: no record is written like the end marker, parsing stops only at
  the marker or with less than three bytes left, and a patch is refused only for
  a record that is cut.
* `LastWriterWins`, `SizeLaw`, `Idempotent` (IPS) - the output byte by byte, its
  length against `get_metadata`, and a second application.
* `Reversible` (UPS) - a patch applied to its output gives the source back, for
  every patch that loads, also when distances wrapped and blocks overlap.
* `VerifiedIsTarget` (UPS), `AnswerIsTarget` (BPS) - what was verified is what
  `verify_checksums` confirms.
* `OneRegionReproduced` (UPS) - encoder and decoder agree on patches with one
  region, through `load`, `validate` and `apply`; and on all, if the
  terminating zero were not counted as a position.
* `CursorsInside` (BPS) - the three cursors never leave what they point into.
* `CopiesReproduced` (BPS) - patches without new bytes whose source reads come
  first, or that have none, mean what the format says they mean; overlapping
  target copies repeat their period. The restriction is needed: `SourceRead` moves
  the cursor of `SourceCopy` (`bps.cc:179`), which the format does not have.

`IInv`, in six of the runs, and `ProgramsInv` are the inductive invariants of the
proofs, checked before they were proved. In `ups` and `bps` `IInv` contains the type
invariant, which is not listed again.

### Why the bounds are enough

Four inodes give one process a temporary and a backup while another still reads
the inode a rename has just unlinked; two processes are what interference
needs, since the names of different targets are disjoint; two contents tell
"before" from "after". In `programs` a file has at most four inodes at a time and
the batch works on one after the other; three contents tell the original, the
patched and the twice patched apart; two runs are what a restart needs. The
theorems below hold for any number of each. In the formats the bases are the smallest in which every field keeps more than one
value and the end marker can also be an offset; three records or commands are
what it takes for one to overwrite, or to use a cursor moved by, two others;
`Word` is small enough for sums to wrap. `UPSEncoder` and `BPSEncoder` are
references: what the formats' specifications (`README.md:185-186`)
say an encoder writes. The checksum of the models is a toy: a patch whose toy
checksum matches by chance is one more patch tried. `MaxAlloc` bounds outputs
and stands for exhausted memory.

In `formats` the base is 8 so that the five bytes of the headers, and a byte that
is neither, are different; bodies of two bytes give every pair of sizes below
the base and every patch too short for its trailer, while longer ones are made
by the encoder in `MCPatchFormat` for the sources they belong to, with a right
and a wrong checksum.

The contents in `FileReader` are prefixes and changes of one another, of every
length up to three: a read of the last byte, one past it and an empty range all
occur.

`CHECK_DEADLOCK FALSE` in the format runs, `formats`, `FileReader` and the two runs
of `Programs`: a call ends, a process may be killed, a program is not started for
ever. In `Apply` a process can always begin another call, and deadlock is
checked.

### Liveness

`EveryRunEnds`: every run of the batch and of the tool comes to an end, whatever
fails on the way. `FairSpec` assumes weak fairness of `BatchStep` and of
`ToolStep`, no more: a program that can take a step takes one. The code justifies
it because neither program ever waits - there is no lock, no retry, no signal
from the other - and each step is a system call that returns or fails. The user
who runs a program again is not assumed to (`RunBatchAgain`, `RunToolAgain` have
no fairness). The assumption `MayBegin` never holds a program up: the batch writes
`file`, `tmp` and `bak`, the tool only `out`.

## Findings

1. `--backup` does nothing (`apply_backup`): `apply_patch` never looks at
   `create_backup`, contrary to `tools/iubpatch_cli.cc:22`.
2. A lost flush is reported as success (`apply_flush`, `src/io.cc:163`).
3. UPS patches with more than one region are misapplied (`ups_standard`,
   `src/formats/ups.cc:67`).
4. BPS patches with new bytes are misparsed (`bps_target_read`,
   `src/formats/bps.cc:89`).

Two more places where code and format or two parts of the code differ have no
run of their own, but are why a property is stated as it is: the cursor
`SourceRead` shares with `SourceCopy` (`CopiesReproduced`), and the mapped reader of
an empty file, which opens and then refuses every read where the buffered one
gives no bytes (`AnswersAreFile`). A `src_size` of 0 is a third
(`ValidateForetellsApply`).

## Proofs

`ApplyProofs` proves, for any numbers of processes, targets, inodes, contents and
patches, and any set of faults:

| Theorem | Statement |
|---|---|
| `Invariance` | `Spec => []IInv` |
| `TypeCorrect` | `Spec => []TypeOK` |
| `TargetsStayIntact` | `Spec => []TargetIntact` |
| `ReadersAreSafe` | `Spec => []ReadersSeeComplete` |
| `BackupComesFirst` | `Spec => BackupBeforeChange` |
| `OkIsWritten` | `Spec => OkMeansWritten` |
| `TemporariesAreRemoved` | `Spec => NoTempLeft` |
| `VerifyIsSound` | `Spec => VerifySeesTarget` |
| `InPlaceIsAtomic` | `Spec => AtomicSpec` |

The only assumption is `ApplyAssumption`: the tables are well-typed, and a patch of a
complete content is complete or refused. Lost flushes are among the faults, and
the theorems say what they can do: leave `Lost` where the patched bytes should be,
which finding 2 shows to happen behind an `Ok`, and nothing else.

`TargetIntact` alone is not inductive: a rename puts the temporary's inode under
the target's name, so one has to know that at that step the temporary holds the
patched bytes. `IInv` says what each step of a call knows: no inode has two
names (`Distinct`); running calls on one file write different names
(`Exclusive`); a writer's inode is the one behind its own name (`WriterOwns`);
a reader's inode is complete and, if it has a name, is a target
(`ReaderOwns`) - so no writer can open it; an in-place call's reader has the
current target (`ReadsTarget`), its data are the patch of the current target
(`DataCurrent`), its temporary holds them before the rename, or what a lost flush left of them (`TempReady`), and
its backup equals the target from the copy to the rename (`BackupCurrent`). Two
families of lemmas carry the proof: one step touches only entries and inodes
its process owns (`OpenTouches`, `WriteTouches`), and therefore the facts of
all the others survive (`OthersKeep`, `QuietKeep`); then there is one lemma per
action. The action properties and the refinement follow from `IInv` and from
`OnlyRenameChanges`: no step but `RenameTemp` changes a target's content.

`ProgramsProofs` proves, for any files, lists, patches, arguments and numbers of
runs, under the same assumption:

| Theorem | Statement |
|---|---|
| `ProgramsUseTheLibrary` | `ProgramsSpec => Spec` |
| `ProgramsInvariance`, `ProgramsTyped` | `ProgramsSpec => []ProgramsInv`, `ProgramsSpec => []ProgramsTypeOK` |
| `FirstRunLosesNothing` | `ProgramsSpec => []NothingLost` |
| `BackupsAreOneBack` | `ProgramsSpec => []BackupOneBack` |
| `NothingIsPatchedTwice` | `ProgramsSpec => []PatchedAtMostOnce` |
| `BatchReportsTruly` | `ProgramsSpec => []ReportTrue` |
| `ToolAnswersTruly` | `ProgramsSpec => []ToolAnswersTrue` |

The first makes every theorem about `Apply` one about the programs. The rest
follows from `IInv /\ ProgramsInv`: `CallsFit` says which calls the two make, so
that only the batch changes files and always with a backup; `IInv` says what is
behind the names at each step, so that a target only changes by `RenameTemp`, to
the patch of what it held, while the backup equals it. A backup is then either
untouched by a step (`BackupKept`), torn, or a copy of the current target.

What the programs report is history against files, and each needs to know
what happens between the end of a call and the program looking at its answer
(`Answered`): `Counted` says that the counts cover the turns before this one and
the changes also this one's; `TurnsStand` that what the turns behind us did is
still there, unless the file is listed again and its second call is running;
`OriginalKept` that the original is in the file until its turn is over and in the
backup from then on; `ToolReadsHeld` that what the tool has opened, read or
computed from was in its file at some instant of the call.

`FileReaderProofs` proves, for any contents, any changes of the file, any bound
on ranges and any faults:

| Theorem | Statement |
|---|---|
| `Invariance`, `TypeCorrect` | `Spec => []IInv`, `Spec => []TypeOK` |
| `BuffersHoldTheFile` | `Spec => []BufferFromFile` |
| `ReadersAnswerTheFile` | `Spec => []AnswersAreFile` |
| `WindowsMappingsAreStable` | `Spec => []MappingIsStable` |

None of the properties is inductive: while a reader is opened one has to know
that the bytes read so far come from contents seen (`BytesFromFile`), that the
size is that of one of them and the present content is among them
(`SizeFromFile`), that a mapping was made of one (`MappingFromFile`), and that no
answer is left over (`Opening`). `HeldIsFile` then says that a reader whose
file has not changed gives its bytes. On Windows `LockHolds` says that it has not
changed, so that `Give` cannot kill the process.

`PatchFormatProofs` proves, for any patches, sources and checksum function:

| Theorem | Statement |
|---|---|
| `Invariance` | `Spec => []IInv` |
| `DetectionIsExact` | `Spec => []NeverMisrouted` |
| `ValidationIsHonest` | `Spec => []ValidateForetellsApply` |
| `FormatsCompose` | `Spec => []Carried` |
| `SecondTimeChangesNothing` | `Spec => []SecondTimeHarmless` |

`PatchFormatAssumption` says that the headers are five, four and four bytes and
that none begins with another, and repeats what the formats assume of the
constants they share. `Routed` keeps each patch with the loader of its
header; `Judged` says, for each of the calls, which of the comparisons it has
made when it returns.

The second application is proved by composition, not by looking at the formats
again. Each step inside a call is a step of the format detected, so its
invariant survives it by that format's own proof (`IPSKeeps`, `UPSKeeps`,
`BPSKeeps`); what `AnswerValidate` and `ApplyAgain` do between two calls is no step
of a format, and is shown to lead to a state in which its invariant holds
(`IPSBetween`, `UPSBetween`, `BPSBetween`). `Fresh` says that nothing has happened to
a patch until its format is known, `AtRest` what of a load survives `validate`,
`Twice` that the second application starts from the answer of the first and
checks what the first checked. `Carried` then says: whatever is proved of a format
by itself holds when it is used through the file operations.

`IPSProofs` proves, for any base, any header and end marker, and any set of
patches and sources:

| Theorem | Statement |
|---|---|
| `Invariance` | `Spec => []IInv` |
| `TypeCorrect` | `Spec => []TypeOK` |
| `LastRecordDecides` | `Spec => []LastWriterWins` |
| `LengthIsAnnounced` | `Spec => []SizeLaw` |
| `TwiceIsOnce` | `Spec => []Idempotent` |
| `ParserReadsAll` | `Spec => []ParseFaithful` |

The only assumption is `IPSAssumption`, the types of the constants.
`LastWriterWins` speaks of the records played so far and is inductive once the
records are known to be well-formed (`RleRecordTyped`, `DataRecordTyped`: two and
three digits stay below the power of the base). `SizeLaw` needs to know that one
record reaches furthest, which `LengthLaw` carries along instead of an
induction over the records. `Idempotent` needs both: after the last record the
output has *settled* (`Settled`: all records inside it, each byte hit being its
last writer's), and records played over something settled change neither its
length nor a byte (`SettledStays`).

`ParseFaithful` is kept by every step together with the fact that there are no
records before `load` (`ReadSoFar`). A record appended is written as exactly the bytes
it was read from (`RleEncoded`, `DataEncoded`), because the digits of a number are the
bytes that made it (`DigitsRead`, from `Division`: a remainder is determined), and
`EncodeAll` of one record more is what it was before and that record's bytes
(`EncodeAppend`). `RestIs` reads what is left byte by byte. From it follows where parsing
ends: a patch refused is cut in a record whatever number of bytes one takes for it
(`TruncatedIsCut`), and the offset of a record appended is not the marker
(`OffsetIsNoMark`), since that test was made on the same three bytes.

`VarIntProofs` proves two theorems. `DecodeInside`: on any bytes a number ends inside
the data, makes progress and has the width of the word. It is what gives lengths and
offsets a type in the two proofs below, and why neither parser can read past a patch
or stand still. The provers have no induction over data, since the library's
theorems take a predicate. What stands in its place is the existence of a
least number in a set (`LeastElement`, from the well-foundedness of `<`) and, from
it, induction over a set (`Induction`): the set of turns at which something does
not hold is shown to have no least member. The loop is a recursive function of
its turns (`Turns`), and `TurnsFollow` shows that the function meets its equation.

`DecodeEncoded`: what an encoder writes for a number of the word's width (`Encoded`),
wherever it stands in the data, is decoded to that number, and the offset is moved
just behind it. The first byte with the stop bit is the encoder's last one
(`NumberEnds`). Each turn of the loop takes a digit, and what is left of the number
times the new weight is worth what was left before it times the old one, modulo the
word (`TurnKeepsSum`, `TurnsAdd`); so the value is right even where the weights have
wrapped to zero.

The rest of the module is what the encoders' patches need: pieces laid one behind the
other stand in the bytes where the ones before them end (`Joined`, `StandsInTwo`,
`StandsPart`, `LaidStands`), so that `DecodeEncoded` can be used at each of them.

`UPSProofs` proves, for any patches, sources, checksum function and Xor with
the laws above:

| Theorem | Statement |
|---|---|
| `Invariance` | `Spec => []IInv` |
| `TypeCorrect` | `Spec => []TypeOK` |
| `VerifiedAnswers` | `Spec => []VerifiedIsTarget` |
| `PatchesReverse` | `Spec => []Reversible` |
| `EncodedReproduced` | `ChecksumsFit`, that a checksum is `CrcSize` bytes, implies `Spec => []OneRegionReproduced` |

`Reversible` follows from three facts about a block: played twice it is not played
(`PlayedTwice`), two blocks can be played in either order (`PlayedEitherOrder`), and
it can be played before or after the bytes are cut (`PlayedOnCut`). By induction
over the blocks, playing all of them twice plays nothing (`PlayedAllTwice`), whether
they overlap, wrapped, or lie outside. `BlocksPlayed` ties the output to the
blocks behind `next`, `SecondOfFirst` the source of a second application to the
answer of the first, and `AnswerTwice` puts them together: the answer to the
answer is the source, cut to the target's size.

`OneRegionReproduced` says nothing of the states between load and answer. `EncoderInv`
does: once loaded, the sizes and checksums are those of the two texts; the blocks
parsed so far are the first regions of the encoder's layout, and `offset` is where it
put the next one (`SizesRead`, `BlocksRead`, `TrailerRead`). `MadeStands` says where in
the patch each part is, so that the parser in front of a region reads that region and
no other (`RegionReads`); its place in the file is right because encoder and parser
count distances alike, which is the restriction of the property. The regions do not
overlap (`RegionsInOrder`), so a byte of the output is either in one of them, where it is the
source's byte XORed with the difference of the two texts (`XorBack`), or in none, where the texts agree
(`AnswerIsTarget`). It holds for any two texts and every division of their difference.

`BPSProofs` proves, for any patches, sources and checksum function:

| Theorem | Statement |
|---|---|
| `Invariance` | `Spec => []IInv` |
| `TypeCorrect` | `Spec => [](TypeOK /\ ParserInside)` |
| `CursorsStayInside` | `Spec => []CursorsInside` |
| `AnswersAreTargets` | `Spec => []AnswerIsTarget` |
| `CopyRepeats` | the closed form of `RunOf` |
| `EncodedReproduced` | `ChecksumsFit` implies `Spec => []CopiesReproduced` |

`ParserInside` says that, once the metadata is behind it, the parser is inside the patch,
and so is the place `TargetRead` takes its bytes from. The test at `bps.cc:67` adds
`metadata_size` in the width of the word and can wrap; the
wrapped cases end in the exception of the string that is made (`bps.cc:70`). This rests on
`BPSAssumption`, which says that a patch is less than half as long as the numbers are wide, as is
every vector (`PTRDIFF_MAX`).

The tests before and behind the commands are enough for `AnswerIsTarget`, whatever
the commands do. That the cursors stay inside needs the types with them: a
command has a length of at least one because the number it comes from has a
type, and what it writes is bytes, as many as it says. For `TargetCopy`, which reads
what it writes, that is `CopyRepeats`: the bytes between its start and the end of the
output, over and over again, for every distance and length. `Untouched` says that
nothing is written before `apply`.

`EncodedReproduced` goes as in UPS, for any script: `EncoderInv` says that the commands
parsed are the first of the script (`CommandReads`) and that what has run is their
meaning. A script that has one has one after each of its commands, with an output no longer than
the target (`MeaningTyped`), so neither the checks of the cursors nor exhausted memory stop it. Then
each command does what `After` says it means: a copy from the source because a sign
and a distance are read back as they were written (`NumbersOf`, `MovedBack`), a copy of what was
written by `CopyRepeats`, and a `SourceRead` because the cursor it wrongly shares is where
the output ends as long as only `SourceRead`s ran before - the restriction of the property.

In both, `EncoderInv` was checked by TLC on the instances of `ups` and `bps` before it was proved.

Every safety property of the runs that pass, invariants and action properties, is
stated by a theorem. Only model-checked is liveness (`EveryRunEnds`), which is out of the prover's
reach, as is everything about `ENABLED`, such as the absence of deadlock in `Apply`.
What recursive functions compute - the number decoded, the pieces laid, the meaning of a script - is proved
through `Induction` and not by a library theorem. The four runs that end in a violation show
counterexamples; nothing is proved about them.

## Not modelled

`write_at` and `data`, which the library never calls; error texts and what the
programs print; CRC-32 itself, in whose place the models take any function; big-endian hosts; sums of
offset and length that wrap in `read_range`; hard links and symbolic links, targets
whose own name ends in `.tmp` or `.bak`, output and source of `apply_patch` under
one name; power loss (the code never calls `fsync`); Windows rules for renaming
open files. The other two examples make one call each, as the tool does. The
test suite, benchmarks, packaging and build files have no behaviour to model.

## Plan

1. *Done:* `Apply`, its refinement and proofs; `FileReader` on both platforms and
   its proofs; the three formats, their numbers and their proofs; `PatchFormat`
   and its proofs, by composition of the formats'; `Programs`, its liveness and its
   proofs.
2. *Done:* what an encoder of IPS records writes is what the parser reads
   (`ParseFaithful`), an encoded number is decoded back (`DecodeEncoded`), and
   what the UPS and BPS encoders make of two texts turns one into the other
   (`EncodedReproduced`, twice).
3. `Apply` with output and source under one name, to say exactly what is lost.
4. `PatchFormat` in place of the table `Outcome`: that `Outcome` of a patch is what
   the format modules compute.
