----------------------------- MODULE FileReader -----------------------------
(***************************************************************************)
(* Reading one file (src/io.cc and src/platform/): a buffered reader takes *)
(* the size, then all the bytes; a mapped one takes the size and maps the  *)
(* file.  open_file_reader prefers one and falls back on the other.        *)
(* Meanwhile another program may rewrite the file in place.                *)
(*                                                                         *)
(* Offsets and lengths of read_range are small enough not to wrap.         *)
(***************************************************************************)
EXTENDS Integers, Sequences, FiniteSets

CONSTANTS
    Contents,      \* byte strings the file may hold
    Absent,        \* there is no file
    MmapEnabled,   \* built with IUB_ENABLE_MMAP
    Platforms,     \* what the library may be built for
    MaxRange,      \* bound: offsets and lengths of read_range
    Faults         \* the system calls that may fail: "open", "mmap", "read"

ASSUME FileReaderAssumption ==
    /\ \A c \in Contents : c \in Seq(Nat)
    /\ Absent \notin Contents
    /\ MmapEnabled \in BOOLEAN
    /\ Platforms \subseteq {"posix", "windows"}
    /\ MaxRange \in Nat
    /\ Faults \subseteq {"open", "mmap", "read"}

VARIABLES
    platform, \* what the library was built for
    file,     \* what the file holds
    pc,       \* "closed", "map_open", "map", "buf_open", "buf_read", "ready", "killed"
    mapped,   \* is_mapped()
    size,     \* file_size of the reader
    bytes,    \* the bytes read; for a mapping those there when it was made
    answer,   \* the last answer of the reader, or of open_file_reader
    seen      \* history: what the file held since the reader took its size

vars == <<platform, file, pc, mapped, size, bytes, answer, seen>>
reader == <<mapped, size, bytes>>
others == <<platform, file>>

NoAnswer == [op |-> "none", offset |-> 0, length |-> 0, result |-> "none", data |-> <<>>]
Result(op, o, n, r, d) == [op |-> op, offset |-> o, length |-> n, result |-> r, data |-> d]

-----------------------------------------------------------------------------
(***************************************************************************)
(* Mistakes the code could contain, each a variant of an operator below.   *)
(***************************************************************************)

\* The stream is not asked whether it could read all the bytes.
MoreThereUnchecked == TRUE
\* The last byte can't be asked for.
InRangeStrict(o, n) == o + n < size
\* The buffer takes whatever there is.
Whole(s, n) == s
\* The file may be opened for writing while it is mapped.
LockedNever == FALSE

-----------------------------------------------------------------------------
\* Opening.

\* The first n bytes, as far as there are any.
Padded(s, n) == [i \in 1 .. n |-> IF i <= Len(s) THEN s[i] ELSE 0]

\* open_file_reader(path, prefer_mmap)
Open(prefer) ==
    /\ pc = "closed"
    /\ pc' = IF prefer /\ MmapEnabled THEN "map_open" ELSE "buf_open"
    /\ answer' = NoAnswer
    /\ UNCHANGED <<others, reader, seen>>

TakeSize ==
    /\ size' = Len(file)
    /\ seen' = {file}

\* An empty file is not mapped: the reader is made without any data.
MapOpen ==
    /\ pc = "map_open"
    /\ \/ /\ file = Absent \/ "open" \in Faults
          /\ pc' = "buf_open"
          /\ UNCHANGED <<reader, seen>>
       \/ /\ file # Absent
          /\ TakeSize
          /\ pc' = IF file = <<>> THEN "ready" ELSE "map"
          /\ mapped' = TRUE
          /\ bytes' = <<>>
    /\ UNCHANGED <<others, answer>>

Map ==
    /\ pc = "map"
    /\ \/ "mmap" \in Faults /\ pc' = "buf_open" /\ UNCHANGED bytes
       \/ pc' = "ready" /\ bytes' = Padded(file, size)
    /\ UNCHANGED <<others, mapped, size, answer, seen>>

FailToOpen(r) ==
    /\ pc' = "closed"
    /\ answer' = Result("open", 0, 0, r, <<>>)

BufOpen ==
    /\ pc = "buf_open"
    /\ \/ /\ file = Absent \/ "open" \in Faults
          /\ FailToOpen("FileNotFound")
          /\ UNCHANGED <<reader, seen>>
       \/ /\ file # Absent
          /\ TakeSize
          /\ pc' = "buf_read"
          /\ mapped' = FALSE
          /\ bytes' = <<>>
          /\ UNCHANGED answer
    /\ UNCHANGED others

MoreThere == Len(bytes) < Len(file)

\* One read of the stream may be several of the system: it goes byte by byte,
\* and what was not read is zero, as resize left it.
BufRead ==
    /\ pc = "buf_read"
    /\ \/ /\ Len(bytes) < size /\ MoreThere
          /\ bytes' = Append(bytes, Padded(file, size)[Len(bytes) + 1])
          /\ UNCHANGED <<pc, answer>>
       \/ /\ Len(bytes) < size
          /\ ~MoreThere \/ "read" \in Faults
          /\ FailToOpen("FileReadError")
          /\ UNCHANGED bytes
       \/ /\ Len(bytes) = size
          /\ pc' = "ready"
          /\ UNCHANGED <<bytes, answer>>
    /\ UNCHANGED <<others, mapped, size, seen>>

-----------------------------------------------------------------------------
\* Reading.

\* What a reader may find at o + 1 .. o + n: in a buffer what was read, in a
\* private mapping of each byte that or what the file holds by now.
Held(o, n) ==
    IF ~mapped THEN {SubSeq(bytes, o + 1, o + n)}
    ELSE LET now == Padded(file, size)
         IN {d \in [1 .. n -> {bytes[i] : i \in 1 .. size} \union {now[i] : i \in 1 .. size}] :
               \A i \in 1 .. n : d[i] \in {bytes[o + i], now[o + i]}}

InRange(o, n) == o + n <= size

NoData == mapped /\ size = 0

\* Bytes out of a reader.  A page of a mapping that the file no longer reaches
\* kills the process.
Give(op, o, n) ==
    \/ /\ \E d \in Held(o, n) : answer' = Result(op, o, n, "Ok", d)
       /\ UNCHANGED pc
    \/ /\ mapped /\ Len(file) < o + n /\ n > 0
       /\ pc' = "killed"
       /\ answer' = NoAnswer

ReadAll ==
    /\ pc = "ready"
    /\ \/ /\ NoData
          /\ answer' = Result("read_all", 0, 0, "MmapFailed", <<>>)
          /\ UNCHANGED pc
       \/ ~NoData /\ Give("read_all", 0, size)
    /\ UNCHANGED <<others, reader, seen>>

ReadRange(o, n) ==
    /\ pc = "ready"
    /\ \/ /\ NoData
          /\ answer' = Result("read_range", o, n, "MmapFailed", <<>>)
          /\ UNCHANGED pc
       \/ /\ ~NoData /\ ~InRange(o, n)
          /\ answer' = Result("read_range", o, n, "InvalidArgument", <<>>)
          /\ UNCHANGED pc
       \/ ~NoData /\ InRange(o, n) /\ Give("read_range", o, n)
    /\ UNCHANGED <<others, reader, seen>>

Close ==
    /\ pc = "ready"
    /\ pc' = "closed"
    /\ answer' = NoAnswer
    /\ UNCHANGED <<others, reader, seen>>

\* Windows: CreateFileA shares the file with other readers only, until the
\* reader is closed or the attempt to map the file has failed.
Locked == platform = "windows" /\ mapped /\ pc \in {"map", "ready"}

\* Another program creates the file, rewrites it or cuts it.
Change ==
    /\ pc # "killed" /\ ~Locked
    /\ \E c \in Contents : file' = c /\ seen' = seen \union {c}
    /\ answer' = NoAnswer
    /\ UNCHANGED <<platform, pc, reader>>

Init ==
    /\ platform \in Platforms
    /\ file \in Contents \union {Absent}
    /\ pc = "closed"
    /\ mapped = FALSE
    /\ size = 0
    /\ bytes = <<>>
    /\ answer = NoAnswer
    /\ seen = {}

Next ==
    \/ \E prefer \in BOOLEAN : Open(prefer)
    \/ MapOpen \/ Map \/ BufOpen \/ BufRead
    \/ ReadAll
    \/ \E o, n \in 0 .. MaxRange : ReadRange(o, n)
    \/ Close
    \/ Change

Spec == Init /\ [][Next]_vars

-----------------------------------------------------------------------------
(***************************************************************************)
(* Properties                                                              *)
(***************************************************************************)

Answer ==
    [op : {"none", "open", "read_all", "read_range"}, offset : Nat, length : Nat,
     result : {"none", "Ok", "FileNotFound", "FileReadError", "MmapFailed", "InvalidArgument"},
     data : Seq(Nat)]

\* Every variable has its type, and a reader holds as many bytes as its size.
TypeOK ==
    /\ platform \in Platforms
    /\ file \in Contents \union {Absent}
    /\ pc \in {"closed", "map_open", "map", "buf_open", "buf_read", "ready", "killed"}
    /\ mapped \in BOOLEAN
    /\ size \in Nat
    /\ bytes \in Seq(Nat)
    /\ pc = "ready" => Len(bytes) = size
    /\ answer \in Answer
    /\ seen \subseteq Contents

\* Each byte of a buffered reader was in the file, at its place, after the
\* size was taken: a file cut short in between is refused, never filled up
\* (io.cc:85-91).
BufferFromFile ==
    pc = "ready" /\ ~mapped =>
        \A i \in 1 .. size : \E c \in seen : i <= Len(c) /\ bytes[i] = c[i]

\* As long as nobody rewrites the file, every answer but that of an empty
\* mapping is the file's, whichever reader gives it and in whatever order it
\* is asked (io.cc:106-120, mmap_posix.cc:75-101).
AnswersAreFile ==
    pc = "ready" /\ seen = {file} /\ answer.op # "none" /\ ~NoData =>
        LET o == answer.offset
            n == answer.length
        IN IF answer.op = "read_all" THEN answer.result = "Ok" /\ answer.data = file
           ELSE IF o + n <= Len(file) THEN answer.result = "Ok" /\ answer.data = SubSeq(file, o + 1, o + n)
           ELSE answer.result = "InvalidArgument"

\* On Windows a mapped reader sees one content as long as it lives, and is never
\* killed by a file cut short: the handle it keeps open lets nobody write
\* (mmap_windows.cc:31-39, 50-68).
MappingIsStable ==
    platform = "windows" /\ mapped =>
        /\ pc # "killed"
        /\ pc = "ready" /\ answer.result = "Ok" =>
             /\ answer.offset + answer.length <= Len(file)
             /\ answer.data = SubSeq(file, answer.offset + 1, answer.offset + answer.length)

-----------------------------------------------------------------------------
\* What makes the properties inductive: where the bytes, the size and the
\* answer of a reader come from while it is opened and read.

Opening == pc \in {"map_open", "map", "buf_open", "buf_read"} => answer = NoAnswer

SizeFromFile ==
    /\ pc \in {"map", "buf_read", "ready"} => file \in seen /\ \E c \in seen : size = Len(c)
    /\ pc = "map" => mapped
    /\ pc = "buf_read" => ~mapped

BytesFromFile ==
    pc \in {"buf_read", "ready"} /\ ~mapped =>
        /\ Len(bytes) <= size
        /\ \A i \in 1 .. Len(bytes) : \E c \in seen : i <= Len(c) /\ bytes[i] = c[i]

MappingFromFile ==
    pc = "ready" /\ mapped => \A i \in 1 .. size : \E c \in seen : bytes[i] = Padded(c, size)[i]

LockHolds ==
    platform = "windows" /\ mapped =>
        pc # "killed" /\ (pc \in {"map", "ready"} => seen = {file})

AnswerFits ==
    pc = "ready" /\ answer.result = "Ok" =>
        /\ answer.op \in {"read_all", "read_range"} /\ ~NoData
        /\ answer.op = "read_all" => answer.offset = 0 /\ answer.length = size

\* The inductive invariant of one reader.
IInv ==
    /\ TypeOK /\ Opening /\ SizeFromFile /\ BytesFromFile /\ MappingFromFile
    /\ LockHolds /\ AnswerFits /\ AnswersAreFile
=============================================================================
