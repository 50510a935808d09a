-------------------------- MODULE FileReaderProofs --------------------------
(***************************************************************************)
(* Theorems about reading a file, for any contents, any changes another    *)
(* program makes to them, any bound on the ranges and any set of faults.   *)
(***************************************************************************)
EXTENDS FileReader, SequenceTheorems, TLAPS

-----------------------------------------------------------------------------
\* Contents are sequences of numbers, and none of them is Absent.
LEMMA ContentsTyped ==
    /\ \A c \in Contents : c \in Seq(Nat) /\ Len(c) \in Nat
    /\ Absent \notin Contents
BY FileReaderAssumption DEF FileReaderAssumption

\* The answer of a reader that was asked nothing.
LEMMA NoAnswerTyped == NoAnswer \in Answer /\ NoAnswer.op = "none" /\ NoAnswer.result = "none"
BY DEF NoAnswer, Answer

\* Padding to a length gives that many numbers, those there are first.
LEMMA PaddedTyped ==
    ASSUME NEW c \in Seq(Nat), NEW n \in Nat
    PROVE  /\ Padded(c, n) \in Seq(Nat) /\ Len(Padded(c, n)) = n
           /\ \A i \in 1 .. n : i <= Len(c) => Padded(c, n)[i] = c[i]
<1>1. \A i \in 1 .. n : (IF i <= Len(c) THEN c[i] ELSE 0) \in Nat
  OBVIOUS
<1> QED
  BY <1>1 DEF Padded

\* A part of a sequence has its length, and its elements in their places.
LEMMA CutTyped ==
    ASSUME NEW c \in Seq(Nat), NEW o \in Nat, NEW n \in Nat, o + n <= Len(c)
    PROVE  /\ SubSeq(c, o + 1, o + n) \in Seq(Nat) /\ Len(SubSeq(c, o + 1, o + n)) = n
           /\ \A i \in 1 .. n : SubSeq(c, o + 1, o + n)[i] = c[o + i]
<1>1. o + 1 \in 1 .. Len(c) + 1 /\ o + n \in (o + 1) - 1 .. Len(c)
  OBVIOUS
<1>2. Len(c) \in Nat /\ (o + n) - (o + 1) + 1 = n
  OBVIOUS
<1>3. /\ SubSeq(c, o + 1, o + n) \in Seq(Nat)
      /\ Len(SubSeq(c, o + 1, o + n)) = (o + n) - (o + 1) + 1
      /\ \A i \in 1 .. (o + n) - (o + 1) + 1 : SubSeq(c, o + 1, o + n)[i] = c[(o + 1) + i - 1]
  BY <1>1, SubSeqProperties
<1>4. \A i \in 1 .. n : (o + 1) + i - 1 = o + i
  OBVIOUS
<1> QED
  BY <1>2, <1>3, <1>4

\* What a reader gives has the length asked for.
LEMMA HeldTyped ==
    ASSUME TypeOK, file \in Contents, Len(bytes) = size,
           NEW o \in Nat, NEW n \in Nat, o + n <= size, NEW d \in Held(o, n)
    PROVE  d \in Seq(Nat) /\ Len(d) = n
<1> DEFINE now == Padded(file, size)
<1>1. size \in Nat /\ bytes \in Seq(Nat)
  BY DEF TypeOK
<1>2. file \in Seq(Nat)
  BY ContentsTyped
<1>3. now \in Seq(Nat) /\ Len(now) = size
  BY <1>1, <1>2, PaddedTyped
<1>4. CASE ~mapped
  <2>1. d = SubSeq(bytes, o + 1, o + n)
    BY <1>4 DEF Held
  <2> QED
    BY <1>1, <2>1, CutTyped
<1>5. CASE mapped
  <2>1. \A i \in 1 .. n : d[i] \in {bytes[o + i], now[o + i]}
    BY <1>5 DEF Held
  <2>2. d \in [1 .. n -> {bytes[i] : i \in 1 .. size} \union {now[i] : i \in 1 .. size}]
    BY <1>5 DEF Held
  <2>3. \A i \in 1 .. n : bytes[o + i] \in Nat /\ now[o + i] \in Nat
    BY <1>1, <1>3
  <2>4. d \in [1 .. n -> Nat]
    BY <2>1, <2>2, <2>3
  <2> QED
    BY <2>4
<1> QED
  BY <1>4, <1>5

\* While the file has not changed since the size was taken, a reader gives the
\* bytes of the file.
LEMMA HeldIsFile ==
    ASSUME IInv, pc = "ready", seen = {file},
           NEW o \in Nat, NEW n \in Nat, o + n <= size, NEW d \in Held(o, n)
    PROVE  size = Len(file) /\ d = SubSeq(file, o + 1, o + n)
<1>1. TypeOK /\ size \in Nat /\ bytes \in Seq(Nat) /\ Len(bytes) = size
  BY DEF IInv, TypeOK
<1>2. file \in Contents /\ file \in Seq(Nat)
  BY ContentsTyped DEF IInv, TypeOK
<1>3. size = Len(file)
  BY DEF IInv, SizeFromFile
<1>4. \A i \in 1 .. size : bytes[i] = file[i]
  <2>1. CASE ~mapped
    BY <1>1, <2>1 DEF IInv, BytesFromFile
  <2>2. CASE mapped
    <3>1. \A i \in 1 .. size : bytes[i] = Padded(file, size)[i]
      BY <2>2 DEF IInv, MappingFromFile
    <3>2. \A i \in 1 .. size : i <= Len(file)
      BY <1>1, <1>3
    <3>3. \A i \in 1 .. size : i <= Len(file) => Padded(file, size)[i] = file[i]
      BY <1>1, <1>2, PaddedTyped
    <3> QED
      BY <3>1, <3>2, <3>3
  <2> QED
    BY <2>1, <2>2
<1>5. d \in Seq(Nat) /\ Len(d) = n
  BY <1>1, <1>2, HeldTyped
<1>9. \A i \in 1 .. n : o + i \in 1 .. size
  BY <1>1
<1>6. \A i \in 1 .. n : d[i] = file[o + i]
  <2>1. CASE ~mapped
    <3>1. d = SubSeq(bytes, o + 1, o + n)
      BY <2>1 DEF Held
    <3>2. \A i \in 1 .. n : d[i] = bytes[o + i]
      BY <3>1, <1>1, CutTyped
    <3> QED
      BY <3>2, <1>4, <1>9
  <2>2. CASE mapped
    <3>1. \A i \in 1 .. n : d[i] \in {bytes[o + i], Padded(file, size)[o + i]}
      BY <2>2 DEF Held
    <3>2. \A i \in 1 .. n : Padded(file, size)[o + i] = file[o + i]
      <4>1. \A i \in 1 .. size : Padded(file, size)[i] = file[i]
        <5>1. \A i \in 1 .. size : i <= Len(file)
          BY <1>1, <1>3
        <5>2. \A i \in 1 .. size : i <= Len(file) => Padded(file, size)[i] = file[i]
          BY <1>1, <1>2, PaddedTyped
        <5> QED
          BY <5>1, <5>2
      <4> QED
        BY <4>1, <1>9
    <3> QED
      BY <3>1, <3>2, <1>4, <1>9
  <2> QED
    BY <2>1, <2>2
<1>7. /\ SubSeq(file, o + 1, o + n) \in Seq(Nat) /\ Len(SubSeq(file, o + 1, o + n)) = n
      /\ \A i \in 1 .. n : SubSeq(file, o + 1, o + n)[i] = file[o + i]
  BY <1>2, <1>3, CutTyped
<1>8. SubSeq(file, o + 1, o + n) = d
  <2> DEFINE S == SubSeq(file, o + 1, o + n)
  <2>1. S \in Seq(Nat) /\ d \in Seq(Nat) /\ Len(S) = Len(d) /\ \A i \in 1 .. Len(S) : S[i] = d[i]
    BY <1>5, <1>6, <1>7
  <2>2. S = d
    <3> HIDE DEF S
    <3> QED
      BY <2>1, SeqEqual
  <2> QED
    BY <2>2
<1> QED
  BY <1>3, <1>8

-----------------------------------------------------------------------------
(***************************************************************************)
(* One lemma per step                                                      *)
(***************************************************************************)

\* The first state.
LEMMA InitKeeps == Init => IInv
<1> SUFFICES ASSUME Init PROVE IInv
  OBVIOUS
<1>1. TypeOK
  <2>1. mapped \in BOOLEAN
    BY Zenon DEF Init
  <2>2. bytes \in Seq(Nat) /\ Len(bytes) = size /\ size \in Nat
    BY DEF Init
  <2> QED
    BY <2>1, <2>2, NoAnswerTyped, Zenon DEF Init, TypeOK
<1> QED
  BY <1>1, NoAnswerTyped DEF Init, IInv, Opening, SizeFromFile, BytesFromFile, MappingFromFile, LockHolds,
     AnswerFits, AnswersAreFile

\* Opening sets the reader up.
LEMMA OpenKeeps ==
    ASSUME IInv, NEW prefer \in BOOLEAN, Open(prefer) PROVE IInv'
<1>1. TypeOK'
  BY NoAnswerTyped DEF IInv, Open, TypeOK, others, reader
<1> QED
  BY <1>1, NoAnswerTyped DEF IInv, Open, Opening, SizeFromFile, BytesFromFile, MappingFromFile, LockHolds,
     AnswerFits, AnswersAreFile, others, reader

\* The mapped reader takes the size, or gives up.
LEMMA MapOpenKeeps == ASSUME IInv, MapOpen PROVE IInv'
<1>1. file \in Contents \union {Absent} /\ pc = "map_open" /\ answer = NoAnswer
  BY DEF IInv, TypeOK, MapOpen, Opening
<1>2. CASE pc' = "buf_open" /\ UNCHANGED <<reader, seen>>
  <2>1. TypeOK'
    BY <1>2 DEF IInv, MapOpen, TypeOK, others, reader
  <2> QED
    BY <1>1, <1>2, <2>1, NoAnswerTyped DEF IInv, MapOpen, Opening, SizeFromFile, BytesFromFile, MappingFromFile,
       LockHolds, AnswerFits, AnswersAreFile, others, reader
<1>3. CASE /\ file # Absent /\ TakeSize /\ mapped' = TRUE /\ bytes' = <<>>
           /\ pc' = IF file = <<>> THEN "ready" ELSE "map"
  <2>1. file \in Contents /\ file \in Seq(Nat) /\ Len(file) \in Nat
    BY <1>1, <1>3, ContentsTyped
  <2>2. UNCHANGED <<platform, file, answer>>
    BY DEF MapOpen, others
  <2>3. size' = Len(file) /\ seen' = {file}
    BY <1>3 DEF TakeSize
  <2>4. pc' = "ready" => size' = 0
    BY <1>3, <2>3
  <2>5. TypeOK'
    BY <1>3, <2>1, <2>2, <2>3, <2>4 DEF IInv, TypeOK
  <2> QED
    BY <1>1, <1>3, <2>1, <2>2, <2>3, <2>4, <2>5, NoAnswerTyped DEF IInv, Opening, SizeFromFile,
       BytesFromFile, MappingFromFile, LockHolds, AnswerFits, AnswersAreFile, NoData
<1> QED
  BY <1>2, <1>3 DEF MapOpen
\* Mapping gives the bytes of the file, or the buffered reader is tried.
LEMMA MapKeeps == ASSUME IInv, Map PROVE IInv'
<1>1. /\ TypeOK /\ pc = "map" /\ mapped /\ answer = NoAnswer /\ file \in seen /\ seen \subseteq Contents
      /\ size \in Nat
  BY DEF IInv, TypeOK, Map, Opening, SizeFromFile
<1>2. UNCHANGED <<platform, file, mapped, size, answer, seen>>
  BY DEF Map, others
<1>3. CASE pc' = "buf_open" /\ UNCHANGED bytes
  <2>1. TypeOK'
    BY <1>1, <1>2, <1>3 DEF TypeOK
  <2> QED
    BY <1>1, <1>2, <1>3, <2>1, NoAnswerTyped DEF IInv, Opening, SizeFromFile, BytesFromFile, MappingFromFile,
       LockHolds, AnswerFits, AnswersAreFile
<1>4. CASE pc' = "ready" /\ bytes' = Padded(file, size)
  <2>1. file \in Seq(Nat)
    BY <1>1, ContentsTyped
  <2>2. bytes' \in Seq(Nat) /\ Len(bytes') = size'
    BY <1>1, <1>2, <1>4, <2>1, PaddedTyped
  <2>3. TypeOK'
    BY <1>1, <1>2, <1>4, <2>2 DEF TypeOK
  <2>4. MappingFromFile'
    BY <1>1, <1>2, <1>4 DEF MappingFromFile, Padded
  <2> QED
    BY <1>1, <1>2, <1>4, <2>3, <2>4, NoAnswerTyped DEF IInv, Opening, SizeFromFile, BytesFromFile,
       LockHolds, AnswerFits, AnswersAreFile
<1> QED
  BY <1>3, <1>4 DEF Map

\* Giving up is a closed reader and an error.
LEMMA FailKeeps ==
    ASSUME IInv, pc \in {"buf_open", "buf_read"}, NEW r \in {"FileNotFound", "FileReadError"},
           FailToOpen(r), UNCHANGED <<others, reader, seen>>
    PROVE  IInv'
<1>1. answer' \in Answer /\ answer'.result = r
  BY DEF FailToOpen, Result, Answer
<1>2. TypeOK'
  BY <1>1 DEF IInv, FailToOpen, TypeOK, others, reader
<1> QED
  BY <1>1, <1>2 DEF IInv, FailToOpen, Opening, SizeFromFile, BytesFromFile, MappingFromFile, LockHolds,
     AnswerFits, AnswersAreFile, others, reader

\* The buffered reader takes the size.
LEMMA BufOpenKeeps == ASSUME IInv, BufOpen PROVE IInv'
<1>1. file \in Contents \union {Absent} /\ pc = "buf_open" /\ answer = NoAnswer
  BY DEF IInv, TypeOK, BufOpen, Opening
<1>2. CASE FailToOpen("FileNotFound") /\ UNCHANGED <<reader, seen>>
  <2>1. UNCHANGED <<others, reader, seen>>
    BY <1>2 DEF BufOpen, others
  <2> QED
    BY <1>1, <1>2, <2>1, FailKeeps
<1>3. CASE /\ file # Absent /\ TakeSize /\ pc' = "buf_read" /\ mapped' = FALSE /\ bytes' = <<>>
           /\ UNCHANGED answer
  <2>1. file \in Contents /\ file \in Seq(Nat) /\ Len(file) \in Nat
    BY <1>1, <1>3, ContentsTyped
  <2>2. UNCHANGED <<platform, file, answer>>
    BY <1>3 DEF BufOpen, others
  <2>3. size' = Len(file) /\ seen' = {file}
    BY <1>3 DEF TakeSize
  <2>4. TypeOK'
    <3>1. mapped' \in BOOLEAN /\ pc' = "buf_read"
      BY <1>3, Zenon
    <3>2. bytes' \in Seq(Nat) /\ size' \in Nat /\ seen' \subseteq Contents
      BY <1>3, <2>1, <2>3
    <3> QED
      BY <2>2, <3>1, <3>2 DEF IInv, TypeOK
  <2> QED
    BY <1>1, <1>3, <2>1, <2>2, <2>3, <2>4, NoAnswerTyped DEF IInv, Opening, SizeFromFile, BytesFromFile,
       MappingFromFile, LockHolds, AnswerFits, AnswersAreFile
<1> QED
  BY <1>2, <1>3 DEF BufOpen

\* The buffered reader reads a byte, fails, or is ready.
LEMMA BufReadKeeps == ASSUME IInv, BufRead PROVE IInv'
<1>1. /\ TypeOK /\ pc = "buf_read" /\ ~mapped /\ answer = NoAnswer /\ file \in seen /\ seen \subseteq Contents
      /\ size \in Nat /\ bytes \in Seq(Nat) /\ Len(bytes) \in Nat
  BY DEF IInv, TypeOK, BufRead, Opening, SizeFromFile
<1>2. UNCHANGED <<platform, file, mapped, size, seen>>
  BY DEF BufRead, others
<1>3. CASE /\ Len(bytes) < size /\ MoreThere /\ UNCHANGED <<pc, answer>>
           /\ bytes' = Append(bytes, Padded(file, size)[Len(bytes) + 1])
  <2> DEFINE b == Padded(file, size)[Len(bytes) + 1]
  <2>1. file \in Contents /\ file \in Seq(Nat) /\ Len(file) \in Nat
    BY <1>1, ContentsTyped
  <2>2. Len(bytes) + 1 \in 1 .. size /\ Len(bytes) + 1 <= Len(file)
    BY <1>1, <1>3, <2>1 DEF MoreThere
  <2>3. b = file[Len(bytes) + 1] /\ b \in Nat
    <3>1. \A i \in 1 .. size : i <= Len(file) => Padded(file, size)[i] = file[i]
      BY <1>1, <2>1, PaddedTyped
    <3>2. b = file[Len(bytes) + 1]
      BY <2>2, <3>1
    <3>3. Len(bytes) + 1 \in 1 .. Len(file)
      BY <1>1, <2>1, <2>2
    <3> QED
      BY <2>1, <3>2, <3>3
  <2>4. /\ bytes' \in Seq(Nat) /\ Len(bytes') = Len(bytes) + 1
        /\ \A i \in 1 .. Len(bytes) : bytes'[i] = bytes[i]
        /\ bytes'[Len(bytes) + 1] = file[Len(bytes) + 1]
    BY <1>1, <1>3, <2>3
  <2>5. TypeOK'
    BY <1>1, <1>2, <1>3, <2>4 DEF TypeOK
  <2>6. \A i \in 1 .. Len(bytes) : \E c \in seen : i <= Len(c) /\ bytes[i] = c[i]
    BY <1>1 DEF IInv, BytesFromFile
  <2>7. ASSUME NEW i \in 1 .. Len(bytes) + 1
        PROVE  \E c \in seen : i <= Len(c) /\ bytes'[i] = c[i]
    <3>1. CASE i = Len(bytes) + 1
      BY <1>1, <2>2, <2>4, <3>1
    <3>2. CASE i # Len(bytes) + 1
      <4>1. i \in 1 .. Len(bytes)
        BY <1>1, <3>2
      <4> QED
        BY <2>4, <2>6, <4>1
    <3> QED
      BY <3>1, <3>2
  <2>8. BytesFromFile'
    BY <1>1, <1>2, <2>2, <2>4, <2>7 DEF BytesFromFile
  <2> QED
    BY <1>1, <1>2, <1>3, <2>5, <2>8, NoAnswerTyped DEF IInv, Opening, SizeFromFile, MappingFromFile,
       LockHolds, AnswerFits, AnswersAreFile
<1>4. CASE FailToOpen("FileReadError") /\ UNCHANGED bytes
  <2>1. UNCHANGED <<others, reader, seen>>
    BY <1>2, <1>4 DEF others, reader
  <2> QED
    BY <1>1, <1>4, <2>1, FailKeeps
<1>5. CASE Len(bytes) = size /\ pc' = "ready" /\ UNCHANGED <<bytes, answer>>
  <2>1. TypeOK'
    BY <1>1, <1>2, <1>5 DEF TypeOK
  <2> QED
    BY <1>1, <1>2, <1>5, <2>1, NoAnswerTyped DEF IInv, Opening, SizeFromFile, BytesFromFile, MappingFromFile,
       LockHolds, AnswerFits, AnswersAreFile
<1> QED
  BY <1>3, <1>4, <1>5 DEF BufRead

\* An answer that is no data leaves the reader as it is.
LEMMA RefusalKeeps ==
    ASSUME IInv, pc = "ready", UNCHANGED <<others, reader, seen, pc>>,
           NEW op \in {"read_all", "read_range"}, NEW o \in Nat, NEW n \in Nat,
           NEW r \in {"MmapFailed", "InvalidArgument"}, answer' = Result(op, o, n, r, <<>>),
           \/ NoData
           \/ op = "read_range" /\ r = "InvalidArgument" /\ ~InRange(o, n)
    PROVE  IInv'
<1>1. /\ answer' \in Answer /\ answer'.result = r /\ answer'.op = op
      /\ answer'.offset = o /\ answer'.length = n
  BY DEF Result, Answer
<1>2. TypeOK'
  BY <1>1 DEF IInv, TypeOK, others, reader
<1>3. AnswersAreFile'
  <2>1. CASE NoData
    BY <2>1 DEF AnswersAreFile, NoData, others, reader
  <2>2. CASE op = "read_range" /\ r = "InvalidArgument" /\ ~InRange(o, n)
    <3>1. seen = {file} => size = Len(file)
      BY DEF IInv, SizeFromFile
    <3> QED
      BY <1>1, <2>2, <3>1 DEF AnswersAreFile, InRange, others, reader
  <2> QED
    BY <2>1, <2>2
<1> QED
  BY <1>1, <1>2, <1>3 DEF IInv, Opening, SizeFromFile, BytesFromFile, MappingFromFile, LockHolds, AnswerFits,
     NoData, others, reader

\* Bytes out of a reader, or a process that is killed: not on Windows, where
\* the file is as long as the mapping.
LEMMA GiveKeeps ==
    ASSUME IInv, pc = "ready", ~NoData, UNCHANGED <<others, reader, seen>>,
           NEW op \in {"read_all", "read_range"}, NEW o \in Nat, NEW n \in Nat, o + n <= size,
           op = "read_all" => o = 0 /\ n = size, Give(op, o, n)
    PROVE  IInv'
<1>1. /\ TypeOK /\ size \in Nat /\ Len(bytes) = size /\ file \in seen /\ seen \subseteq Contents
      /\ file \in Seq(Nat) /\ Len(file) \in Nat
  BY ContentsTyped DEF IInv, TypeOK, SizeFromFile
<1>2. seen = {file} => size = Len(file)
  BY DEF IInv, SizeFromFile
<1>3. ASSUME NEW d \in Held(o, n), answer' = Result(op, o, n, "Ok", d), UNCHANGED pc
      PROVE  IInv'
  <2>1. d \in Seq(Nat)
    BY <1>1, HeldTyped
  <2>2. /\ answer' \in Answer /\ answer'.result = "Ok" /\ answer'.op = op
        /\ answer'.offset = o /\ answer'.length = n /\ answer'.data = d
    BY <1>3, <2>1 DEF Result, Answer
  <2>3. TypeOK'
    BY <1>1, <1>3, <2>2 DEF TypeOK, others, reader
  <2>4. AnswersAreFile'
    <3> SUFFICES ASSUME seen = {file}
                 PROVE  IF op = "read_all" THEN d = file
                        ELSE o + n <= Len(file) /\ d = SubSeq(file, o + 1, o + n)
      BY <2>2 DEF AnswersAreFile, others, reader
    <3>1. size = Len(file) /\ d = SubSeq(file, o + 1, o + n)
      BY HeldIsFile
    <3>2. CASE op = "read_all"
      <4>1. o + 1 = 1 /\ o + n = Len(file)
        BY <1>1, <3>1, <3>2
      <4>2. d = SubSeq(file, 1, Len(file))
        BY <3>1, <4>1
      <4> QED
        BY <1>1, <3>2, <4>2, SubSeqFull
    <3> QED
      BY <3>1, <3>2
  <2> QED
    BY <1>3, <2>2, <2>3, <2>4 DEF IInv, Opening, SizeFromFile, BytesFromFile, MappingFromFile, LockHolds,
       AnswerFits, NoData, others, reader
<1>4. CASE mapped /\ Len(file) < o + n /\ pc' = "killed" /\ answer' = NoAnswer
  <2>1. platform # "windows"
    BY <1>1, <1>2, <1>4 DEF IInv, LockHolds
  <2>2. TypeOK'
    BY <1>1, <1>4, NoAnswerTyped DEF TypeOK, others, reader
  <2> QED
    BY <1>4, <2>1, <2>2, NoAnswerTyped DEF IInv, Opening, SizeFromFile, BytesFromFile, MappingFromFile,
       LockHolds, AnswerFits, AnswersAreFile, others, reader
<1> QED
  BY <1>3, <1>4 DEF Give

\* All the bytes.
LEMMA ReadAllKeeps == ASSUME IInv, ReadAll PROVE IInv'
<1>1. pc = "ready" /\ UNCHANGED <<others, reader, seen>> /\ size \in Nat /\ 0 + size <= size
  BY DEF ReadAll, IInv, TypeOK
<1>2. CASE NoData /\ answer' = Result("read_all", 0, 0, "MmapFailed", <<>>) /\ UNCHANGED pc
  BY <1>1, <1>2, RefusalKeeps
<1>3. CASE ~NoData /\ Give("read_all", 0, size)
  <2>1. PICK n \in Nat : n = size
    BY <1>1
  <2>2. Give("read_all", 0, n)
    BY <1>3, <2>1
  <2> QED
    BY <1>1, <1>3, <2>1, <2>2, GiveKeeps
<1> QED
  BY <1>2, <1>3 DEF ReadAll

\* A range of bytes.
LEMMA ReadRangeKeeps ==
    ASSUME IInv, NEW o \in 0 .. MaxRange, NEW n \in 0 .. MaxRange, ReadRange(o, n) PROVE IInv'
<1>1. pc = "ready" /\ UNCHANGED <<others, reader, seen>> /\ o \in Nat /\ n \in Nat
  BY FileReaderAssumption DEF ReadRange, FileReaderAssumption
<1>2. CASE NoData /\ answer' = Result("read_range", o, n, "MmapFailed", <<>>) /\ UNCHANGED pc
  BY <1>1, <1>2, RefusalKeeps
<1>3. CASE ~InRange(o, n) /\ answer' = Result("read_range", o, n, "InvalidArgument", <<>>) /\ UNCHANGED pc
  BY <1>1, <1>3, RefusalKeeps
<1>4. CASE ~NoData /\ InRange(o, n) /\ Give("read_range", o, n)
  BY <1>1, <1>4, GiveKeeps DEF InRange
<1> QED
  BY <1>2, <1>3, <1>4 DEF ReadRange

\* Closing forgets the answer.
LEMMA CloseKeeps == ASSUME IInv, Close PROVE IInv'
<1>1. TypeOK'
  BY NoAnswerTyped DEF IInv, Close, TypeOK, others, reader
<1> QED
  BY <1>1, NoAnswerTyped DEF IInv, Close, Opening, SizeFromFile, BytesFromFile, MappingFromFile, LockHolds,
     AnswerFits, AnswersAreFile, others, reader

\* Another program may add to what the reader saw, never take anything away.
LEMMA ChangeKeeps == ASSUME IInv, Change PROVE IInv'
<1>1. PICK c \in Contents : file' = c /\ seen' = seen \union {c}
  BY DEF Change
<1>2. answer' = NoAnswer /\ UNCHANGED <<platform, pc, mapped, size, bytes>> /\ pc # "killed" /\ ~Locked
  BY DEF Change, reader
<1>3. TypeOK'
  BY <1>1, <1>2, NoAnswerTyped DEF IInv, TypeOK
<1>4. SizeFromFile' /\ BytesFromFile' /\ MappingFromFile'
  BY <1>1, <1>2 DEF IInv, SizeFromFile, BytesFromFile, MappingFromFile, Padded
<1> QED
  BY <1>2, <1>3, <1>4, NoAnswerTyped DEF IInv, Opening, LockHolds, Locked, AnswerFits, AnswersAreFile

\* Every step keeps the invariant.
LEMMA StepKeeps == IInv /\ [Next]_vars => IInv'
<1> SUFFICES ASSUME IInv, [Next]_vars PROVE IInv'
  OBVIOUS
<1>1. CASE UNCHANGED vars
  BY <1>1 DEF vars, IInv, TypeOK, Opening, SizeFromFile, BytesFromFile, MappingFromFile, LockHolds, AnswerFits,
     AnswersAreFile, NoData
<1>2. ASSUME NEW prefer \in BOOLEAN, Open(prefer) PROVE IInv'
  BY <1>2, OpenKeeps
<1>3. ASSUME NEW o \in 0 .. MaxRange, NEW n \in 0 .. MaxRange, ReadRange(o, n) PROVE IInv'
  BY <1>3, ReadRangeKeeps
<1> QED
  BY <1>1, <1>2, <1>3, MapOpenKeeps, MapKeeps, BufOpenKeeps, BufReadKeeps, ReadAllKeeps, CloseKeeps, ChangeKeeps
     DEF Next

-----------------------------------------------------------------------------
(***************************************************************************)
(* The theorems                                                            *)
(***************************************************************************)

\* The inductive invariant holds of every run.
THEOREM Invariance == Spec => []IInv
<1> QED
  BY InitKeeps, StepKeeps, PTL DEF Spec

\* Every variable has its type, and a reader as many bytes as its size.
THEOREM TypeCorrect == Spec => []TypeOK
<1>1. IInv => TypeOK
  BY DEF IInv
<1> QED
  BY <1>1, Invariance, PTL

\* Every byte of a buffered reader was in the file, at its place, after the
\* size was taken, whatever other programs do to the file (io.cc:85-91).
THEOREM BuffersHoldTheFile == Spec => []BufferFromFile
<1>1. IInv => BufferFromFile
  BY DEF IInv, TypeOK, BytesFromFile, BufferFromFile
<1> QED
  BY <1>1, Invariance, PTL

\* A file nobody rewrites is answered as it is, by either reader, for every
\* range (io.cc:106-120, mmap_posix.cc:75-101).
THEOREM ReadersAnswerTheFile == Spec => []AnswersAreFile
<1>1. IInv => AnswersAreFile
  BY DEF IInv
<1> QED
  BY <1>1, Invariance, PTL

\* On Windows a mapped reader sees one content and is never killed
\* (mmap_windows.cc:31-39, 50-68).
THEOREM WindowsMappingsAreStable == Spec => []MappingIsStable
<1>1. ASSUME IInv PROVE MappingIsStable
  <2> SUFFICES ASSUME platform = "windows", mapped, pc = "ready", answer.result = "Ok"
               PROVE  /\ answer.offset + answer.length <= Len(file)
                      /\ answer.data = SubSeq(file, answer.offset + 1, answer.offset + answer.length)
    BY <1>1 DEF IInv, LockHolds, MappingIsStable
  <2>1. seen = {file} /\ answer.op \in {"read_all", "read_range"} /\ ~NoData
    BY <1>1 DEF IInv, LockHolds, AnswerFits
  <2>2. file \in Seq(Nat) /\ Len(file) \in Nat /\ size = Len(file)
    BY <1>1, <2>1, ContentsTyped DEF IInv, TypeOK, SizeFromFile
  <2>3. CASE answer.op = "read_all"
    <3>1. answer.data = file /\ answer.offset = 0 /\ answer.length = Len(file)
      BY <1>1, <2>1, <2>2, <2>3 DEF IInv, AnswersAreFile, AnswerFits
    <3>2. answer.offset + 1 = 1 /\ answer.offset + answer.length = Len(file)
      BY <2>2, <3>1
    <3> QED
      BY <2>2, <3>1, <3>2, SubSeqFull
  <2>4. CASE answer.op = "read_range"
    BY <1>1, <2>1, <2>4 DEF IInv, AnswersAreFile
  <2> QED
    BY <2>1, <2>3, <2>4
<1> QED
  BY <1>1, Invariance, PTL
=============================================================================
