------------------------------ MODULE IPSProofs ------------------------------
(***************************************************************************)
(* Theorems about the IPS format: for every base, every patch and every    *)
(* source, what apply makes is the source overwritten by the records, the  *)
(* last one winning, as long as get_metadata says; applying the patch      *)
(* twice is applying it once; and the records, encoded again, are exactly  *)
(* the bytes the parser read.                                              *)
(***************************************************************************)
EXTENDS IPSInv, SequenceTheorems, WellFoundedInduction, TLAPS

-----------------------------------------------------------------------------
(***************************************************************************)
(* Numbers read from the patch                                             *)
(***************************************************************************)

\* Numbers of two and three digits stay below the power of the base.
LEMMA TwoDigits ==
    ASSUME NEW B \in Nat \ {0, 1}, NEW a \in 0 .. B - 1, NEW b \in 0 .. B - 1
    PROVE  a * B + b \in 0 .. B * B - 1
<1>1. a * B <= (B - 1) * B
  OBVIOUS
<1>2. (B - 1) * B = B * B - B
  OBVIOUS
<1>3. a * B \in Nat /\ B * B \in Nat
  OBVIOUS
<1> QED
  BY <1>1, <1>2, <1>3

\* The same for three digits.
LEMMA ThreeDigits ==
    ASSUME NEW B \in Nat \ {0, 1}, NEW a \in 0 .. B - 1, NEW n \in 0 .. B * B - 1
    PROVE  a * B * B + n \in 0 .. B * B * B - 1
<1> DEFINE S == B * B
<1>1. S \in Nat
  OBVIOUS
<1>2. a * B * B = a * S /\ B * B * B = B * S
  OBVIOUS
<1>3. a * S <= (B - 1) * S /\ (B - 1) * S = B * S - S /\ a * S \in Nat /\ B * S \in Nat
  <2> HIDE DEF S
  <2> QED BY <1>1
<1> QED
  BY <1>1, <1>2, <1>3

\* A byte inside the patch is a byte, two and three of them a number of
\* their width.
LEMMA NumbersRead ==
    ASSUME TypeOK, NEW o \in Nat
    PROVE  /\ o + 1 <= Len(patch) => ByteAt(o) \in Byte
           /\ o + 2 <= Len(patch) => Be2(o) \in 0 .. Base * Base - 1
           /\ o + 3 <= Len(patch) => Be3(o) \in 0 .. Base * Base * Base - 1
<1>1. ASSUME NEW p \in Nat, p + 1 <= Len(patch)
      PROVE  ByteAt(p) \in Byte
  <2>1. patch \in Seq(Byte)
    BY DEF TypeOK
  <2> QED
    BY <1>1, <2>1 DEF ByteAt
<1>2. ASSUME NEW p \in Nat, p + 2 <= Len(patch)
      PROVE  Be2(p) \in 0 .. Base * Base - 1
  <2>1. Len(patch) \in Nat
    BY DEF TypeOK
  <2>2. ByteAt(p) \in 0 .. Base - 1 /\ ByteAt(p + 1) \in 0 .. Base - 1
    BY <1>1, <1>2, <2>1 DEF Byte
  <2> QED
    BY <2>2, TwoDigits, IPSAssumption DEF Be2
<1>3. ASSUME o + 3 <= Len(patch)
      PROVE  Be3(o) \in 0 .. Base * Base * Base - 1
  <2>1. Len(patch) \in Nat
    BY DEF TypeOK
  <2>2. ByteAt(o) \in 0 .. Base - 1 /\ Be2(o + 1) \in 0 .. Base * Base - 1
    BY <1>1, <1>2, <1>3, <2>1 DEF Byte
  <2> QED
    BY <2>2, ThreeDigits, IPSAssumption DEF Be3
<1> QED
  BY <1>1, <1>2, <1>3

\* What the parser appends is a record of the declared widths.
LEMMA RleRecordTyped ==
    ASSUME TypeOK, offset + 8 <= Len(patch)
    PROVE  RleRecord \in Record /\ RleRecord.is_rle
<1>1. offset \in Nat /\ Len(patch) \in Nat
  BY DEF TypeOK
<1>2. /\ Be3(offset) \in 0 .. Base * Base * Base - 1
      /\ Be2(offset + 5) \in 0 .. Base * Base - 1
      /\ ByteAt(offset + 7) \in Byte
  BY <1>1, NumbersRead
<1>3. 0 \in 0 .. Base * Base - 1 /\ <<>> \in Seq(Byte)
  <2>1. Base * Base \in Nat \ {0}
    BY IPSAssumption
  <2> QED BY <2>1
<1> QED
  BY <1>2, <1>3 DEF RleRecord, Record

\* The same for a record with data, whose length is its size.
LEMMA DataRecordTyped ==
    ASSUME TypeOK, offset + 5 <= Len(patch), DataEnd(offset, Be2(offset + 3)) <= Len(patch)
    PROVE  DataRecord \in Record /\ Len(DataRecord.data) = DataRecord.size
<1> DEFINE n == Be2(offset + 3)
<1>1. offset \in Nat /\ Len(patch) \in Nat /\ patch \in Seq(Byte)
  BY DEF TypeOK
<1>2. Be3(offset) \in 0 .. Base * Base * Base - 1 /\ n \in 0 .. Base * Base - 1
  BY <1>1, NumbersRead
<1>3. 0 \in 0 .. Base * Base - 1 /\ 0 \in Byte
  <2>1. Base * Base \in Nat \ {0}
    BY IPSAssumption
  <2>2. 0 \in Byte
    BY IPSAssumption DEF Byte
  <2> QED BY <2>1, <2>2
<1>4. n \in Nat /\ offset + 5 + n <= Len(patch)
  BY <1>2, IPSAssumption DEF DataEnd
<1>5. SubSeq(patch, offset + 6, offset + 5 + n) \in Seq(Byte)
      /\ Len(SubSeq(patch, offset + 6, offset + 5 + n)) = n
  <2> HIDE DEF n
  <2> QED BY <1>1, <1>4
<1> QED
  BY <1>2, <1>3, <1>5 DEF DataRecord, Record

-----------------------------------------------------------------------------
(***************************************************************************)
(* Records and the bytes they write                                        *)
(***************************************************************************)

\* The bytes a record covers in apply are those its BytesOf names, and apply
\* puts there what BytesOf says.
LEMMA RecordBytes ==
    ASSUME NEW r \in Record, r.is_rle \/ Len(r.data) = r.size
    PROVE  /\ r.offset \in Nat /\ RunLength(r) \in Nat /\ End(r) = r.offset + RunLength(r)
           /\ Len(BytesOf(r)) = RunLength(r)
           /\ \A i \in Nat : Covers(r, i) <=> Hits(r, i)
           /\ \A i \in Nat : Hits(r, i) =>
                 /\ ValueAt(r, i) = BytesOf(r)[i - r.offset]
                 /\ ValueAt(r, i) \in Byte
                 /\ i <= End(r)
<1>1. /\ r.offset \in Nat /\ r.size \in Nat /\ r.rle_size \in Nat
      /\ r.rle_value \in Byte /\ r.data \in Seq(Byte) /\ r.is_rle \in BOOLEAN
  BY IPSAssumption DEF Record
<1>2. RunLength(r) \in Nat
  BY <1>1 DEF RunLength
<1>3. DOMAIN BytesOf(r) = 1 .. RunLength(r) /\ Len(BytesOf(r)) = RunLength(r)
  <2>1. CASE r.is_rle
    BY <2>1, <1>1 DEF BytesOf, RunLength
  <2>2. CASE ~r.is_rle
    BY <2>2, <1>1 DEF BytesOf, RunLength
  <2> QED BY <2>1, <2>2
<1>4. ASSUME NEW i \in Nat
      PROVE  Covers(r, i) <=> Hits(r, i)
  BY <1>1, <1>2, <1>3 DEF Covers, Hits, End
<1>5. ASSUME NEW i \in Nat, Hits(r, i)
      PROVE  /\ ValueAt(r, i) = BytesOf(r)[i - r.offset]
             /\ ValueAt(r, i) \in Byte
             /\ i <= End(r)
  <2>1. i - r.offset \in 1 .. RunLength(r)
    BY <1>3, <1>5 DEF Hits
  <2>2. i <= End(r)
    BY <2>1, <1>1, <1>2 DEF End
  <2>3. CASE r.is_rle
    BY <2>1, <2>2, <2>3, <1>1 DEF BytesOf, RunLength, ValueAt
  <2>4. CASE ~r.is_rle
    BY <2>1, <2>2, <2>4, <1>1 DEF BytesOf, RunLength, ValueAt
  <2> QED BY <2>3, <2>4
<1> QED
  BY <1>1, <1>2, <1>3, <1>4, <1>5 DEF End

\* Growing keeps the bytes there are and appends zeroes.
LEMMA GrownBytes ==
    ASSUME NEW out \in Seq(Byte), NEW n \in Nat
    PROVE  /\ Grown(out, n) \in Seq(Byte)
           /\ Len(Grown(out, n)) = IF n > Len(out) THEN n ELSE Len(out)
           /\ \A i \in 1 .. Len(Grown(out, n)) :
                 Grown(out, n)[i] = IF i <= Len(out) THEN out[i] ELSE 0
<1>1. 0 \in Byte
  BY IPSAssumption DEF Byte
<1>2. CASE n > Len(out)
  <2> DEFINE g == [i \in 1 .. n |-> IF i <= Len(out) THEN out[i] ELSE 0]
  <2>1. \A i \in 1 .. n : (IF i <= Len(out) THEN out[i] ELSE 0) \in Byte
    BY <1>1
  <2>2. g \in Seq(Byte) /\ Len(g) = n
    BY <2>1
  <2>3. Grown(out, n) = g
    BY <1>2 DEF Grown
  <2> QED
    BY <1>2, <2>2, <2>3
<1>3. CASE ~(n > Len(out))
  BY <1>3 DEF Grown
<1> QED
  BY <1>2, <1>3

\* Writing a record keeps the length and changes the bytes it hits.
LEMMA WrittenBytes ==
    ASSUME NEW out \in Seq(Byte), NEW r \in Record, r.is_rle \/ Len(r.data) = r.size
    PROVE  /\ Written(out, r) \in Seq(Byte)
           /\ Len(Written(out, r)) = Len(out)
           /\ \A i \in 1 .. Len(out) :
                 Written(out, r)[i] =
                    IF Hits(r, i) THEN BytesOf(r)[i - r.offset] ELSE out[i]
<1> DEFINE v(i) == IF Covers(r, i) THEN ValueAt(r, i) ELSE out[i]
<1>1. \A i \in 1 .. Len(out) :
        /\ v(i) \in Byte
        /\ v(i) = IF Hits(r, i) THEN BytesOf(r)[i - r.offset] ELSE out[i]
  BY RecordBytes
<1>2. Written(out, r) = [i \in 1 .. Len(out) |-> v(i)]
  BY DEF Written
<1> HIDE DEF v
<1>3. [i \in 1 .. Len(out) |-> v(i)] \in Seq(Byte) /\ Len([i \in 1 .. Len(out) |-> v(i)]) = Len(out)
  BY <1>1
<1> QED
  BY <1>1, <1>2, <1>3

-----------------------------------------------------------------------------
(***************************************************************************)
(* The inductive invariant                                                 *)
(***************************************************************************)

\* Every record of the invariant writes what its BytesOf says.
LEMMA RecordOf ==
    ASSUME TypeOK, NEW k \in 1 .. Len(records)
    PROVE  /\ records[k] \in Record
           /\ records[k].is_rle \/ Len(records[k].data) = records[k].size
BY DEF TypeOK

\* The invariant holds before anything is loaded.
LEMMA BlankHolds ==
    ASSUME patch \in Seq(Byte), source \in Seq(Byte),
           pc = "load", offset = 0, records = <<>>, is_ips32_format = FALSE,
           next = 1, output = <<>>, first = <<>>, error = "none"
    PROVE  IInv
<1>1. TypeOK
  <2>1. records \in Seq(Record) /\ DOMAIN records = {}
    OBVIOUS
  <2>2. output \in Seq(Byte) /\ first \in Seq(Seq(Byte))
    OBVIOUS
  <2>3. is_ips32_format \in BOOLEAN
    OBVIOUS
  <2> QED
    BY <2>1, <2>2, <2>3 DEF TypeOK
<1> QED
  BY <1>1 DEF IInv, Ranges, LastWriterWins, LengthLaw, History

\* So it does at the start.
LEMMA InitHolds == Init => IInv
BY BlankHolds, IPSAssumption DEF Init

\* A step that only parses leaves pc out of "apply" and "done".
LEMMA ParsingHolds ==
    ASSUME IInv, TypeOK', UNCHANGED applying, pc \in {"load", "parse"},
           pc' \in {"load", "parse", "failed"}
    PROVE  IInv'
<1>1. first' = <<>>
  BY DEF IInv, History, applying
<1> QED
  BY <1>1 DEF IInv, Ranges, LastWriterWins, LengthLaw, History

\* load: the header is refused, or parsing begins.
LEMMA LoadHolds == IInv /\ Load => IInv'
<1> SUFFICES ASSUME IInv, Load PROVE IInv'
  OBVIOUS
<1>1. TypeOK'
  BY DEF IInv, Ranges, TypeOK, Load, Fail, applying, Errors
<1> QED
  BY <1>1, ParsingHolds DEF Load, Fail

\* A truncated record ends the load.
LEMMA ParseTruncatedHolds == IInv /\ ParseTruncated => IInv'
<1> SUFFICES ASSUME IInv, ParseTruncated PROVE IInv'
  OBVIOUS
<1>1. TypeOK'
  BY DEF IInv, Ranges, TypeOK, ParseTruncated, Fail, parsing, applying, Errors
<1> QED
  BY <1>1, ParsingHolds DEF ParseTruncated, Fail

\* A typed record may be appended.
LEMMA AppendHolds ==
    ASSUME IInv, NEW r \in Record, r.is_rle \/ Len(r.data) = r.size,
           pc = "parse", records' = Append(records, r), offset' \in Nat,
           UNCHANGED <<patch, pc, is_ips32_format, applying, error>>
    PROVE  IInv'
<1>1. TypeOK
  BY DEF IInv, Ranges
<1>2. records \in Seq(Record) /\ records' \in Seq(Record)
  BY <1>1 DEF TypeOK
<1>3. \A i \in DOMAIN records' : records'[i].is_rle \/ Len(records'[i].data) = records'[i].size
  <2> SUFFICES ASSUME NEW i \in DOMAIN records'
               PROVE  records'[i].is_rle \/ Len(records'[i].data) = records'[i].size
    OBVIOUS
  <2>1. CASE i = Len(records) + 1
    BY <2>1, <1>2
  <2>2. CASE i \in 1 .. Len(records)
    <3>1. records'[i] = records[i]
      BY <2>2, <1>2
    <3> QED BY <3>1, <2>2, <1>1, RecordOf
  <2> QED
    BY <2>1, <2>2, <1>2
<1>4. TypeOK'
  BY <1>1, <1>2, <1>3 DEF TypeOK, applying
<1> QED
  BY <1>4, ParsingHolds

\* A run is parsed.
LEMMA ParseRleHolds == IInv /\ ParseRle => IInv'
<1> SUFFICES ASSUME IInv, ParseRle PROVE IInv'
  OBVIOUS
<1>1. TypeOK /\ offset \in Nat
  BY DEF IInv, Ranges, TypeOK
<1>2. offset + 8 <= Len(patch)
  BY <1>1 DEF ParseRle, RleSize
<1>3. RleRecord \in Record /\ RleRecord.is_rle
  BY <1>1, <1>2, RleRecordTyped
<1>4. offset' \in Nat
  BY <1>1 DEF ParseRle, RleSize
<1> QED
  BY <1>3, <1>4, AppendHolds DEF ParseRle

\* A record with data is parsed.
LEMMA ParseDataHolds == IInv /\ ParseData => IInv'
<1> SUFFICES ASSUME IInv, ParseData PROVE IInv'
  OBVIOUS
<1>1. TypeOK /\ offset \in Nat /\ offset + 5 <= Len(patch)
  BY DEF IInv, Ranges, TypeOK, ParseData
<1>2. DataRecord \in Record /\ Len(DataRecord.data) = DataRecord.size
  BY <1>1, DataRecordTyped DEF ParseData
<1>3. offset' \in Nat
  <2>1. offset + 3 \in Nat /\ offset + 3 + 2 <= Len(patch)
    BY <1>1 DEF TypeOK
  <2>2. Be2(offset + 3) \in 0 .. Base * Base - 1
    BY <1>1, <2>1, NumbersRead
  <2>3. Be2(offset + 3) \in Nat
    BY <2>2, IPSAssumption
  <2> QED
    BY <1>1, <2>3 DEF ParseData, DataEnd
<1> QED
  BY <1>2, <1>3, AppendHolds DEF ParseData

\* An application starts with the source and no record played.
LEMMA StartHolds ==
    ASSUME TypeOK, TypeOK', pc' = "apply", next' = 1, output' = source', UNCHANGED records,
           first' = first, first = <<>> \/ (Len(first) = 1 /\ Settled(first[1]) /\ source' = first[1])
    PROVE  IInv'
<1>1. Len(records) \in Nat /\ Len(source') \in Nat
  BY DEF TypeOK
<1>2. Ranges'
  BY <1>1 DEF Ranges
<1>3. LastWriterWins'
  BY <1>1 DEF LastWriterWins, TypeOK
<1>4. LengthLaw'
  <2>1. 1 .. next' - 1 = {}
    OBVIOUS
  <2> QED
    BY <1>1, <2>1 DEF LengthLaw
<1>5. History'
  BY DEF History, Settled, Hits, BytesOf, End, RunLength
<1> QED
  BY <1>2, <1>3, <1>4, <1>5 DEF IInv

\* The end of the records: the first application starts.
LEMMA StartApplyHolds ==
    ASSUME IInv, pc = "parse", StartApply, is_ips32_format' \in BOOLEAN
    PROVE  IInv'
<1>1. TypeOK /\ first = <<>>
  BY DEF IInv, Ranges, History
<1>2. TypeOK'
  BY <1>1 DEF StartApply, TypeOK
<1>3. /\ pc' = "apply" /\ next' = 1 /\ output' = source' /\ UNCHANGED records
      /\ first' = first
  BY DEF StartApply
<1> QED
  BY <1>1, <1>2, <1>3, StartHolds

\* The end marker was read.
LEMMA ParseEofHolds == IInv /\ ParseEof => IInv'
<1>1. (offset + 3 + 4 <= Len(patch)) \in BOOLEAN
  OBVIOUS
<1>2. ParseEof => is_ips32_format' \in BOOLEAN
  BY <1>1, Zenon DEF ParseEof
<1> QED
  BY <1>2, StartApplyHolds, Zenon DEF ParseEof

\* The patch ended without a marker.
LEMMA ParseEndHolds == IInv /\ ParseEnd => IInv'
<1>1. IInv /\ ParseEnd => is_ips32_format' \in BOOLEAN
  BY Zenon DEF ParseEnd, IInv, Ranges, TypeOK
<1> QED
  BY <1>1, StartApplyHolds, Zenon DEF ParseEnd

\* A second application starts from the first result.
LEMMA RestartHolds ==
    ASSUME IInv, pc = "done", pc' = "apply", source' = output, next' = 1,
           UNCHANGED <<parsing, output, first, error>>
    PROVE  IInv'
<1>1. TypeOK
  BY DEF IInv, Ranges
<1>2. TypeOK'
  BY <1>1 DEF TypeOK, parsing
<1>3. Len(first) = 1 /\ Settled(first[1]) /\ source' = first[1]
  BY DEF IInv, History
<1> QED
  BY <1>1, <1>2, <1>3, StartHolds DEF parsing

\* ApplyAgain starts one.
LEMMA ApplyAgainHolds == IInv /\ ApplyAgain => IInv'
BY RestartHolds DEF ApplyAgain

\* Playing the next record keeps LastWriterWins: it wins wherever it hits, and
\* elsewhere the bytes, the old ones and the zeroes behind them, stay.
LEMMA ApplyRecordWins ==
    ASSUME IInv, ApplyRecord
    PROVE  LastWriterWins' /\ LengthLaw' /\ TypeOK'
<1> DEFINE r == records[next]
           grown == Grown(output, End(r))
<1>1. /\ TypeOK /\ pc = "apply" /\ pc' = "apply" /\ next' = next + 1
      /\ records' = records /\ source' = source
      /\ output' = Written(grown, r)
  BY DEF IInv, Ranges, ApplyRecord, parsing
<1>2. /\ next \in 1 .. Len(records) /\ Len(records) \in Nat
      /\ source \in Seq(Byte) /\ output \in Seq(Byte)
  BY <1>1 DEF ApplyRecord, TypeOK
<1>3. \A k \in 1 .. Len(records) :
        /\ records[k] \in Record
        /\ records[k].is_rle \/ Len(records[k].data) = records[k].size
  BY <1>1, RecordOf
<1>4. \A k \in 1 .. Len(records) :
        /\ records[k].offset \in Nat /\ End(records[k]) \in Nat
        /\ End(records[k]) = records[k].offset + Len(BytesOf(records[k]))
        /\ \A i \in Nat : Hits(records[k], i) => i <= End(records[k])
  BY <1>3, RecordBytes
<1>5. /\ grown \in Seq(Byte)
      /\ Len(grown) = IF End(r) > Len(output) THEN End(r) ELSE Len(output)
      /\ \A i \in 1 .. Len(grown) : grown[i] = IF i <= Len(output) THEN output[i] ELSE 0
  BY <1>2, <1>4, GrownBytes
<1>6. /\ output' \in Seq(Byte) /\ Len(output') = Len(grown)
      /\ \A i \in 1 .. Len(output') :
            output'[i] = IF Hits(r, i) THEN BytesOf(r)[i - r.offset] ELSE grown[i]
  <2>1. r \in Record /\ (r.is_rle \/ Len(r.data) = r.size)
    BY <1>2, <1>3
  <2> HIDE DEF r, grown
  <2> QED
    BY <1>1, <1>5, <2>1, WrittenBytes
<1> HIDE DEF grown
<1>7. /\ Len(source) <= Len(output)
      /\ \A k \in 1 .. next - 1 : End(records[k]) <= Len(output)
      /\ \A i \in 1 .. Len(output) :
           \/ \E k \in 1 .. next - 1 :
                 /\ Hits(records[k], i)
                 /\ \A j \in k + 1 .. next - 1 : ~Hits(records[j], i)
                 /\ output[i] = BytesOf(records[k])[i - records[k].offset]
           \/ /\ \A k \in 1 .. next - 1 : ~Hits(records[k], i)
              /\ output[i] = IF i <= Len(source) THEN source[i] ELSE 0
  <2>1. LastWriterWins
    BY DEF IInv
  <2>2. Len(source) <= Len(output)
    BY <1>1, <2>1 DEF LastWriterWins
  <2>3. ASSUME NEW k \in 1 .. next - 1
        PROVE  End(records[k]) <= Len(output)
    <3>1. records[k].offset + Len(BytesOf(records[k])) <= Len(output)
      BY <1>1, <2>1 DEF LastWriterWins
    <3>2. k \in 1 .. Len(records)
      BY <1>2
    <3> QED
      BY <1>4, <3>1, <3>2
  <2>4. DOMAIN output = 1 .. Len(output)
    BY <1>2
  <2> QED
    BY <1>1, <2>1, <2>2, <2>3, <2>4 DEF LastWriterWins
<1>8. \A k \in 1 .. next : End(records[k]) <= Len(output')
  <2> SUFFICES ASSUME NEW k \in 1 .. next PROVE End(records[k]) <= Len(output')
    OBVIOUS
  <2>1. Len(output) \in Nat /\ End(r) \in Nat
    BY <1>2, <1>4
  <2>2. CASE k = next
    BY <1>5, <1>6, <2>1, <2>2
  <2>3. CASE k \in 1 .. next - 1
    <3>1. End(records[k]) <= Len(output) /\ End(records[k]) \in Nat
      BY <1>2, <1>4, <1>7, <2>3
    <3> QED
      BY <1>5, <1>6, <2>1, <3>1
  <2> QED
    BY <1>2, <2>2, <2>3
<1>9. ASSUME NEW i \in 1 .. Len(output')
      PROVE  \/ \E k \in 1 .. next :
                   /\ Hits(records[k], i)
                   /\ \A j \in k + 1 .. next : ~Hits(records[j], i)
                   /\ output'[i] = BytesOf(records[k])[i - records[k].offset]
             \/ /\ \A k \in 1 .. next : ~Hits(records[k], i)
                /\ output'[i] = IF i <= Len(source) THEN source[i] ELSE 0
  <2>1. CASE Hits(r, i)
    <3>1. \A j \in next + 1 .. next : ~Hits(records[j], i)
      BY <1>2
    <3>2. output'[i] = BytesOf(r)[i - r.offset]
      BY <1>6, <2>1
    <3> QED
      BY <1>2, <2>1, <3>1, <3>2
  <2>2. CASE ~Hits(r, i) /\ i <= Len(output)
    <3>1. output'[i] = output[i] /\ i \in 1 .. Len(output)
      BY <1>2, <1>5, <1>6, <2>2
    <3>2. CASE \A k \in 1 .. next - 1 : ~Hits(records[k], i)
      <4>1. \A k \in 1 .. next : ~Hits(records[k], i)
        BY <1>2, <2>2, <3>2
      <4> QED
        BY <1>7, <3>1, <3>2, <4>1
    <3>3. CASE \E k \in 1 .. next - 1 : Hits(records[k], i)
      <4>1. PICK k \in 1 .. next - 1 :
                   /\ Hits(records[k], i)
                   /\ \A j \in k + 1 .. next - 1 : ~Hits(records[j], i)
                   /\ output[i] = BytesOf(records[k])[i - records[k].offset]
        BY <1>7, <3>1, <3>3
      <4>2. \A j \in k + 1 .. next : ~Hits(records[j], i)
        BY <1>2, <2>2, <4>1
      <4>3. k \in 1 .. next
        BY <1>2
      <4> QED
        BY <3>1, <4>1, <4>2, <4>3
    <3> QED
      BY <3>2, <3>3
  <2>3. CASE ~Hits(r, i) /\ i > Len(output)
    <3>1. output'[i] = 0 /\ ~(i <= Len(source))
      BY <1>2, <1>5, <1>6, <1>7, <2>3
    <3>2. ASSUME NEW k \in 1 .. next PROVE ~Hits(records[k], i)
      <4>1. CASE k = next
        BY <2>3, <4>1
      <4>2. CASE k \in 1 .. next - 1
        <5>1. End(records[k]) <= Len(output) /\ k \in 1 .. Len(records)
          BY <1>2, <1>7, <4>2
        <5>2. Hits(records[k], i) => i <= End(records[k])
          BY <1>4, <5>1
        <5>3. End(records[k]) \in Nat /\ Len(output) \in Nat
          BY <1>2, <1>4, <5>1
        <5> QED
          BY <2>3, <5>1, <5>2, <5>3
      <4> QED
        BY <1>2, <4>1, <4>2
    <3> QED
      BY <3>1, <3>2
  <2>4. i <= Len(output) \/ i > Len(output)
    <3>1. i \in Int /\ Len(output) \in Int
      BY <1>2
    <3> QED BY <3>1
  <2> QED
    BY <2>1, <2>2, <2>3, <2>4, Zenon
<1>10. LastWriterWins'
  <2>1. next' - 1 = next /\ DOMAIN output' = 1 .. Len(output')
    BY <1>1, <1>2, <1>6
  <2>2. Len(source) <= Len(output')
    BY <1>2, <1>5, <1>6, <1>7, <1>4
  <2>3. \A k \in 1 .. next : records[k].offset + Len(BytesOf(records[k])) <= Len(output')
    BY <1>2, <1>4, <1>8
  <2> QED
    BY <1>1, <1>9, <2>1, <2>2, <2>3 DEF LastWriterWins, Hits, BytesOf
<1>11. LengthLaw'
  <2>1. PICK m \in {End(records[k]) : k \in 1 .. next - 1} \union {0} :
            /\ \A k \in 1 .. next - 1 : End(records[k]) <= m
            /\ Len(output) = IF m > Len(source) THEN m ELSE Len(source)
    BY <1>1 DEF IInv, LengthLaw
  <2>2. m \in Nat
    BY <1>2, <1>4, <2>1
  <2> DEFINE n == IF End(r) > m THEN End(r) ELSE m
  <2>3. n \in {End(records[k]) : k \in 1 .. next} \union {0}
    BY <1>2, <2>1
  <2>4. \A k \in 1 .. next : End(records[k]) <= n
    BY <1>2, <1>4, <2>1, <2>2
  <2>5. Len(output') = IF n > Len(source) THEN n ELSE Len(source)
    BY <1>2, <1>4, <1>5, <1>6, <2>1, <2>2
  <2> HIDE DEF n
  <2>6. next' - 1 = next
    BY <1>1, <1>2
  <2> QED
    BY <1>1, <2>3, <2>4, <2>5, <2>6 DEF LengthLaw, End, RunLength
<1>12. TypeOK'
  BY <1>1, <1>2, <1>6 DEF ApplyRecord, parsing, TypeOK
<1> QED
  BY <1>10, <1>11, <1>12

\* Playing a record keeps the invariant.
LEMMA ApplyRecordHolds == IInv /\ ApplyRecord => IInv'
<1> SUFFICES ASSUME IInv, ApplyRecord PROVE IInv'
  OBVIOUS
<1>1. LastWriterWins' /\ LengthLaw' /\ TypeOK'
  BY ApplyRecordWins
<1>2. Ranges'
  <2>1. next \in Nat /\ Len(records) \in Nat
    BY DEF IInv, Ranges, TypeOK
  <2> QED
    BY <1>1, <2>1 DEF Ranges, ApplyRecord, parsing
<1>3. History'
  BY DEF IInv, History, ApplyRecord, parsing, Settled, Hits, BytesOf, End, RunLength
<1> QED
  BY <1>1, <1>2, <1>3 DEF IInv

\* Once all records are played, the output has settled.
LEMMA PlayedIsSettled ==
    ASSUME TypeOK, LastWriterWins, pc = "apply", next = Len(records) + 1
    PROVE  Settled(output)
<1>1. next - 1 = Len(records) /\ Len(records) \in Nat
  BY DEF TypeOK
<1>2. ASSUME NEW k \in 1 .. Len(records)
      PROVE  End(records[k]) <= Len(output)
  <2>1. End(records[k]) = records[k].offset + Len(BytesOf(records[k]))
    BY RecordOf, RecordBytes
  <2> QED
    BY <1>1, <2>1 DEF LastWriterWins
<1>3. ASSUME NEW i \in DOMAIN output, NEW k \in 1 .. Len(records),
             Hits(records[k], i), \A j \in k + 1 .. Len(records) : ~Hits(records[j], i)
      PROVE  output[i] = BytesOf(records[k])[i - records[k].offset]
  <2>1. PICK n \in 1 .. Len(records) :
               /\ Hits(records[n], i)
               /\ \A j \in n + 1 .. Len(records) : ~Hits(records[j], i)
               /\ output[i] = BytesOf(records[n])[i - records[n].offset]
    BY <1>1, <1>3 DEF LastWriterWins
  <2>2. k = n
    <3>1. ~(k < n) /\ ~(n < k)
      BY <1>1, <1>3, <2>1
    <3> QED
      BY <1>1, <3>1
  <2> QED
    BY <2>1, <2>2
<1> QED
  BY <1>2, <1>3 DEF Settled

\* Played over something that has settled, the records change nothing.
LEMMA SettledStays ==
    ASSUME IInv, pc = "apply", next = Len(records) + 1, Settled(source)
    PROVE  output = source
<1>1. TypeOK /\ LastWriterWins
  BY DEF IInv, Ranges
<1>2. /\ next - 1 = Len(records) /\ Len(records) \in Nat
      /\ source \in Seq(Byte) /\ output \in Seq(Byte)
  BY <1>1 DEF TypeOK
<1>3. Len(output) = Len(source)
  <2>1. PICK m \in {End(records[k]) : k \in 1 .. Len(records)} \union {0} :
            Len(output) = IF m > Len(source) THEN m ELSE Len(source)
    BY <1>2 DEF IInv, LengthLaw
  <2>2. m <= Len(source)
    BY <1>2, <2>1 DEF Settled
  <2>3. m \in Nat
    BY <2>1, <1>1, RecordOf, RecordBytes
  <2> QED
    BY <1>2, <2>1, <2>2, <2>3
<1>4. ASSUME NEW i \in 1 .. Len(output)
      PROVE  output[i] = source[i]
  <2>1. i \in DOMAIN output /\ i \in DOMAIN source /\ i <= Len(source)
    BY <1>2, <1>3
  <2>2. CASE \A k \in 1 .. Len(records) : ~Hits(records[k], i)
    BY <1>1, <1>2, <2>1, <2>2 DEF LastWriterWins
  <2>3. CASE ~(\A k \in 1 .. Len(records) : ~Hits(records[k], i))
    <3>1. PICK k \in 1 .. Len(records) :
                 /\ Hits(records[k], i)
                 /\ \A j \in k + 1 .. Len(records) : ~Hits(records[j], i)
                 /\ output[i] = BytesOf(records[k])[i - records[k].offset]
      BY <1>1, <1>2, <2>1, <2>3 DEF LastWriterWins
    <3>2. source[i] = BytesOf(records[k])[i - records[k].offset]
      BY <2>1, <3>1 DEF Settled
    <3> QED
      BY <3>1, <3>2
  <2> QED
    BY <2>2, <2>3
<1> QED
  BY <1>2, <1>3, <1>4

\* The first result has settled; a second one equals it.
LEMMA FinishHolds == IInv /\ Finish => IInv'
<1> SUFFICES ASSUME IInv, Finish PROVE IInv'
  OBVIOUS
<1>1. /\ TypeOK /\ pc = "apply" /\ pc' = "done"
      /\ output' = output /\ source' = source /\ next' = next /\ records' = records
      /\ first' = IF first = <<>> THEN <<output>> ELSE first
  BY DEF IInv, Ranges, Finish, parsing
<1>2. next = Len(records) + 1
  BY <1>1 DEF IInv, Ranges, Finish, TypeOK
<1>3. output \in Seq(Byte) /\ first \in Seq(Seq(Byte))
  BY <1>1 DEF TypeOK
<1>4. first' \in Seq(Seq(Byte)) /\ first' # <<>> /\ output = first'[1]
      /\ Len(first') = 1 /\ Settled(first'[1])
  <2>1. CASE first = <<>>
    <3>1. Settled(output)
      BY <1>1, <1>2, PlayedIsSettled DEF IInv
    <3>2. first' = <<output>>
      BY <1>1, <2>1
    <3> QED
      BY <1>3, <3>1, <3>2
  <2>2. CASE first # <<>>
    <3>1. Len(first) = 1 /\ Settled(first[1]) /\ source = first[1]
      BY <1>1, <2>2 DEF IInv, History
    <3>2. output = source
      BY <1>1, <1>2, <3>1, SettledStays
    <3> QED
      BY <1>1, <1>3, <2>2, <3>1, <3>2
  <2> QED
    BY <2>1, <2>2
<1>5. TypeOK'
  BY <1>1, <1>4 DEF Finish, parsing, TypeOK
<1>6. Ranges'
  BY <1>1, <1>2, <1>5 DEF Ranges
<1>7. LastWriterWins' /\ LengthLaw'
  BY <1>1 DEF IInv, LastWriterWins, LengthLaw, Hits, BytesOf, End, RunLength
<1>8. History'
  <2>1. Settled(first[1])'
    <3>1. records' = records /\ Settled(first'[1])
      BY <1>1, <1>4
    <3> QED
      BY <3>1 DEF Settled, Hits, BytesOf, End, RunLength
  <2> QED
    BY <1>1, <1>4, <2>1 DEF History
<1> QED
  BY <1>6, <1>7, <1>8 DEF IInv

\* The invariant does not depend on which error there was.
LEMMA ErrorHolds ==
    ASSUME IInv, error' \in {error, "none"},
           UNCHANGED <<parsing, pc, applying>>
    PROVE  IInv'
<1> USE DEF parsing, applying
<1>1. TypeOK'
  BY DEF IInv, Ranges, TypeOK
<1>2. Ranges'
  BY <1>1 DEF IInv, Ranges
<1>3. LastWriterWins' /\ LengthLaw'
  BY DEF IInv, LastWriterWins, LengthLaw, Hits, BytesOf, End, RunLength
<1>4. History'
  BY DEF IInv, History, Settled, Hits, BytesOf, End, RunLength
<1> QED
  BY <1>2, <1>3, <1>4 DEF IInv

\* It depends on nothing but the variables.
LEMMA StutterHolds == IInv /\ UNCHANGED vars => IInv'
<1> SUFFICES ASSUME IInv, UNCHANGED vars PROVE IInv'
  OBVIOUS
<1> QED
  BY ErrorHolds DEF vars, parsing, applying

\* Every step keeps the invariant.
LEMMA StepHolds == IInv /\ [Next]_vars => IInv'
<1> SUFFICES ASSUME IInv, [Next]_vars PROVE IInv'
  OBVIOUS
<1>1. CASE Load
  BY <1>1, LoadHolds
<1>2. CASE ParseEof
  BY <1>2, ParseEofHolds
<1>3. CASE ParseEnd
  BY <1>3, ParseEndHolds
<1>4. CASE ParseTruncated
  BY <1>4, ParseTruncatedHolds
<1>5. CASE ParseRle
  BY <1>5, ParseRleHolds
<1>6. CASE ParseData
  BY <1>6, ParseDataHolds
<1>7. CASE ApplyRecord
  BY <1>7, ApplyRecordHolds
<1>8. CASE Finish
  BY <1>8, FinishHolds
<1>9. CASE ApplyAgain
  BY <1>9, ApplyAgainHolds
<1>10. CASE UNCHANGED vars
  BY <1>10, StutterHolds
<1> QED
  BY <1>1, <1>2, <1>3, <1>4, <1>5, <1>6, <1>7, <1>8, <1>9, <1>10 DEF Next

-----------------------------------------------------------------------------
(***************************************************************************)
(* The theorems                                                            *)
(***************************************************************************)

\* The inductive invariant holds of every load and every two applications.
THEOREM Invariance == Spec => []IInv
BY InitHolds, StepHolds, PTL DEF Spec

\* Every variable keeps its type; the records the parser makes have the widths
\* of the fields they were read from.
THEOREM TypeCorrect == Spec => []TypeOK
<1>1. IInv => TypeOK
  BY DEF IInv, Ranges
<1> QED
  BY Invariance, <1>1, PTL

\* For any patch and source, the last record that hits a byte decides it.
THEOREM LastRecordDecides == Spec => []LastWriterWins
<1>1. IInv => LastWriterWins
  BY DEF IInv
<1> QED
  BY Invariance, <1>1, PTL

\* The output has the length get_metadata tells, or the source's if that is more.
THEOREM LengthIsAnnounced == Spec => []SizeLaw
<1>1. IInv => SizeLaw
  <2> SUFFICES ASSUME IInv, pc = "done"
               PROVE  Len(output) = IF target_size > Len(source) THEN target_size ELSE Len(source)
    BY DEF SizeLaw
  <2> DEFINE ends == {End(records[i]) : i \in DOMAIN records} \union {0}
  <2>1. next - 1 = Len(records) /\ DOMAIN records = 1 .. Len(records)
    BY DEF IInv, Ranges, TypeOK
  <2>2. PICK m \in ends :
            /\ \A k \in 1 .. Len(records) : End(records[k]) <= m
            /\ Len(output) = IF m > Len(source) THEN m ELSE Len(source)
    BY <2>1 DEF IInv, LengthLaw
  <2>3. \A e \in ends : e \in Nat
    <3>1. TypeOK
      BY DEF IInv, Ranges
    <3>2. \A i \in DOMAIN records : End(records[i]) \in Nat
      <4> SUFFICES ASSUME NEW i \in DOMAIN records PROVE End(records[i]) \in Nat
        OBVIOUS
      <4>1. records[i] \in Record /\ (records[i].is_rle \/ Len(records[i].data) = records[i].size)
        BY <2>1, <3>1, RecordOf
      <4>2. records[i].offset \in Nat /\ RunLength(records[i]) \in Nat
        BY <4>1, RecordBytes
      <4> QED
        BY <4>2 DEF End
    <3> QED
      BY <3>2
  <2>4. \A e \in ends : e <= m
    BY <2>1, <2>2, <2>3
  <2>5. target_size = m
    <3>1. target_size \in ends /\ \A e \in ends : e <= target_size
      <4> HIDE DEF ends
      <4> QED BY <2>2, <2>4 DEF target_size, ends
    <3> HIDE DEF ends
    <3> QED BY <2>2, <2>3, <2>4, <3>1
  <2> QED
    BY <2>2, <2>5
<1> QED
  BY Invariance, <1>1, PTL

\* Applying any patch to what it made changes nothing.
THEOREM TwiceIsOnce == Spec => []Idempotent
<1>1. IInv => Idempotent
  BY DEF IInv, History, Idempotent
<1> QED
  BY Invariance, <1>1, PTL

-----------------------------------------------------------------------------
(***************************************************************************)
(* What an encoder writes                                                  *)
(***************************************************************************)

\* A set of numbers that has a member has a least one.
LEMMA LeastElement ==
    ASSUME NEW T \in SUBSET Nat, T # {}
    PROVE  \E m \in T : \A k \in T : m <= k
<1>1. IsWellFoundedOn(OpToRel(<, Nat), Nat)
  BY NatLessThanWellFounded
<1>2. PICK m \in T : \A k \in T : <<k, m>> \notin OpToRel(<, Nat)
  BY <1>1, WFMin
<1>3. \A k \in T : ~(k < m)
  BY <1>2 DEF OpToRel
<1> QED BY <1>3

\* The encodings of the first records, each laid behind the one before.
Laid(rs, f, k) == IF k = 0 THEN <<>> ELSE f[k - 1] \o Encode(rs[k])
Lays(rs, f, n) == f = [k \in 0 .. n |-> f[k]] /\ \A k \in 0 .. n : f[k] = Laid(rs, f, k)

\* For any records they can be laid,
LEMMA LaysExist == ASSUME NEW rs PROVE \A n \in Nat : \E f : Lays(rs, f, n)
<1> DEFINE Bad == {n \in Nat : ~ \E f : Lays(rs, f, n)}
<1> SUFFICES ASSUME NEW n \in Bad, \A k \in Bad : n <= k PROVE FALSE
  <2>1. Bad \in SUBSET Nat
    OBVIOUS
  <2>2. SUFFICES ASSUME Bad # {} PROVE FALSE
    OBVIOUS
  <2> QED BY <2>1, <2>2, LeastElement
<1>0. n \in Nat
  OBVIOUS
<1>1. \E f : \A k \in 0 .. n - 1 : f[k] = Laid(rs, f, k)
  <2>1. CASE n = 0
    BY <2>1
  <2>2. CASE n # 0
    <3>1. n - 1 \in Nat /\ n - 1 \notin Bad
      BY <2>2
    <3> QED BY <3>1 DEF Lays
  <2> QED BY <2>1, <2>2
<1>2. PICK f : \A k \in 0 .. n - 1 : f[k] = Laid(rs, f, k)
  BY <1>1
<1> DEFINE g == [k \in 0 .. n |-> IF k = n THEN Laid(rs, f, n) ELSE f[k]]
<1>3. ASSUME NEW k \in 0 .. n PROVE g[k] = Laid(rs, g, k)
  <2>1. k # 0 => k - 1 \in 0 .. n /\ k - 1 # n /\ g[k - 1] = f[k - 1]
    BY <1>0
  <2>2. Laid(rs, g, k) = Laid(rs, f, k)
    BY <2>1 DEF Laid
  <2>3. CASE k = n
    BY <2>2, <2>3
  <2>4. CASE k # n
    <3>1. k \in 0 .. n - 1
      BY <1>0, <2>4
    <3> QED BY <1>2, <2>2, <2>4, <3>1
  <2> QED BY <2>3, <2>4
<1>4. g = [k \in 0 .. n |-> g[k]]
  OBVIOUS
<1>5. Lays(rs, g, n)
  BY <1>3, <1>4 DEF Lays
<1> QED BY <1>0, <1>5

\* and no record behind the last one laid makes a difference.
LEMMA LaysAgree ==
    ASSUME NEW rs, NEW more, NEW n \in Nat, NEW m \in Nat, n <= m, NEW f, NEW g,
           Lays(rs, f, n), Lays(more, g, m), \A k \in 1 .. n : rs[k] = more[k]
    PROVE  \A k \in 0 .. n : f[k] = g[k]
<1> DEFINE Unlike == {k \in 0 .. n : f[k] # g[k]}
<1> SUFFICES ASSUME NEW k \in Unlike, \A j \in Unlike : k <= j PROVE FALSE
  <2>1. Unlike \in SUBSET Nat
    OBVIOUS
  <2>2. SUFFICES ASSUME Unlike # {} PROVE FALSE
    OBVIOUS
  <2> QED BY <2>1, <2>2, LeastElement
<1>1. k \in 0 .. n /\ k \in 0 .. m
  OBVIOUS
<1>2. k # 0 => f[k - 1] = g[k - 1]
  OBVIOUS
<1>3. Laid(rs, f, k) = Laid(more, g, k)
  BY <1>1, <1>2 DEF Laid
<1> QED BY <1>1, <1>3 DEF Lays

\* EncodeAll is what is laid when all are.
LEMMA EncodeAllLays ==
    ASSUME NEW rs, Len(rs) \in Nat
    PROVE  \E f : Lays(rs, f, Len(rs)) /\ EncodeAll(rs) = f[Len(rs)]
<1> DEFINE n == Len(rs)
           all == CHOOSE f : f = [k \in 0 .. n |-> IF k = 0 THEN <<>> ELSE f[k - 1] \o Encode(rs[k])]
<1>1. PICK f : Lays(rs, f, n)
  BY LaysExist
<1>2. f = [k \in 0 .. n |-> IF k = 0 THEN <<>> ELSE f[k - 1] \o Encode(rs[k])]
  <2>1. f = [k \in 0 .. n |-> f[k]]
        /\ \A k \in 0 .. n : f[k] = IF k = 0 THEN <<>> ELSE f[k - 1] \o Encode(rs[k])
    BY <1>1 DEF Lays, Laid
  <2> QED BY <2>1
<1>3. all = [k \in 0 .. n |-> IF k = 0 THEN <<>> ELSE all[k - 1] \o Encode(rs[k])]
  BY <1>2
<1>4. EncodeAll(rs) = all[n]
  BY DEF EncodeAll
<1> HIDE DEF all
<1>5. Lays(rs, all, n)
  <2>1. all = [k \in 0 .. n |-> all[k]]
    BY <1>3
  <2>2. \A k \in 0 .. n : all[k] = IF k = 0 THEN <<>> ELSE all[k - 1] \o Encode(rs[k])
    BY <1>3
  <2> QED BY <2>1, <2>2 DEF Lays, Laid
<1> QED BY <1>4, <1>5

\* No record is written as nothing,
LEMMA EncodeNothing == EncodeAll(<<>>) = <<>>
<1>1. PICK f : Lays(<<>>, f, 0) /\ EncodeAll(<<>>) = f[0]
  BY EncodeAllLays
<1> QED BY <1>1 DEF Lays, Laid

\* and one more behind those before.
LEMMA EncodeAppend ==
    ASSUME NEW S, NEW rs \in Seq(S), NEW r \in S
    PROVE  EncodeAll(Append(rs, r)) = EncodeAll(rs) \o Encode(r)
<1> DEFINE n == Len(rs)
           more == Append(rs, r)
<1>2. n \in Nat /\ Len(more) = n + 1 /\ more[n + 1] = r /\ \A k \in 1 .. n : rs[k] = more[k]
  OBVIOUS
<1>3. PICK f : Lays(rs, f, n) /\ EncodeAll(rs) = f[n]
  BY <1>2, EncodeAllLays
<1> HIDE DEF more
<1>4. PICK g : Lays(more, g, n + 1) /\ EncodeAll(more) = g[n + 1]
  BY <1>2, EncodeAllLays
<1> HIDE DEF n
<1>5. f[n] = g[n]
  BY <1>2, <1>3, <1>4, LaysAgree
<1>6. g[n + 1] = g[n] \o Encode(more[n + 1])
  <2>1. n + 1 \in 0 .. n + 1 /\ n + 1 # 0 /\ (n + 1) - 1 = n
    BY <1>2
  <2>2. g[n + 1] = Laid(more, g, n + 1)
    BY <1>4, <2>1 DEF Lays
  <2> QED BY <2>1, <2>2, Zenon DEF Laid
<1> QED BY <1>2, <1>3, <1>4, <1>5, <1>6 DEF more

\* A multiple and what is left of it are what division gives back.
LEMMA Division ==
    ASSUME NEW p \in Nat \ {0}, NEW q \in Int, NEW r \in 0 .. p - 1
    PROVE  (q * p + r) \div p = q /\ (q * p + r) % p = r
<1> DEFINE t == (q * p + r) \div p
           s == (q * p + r) % p
<1>1. q * p + r \in Int /\ p \in Int /\ p > 0 /\ r \in Int
  OBVIOUS
<1>2. t \in Int /\ s \in 0 .. p - 1 /\ q * p + r = p * t + s
  BY <1>1
<1>3. s \in Int /\ s >= 0 /\ s < p /\ r >= 0 /\ r < p
  BY <1>2
<1> HIDE DEF t, s
<1>4. q * p = p * q /\ p * q \in Int /\ p * t \in Int
  BY <1>2
<1>5. ASSUME NEW d \in Int, d >= 1 PROVE p * d >= p
  BY <1>1, <1>5
<1>6. ASSUME q < t PROVE FALSE
  <2>1. p * t - p * q = p * (t - q) /\ t - q \in Int /\ t - q >= 1
    BY <1>1, <1>2, <1>6
  <2>2. p * (t - q) >= p
    BY <1>5, <2>1
  <2> QED BY <1>1, <1>2, <1>3, <1>4, <2>1, <2>2
<1>7. ASSUME t < q PROVE FALSE
  <2>1. p * q - p * t = p * (q - t) /\ q - t \in Int /\ q - t >= 1
    BY <1>1, <1>2, <1>7
  <2>2. p * (q - t) >= p
    BY <1>5, <2>1
  <2> QED BY <1>1, <1>2, <1>3, <1>4, <2>1, <2>2
<1>8. t = q
  BY <1>2, <1>6, <1>7
<1>9. s = r
  BY <1>1, <1>2, <1>3, <1>4, <1>8
<1> QED BY <1>8, <1>9 DEF t, s

\* Two and three bytes of a string.
LEMMA ShortSubSeq ==
    ASSUME NEW S, NEW s \in Seq(S), NEW o \in Nat
    PROVE  /\ o + 2 <= Len(s) => SubSeq(s, o + 1, o + 2) = <<s[o + 1], s[o + 2]>>
           /\ o + 3 <= Len(s) => SubSeq(s, o + 1, o + 3) = <<s[o + 1], s[o + 2], s[o + 3]>>
<1>1. SubSeq(s, o + 1, o + 2) = [i \in 1 .. (o + 2) - (o + 1) + 1 |-> s[(o + 1) + i - 1]]
      /\ SubSeq(s, o + 1, o + 3) = [i \in 1 .. (o + 3) - (o + 1) + 1 |-> s[(o + 1) + i - 1]]
  OBVIOUS
<1>2. (o + 2) - (o + 1) + 1 = 2 /\ (o + 3) - (o + 1) + 1 = 3
  OBVIOUS
<1>3. \A i \in 1 .. 3 : (o + 1) + i - 1 = o + i
  OBVIOUS
<1>4. SubSeq(s, o + 1, o + 2) = [i \in 1 .. 2 |-> s[o + i]]
  BY <1>1, <1>2, <1>3
<1>5. SubSeq(s, o + 1, o + 3) = [i \in 1 .. 3 |-> s[o + i]]
  BY <1>1, <1>2, <1>3
<1>6. /\ [i \in 1 .. 2 |-> s[o + i]] = <<s[o + 1], s[o + 2]>>
      /\ [i \in 1 .. 3 |-> s[o + i]] = <<s[o + 1], s[o + 2], s[o + 3]>>
  <2>1. 1 .. 2 = {1, 2} /\ 1 .. 3 = {1, 2, 3}
    OBVIOUS
  <2> QED BY <2>1
<1> QED BY <1>4, <1>5, <1>6

\* Appending to a string.
LEMMA AppendTyped ==
    ASSUME NEW S, NEW s \in Seq(S), NEW c \in S
    PROVE  /\ Append(s, c) \in Seq(S) /\ Len(Append(s, c)) = Len(s) + 1
           /\ \A i \in 1 .. Len(s) : Append(s, c)[i] = s[i]
           /\ Append(s, c)[Len(s) + 1] = c
OBVIOUS

\* One byte behind two of a string.
LEMMA AppendLast ==
    ASSUME NEW S, NEW s \in Seq(S), NEW c \in S, Len(s) = 2
    PROVE  Append(s, c) = <<s[1], s[2], c>>
<1> DEFINE t == <<s[1], s[2], c>>
<1>1. t \in Seq(S) /\ Len(t) = 3 /\ t[1] = s[1] /\ t[2] = s[2] /\ t[3] = c
  OBVIOUS
<1> HIDE DEF t
<1>2. /\ Append(s, c) \in Seq(S) /\ Len(Append(s, c)) = Len(s) + 1
      /\ \A i \in 1 .. Len(s) : Append(s, c)[i] = s[i]
      /\ Append(s, c)[Len(s) + 1] = c
  BY AppendTyped
<1>3. Len(s) + 1 = 3 /\ 1 \in 1 .. Len(s) /\ 2 \in 1 .. Len(s)
  OBVIOUS
<1>4. Append(s, c)[1] = s[1] /\ Append(s, c)[2] = s[2] /\ Append(s, c)[3] = c
  BY <1>2, <1>3, Zenon
<1>5. \A i \in 1 .. 3 : i = 1 \/ i = 2 \/ i = 3
  OBVIOUS
<1>6. Append(s, c) = t
  BY <1>1, <1>2, <1>3, <1>4, <1>5, SeqEqual
<1> QED BY <1>6 DEF t

\* As three of them.
LEMMA AppendThird ==
    ASSUME NEW S, NEW a \in S, NEW b \in S, NEW c \in S
    PROVE  Append(<<a, b>>, c) = <<a, b, c>>
<1> DEFINE s == <<a, b>>
<1>1. s \in Seq(S) /\ Len(s) = 2 /\ s[1] = a /\ s[2] = b
  OBVIOUS
<1> HIDE DEF s
<1>2. Append(s, c) = <<s[1], s[2], c>>
  BY <1>1, AppendLast
<1>3. Append(s, c) = <<a, b, c>>
  BY <1>1, <1>2
<1> QED BY <1>3 DEF s

\* Three strings, laid from either end.
LEMMA ThreeConcat == \A a, b, c \in Seq(Byte) : (a \o b) \o c = a \o (b \o c)
<1> SUFFICES ASSUME NEW a \in Seq(Byte), NEW b \in Seq(Byte), NEW c \in Seq(Byte)
             PROVE  (a \o b) \o c = a \o (b \o c)
  OBVIOUS
<1> QED BY ConcatAssociative

\* The digits of a number read from the patch are the bytes it was read from.
LEMMA DigitsRead ==
    ASSUME TypeOK, NEW o \in Nat
    PROVE  /\ o + 2 <= Len(patch) => Digits2(Be2(o)) = SubSeq(patch, o + 1, o + 2)
           /\ o + 3 <= Len(patch) => Digits3(Be3(o)) = SubSeq(patch, o + 1, o + 3)
<1> DEFINE a == ByteAt(o)
           b == ByteAt(o + 1)
           c == ByteAt(o + 2)
<1>1. patch \in Seq(Byte) /\ Len(patch) \in Nat
  BY DEF TypeOK
<1>2. Base \in Nat \ {0, 1} /\ Base \in Nat \ {0} /\ Base * Base \in Nat \ {0}
  BY IPSAssumption
<1>3. ASSUME o + 2 <= Len(patch)
      PROVE  Digits2(Be2(o)) = SubSeq(patch, o + 1, o + 2)
  <2>1. a \in 0 .. Base - 1 /\ b \in 0 .. Base - 1
    BY <1>1, <1>3, NumbersRead DEF Byte
  <2>2. Be2(o) = a * Base + b
    BY DEF Be2
  <2> HIDE DEF a, b
  <2>3. Be2(o) \div Base = a /\ Be2(o) % Base = b
    BY <1>2, <2>1, <2>2, Division
  <2>4. Digits2(Be2(o)) = <<a, b>>
    BY <2>3 DEF Digits2
  <2>5. SubSeq(patch, o + 1, o + 2) = <<a, b>>
    <3>1. a = patch[o + 1] /\ b = patch[o + 2]
      BY DEF a, b, ByteAt
    <3> QED BY <1>1, <1>3, <3>1, ShortSubSeq
  <2> QED BY <2>4, <2>5
<1>4. ASSUME o + 3 <= Len(patch)
      PROVE  Digits3(Be3(o)) = SubSeq(patch, o + 1, o + 3)
  <2>1. a \in 0 .. Base - 1 /\ b \in 0 .. Base - 1 /\ c \in 0 .. Base - 1
    BY <1>1, <1>4, NumbersRead DEF Byte
  <2>2. Be3(o) = a * Base * Base + (b * Base + c)
    <3>1. o + 1 + 1 = o + 2
      OBVIOUS
    <3> QED BY <3>1 DEF Be3, Be2
  <2> HIDE DEF a, b, c
  <2>3. b * Base + c \in 0 .. Base * Base - 1 /\ a * Base + b \in Int
    BY <1>2, <2>1, TwoDigits
  <2>4. Be3(o) = a * (Base * Base) + (b * Base + c) /\ Be3(o) = (a * Base + b) * Base + c
    BY <1>2, <2>1, <2>2
  <2>5. Be3(o) \div (Base * Base) = a
    BY <1>2, <2>1, <2>3, <2>4, Division
  <2>6. Be3(o) \div Base = a * Base + b /\ Be3(o) % Base = c
    BY <1>2, <2>1, <2>3, <2>4, Division
  <2>7. (a * Base + b) % Base = b
    BY <1>2, <2>1, Division
  <2>8. Digits3(Be3(o)) = <<a, b, c>>
    BY <2>5, <2>6, <2>7 DEF Digits3
  <2>9. SubSeq(patch, o + 1, o + 3) = <<a, b, c>>
    <3>1. a = patch[o + 1] /\ b = patch[o + 2] /\ c = patch[o + 3]
      BY DEF a, b, c, ByteAt
    <3> QED BY <1>1, <1>4, <3>1, ShortSubSeq
  <2> QED BY <2>8, <2>9
<1> QED BY <1>3, <1>4

\* Two stretches of a string that meet are one.
LEMMA ConcatAdjacent ==
    ASSUME NEW S, NEW s \in Seq(S), NEW m \in Nat, NEW k \in Nat, NEW l \in Nat, NEW n \in Nat,
           1 <= m, m <= l, l = k + 1, k <= n, n <= Len(s)
    PROVE  SubSeq(s, m, k) \o SubSeq(s, l, n) = SubSeq(s, m, n)
<1>1. m \in 1 .. Len(s) + 1 /\ k \in m - 1 .. Len(s) /\ n \in k .. Len(s)
  OBVIOUS
<1>2. SubSeq(s, m, k) \o SubSeq(s, k + 1, n) = SubSeq(s, m, n)
  BY <1>1, ConcatAdjacentSubSeq
<1> QED
  BY <1>2

\* A run parsed from the patch is written as the bytes it was read from.
LEMMA RleEncoded ==
    ASSUME TypeOK, Be2(offset + 3) = 0, offset + 8 <= Len(patch)
    PROVE  Encode(RleRecord) = SubSeq(patch, offset + 1, offset + 8)
<1>1. patch \in Seq(Byte) /\ Len(patch) \in Nat /\ offset \in Nat
  BY DEF TypeOK
<1>2. Digits3(Be3(offset)) = SubSeq(patch, offset + 1, offset + 3)
  BY <1>1, DigitsRead
<1>3. Digits2(0) = SubSeq(patch, offset + 4, offset + 5)
  <2>1. offset + 3 + 1 = offset + 4 /\ offset + 3 + 2 = offset + 5 /\ offset + 3 \in Nat
    BY <1>1
  <2> QED BY <1>1, <2>1, DigitsRead
<1>4. Append(Digits2(Be2(offset + 5)), ByteAt(offset + 7)) = SubSeq(patch, offset + 6, offset + 8)
  <2>1. offset + 5 + 1 = offset + 6 /\ offset + 5 + 2 = offset + 7 /\ offset + 5 + 3 = offset + 8
        /\ offset + 5 \in Nat
    BY <1>1
  <2>2. Digits2(Be2(offset + 5)) = SubSeq(patch, offset + 6, offset + 7)
    BY <1>1, <2>1, DigitsRead
  <2>3. SubSeq(patch, offset + 6, offset + 7) = <<patch[offset + 6], patch[offset + 7]>>
        /\ SubSeq(patch, offset + 6, offset + 8) = <<patch[offset + 6], patch[offset + 7], patch[offset + 8]>>
    <3>1. offset + 5 + 2 <= Len(patch) /\ offset + 5 + 3 <= Len(patch)
      BY <1>1
    <3> QED BY <1>1, <2>1, <3>1, ShortSubSeq
  <2>4. ByteAt(offset + 7) = patch[offset + 8]
    <3>1. offset + 7 + 1 = offset + 8
      BY <1>1
    <3> QED BY <3>1 DEF ByteAt
  <2>5. Append(<<patch[offset + 6], patch[offset + 7]>>, patch[offset + 8])
          = <<patch[offset + 6], patch[offset + 7], patch[offset + 8]>>
    <3>1. patch[offset + 6] \in Byte /\ patch[offset + 7] \in Byte /\ patch[offset + 8] \in Byte
      BY <1>1
    <3> QED BY <3>1, AppendThird
  <2> QED BY <2>2, <2>3, <2>4, <2>5
<1>5. Encode(RleRecord) = Digits3(Be3(offset)) \o Digits2(0)
                            \o Append(Digits2(Be2(offset + 5)), ByteAt(offset + 7))
  BY DEF Encode, RleRecord
<1>6. SubSeq(patch, offset + 1, offset + 3) \o SubSeq(patch, offset + 4, offset + 5)
        = SubSeq(patch, offset + 1, offset + 5)
  BY <1>1, ConcatAdjacent
<1>7. SubSeq(patch, offset + 1, offset + 5) \o SubSeq(patch, offset + 6, offset + 8)
        = SubSeq(patch, offset + 1, offset + 8)
  BY <1>1, ConcatAdjacent
<1> QED
  BY <1>2, <1>3, <1>4, <1>5, <1>6, <1>7

\* So is a record with data.
LEMMA DataEncoded ==
    ASSUME TypeOK, offset + 5 <= Len(patch), Be2(offset + 3) # 0,
           DataEnd(offset, Be2(offset + 3)) <= Len(patch)
    PROVE  Encode(DataRecord) = SubSeq(patch, offset + 1, DataEnd(offset, Be2(offset + 3)))
<1> DEFINE n == Be2(offset + 3)
           e == offset + 5 + n
<1>1. patch \in Seq(Byte) /\ Len(patch) \in Nat /\ offset \in Nat
  BY DEF TypeOK
<1>2. Digits3(Be3(offset)) = SubSeq(patch, offset + 1, offset + 3)
  BY <1>1, DigitsRead
<1>3. n \in Nat /\ Digits2(n) = SubSeq(patch, offset + 4, offset + 5)
  <2>1. offset + 3 + 1 = offset + 4 /\ offset + 3 + 2 = offset + 5 /\ offset + 3 \in Nat
    BY <1>1
  <2>2. n \in 0 .. Base * Base - 1
    BY <1>1, <2>1, NumbersRead
  <2> QED BY <1>1, <2>1, <2>2, DigitsRead
<1>4. Encode(DataRecord) = Digits3(Be3(offset)) \o Digits2(n) \o SubSeq(patch, offset + 6, e)
  BY DEF Encode, DataRecord
<1>5. e \in Nat /\ e >= offset + 5 /\ e <= Len(patch)
  <2> HIDE DEF n
  <2>1. DataEnd(offset, n) <= Len(patch)
    BY DEF n
  <2> QED BY <1>1, <1>3, <2>1 DEF DataEnd
<1>6. DataEnd(offset, n) = e
  BY DEF DataEnd
<1> HIDE DEF e
<1>7. SubSeq(patch, offset + 1, offset + 3) \o SubSeq(patch, offset + 4, offset + 5)
        = SubSeq(patch, offset + 1, offset + 5)
  BY <1>1, ConcatAdjacent
<1>8. SubSeq(patch, offset + 1, offset + 5) \o SubSeq(patch, offset + 6, e)
        = SubSeq(patch, offset + 1, e)
  BY <1>1, <1>5, ConcatAdjacent
<1> QED
  BY <1>2, <1>3, <1>4, <1>6, <1>7, <1>8

\* What is left to read, byte by byte.
LEMMA RestIs ==
    ASSUME TypeOK
    PROVE  /\ Len(Rest) \in Nat /\ Len(Rest) >= 3 <=> More
           /\ More => /\ Len(Rest) = Len(patch) - offset
                      /\ \A i \in 1 .. Len(Rest) : Rest[i] = patch[offset + i]
                      /\ Marked <=> AtEof
<1>1. patch \in Seq(Byte) /\ Len(patch) \in Nat /\ offset \in Nat
  BY DEF TypeOK
<1>2. Len(Rest) = IF offset + 1 <= Len(patch) THEN Len(patch) - offset ELSE 0
  BY <1>1 DEF Rest
<1>3. Len(Rest) \in Nat /\ (Len(Rest) >= 3 <=> More)
  BY <1>1, <1>2 DEF More
<1>4. ASSUME More
      PROVE  /\ Len(Rest) = Len(patch) - offset
             /\ \A i \in 1 .. Len(Rest) : Rest[i] = patch[offset + i]
             /\ Marked <=> AtEof
  <2>1. Len(Rest) = Len(patch) - offset /\ Len(Rest) >= 3
    BY <1>1, <1>2, <1>4 DEF More
  <2>2. ASSUME NEW i \in 1 .. Len(Rest) PROVE Rest[i] = patch[offset + i]
    <3>1. i \in Nat /\ offset + 1 + i - 1 = offset + i /\ i <= Len(patch) - offset /\ 1 <= i
      BY <1>1, <2>1
    <3>2. Rest[i] = patch[offset + 1 + i - 1]
      BY <1>1, <2>1, <3>1 DEF Rest
    <3> QED BY <3>1, <3>2
  <2>3. SubSeq(Rest, 1, 3) = <<Rest[1], Rest[2], Rest[3]>>
    <3>1. Rest \in Seq(Byte)
      BY <1>1 DEF Rest
    <3>2. 0 \in Nat /\ 0 + 3 <= Len(Rest) /\ 0 + 1 = 1 /\ 0 + 2 = 2 /\ 0 + 3 = 3
      BY <2>1
    <3> QED BY <3>1, <3>2, ShortSubSeq
  <2>4. SubSeq(patch, offset + 1, offset + 3) = <<patch[offset + 1], patch[offset + 2], patch[offset + 3]>>
    <3>1. offset + 3 <= Len(patch)
      BY <1>4 DEF More
    <3> QED BY <1>1, <3>1, ShortSubSeq
  <2>5. 1 \in 1 .. Len(Rest) /\ 2 \in 1 .. Len(Rest) /\ 3 \in 1 .. Len(Rest)
    BY <1>3, <2>1
  <2>6. SubSeq(Rest, 1, 3) = SubSeq(patch, offset + 1, offset + 3)
    BY <2>2, <2>3, <2>4, <2>5
  <2> QED BY <2>1, <2>2, <2>6 DEF Marked, AtEof
<1> QED BY <1>3, <1>4

\* A record that does not fit is cut.
LEMMA TruncatedIsCut ==
    ASSUME TypeOK, ParseTruncated
    PROVE  /\ Len(Rest) >= 3 /\ ~Marked
           /\ \A n \in 1 .. Len(Rest) : ~IsRecord(SubSeq(Rest, 1, n))
<1>1. More /\ ~AtEof
  BY DEF ParseTruncated
<1>2. /\ Len(Rest) \in Nat /\ Len(Rest) >= 3 /\ ~Marked /\ Len(Rest) = Len(patch) - offset
      /\ \A i \in 1 .. Len(Rest) : Rest[i] = patch[offset + i]
  BY <1>1, RestIs
<1>3. patch \in Seq(Byte) /\ Len(patch) \in Nat /\ offset \in Nat /\ Rest \in Seq(Byte)
  BY DEF TypeOK, Rest
<1>4. ASSUME NEW n \in 1 .. Len(Rest), IsRecord(SubSeq(Rest, 1, n)) PROVE FALSE
  <2> DEFINE bytes == SubSeq(Rest, 1, n)
             size == Be2(offset + 3)
  <2>1. Len(bytes) = n /\ \A i \in 1 .. n : bytes[i] = Rest[i]
    BY <1>2, <1>3
  <2>2. n >= 5
    BY <1>4, <2>1 DEF IsRecord
  <2>3. 4 \in 1 .. n /\ 5 \in 1 .. n /\ 4 \in 1 .. Len(Rest) /\ 5 \in 1 .. Len(Rest)
    BY <1>2, <2>2
  <2>4. bytes[4] = patch[offset + 4] /\ bytes[5] = patch[offset + 5]
    BY <1>2, <2>1, <2>3
  <2>5. size = patch[offset + 4] * Base + patch[offset + 5]
    <3>1. offset + 3 + 1 = offset + 4 /\ offset + 3 + 1 + 1 = offset + 5
      BY <1>3
    <3> QED BY <3>1 DEF Be2, ByteAt
  <2>6. n = IF size = 0 THEN 8 ELSE 5 + size
    BY <1>4, <2>1, <2>4, <2>5 DEF IsRecord
  <2>7. size \in Nat
    <3>1. offset + 3 \in Nat /\ offset + 3 + 2 <= Len(patch)
      BY <1>2, <1>3, <2>2
    <3>2. size \in 0 .. Base * Base - 1
      BY <1>3, <3>1, NumbersRead
    <3> QED BY <3>2
  <2>8. \/ offset + 5 > Len(patch)
        \/ size = 0 /\ offset + 8 > Len(patch)
        \/ size # 0 /\ offset + 5 + size > Len(patch)
    <3>1. offset + 5 + 3 = offset + 8
      BY <1>3
    <3> HIDE DEF size
    <3>2. \/ offset + 5 > Len(patch)
          \/ IF size = 0 THEN offset + 5 + 3 > Len(patch) ELSE offset + 5 + size > Len(patch)
      BY DEF ParseTruncated, RleSize, DataEnd, size
    <3> QED BY <3>1, <3>2
  <2>9. offset + n <= Len(patch)
    BY <1>2, <1>3
  <2> HIDE DEF bytes, size
  <2> QED BY <1>3, <2>2, <2>6, <2>7, <2>8, <2>9
<1> QED BY <1>2, <1>4

\* What was read so far, and nothing before.
ReadSoFar ==
    /\ ParseFaithful
    /\ EncodeAll(records) \in Seq(Byte)
    /\ pc = "load" => records = <<>>
    /\ pc # "failed" => error = "none"

\* A record that is written as the bytes behind those read so far may be
\* appended when they are read.
LEMMA AppendFaithful ==
    ASSUME TypeOK, ReadSoFar, pc = "parse", NEW r \in Record, NEW e \in offset .. Len(patch),
           Encode(r) = SubSeq(patch, offset + 1, e), Digits3(r.offset) # EofMark,
           records' = Append(records, r), offset' = e, UNCHANGED <<patch, pc, error>>
    PROVE  ReadSoFar'
<1>1. /\ patch \in Seq(Byte) /\ Len(patch) \in Nat /\ offset \in Nat /\ records \in Seq(Record)
      /\ e \in Nat /\ offset <= e /\ e <= Len(patch)
  BY DEF TypeOK
<1>2. SubSeq(patch, 1, offset) = Magic \o EncodeAll(records)
  BY DEF ReadSoFar, ParseFaithful
<1>3. SubSeq(patch, 1, e) = SubSeq(patch, 1, offset) \o SubSeq(patch, offset + 1, e)
  BY <1>1, ConcatAdjacent
<1>4. EncodeAll(records') = EncodeAll(records) \o Encode(r)
  BY <1>1, EncodeAppend
<1>5. EncodeAll(records) \in Seq(Byte) /\ Encode(r) \in Seq(Byte) /\ Magic \in Seq(Byte)
  <2>1. SubSeq(patch, offset + 1, e) \in Seq(Byte)
    BY <1>1
  <2> QED BY <2>1, IPSAssumption DEF ReadSoFar
<1>6. (Magic \o EncodeAll(records)) \o Encode(r) = Magic \o (EncodeAll(records) \o Encode(r))
  BY <1>5, ThreeConcat, Zenon
<1>7. SubSeq(patch', 1, offset') = Magic \o EncodeAll(records')
  BY <1>2, <1>3, <1>4, <1>6
<1>8. EncodeAll(records') \in Seq(Byte)
  BY <1>4, <1>5
<1>9. \A k \in DOMAIN records' : Digits3(records'[k].offset) # EofMark
  <2> TAKE k \in DOMAIN records'
  <2>1. \/ k \in DOMAIN records /\ records'[k] = records[k]
        \/ records'[k] = r
    <3> HIDE DEF Record
    <3> QED BY <1>1
  <2>2. \A j \in DOMAIN records : Digits3(records[j].offset) # EofMark
    BY DEF ReadSoFar, ParseFaithful
  <2> QED BY <2>1, <2>2
<1>10. error' # "CorruptedPatchData" /\ pc' = "parse"
  BY DEF ReadSoFar
<1> QED
  BY <1>7, <1>8, <1>9, <1>10 DEF ReadSoFar, ParseFaithful

\* Reading starts behind the header.
LEMMA LoadFaithful == TypeOK /\ ReadSoFar /\ Load => ReadSoFar'
<1> SUFFICES ASSUME TypeOK, ReadSoFar, Load PROVE ReadSoFar'
  OBVIOUS
<1>1. records' = records /\ records = <<>> /\ patch' = patch /\ offset' = 5
  BY DEF Load, ReadSoFar
<1>2. EncodeAll(records') = <<>> /\ EncodeAll(records') \in Seq(Byte)
  BY <1>1, EncodeNothing DEF ReadSoFar
<1>3. pc' # "failed" => SubSeq(patch, 1, 5) = Magic /\ pc' = "parse"
  BY DEF Load, Fail
<1>4. Magic \o <<>> = Magic
  BY IPSAssumption, ConcatEmptySeq
<1>5. /\ pc' \in {"failed", "parse"} /\ error' # "CorruptedPatchData"
      /\ pc' = "parse" => error' = "none"
  BY DEF Load, Fail, ReadSoFar
<1>6. \A k \in DOMAIN records' : Digits3(records'[k].offset) # EofMark
  BY <1>1
<1> QED
  BY <1>1, <1>2, <1>3, <1>4, <1>5, <1>6 DEF ReadSoFar, ParseFaithful

\* The offset of a record is written as it was read, not like the marker.
LEMMA OffsetIsNoMark ==
    ASSUME TypeOK, More, ~AtEof
    PROVE  Digits3(Be3(offset)) # EofMark
<1>1. patch \in Seq(Byte) /\ offset \in Nat /\ offset + 3 <= Len(patch)
  BY DEF TypeOK, More
<1>2. Digits3(Be3(offset)) = SubSeq(patch, offset + 1, offset + 3)
  BY <1>1, DigitsRead
<1> QED BY <1>2 DEF AtEof

\* The parser goes on behind a record it has read whole.
LEMMA RleFaithful == TypeOK /\ ReadSoFar /\ ParseRle => ReadSoFar'
<1> SUFFICES ASSUME TypeOK, ReadSoFar, ParseRle PROVE ReadSoFar'
  OBVIOUS
<1>1. offset \in Nat /\ Len(patch) \in Nat
  BY DEF TypeOK
<1>2. offset + 5 + RleSize = offset + 8
  BY <1>1 DEF RleSize
<1>3. offset + 8 <= Len(patch) /\ offset' = offset + 8 /\ Be2(offset + 3) = 0
  BY <1>2 DEF ParseRle
<1>4. RleRecord \in Record /\ Encode(RleRecord) = SubSeq(patch, offset + 1, offset + 8)
  BY <1>3, RleRecordTyped, RleEncoded
<1>5. offset + 8 \in offset .. Len(patch)
  BY <1>1, <1>3
<1>6. /\ pc = "parse" /\ UNCHANGED <<patch, pc, error>> /\ records' = Append(records, RleRecord)
      /\ More /\ ~AtEof
  BY DEF ParseRle
<1>7. Digits3(RleRecord.offset) # EofMark
  <2>1. RleRecord.offset = Be3(offset)
    BY DEF RleRecord
  <2> QED BY <1>1, <1>6, <2>1, OffsetIsNoMark
<1> HIDE DEF RleRecord
<1> QED
  BY <1>3, <1>4, <1>5, <1>6, <1>7, AppendFaithful

\* The same for a record with data.
LEMMA DataFaithful == TypeOK /\ ReadSoFar /\ ParseData => ReadSoFar'
<1> SUFFICES ASSUME TypeOK, ReadSoFar, ParseData PROVE ReadSoFar'
  OBVIOUS
<1> DEFINE e == DataEnd(offset, Be2(offset + 3))
<1>1. offset \in Nat /\ Len(patch) \in Nat
  BY DEF TypeOK
<1>2. offset + 5 <= Len(patch) /\ Be2(offset + 3) # 0 /\ e <= Len(patch) /\ offset' = e
  BY DEF ParseData
<1>3. DataRecord \in Record /\ Encode(DataRecord) = SubSeq(patch, offset + 1, e)
  BY <1>2, DataRecordTyped, DataEncoded
<1>4. e \in offset .. Len(patch)
  <2>1. offset + 3 \in Nat /\ offset + 3 + 2 <= Len(patch)
    BY <1>1, <1>2
  <2>2. Be2(offset + 3) \in 0 .. Base * Base - 1
    BY <2>1, NumbersRead
  <2>3. Be2(offset + 3) \in Nat /\ offset + 5 + Be2(offset + 3) <= Len(patch)
    BY <1>2, <2>2, IPSAssumption DEF DataEnd
  <2> QED BY <1>1, <2>3 DEF DataEnd
<1>5. /\ pc = "parse" /\ UNCHANGED <<patch, pc, error>> /\ records' = Append(records, DataRecord)
      /\ More /\ ~AtEof
  BY DEF ParseData
<1>6. Digits3(DataRecord.offset) # EofMark
  <2>1. DataRecord.offset = Be3(offset)
    BY DEF DataRecord
  <2> QED BY <1>1, <1>5, <2>1, OffsetIsNoMark
<1> HIDE DEF e
<1> QED
  BY <1>2, <1>3, <1>4, <1>5, <1>6, AppendFaithful

\* Every step keeps what was read equal to the records.
LEMMA StepFaithful == TypeOK /\ ReadSoFar /\ [Next]_vars => ReadSoFar'
<1> SUFFICES ASSUME TypeOK, ReadSoFar, [Next]_vars PROVE ReadSoFar'
  OBVIOUS
<1>1. ASSUME UNCHANGED <<patch, offset, records, error>>, pc' = "load" => pc = "load",
             pc' \in {"parse", "apply", "done"} => pc \in {"parse", "apply", "done"},
             pc = "failed" => pc' = "failed",
             pc' \in {"apply", "done"} => pc \in {"apply", "done"} \/ Marked \/ Len(Rest) < 3
      PROVE  ReadSoFar'
  <2>1. Rest' = Rest /\ Marked' = Marked
    BY <1>1 DEF Rest, Marked
  <2>2. pc' # "failed" => error' = "none"
    BY <1>1 DEF ReadSoFar
  <2>3. ParseFaithful'
    BY <1>1, <2>1 DEF ReadSoFar, ParseFaithful, IsRecord
  <2> QED BY <1>1, <2>2, <2>3 DEF ReadSoFar
<1>2. CASE ParseEof \/ ParseEnd
  <2>1. Marked \/ Len(Rest) < 3
    <3>1. ParseEof => Marked
      BY RestIs DEF ParseEof
    <3>2. ParseEnd => Len(Rest) < 3
      BY RestIs DEF ParseEnd
    <3> QED BY <1>2, <3>1, <3>2
  <2> QED BY <1>1, <1>2, <2>1 DEF ParseEof, ParseEnd, StartApply
<1>3. CASE ParseTruncated
  <2>1. pc = "parse" /\ pc' = "failed" /\ UNCHANGED <<patch, offset, records>>
    BY <1>3 DEF ParseTruncated, Fail, parsing
  <2>2. Rest' = Rest /\ Marked' = Marked
    BY <2>1 DEF Rest, Marked
  <2>3. /\ Len(Rest) >= 3 /\ ~Marked
        /\ \A n \in 1 .. Len(Rest) : ~IsRecord(SubSeq(Rest, 1, n))
    BY <1>3, TruncatedIsCut
  <2>4. ParseFaithful'
    BY <2>1, <2>2, <2>3 DEF ReadSoFar, ParseFaithful, IsRecord
  <2> QED BY <2>1, <2>4 DEF ReadSoFar
<1>4. CASE ApplyRecord \/ Finish \/ ApplyAgain
  BY <1>1, <1>4 DEF ApplyRecord, Finish, ApplyAgain, parsing
<1>5. CASE UNCHANGED vars
  BY <1>1, <1>5 DEF vars
<1> QED
  BY <1>2, <1>3, <1>4, <1>5, LoadFaithful, RleFaithful, DataFaithful DEF Next

\* For any patch, what the parser has read is the records it made, byte for byte:
\* an encoder would write them exactly so.  It stops at the marker or where none
\* fits, and refuses only a record that is cut (ips.cc:39-85).
THEOREM ParserReadsAll == Spec => []ParseFaithful
<1>1. Init => ReadSoFar
  <2>1. EncodeAll(<<>>) = <<>> /\ <<>> \in Seq(Byte)
    <3>1. <<>> \in Seq(Byte)
      OBVIOUS
    <3>2. EncodeAll(<<>>) = <<>>
      BY EncodeNothing
    <3> QED BY <3>1, <3>2
  <2>2. \A k \in DOMAIN <<>> : Digits3(records[k].offset) # EofMark
    OBVIOUS
  <2>3. Init => /\ \A k \in DOMAIN records : Digits3(records[k].offset) # EofMark
                /\ pc = "load" /\ error = "none" /\ records = <<>>
    BY <2>2 DEF Init
  <2> QED BY <2>1, <2>3 DEF ReadSoFar, ParseFaithful
<1>2. ReadSoFar => ParseFaithful
  BY DEF ReadSoFar
<1> QED
  BY TypeCorrect, StepFaithful, <1>1, <1>2, PTL DEF Spec
=============================================================================
