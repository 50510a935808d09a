----------------------------- MODULE BPSProofs -----------------------------
(***************************************************************************)
(* Theorems about BPSPatch, for any patches, sources and checksum.         *)
(*                                                                         *)
(* What an answer is needs nothing of what the numbers in the patch are,   *)
(* only the order of the tests around the commands.  Where the cursors are *)
(* needs the lengths of what the commands write.  That an encoder's patch  *)
(* makes its target needs the numbers and the commands themselves, read    *)
(* back from where the encoder put them.                                   *)
(***************************************************************************)
EXTENDS BPSEncoder, VarIntProofs

-----------------------------------------------------------------------------
(***************************************************************************)
(* What is answered                                                        *)
(***************************************************************************)

AcceptedBothEnds == SourceAccepted /\ OutputAccepted

\* What was read from the patch stays when commands run.
LEMMA ParsedStays ==
    ASSUME UNCHANGED parsed
    PROVE  UNCHANGED <<src_size, target_size, src_crc, target_crc>>
BY DEF parsed, header, checksums

\* A command leaves the source and the options alone, and never says it is done.
LEMMA CommandsKeep ==
    ASSUME AcceptedBothEnds, SourceRead \/ TargetRead \/ SourceCopy \/ TargetCopy
    PROVE  AcceptedBothEnds'
<1>1. pc = "apply" /\ UNCHANGED <<parsed, source, verify>>
  BY DEF SourceRead, TargetRead, SourceCopy, TargetCopy, Running
<1>2. pc' # "done"
  BY <1>1 DEF SourceRead, TargetRead, SourceCopy, TargetCopy, Reject, Fail, Emit
<1>3. Crc(source)' = Crc(source) /\ UNCHANGED <<src_size, src_crc>>
  BY <1>1, ParsedStays
<1> QED
  BY <1>1, <1>2, <1>3 DEF AcceptedBothEnds, SourceAccepted, OutputAccepted

\* Apply looks at the size of the source, and at its checksum when asked to.
LEMMA ApplyKeeps == ASSUME AcceptedBothEnds, Apply PROVE AcceptedBothEnds'
<1>1. UNCHANGED <<parsed, source>> /\ pc' # "done"
  BY DEF Apply, Fail
<1>2. Crc(source)' = Crc(source) /\ UNCHANGED <<src_size, src_crc>>
  BY <1>1, ParsedStays
<1>3. pc' = "apply" => Len(source) = src_size /\ (verify' => Crc(source) = src_crc)
  BY DEF Apply, Fail
<1> QED
  BY <1>1, <1>2, <1>3 DEF AcceptedBothEnds, SourceAccepted, OutputAccepted

\* The last test looks at the size of the output, and at its checksum when
\* asked to.
LEMMA FinishKeeps == ASSUME AcceptedBothEnds, Finish PROVE AcceptedBothEnds'
<1>1. pc = "apply" /\ UNCHANGED <<parsed, source, verify, output>>
  BY DEF Finish, applying
<1>2. /\ Crc(source)' = Crc(source) /\ Crc(output)' = Crc(output)
      /\ UNCHANGED <<src_size, target_size, src_crc, target_crc>>
  BY <1>1, ParsedStays
<1>3. pc' = "done" => Accepted(output)
  BY DEF Finish, Fail
<1> QED
  BY <1>1, <1>2, <1>3 DEF AcceptedBothEnds, SourceAccepted, OutputAccepted, Accepted

\* Every step keeps the invariant.
LEMMA StepKeeps == AcceptedBothEnds /\ [Next]_vars => AcceptedBothEnds'
<1> SUFFICES ASSUME AcceptedBothEnds, [Next]_vars PROVE AcceptedBothEnds'
  OBVIOUS
<1>1. ASSUME pc' \notin {"apply", "done"} PROVE AcceptedBothEnds'
  BY <1>1 DEF AcceptedBothEnds, SourceAccepted, OutputAccepted
<1>2. CASE Load
  BY <1>1, <1>2 DEF Load, Fail
<1>3. CASE ParseCommand \/ ParseTrailer
  BY <1>1, <1>3 DEF ParseCommand, ParseTrailer
<1>4. CASE Validate
  BY <1>1, <1>4 DEF Validate, Fail
<1>5. CASE UNCHANGED vars
  <2>1. Crc(source)' = Crc(source) /\ Crc(output)' = Crc(output)
    BY <1>5 DEF vars
  <2> QED
    BY <1>5, <2>1 DEF vars, AcceptedBothEnds, SourceAccepted, OutputAccepted, Accepted
<1> QED
  BY <1>2, <1>3, <1>4, <1>5, CommandsKeep, ApplyKeeps, FinishKeeps DEF Next

-----------------------------------------------------------------------------
\* Whatever the commands do, an answer has the size the patch says, comes from
\* a source of the size it says and, if verified, is one verify_checksums
\* confirms (bps.cc:154-167, 237-250, 296-313).
THEOREM AnswersAreTargets == Spec => []AnswerIsTarget
<1>1. Init => AcceptedBothEnds
  BY DEF Init, AcceptedBothEnds, SourceAccepted, OutputAccepted
<1>2. AcceptedBothEnds => AnswerIsTarget
  BY DEF AcceptedBothEnds, SourceAccepted, OutputAccepted, Accepted, AnswerIsTarget, ChecksumsMatch
<1> QED
  BY <1>1, <1>2, StepKeeps, PTL DEF Spec

-----------------------------------------------------------------------------
(***************************************************************************)
(* What a command writes                                                   *)
(***************************************************************************)

\* A number has one remainder.
LEMMA OneRemainder ==
    ASSUME NEW p \in Nat \ {0}, NEW q \in Int, NEW r \in 0 .. p - 1,
           NEW t \in Int, NEW s \in 0 .. p - 1, p * q + r = p * t + s
    PROVE  r = s
<1>1. p \in Int /\ p > 0 /\ r \in Int /\ s \in Int
  OBVIOUS
<1>2. ASSUME NEW d \in Int, d >= 1 PROVE p * d >= p
  BY <1>1, <1>2
<1>3. ASSUME q < t PROVE FALSE
  <2>1. p * t - p * q = p * (t - q) /\ t - q \in Int /\ t - q >= 1
    BY <1>1, <1>3
  <2>2. p * (t - q) >= p
    BY <1>2, <2>1
  <2> QED BY <1>1, <2>1, <2>2
<1>4. ASSUME t < q PROVE FALSE
  <2>1. p * q - p * t = p * (q - t) /\ q - t \in Int /\ q - t >= 1
    BY <1>1, <1>4
  <2>2. p * (q - t) >= p
    BY <1>2, <2>1
  <2> QED BY <1>1, <2>1, <2>2
<1>5. q = t
  BY <1>3, <1>4
<1> QED BY <1>1, <1>5

\* The remainder repeats.
LEMMA SameRemainder ==
    ASSUME NEW x \in Int, NEW p \in Nat \ {0}
    PROVE  (x - p) % p = x % p
<1> DEFINE q == x \div p
           r == x % p
           t == (x - p) \div p
           s == (x - p) % p
<1>1. q \in Int /\ r \in 0 .. p - 1 /\ x = p * q + r
  BY Remainder
<1>2. t \in Int /\ s \in 0 .. p - 1 /\ x - p = p * t + s
  BY Remainder
<1> HIDE DEF q, r, t, s
<1>3. p * (q - 1) = p * q - p /\ q - 1 \in Int
  BY <1>1
<1>4. p * (q - 1) + r = p * t + s
  BY <1>1, <1>2, <1>3
<1>5. r = s
  BY <1>1, <1>2, <1>3, <1>4, OneRemainder
<1> QED BY <1>5 DEF r, s

\* A copy from the output writes the bytes from there to the end of the output
\* over and over again, until it has its length: the first turn of the loop
\* beyond the end finds the byte the first turn wrote (bps.cc:222-230).
THEOREM CopyRepeats ==
    ASSUME NEW out \in Seq(Byte), NEW from \in 0 .. Len(out) - 1, NEW length \in Nat
    PROVE  RunOf(out, from, length) =
             [k \in 1 .. length |-> out[from + 1 + ((k - 1) % (Len(out) - from))]]
<1> DEFINE p == Len(out) - from
           Step(f, k) == IF from + k <= Len(out) THEN out[from + k] ELSE f[from + k - Len(out)]
           repeated == [k \in 1 .. length |-> out[from + 1 + ((k - 1) % p)]]
           run == RunOf(out, from, length)
<1>1. p \in Nat \ {0} /\ from \in Nat /\ Len(out) \in Nat /\ Len(out) = from + p
  OBVIOUS
<1>2. ASSUME NEW k \in 1 .. length PROVE repeated[k] = Step(repeated, k)
  <2>1. repeated[k] = out[from + 1 + ((k - 1) % p)]
    OBVIOUS
  <2> HIDE DEF p
  <2>2. CASE from + k <= Len(out)
    <3>1. k - 1 \in 0 .. p - 1
      BY <1>1, <2>2
    <3>2. (k - 1) % p = k - 1
      BY <1>1, <3>1
    <3>3. from + 1 + (k - 1) = from + k
      BY <1>1
    <3>4. repeated[k] = out[from + k]
      BY <2>1, <3>2, <3>3
    <3> QED BY <2>2, <3>4
  <2>3. CASE ~(from + k <= Len(out))
    <3> DEFINE j == from + k - Len(out)
    <3>1. j = k - p /\ j \in 1 .. length /\ j - 1 = (k - 1) - p
      BY <1>1, <2>3
    <3>2. Step(repeated, k) = repeated[j]
      BY <2>3
    <3> HIDE DEF j
    <3>3. repeated[j] = out[from + 1 + ((j - 1) % p)]
      BY <3>1
    <3>4. (j - 1) % p = (k - 1) % p
      <4>1. k - 1 \in Int
        OBVIOUS
      <4>2. ((k - 1) - p) % p = (k - 1) % p
        BY <1>1, <4>1, SameRemainder
      <4> QED BY <3>1, <4>2
    <3> HIDE DEF repeated
    <3> QED BY <2>1, <3>2, <3>3, <3>4
  <2> QED BY <2>2, <2>3
<1>3. repeated = [k \in 1 .. length |-> Step(repeated, k)]
  BY <1>2
<1>4. run = [k \in 1 .. length |-> Step(run, k)]
  BY <1>3 DEF RunOf
<1> HIDE DEF repeated, run
<1>5. ASSUME NEW k \in 1 .. length, run[k] # repeated[k],
             \A j \in 1 .. length : run[j] # repeated[j] => k <= j
      PROVE  FALSE
  <2>1. run[k] = Step(run, k) /\ repeated[k] = Step(repeated, k)
    BY <1>2, <1>4
  <2>2. from + k > Len(out)
    BY <1>5, <2>1
  <2> DEFINE j == from + k - Len(out)
  <2>3. j \in 1 .. length /\ j < k
    BY <2>2
  <2>4. Step(run, k) = run[j] /\ Step(repeated, k) = repeated[j]
    BY <2>2
  <2> HIDE DEF j
  <2>5. ~(k <= j)
    BY <2>3
  <2>6. run[j] = repeated[j]
    BY <1>5, <2>3, <2>5
  <2> HIDE DEF Step
  <2> QED BY <1>5, <2>1, <2>4, <2>6
<1>6. \A k \in 1 .. length : run[k] = repeated[k]
  <2> DEFINE Bad == {k \in 1 .. length : run[k] # repeated[k]}
  <2>1. Bad \in SUBSET Nat
    OBVIOUS
  <2>2. Bad = {}
    BY <1>5, <2>1, LeastElement
  <2> QED BY <2>2
<1>7. run = repeated
  BY <1>3, <1>4, <1>6
<1> QED BY <1>7 DEF run, repeated

-----------------------------------------------------------------------------
(***************************************************************************)
(* Types and cursors                                                       *)
(***************************************************************************)

\* The part of the invariant that the numbers and lengths matter for.
Inside == TypeOK /\ HasTrailer /\ ParserInside /\ Untouched /\ CursorsInside

\* The sizes the parser computes with.
LEMMA Sizes ==
    ASSUME TypeOK, HasTrailer
    PROVE  /\ Trailer \in Nat /\ CrcSize \in Nat /\ Len(patch) \in Nat
           /\ BodyEnd \in Int /\ BodyEnd <= Len(patch)
           /\ BodyEnd + CrcSize <= Len(patch) /\ BodyEnd + 2 * CrcSize <= Len(patch)
           /\ pc \notin {"load", "failed"} => BodyEnd >= 4
           /\ Len(source) \in Nat /\ Len(output) \in Nat
BY BPSAssumption DEF TypeOK, HasTrailer, Trailer, BodyEnd

\* A part of a string of bytes is bytes, as many as asked for.
LEMMA PartTyped ==
    ASSUME NEW bytes \in Seq(Byte), NEW from \in Nat, NEW n \in Nat, from + n <= Len(bytes)
    PROVE  /\ SubSeq(bytes, from + 1, from + n) \in Seq(Byte)
           /\ Len(SubSeq(bytes, from + 1, from + n)) = n
<1>1. \A i \in from + 1 .. from + n : bytes[i] \in Byte
  OBVIOUS
<1>2. Len(SubSeq(bytes, from + 1, from + n)) = n
  OBVIOUS
<1>3. SubSeq(bytes, from + 1, from + n) \in Seq(Byte)
  BY <1>1
<1> QED BY <1>2, <1>3

\* A copy from the output is bytes, as many as asked for.
LEMMA RunTyped ==
    ASSUME NEW out \in Seq(Byte), NEW from \in 0 .. Len(out) - 1, NEW length \in Nat
    PROVE  RunOf(out, from, length) \in Seq(Byte) /\ Len(RunOf(out, from, length)) = length
<1> DEFINE p == Len(out) - from
<1>1. p \in Nat \ {0} /\ from \in Nat /\ from + p = Len(out)
  OBVIOUS
<1> HIDE DEF p
<1>2. ASSUME NEW k \in 1 .. length PROVE out[from + 1 + ((k - 1) % p)] \in Byte
  <2>1. k - 1 \in Int
    OBVIOUS
  <2>2. (k - 1) % p \in 0 .. p - 1
    BY <1>1, <2>1, Remainder
  <2>3. from + 1 + ((k - 1) % p) \in 1 .. Len(out)
    BY <1>1, <2>2
  <2> QED BY <2>3
<1>3. RunOf(out, from, length) = [k \in 1 .. length |-> out[from + 1 + ((k - 1) % p)]]
  BY CopyRepeats DEF p
<1> QED BY <1>2, <1>3

LEMMA LoadInside == ASSUME Inside, Load PROVE Inside'
<1> USE DEF Load, Fail
<1>1. /\ pc = "load" /\ UNCHANGED <<patch, commands, checksums, applying>>
      /\ TypeOK /\ HasTrailer /\ ParserInside /\ Untouched
  BY DEF Inside
<1>2. CASE UNCHANGED header /\ UNCHANGED offset /\ pc' = "failed" /\ error' \in Errors
  BY <1>1, <1>2
     DEF TypeOK, HasTrailer, ParserInside, InPatch, Untouched, CursorsInside, checksums, applying,
         header, cursors, Inside
<1>3. CASE /\ Len(patch) >= 4 + Trailer
           /\ LET src == Decode(patch, 4)
                  target == Decode(patch, src.offset)
                  metadata == Decode(patch, target.offset)
              IN /\ src_size' = src.value
                 /\ target_size' = target.value
                 /\ offset' = metadata.offset + metadata.value
                 /\ data_offset' = offset'
                 /\ pc' = "parse" => /\ ~((metadata.offset + metadata.value) % Word > Len(patch))
                                     /\ ~(metadata.value > Len(patch))
           /\ pc' \in {"failed", "thrown", "parse"}
           /\ error' \in Errors \union {"none"}
  <2> DEFINE src == Decode(patch, 4)
             target == Decode(patch, src.offset)
             metadata == Decode(patch, target.offset)
  <2>1. Len(patch) >= 4 + Trailer
    BY <1>3
  <2>2. patch \in Seq(Byte)
    BY <1>1 DEF TypeOK
  <2>3. 4 \in 0 .. Len(patch)
    BY <1>1, <2>1, Sizes
  <2>4. src.value \in Number /\ src.offset \in 0 .. Len(patch)
    BY <2>2, <2>3, DecodeInside
  <2> HIDE DEF src
  <2>5. target.value \in Number /\ target.offset \in 0 .. Len(patch)
    BY <2>2, <2>4, DecodeInside
  <2> HIDE DEF target
  <2>6. metadata.value \in Nat /\ metadata.offset \in 0 .. Len(patch)
    BY <2>2, <2>5, DecodeInside DEF Number
  <2>7. /\ src_size' = src.value /\ target_size' = target.value
        /\ offset' = metadata.offset + metadata.value /\ data_offset' = offset'
        /\ pc' = "parse" => /\ ~((metadata.offset + metadata.value) % Word > Len(patch))
                            /\ ~(metadata.value > Len(patch))
    BY <1>3 DEF src, target
  <2> HIDE DEF metadata
  <2>8. offset' \in Nat /\ data_offset' \in Nat
    BY <2>6, <2>7
  <2>9. TypeOK'
    BY <1>1, <1>3, <2>4, <2>5, <2>7, <2>8 DEF TypeOK, checksums, applying, cursors
  <2>10. HasTrailer' /\ Untouched' /\ CursorsInside'
    BY <1>1, <1>3, <2>1 DEF HasTrailer, Trailer, Untouched, CursorsInside, applying, cursors
  <2>11. patch' = patch /\ Len(patch) \in Nat /\ 2 * Len(patch) < Word /\ Word \in Nat
    BY <1>1, <2>2, VarIntAssumption DEF ParserInside, InPatch
  <2>12. pc' = "parse" => offset' \in 0 .. Len(patch)
    <3> SUFFICES ASSUME pc' = "parse" PROVE offset' \in 0 .. Len(patch)
      OBVIOUS
    <3>1. metadata.value <= Len(patch)
      BY <2>6, <2>7, <2>11
    <3> DEFINE end == metadata.offset + metadata.value
    <3>2. end \in 0 .. Word - 1
      BY <2>6, <2>11, <3>1
    <3>3. ~(end % Word > Len(patch)) /\ offset' = end
      BY <2>7
    <3> HIDE DEF end
    <3>4. end % Word = end
      BY <2>11, <3>2
    <3>5. ~(end > Len(patch))
      BY <3>3, <3>4
    <3> QED BY <2>11, <3>2, <3>3, <3>5
  <2>13. ParserInside'
    BY <1>3, <2>7, <2>11, <2>12 DEF ParserInside, InPatch
  <2> QED BY <2>9, <2>10, <2>13 DEF Inside
<1>4. error \in Errors \union {"none"} /\ "InvalidPatchFormat" \in Errors /\ "InvalidPatchHeader" \in Errors
  BY <1>1 DEF TypeOK, Errors
<1> QED BY <1>2, <1>3, <1>4

\* A number encodes an action and a length of at least one.
LEMMA CommandTyped ==
    ASSUME NEW n \in Number, NEW delta \in Number
    PROVE  [action |-> ActionOf(n), length |-> LengthOf(n), offset_delta |-> delta] \in Command
<1>1. n \in Nat /\ n <= Word - 1 /\ Word \in Nat /\ Word >= 2
  BY VarIntAssumption DEF Number
<1>2. n % 4 \in 0 .. 3
  BY <1>1
<1>3. ActionOf(n) \in Action
  BY <1>2 DEF ActionOf, Action
<1>4. n \div 4 \in Nat /\ n \div 4 + 1 <= Word - 1
  BY <1>1
<1>5. LengthOf(n) \in Number \ {0}
  BY <1>1, <1>4 DEF LengthOf, Number
<1> QED BY <1>3, <1>5 DEF Command

LEMMA ParseInside == ASSUME Inside, ParseCommand \/ ParseTrailer PROVE Inside'
<1>1. TypeOK /\ HasTrailer /\ ParserInside /\ Untouched
  BY DEF Inside
<1>2. CASE ParseCommand
  <2> DEFINE encoded == Decode(patch, offset)
             delta == IF IsCopy(ActionOf(encoded.value)) THEN Decode(patch, encoded.offset)
                      ELSE [value |-> 0, offset |-> encoded.offset]
             command == [action |-> ActionOf(encoded.value), length |-> LengthOf(encoded.value),
                         offset_delta |-> delta.value]
  <2>1. /\ pc = "parse" /\ offset < BodyEnd
        /\ commands' = Append(commands, command) /\ offset' = delta.offset
        /\ UNCHANGED <<patch, pc, header, checksums, applying, error>>
    BY <1>2 DEF ParseCommand
  <2>2. patch \in Seq(Byte) /\ offset \in Nat /\ commands \in Seq(Command)
    BY <1>1 DEF TypeOK
  <2>3. offset \in 0 .. Len(patch)
    BY <1>1, <2>1, <2>2, Sizes
  <2>4. encoded.value \in Number /\ encoded.offset \in offset .. Len(patch)
    BY <2>2, <2>3, DecodeInside
  <2>5. encoded.offset \in 0 .. Len(patch)
    BY <2>3, <2>4
  <2> HIDE DEF encoded
  <2>6. /\ Decode(patch, encoded.offset).value \in Number
        /\ Decode(patch, encoded.offset).offset \in encoded.offset .. Len(patch)
    <3>1. Decode(patch, encoded.offset).offset \in encoded.offset .. Len(patch)
      BY <2>2, <2>5, DecodeInside
    <3> QED BY <2>2, <2>5, <3>1, DecodeInside
  <2>7. 0 \in Number /\ encoded.offset \in Nat
    BY <2>5, VarIntAssumption DEF Number
  <2>8. /\ delta.value \in Number
        /\ delta.offset \in encoded.offset .. Len(patch) /\ delta.offset \in Nat
    BY <2>4, <2>5, <2>6, <2>7
  <2> HIDE DEF delta
  <2>9. command \in Command
    BY <2>4, <2>8, CommandTyped
  <2> HIDE DEF command
  <2>10. commands' \in Seq(Command) /\ next \in 1 .. Len(commands') + 1
    <3> HIDE DEF Command
    <3>1. commands' \in Seq(Command) /\ Len(commands') = Len(commands) + 1
      BY <2>1, <2>2, <2>9
    <3> QED BY <1>1, <3>1 DEF TypeOK
  <2>11. TypeOK'
    BY <1>1, <2>1, <2>8, <2>10 DEF TypeOK, header, checksums, applying, cursors
  <2>12. HasTrailer' /\ Untouched' /\ CursorsInside'
    BY <1>1, <2>1 DEF HasTrailer, Trailer, Untouched, CursorsInside, applying, cursors
  <2>13. ParserInside'
    <3>1. data_offset \in 0 .. offset /\ data_offset' = data_offset /\ patch' = patch
      BY <1>1, <2>1 DEF ParserInside, InPatch, header
    <3>2. offset' \in offset .. Len(patch)
      BY <2>1, <2>3, <2>4, <2>8
    <3>3. offset' \in 0 .. Len(patch) /\ data_offset \in 0 .. offset'
      BY <2>3, <3>1, <3>2
    <3> QED BY <1>1, <3>1, <3>3 DEF ParserInside, InPatch
  <2> QED BY <2>11, <2>12, <2>13 DEF Inside
<1>3. CASE ParseTrailer
  <2>1. /\ BodyEnd \in Nat /\ CrcSize \in Nat /\ Len(patch) \in Nat
        /\ BodyEnd + CrcSize <= Len(patch) /\ BodyEnd + 2 * CrcSize <= Len(patch)
    BY <1>1, <1>3, Sizes DEF ParseTrailer
  <2>2. patch \in Seq(Byte) /\ BodyEnd + CrcSize \in Nat /\ BodyEnd + 2 * CrcSize \in Nat
        /\ Len(patch) - (BodyEnd + 2 * CrcSize) \in Nat
        /\ BodyEnd + CrcSize + CrcSize = BodyEnd + 2 * CrcSize
        /\ BodyEnd + 2 * CrcSize + (Len(patch) - (BodyEnd + 2 * CrcSize)) = Len(patch)
    BY <1>1, <2>1 DEF TypeOK
  <2>3. SubSeq(patch, BodyEnd + 1, BodyEnd + CrcSize) \in Seq(Byte)
    BY <2>1, <2>2, PartTyped
  <2>4. SubSeq(patch, BodyEnd + CrcSize + 1, BodyEnd + CrcSize + CrcSize) \in Seq(Byte)
    BY <2>1, <2>2, PartTyped
  <2> DEFINE rest == Len(patch) - (BodyEnd + 2 * CrcSize)
  <2>5. SubSeq(patch, BodyEnd + 2 * CrcSize + 1, BodyEnd + 2 * CrcSize + rest) \in Seq(Byte)
    BY <2>1, <2>2, PartTyped
  <2>6. /\ src_crc' \in Seq(Byte) /\ target_crc' \in Seq(Byte) /\ patch_crc' \in Seq(Byte)
        /\ pc = "parse" /\ pc' = "loaded"
        /\ UNCHANGED <<patch, offset, header, commands, applying, error>>
    BY <1>3, <2>2, <2>3, <2>4, <2>5 DEF ParseTrailer
  <2> QED
    BY <1>1, <2>6
       DEF Inside, TypeOK, HasTrailer, ParserInside, InPatch, Trailer, Untouched, CursorsInside,
           header, applying, cursors
<1> QED BY <1>2, <1>3

LEMMA ApplyInside == ASSUME Inside, Apply PROVE Inside'
<1>1. /\ TypeOK /\ HasTrailer /\ ParserInside /\ Untouched /\ pc \in {"loaded", "valid"}
      /\ verify' \in BOOLEAN
      /\ pc' \in {"failed", "thrown", "apply"} /\ error' \in Errors \union {error}
      /\ patch_data_offset' = data_offset
      /\ UNCHANGED <<parsed, source, next, output, source_rel_offset, target_rel_offset>>
  BY DEF Inside, Apply, Fail, Errors
<1>2. TypeOK'
  BY <1>1 DEF TypeOK, parsed, header, checksums
<1>3. HasTrailer' /\ ParserInside' /\ Untouched'
  BY <1>1 DEF HasTrailer, ParserInside, InPatch, Trailer, Untouched, parsed, header
<1>4. source_rel_offset = 0 /\ target_rel_offset = 0 /\ Len(source) \in Nat /\ Len(output) \in Nat
  BY <1>1, Sizes DEF Untouched
<1>5. CursorsInside'
  BY <1>1, <1>4 DEF CursorsInside, parsed, header
<1> QED BY <1>2, <1>3, <1>5 DEF Inside

\* What is appended is bytes, unless memory ran out.
LEMMA EmitTyped ==
    ASSUME TypeOK, pc = "apply", NEW bytes \in Seq(Byte), Emit(bytes)
    PROVE  /\ output' \in Seq(Byte) /\ pc' \in {"apply", "thrown"} /\ UNCHANGED error
           /\ pc' = "apply" => Len(output') = Len(output) + Len(bytes)
<1>1. output \in Seq(Byte)
  BY DEF TypeOK
<1>2. output \o bytes \in Seq(Byte) /\ Len(output \o bytes) = Len(output) + Len(bytes)
  BY <1>1
<1> QED BY <1>1, <1>2 DEF Emit

\* What a command may do: end the call, or write and leave each cursor inside.
LEMMA CommandInside ==
    ASSUME Inside, NEW action, Running(action), output' \in Seq(Byte),
           error' \in Errors \union {error},
           pc' \in {"apply", "thrown", "failed"},
           source_rel_offset' \in Int, target_rel_offset' \in Int, patch_data_offset' \in Nat,
           pc' = "apply" =>
              /\ source_rel_offset' \in 0 .. Len(source) /\ target_rel_offset' \in 0 .. Len(output')
              /\ patch_data_offset' \in {patch_data_offset} \union 0 .. BodyEnd
    PROVE  Inside'
<1>1. /\ TypeOK /\ HasTrailer /\ ParserInside /\ CursorsInside
      /\ pc = "apply" /\ next <= Len(commands)
      /\ next' = next + 1 /\ UNCHANGED <<parsed, source, verify>>
  BY DEF Inside, Running
<1>2. UNCHANGED <<patch, offset, src_size, target_size, data_offset, commands, checksums>>
  BY <1>1 DEF parsed, header
<1>3. next' \in 1 .. Len(commands') + 1
  BY <1>1, <1>2 DEF TypeOK
<1>4. TypeOK'
  BY <1>1, <1>2, <1>3 DEF TypeOK, checksums
<1>5. HasTrailer' /\ ParserInside' /\ Untouched'
  BY <1>1, <1>2 DEF HasTrailer, ParserInside, InPatch, Trailer, Untouched
<1>6. BodyEnd \in Int /\ BodyEnd' = BodyEnd
  BY <1>1, <1>2, Sizes DEF BodyEnd, Trailer
<1>7. CursorsInside'
  <2>1. patch_data_offset = data_offset \/ patch_data_offset <= BodyEnd
    BY <1>1 DEF CursorsInside
  <2>2. pc' = "apply" => patch_data_offset' = data_offset' \/ patch_data_offset' <= BodyEnd'
    BY <1>2, <1>6, <2>1
  <2> QED BY <1>1, <2>2 DEF CursorsInside
<1> QED BY <1>4, <1>5, <1>7 DEF Inside

\* Where the cursors are when a command runs.
LEMMA AtCommand ==
    ASSUME Inside, NEW action, Running(action)
    PROVE  /\ TypeOK /\ pc = "apply"
           /\ commands[next].length \in Nat \ {0} /\ commands[next].offset_delta \in Nat
           /\ source \in Seq(Byte) /\ output \in Seq(Byte) /\ patch \in Seq(Byte)
           /\ source_rel_offset \in 0 .. Len(source) /\ target_rel_offset \in 0 .. Len(output)
           /\ patch_data_offset \in Nat
           /\ BodyEnd \in Int /\ BodyEnd <= Len(patch) /\ Len(source) \in Nat /\ Len(output) \in Nat
<1>1. TypeOK /\ HasTrailer /\ CursorsInside /\ pc = "apply" /\ next <= Len(commands)
  BY DEF Inside, Running
<1>2. commands[next] \in Command
  <2>1. commands \in Seq(Command) /\ next \in 1 .. Len(commands)
    BY <1>1 DEF TypeOK
  <2> HIDE DEF Command
  <2> QED BY <2>1
<1>3. commands[next].length \in Nat \ {0} /\ commands[next].offset_delta \in Nat
  BY <1>2, VarIntAssumption DEF Command, Number
<1>4. source_rel_offset \in 0 .. Len(source) /\ target_rel_offset \in 0 .. Len(output)
  BY <1>1 DEF CursorsInside
<1>5. /\ source \in Seq(Byte) /\ output \in Seq(Byte) /\ patch \in Seq(Byte)
      /\ patch_data_offset \in Nat
  BY <1>1 DEF TypeOK
<1> QED BY <1>1, <1>3, <1>4, <1>5, Sizes

\* A command that is refused ends the call where it is.
LEMMA RejectInside == ASSUME Inside, NEW action, Running(action), Reject PROVE Inside'
<1>1. /\ output' = output /\ error' \in Errors \union {error} /\ pc' = "failed"
      /\ source_rel_offset' = source_rel_offset /\ target_rel_offset' = target_rel_offset
      /\ patch_data_offset' = patch_data_offset
  BY DEF Reject, Fail, Errors, cursors
<1>2. /\ output' \in Seq(Byte) /\ source_rel_offset' \in Int /\ target_rel_offset' \in Int
      /\ patch_data_offset' \in Nat
  BY <1>1, AtCommand
<1> QED BY <1>1, <1>2, CommandInside

\* A distance moves a cursor to a whole position.
LEMMA MovedTyped ==
    ASSUME NEW cursor \in Int, NEW delta \in Nat
    PROVE  Moved(cursor, delta) \in Int
BY DEF Moved

LEMMA ReadsInside == ASSUME Inside, SourceRead \/ TargetRead PROVE Inside'
<1>1. CASE SourceRead
  <2> DEFINE length == commands[next].length
             end == source_rel_offset + length
             bytes == SubSeq(source, source_rel_offset + 1, end)
  <2>1. /\ Running("SourceRead")
        /\ \/ Reject
           \/ /\ end <= Len(source) /\ Emit(bytes) /\ source_rel_offset' = end
              /\ UNCHANGED <<target_rel_offset, patch_data_offset>>
    BY <1>1 DEF SourceRead
  <2>2. SUFFICES ASSUME end <= Len(source), Emit(bytes), source_rel_offset' = end,
                        UNCHANGED <<target_rel_offset, patch_data_offset>>
                 PROVE  Inside'
    BY <2>1, RejectInside
  <2>3. /\ TypeOK /\ pc = "apply" /\ length \in Nat \ {0} /\ source \in Seq(Byte)
        /\ source_rel_offset \in 0 .. Len(source) /\ target_rel_offset \in 0 .. Len(output)
        /\ patch_data_offset \in Nat /\ Len(source) \in Nat /\ Len(output) \in Nat
    BY <2>1, AtCommand
  <2> HIDE DEF length
  <2>4. bytes \in Seq(Byte) /\ Len(bytes) = length
    BY <2>2, <2>3, PartTyped
  <2> HIDE DEF bytes
  <2>5. /\ output' \in Seq(Byte) /\ pc' \in {"apply", "thrown"} /\ UNCHANGED error
        /\ pc' = "apply" => Len(output') = Len(output) + length
    BY <2>2, <2>3, <2>4, EmitTyped
  <2>6. source_rel_offset' \in 0 .. Len(source)
    BY <2>2, <2>3
  <2>7. pc' = "apply" => target_rel_offset' \in 0 .. Len(output')
    BY <2>2, <2>3, <2>5
  <2>8. target_rel_offset' \in Int /\ patch_data_offset' = patch_data_offset /\ source_rel_offset' \in Int
    BY <2>2, <2>3, <2>6
  <2> QED BY <2>1, <2>3, <2>5, <2>6, <2>7, <2>8, CommandInside
<1>2. CASE TargetRead
  <2> DEFINE length == commands[next].length
             end == patch_data_offset + length
             bytes == SubSeq(patch, patch_data_offset + 1, end)
  <2>1. /\ Running("TargetRead")
        /\ \/ Reject
           \/ /\ end <= BodyEnd /\ Emit(bytes) /\ patch_data_offset' = end
              /\ UNCHANGED <<source_rel_offset, target_rel_offset>>
    BY <1>2 DEF TargetRead
  <2>2. SUFFICES ASSUME end <= BodyEnd, Emit(bytes), patch_data_offset' = end,
                        UNCHANGED <<source_rel_offset, target_rel_offset>>
                 PROVE  Inside'
    BY <2>1, RejectInside
  <2>3. /\ TypeOK /\ pc = "apply" /\ length \in Nat \ {0} /\ patch \in Seq(Byte)
        /\ source_rel_offset \in 0 .. Len(source) /\ target_rel_offset \in 0 .. Len(output)
        /\ patch_data_offset \in Nat /\ Len(source) \in Nat /\ Len(output) \in Nat
        /\ BodyEnd \in Int /\ BodyEnd <= Len(patch)
    BY <2>1, AtCommand
  <2> HIDE DEF length
  <2>4. bytes \in Seq(Byte) /\ Len(bytes) = length
    <3>1. patch_data_offset + length <= Len(patch)
      BY <2>2, <2>3
    <3> QED BY <2>3, <3>1, PartTyped
  <2> HIDE DEF bytes
  <2>5. /\ output' \in Seq(Byte) /\ pc' \in {"apply", "thrown"} /\ UNCHANGED error
        /\ pc' = "apply" => Len(output') = Len(output) + length
    BY <2>2, <2>3, <2>4, EmitTyped
  <2>6. patch_data_offset' \in 0 .. BodyEnd /\ patch_data_offset' \in Nat
    BY <2>2, <2>3
  <2>7. pc' = "apply" => target_rel_offset' \in 0 .. Len(output')
    BY <2>2, <2>3, <2>5
  <2>8. /\ target_rel_offset' \in Int /\ source_rel_offset' \in Int
        /\ source_rel_offset' \in 0 .. Len(source)
    BY <2>2, <2>3
  <2> QED BY <2>1, <2>5, <2>6, <2>7, <2>8, CommandInside
<1> QED BY <1>1, <1>2

LEMMA CopiesInside == ASSUME Inside, SourceCopy \/ TargetCopy PROVE Inside'
<1>1. CASE SourceCopy
  <2> DEFINE length == commands[next].length
             from == Moved(source_rel_offset, commands[next].offset_delta)
             bytes == SubSeq(source, from + 1, from + length)
  <2>1. /\ Running("SourceCopy")
        /\ \/ Reject
           \/ /\ InSource(from, length) /\ Emit(bytes) /\ source_rel_offset' = from + length
              /\ UNCHANGED <<target_rel_offset, patch_data_offset>>
    BY <1>1 DEF SourceCopy, BehindCopy
  <2>2. SUFFICES ASSUME InSource(from, length), Emit(bytes), source_rel_offset' = from + length,
                        UNCHANGED <<target_rel_offset, patch_data_offset>>
                 PROVE  Inside'
    BY <2>1, RejectInside
  <2>3. /\ TypeOK /\ pc = "apply" /\ length \in Nat \ {0} /\ source \in Seq(Byte)
        /\ source_rel_offset \in Int /\ commands[next].offset_delta \in Nat
        /\ target_rel_offset \in 0 .. Len(output)
        /\ patch_data_offset \in Nat /\ Len(source) \in Nat /\ Len(output) \in Nat
    BY <2>1, AtCommand
  <2>4. from \in Nat /\ from + length <= Len(source)
    <3>1. from \in Int
      BY <2>3, MovedTyped
    <3> QED BY <2>2, <3>1 DEF InSource
  <2> HIDE DEF length, from
  <2>5. bytes \in Seq(Byte) /\ Len(bytes) = length
    BY <2>3, <2>4, PartTyped
  <2> HIDE DEF bytes
  <2>6. /\ output' \in Seq(Byte) /\ pc' \in {"apply", "thrown"} /\ UNCHANGED error
        /\ pc' = "apply" => Len(output') = Len(output) + length
    BY <2>2, <2>3, <2>5, EmitTyped
  <2>7. source_rel_offset' \in 0 .. Len(source) /\ source_rel_offset' \in Int
    BY <2>2, <2>3, <2>4
  <2>8. pc' = "apply" => target_rel_offset' \in 0 .. Len(output')
    BY <2>2, <2>3, <2>6
  <2>9. target_rel_offset' \in Int /\ patch_data_offset' = patch_data_offset
    BY <2>2, <2>3
  <2> QED BY <2>1, <2>3, <2>6, <2>7, <2>8, <2>9, CommandInside
<1>2. CASE TargetCopy
  <2> DEFINE length == commands[next].length
             from == Moved(target_rel_offset, commands[next].offset_delta)
             bytes == RunOf(output, from, length)
  <2>1. /\ Running("TargetCopy")
        /\ \/ Reject
           \/ /\ from \in 0 .. Len(output) - 1 /\ Emit(bytes) /\ target_rel_offset' = from + length
              /\ UNCHANGED <<source_rel_offset, patch_data_offset>>
    BY <1>2 DEF TargetCopy, BehindCopy
  <2>2. SUFFICES ASSUME from \in 0 .. Len(output) - 1, Emit(bytes), target_rel_offset' = from + length,
                        UNCHANGED <<source_rel_offset, patch_data_offset>>
                 PROVE  Inside'
    BY <2>1, RejectInside
  <2>3. /\ TypeOK /\ pc = "apply" /\ length \in Nat \ {0} /\ output \in Seq(Byte)
        /\ source_rel_offset \in 0 .. Len(source)
        /\ patch_data_offset \in Nat /\ Len(source) \in Nat /\ Len(output) \in Nat
    BY <2>1, AtCommand
  <2> HIDE DEF length, from
  <2>4. bytes \in Seq(Byte) /\ Len(bytes) = length
    BY <2>2, <2>3, RunTyped
  <2> HIDE DEF bytes
  <2>5. /\ output' \in Seq(Byte) /\ pc' \in {"apply", "thrown"} /\ UNCHANGED error
        /\ pc' = "apply" => Len(output') = Len(output) + length
    BY <2>2, <2>3, <2>4, EmitTyped
  <2>6. target_rel_offset' \in Int /\ (pc' = "apply" => target_rel_offset' \in 0 .. Len(output'))
    BY <2>2, <2>3, <2>5
  <2>7. /\ source_rel_offset' \in 0 .. Len(source) /\ source_rel_offset' \in Int
        /\ patch_data_offset' = patch_data_offset
    BY <2>2, <2>3
  <2> QED BY <2>1, <2>3, <2>5, <2>6, <2>7, CommandInside
<1> QED BY <1>1, <1>2

\* The steps that write nothing.
LEMMA OthersInside == ASSUME Inside, Validate \/ Finish \/ UNCHANGED vars PROVE Inside'
<1>1. CASE Validate
  <2>1. /\ pc = "loaded" /\ pc' \in {"valid", "failed"} /\ error' \in Errors \union {error}
        /\ UNCHANGED <<parsed, applying>>
    BY <1>1 DEF Validate, Fail, Errors
  <2> QED
    BY <2>1 DEF Inside, TypeOK, HasTrailer, ParserInside, InPatch, Trailer, Untouched, CursorsInside,
                parsed, header, checksums, applying, cursors
<1>2. CASE Finish
  <2>1. /\ pc = "apply" /\ pc' \in {"done", "failed"} /\ error' \in Errors \union {error}
        /\ UNCHANGED <<parsed, applying>>
    BY <1>2 DEF Finish, Fail, Errors
  <2>2. TypeOK' /\ HasTrailer' /\ ParserInside' /\ Untouched'
    BY <2>1 DEF Inside, TypeOK, HasTrailer, ParserInside, InPatch, Trailer, Untouched,
                parsed, header, checksums, applying, cursors
  <2>3. CursorsInside'
    BY <2>1 DEF Inside, CursorsInside, BodyEnd, Trailer, parsed, header, applying, cursors
  <2> QED BY <2>2, <2>3 DEF Inside
<1>3. CASE UNCHANGED vars
  BY <1>3 DEF vars, Inside, TypeOK, HasTrailer, ParserInside, InPatch, Trailer, Untouched, CursorsInside, BodyEnd,
              checksums, header, cursors
<1> QED BY <1>1, <1>2, <1>3

LEMMA InsideKeeps == ASSUME Inside, [Next]_vars PROVE Inside'
BY LoadInside, ParseInside, ApplyInside, ReadsInside, CopiesInside, OthersInside DEF Next

\* The invariant holds before anything is loaded.
LEMMA BlankHolds ==
    ASSUME patch \in Seq(Byte), 2 * Len(patch) < Word, source \in Seq(Byte), offset \in {0, 4},
           pc = "load", src_size = 0, target_size = 0, data_offset = 0, commands = <<>>,
           src_crc = <<>>, target_crc = <<>>, patch_crc = <<>>, verify = FALSE,
           next = 1, output = <<>>, error = "none",
           source_rel_offset = 0, target_rel_offset = 0, patch_data_offset = 0
    PROVE  IInv
<1>1. 0 \in Number /\ offset \in Nat
  BY VarIntAssumption DEF Number
<1>2. TypeOK
  <2>1. output \in Seq(Byte) /\ commands \in Seq(Command)
    OBVIOUS
  <2>2. src_crc \in Seq(Byte) /\ target_crc \in Seq(Byte) /\ patch_crc \in Seq(Byte)
    OBVIOUS
  <2>3. src_size \in Number /\ target_size \in Number
    BY <1>1
  <2>4. next \in 1 .. Len(commands) + 1 /\ data_offset \in Nat
    OBVIOUS
  <2>6. verify \in BOOLEAN
    OBVIOUS
  <2>5. source_rel_offset \in Int /\ target_rel_offset \in Int /\ patch_data_offset \in Nat
    OBVIOUS
  <2> QED BY <1>1, <2>1, <2>2, <2>3, <2>4, <2>5, <2>6 DEF TypeOK
<1> QED
  BY <1>2 DEF IInv, HasTrailer, ParserInside, InPatch, Untouched, CursorsInside, SourceAccepted, OutputAccepted

\* So it does at the start.
LEMMA InitHolds == Init => IInv
BY BlankHolds, BPSAssumption DEF Init

\* It holds between two calls, once nothing is written and no cursor has moved.
LEMMA BetweenCalls ==
    ASSUME IInv, Len(patch) >= 4 + Trailer, InPatch, pc' = "loaded",
           source' \in {source, output}, output' = <<>>, next' \in {1, next},
           source_rel_offset' = 0, target_rel_offset' = 0,
           patch_data_offset' \in {patch_data_offset, 0},
           error' \in {error, "none"}, UNCHANGED <<parsed, verify>>
    PROVE  IInv'
<1>1. next' \in 1 .. Len(commands) + 1 /\ output' \in Seq(Byte)
  BY DEF IInv, TypeOK
<1>2. source' \in Seq(Byte) /\ patch_data_offset' \in Nat
  BY DEF IInv, TypeOK
<1>3. TypeOK' /\ HasTrailer'
  BY <1>1, <1>2 DEF IInv, TypeOK, HasTrailer, Trailer, parsed, header, checksums
<1>4. ParserInside'
  BY DEF IInv, ParserInside, InPatch, parsed, header
<1> QED
  BY <1>3, <1>4 DEF IInv, Untouched, CursorsInside, SourceAccepted, OutputAccepted

\* Every step keeps the invariant.
LEMMA StepHolds == IInv /\ [Next]_vars => IInv'
BY InsideKeeps, StepKeeps DEF IInv, Inside, AcceptedBothEnds

-----------------------------------------------------------------------------
\* The inductive invariant, for any bytes taken for a patch or a source
\* (bps.cc:51-106, 150-257).
THEOREM Invariance == Spec => []IInv
BY InitHolds, StepHolds, PTL DEF Spec

\* The parser stays inside the patch and gives every command an action, a length
\* of at least one and a distance, for any bytes whatever (bps.cc:51-106).
THEOREM TypeCorrect == Spec => [](TypeOK /\ ParserInside)
<1>1. IInv => TypeOK /\ ParserInside
  BY DEF IInv
<1> QED BY <1>1, Invariance, PTL

\* No sequence of commands moves a cursor out of the source, the output or the
\* part of the patch it reads (bps.cc:176-231).
THEOREM CursorsStayInside == Spec => []CursorsInside
<1>1. IInv => CursorsInside
  BY DEF IInv
<1> QED BY <1>1, Invariance, PTL

-----------------------------------------------------------------------------
(***************************************************************************)
(* What a script means                                                     *)
(***************************************************************************)

\* The equation of Meaning: each command runs on what those before it left.
LEMMA MeaningFollow ==
    ASSUME NEW s, NEW cs \in Seq(Order)
    PROVE  /\ Meaning(s, cs)[0] = [ok |-> TRUE, out |-> <<>>, src |-> 0, tgt |-> 0]
           /\ \A k \in 1 .. Len(cs) : Meaning(s, cs)[k] = After(s, Meaning(s, cs)[k - 1], cs[k])
<1> DEFINE Blank == [ok |-> TRUE, out |-> <<>>, src |-> 0, tgt |-> 0]
           Then(acc, k) == After(s, acc, cs[k])
           Follows(f, m) == /\ f = [k \in 0 .. m |-> f[k]] /\ f[0] = Blank
                            /\ \A k \in 1 .. m : f[k] = Then(f[k - 1], k)
           S == {m \in Nat : \E f : Follows(f, m)}
<1> HIDE DEF Blank, Then
<1>1. 0 \in S
  <2>1. Follows([k \in 0 .. 0 |-> Blank], 0)
    OBVIOUS
  <2> QED BY <2>1
<1>2. ASSUME NEW m \in Nat, m \in S PROVE m + 1 \in S
  <2>1. PICK f : Follows(f, m)
    BY <1>2
  <2> DEFINE g == [k \in 0 .. m + 1 |-> IF k = m + 1 THEN Then(f[m], m + 1) ELSE f[k]]
  <2>2. g = [k \in 0 .. m + 1 |-> g[k]] /\ g[0] = Blank
    BY <2>1
  <2>3. ASSUME NEW k \in 1 .. m + 1 PROVE g[k] = Then(g[k - 1], k)
    <3>1. k \in 0 .. m + 1 /\ k - 1 \in 0 .. m + 1 /\ k - 1 # m + 1
      OBVIOUS
    <3>2. g[k - 1] = f[k - 1]
      BY <3>1
    <3>3. CASE k = m + 1
      <4>1. g[k] = Then(f[m], m + 1) /\ k - 1 = m
        BY <3>1, <3>3
      <4> QED BY <3>2, <3>3, <4>1
    <3>4. CASE k # m + 1
      <4>1. g[k] = f[k] /\ k \in 1 .. m
        BY <3>1, <3>4
      <4> QED BY <2>1, <3>2, <4>1
    <3> QED BY <3>3, <3>4
  <2>4. Follows(g, m + 1)
    BY <2>2, <2>3
  <2> HIDE DEF g, Follows
  <2>5. m + 1 \in Nat /\ \E h : Follows(h, m + 1)
    BY <2>4
  <2> QED BY <2>5
<1>3. \A m \in Nat : m \in S
  <2> HIDE DEF S
  <2> QED BY <1>1, <1>2, Induction
<1> DEFINE n == Len(cs)
<1>4. n \in Nat
  <2> HIDE DEF Order
  <2> QED OBVIOUS
<1> HIDE DEF n
<1>5. PICK f : Follows(f, n)
  BY <1>3, <1>4
<1>6. f = [k \in 0 .. n |-> IF k = 0 THEN Blank ELSE Then(f[k - 1], k)]
  <2>1. ASSUME NEW k \in 0 .. n
        PROVE  f[k] = IF k = 0 THEN Blank ELSE Then(f[k - 1], k)
    <3>1. CASE k = 0
      BY <1>5, <3>1
    <3>2. CASE k # 0
      <4>1. k \in 1 .. n
        BY <1>4, <3>2
      <4> QED BY <1>5, <3>2, <4>1
    <3> QED BY <3>1, <3>2
  <2>2. f = [k \in 0 .. n |-> f[k]]
    BY <1>5
  <2> QED BY <2>1, <2>2
<1> DEFINE acc == Meaning(s, cs)
<1>7. acc = [k \in 0 .. n |-> IF k = 0 THEN Blank ELSE Then(acc[k - 1], k)]
  BY <1>6 DEF Meaning, Blank, Then, n
<1> HIDE DEF acc
<1>8. acc[0] = Blank /\ \A k \in 1 .. n : acc[k] = Then(acc[k - 1], k)
  <2> DEFINE Value(k) == IF k = 0 THEN Blank ELSE Then(acc[k - 1], k)
  <2>1. \A k \in 0 .. n : acc[k] = Value(k)
    <3> HIDE DEF Value
    <3>1. acc = [k \in 0 .. n |-> Value(k)]
      BY <1>7 DEF Value
    <3> QED BY <3>1
  <2>2. 0 \in 0 .. n /\ \A k \in 1 .. n : k \in 0 .. n /\ k # 0
    BY <1>4
  <2>3. Value(0) = Blank /\ \A k \in 1 .. n : Value(k) = Then(acc[k - 1], k)
    BY <2>2
  <2> HIDE DEF Value
  <2> QED BY <2>1, <2>2, <2>3
<1> QED BY <1>8 DEF acc, Blank, Then, n

\* A command of a script, with the numbers its parts are.
LEMMA OrderIs ==
    ASSUME NEW cs \in Seq(Order), NEW k \in 1 .. Len(cs)
    PROVE  /\ cs[k] \in Order /\ cs[k].action \in Action
           /\ cs[k].length \in Nat \ {0} /\ cs[k].length \in 1 .. Word \div 4
           /\ cs[k].distance \in Int /\ cs[k].data \in Seq(Byte)
           /\ 1 - Word < 2 * cs[k].distance /\ 2 * cs[k].distance < Word
<1>1. cs[k] \in Order
  <2> HIDE DEF Order
  <2> QED OBVIOUS
<1>2. /\ cs[k] \in [action : Action, length : 1 .. Word \div 4, distance : Int, data : Seq(Byte)]
      /\ 1 - Word < 2 * cs[k].distance /\ 2 * cs[k].distance < Word
  BY <1>1 DEF Order
<1>3. Word \div 4 \in Int
  BY VarIntAssumption
<1> HIDE DEF Byte
<1>4. cs[k].length \in 1 .. Word \div 4 /\ cs[k].action \in Action
  BY <1>2
<1>5. cs[k].distance \in Int /\ cs[k].data \in Seq(Byte)
  BY <1>2
<1>6. cs[k].length \in Nat \ {0}
  <2> DEFINE most == Word \div 4
             length == cs[k].length
  <2>1. most \in Int /\ length \in 1 .. most
    BY <1>3, <1>4
  <2> HIDE DEF most, length
  <2>2. length \in Nat \ {0}
    BY <2>1
  <2> QED BY <2>2 DEF length
<1> QED BY <1>1, <1>2, <1>4, <1>5, <1>6

\* A command without a new byte in it that is legal appends as many as it says.
LEMMA AfterTyped ==
    ASSUME NEW s \in Seq(Byte), NEW acc, acc.out \in Seq(Byte), acc.src \in Int, acc.tgt \in Int,
           acc.ok, NEW c, c.action \in {"SourceRead", "SourceCopy", "TargetCopy"},
           c.length \in Nat \ {0}, c.distance \in Int, Legal(s, acc, c)
    PROVE  LET after == After(s, acc, c)
           IN /\ after.out = acc.out \o Bytes(s, acc, c)
              /\ Bytes(s, acc, c) \in Seq(Byte) /\ Len(Bytes(s, acc, c)) = c.length
              /\ after.out \in Seq(Byte) /\ Len(after.out) = Len(acc.out) + c.length
              /\ after.src \in Int /\ after.tgt \in Int /\ after.ok
<1> DEFINE from == From(acc, c)
           bytes == Bytes(s, acc, c)
           after == After(s, acc, c)
<1>1. c.action \in {"SourceRead", "SourceCopy", "TargetCopy"} /\ c.length \in Nat \ {0} /\ c.distance \in Int
  OBVIOUS
<1>2. /\ after.out = acc.out \o bytes /\ after.ok
      /\ after.src \in {acc.src, from + c.length} /\ after.tgt \in {acc.tgt, from + c.length}
  BY DEF After
<1> HIDE DEF after
<1>3. from \in Int
  <2>1. Len(acc.out) \in Int
    OBVIOUS
  <2>2. CASE c.action = "SourceRead"
    BY <2>1, <2>2 DEF From
  <2>3. CASE c.action = "SourceCopy"
    BY <1>1, <2>3 DEF From
  <2>4. CASE c.action = "TargetCopy"
    BY <1>1, <2>4 DEF From
  <2> QED BY <1>1, <2>2, <2>3, <2>4
<1>4. bytes \in Seq(Byte) /\ Len(bytes) = c.length
  <2>1. CASE c.action \in {"SourceRead", "SourceCopy"}
    <3>1. 0 <= from /\ from + c.length <= Len(s)
      BY <2>1 DEF Legal
    <3>2. bytes = SubSeq(s, from + 1, from + c.length)
      BY <2>1 DEF Bytes
    <3> HIDE DEF from, bytes
    <3>3. from \in Nat
      BY <1>3, <3>1
    <3> QED BY <1>1, <3>1, <3>2, <3>3, PartTyped
  <2>2. CASE c.action = "TargetCopy"
    <3>1. from \in 0 .. Len(acc.out) - 1
      BY <2>2 DEF Legal
    <3>2. bytes = [i \in 1 .. c.length |-> acc.out[from + 1 + ((i - 1) % (Len(acc.out) - from))]]
      BY <2>2 DEF Bytes
    <3> HIDE DEF from, bytes
    <3>3. bytes = RunOf(acc.out, from, c.length)
      BY <1>1, <3>1, <3>2, CopyRepeats
    <3> QED BY <1>1, <3>1, <3>3, RunTyped
  <2> QED BY <1>1, <2>1, <2>2
<1> HIDE DEF from, bytes
<1>5. after.out \in Seq(Byte) /\ Len(after.out) = Len(acc.out) + c.length
  <2>1. acc.out \o bytes \in Seq(Byte) /\ Len(acc.out \o bytes) = Len(acc.out) + Len(bytes)
    BY <1>4, Joined
  <2> QED BY <1>2, <1>4, <2>1
<1>6. after.src \in Int /\ after.tgt \in Int
  BY <1>1, <1>2, <1>3
<1> QED BY <1>2, <1>4, <1>5, <1>6 DEF bytes, after

-----------------------------------------------------------------------------
(***************************************************************************)
(* What an encoder made                                                    *)
(***************************************************************************)

\* A job of the encoder: what it made, of what, and for what.
LEMMA MadeOf ==
    ASSUME NEW m \in Made
    PROVE  /\ m.from \in Seq(Byte) /\ Len(m.from) \in Number
           /\ m.script \in Seq(Order) /\ Len(m.script) \in Nat
           /\ HasMeaning(m.from, m.script)
           /\ m.to = Meaning(m.from, m.script)[Len(m.script)].out
           /\ m.bytes = MadeFor(m.from, m.to, m.script)
<1>1. PICK j \in Sources \X Scripts :
        /\ HasMeaning(j[1], j[2])
        /\ m = LET t == Result(j[1], j[2]).out
               IN [bytes |-> MadeFor(j[1], t, j[2]), from |-> j[1], to |-> t, script |-> j[2]]
  BY DEF Made
<1> DEFINE s == j[1]
           cs == j[2]
           t == Result(s, cs).out
<1>2. s \in Sources /\ cs \in Scripts
  BY <1>1
<1>3. m = [bytes |-> MadeFor(s, t, cs), from |-> s, to |-> t, script |-> cs]
  BY <1>1
<1>4. HasMeaning(s, cs)
  BY <1>1
<1> HIDE DEF s, cs
<1>5. m.from = s /\ m.to = t /\ m.script = cs /\ m.bytes = MadeFor(s, t, cs)
  <2> HIDE DEF t
  <2> QED BY <1>3
<1>6. s \in Seq(Byte) /\ Len(s) \in Number
  <2>1. s \in Seq(Byte) /\ Len(s) < Word
    BY <1>2, BPSAssumption
  <2> QED BY <2>1, VarIntAssumption DEF Number
<1>7. cs \in Seq(Order) /\ Len(cs) \in Nat
  <2> HIDE DEF Order
  <2>1. cs \in Seq(Order)
    BY <1>2, ScriptsAssumption
  <2> QED BY <2>1
<1>8. t = Meaning(s, cs)[Len(cs)].out
  BY DEF Result
<1> HIDE DEF t
<1> QED BY <1>4, <1>5, <1>6, <1>7, <1>8

\* Where each command of a job runs: what is written so far is legal, made of
\* bytes, and no longer than the target.
LEMMA MeaningTyped ==
    ASSUME NEW m \in Made, ~Has(m, "TargetRead")
    PROVE  LET acc == Meaning(m.from, m.script)
           IN /\ \A k \in 0 .. Len(m.script) :
                    /\ acc[k].ok /\ acc[k].out \in Seq(Byte) /\ acc[k].src \in Int /\ acc[k].tgt \in Int
                    /\ Len(acc[k].out) \in 0 .. MaxAlloc
              /\ \A k \in 1 .. Len(m.script) :
                    /\ Legal(m.from, acc[k - 1], m.script[k])
                    /\ m.script[k].action \in {"SourceRead", "SourceCopy", "TargetCopy"}
<1> DEFINE acc == Meaning(m.from, m.script)
           n == Len(m.script)
           size(k) == Len(acc[k].out)
<1>1. /\ m.from \in Seq(Byte) /\ m.script \in Seq(Order) /\ n \in Nat
      /\ acc[n].ok /\ size(n) <= MaxAlloc
  BY MadeOf DEF HasMeaning, Result
<1>2. /\ acc[0] = [ok |-> TRUE, out |-> <<>>, src |-> 0, tgt |-> 0]
      /\ \A k \in 1 .. n : acc[k] = After(m.from, acc[k - 1], m.script[k])
  BY <1>1, MeaningFollow
<1>3. \A k \in 1 .. n : m.script[k].action \in {"SourceRead", "SourceCopy", "TargetCopy"}
  <2> TAKE k \in 1 .. n
  <2>1. m.script[k].action \in Action
    BY <1>1, OrderIs
  <2>2. m.script[k].action # "TargetRead"
    <3>1. DOMAIN m.script = 1 .. n
      <4> HIDE DEF Order
      <4> QED BY <1>1
    <3> QED BY <3>1 DEF Has
  <2> QED BY <2>1, <2>2 DEF Action
<1> HIDE DEF acc, n
<1>4. \A k \in 1 .. n : acc[k].ok => acc[k - 1].ok /\ Legal(m.from, acc[k - 1], m.script[k])
  <2> TAKE k \in 1 .. n
  <2> DEFINE before == acc[k - 1]
             c == m.script[k]
             after == After(m.from, before, c)
  <2>1. acc[k] = after
    BY <1>2
  <2> HIDE DEF before, c
  <2>2. after.ok = (before.ok /\ Legal(m.from, before, c))
    BY DEF After
  <2> HIDE DEF after
  <2>3. acc[k].ok => before.ok /\ Legal(m.from, before, c)
    BY <2>1, <2>2
  <2> QED BY <2>3 DEF before, c
<1>5. \A k \in 0 .. n : acc[k].ok
  <2> DEFINE S == {k \in Nat : k <= n => acc[n - k].ok}
  <2>1. 0 \in S
    <3>1. n - 0 = n
      BY <1>1
    <3> QED BY <1>1, <3>1
  <2>2. ASSUME NEW k \in Nat, k \in S PROVE k + 1 \in S
    <3> SUFFICES ASSUME k + 1 <= n PROVE acc[n - (k + 1)].ok
      OBVIOUS
    <3> DEFINE j == n - k
    <3>1. j \in 1 .. n /\ j - 1 = n - (k + 1) /\ acc[j].ok
      BY <1>1, <2>2
    <3> HIDE DEF j
    <3>2. acc[j - 1].ok
      BY <1>4, <3>1
    <3> QED BY <3>1, <3>2
  <2>3. \A k \in Nat : k \in S
    <3> HIDE DEF S
    <3> QED BY <2>1, <2>2, Induction
  <2> TAKE k \in 0 .. n
  <2>4. n - k \in Nat /\ n - k <= n /\ n - (n - k) = k
    BY <1>1
  <2>5. n - k \in S
    BY <2>3, <2>4
  <2> QED BY <2>4, <2>5
<1>6. \A k \in 1 .. n : Legal(m.from, acc[k - 1], m.script[k])
  <2> TAKE k \in 1 .. n
  <2>1. k \in 0 .. n
    OBVIOUS
  <2> QED BY <1>4, <1>5, <2>1
<1> DEFINE Typed(a) == a.out \in Seq(Byte) /\ a.src \in Int /\ a.tgt \in Int
<1>7. ASSUME NEW k \in 1 .. n, Typed(acc[k - 1])
      PROVE  Typed(acc[k]) /\ size(k) = size(k - 1) + m.script[k].length /\ m.script[k].length \in Nat
  <2>1. k - 1 \in 0 .. n
    BY <1>1
  <2>2. acc[k - 1].ok /\ m.script[k].action # "TargetRead" /\ k \in 1 .. Len(m.script)
    BY <1>3, <1>5, <2>1 DEF n
  <2>3. acc[k] = After(m.from, acc[k - 1], m.script[k]) /\ Legal(m.from, acc[k - 1], m.script[k])
    BY <1>2, <1>6
  <2>4. Typed(acc[k]) /\ size(k) = size(k - 1) + m.script[k].length
    <3> DEFINE before == acc[k - 1]
               after == After(m.from, before, m.script[k])
    <3> HIDE DEF before
    <3>1. /\ before.out \in Seq(Byte) /\ before.src \in Int /\ before.tgt \in Int /\ before.ok
          /\ Legal(m.from, before, m.script[k])
      BY <1>7, <2>2, <2>3 DEF before
    <3>2. Typed(after) /\ Len(after.out) = Len(before.out) + m.script[k].length
      <4> DEFINE c == m.script[k]
      <4>1. c.action \in {"SourceRead", "SourceCopy", "TargetCopy"} /\ c.length \in Nat \ {0} /\ c.distance \in Int
        BY <1>1, <1>3, <2>2, OrderIs
      <4>2. m.from \in Seq(Byte) /\ Legal(m.from, before, c)
        BY <1>1, <3>1
      <4> HIDE DEF c, after
      <4>3. /\ After(m.from, before, c).out \in Seq(Byte)
            /\ Len(After(m.from, before, c).out) = Len(before.out) + c.length
            /\ After(m.from, before, c).src \in Int /\ After(m.from, before, c).tgt \in Int
        BY <3>1, <4>1, <4>2, AfterTyped
      <4> QED BY <4>3 DEF c, after
    <3>3. acc[k] = after
      BY <2>3 DEF before
    <3> HIDE DEF after
    <3> QED BY <3>2, <3>3 DEF before
  <2>5. m.script[k].length \in Nat
    BY <1>1, <2>2, OrderIs
  <2> QED BY <2>4, <2>5
<1>8. \A k \in 0 .. n : Typed(acc[k])
  <2> DEFINE S == {k \in Nat : k <= n => Typed(acc[k])}
  <2>1. 0 \in S
    <3>1. acc[0].out = <<>> /\ acc[0].src = 0 /\ acc[0].tgt = 0 /\ <<>> \in Seq(Byte)
      BY <1>2
    <3>2. Typed(acc[0])
      BY <3>1
    <3> QED BY <3>2
  <2>2. ASSUME NEW k \in Nat, k \in S PROVE k + 1 \in S
    <3> SUFFICES ASSUME k + 1 <= n PROVE Typed(acc[k + 1])
      OBVIOUS
    <3> DEFINE j == k + 1
    <3>1. j \in 1 .. n /\ j - 1 = k
      BY <1>1, <2>2
    <3>2. Typed(acc[k])
      BY <1>1, <2>2
    <3> HIDE DEF j, Typed
    <3>3. Typed(acc[j])
      BY <1>7, <3>1, <3>2
    <3> QED BY <3>3 DEF j
  <2>3. \A k \in Nat : k \in S
    <3> HIDE DEF S
    <3> QED BY <2>1, <2>2, Induction
  <2> QED BY <1>1, <2>3
<1>9. \A k \in 0 .. n : size(k) \in Nat
  <2> TAKE k \in 0 .. n
  <2>1. acc[k].out \in Seq(Byte)
    BY <1>8
  <2> QED BY <2>1
<1>10. \A k \in 1 .. n : size(k - 1) <= size(k)
  <2> TAKE k \in 1 .. n
  <2>1. k - 1 \in 0 .. n /\ k \in 0 .. n
    BY <1>1
  <2> DEFINE more == m.script[k].length
             here == size(k)
             before == size(k - 1)
  <2>2. here = before + more /\ more \in Nat
    <3>1. Typed(acc[k - 1])
      BY <1>8, <2>1
    <3> HIDE DEF Typed
    <3> QED BY <1>7, <3>1
  <2>3. before \in Nat
    BY <1>9, <2>1
  <2> HIDE DEF more, here, before
  <2>4. before <= here
    BY <2>2, <2>3
  <2> QED BY <2>4 DEF before, here
<1> HIDE DEF size
<1>11. \A k \in 0 .. n : size(k) <= size(n)
  <2> DEFINE S == {k \in Nat : k <= n => size(n - k) <= size(n)}
  <2>1. 0 \in S
    <3>1. n - 0 = n /\ n \in 0 .. n
      BY <1>1
    <3>2. size(n) <= size(n)
      BY <1>9, <3>1
    <3> QED BY <3>1, <3>2
  <2>2. ASSUME NEW k \in Nat, k \in S PROVE k + 1 \in S
    <3> SUFFICES ASSUME k + 1 <= n PROVE size(n - (k + 1)) <= size(n)
      OBVIOUS
    <3> DEFINE j == n - k
    <3>1. j \in 1 .. n /\ j - 1 = n - (k + 1) /\ size(j) <= size(n)
      BY <1>1, <2>2
    <3> HIDE DEF j, S
    <3>2. size(j - 1) <= size(j) /\ j - 1 \in 0 .. n /\ j \in 0 .. n /\ n \in 0 .. n
      BY <1>1, <1>10, <3>1
    <3>3. size(j - 1) \in Nat /\ size(j) \in Nat /\ size(n) \in Nat
      BY <1>9, <3>2
    <3>4. size(j - 1) <= size(n)
      BY <3>1, <3>2, <3>3
    <3> QED BY <3>1, <3>4
  <2>3. \A k \in Nat : k \in S
    <3> HIDE DEF S
    <3> QED BY <2>1, <2>2, Induction
  <2> TAKE k \in 0 .. n
  <2>4. n - k \in Nat /\ n - k <= n /\ n - (n - k) = k
    BY <1>1
  <2>5. n - k \in S
    BY <2>3, <2>4
  <2> QED BY <2>4, <2>5
<1>12. \A k \in 0 .. n : size(k) \in 0 .. MaxAlloc
  <2> TAKE k \in 0 .. n
  <2>1. size(n) <= MaxAlloc /\ size(n) \in Nat
    <3>1. n \in 0 .. n
      BY <1>1
    <3>2. size(n) <= MaxAlloc
      BY <1>1 DEF size
    <3> QED BY <1>9, <3>1, <3>2
  <2>2. size(k) <= size(n) /\ size(k) \in Nat /\ MaxAlloc \in Nat
    BY <1>9, <1>11, BPSAssumption
  <2> QED BY <2>1, <2>2
<1> QED BY <1>3, <1>5, <1>6, <1>8, <1>12 DEF acc, n, size

-----------------------------------------------------------------------------
(***************************************************************************)
(* Where what an encoder made stands in the patch                          *)
(***************************************************************************)

\* A distance moves a cursor by itself.
LEMMA MovedBack ==
    ASSUME NEW d \in Int, NEW cursor \in Int
    PROVE  Moved(cursor, Signed(d)) = cursor + d
<1>1. CASE d < 0
  <2>1. Signed(d) = 1 - 2 * d /\ (1 - 2 * d) % 2 = 1 /\ (1 - 2 * d) \div 2 = 0 - d
    BY <1>1 DEF Signed
  <2> QED BY <2>1 DEF Moved
<1>2. CASE ~(d < 0)
  <2>1. Signed(d) = 2 * d /\ (2 * d) % 2 = 0 /\ (2 * d) \div 2 = d
    BY <1>2 DEF Signed
  <2> QED BY <2>1 DEF Moved
<1> QED BY <1>1, <1>2

\* A command that the parser takes as the encoder does.
Readable(c) ==
    /\ c.action \in {"SourceRead", "SourceCopy", "TargetCopy"}
    /\ c.length \in Nat \ {0} /\ c.length <= Word \div 4 /\ c.distance \in Int
    /\ 1 - Word < 2 * c.distance /\ 2 * c.distance < Word

\* The number of a command is its length and its action; both numbers fit.
LEMMA NumbersOf ==
    ASSUME NEW c, Readable(c)
    PROVE  /\ CommandNumber(c) \in Number /\ Signed(c.distance) \in Number
           /\ ActionOf(CommandNumber(c)) = c.action /\ LengthOf(CommandNumber(c)) = c.length
<1> DEFINE n == c.length
           d == c.distance
           code == Code[c.action]
           number == CommandNumber(c)
<1>1. /\ n \in Nat \ {0} /\ n <= Word \div 4 /\ d \in Int /\ 1 - Word < 2 * d /\ 2 * d < Word
      /\ Word \in Nat /\ c.action \in {"SourceRead", "SourceCopy", "TargetCopy"}
  BY VarIntAssumption DEF Readable
<1>2. /\ c.action = "SourceRead" => code = 0
      /\ c.action = "SourceCopy" => code = 2
      /\ c.action = "TargetCopy" => code = 3
  BY DEF Code
<1>3. code \in 0 .. 3 /\ number = (n - 1) * 4 + code
  BY <1>1, <1>2 DEF CommandNumber
<1> HIDE DEF n, d, code, number
<1>4. number % 4 = code /\ number \div 4 = n - 1 /\ number \in Nat
  BY <1>1, <1>3
<1>5. number \in Number
  <2>1. number <= 4 * n - 1
    BY <1>1, <1>3
  <2>2. 4 * (Word \div 4) <= Word
    BY <1>1
  <2> QED BY <1>1, <1>4, <2>1, <2>2 DEF Number
<1>6. Signed(d) \in Number
  BY <1>1 DEF Signed, Number
<1>7. ActionOf(number) = c.action
  <2> DEFINE rest == number % 4
  <2>1. ActionOf(number) = CASE rest = 0 -> "SourceRead"
                             [] rest = 1 -> "TargetRead"
                             [] rest = 2 -> "SourceCopy"
                             [] rest = 3 -> "TargetCopy"
    BY DEF ActionOf
  <2>2. rest = code
    BY <1>4
  <2> HIDE DEF rest
  <2>3. CASE c.action = "SourceRead"
    BY <1>2, <2>1, <2>2, <2>3
  <2>4. CASE c.action = "SourceCopy"
    BY <1>2, <2>1, <2>2, <2>4
  <2>5. CASE c.action = "TargetCopy"
    BY <1>2, <2>1, <2>2, <2>5
  <2> QED BY <1>1, <2>3, <2>4, <2>5
<1>8. LengthOf(number) = n
  BY <1>1, <1>4 DEF LengthOf
<1> QED BY <1>5, <1>6, <1>7, <1>8 DEF n, d, number

\* The commands of a job that the parser takes as the encoder does.
LEMMA ScriptIs ==
    ASSUME NEW m \in Made, Alike(m), NEW k \in 1 .. Len(m.script)
    PROVE  Readable(m.script[k])
<1> DEFINE c == m.script[k]
<1>1. c.action \in {"SourceRead", "SourceCopy", "TargetCopy"}
  BY MeaningTyped DEF Alike
<1>2. /\ c.length \in Nat \ {0} /\ c.length \in 1 .. Word \div 4 /\ c.distance \in Int
      /\ 1 - Word < 2 * c.distance /\ 2 * c.distance < Word
  BY MadeOf, OrderIs
<1>3. c.length <= Word \div 4
  <2> DEFINE most == Word \div 4
             length == c.length
  <2>1. most \in Int /\ length \in 1 .. most
    BY <1>2, VarIntAssumption
  <2> HIDE DEF most, length
  <2>2. length <= most
    BY <2>1
  <2> QED BY <2>2 DEF most, length
<1> QED BY <1>1, <1>2, <1>3 DEF Readable

\* The pieces that are written, one for each command.
LEMMA PiecesTyped ==
    ASSUME NEW m \in Made, Alike(m)
    PROVE  /\ Pieces(m.script) \in Seq(Seq(Byte)) /\ Len(Pieces(m.script)) = Len(m.script)
           /\ \A k \in 1 .. Len(m.script) :
                 LET c == m.script[k]
                     number == Encoded[CommandNumber(c)]
                     distance == IF IsCopy(c.action) THEN Encoded[Signed(c.distance)] ELSE <<>>
                 IN /\ Pieces(m.script)[k] = number \o distance
                    /\ number \in Seq(Byte) /\ distance \in Seq(Byte)
                    /\ Len(Pieces(m.script)[k]) \in Nat \ {0}
<1> DEFINE n == Len(m.script)
           number(k) == Encoded[CommandNumber(m.script[k])]
           distance(k) == IF IsCopy(m.script[k].action) THEN Encoded[Signed(m.script[k].distance)] ELSE <<>>
           piece(k) == EncodedCommand(m.script[k])
<1>1. n \in Nat
  BY MadeOf
<1>2. Pieces(m.script) = [k \in 1 .. n |-> piece(k)]
  BY DEF Pieces
<1>3. ASSUME NEW k \in 1 .. n
      PROVE  /\ number(k) \in Seq(Byte) /\ distance(k) \in Seq(Byte)
             /\ piece(k) = number(k) \o distance(k)
             /\ piece(k) \in Seq(Byte) /\ Len(piece(k)) \in Nat \ {0}
  <2>1. CommandNumber(m.script[k]) \in Nat /\ Signed(m.script[k].distance) \in Nat
    <3>1. CommandNumber(m.script[k]) \in Number /\ Signed(m.script[k].distance) \in Number
      BY ScriptIs, NumbersOf
    <3> QED BY <3>1 DEF Number
  <2>2. number(k) \in Seq(Byte) /\ Len(number(k)) \in Nat \ {0}
    BY <2>1, EncodedTyped
  <2>3. distance(k) \in Seq(Byte)
    <3>1. Encoded[Signed(m.script[k].distance)] \in Seq(Byte) /\ <<>> \in Seq(Byte)
      BY <2>1, EncodedTyped
    <3> QED BY <3>1
  <2>4. piece(k) = number(k) \o distance(k)
    BY ScriptIs DEF EncodedCommand, Readable
  <2> HIDE DEF number, distance, piece
  <2>5. /\ number(k) \o distance(k) \in Seq(Byte)
        /\ Len(number(k) \o distance(k)) = Len(number(k)) + Len(distance(k))
    BY <2>2, <2>3, Joined
  <2>6. Len(distance(k)) \in Nat
    BY <2>3
  <2> QED BY <2>2, <2>3, <2>4, <2>5, <2>6
<1> HIDE DEF n, piece
<1>4. /\ Pieces(m.script) \in Seq(Seq(Byte)) /\ Len(Pieces(m.script)) = n
      /\ \A k \in 1 .. n : Pieces(m.script)[k] = piece(k)
  <2>1. \A k \in 1 .. n : piece(k) \in Seq(Byte)
    BY <1>3
  <2> HIDE DEF Byte
  <2> QED BY <1>1, <1>2, <2>1
<1> QED BY <1>3, <1>4 DEF n

ChecksumsFit == \A bytes \in Seq(Byte) : Crc(bytes) \in Seq(Byte) /\ Len(Crc(bytes)) = CrcSize

BodyOf(m) == Body(m.from, m.to, m.script)

\* The target of a job is bytes, and its length a number.
LEMMA TargetOf ==
    ASSUME NEW m \in Made, Alike(m)
    PROVE  m.to \in Seq(Byte) /\ Len(m.to) \in 0 .. MaxAlloc /\ Len(m.to) \in Number
<1> DEFINE n == Len(m.script)
           size == Len(m.to)
<1>1. n \in 0 .. n /\ m.to = Meaning(m.from, m.script)[n].out
  BY MadeOf
<1>2. m.to \in Seq(Byte) /\ size \in 0 .. MaxAlloc
  BY <1>1, MeaningTyped DEF Alike
<1> HIDE DEF size
<1>3. size \in Number
  BY <1>2, BPSAssumption, VarIntAssumption DEF Number
<1> QED BY <1>2, <1>3 DEF size

\* The parts of the body, from the header to the checksums of the two texts.
LEMMA BodyTyped ==
    ASSUME ChecksumsFit, NEW m \in Made, Alike(m)
    PROVE  LET first == Encoded[Len(m.from)]
               second == Encoded[Len(m.to)]
               third == Encoded[0]
               script == Laid(Pieces(m.script))[Len(m.script)]
           IN /\ BodyOf(m) = Magic \o first \o second \o third \o script \o Crc(m.from) \o Crc(m.to)
              /\ Magic \in Seq(Byte) /\ Len(Magic) = 4
              /\ first \in Seq(Byte) /\ second \in Seq(Byte) /\ third \in Seq(Byte) /\ script \in Seq(Byte)
              /\ Crc(m.from) \in Seq(Byte) /\ Len(Crc(m.from)) = CrcSize
              /\ Crc(m.to) \in Seq(Byte) /\ Len(Crc(m.to)) = CrcSize
<1> DEFINE n == Len(m.script)
<1>1. m.from \in Seq(Byte) /\ Len(m.from) \in Nat /\ m.to \in Seq(Byte) /\ Len(m.to) \in Nat
  BY MadeOf, TargetOf
<1>2. Encoded[Len(m.from)] \in Seq(Byte) /\ Encoded[Len(m.to)] \in Seq(Byte) /\ Encoded[0] \in Seq(Byte)
  BY <1>1, EncodedTyped
<1>3. Laid(Pieces(m.script))[n] \in Seq(Byte)
  <2>1. n \in 0 .. n
    BY MadeOf
  <2> QED BY <2>1, PiecesTyped, LaidTyped
<1>4. /\ Crc(m.from) \in Seq(Byte) /\ Len(Crc(m.from)) = CrcSize
      /\ Crc(m.to) \in Seq(Byte) /\ Len(Crc(m.to)) = CrcSize
  BY <1>1 DEF ChecksumsFit
<1>5. Magic \in Seq(Byte) /\ Len(Magic) = 4
  BY BPSAssumption
<1> QED BY <1>2, <1>3, <1>4, <1>5 DEF BodyOf, Body, EncodedCommands

\* Where the commands are written.
LEMMA BehindTyped ==
    ASSUME NEW m \in Made, Alike(m)
    PROVE  /\ FirstCommand(m) \in Nat /\ FirstCommand(m) >= 4
           /\ BehindCommand(m, 0) = FirstCommand(m)
           /\ \A k \in 0 .. Len(m.script) :
                 /\ BehindCommand(m, k) \in Nat
                 /\ FirstCommand(m) <= BehindCommand(m, k)
                 /\ BehindCommand(m, k) <= BehindCommand(m, Len(m.script))
           /\ \A k \in 1 .. Len(m.script) :
                 BehindCommand(m, k) = BehindCommand(m, k - 1) + Len(Pieces(m.script)[k])
<1> DEFINE n == Len(m.script)
           laid == Laid(Pieces(m.script))
           base == FirstCommand(m)
<1>1. Pieces(m.script) \in Seq(Seq(Byte)) /\ Len(Pieces(m.script)) = n /\ n \in Nat
  BY PiecesTyped, MadeOf
<1>2. base \in Nat /\ base >= 4
  <2>1. Len(m.from) \in Nat /\ Len(m.to) \in Nat
    BY MadeOf, TargetOf
  <2> DEFINE f == Len(Encoded[Len(m.from)])
             g == Len(Encoded[Len(m.to)])
             h == Len(Encoded[0])
  <2>2. f \in Nat /\ g \in Nat /\ h \in Nat
    BY <2>1, EncodedTyped
  <2>3. base = 4 + f + g + h
    BY DEF FirstCommand
  <2> HIDE DEF f, g, h, base
  <2> QED BY <2>2, <2>3
<1>3. \A k \in 0 .. n : laid[k] \in Seq(Byte) /\ Len(laid[k]) \in Nat
  <2>1. \A k \in 0 .. n : laid[k] \in Seq(Byte)
    BY <1>1, LaidTyped
  <2> HIDE DEF laid, n
  <2> QED BY <2>1
<1>4. Len(laid[0]) = 0 /\ \A k \in 1 .. n : Len(laid[k]) = Len(laid[k - 1]) + Len(Pieces(m.script)[k])
  BY <1>1, LaidTyped
<1>5. \A k \in 0 .. n : Len(laid[k]) <= Len(laid[n])
  BY <1>1, LaidGrows
<1>6. \A k : BehindCommand(m, k) = base + Len(laid[k])
  BY DEF BehindCommand
<1> HIDE DEF base, laid, n
<1>7. BehindCommand(m, 0) = base
  BY <1>2, <1>4, <1>6
<1>8. ASSUME NEW k \in 0 .. n
      PROVE  /\ BehindCommand(m, k) \in Nat /\ base <= BehindCommand(m, k)
             /\ BehindCommand(m, k) <= BehindCommand(m, n)
  <2>1. n \in 0 .. n
    BY <1>1
  <2> QED BY <1>2, <1>3, <1>5, <1>6, <2>1
<1>9. ASSUME NEW k \in 1 .. n
      PROVE  BehindCommand(m, k) = BehindCommand(m, k - 1) + Len(Pieces(m.script)[k])
  <2>1. k - 1 \in 0 .. n
    BY <1>1
  <2>2. Pieces(m.script)[k] \in Seq(Byte)
    <3> HIDE DEF Byte
    <3> QED BY <1>1
  <2> DEFINE more == Len(Pieces(m.script)[k])
             here == Len(laid[k])
             before == Len(laid[k - 1])
  <2>3. more \in Nat /\ before \in Nat
    BY <1>3, <2>1, <2>2
  <2>4. here = before + more
    BY <1>4
  <2>5. BehindCommand(m, k) = base + here /\ BehindCommand(m, k - 1) = base + before
    BY <1>6
  <2> HIDE DEF more, here, before
  <2>6. BehindCommand(m, k) = BehindCommand(m, k - 1) + more
    BY <1>2, <2>3, <2>4, <2>5
  <2> QED BY <2>6 DEF more
<1> QED BY <1>2, <1>7, <1>8, <1>9 DEF base, n

\* What the encoder wrote stands in the patch where the parser looks for it.
LEMMA MadeStands ==
    ASSUME ChecksumsFit, NEW m \in Made, Alike(m), patch = m.bytes
    PROVE  /\ patch \in Seq(Byte)
           /\ BodyEnd = BehindCommand(m, Len(m.script)) /\ Len(patch) = BodyEnd + Trailer
           /\ Len(patch) >= 4 + Trailer
           /\ CheckedPart = BodyOf(m)
           /\ SubSeq(patch, 1, 4) = Magic
           /\ Stands(patch, 4, Encoded[Len(m.from)])
           /\ Stands(patch, 4 + Len(Encoded[Len(m.from)]), Encoded[Len(m.to)])
           /\ Stands(patch, 4 + Len(Encoded[Len(m.from)]) + Len(Encoded[Len(m.to)]), Encoded[0])
           /\ \A k \in 1 .. Len(m.script) : Stands(patch, BehindCommand(m, k - 1), Pieces(m.script)[k])
           /\ SubSeq(patch, BodyEnd + 1, BodyEnd + CrcSize) = Crc(m.from)
           /\ SubSeq(patch, BodyEnd + CrcSize + 1, BodyEnd + 2 * CrcSize) = Crc(m.to)
           /\ SubSeq(patch, BodyEnd + 2 * CrcSize + 1, Len(patch)) = Crc(BodyOf(m))
<1> DEFINE first == Encoded[Len(m.from)]
           second == Encoded[Len(m.to)]
           third == Encoded[0]
           script == Laid(Pieces(m.script))[Len(m.script)]
           a == Crc(m.from)
           b == Crc(m.to)
           c == Crc(BodyOf(m))
           end == BehindCommand(m, Len(m.script))
           base == FirstCommand(m)
           f == Len(first)
           g == Len(second)
           h == Len(third)
<1>1. /\ BodyOf(m) = Magic \o first \o second \o third \o script \o a \o b
      /\ Magic \in Seq(Byte) /\ Len(Magic) = 4
      /\ first \in Seq(Byte) /\ second \in Seq(Byte) /\ third \in Seq(Byte) /\ script \in Seq(Byte)
      /\ a \in Seq(Byte) /\ Len(a) = CrcSize /\ b \in Seq(Byte) /\ Len(b) = CrcSize
  BY BodyTyped
<1>2. patch = BodyOf(m) \o c
  BY MadeOf DEF MadeFor, BodyOf
<1>3. end = base + Len(script) /\ base = 4 + f + g + h
  BY DEF BehindCommand, FirstCommand
<1>4. CrcSize \in Nat /\ Trailer = 3 * CrcSize
  BY BPSAssumption DEF Trailer
<1>5. end \in Nat /\ end >= 4 /\ base \in Nat
  <2>1. Len(m.script) \in 0 .. Len(m.script)
    BY MadeOf
  <2>2. base \in Nat /\ base >= 4 /\ end \in Nat /\ base <= end
    BY <2>1, BehindTyped
  <2> HIDE DEF end, base
  <2> QED BY <2>2
<1> HIDE DEF first, second, third, script, a, b, c, end, base
<1> DEFINE p1 == Magic \o first
           p2 == p1 \o second
           p3 == p2 \o third
           p4 == p3 \o script
           p5 == p4 \o a
           p6 == p5 \o b
<1>6. f \in Nat /\ g \in Nat /\ h \in Nat /\ 4 + f \in Nat /\ 4 + f + g \in Nat
      /\ end + CrcSize \in Nat /\ end + 2 * CrcSize \in Nat
  <2>1. f \in Nat /\ g \in Nat /\ h \in Nat
    BY <1>1
  <2> HIDE DEF f, g, h
  <2> QED BY <1>4, <1>5, <2>1
<1> HIDE DEF f, g, h
<1>7. p1 \in Seq(Byte) /\ Len(p1) = 4 + f
  <2>1. Magic \in Seq(Byte) /\ Len(Magic) = 4 /\ first \in Seq(Byte)
    BY <1>1
  <2>2. p1 \in Seq(Byte) /\ Len(p1) = Len(Magic) + Len(first)
    BY <2>1, Joined
  <2> QED BY <2>1, <2>2, Zenon DEF f
<1>8. p2 \in Seq(Byte) /\ Len(p2) = 4 + f + g
  <2> HIDE DEF p1
  <2> QED BY <1>1, <1>7, Joined, Zenon DEF g
<1>9. p3 \in Seq(Byte) /\ Len(p3) = base
  <2> HIDE DEF p2
  <2>1. p3 \in Seq(Byte) /\ Len(p3) = Len(p2) + Len(third)
    BY <1>1, <1>8, Joined, Zenon
  <2> QED BY <1>3, <1>8, <2>1, Zenon DEF h
<1>10. p4 \in Seq(Byte) /\ Len(p4) = end
  <2> HIDE DEF p3
  <2> QED BY <1>1, <1>3, <1>9, Joined, Zenon
<1>11. p5 \in Seq(Byte) /\ Len(p5) = end + CrcSize
  <2> HIDE DEF p4
  <2> QED BY <1>1, <1>10, Joined, Zenon
<1>12. p6 \in Seq(Byte) /\ Len(p6) = end + 2 * CrcSize
  <2> HIDE DEF p5
  <2>1. p6 \in Seq(Byte) /\ Len(p6) = Len(p5) + Len(b)
    BY <1>1, <1>11, Joined, Zenon
  <2>2. (end + CrcSize) + CrcSize = end + 2 * CrcSize
    BY <1>4, <1>5
  <2> QED BY <1>1, <1>11, <2>1, <2>2, Zenon
<1>13. BodyOf(m) = p6
  BY <1>1
<1> HIDE DEF p6
<1>14. c \in Seq(Byte) /\ Len(c) = CrcSize
  BY <1>12, <1>13 DEF ChecksumsFit, c
<1>15. patch = p6 \o c /\ patch \in Seq(Byte) /\ Len(patch) = end + 2 * CrcSize + CrcSize
  <2>1. p6 \o c \in Seq(Byte) /\ Len(p6 \o c) = Len(p6) + Len(c)
    BY <1>12, <1>14, Joined, Zenon
  <2> QED BY <1>2, <1>12, <1>13, <1>14, <2>1, Zenon
<1>16. BodyEnd = end /\ Len(patch) = BodyEnd + Trailer /\ Len(patch) >= 4 + Trailer
  BY <1>4, <1>5, <1>15 DEF BodyEnd
<1>17. \A x \in Nat : 0 + x = x
  OBVIOUS
<1>18. Stands(patch, 0, p6) /\ Stands(patch, end + 2 * CrcSize, c)
  <2>1. Stands(patch, 0, p6 \o c)
    BY <1>15, StandsWhole
  <2>2. Stands(patch, 0, p6) /\ Stands(patch, 0 + Len(p6), c)
    BY <1>12, <1>14, <1>15, <2>1, StandsInTwo
  <2>3. 0 + Len(p6) = end + 2 * CrcSize
    BY <1>6, <1>12, <1>17, Zenon
  <2> QED BY <2>2, <2>3
<1>19. Stands(patch, 0, p5) /\ Stands(patch, end + CrcSize, b)
  <2> HIDE DEF p5
  <2>1. Stands(patch, 0, p5) /\ Stands(patch, 0 + Len(p5), b)
    BY <1>1, <1>11, <1>15, <1>18, StandsInTwo DEF p6
  <2>2. 0 + Len(p5) = end + CrcSize
    BY <1>6, <1>11, <1>17, Zenon
  <2> QED BY <2>1, <2>2
<1>20. Stands(patch, 0, p4) /\ Stands(patch, end, a)
  <2> HIDE DEF p4
  <2>1. Stands(patch, 0, p4) /\ Stands(patch, 0 + Len(p4), a)
    BY <1>1, <1>10, <1>15, <1>19, StandsInTwo
  <2>2. 0 + Len(p4) = end
    BY <1>5, <1>10, <1>17, Zenon
  <2> QED BY <2>1, <2>2
<1>21. Stands(patch, 0, p3) /\ Stands(patch, base, script)
  <2> HIDE DEF p3
  <2>1. Stands(patch, 0, p3) /\ Stands(patch, 0 + Len(p3), script)
    BY <1>1, <1>9, <1>15, <1>20, StandsInTwo
  <2>2. 0 + Len(p3) = base
    BY <1>5, <1>9, <1>17, Zenon
  <2> QED BY <2>1, <2>2
<1>22. Stands(patch, 0, p2) /\ Stands(patch, 4 + f + g, third)
  <2> HIDE DEF p2
  <2>1. Stands(patch, 0, p2) /\ Stands(patch, 0 + Len(p2), third)
    BY <1>1, <1>8, <1>15, <1>21, StandsInTwo
  <2>2. 0 + Len(p2) = 4 + f + g
    BY <1>6, <1>8, <1>17, Zenon
  <2> QED BY <2>1, <2>2
<1>23. Stands(patch, 0, p1) /\ Stands(patch, 4 + f, second)
  <2> HIDE DEF p1
  <2>1. Stands(patch, 0, p1) /\ Stands(patch, 0 + Len(p1), second)
    BY <1>1, <1>7, <1>15, <1>22, StandsInTwo
  <2>2. 0 + Len(p1) = 4 + f
    BY <1>6, <1>7, <1>17, Zenon
  <2> QED BY <2>1, <2>2
<1>24. Stands(patch, 0, Magic) /\ Stands(patch, 4, first)
  <2>1. Stands(patch, 0, Magic) /\ Stands(patch, 0 + Len(Magic), first)
    BY <1>1, <1>15, <1>23, StandsInTwo
  <2> QED BY <1>1, <2>1
<1> HIDE DEF p1, p2, p3, p4, p5
<1>25. CheckedPart = BodyOf(m)
  <2>1. SubSeq(patch, 0 + 1, 0 + Len(p6)) = p6
    BY <1>12, <1>15, <1>18, StandsPart
  <2>2. 0 + 1 = 1 /\ 0 + Len(p6) = Len(patch) - CrcSize
    BY <1>4, <1>5, <1>12, <1>15
  <2> QED BY <1>13, <2>1, <2>2 DEF CheckedPart
<1>26. SubSeq(patch, 1, 4) = Magic
  <2>1. SubSeq(patch, 0 + 1, 0 + Len(Magic)) = Magic
    BY <1>1, <1>15, <1>24, StandsPart
  <2> QED BY <1>1, <2>1
<1>27. SubSeq(patch, BodyEnd + 1, BodyEnd + CrcSize) = a
  <2>1. SubSeq(patch, end + 1, end + Len(a)) = a
    BY <1>1, <1>5, <1>15, <1>20, StandsPart
  <2> QED BY <1>1, <1>16, <2>1
<1>28. SubSeq(patch, BodyEnd + CrcSize + 1, BodyEnd + 2 * CrcSize) = b
  <2>1. SubSeq(patch, end + CrcSize + 1, end + CrcSize + Len(b)) = b
    BY <1>1, <1>6, <1>15, <1>19, StandsPart
  <2>2. end + CrcSize + Len(b) = BodyEnd + 2 * CrcSize /\ end + CrcSize + 1 = BodyEnd + CrcSize + 1
    BY <1>1, <1>4, <1>5, <1>16
  <2> QED BY <2>1, <2>2
<1>29. SubSeq(patch, BodyEnd + 2 * CrcSize + 1, Len(patch)) = c
  <2>1. SubSeq(patch, end + 2 * CrcSize + 1, end + 2 * CrcSize + Len(c)) = c
    BY <1>6, <1>14, <1>15, <1>18, StandsPart
  <2>2. end + 2 * CrcSize + Len(c) = Len(patch) /\ end + 2 * CrcSize + 1 = BodyEnd + 2 * CrcSize + 1
    BY <1>14, <1>15, <1>16
  <2> QED BY <2>1, <2>2
<1>30. ASSUME NEW k \in 1 .. Len(m.script)
       PROVE  Stands(patch, BehindCommand(m, k - 1), Pieces(m.script)[k])
  <2>1. Pieces(m.script) \in Seq(Seq(Byte)) /\ Len(Pieces(m.script)) = Len(m.script)
    BY PiecesTyped
  <2>2. Stands(patch, base, Laid(Pieces(m.script))[Len(Pieces(m.script))])
    BY <1>21, <2>1 DEF script
  <2>3. Stands(patch, base + Len(Laid(Pieces(m.script))[k - 1]), Pieces(m.script)[k])
    BY <1>5, <1>15, <2>1, <2>2, LaidStands
  <2> QED BY <2>3 DEF BehindCommand, base
<1> QED BY <1>15, <1>16, <1>22, <1>23, <1>24, <1>25, <1>26, <1>27, <1>28, <1>29, <1>30
        DEF first, second, third, f, g, a, b, c, end

-----------------------------------------------------------------------------
(***************************************************************************)
(* Reading it back                                                         *)
(***************************************************************************)

\* The load finds the sizes of the two texts, and stands before the commands.
LEMMA LoadReads ==
    ASSUME ChecksumsFit, NEW m \in Made, Alike(m), patch = m.bytes, Load
    PROVE  /\ pc' = "parse" /\ offset' = BehindCommand(m, 0)
           /\ src_size' = Len(m.from) /\ target_size' = Len(m.to)
<1> DEFINE f == Len(Encoded[Len(m.from)])
           g == Len(Encoded[Len(m.to)])
           h == Len(Encoded[0])
<1>1. /\ patch \in Seq(Byte) /\ Len(patch) >= 4 + Trailer /\ SubSeq(patch, 1, 4) = Magic
      /\ Stands(patch, 4, Encoded[Len(m.from)])
      /\ Stands(patch, 4 + f, Encoded[Len(m.to)])
      /\ Stands(patch, 4 + f + g, Encoded[0])
  BY MadeStands
<1>2. Len(m.from) \in Number /\ Len(m.to) \in Number /\ 0 \in Number
  BY MadeOf, TargetOf, VarIntAssumption DEF Number
<1>3. f \in Nat /\ g \in Nat /\ h \in Nat
  BY <1>2, EncodedTyped DEF Number
<1>4. /\ 4 + f <= Len(patch) /\ 4 + f + g <= Len(patch) /\ 4 + f + g + h <= Len(patch)
      /\ Len(patch) \in Nat
  <2>1. 4 + f <= Len(patch)
    BY <1>1, Zenon DEF Stands
  <2>2. 4 + f + g <= Len(patch)
    BY <1>1, Zenon DEF Stands
  <2>3. 4 + f + g + h <= Len(patch)
    BY <1>1, Zenon DEF Stands
  <2>4. Len(patch) \in Nat
    BY <1>1
  <2> QED BY <2>1, <2>2, <2>3, <2>4
<1>5. 4 \in 0 .. Len(patch) /\ 4 + f \in 0 .. Len(patch) /\ 4 + f + g \in 0 .. Len(patch)
  <2> HIDE DEF f, g, h
  <2> QED BY <1>3, <1>4
<1>6. Decode(patch, 4) = [value |-> Len(m.from), offset |-> 4 + f]
  BY <1>1, <1>2, <1>5, StandsHolds, DecodeEncoded
<1>7. Decode(patch, 4 + f) = [value |-> Len(m.to), offset |-> 4 + f + g]
  BY <1>1, <1>2, <1>5, StandsHolds, DecodeEncoded
<1>8. Decode(patch, 4 + f + g) = [value |-> 0, offset |-> 4 + f + g + h]
  BY <1>1, <1>2, <1>5, StandsHolds, DecodeEncoded
<1> DEFINE base == 4 + f + g + h
<1>9. ~(Len(patch) < 4 + Trailer) /\ Trailer \in Nat
  BY <1>1, <1>4, BPSAssumption DEF Trailer
<1> DEFINE src == Decode(patch, 4)
           target == Decode(patch, src.offset)
           metadata == Decode(patch, target.offset)
<1>10. /\ src_size' = src.value /\ target_size' = target.value
       /\ offset' = metadata.offset + metadata.value
       /\ ~((metadata.offset + metadata.value) % Word > Len(patch)) =>
             pc' = IF metadata.value > Len(patch) THEN "thrown" ELSE "parse"
  BY <1>1, <1>9 DEF Load
<1> HIDE DEF f, g, h
<1>11. /\ src.value = Len(m.from) /\ target.value = Len(m.to)
       /\ metadata.value = 0 /\ metadata.offset = base
  BY <1>6, <1>7, <1>8
<1> HIDE DEF src, target, metadata
<1>12. base \in Nat /\ base <= Len(patch)
  BY <1>3, <1>4
<1>13. BehindCommand(m, 0) = base
  BY BehindTyped DEF FirstCommand, f, g, h
<1> HIDE DEF base
<1>14. metadata.offset + metadata.value = base
  BY <1>11, <1>12
<1>15. ~(base % Word > Len(patch))
  <2>1. base % Word <= base /\ base % Word \in Nat
    BY <1>12, VarIntAssumption
  <2> QED BY <1>4, <1>12, <2>1
<1>16. ~(metadata.value > Len(patch))
  BY <1>4, <1>11
<1> QED BY <1>10, <1>11, <1>13, <1>14, <1>15, <1>16

\* Behind the commands read so far the parser finds the next one.
LEMMA CommandReads ==
    ASSUME ChecksumsFit, NEW m \in Made, Alike(m), patch = m.bytes,
           NEW k \in 1 .. Len(m.script), offset = BehindCommand(m, k - 1)
    PROVE  LET encoded == Decode(patch, offset)
               action == ActionOf(encoded.value)
               delta == IF IsCopy(action) THEN Decode(patch, encoded.offset)
                        ELSE [value |-> 0, offset |-> encoded.offset]
           IN /\ [action |-> action, length |-> LengthOf(encoded.value), offset_delta |-> delta.value]
                    = CommandOf(m.script[k])
              /\ delta.offset = BehindCommand(m, k)
<1> DEFINE c == m.script[k]
           n == CommandNumber(c)
           d == Signed(c.distance)
           x == Encoded[n]
           y == IF IsCopy(c.action) THEN Encoded[d] ELSE <<>>
           piece == Pieces(m.script)[k]
<1>1. Readable(c)
  BY ScriptIs
<1>2. piece = x \o y /\ x \in Seq(Byte) /\ y \in Seq(Byte)
  BY PiecesTyped
<1>3. patch \in Seq(Byte) /\ Stands(patch, offset, piece)
  BY MadeStands
<1>4. BehindCommand(m, k) = offset + Len(piece) /\ offset \in Nat
  <2>1. k - 1 \in 0 .. Len(m.script)
    BY MadeOf
  <2> QED BY <2>1, BehindTyped
<1> HIDE DEF c, piece
<1>5. n \in Number /\ d \in Number /\ ActionOf(n) = c.action /\ LengthOf(n) = c.length
  BY <1>1, NumbersOf
<1> HIDE DEF n, d
<1>6. Len(x) \in Nat /\ Len(y) \in Nat /\ Len(patch) \in Nat
  BY <1>2, <1>3
<1>7. Stands(patch, offset, x) /\ Stands(patch, offset + Len(x), y) /\ Len(piece) = Len(x) + Len(y)
  <2> HIDE DEF x, y
  <2>1. Len(x \o y) = Len(x) + Len(y)
    BY <1>2, Joined
  <2>2. Stands(patch, offset, x \o y)
    BY <1>2, <1>3
  <2> QED BY <1>2, <1>3, <1>4, <2>1, <2>2, StandsInTwo
<1>8. offset + Len(x) <= Len(patch) /\ offset + Len(x) + Len(y) <= Len(patch)
  BY <1>7, Zenon DEF Stands
<1>9. offset \in 0 .. Len(patch) /\ offset + Len(x) \in 0 .. Len(patch)
  <2> HIDE DEF x, y
  <2> QED BY <1>4, <1>6, <1>8
<1>10. Decode(patch, offset) = [value |-> n, offset |-> offset + Len(x)]
  BY <1>3, <1>5, <1>7, <1>9, StandsHolds, DecodeEncoded
<1> DEFINE encoded == Decode(patch, offset)
           action == ActionOf(encoded.value)
           delta == IF IsCopy(action) THEN Decode(patch, encoded.offset)
                    ELSE [value |-> 0, offset |-> encoded.offset]
<1>11. /\ encoded.value = n /\ encoded.offset = offset + Len(x)
       /\ action = c.action /\ LengthOf(encoded.value) = c.length
  <2> HIDE DEF x
  <2> QED BY <1>5, <1>10
<1>12. /\ delta.value = IF IsCopy(c.action) THEN d ELSE 0
       /\ delta.offset = offset + Len(x) + Len(y)
  <2>1. CASE IsCopy(c.action)
    <3>1. y = Encoded[d]
      BY <2>1
    <3>2. Stands(patch, offset + Len(x), Encoded[d])
      BY <1>7, <3>1
    <3> HIDE DEF x, y
    <3>3. Decode(patch, offset + Len(x)) = [value |-> d, offset |-> offset + Len(x) + Len(Encoded[d])]
      BY <1>3, <1>5, <1>9, <3>2, StandsHolds, DecodeEncoded
    <3>4. delta = Decode(patch, offset + Len(x))
      BY <1>11, <2>1
    <3> HIDE DEF delta
    <3> QED BY <2>1, <3>1, <3>3, <3>4
  <2>2. CASE ~IsCopy(c.action)
    <3>1. Len(y) = 0
      BY <2>2
    <3> HIDE DEF x, y
    <3>2. delta.value = 0 /\ delta.offset = offset + Len(x)
      BY <1>11, <2>2
    <3> HIDE DEF delta
    <3> QED BY <1>4, <1>6, <2>2, <3>1, <3>2
  <2> QED BY <2>1, <2>2
<1>13. delta.offset = BehindCommand(m, k)
  <2>1. offset + Len(x) + Len(y) = offset + (Len(x) + Len(y))
    <3> HIDE DEF x, y
    <3> QED BY <1>4, <1>6
  <2> QED BY <1>4, <1>7, <1>12, <2>1, Zenon
<1>14. [action |-> action, length |-> LengthOf(encoded.value), offset_delta |-> delta.value]
         = CommandOf(m.script[k])
  <2> HIDE DEF action, encoded, delta
  <2> QED BY <1>11, <1>12 DEF CommandOf, c, d
<1> QED BY <1>13, <1>14

\* What was given was given before.
LEMMA GivenBefore ==
    ASSUME [Next]_vars, NEW m, Given(m)'
    PROVE  Given(m) /\ UNCHANGED <<patch, source>>
<1>1. UNCHANGED <<patch, source>>
  BY DEF Next, Load, ParseCommand, ParseTrailer, Validate, Apply, SourceRead, TargetRead, SourceCopy,
         TargetCopy, Running, Finish, parsed, applying, vars
<1> QED BY <1>1 DEF Given

-----------------------------------------------------------------------------
(***************************************************************************)
(* What an encoder made is reproduced                                      *)
(***************************************************************************)

\* Before the commands run, a step that leaves what they move alone leaves them
\* where they begin.
LEMMA NotRunYet ==
    ASSUME NEW m, CommandsRun(m), pc \in {"load", "parse", "loaded", "valid"}, pc' # "done",
           UNCHANGED <<next, output, source_rel_offset, target_rel_offset>>
    PROVE  CommandsRun(m)'
BY DEF CommandsRun

\* The load.
LEMMA LoadReadsBack ==
    ASSUME ChecksumsFit, NEW m \in Made, Alike(m), patch = m.bytes, ReadBack(m), Load
    PROVE  ReadBack(m)'
<1>1. /\ pc' = "parse" /\ offset' = BehindCommand(m, 0)
      /\ src_size' = Len(m.from) /\ target_size' = Len(m.to)
  BY LoadReads
<1>2. /\ pc = "load" /\ UNCHANGED <<patch, commands>>
      /\ UNCHANGED <<next, output, source_rel_offset, target_rel_offset>>
  BY DEF Load, applying, cursors
<1>3. commands = <<>> /\ Len(m.script) \in Nat
  BY <1>2, MadeOf DEF ReadBack, CommandsRead
<1>4. Len(commands) = 0
  BY <1>3
<1>5. CommandsRead(m)'
  BY <1>1, <1>2, <1>3, <1>4 DEF CommandsRead
<1>6. CommandsRun(m)'
  BY <1>1, <1>2, NotRunYet DEF ReadBack
<1> QED BY <1>1, <1>5, <1>6 DEF ReadBack, SizesRead, TrailerRead

\* A turn of the loop reads the next command.
LEMMA CommandReadsBack ==
    ASSUME IInv, ChecksumsFit, NEW m \in Made, Alike(m), patch = m.bytes, ReadBack(m), ParseCommand
    PROVE  ReadBack(m)'
<1> DEFINE n == Len(m.script)
           k == Len(commands) + 1
           encoded == Decode(patch, offset)
           action == ActionOf(encoded.value)
           delta == IF IsCopy(action) THEN Decode(patch, encoded.offset)
                    ELSE [value |-> 0, offset |-> encoded.offset]
           command == [action |-> action, length |-> LengthOf(encoded.value), offset_delta |-> delta.value]
<1>1. /\ pc = "parse" /\ offset < BodyEnd
      /\ commands' = Append(commands, command) /\ offset' = delta.offset
      /\ UNCHANGED <<patch, pc, src_size, target_size>>
      /\ UNCHANGED <<next, output, source_rel_offset, target_rel_offset>>
  BY DEF ParseCommand, header, applying, cursors
<1>2. /\ Len(commands) <= n /\ \A j \in 1 .. Len(commands) : commands[j] = CommandOf(m.script[j])
      /\ offset = BehindCommand(m, Len(commands))
      /\ src_size = Len(m.from) /\ target_size = Len(m.to)
  BY <1>1 DEF ReadBack, CommandsRead, SizesRead
<1>3. commands \in Seq(Command) /\ n \in Nat /\ Len(commands) \in Nat
  <2>1. commands \in Seq(Command) /\ n \in Nat
    BY MadeOf DEF IInv, TypeOK
  <2> HIDE DEF Command
  <2> QED BY <2>1
<1>4. k \in 1 .. n /\ k - 1 = Len(commands)
  <2>1. BodyEnd = BehindCommand(m, n) /\ BodyEnd \in Nat
    <3>1. BodyEnd = BehindCommand(m, n)
      BY MadeStands
    <3>2. n \in 0 .. n
      BY <1>3
    <3> QED BY <3>1, <3>2, BehindTyped
  <2>2. Len(commands) # n
    <3> SUFFICES ASSUME Len(commands) = n PROVE FALSE
      OBVIOUS
    <3>1. offset = BodyEnd
      BY <1>2, <2>1
    <3> QED BY <1>1, <2>1, <3>1
  <2> QED BY <1>2, <1>3, <2>2
<1>5. command = CommandOf(m.script[k]) /\ delta.offset = BehindCommand(m, k)
  BY <1>2, <1>4, CommandReads
<1> HIDE DEF encoded, action, delta, command
<1>6. /\ Len(commands') = k /\ \A j \in 1 .. k : commands'[j] = CommandOf(m.script[j])
  <2> DEFINE size == Len(commands)
  <2> HIDE DEF Command
  <2>1. \A j \in 1 .. size : Append(commands, command)[j] = commands[j]
    BY <1>3
  <2>2. Len(Append(commands, command)) = size + 1 /\ Append(commands, command)[size + 1] = command
    BY <1>3
  <2>3. Len(commands') = k
    BY <1>1, <2>2
  <2>4. ASSUME NEW j \in 1 .. k PROVE commands'[j] = CommandOf(m.script[j])
    <3>1. CASE j = k
      BY <1>1, <1>5, <2>2, <3>1
    <3>2. CASE j # k
      <4>1. j \in 1 .. size
        BY <1>3, <3>2
      <4> QED BY <1>1, <1>2, <2>1, <4>1
    <3> QED BY <3>1, <3>2
  <2> QED BY <2>3, <2>4
<1> HIDE DEF k, n
<1>7. CommandsRead(m)'
  <2>1. k <= n
    BY <1>3, <1>4
  <2>2. offset' = BehindCommand(m, k)
    BY <1>1, <1>5
  <2> QED BY <1>1, <1>6, <2>1, <2>2 DEF CommandsRead, n
<1>8. CommandsRun(m)'
  BY <1>1, NotRunYet DEF ReadBack
<1> QED BY <1>1, <1>2, <1>7, <1>8 DEF ReadBack, SizesRead, TrailerRead

\* Behind the commands stand the checksums.
LEMMA TrailerReadsBack ==
    ASSUME IInv, ChecksumsFit, NEW m \in Made, Alike(m), patch = m.bytes, ReadBack(m), ParseTrailer
    PROVE  ReadBack(m)'
<1> DEFINE n == Len(m.script)
<1>1. /\ pc = "parse" /\ offset >= BodyEnd /\ pc' = "loaded"
      /\ src_crc' = SubSeq(patch, BodyEnd + 1, BodyEnd + CrcSize)
      /\ target_crc' = SubSeq(patch, BodyEnd + CrcSize + 1, BodyEnd + 2 * CrcSize)
      /\ patch_crc' = SubSeq(patch, BodyEnd + 2 * CrcSize + 1, Len(patch))
      /\ UNCHANGED <<patch, commands, src_size, target_size>>
      /\ UNCHANGED <<next, output, source_rel_offset, target_rel_offset>>
  BY DEF ParseTrailer, header, applying, cursors
<1>2. /\ Len(commands) <= n /\ \A j \in 1 .. Len(commands) : commands[j] = CommandOf(m.script[j])
      /\ offset = BehindCommand(m, Len(commands))
      /\ src_size = Len(m.from) /\ target_size = Len(m.to)
  BY <1>1 DEF ReadBack, CommandsRead, SizesRead
<1>3. n \in Nat /\ Len(commands) \in Nat
  <2>1. commands \in Seq(Command) /\ n \in Nat
    BY MadeOf DEF IInv, TypeOK
  <2> HIDE DEF Command
  <2> QED BY <2>1
<1>4. Len(commands) = n
  <2> SUFFICES ASSUME Len(commands) # n PROVE FALSE
    OBVIOUS
  <2> DEFINE k == Len(commands) + 1
  <2>1. k \in 1 .. n /\ k - 1 = Len(commands) /\ k - 1 \in 0 .. n /\ k \in 0 .. n
    BY <1>2, <1>3
  <2>2. BodyEnd = BehindCommand(m, n)
    BY MadeStands
  <2>3. /\ BehindCommand(m, k) = BehindCommand(m, k - 1) + Len(Pieces(m.script)[k])
        /\ BehindCommand(m, k) <= BodyEnd
        /\ BehindCommand(m, k - 1) \in Nat /\ BehindCommand(m, k) \in Nat
    BY <2>1, <2>2, BehindTyped
  <2>4. Len(Pieces(m.script)[k]) \in Nat \ {0}
    BY <2>1, PiecesTyped
  <2>5. offset = BehindCommand(m, k - 1) /\ BodyEnd \in Int
    BY <1>2, <2>1, IInv, Sizes DEF IInv
  <2> QED BY <1>1, <2>3, <2>4, <2>5
<1>5. /\ CheckedPart = BodyOf(m)
      /\ src_crc' = Crc(m.from) /\ target_crc' = Crc(m.to) /\ patch_crc' = Crc(BodyOf(m))
  BY <1>1, MadeStands
<1>6. CheckedPart' = CheckedPart
  BY <1>1 DEF CheckedPart
<1>7. TrailerRead(m)'
  BY <1>1, <1>4, <1>5, <1>6 DEF TrailerRead
<1>8. CommandsRead(m)'
  BY <1>1, <1>2 DEF CommandsRead
<1>9. CommandsRun(m)'
  BY <1>1, NotRunYet DEF ReadBack
<1> QED BY <1>1, <1>2, <1>7, <1>8, <1>9 DEF ReadBack, SizesRead

\* Where nothing that was read changes and the load is over, it stays read.
LEMMA ReadStays ==
    ASSUME NEW m \in Made, ReadBack(m), UNCHANGED parsed,
           pc \notin {"load", "parse"}, pc' \in {"valid", "apply", "done"}, CommandsRun(m)'
    PROVE  ReadBack(m)'
<1>1. UNCHANGED <<patch, commands, src_size, target_size, src_crc, target_crc, patch_crc>>
  BY DEF parsed, header, checksums
<1>2. CheckedPart' = CheckedPart
  BY <1>1 DEF CheckedPart
<1>3. SizesRead(m)'
  BY <1>1 DEF ReadBack, SizesRead
<1>4. CommandsRead(m)'
  BY <1>1 DEF ReadBack, CommandsRead
<1>5. TrailerRead(m)'
  BY <1>1, <1>2 DEF ReadBack, TrailerRead
<1> QED BY <1>3, <1>4, <1>5 DEF ReadBack

\* The patch is the one its checksum was made for.
LEMMA ValidateReadsBack ==
    ASSUME NEW m \in Made, ReadBack(m), Validate
    PROVE  ReadBack(m)'
<1>1. pc = "loaded" /\ patch_crc = Crc(CheckedPart) /\ UNCHANGED <<parsed, applying>>
  BY DEF Validate, ReadBack, TrailerRead
<1>2. pc' = "valid"
  BY <1>1 DEF Validate
<1>3. CommandsRun(m)'
  BY <1>1, <1>2, NotRunYet DEF ReadBack, applying, cursors
<1> QED BY <1>1, <1>2, <1>3, ReadStays

\* The source is the one the patch was made from, and its target can be
\* allocated.
LEMMA ApplyReadsBack ==
    ASSUME NEW m \in Made, Alike(m), Given(m), ReadBack(m), Apply
    PROVE  ReadBack(m)'
<1>1. /\ pc \in {"loaded", "valid"}
      /\ UNCHANGED <<parsed, next, output, source_rel_offset, target_rel_offset>>
  BY DEF Apply
<1>2. Len(source) = src_size /\ Crc(source) = src_crc /\ target_size = Len(m.to)
  BY <1>1 DEF ReadBack, SizesRead, TrailerRead, Given
<1>3. ~(target_size > MaxAlloc)
  <2> DEFINE size == Len(m.to)
  <2>1. size \in 0 .. MaxAlloc /\ MaxAlloc \in Nat
    BY TargetOf, BPSAssumption
  <2> HIDE DEF size
  <2>2. ~(size > MaxAlloc)
    BY <2>1
  <2> QED BY <1>2, <2>2 DEF size
<1>4. pc' = "apply"
  BY <1>2, <1>3 DEF Apply, Fail
<1>5. CommandsRun(m)'
  BY <1>1, <1>4, NotRunYet DEF ReadBack
<1> QED BY <1>1, <1>4, <1>5, ReadStays

\* The next command of a job that runs: what was made so far, what the script
\* says and what it makes of the one with the other.
LEMMA AtOrder ==
    ASSUME IInv, NEW m \in Made, Alike(m), Given(m), ReadBack(m), NEW action, Running(action)
    PROVE  LET acc == Meaning(m.from, m.script)
               before == acc[next - 1]
               c == m.script[next]
           IN /\ pc = "apply" /\ next \in 1 .. Len(m.script) /\ UNCHANGED parsed
              /\ next' = next + 1 /\ source = m.from /\ source \in Seq(Byte)
              /\ commands[next] = CommandOf(c) /\ c.action = action
              /\ c.action \in {"SourceRead", "SourceCopy", "TargetCopy"}
              /\ c.length \in Nat \ {0} /\ c.distance \in Int
              /\ \A cursor \in Int : Moved(cursor, Signed(c.distance)) = cursor + c.distance
              /\ before.out = output /\ before.tgt = target_rel_offset
              /\ output \in Seq(Byte) /\ before.src \in Int /\ before.tgt \in Int
              /\ Legal(source, before, c)
              /\ acc[next] = After(source, before, c)
              /\ acc[next].out = output \o Bytes(source, before, c)
              /\ Bytes(source, before, c) \in Seq(Byte)
              /\ Len(output) + Len(Bytes(source, before, c)) <= MaxAlloc
<1> DEFINE acc == Meaning(m.from, m.script)
           before == acc[next - 1]
           c == m.script[next]
           after == After(m.from, before, c)
           bytes == Bytes(m.from, before, c)
<1>1. /\ pc = "apply" /\ next <= Len(commands) /\ commands[next].action = action
      /\ next' = next + 1 /\ UNCHANGED parsed
  BY DEF Running
<1>2. source = m.from /\ m.from \in Seq(Byte) /\ m.script \in Seq(Order)
  BY MadeOf DEF Given
<1>3. /\ Len(commands) = Len(m.script)
      /\ \A k \in 1 .. Len(commands) : commands[k] = CommandOf(m.script[k])
      /\ before.out = output /\ before.tgt = target_rel_offset
  BY <1>1 DEF ReadBack, CommandsRead, TrailerRead, CommandsRun
<1>4. next \in 1 .. Len(m.script)
  <2>1. next \in 1 .. Len(commands) + 1 /\ Len(m.script) \in Nat
    BY MadeOf DEF IInv, TypeOK
  <2> QED BY <1>1, <1>3, <2>1
<1>5. commands[next] = CommandOf(c) /\ c.action = action
  <2>1. commands[next] = CommandOf(c)
    BY <1>3, <1>4
  <2> QED BY <1>1, <2>1 DEF CommandOf
<1>6. /\ c.action \in {"SourceRead", "SourceCopy", "TargetCopy"}
      /\ c.length \in Nat \ {0} /\ c.distance \in Int
  BY <1>4, ScriptIs DEF Readable
<1>7. /\ before.ok /\ before.out \in Seq(Byte) /\ before.src \in Int /\ before.tgt \in Int
      /\ Legal(m.from, before, c) /\ Len(acc[next].out) \in 0 .. MaxAlloc
  <2>1. next - 1 \in 0 .. Len(m.script) /\ next \in 0 .. Len(m.script)
    BY <1>4
  <2> QED BY <1>4, <2>1, MeaningTyped DEF Alike
<1>8. acc[next] = after
  BY <1>2, <1>4, MeaningFollow
<1> HIDE DEF acc, before, c
<1>9. \A cursor \in Int : Moved(cursor, Signed(c.distance)) = cursor + c.distance
  BY <1>6, MovedBack
<1>10. after.out = before.out \o bytes /\ bytes \in Seq(Byte) /\ Len(after.out) = Len(before.out) + Len(bytes)
  <2>1. /\ after.out = before.out \o bytes /\ bytes \in Seq(Byte)
        /\ Len(bytes) = c.length /\ Len(after.out) = Len(before.out) + c.length
    <3> DEFINE s == m.from
    <3>1. /\ s \in Seq(Byte) /\ before.out \in Seq(Byte) /\ before.src \in Int /\ before.tgt \in Int
          /\ before.ok /\ Legal(s, before, c)
          /\ c.action \in {"SourceRead", "SourceCopy", "TargetCopy"}
          /\ c.length \in Nat \ {0} /\ c.distance \in Int
      BY <1>2, <1>6, <1>7
    <3> HIDE DEF s
    <3>2. /\ After(s, before, c).out = before.out \o Bytes(s, before, c)
          /\ Bytes(s, before, c) \in Seq(Byte) /\ Len(Bytes(s, before, c)) = c.length
          /\ Len(After(s, before, c).out) = Len(before.out) + c.length
      BY <3>1, AfterTyped
    <3> QED BY <3>2 DEF s
  <2> HIDE DEF after, bytes
  <2> QED BY <2>1
<1> HIDE DEF after, bytes
<1>11. Len(output) + Len(bytes) <= MaxAlloc
  <2> DEFINE total == Len(after.out)
  <2>1. total \in 0 .. MaxAlloc /\ MaxAlloc \in Nat
    BY <1>7, <1>8, BPSAssumption
  <2>2. Len(output) + Len(bytes) = total
    BY <1>3, <1>10
  <2> HIDE DEF total
  <2> QED BY <2>1, <2>2
<1>12. acc[next].out = output \o bytes
  BY <1>3, <1>8, <1>10
<1>13. /\ before.out = output /\ before.tgt = target_rel_offset /\ output \in Seq(Byte)
       /\ before.src \in Int /\ before.tgt \in Int
  BY <1>3, <1>7
<1>14. Legal(source, before, c) /\ After(source, before, c) = after /\ Bytes(source, before, c) = bytes
  BY <1>2, <1>7 DEF after, bytes
<1> QED BY <1>1, <1>2, <1>4, <1>5, <1>6, <1>8, <1>9, <1>10, <1>11, <1>12, <1>13, <1>14 DEF acc, before, c

\* What fits is written.
LEMMA EmitWrites ==
    ASSUME NEW bytes, Len(output) + Len(bytes) <= MaxAlloc, output \in Seq(Byte), bytes \in Seq(Byte),
           Emit(bytes)
    PROVE  output' = output \o bytes /\ UNCHANGED pc
<1> DEFINE total == Len(output) + Len(bytes)
<1>1. total \in Nat /\ total <= MaxAlloc /\ MaxAlloc \in Nat
  BY BPSAssumption
<1> HIDE DEF total
<1>2. ~(total > MaxAlloc)
  BY <1>1
<1> QED BY <1>2 DEF Emit, total

\* Where a command wrote what the script makes, and left the cursors where the
\* script leaves them, it is read back.
LEMMA CommandKeeps ==
    ASSUME IInv, NEW m \in Made, Alike(m), Given(m), ReadBack(m), NEW action, Running(action),
           pc' = "apply", output' = Meaning(m.from, m.script)[next].out,
           target_rel_offset' = Meaning(m.from, m.script)[next].tgt,
           ~Has(m, "SourceRead") => source_rel_offset' = Meaning(m.from, m.script)[next].src,
           (\A i \in 1 .. next : m.script[i].action = "SourceRead") => source_rel_offset' = Len(output')
    PROVE  ReadBack(m)'
<1>1. /\ pc = "apply" /\ next \in 1 .. Len(m.script) /\ UNCHANGED parsed
      /\ next' = next + 1
  BY AtOrder
<1>2. next' - 1 = next /\ Len(m.script) \in Nat
  BY <1>1, MadeOf
<1>3. CommandsRun(m)'
  BY <1>2 DEF CommandsRun
<1> QED BY <1>1, <1>3, ReadStays

\* Whether a script has an action at its k-th place.
LEMMA HasAt ==
    ASSUME NEW m \in Made, NEW k \in 1 .. Len(m.script)
    PROVE  Has(m, m.script[k].action) /\ DOMAIN m.script = 1 .. Len(m.script)
<1>1. DOMAIN m.script = 1 .. Len(m.script)
  <2>1. m.script \in Seq(Order)
    BY MadeOf
  <2> HIDE DEF Order
  <2> QED BY <2>1
<1> QED BY <1>1 DEF Has

\* SourceReads come first, so each reads at the position of the output.
LEMMA SourceReadReadsBack ==
    ASSUME IInv, NEW m \in Made, Alike(m), Given(m), ReadBack(m), SourceRead
    PROVE  ReadBack(m)'
<1> DEFINE acc == Meaning(m.from, m.script)
           before == acc[next - 1]
           c == m.script[next]
           bytes == Bytes(source, before, c)
           length == commands[next].length
           end == source_rel_offset + length
<1>1. /\ Running("SourceRead")
      /\ \/ end > Len(source) /\ Reject
         \/ /\ Emit(SubSeq(source, source_rel_offset + 1, end)) /\ source_rel_offset' = end
            /\ UNCHANGED target_rel_offset
  BY DEF SourceRead
<1>2. /\ pc = "apply" /\ next \in 1 .. Len(m.script)
      /\ source = m.from /\ source \in Seq(Byte)
      /\ commands[next] = CommandOf(c) /\ c.action = "SourceRead" /\ c.length \in Nat \ {0}
      /\ before.out = output /\ before.tgt = target_rel_offset /\ output \in Seq(Byte)
      /\ Legal(source, before, c) /\ acc[next] = After(source, before, c)
      /\ acc[next].out = output \o bytes /\ bytes \in Seq(Byte)
      /\ Len(output) + Len(bytes) <= MaxAlloc
  BY <1>1, AtOrder
<1>3. Has(m, "SourceRead") /\ DOMAIN m.script = 1 .. Len(m.script)
  BY <1>2, HasAt
<1>4. \A i \in 1 .. next - 1 : m.script[i].action = "SourceRead"
  <2> TAKE i \in 1 .. next - 1
  <2>1. i \in DOMAIN m.script /\ next \in DOMAIN m.script /\ i < next
    BY <1>2, <1>3
  <2> QED BY <1>2, <1>3, <2>1 DEF Alike, ReadsFirst
<1>5. source_rel_offset = Len(output)
  BY <1>4 DEF ReadBack, CommandsRun
<1> HIDE DEF acc, before, c
<1>6. length = c.length
  BY <1>2 DEF CommandOf
<1>7. Len(output) + c.length <= Len(source) /\ bytes = SubSeq(source, Len(output) + 1, Len(output) + c.length)
  <2>1. From(before, c) = Len(output)
    BY <1>2 DEF From
  <2> QED BY <1>2, <2>1 DEF Legal, Bytes
<1> HIDE DEF bytes, length
<1>8. ~(end > Len(source)) /\ bytes = SubSeq(source, source_rel_offset + 1, end)
  <2>1. Len(source) \in Nat /\ Len(output) \in Nat
    BY <1>2
  <2> DEFINE size == Len(source)
             here == Len(output)
             more == c.length
  <2>2. end = here + more /\ size \in Nat /\ here \in Nat /\ more \in Nat /\ here + more <= size
    BY <1>2, <1>5, <1>6, <1>7, <2>1
  <2>3. bytes = SubSeq(source, source_rel_offset + 1, end)
    BY <1>5, <1>6, <1>7
  <2> HIDE DEF size, here, more, end
  <2>4. ~(end > size)
    BY <2>2
  <2> QED BY <2>3, <2>4 DEF size
<1>9. Emit(bytes) /\ source_rel_offset' = end /\ UNCHANGED target_rel_offset
  BY <1>1, <1>8
<1>10. output' = output \o bytes /\ pc' = "apply"
  BY <1>2, <1>9, EmitWrites
<1>11. Len(output') = end
  <2>1. Len(bytes) = c.length
    <3>1. Len(output) \in Nat /\ Len(output) + c.length <= Len(source)
      BY <1>2, <1>7
    <3> QED BY <1>2, <1>7, <3>1, PartTyped
  <2>2. Len(output \o bytes) = Len(output) + Len(bytes)
    BY <1>2, Joined
  <2> QED BY <1>5, <1>6, <1>10, <2>1, <2>2
<1>12. acc[next].tgt = before.tgt
  BY <1>2 DEF After
<1> HIDE DEF end
<1> QED BY <1>1, <1>2, <1>3, <1>9, <1>10, <1>11, <1>12, CommandKeeps DEF acc

\* The other cursor in the source is moved by SourceCopies alone.
LEMMA SourceCopyReadsBack ==
    ASSUME IInv, NEW m \in Made, Alike(m), Given(m), ReadBack(m), SourceCopy
    PROVE  ReadBack(m)'
<1> DEFINE acc == Meaning(m.from, m.script)
           before == acc[next - 1]
           c == m.script[next]
           bytes == Bytes(source, before, c)
           length == commands[next].length
           from == Moved(source_rel_offset, commands[next].offset_delta)
<1>1. /\ Running("SourceCopy")
      /\ \/ ~InSource(from, length) /\ Reject
         \/ /\ Emit(SubSeq(source, from + 1, from + length))
            /\ source_rel_offset' = BehindCopy(from, length) /\ UNCHANGED target_rel_offset
  BY DEF SourceCopy
<1>2. /\ pc = "apply" /\ next \in 1 .. Len(m.script)
      /\ source = m.from /\ source \in Seq(Byte)
      /\ commands[next] = CommandOf(c) /\ c.action = "SourceCopy" /\ c.length \in Nat \ {0}
      /\ \A cursor \in Int : Moved(cursor, Signed(c.distance)) = cursor + c.distance
      /\ before.out = output /\ before.tgt = target_rel_offset /\ before.src \in Int
      /\ output \in Seq(Byte)
      /\ Legal(source, before, c) /\ acc[next] = After(source, before, c)
      /\ acc[next].out = output \o bytes /\ bytes \in Seq(Byte)
      /\ Len(output) + Len(bytes) <= MaxAlloc
  BY <1>1, AtOrder
<1>3. ~Has(m, "SourceRead")
  <2>1. Has(m, "SourceCopy")
    BY <1>2, HasAt
  <2> QED BY <2>1 DEF Alike, ReadsFirst
<1>4. source_rel_offset = before.src
  BY <1>3 DEF ReadBack, CommandsRun
<1>5. ~ \A i \in 1 .. next : m.script[i].action = "SourceRead"
  <2>1. next \in 1 .. next /\ m.script[next].action = "SourceCopy"
    BY <1>2
  <2> QED BY <2>1
<1> HIDE DEF acc, before, c
<1>6. length = c.length /\ commands[next].offset_delta = Signed(c.distance)
  BY <1>2 DEF CommandOf, IsCopy
<1>7. from = From(before, c)
  <2>1. From(before, c) = before.src + c.distance
    BY <1>2 DEF From
  <2> QED BY <1>2, <1>4, <1>6, <2>1
<1> HIDE DEF from, length
<1>8. InSource(from, length) /\ bytes = SubSeq(source, from + 1, from + length)
  BY <1>2, <1>6, <1>7 DEF InSource, Legal, Bytes
<1> HIDE DEF bytes
<1>9. Emit(bytes) /\ source_rel_offset' = from + length /\ UNCHANGED target_rel_offset
  BY <1>1, <1>8 DEF BehindCopy
<1>10. output' = output \o bytes /\ pc' = "apply"
  BY <1>2, <1>9, EmitWrites
<1>11. acc[next].tgt = before.tgt /\ acc[next].src = from + length
  BY <1>2, <1>6, <1>7 DEF After
<1> QED BY <1>1, <1>2, <1>5, <1>9, <1>10, <1>11, CommandKeeps DEF acc

\* A copy from the output repeats what it reaches.
LEMMA TargetCopyReadsBack ==
    ASSUME IInv, NEW m \in Made, Alike(m), Given(m), ReadBack(m), TargetCopy
    PROVE  ReadBack(m)'
<1> DEFINE acc == Meaning(m.from, m.script)
           before == acc[next - 1]
           c == m.script[next]
           bytes == Bytes(source, before, c)
           length == commands[next].length
           from == Moved(target_rel_offset, commands[next].offset_delta)
<1>1. /\ Running("TargetCopy")
      /\ \/ from \notin 0 .. Len(output) - 1 /\ Reject
         \/ /\ Emit(RunOf(output, from, length))
            /\ target_rel_offset' = BehindCopy(from, length) /\ UNCHANGED source_rel_offset
  BY DEF TargetCopy
<1>2. /\ pc = "apply" /\ next \in 1 .. Len(m.script)
      /\ source = m.from /\ source \in Seq(Byte)
      /\ commands[next] = CommandOf(c) /\ c.action = "TargetCopy" /\ c.length \in Nat \ {0}
      /\ \A cursor \in Int : Moved(cursor, Signed(c.distance)) = cursor + c.distance
      /\ before.out = output /\ before.tgt = target_rel_offset /\ before.tgt \in Int
      /\ output \in Seq(Byte)
      /\ Legal(source, before, c) /\ acc[next] = After(source, before, c)
      /\ acc[next].out = output \o bytes /\ bytes \in Seq(Byte)
      /\ Len(output) + Len(bytes) <= MaxAlloc
  BY <1>1, AtOrder
<1>3. ~Has(m, "SourceRead") => source_rel_offset = before.src
  BY DEF ReadBack, CommandsRun
<1>4. ~ \A i \in 1 .. next : m.script[i].action = "SourceRead"
  <2>1. next \in 1 .. next /\ m.script[next].action = "TargetCopy"
    BY <1>2
  <2> QED BY <2>1
<1> HIDE DEF acc, before, c
<1>5. length = c.length /\ commands[next].offset_delta = Signed(c.distance)
  BY <1>2 DEF CommandOf, IsCopy
<1>6. from = From(before, c)
  <2>1. From(before, c) = before.tgt + c.distance
    BY <1>2 DEF From
  <2> QED BY <1>2, <1>5, <2>1
<1> HIDE DEF from, length
<1>7. from \in 0 .. Len(output) - 1
  BY <1>2, <1>6 DEF Legal
<1>8. bytes = RunOf(output, from, length)
  <2>1. bytes = [k \in 1 .. length |-> output[from + 1 + ((k - 1) % (Len(output) - from))]]
    BY <1>2, <1>5, <1>6 DEF Bytes
  <2> HIDE DEF bytes
  <2>2. length \in Nat
    BY <1>2, <1>5
  <2>3. RunOf(output, from, length)
          = [k \in 1 .. length |-> output[from + 1 + ((k - 1) % (Len(output) - from))]]
    BY <1>2, <1>7, <2>2, CopyRepeats
  <2> QED BY <2>1, <2>3
<1> HIDE DEF bytes
<1>9. Emit(bytes) /\ target_rel_offset' = from + length /\ UNCHANGED source_rel_offset
  BY <1>1, <1>7, <1>8 DEF BehindCopy
<1>10. output' = output \o bytes /\ pc' = "apply"
  BY <1>2, <1>9, EmitWrites
<1>11. acc[next].src = before.src /\ acc[next].tgt = from + length
  BY <1>2, <1>5, <1>6 DEF After
<1> QED BY <1>1, <1>2, <1>3, <1>4, <1>9, <1>10, <1>11, CommandKeeps DEF acc

\* The output at the end is what the patch was made for.
LEMMA FinishReadsBack ==
    ASSUME IInv, NEW m \in Made, Alike(m), ReadBack(m), Finish
    PROVE  ReadBack(m)'
<1>1. /\ pc = "apply" /\ next > Len(commands) /\ UNCHANGED parsed
      /\ UNCHANGED <<next, output, source_rel_offset, target_rel_offset>>
  BY DEF Finish, applying, cursors
<1>2. /\ target_size = Len(m.to) /\ target_crc = Crc(m.to) /\ Len(commands) = Len(m.script)
      /\ output = Meaning(m.from, m.script)[next - 1].out
  BY <1>1 DEF ReadBack, SizesRead, TrailerRead, CommandsRun
<1>3. output = m.to
  <2>1. next \in 1 .. Len(commands) + 1 /\ Len(m.script) \in Nat
    BY MadeOf DEF IInv, TypeOK
  <2>2. next - 1 = Len(m.script)
    BY <1>1, <1>2, <2>1
  <2> QED BY <1>2, <2>2, MadeOf
<1>4. pc' = "done"
  BY <1>2, <1>3 DEF Finish, Accepted
<1>5. CommandsRun(m)'
  BY <1>1, <1>3, <1>4 DEF ReadBack, CommandsRun
<1> QED BY <1>1, <1>4, <1>5, ReadStays

LEMMA EncoderKeeps ==
    ASSUME ChecksumsFit, IInv, EncoderInv, [Next]_vars
    PROVE  EncoderInv'
<1>1. ASSUME NEW m \in Made, Alike(m), Given(m)' PROVE ReadBack(m)'
  <2>1. Given(m) /\ patch = m.bytes
    BY <1>1, GivenBefore DEF Given
  <2>2. ReadBack(m)
    BY <1>1, <2>1 DEF EncoderInv
  <2>3. CASE TargetRead
    <3>1. Running("TargetRead")
      BY <2>3 DEF TargetRead
    <3>2. FALSE
      BY <1>1, <2>1, <2>2, <3>1, AtOrder
    <3> QED BY <3>2
  <2>4. CASE UNCHANGED vars
    BY <2>2, <2>4 DEF vars, ReadBack, SizesRead, CommandsRead, TrailerRead, CommandsRun, CheckedPart,
                      header, checksums, cursors
  <2> QED BY <1>1, <2>1, <2>2, <2>3, <2>4, LoadReadsBack, CommandReadsBack, TrailerReadsBack,
             ValidateReadsBack, ApplyReadsBack, SourceReadReadsBack, SourceCopyReadsBack,
             TargetCopyReadsBack, FinishReadsBack DEF Next
<1> QED BY <1>1 DEF EncoderInv

\* Nothing was read at the start.
LEMMA EncoderInit == Init => EncoderInv
<1> SUFFICES ASSUME Init, NEW m \in Made PROVE ReadBack(m)
  BY DEF EncoderInv
<1>1. /\ pc = "load" /\ commands = <<>> /\ offset = 4 /\ next = 1 /\ output = <<>>
      /\ source_rel_offset = 0 /\ target_rel_offset = 0
  BY DEF Init
<1>2. Len(commands) = 0 /\ Len(output) = 0 /\ next - 1 = 0
  BY <1>1
<1>3. CommandsRead(m)
  <2>1. Len(commands) <= Len(m.script)
    BY <1>2, MadeOf
  <2> QED BY <1>1, <1>2, <2>1 DEF CommandsRead
<1>4. CommandsRun(m)
  <2> DEFINE blank == Meaning(m.from, m.script)[0]
  <2>1. blank = [ok |-> TRUE, out |-> <<>>, src |-> 0, tgt |-> 0]
    BY MadeOf, MeaningFollow
  <2> HIDE DEF blank
  <2>2. blank.out = <<>> /\ blank.src = 0 /\ blank.tgt = 0
    BY <2>1
  <2> QED BY <1>1, <1>2, <2>2 DEF CommandsRun, blank
<1> QED BY <1>1, <1>3, <1>4 DEF ReadBack, SizesRead, TrailerRead

\* A BPS patch of copies alone, made by an encoder of any script that has a meaning
\* for its source, loads, is valid, and turns its source into its target, also
\* where a copy overlaps itself; so does one that begins with SourceReads and then
\* copies from the target (bps.cc:80-94, 176-235).
THEOREM EncodedReproduced ==
    ASSUME ChecksumsFit
    PROVE  Spec => []CopiesReproduced
<1>1. Init => IInv /\ EncoderInv
  BY InitHolds, EncoderInit
<1>2. IInv /\ EncoderInv /\ [Next]_vars => IInv' /\ EncoderInv'
  BY StepHolds, EncoderKeeps
<1>3. IInv /\ EncoderInv => CopiesReproduced
  <2> SUFFICES ASSUME IInv, EncoderInv, NEW m \in Made, Alike(m), Given(m)
               PROVE  pc \notin {"failed", "thrown"} /\ (pc = "done" => output = m.to)
    BY DEF CopiesReproduced, Reproduces
  <2>1. ReadBack(m)
    BY DEF EncoderInv
  <2> QED BY <2>1 DEF ReadBack, CommandsRun
<1> QED BY <1>1, <1>2, <1>3, PTL DEF Spec
=============================================================================
