------------------------- MODULE PatchFormatProofs -------------------------
(***************************************************************************)
(* Theorems about detection, validation and two applications, for any      *)
(* patches, sources and checksums.  What is proved of each format is taken *)
(* from its own proofs: the steps of this module are its steps, and what   *)
(* lies between two calls keeps its invariant.                             *)
(***************************************************************************)
EXTENDS PatchFormatInv, SequenceTheorems, TLAPS
LOCAL INSTANCE SequencesExt

IP == INSTANCE IPSProofs WITH Base <- 2 * Half, Magic <- IPSMagic
UP == INSTANCE UPSProofs WITH Magic <- UPSMagic
BP == INSTANCE BPSProofs WITH Magic <- BPSMagic, Scripts <- {}

-----------------------------------------------------------------------------
\* The bytes detection compares are those the loaders compare.
LEMMA HeadersFit ==
    /\ Begins(IPSMagic) => SubSeq(patch, 1, 5) = IPSMagic
    /\ Begins(UPSMagic) => SubSeq(patch, 1, 4) = UPSMagic
    /\ Begins(BPSMagic) => SubSeq(patch, 1, 4) = BPSMagic
<1>1. /\ Len(IPSMagic) = 5 /\ SubSeq(IPSMagic, 1, Len(IPSMagic)) = IPSMagic
      /\ Len(UPSMagic) = 4 /\ SubSeq(UPSMagic, 1, Len(UPSMagic)) = UPSMagic
      /\ Len(BPSMagic) = 4 /\ SubSeq(BPSMagic, 1, Len(BPSMagic)) = BPSMagic
  BY PatchFormatAssumption, SubSeqFull DEF PatchFormatAssumption
<1> QED
  BY <1>1 DEF Begins, IsPrefix

\* What a step of a loader, of validate() or of apply leaves alone.
LEMMA StepsOfIPS ==
    ASSUME IPS!Load \/ IPS!ParseEof \/ IPS!ParseEnd \/ IPS!ParseTruncated \/ IPS!ParseRle \/ IPS!ParseData
             \/ IPS!ApplyRecord \/ IPS!Finish
    PROVE  /\ patch' = patch
           /\ error' = "InvalidPatchHeader" =>
                error = "InvalidPatchHeader" \/ (IPS!Load /\ SubSeq(patch, 1, 5) # IPSMagic)
BY DEF IPS!Load, IPS!ParseEof, IPS!ParseEnd, IPS!ParseTruncated, IPS!ParseRle, IPS!ParseData,
   IPS!ApplyRecord, IPS!Finish, IPS!StartApply, IPS!Fail, IPS!parsing

\* The same of UPS, and of what apply finds out about its source.
LEMMA StepsOfUPS ==
    ASSUME UPS!Load \/ UPS!ParseBlock \/ UPS!ParseTrailer \/ UPS!Validate \/ UPS!Apply
             \/ UPS!ApplyBlock \/ UPS!Finish
    PROVE  /\ patch' = patch
           /\ error' = "InvalidPatchHeader" =>
                error = "InvalidPatchHeader" \/ SubSeq(patch, 1, 4) # UPSMagic
<1>1. CASE UPS!Load
  BY <1>1 DEF UPS!Load, UPS!Fail
<1>2. CASE UPS!ParseBlock \/ UPS!ParseTrailer
  BY <1>2 DEF UPS!ParseBlock, UPS!ParseTrailer
<1>3. CASE UPS!Validate
  BY <1>3 DEF UPS!Validate, UPS!Fail, UPS!parsed
<1>4. CASE UPS!Apply
  BY <1>4 DEF UPS!Apply, UPS!StartApply, UPS!Fail, UPS!parsed
<1>5. CASE UPS!ApplyBlock \/ UPS!Finish
  BY <1>5 DEF UPS!ApplyBlock, UPS!Finish, UPS!Fail, UPS!parsed
<1> QED
  BY <1>1, <1>2, <1>3, <1>4, <1>5

\* The same of BPS.
LEMMA StepsOfBPS ==
    ASSUME BPS!Load \/ BPS!ParseCommand \/ BPS!ParseTrailer \/ BPS!Validate \/ BPS!Apply
             \/ BPS!SourceRead \/ BPS!TargetRead \/ BPS!SourceCopy \/ BPS!TargetCopy \/ BPS!Finish
    PROVE  /\ patch' = patch
           /\ error' = "InvalidPatchHeader" =>
                error = "InvalidPatchHeader" \/ SubSeq(patch, 1, 4) # BPSMagic
<1>1. CASE BPS!Load
  BY <1>1 DEF BPS!Load, BPS!Fail
<1>2. CASE BPS!ParseCommand \/ BPS!ParseTrailer
  BY <1>2 DEF BPS!ParseCommand, BPS!ParseTrailer
<1>3. CASE BPS!Validate
  BY <1>3 DEF BPS!Validate, BPS!Fail, BPS!parsed
<1>4. CASE BPS!Apply
  BY <1>4 DEF BPS!Apply, BPS!Fail, BPS!parsed
<1>5. CASE BPS!SourceRead \/ BPS!TargetRead \/ BPS!SourceCopy \/ BPS!TargetCopy
  BY <1>5 DEF BPS!SourceRead, BPS!TargetRead, BPS!SourceCopy, BPS!TargetCopy, BPS!Running, BPS!Reject,
     BPS!Emit, BPS!Fail, BPS!parsed
<1>6. CASE BPS!Finish
  BY <1>6 DEF BPS!Finish, BPS!Fail, BPS!parsed
<1> QED
  BY <1>1, <1>2, <1>3, <1>4, <1>5, <1>6

-----------------------------------------------------------------------------
(***************************************************************************)
(* The way to a loader                                                     *)
(***************************************************************************)

\* Routed only depends on the patch, its format, the call and the error.
LEMMA RoutedStays ==
    ASSUME Routed, patch' = patch, format' = format, call' \in {"load", "validate", "apply", "again"},
           call' # "load" => format # "Unknown", NeverMisrouted'
    PROVE  Routed'
BY DEF Routed, Begins

\* Every step keeps patches with the loaders of their headers.
LEMMA RoutedKept == Routed /\ [Next]_vars => Routed'
<1> SUFFICES ASSUME Routed, [Next]_vars PROVE Routed'
  OBVIOUS
<1>1. CASE Detect
  BY <1>1 DEF Detect, DetectedFormat, Routed, NeverMisrouted, Begins
<1>2. ASSUME patch' = patch,
             error' = "InvalidPatchHeader" => error = "InvalidPatchHeader"
                \/ (format = "IPS" /\ SubSeq(patch, 1, 5) # IPSMagic)
                \/ (format = "UPS" /\ SubSeq(patch, 1, 4) # UPSMagic)
                \/ (format = "BPS" /\ SubSeq(patch, 1, 4) # BPSMagic)
      PROVE  NeverMisrouted'
  BY <1>2, HeadersFit DEF Routed, NeverMisrouted
<1>3. CASE LoadPatch
  BY <1>2, <1>3, RoutedStays, StepsOfIPS, StepsOfUPS, StepsOfBPS
     DEF LoadPatch, IPSStep, UPSStep, BPSStep, Routed
<1>4. CASE Validate
  BY <1>2, <1>4, RoutedStays, StepsOfUPS, StepsOfBPS DEF Validate, IPSStep, UPSStep, BPSStep, Routed, common
<1>5. CASE AnswerValidate
  BY <1>5, RoutedStays DEF AnswerValidate, Routed, NeverMisrouted
<1>6. CASE ApplyPatch
  BY <1>2, <1>6, RoutedStays, StepsOfIPS, StepsOfUPS, StepsOfBPS
     DEF ApplyPatch, IPSStep, UPSStep, BPSStep, Routed
<1>7. CASE SourceMissing \/ ApplyAgain
  BY <1>7, RoutedStays DEF SourceMissing, ApplyAgain, Routed, NeverMisrouted
<1>8. CASE UNCHANGED vars
  BY <1>8, RoutedStays DEF vars, common, Routed, NeverMisrouted
<1> QED
  BY <1>1, <1>3, <1>4, <1>5, <1>6, <1>7, <1>8 DEF Next

-----------------------------------------------------------------------------
(***************************************************************************)
(* What validate and apply find out                                        *)
(***************************************************************************)

\* The two loaders check the same part of a patch.
LEMMA CheckedPartsAgree == BPS!CheckedPart = UPS!CheckedPart
BY DEF BPS!CheckedPart, UPS!CheckedPart

\* While a patch is applied, or asked for again, what validate_patch compared
\* stays as it was.
LEMMA JudgedStays ==
    ASSUME Judged, call = "apply", call' = "apply", has_checksums,
           UNCHANGED <<patch, patch_crc, src_size, src_crc, source, format, valid, asked>>,
           error' = "SourceSizeMismatch" => Len(source) # src_size,
           pc' \in {"apply", "done"} =>
                readable /\ (verify_checksums => Len(source) = src_size /\ Crc(source) = src_crc)
    PROVE  Judged'
<1>1. /\ Crc(UPS!CheckedPart)' = Crc(UPS!CheckedPart) /\ Crc(source)' = Crc(source)
      /\ SourceAnswer' = SourceAnswer /\ Intact' = Intact
  BY DEF UPS!CheckedPart, SourceAnswer, Intact
<1> QED
  BY <1>1 DEF Judged, has_checksums, asked

\* Every step keeps what was found out.
LEMMA JudgedKept == Routed /\ Judged /\ [Next]_vars => Judged'
<1> SUFFICES ASSUME Routed, Judged, [Next]_vars PROVE Judged'
  OBVIOUS
<1>1. CASE Detect \/ LoadPatch
  BY <1>1 DEF Detect, LoadPatch, Judged
<1>2. CASE Validate
  <2>1. call = "load" /\ call' = "validate" /\ pc = Loaded /\ format' = format
    BY <1>2 DEF Validate
  <2>2. CASE IPSStep(UNCHANGED <<common, ofIPS>>)
    BY <2>1, <2>2 DEF IPSStep, Judged, has_checksums
  <2>3. CASE UPSStep(UPS!Validate)
    <3>1. /\ UNCHANGED <<patch, patch_crc>>
          /\ IF Intact THEN pc' = "valid" ELSE pc' = "failed" /\ error' = "ChecksumMismatch"
      BY <2>3 DEF UPSStep, UPS!Validate, UPS!Fail, UPS!parsed, UPS!checksums, Intact
    <3>2. Intact' = Intact
      BY <3>1 DEF Intact, UPS!CheckedPart
    <3> QED
      BY <2>1, <3>1, <3>2 DEF Judged
  <2>4. CASE BPSStep(BPS!Validate)
    <3>1. /\ UNCHANGED <<patch, patch_crc>>
          /\ IF Intact THEN pc' = "valid" ELSE pc' = "failed" /\ error' = "ChecksumMismatch"
      BY <2>4, CheckedPartsAgree DEF BPSStep, BPS!Validate, BPS!Fail, BPS!parsed, BPS!checksums, Intact
    <3>2. Intact' = Intact
      BY <3>1 DEF Intact, UPS!CheckedPart
    <3> QED
      BY <2>1, <3>1, <3>2 DEF Judged
  <2> QED
    BY <1>2, <2>2, <2>3, <2>4 DEF Validate
<1>3. CASE AnswerValidate
  <2>1. /\ call = "validate" /\ call' = "apply" /\ pc' = Loaded /\ error' = "none"
        /\ UNCHANGED <<patch, source, src_size, src_crc, patch_crc, format, readable, verify_checksums>>
        /\ valid' = IF pc = "failed" THEN error
                    ELSE IF ~has_checksums THEN "Ok"
                    ELSE IF ~readable THEN "FileNotFound"
                    ELSE SourceAnswer
    BY <1>3 DEF AnswerValidate, ofBoth, asked
  <2>2. /\ Crc(UPS!CheckedPart)' = Crc(UPS!CheckedPart) /\ Crc(source)' = Crc(source)
        /\ SourceAnswer' = SourceAnswer /\ Intact' = Intact
    BY <2>1 DEF UPS!CheckedPart, SourceAnswer, Intact
  <2>3. CASE has_checksums
    <3>1. pc' = "loaded"
      BY <2>1, <2>3 DEF Loaded, has_checksums
    <3>2. IF Intact THEN pc = "valid" ELSE pc = "failed" /\ error = "ChecksumMismatch"
      BY <2>1, <2>3 DEF Judged
    <3>3. valid' = "Ok" <=> Intact /\ readable /\ SourceAnswer = "Ok"
      BY <2>1, <2>3, <3>2
    <3> QED
      BY <2>1, <2>2, <3>1, <3>3 DEF Judged
  <2>4. CASE ~has_checksums
    BY <2>1, <2>4 DEF Judged, has_checksums
  <2> QED
    BY <2>3, <2>4
<1>4. CASE ApplyPatch
  <2>1. call' = call /\ UNCHANGED <<format, valid, asked>> /\ readable /\ call \in {"apply", "again"}
    BY <1>4 DEF ApplyPatch
  <2>2. CASE call = "again"
    BY <2>1, <2>2 DEF Judged
  <2>3. CASE call = "apply" /\ format = "IPS"
    BY <2>1, <2>3 DEF Judged, has_checksums
  <2>4. CASE call = "apply" /\ UPSStep(UPS!Apply /\ verify' = PassedOn(verify_checksums))
    BY <2>1, <2>4, JudgedStays DEF UPSStep, UPS!Apply, UPS!StartApply, UPS!Fail, UPS!parsed, UPS!header,
       UPS!checksums, PassedOn, Judged, has_checksums
  <2>5. CASE call = "apply" /\ UPSStep(UPS!ApplyBlock \/ UPS!Finish)
    BY <2>1, <2>5, JudgedStays DEF UPSStep, UPS!ApplyBlock, UPS!Finish, UPS!Fail, UPS!parsed, UPS!header,
       UPS!checksums, Judged, has_checksums
  <2>6. CASE call = "apply" /\ BPSStep(BPS!Apply /\ verify' = PassedOn(verify_checksums))
    BY <2>1, <2>6, JudgedStays DEF BPSStep, BPS!Apply, BPS!Fail, BPS!parsed, BPS!header, BPS!checksums,
       PassedOn, Judged, has_checksums
  <2>7. CASE /\ call = "apply"
             /\ BPSStep(BPS!SourceRead \/ BPS!TargetRead \/ BPS!SourceCopy \/ BPS!TargetCopy \/ BPS!Finish)
    <3>1. /\ pc = "apply" /\ UNCHANGED <<patch, patch_crc, src_size, src_crc, source>>
          /\ error' = error \/ error' \in {"InvalidPatchFormat", "ChecksumMismatch"}
      BY <2>7 DEF BPSStep, BPS!SourceRead, BPS!TargetRead, BPS!SourceCopy, BPS!TargetCopy, BPS!Running,
         BPS!Reject, BPS!Emit, BPS!Finish, BPS!Fail, BPS!parsed, BPS!header, BPS!checksums, BPS!applying
    <3> QED
      BY <2>1, <2>7, <3>1, JudgedStays DEF BPSStep, Judged, has_checksums
  <2> QED
    BY <1>4, <2>1, <2>2, <2>3, <2>4, <2>5, <2>6, <2>7 DEF ApplyPatch, IPSStep
<1>5. CASE SourceMissing
  <2>1. CASE has_checksums
    BY <1>5, <2>1, JudgedStays DEF SourceMissing, ofBoth
  <2>2. CASE ~has_checksums
    BY <1>5, <2>2 DEF SourceMissing, Judged, has_checksums
  <2> QED
    BY <2>1, <2>2
<1>6. CASE ApplyAgain
  BY <1>6 DEF ApplyAgain, Judged
<1>7. CASE UNCHANGED vars
  <2>1. UNCHANGED <<patch, pc, source, error, src_size, src_crc, patch_crc, format, call, valid, readable,
                    verify_checksums>>
    BY <1>7 DEF vars, common, ofBoth, asked
  <2>2. /\ Crc(UPS!CheckedPart)' = Crc(UPS!CheckedPart) /\ Crc(source)' = Crc(source)
        /\ SourceAnswer' = SourceAnswer /\ Intact' = Intact
    BY <2>1 DEF UPS!CheckedPart, SourceAnswer, Intact
  <2> QED
    BY <2>1, <2>2 DEF Judged, has_checksums
<1> QED
  BY <1>1, <1>2, <1>3, <1>4, <1>5, <1>6, <1>7 DEF Next

-----------------------------------------------------------------------------
(***************************************************************************)
(* The formats, as they are here and in their own proofs                   *)
(***************************************************************************)

\* What IPSProofs assumes of its constants holds of those it is given here.
LEMMA IPSTypes ==
    /\ 2 * Half \in Nat \ {0, 1}
    /\ IPSMagic \in Seq(0 .. 2 * Half - 1) /\ Len(IPSMagic) = 5
    /\ EofMark \in Seq(0 .. 2 * Half - 1) /\ Len(EofMark) = 3
    /\ Patches \subseteq Seq(0 .. 2 * Half - 1)
    /\ Sources \subseteq Seq(0 .. 2 * Half - 1)
<1>1. 2 * Half \in Nat \ {0, 1}
  BY PatchFormatAssumption DEF PatchFormatAssumption
<1>2. UPS!Byte = 0 .. 2 * Half - 1
  BY DEF UPS!Byte
<1> QED BY <1>1, <1>2, PatchFormatAssumption DEF PatchFormatAssumption

\* IPS takes the same steps in both,
LEMMA SameIPSSteps ==
    /\ IPS!Load <=> IP!Load
    /\ IPS!ParseEof <=> IP!ParseEof
    /\ IPS!ParseEnd <=> IP!ParseEnd
    /\ IPS!ParseTruncated <=> IP!ParseTruncated
    /\ IPS!ParseRle <=> IP!ParseRle
    /\ IPS!ParseData <=> IP!ParseData
    /\ IPS!ApplyRecord <=> IP!ApplyRecord
    /\ IPS!Finish <=> IP!Finish
BY DEF
     IPS!Load, IP!Load, IPS!Fail, IP!Fail, IPS!applying, IP!applying, IPS!ParseEof, IP!ParseEof,
     IPS!More, IP!More, IPS!AtEof, IP!AtEof, IPS!StartApply, IP!StartApply, IPS!ParseEnd,
     IP!ParseEnd, IPS!ParseTruncated, IP!ParseTruncated, IPS!Be2, IP!Be2, IPS!RleSize, IP!RleSize,
     IPS!DataEnd, IP!DataEnd, IPS!parsing, IP!parsing, IPS!ByteAt, IP!ByteAt, IPS!ParseRle,
     IP!ParseRle, IPS!RleRecord, IP!RleRecord, IPS!Be3, IP!Be3, IPS!ParseData, IP!ParseData,
     IPS!DataRecord, IP!DataRecord, IPS!ApplyRecord, IP!ApplyRecord, IPS!Written, IP!Written,
     IPS!Grown, IP!Grown, IPS!End, IP!End, IPS!Covers, IP!Covers, IPS!ValueAt, IP!ValueAt,
     IPS!RunLength, IP!RunLength, IPS!Finish, IP!Finish

\* and have the same invariant.
LEMMA SameIPSInvariant == IPSInvariant!IInv <=> IP!IInv
BY DEF
     IPSInvariant!IInv, IP!IInv, IPSInvariant!Ranges, IP!Ranges, IPSInvariant!LastWriterWins,
     IP!LastWriterWins, IPSInvariant!LengthLaw, IP!LengthLaw, IPSInvariant!History, IP!History,
     IPSInvariant!TypeOK, IP!TypeOK, IPSInvariant!BytesOf, IP!BytesOf, IPSInvariant!Hits, IP!Hits,
     IPSInvariant!End, IP!End, IPSInvariant!Settled, IP!Settled, IPSInvariant!Byte, IP!Byte,
     IPSInvariant!Record, IP!Record, IPSInvariant!Errors, IP!Errors, IPSInvariant!RunLength,
     IP!RunLength

\* Steps of IPS keep what its proofs keep.
LEMMA IPSKeeps ==
    ASSUME IPSInvariant!IInv,
           \/ IPS!Load \/ IPS!ParseEof \/ IPS!ParseEnd \/ IPS!ParseTruncated \/ IPS!ParseRle
           \/ IPS!ParseData \/ IPS!ApplyRecord \/ IPS!Finish
           \/ UNCHANGED <<common, ofIPS>>
    PROVE  IPSInvariant!IInv'
<1>1. IP!IInv
  BY SameIPSInvariant
<1>2. [IP!Next]_IP!vars
  BY SameIPSSteps DEF IP!Next, IP!vars, common, ofIPS
<1>3. IP!IInv /\ [IP!Next]_IP!vars => IP!IInv'
  BY IPSTypes, IP!StepHolds DEF IP!Byte
<1>4. IPSInvariant!IInv' <=> IP!IInv'
  BY SameIPSInvariant, PTL
<1> QED BY <1>1, <1>2, <1>3, <1>4

\* UPS reads the same numbers in both,
LEMMA SameUPSNumbers == \A data, at : UPS!Decode(data, at) = UP!Decode(data, at)
BY DEF
     UPS!Decode, UP!Decode, UPS!LastByte, UP!LastByte, UPS!Turns, UP!Turns, UPS!Digit, UP!Digit

\* take the same steps,
LEMMA SameUPSSteps ==
    /\ UPS!Load <=> UP!Load
    /\ UPS!ParseBlock <=> UP!ParseBlock
    /\ UPS!ParseTrailer <=> UP!ParseTrailer
    /\ UPS!Validate <=> UP!Validate
    /\ UPS!Apply <=> UP!Apply
    /\ UPS!ApplyBlock <=> UP!ApplyBlock
    /\ UPS!Finish <=> UP!Finish
BY SameUPSNumbers DEF
     UPS!Load, UP!Load, UPS!Trailer, UP!Trailer, UPS!Fail, UP!Fail, UPS!header, UP!header,
     UPS!checksums, UP!checksums, UPS!applying, UP!applying, UPS!ParseBlock, UP!ParseBlock,
     UPS!BodyEnd, UP!BodyEnd, UPS!DataOf, UP!DataOf, UPS!PositionAfter, UP!PositionAfter,
     UPS!ParseTrailer, UP!ParseTrailer, UPS!Validate, UP!Validate, UPS!CheckedPart, UP!CheckedPart,
     UPS!parsed, UP!parsed, UPS!Apply, UP!Apply, UPS!StartApply, UP!StartApply, UPS!Larger,
     UP!Larger, UPS!Resized, UP!Resized, UPS!ApplyBlock, UP!ApplyBlock, UPS!Played, UP!Played,
     UPS!Finish, UP!Finish, UPS!Accepted, UP!Accepted

\* and have the same invariant.
LEMMA SameUPSInvariant == UPSInvariant!IInv <=> UP!IInv
BY DEF
     UPSInvariant!IInv, UP!IInv, UPSInvariant!TypeOK, UP!TypeOK, UPSInvariant!HasTrailer,
     UP!HasTrailer, UPSInvariant!SourceChecked, UP!SourceChecked, UPSInvariant!OutputChecked,
     UP!OutputChecked, UPSInvariant!BlocksPlayed, UP!BlocksPlayed, UPSInvariant!SecondOfFirst,
     UP!SecondOfFirst, UPSInvariant!Byte, UP!Byte, UPSInvariant!Larger, UP!Larger,
     UPSInvariant!Number, UP!Number, UPSInvariant!Block, UP!Block, UPSInvariant!Errors, UP!Errors,
     UPSInvariant!Trailer, UP!Trailer, UPSInvariant!PlayedAll, UP!PlayedAll, UPSInvariant!Grown,
     UP!Grown, UPSInvariant!Answer, UP!Answer, UPSInvariant!Played, UP!Played, UPSInvariant!Resized,
     UP!Resized

\* Steps of UPS keep what its proofs keep.
LEMMA UPSKeeps ==
    ASSUME UPSInvariant!IInv,
           \/ UPS!Load \/ UPS!ParseBlock \/ UPS!ParseTrailer \/ UPS!Validate \/ UPS!Apply
           \/ UPS!ApplyBlock \/ UPS!Finish
           \/ UNCHANGED <<common, ofBoth, ofUPS>>
    PROVE  UPSInvariant!IInv'
<1>1. UP!IInv
  BY SameUPSInvariant
<1>2. [UP!Next]_UP!vars
  BY SameUPSSteps DEF UP!Next, UP!vars, common, ofBoth, ofUPS
<1>3. UP!IInv /\ [UP!Next]_UP!vars => UP!IInv'
  BY UP!StepHolds, PatchFormatAssumption DEF PatchFormatAssumption, UP!Byte, UPS!Byte
<1>4. UPSInvariant!IInv' <=> UP!IInv'
  BY SameUPSInvariant, PTL
<1> QED BY <1>1, <1>2, <1>3, <1>4

\* BPS reads the same numbers in both,
LEMMA SameBPSNumbers == \A data, at : BPS!Decode(data, at) = BP!Decode(data, at)
BY DEF
     BPS!Decode, BP!Decode, BPS!LastByte, BP!LastByte, BPS!Turns, BP!Turns, BPS!Digit, BP!Digit

\* take the same steps,
LEMMA SameBPSSteps ==
    /\ BPS!Load <=> BP!Load
    /\ BPS!ParseCommand <=> BP!ParseCommand
    /\ BPS!ParseTrailer <=> BP!ParseTrailer
    /\ BPS!Validate <=> BP!Validate
    /\ BPS!Apply <=> BP!Apply
    /\ BPS!SourceRead <=> BP!SourceRead
    /\ BPS!TargetRead <=> BP!TargetRead
    /\ BPS!SourceCopy <=> BP!SourceCopy
    /\ BPS!TargetCopy <=> BP!TargetCopy
    /\ BPS!Finish <=> BP!Finish
BY SameBPSNumbers DEF
     BPS!Load, BP!Load, BPS!Trailer, BP!Trailer, BPS!Fail, BP!Fail, BPS!header, BP!header,
     BPS!checksums, BP!checksums, BPS!applying, BP!applying, BPS!cursors, BP!cursors,
     BPS!ParseCommand, BP!ParseCommand, BPS!BodyEnd, BP!BodyEnd, BPS!ActionOf, BP!ActionOf,
     BPS!IsCopy, BP!IsCopy, BPS!LengthOf, BP!LengthOf, BPS!ParseTrailer, BP!ParseTrailer,
     BPS!Validate, BP!Validate, BPS!CheckedPart, BP!CheckedPart, BPS!parsed, BP!parsed, BPS!Apply,
     BP!Apply, BPS!SourceRead, BP!SourceRead, BPS!Running, BP!Running, BPS!Reject, BP!Reject,
     BPS!Emit, BP!Emit, BPS!TargetRead, BP!TargetRead, BPS!SourceCopy, BP!SourceCopy, BPS!Moved,
     BP!Moved, BPS!InSource, BP!InSource, BPS!BehindCopy, BP!BehindCopy, BPS!TargetCopy,
     BP!TargetCopy, BPS!RunOf, BP!RunOf, BPS!Finish, BP!Finish, BPS!Accepted, BP!Accepted

\* and have the same invariant.
LEMMA SameBPSInvariant == BPSInvariant!IInv <=> BP!IInv
BY DEF
     BPSInvariant!IInv, BP!IInv, BPSInvariant!TypeOK, BP!TypeOK, BPSInvariant!HasTrailer,
     BP!HasTrailer, BPSInvariant!ParserInside, BP!ParserInside, BPSInvariant!InPatch, BP!InPatch,
     BPSInvariant!Untouched, BP!Untouched, BPSInvariant!CursorsInside,
     BP!CursorsInside, BPSInvariant!SourceAccepted, BP!SourceAccepted, BPSInvariant!OutputAccepted,
     BP!OutputAccepted, BPSInvariant!Byte, BP!Byte, BPSInvariant!Number, BP!Number,
     BPSInvariant!Command, BP!Command, BPSInvariant!Errors, BP!Errors, BPSInvariant!Trailer,
     BP!Trailer, BPSInvariant!BodyEnd, BP!BodyEnd, BPSInvariant!Accepted, BP!Accepted,
     BPSInvariant!Action, BP!Action

\* Steps of BPS keep what its proofs keep.
LEMMA BPSKeeps ==
    ASSUME BPSInvariant!IInv,
           \/ BPS!Load \/ BPS!ParseCommand \/ BPS!ParseTrailer \/ BPS!Validate \/ BPS!Apply
           \/ BPS!SourceRead \/ BPS!TargetRead \/ BPS!SourceCopy \/ BPS!TargetCopy \/ BPS!Finish
           \/ UNCHANGED <<common, ofBoth, ofBPS, cursors>>
    PROVE  BPSInvariant!IInv'
<1>1. BP!IInv
  BY SameBPSInvariant
<1>2. [BP!Next]_BP!vars
  BY SameBPSSteps DEF BP!Next, BP!vars, common, ofBoth, ofBPS, cursors
<1>3. BP!IInv /\ [BP!Next]_BP!vars => BP!IInv'
  BY BP!StepHolds, PatchFormatAssumption DEF PatchFormatAssumption, BP!Byte, UPS!Byte
<1>4. BPSInvariant!IInv' <=> BP!IInv'
  BY SameBPSInvariant, PTL
<1> QED BY <1>1, <1>2, <1>3, <1>4

-----------------------------------------------------------------------------
(***************************************************************************)
(* From call to call                                                       *)
(***************************************************************************)

\* Before anything is loaded each of the formats has its invariant.
LEMMA BlankCarried ==
    ASSUME Blank, patch \in Seq(UPS!Byte), 2 * Len(patch) < Word, source \in Seq(UPS!Byte)
    PROVE  IPSInvariant!IInv /\ UPSInvariant!IInv /\ BPSInvariant!IInv
<1> USE DEF Blank, UPS!Byte
<1>1. IP!IInv
  BY IPSTypes, IP!BlankHolds DEF IP!Byte
<1>2. UP!IInv
  BY UP!BlankHolds, PatchFormatAssumption DEF PatchFormatAssumption, UP!Byte
<1>3. BP!IInv
  BY BP!BlankHolds, PatchFormatAssumption DEF PatchFormatAssumption, BP!Byte
<1> QED
  BY <1>1, <1>2, <1>3, SameIPSInvariant, SameUPSInvariant, SameBPSInvariant

\* Between two calls an IPS patch may lose its error, or start again.
LEMMA IPSBetween ==
    ASSUME IPSInvariant!IInv, UNCHANGED <<patch, offset, records, is_ips32_format, output, first>>,
           \/ UNCHANGED <<pc, source, next>> /\ error' \in {error, "none"}
           \/ pc = "done" /\ pc' = "apply" /\ source' = output /\ next' = 1 /\ UNCHANGED error
    PROVE  IPSInvariant!IInv'
<1>1. IP!IInv
  BY SameIPSInvariant
<1>2. CASE UNCHANGED <<pc, source, next>> /\ error' \in {error, "none"}
  <2>1. IP!IInv'
    BY <1>1, <1>2, IPSTypes, IP!ErrorHolds DEF IP!Byte, IP!parsing, IP!applying
  <2>2. IPSInvariant!IInv' <=> IP!IInv'
    BY SameIPSInvariant, PTL
  <2> QED BY <2>1, <2>2
<1>3. CASE pc = "done" /\ pc' = "apply" /\ source' = output /\ next' = 1 /\ UNCHANGED error
  <2>1. IP!IInv'
    BY <1>1, <1>3, IPSTypes, IP!RestartHolds DEF IP!Byte, IP!parsing
  <2>2. IPSInvariant!IInv' <=> IP!IInv'
    BY SameIPSInvariant, PTL
  <2> QED BY <2>1, <2>2
<1> QED BY <1>2, <1>3

\* A UPS patch is ready for the next call, whatever the last one built,
LEMMA UPSBetween ==
    ASSUME UPSInvariant!IInv, Len(patch) >= 4 + UPS!Trailer, pc' = "loaded",
           source' \in {source, output}, output' \in {output, <<>>}, next' \in {1, next},
           error' \in {error, "none"}, UNCHANGED <<patch, offset, ofBoth, ofUPS>>
    PROVE  UPSInvariant!IInv'
<1>1. UP!IInv
  BY SameUPSInvariant
<1>2. UP!IInv'
  BY <1>1, UP!BetweenCalls, PatchFormatAssumption
     DEF PatchFormatAssumption, UP!Byte, UPS!Byte, UP!Trailer, UPS!Trailer, ofBoth, ofUPS,
         UP!parsed, UP!header, UP!checksums
<1>3. UPSInvariant!IInv' <=> UP!IInv'
  BY SameUPSInvariant, PTL
<1> QED BY <1>2, <1>3

\* and so is a BPS patch once its output is empty again.
LEMMA BPSBetween ==
    ASSUME BPSInvariant!IInv, Len(patch) >= 4 + UPS!Trailer, BPSInvariant!InPatch, pc' = "loaded",
           source' \in {source, output}, output' = <<>>, next' \in {1, next},
           source_rel_offset' = 0, target_rel_offset' = 0,
           patch_data_offset' \in {patch_data_offset, 0},
           error' \in {error, "none"}, UNCHANGED <<patch, offset, ofBoth, commands, data_offset>>
    PROVE  BPSInvariant!IInv'
<1>1. BP!IInv
  BY SameBPSInvariant
<1>2. BP!IInv'
  BY <1>1, BP!BetweenCalls, PatchFormatAssumption
     DEF PatchFormatAssumption, BP!Byte, UPS!Byte, BP!Trailer, UPS!Trailer, ofBoth,
         BPSInvariant!InPatch, BP!InPatch, BP!parsed, BP!header, BP!checksums
<1>3. BPSInvariant!IInv' <=> BP!IInv'
  BY SameBPSInvariant, PTL
<1> QED BY <1>2, <1>3

\* Only detection ends with an unknown format, and then the load failed.
LEMMA FreshKept == Routed /\ Fresh /\ [Next]_vars => Fresh'
<1> SUFFICES ASSUME Routed, Fresh, [Next]_vars, (format = "Unknown")', (pc = "load")' PROVE
       /\ Blank'
       /\ (patch \in Seq(UPS!Byte))' /\ (2 * Len(patch) < Word)' /\ (source \in Seq(UPS!Byte))'
  BY DEF Fresh
<1>1. ~Detect /\ ~LoadPatch /\ ~Validate
  BY DEF Detect, DetectedFormat, LoadPatch, Validate, IPSStep, UPSStep, BPSStep
<1>2. ~AnswerValidate /\ ~ApplyPatch /\ ~SourceMissing /\ ~ApplyAgain
  BY DEF AnswerValidate, ApplyPatch, SourceMissing, ApplyAgain, Routed
<1>3. UNCHANGED vars
  BY <1>1, <1>2 DEF Next
<1> USE <1>3 DEF vars, common, ofIPS, ofBoth, ofUPS, ofBPS, cursors
<1>4. Blank /\ patch \in Seq(UPS!Byte) /\ 2 * Len(patch) < Word /\ source \in Seq(UPS!Byte)
  BY DEF Fresh
<1>5. Blank'
  BY <1>4 DEF Blank
<1> QED BY <1>4, <1>5 DEF UPS!Byte

\* Nobody changes what was asked for, nor a file behind the caller's back.
LEMMA AskedStays == [Next]_vars => UNCHANGED <<readable, verify_checksums>>
<1>1. Detect \/ LoadPatch \/ Validate \/ AnswerValidate => UNCHANGED asked
  BY DEF Detect, LoadPatch, Validate, AnswerValidate
<1>2. ApplyPatch \/ SourceMissing \/ ApplyAgain => UNCHANGED asked
  BY DEF ApplyPatch, SourceMissing, ApplyAgain
<1>3. UNCHANGED vars => UNCHANGED asked
  BY DEF vars
<1> QED BY <1>1, <1>2, <1>3 DEF Next, asked

\* The invariant of the format survives every step of every call.
LEMMA CarriedKept == Routed /\ Fresh /\ AtRest /\ Carried /\ [Next]_vars => Carried'
<1> SUFFICES ASSUME Routed, Fresh, AtRest, Carried, [Next]_vars, readable, readable'
             PROVE  Carried'
  BY AskedStays DEF Carried
<1>1. CASE Detect
  <2>1. CASE format' = "Unknown"
    BY <2>1 DEF Carried
  <2>2. CASE format' # "Unknown"
    <3>1. /\ pc = "load" /\ format = "Unknown"
          /\ UNCHANGED <<common, ofIPS, ofBoth, ofUPS, ofBPS>>
      BY <1>1, <2>2 DEF Detect, common
    <3>2. IPSInvariant!IInv /\ UPSInvariant!IInv /\ BPSInvariant!IInv
      BY <3>1, BlankCarried DEF Fresh
    <3>3. IPSInvariant!IInv' /\ UPSInvariant!IInv' /\ BPSInvariant!IInv'
      BY <3>1, <3>2, IPSKeeps, UPSKeeps, BPSKeeps DEF ofBPS
    <3> QED BY <3>3 DEF Carried
  <2> QED BY <2>1, <2>2
<1>2. CASE LoadPatch
  BY <1>2, IPSKeeps, UPSKeeps, BPSKeeps DEF LoadPatch, IPSStep, UPSStep, BPSStep, Carried
<1>3. CASE Validate
  BY <1>3, IPSKeeps, UPSKeeps, BPSKeeps DEF Validate, IPSStep, UPSStep, BPSStep, Carried
<1>4. CASE AnswerValidate
  <2>1. /\ call = "validate" /\ pc' = Loaded /\ error' = "none" /\ format' = format
        /\ UNCHANGED <<patch, offset, source, next, output, ofIPS, ofBoth, ofUPS, ofBPS>>
    BY <1>4 DEF AnswerValidate
  <2>2. CASE format = "IPS"
    <3>1. pc = "apply" /\ pc' = "apply"
      BY <2>1, <2>2 DEF AtRest, Loaded
    <3>2. IPSInvariant!IInv'
      BY <2>1, <2>2, <3>1, IPSBetween DEF Carried, ofIPS
    <3> QED BY <2>1, <2>2, <3>2 DEF Carried
  <2>3. CASE format = "UPS"
    <3>1. pc' = "loaded" /\ Len(patch) >= 4 + UPS!Trailer
      BY <2>1, <2>3 DEF AtRest, Loaded, has_checksums
    <3>2. UPSInvariant!IInv'
      BY <2>1, <2>3, <3>1, UPSBetween DEF Carried
    <3> QED BY <2>1, <2>3, <3>2 DEF Carried
  <2>4. CASE format = "BPS"
    <3>1. /\ pc' = "loaded" /\ Len(patch) >= 4 + UPS!Trailer /\ BPSInvariant!InPatch
          /\ output = <<>> /\ source_rel_offset = 0 /\ target_rel_offset = 0
      BY <2>1, <2>4 DEF AtRest, Loaded, has_checksums
    <3>2. BPSInvariant!IInv'
      BY <2>1, <2>4, <3>1, BPSBetween DEF Carried, ofBPS, cursors
    <3> QED BY <2>1, <2>4, <3>2 DEF Carried
  <2>5. CASE format = "Unknown"
    BY <2>1, <2>5 DEF Carried
  <2> QED BY <2>2, <2>3, <2>4, <2>5 DEF Routed
<1>5. CASE ApplyPatch
  BY <1>5, IPSKeeps, UPSKeeps, BPSKeeps DEF ApplyPatch, IPSStep, UPSStep, BPSStep, Carried
<1>6. CASE SourceMissing
  BY <1>6 DEF SourceMissing
<1>7. CASE ApplyAgain
  <2>1. /\ call = "apply" /\ pc = "done" /\ pc' = Loaded /\ source' = output /\ next' = 1
        /\ output' = IF format = "IPS" THEN output ELSE <<>>
        /\ source_rel_offset' = 0 /\ target_rel_offset' = 0 /\ patch_data_offset' = 0
        /\ UNCHANGED <<patch, offset, error, ofIPS, ofBoth, ofUPS, commands, data_offset, format>>
    BY <1>7 DEF ApplyAgain
  <2>2. CASE format = "IPS"
    <3>1. IPSInvariant!IInv'
      BY <2>1, <2>2, IPSBetween DEF Carried, ofIPS, Loaded
    <3> QED BY <2>1, <2>2, <3>1 DEF Carried
  <2>3. CASE format = "UPS"
    <3>1. pc' = "loaded" /\ Len(patch) >= 4 + UPS!Trailer
      BY <2>1, <2>3 DEF AtRest, Loaded, has_checksums
    <3>2. UPSInvariant!IInv'
      BY <2>1, <2>3, <3>1, UPSBetween DEF Carried
    <3> QED BY <2>1, <2>3, <3>2 DEF Carried
  <2>4. CASE format = "BPS"
    <3>1. pc' = "loaded" /\ Len(patch) >= 4 + UPS!Trailer /\ BPSInvariant!InPatch
      BY <2>1, <2>4 DEF AtRest, Loaded, has_checksums
    <3>2. BPSInvariant!IInv'
      BY <2>1, <2>4, <3>1, BPSBetween DEF Carried
    <3> QED BY <2>1, <2>4, <3>2 DEF Carried
  <2>5. CASE format = "Unknown"
    BY <2>1, <2>5 DEF Carried
  <2> QED BY <2>2, <2>3, <2>4, <2>5 DEF Routed
<1>8. CASE UNCHANGED vars
  <2>1. format' = format /\ UNCHANGED <<common, ofIPS, ofBoth, ofUPS, ofBPS>>
    BY <1>8 DEF vars
  <2> QED BY <2>1, IPSKeeps, UPSKeeps, BPSKeeps DEF Carried, ofBPS
<1> QED BY <1>1, <1>2, <1>3, <1>4, <1>5, <1>6, <1>7, <1>8 DEF Next

\* What a load leaves is there in every call.
LEMMA AtRestKept == Routed /\ AtRest /\ Carried /\ [Next]_vars => AtRest'
<1> SUFFICES ASSUME Routed, AtRest, Carried, [Next]_vars PROVE AtRest'
  OBVIOUS
<1>1. readable' = readable
  BY AskedStays
<1>2. CASE Detect
  <2>1. call = "load" /\ call' = "load" /\ pc' # "done"
    BY <1>2 DEF Detect
  <2> QED BY <2>1 DEF AtRest
<1>3. CASE LoadPatch
  <2>1. call = "load" /\ call' = "load"
    BY <1>3 DEF LoadPatch
  <2>2. IPS!Load \/ IPS!ParseEof \/ IPS!ParseEnd \/ IPS!ParseTruncated \/ IPS!ParseRle \/ IPS!ParseData
          => pc' # "done"
    BY DEF IPS!Load, IPS!ParseEof, IPS!ParseEnd, IPS!ParseTruncated, IPS!ParseRle, IPS!ParseData,
       IPS!StartApply, IPS!Fail
  <2>3. UPS!Load \/ UPS!ParseBlock \/ UPS!ParseTrailer => pc' # "done"
    BY DEF UPS!Load, UPS!ParseBlock, UPS!ParseTrailer, UPS!Fail
  <2>4. BPS!Load \/ BPS!ParseCommand \/ BPS!ParseTrailer => pc' # "done"
    BY DEF BPS!Load, BPS!ParseCommand, BPS!ParseTrailer, BPS!Fail
  <2>5. pc' # "done"
    BY <1>3, <2>2, <2>3, <2>4 DEF LoadPatch, IPSStep, UPSStep, BPSStep
  <2> QED BY <2>1, <2>5 DEF AtRest
<1>4. CASE Validate
  <2>1. call = "load" /\ pc = Loaded /\ call' = "validate" /\ format' = format
    BY <1>4 DEF Validate
  <2>2. CASE IPSStep(UNCHANGED <<common, ofIPS>>)
    BY <2>1, <2>2 DEF IPSStep, AtRest, Loaded, common, has_checksums
  <2>3. CASE UPSStep(UPS!Validate)
    <3>1. pc = "loaded" /\ patch' = patch /\ pc' \in {"valid", "failed"} /\ format = "UPS"
      BY <2>3 DEF UPSStep, UPS!Validate, UPS!Fail, UPS!parsed
    <3>2. readable => Len(patch) >= 4 + UPS!Trailer
      BY <3>1 DEF Carried, UPSInvariant!IInv, UPSInvariant!HasTrailer, UPSInvariant!Trailer, UPS!Trailer
    <3>3. (Len(patch) >= 4 + UPS!Trailer)' <=> Len(patch) >= 4 + UPS!Trailer
      BY <3>1 DEF UPS!Trailer
    <3> QED BY <1>1, <2>1, <3>1, <3>2, <3>3 DEF AtRest
  <2>4. CASE BPSStep(BPS!Validate)
    <3>1. /\ pc = "loaded" /\ pc' \in {"valid", "failed"} /\ format = "BPS"
          /\ UNCHANGED <<patch, offset, data_offset, output, source_rel_offset, target_rel_offset>>
      BY <2>4 DEF BPSStep, BPS!Validate, BPS!Fail, BPS!parsed, BPS!header, BPS!applying, BPS!cursors
    <3>2. readable => /\ Len(patch) >= 4 + UPS!Trailer /\ BPSInvariant!InPatch
                      /\ output = <<>> /\ source_rel_offset = 0 /\ target_rel_offset = 0
      BY <3>1 DEF Carried, BPSInvariant!IInv, BPSInvariant!HasTrailer, BPSInvariant!Untouched,
         BPSInvariant!ParserInside, BPSInvariant!Trailer, UPS!Trailer
    <3>3. /\ (Len(patch) >= 4 + UPS!Trailer)' <=> Len(patch) >= 4 + UPS!Trailer
          /\ BPSInvariant!InPatch' <=> BPSInvariant!InPatch
      BY <3>1 DEF UPS!Trailer, BPSInvariant!InPatch
    <3> QED BY <1>1, <2>1, <3>1, <3>2, <3>3 DEF AtRest
  <2> QED BY <1>4, <2>2, <2>3, <2>4 DEF Validate
<1>5. CASE AnswerValidate
  <2>1. /\ call = "validate" /\ call' = "apply" /\ pc' # "done"
        /\ UNCHANGED <<patch, offset, data_offset, format>>
    BY <1>5 DEF AnswerValidate, Loaded, ofBPS
  <2> QED BY <1>1, <2>1 DEF AtRest, BPSInvariant!InPatch, UPS!Trailer, has_checksums
<1>6. CASE ApplyPatch
  <2>1. call \in {"apply", "again"} /\ call' = call /\ readable /\ format' = format
    BY <1>6 DEF ApplyPatch
  <2>2. patch' = patch
    BY <1>6, StepsOfIPS, StepsOfUPS, StepsOfBPS DEF ApplyPatch, IPSStep, UPSStep, BPSStep
  <2>3. format = "BPS" => UNCHANGED <<offset, data_offset>>
    <3> SUFFICES ASSUME format = "BPS" PROVE UNCHANGED <<offset, data_offset>>
      OBVIOUS
    <3>1. CASE BPSStep(BPS!Apply /\ verify' = PassedOn(verify_checksums))
      BY <3>1 DEF BPSStep, BPS!Apply, BPS!parsed, BPS!header
    <3>2. CASE BPSStep(BPS!SourceRead \/ BPS!TargetRead \/ BPS!SourceCopy \/ BPS!TargetCopy
                         \/ BPS!Finish)
      BY <3>2 DEF BPSStep, BPS!SourceRead, BPS!TargetRead, BPS!SourceCopy, BPS!TargetCopy,
         BPS!Running, BPS!Finish, BPS!parsed, BPS!header
    <3> QED BY <1>6, <3>1, <3>2 DEF ApplyPatch, IPSStep, UPSStep
  <2> QED BY <1>1, <2>1, <2>2, <2>3 DEF AtRest, BPSInvariant!InPatch, UPS!Trailer, has_checksums
<1>7. CASE SourceMissing
  <2>1. call = "apply" /\ ~readable /\ pc' # "done" /\ UNCHANGED <<patch, call, format>>
    BY <1>7 DEF SourceMissing
  <2> QED BY <1>1, <2>1 DEF AtRest
<1>8. CASE ApplyAgain
  <2>1. /\ call = "apply" /\ pc = "done" /\ call' = "again"
        /\ UNCHANGED <<patch, offset, data_offset, format>>
    BY <1>8 DEF ApplyAgain
  <2> QED BY <1>1, <2>1 DEF AtRest, BPSInvariant!InPatch, UPS!Trailer, has_checksums
<1>9. CASE UNCHANGED vars
  <2>1. UNCHANGED <<patch, pc, offset, data_offset, output, source_rel_offset, target_rel_offset,
                    format, call>>
    BY <1>9 DEF vars, common, ofBPS, cursors
  <2> QED BY <1>1, <2>1 DEF AtRest, BPSInvariant!InPatch, UPS!Trailer, has_checksums
<1> QED BY <1>2, <1>3, <1>4, <1>5, <1>6, <1>7, <1>8, <1>9 DEF Next

\* An application checks what the caller asked it to check, and the second one
\* starts from what the first one answered.
LEMMA TwiceKept == Routed /\ AtRest /\ Carried /\ Twice /\ [Next]_vars => Twice'
<1> SUFFICES ASSUME Routed, AtRest, Carried, Twice, [Next]_vars PROVE Twice'
  OBVIOUS
<1>1. verify_checksums' = verify_checksums
  BY AskedStays
<1>2. CASE Detect \/ LoadPatch \/ Validate
  <2>1. call' \notin {"apply", "again"}
    BY <1>2 DEF Detect, LoadPatch, Validate
  <2> QED BY <2>1 DEF Twice
<1>3. CASE AnswerValidate \/ SourceMissing
  <2>1. call' = "apply" /\ (has_checksums' => pc' \notin {"apply", "done"})
    BY <1>3 DEF AnswerValidate, SourceMissing, Loaded, has_checksums
  <2> QED BY <2>1 DEF Twice
<1>4. CASE ApplyPatch
  <2>1. call' = call /\ format' = format /\ call \in {"apply", "again"}
    BY <1>4 DEF ApplyPatch
  <2>2. CASE IPSStep(IPS!ApplyRecord \/ IPS!Finish)
    <3>1. source' = source /\ format = "IPS" /\ (first # <<>> => first' = first)
      BY <2>2 DEF IPSStep, IPS!ApplyRecord, IPS!Finish
    <3> QED BY <2>1, <3>1 DEF Twice, has_checksums
  <2>3. CASE \/ UPSStep(UPS!Apply /\ verify' = PassedOn(verify_checksums))
             \/ BPSStep(BPS!Apply /\ verify' = PassedOn(verify_checksums))
    <3>1. /\ verify' = verify_checksums /\ has_checksums
          /\ UNCHANGED <<source, target_size, target_crc>>
      BY <2>3 DEF UPSStep, UPS!Apply, UPS!StartApply, UPS!parsed, UPS!header, UPS!checksums,
         BPSStep, BPS!Apply, BPS!parsed, BPS!header, BPS!checksums, PassedOn, has_checksums
    <3>2. Crc(source)' = Crc(source)
      BY <3>1
    <3> QED BY <1>1, <2>1, <3>1, <3>2 DEF Twice, has_checksums
  <2>4. CASE \/ UPSStep(UPS!ApplyBlock \/ UPS!Finish)
             \/ BPSStep(BPS!SourceRead \/ BPS!TargetRead \/ BPS!SourceCopy \/ BPS!TargetCopy \/ BPS!Finish)
    <3>1. pc = "apply" /\ has_checksums /\ UNCHANGED <<verify, source, target_size, target_crc>>
      <4>1. UPS!ApplyBlock \/ UPS!Finish => pc = "apply" /\ UNCHANGED <<verify, source, target_size, target_crc>>
        BY DEF UPS!ApplyBlock, UPS!Finish, UPS!parsed, UPS!header, UPS!checksums
      <4>2. BPS!SourceRead \/ BPS!TargetRead \/ BPS!SourceCopy \/ BPS!TargetCopy \/ BPS!Finish
              => pc = "apply" /\ UNCHANGED <<verify, source, target_size, target_crc>>
        BY DEF BPS!SourceRead, BPS!TargetRead, BPS!SourceCopy, BPS!TargetCopy, BPS!Running, BPS!Finish,
           BPS!parsed, BPS!header, BPS!checksums, BPS!applying
      <4> QED BY <2>4, <4>1, <4>2 DEF UPSStep, BPSStep, has_checksums
    <3>2. Crc(source)' = Crc(source)
      BY <3>1
    <3> QED BY <1>1, <2>1, <3>1, <3>2 DEF Twice, has_checksums
  <2> QED BY <1>4, <2>2, <2>3, <2>4 DEF ApplyPatch
<1>5. CASE ApplyAgain
  <2>1. /\ call = "apply" /\ pc = "done" /\ call' = "again" /\ pc' = Loaded /\ source' = output
        /\ readable /\ UNCHANGED <<first, verify, target_size, target_crc, format>>
    BY <1>5 DEF ApplyAgain, AtRest, ofIPS, ofBoth
  <2>2. CASE format = "IPS"
    <3>1. first # <<>> /\ output = first[1]
      BY <2>1, <2>2 DEF Carried, IPSInvariant!IInv, IPSInvariant!History
    <3> QED BY <2>1, <2>2, <3>1 DEF Twice, has_checksums
  <2>3. CASE format \in {"UPS", "BPS"}
    <3>1. verify = verify_checksums
      BY <2>1, <2>3 DEF Twice, has_checksums
    <3>2. Len(output) = target_size /\ (verify => Crc(output) = target_crc)
      BY <2>1, <2>3 DEF Carried, UPSInvariant!IInv, UPSInvariant!OutputChecked,
         BPSInvariant!IInv, BPSInvariant!OutputAccepted, BPSInvariant!Accepted
    <3>3. Len(source)' = Len(output) /\ Crc(source)' = Crc(output)
      BY <2>1
    <3>4. pc' = "loaded" /\ has_checksums'
      BY <2>1, <2>3 DEF Loaded, has_checksums
    <3> QED BY <1>1, <2>1, <3>1, <3>2, <3>3, <3>4 DEF Twice
  <2> QED BY <2>1, <2>2, <2>3 DEF Routed
<1>6. CASE UNCHANGED vars
  <2>1. UNCHANGED <<pc, source, first, verify, target_size, target_crc, format, call>>
    BY <1>6 DEF vars, common, ofIPS, ofBoth
  <2>2. Len(source)' = Len(source) /\ Crc(source)' = Crc(source)
    BY <2>1
  <2> QED BY <1>1, <2>1, <2>2 DEF Twice, has_checksums
<1> QED BY <1>2, <1>3, <1>4, <1>5, <1>6 DEF Next

-----------------------------------------------------------------------------
(***************************************************************************)
(* The theorems                                                            *)
(***************************************************************************)

\* The inductive invariant of detection and validation.
THEOREM Invariance == Spec => []IInv
<1>1. Init => IInv
  <2> SUFFICES ASSUME Init PROVE IInv
    OBVIOUS
  <2>1. patch \in Seq(UPS!Byte) /\ 2 * Len(patch) < Word /\ source \in Seq(UPS!Byte)
    BY PatchFormatAssumption DEF PatchFormatAssumption, Init
  <2> QED
    BY <2>1 DEF Init, Blank, IInv, Routed, NeverMisrouted, Judged, Fresh, AtRest, Carried, Twice
<1>2. IInv /\ [Next]_vars => IInv'
  BY RoutedKept, JudgedKept, FreshKept, AtRestKept, CarriedKept, TwiceKept DEF IInv
<1> QED
  BY <1>1, <1>2, PTL DEF Spec

\* No loader ever refuses the header of a patch that detection gave it
\* (patch_base.cc:14-39, 50-81).
THEOREM DetectionIsExact == Spec => []NeverMisrouted
<1>1. IInv => NeverMisrouted
  BY DEF IInv, Routed
<1> QED
  BY <1>1, Invariance, PTL

\* validate_patch and apply_patch judge a source alike, whatever the checksum
\* is (apply.cc:101-130 against ups.cc:136-147 and bps.cc:154-167).
THEOREM ValidationIsHonest == Spec => []ValidateForetellsApply
<1>1. ASSUME IInv, call = "apply", has_checksums
      PROVE  /\ valid = "Ok" /\ src_size > 0 => ~SourceRefused
             /\ pc = "done" /\ verify_checksums /\ Intact => valid = "Ok"
  <2>1. /\ valid = "Ok" <=> Intact /\ readable /\ SourceAnswer = "Ok"
        /\ error = "SourceSizeMismatch" => Len(source) # src_size
        /\ pc = "done" /\ verify_checksums => readable /\ Len(source) = src_size /\ Crc(source) = src_crc
    BY <1>1 DEF IInv, Judged
  <2>2. ASSUME valid = "Ok", src_size > 0 PROVE ~SourceRefused
    BY <2>1, <2>2 DEF SourceRefused, SourceAnswer
  <2>3. ASSUME pc = "done", verify_checksums, Intact PROVE valid = "Ok"
    BY <2>1, <2>3 DEF SourceAnswer
  <2> QED
    BY <2>2, <2>3
<1>2. IInv => ValidateForetellsApply
  BY <1>1 DEF ValidateForetellsApply
<1> QED
  BY <1>2, Invariance, PTL

\* What is proved of a format by itself holds when it is detected, validated
\* and applied through the file operations (patch_base.cc:83-89, apply.cc:41-130).
THEOREM FormatsCompose == Spec => []Carried
<1>1. IInv => Carried
  BY DEF IInv
<1> QED
  BY <1>1, Invariance, PTL

\* Nothing is patched twice unnoticed, whatever the patch: without checksums the
\* second application changes nothing, with them it is refused, unless sizes and
\* checksums are the same (ips.cc:139, ups.cc:134-171, bps.cc:152-253).
THEOREM SecondTimeChangesNothing == Spec => []SecondTimeHarmless
<1>1. ASSUME IInv, call = "again", pc = "done"
      PROVE  IF has_checksums
               THEN verify_checksums => src_size = target_size /\ src_crc = target_crc
               ELSE output = source
  <2>1. readable /\ format \in {"IPS", "UPS", "BPS"}
    BY <1>1 DEF IInv, AtRest, Routed
  <2>2. CASE format = "IPS"
    <3>1. first # <<>> /\ source = first[1] /\ output = first[1]
      BY <1>1, <2>1, <2>2 DEF IInv, Twice, Carried, has_checksums, IPSInvariant!IInv, IPSInvariant!History
    <3> QED BY <2>2, <3>1 DEF has_checksums
  <2>3. ASSUME format # "IPS", verify_checksums
        PROVE  src_size = target_size /\ src_crc = target_crc
    <3>1. verify /\ Len(source) = target_size /\ Crc(source) = target_crc
      BY <1>1, <2>3 DEF IInv, Twice, has_checksums
    <3>2. Len(source) = src_size /\ Crc(source) = src_crc
      BY <1>1, <2>1, <2>3, <3>1 DEF IInv, Carried, UPSInvariant!IInv, UPSInvariant!SourceChecked,
         BPSInvariant!IInv, BPSInvariant!SourceAccepted
    <3> QED BY <3>1, <3>2
  <2> QED BY <2>2, <2>3 DEF has_checksums
<1>2. IInv => SecondTimeHarmless
  BY <1>1 DEF SecondTimeHarmless
<1> QED
  BY <1>2, Invariance, PTL
=============================================================================
