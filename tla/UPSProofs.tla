----------------------------- MODULE UPSProofs -----------------------------
(***************************************************************************)
(* Theorems about UPSPatch, for any patches, sources, checksum and XOR     *)
(* with the laws of UPSAssumption.                                         *)
(*                                                                         *)
(* First what a block does to bytes, then what all of them do, which gives *)
(* that playing them twice plays nothing; then the steps; last, that what  *)
(* an encoder wrote is read back from where it put it and makes its        *)
(* target.                                                                 *)
(***************************************************************************)
EXTENDS UPSEncoder, VarIntProofs

-----------------------------------------------------------------------------
(***************************************************************************)
(* Bytes and blocks                                                        *)
(***************************************************************************)

\* A resized string has its new size, and is the old one as far as that reaches.
LEMMA ResizedTyped ==
    ASSUME NEW bytes \in Seq(Byte), NEW n \in Nat
    PROVE  Resized(bytes, n) \in Seq(Byte) /\ Len(Resized(bytes, n)) = n
<1>1. 0 \in Byte
  BY VarIntAssumption DEF Byte
<1>2. \A i \in 1 .. n : (IF i <= Len(bytes) THEN bytes[i] ELSE 0) \in Byte
  BY <1>1
<1> QED BY <1>2 DEF Resized

\* Cutting what was resized to no less is cutting at once.
LEMMA ResizedTwice ==
    ASSUME NEW bytes \in Seq(Byte), NEW m \in Nat, NEW n \in 0 .. m
    PROVE  Resized(Resized(bytes, m), n) = Resized(bytes, n)
<1>1. Len(Resized(bytes, m)) = m
  BY ResizedTyped
<1>2. \A i \in 1 .. n : i <= m /\ Resized(bytes, m)[i] = IF i <= Len(bytes) THEN bytes[i] ELSE 0
  BY DEF Resized
<1> QED BY <1>1, <1>2 DEF Resized

\* To its own size a string is resized to itself.
LEMMA ResizedSame ==
    ASSUME NEW bytes \in Seq(Byte)
    PROVE  Resized(bytes, Len(bytes)) = bytes
BY DEF Resized

Covers(b, i) == b.offset < i /\ i <= b.offset + Len(b.data)

\* The byte a block holds for a position it covers.
LEMMA CoveredByte ==
    ASSUME NEW b \in Block, NEW i \in Nat, Covers(b, i)
    PROVE  b.data[i - b.offset] \in Byte
<1>1. b.offset \in Nat /\ b.data \in Seq(Byte)
  BY VarIntAssumption DEF Block, Number
<1>2. i - b.offset \in 1 .. Len(b.data)
  BY <1>1 DEF Covers
<1> QED BY <1>1, <1>2

\* Where a block covers a position its byte is XORed there, nothing elsewhere.
LEMMA PlayedAt ==
    ASSUME NEW out \in Seq(Byte), NEW b \in Block
    PROVE  /\ Played(out, b) \in Seq(Byte) /\ Len(Played(out, b)) = Len(out)
           /\ Played(out, b) = [i \in 1 .. Len(out) |-> Played(out, b)[i]]
           /\ \A i \in 1 .. Len(out) :
                 Played(out, b)[i] =
                     IF Covers(b, i) THEN Xor(out[i], b.data[i - b.offset]) ELSE out[i]
<1>1. ASSUME NEW i \in 1 .. Len(out)
      PROVE  (IF Covers(b, i) THEN Xor(out[i], b.data[i - b.offset]) ELSE out[i]) \in Byte
  <2>1. out[i] \in Byte
    OBVIOUS
  <2>2. Covers(b, i) => Xor(out[i], b.data[i - b.offset]) \in Byte
    BY <2>1, CoveredByte, UPSAssumption
  <2> QED BY <2>1, <2>2
<1>2. Played(out, b) =
        [i \in 1 .. Len(out) |-> IF Covers(b, i) THEN Xor(out[i], b.data[i - b.offset]) ELSE out[i]]
  BY DEF Played, Covers
<1> HIDE DEF Played
<1> QED BY <1>1, <1>2

\* A block played twice is not played.
LEMMA PlayedTwice ==
    ASSUME NEW out \in Seq(Byte), NEW b \in Block
    PROVE  Played(Played(out, b), b) = out
<1> DEFINE once == Played(out, b)
           twice == Played(once, b)
<1>1. once \in Seq(Byte) /\ Len(once) = Len(out)
  BY PlayedAt
<1>2. \A i \in 1 .. Len(out) :
        /\ once[i] = IF Covers(b, i) THEN Xor(out[i], b.data[i - b.offset]) ELSE out[i]
        /\ twice[i] = IF Covers(b, i) THEN Xor(once[i], b.data[i - b.offset]) ELSE once[i]
  BY <1>1, PlayedAt
<1>3. twice = [i \in 1 .. Len(out) |-> twice[i]]
  BY <1>1, PlayedAt
<1> HIDE DEF once, twice
<1>4. ASSUME NEW i \in 1 .. Len(out) PROVE twice[i] = out[i]
  <2>1. out[i] \in Byte
    OBVIOUS
  <2>2. Covers(b, i) => Xor(Xor(out[i], b.data[i - b.offset]), b.data[i - b.offset]) = out[i]
    BY <2>1, CoveredByte, UPSAssumption
  <2> QED BY <1>2, <2>2
<1>5. twice = out
  BY <1>3, <1>4
<1> QED BY <1>5 DEF once, twice

\* Two blocks can be played in either order.
LEMMA PlayedEitherOrder ==
    ASSUME NEW out \in Seq(Byte), NEW b \in Block, NEW c \in Block
    PROVE  Played(Played(out, b), c) = Played(Played(out, c), b)
<1> DEFINE first == Played(out, b)
           second == Played(out, c)
           left == Played(first, c)
           right == Played(second, b)
<1>1. first \in Seq(Byte) /\ Len(first) = Len(out) /\ second \in Seq(Byte) /\ Len(second) = Len(out)
  BY PlayedAt
<1>2. \A i \in 1 .. Len(out) :
        /\ first[i] = IF Covers(b, i) THEN Xor(out[i], b.data[i - b.offset]) ELSE out[i]
        /\ second[i] = IF Covers(c, i) THEN Xor(out[i], c.data[i - c.offset]) ELSE out[i]
  BY PlayedAt
<1>3. \A i \in 1 .. Len(out) :
        /\ left[i] = IF Covers(c, i) THEN Xor(first[i], c.data[i - c.offset]) ELSE first[i]
        /\ right[i] = IF Covers(b, i) THEN Xor(second[i], b.data[i - b.offset]) ELSE second[i]
  BY <1>1, PlayedAt
<1>4. left = [i \in 1 .. Len(out) |-> left[i]] /\ right = [i \in 1 .. Len(out) |-> right[i]]
  BY <1>1, PlayedAt
<1> HIDE DEF first, second, left, right
<1>5. ASSUME NEW i \in 1 .. Len(out) PROVE left[i] = right[i]
  <2>1. out[i] \in Byte
    OBVIOUS
  <2>2. Covers(b, i) /\ Covers(c, i) =>
          Xor(Xor(out[i], b.data[i - b.offset]), c.data[i - c.offset])
            = Xor(Xor(out[i], c.data[i - c.offset]), b.data[i - b.offset])
    <3> SUFFICES ASSUME Covers(b, i), Covers(c, i)
                 PROVE  Xor(Xor(out[i], b.data[i - b.offset]), c.data[i - c.offset])
                          = Xor(Xor(out[i], c.data[i - c.offset]), b.data[i - b.offset])
      OBVIOUS
    <3>1. b.data[i - b.offset] \in Byte /\ c.data[i - c.offset] \in Byte
      BY CoveredByte
    <3>2. \A x, y, z \in Byte : Xor(Xor(x, y), z) = Xor(Xor(x, z), y)
      BY UPSAssumption
    <3> QED BY <2>1, <3>1, <3>2
  <2> QED BY <1>2, <1>3, <2>2
<1>6. left = right
  BY <1>4, <1>5
<1> QED BY <1>6 DEF first, second, left, right

\* A block can be played before or after the bytes are cut.
LEMMA PlayedOnCut ==
    ASSUME NEW out \in Seq(Byte), NEW b \in Block, NEW n \in 0 .. Len(out)
    PROVE  Resized(Played(out, b), n) = Played(Resized(out, n), b)
<1> DEFINE cut == Resized(out, n)
           left == Resized(Played(out, b), n)
           right == Played(cut, b)
<1>1. /\ Played(out, b) \in Seq(Byte) /\ Len(Played(out, b)) = Len(out)
      /\ cut \in Seq(Byte) /\ Len(cut) = n
  BY PlayedAt, ResizedTyped
<1>2. \A i \in 1 .. n : cut[i] = out[i] /\ left[i] = Played(out, b)[i]
  BY <1>1 DEF Resized
<1>3. \A i \in 1 .. n :
        /\ Played(out, b)[i] = IF Covers(b, i) THEN Xor(out[i], b.data[i - b.offset]) ELSE out[i]
        /\ right[i] = IF Covers(b, i) THEN Xor(cut[i], b.data[i - b.offset]) ELSE cut[i]
  BY <1>1, PlayedAt
<1>4. left = [i \in 1 .. n |-> left[i]] /\ right = [i \in 1 .. n |-> right[i]]
  <2>1. left = [i \in 1 .. n |-> left[i]]
    BY DEF Resized
  <2>2. right = [i \in 1 .. n |-> right[i]]
    BY <1>1, PlayedAt
  <2> QED BY <2>1, <2>2
<1> HIDE DEF cut, left, right
<1>5. \A i \in 1 .. n : left[i] = right[i]
  BY <1>2, <1>3
<1>6. left = right
  BY <1>4, <1>5
<1> QED BY <1>6 DEF cut, left, right

-----------------------------------------------------------------------------
(***************************************************************************)
(* All the blocks                                                          *)
(***************************************************************************)

\* The equation of PlayedAll: each block is played on what those before it made.
LEMMA PlayedAllFollow ==
    ASSUME NEW bytes, NEW bs \in Seq(Block)
    PROVE  /\ PlayedAll(bytes, bs)[0] = bytes
           /\ \A k \in 1 .. Len(bs) :
                 PlayedAll(bytes, bs)[k] = Played(PlayedAll(bytes, bs)[k - 1], bs[k])
<1> DEFINE Follows(f, m) == /\ f = [k \in 0 .. m |-> f[k]] /\ f[0] = bytes
                            /\ \A k \in 1 .. m : f[k] = Played(f[k - 1], bs[k])
           S == {m \in Nat : \E f : Follows(f, m)}
<1>1. 0 \in S
  <2>1. Follows([k \in 0 .. 0 |-> bytes], 0)
    OBVIOUS
  <2> QED BY <2>1
<1>2. ASSUME NEW m \in Nat, m \in S PROVE m + 1 \in S
  <2>1. PICK f : Follows(f, m)
    BY <1>2
  <2> DEFINE g == [k \in 0 .. m + 1 |-> IF k = m + 1 THEN Played(f[m], bs[m + 1]) ELSE f[k]]
  <2>2. g = [k \in 0 .. m + 1 |-> g[k]] /\ g[0] = bytes
    BY <2>1
  <2>3. ASSUME NEW k \in 1 .. m + 1 PROVE g[k] = Played(g[k - 1], bs[k])
    <3>1. k \in 0 .. m + 1 /\ k - 1 \in 0 .. m + 1 /\ k - 1 # m + 1
      OBVIOUS
    <3>2. g[k - 1] = f[k - 1]
      BY <3>1
    <3>3. CASE k = m + 1
      <4>1. g[k] = Played(f[m], bs[m + 1]) /\ k - 1 = m
        BY <3>1, <3>3
      <4> QED BY <3>2, <3>3, <4>1
    <3>4. CASE k # m + 1
      <4>1. g[k] = f[k] /\ k \in 1 .. m
        BY <3>1, <3>4
      <4> QED BY <2>1, <3>2, <4>1
    <3> QED BY <3>3, <3>4
  <2>4. Follows(g, m + 1)
    BY <2>2, <2>3
  <2> HIDE DEF g, Follows
  <2>5. m + 1 \in Nat /\ \E h : Follows(h, m + 1)
    BY <2>4
  <2> QED BY <2>5
<1>3. \A m \in Nat : m \in S
  <2> HIDE DEF S
  <2> QED BY <1>1, <1>2, Induction
<1>4. Len(bs) \in Nat
  OBVIOUS
<1>5. PICK f : Follows(f, Len(bs))
  BY <1>3, <1>4
<1>6. f = [k \in 0 .. Len(bs) |-> IF k = 0 THEN bytes ELSE Played(f[k - 1], bs[k])]
  <2>1. ASSUME NEW k \in 0 .. Len(bs)
        PROVE  f[k] = IF k = 0 THEN bytes ELSE Played(f[k - 1], bs[k])
    <3>1. CASE k = 0
      BY <1>5, <3>1
    <3>2. CASE k # 0
      <4>1. k \in 1 .. Len(bs)
        BY <3>2
      <4> QED BY <1>5, <3>2, <4>1
    <3> QED BY <3>1, <3>2
  <2>2. f = [k \in 0 .. Len(bs) |-> f[k]]
    BY <1>5
  <2> QED BY <2>1, <2>2
<1> DEFINE out == PlayedAll(bytes, bs)
<1>7. out = [k \in 0 .. Len(bs) |-> IF k = 0 THEN bytes ELSE Played(out[k - 1], bs[k])]
  BY <1>6 DEF PlayedAll
<1> HIDE DEF out
<1>8. out[0] = bytes /\ \A k \in 1 .. Len(bs) : out[k] = Played(out[k - 1], bs[k])
  BY <1>4, <1>7
<1> QED BY <1>8 DEF out

\* What was played on bytes are as many bytes.
LEMMA PlayedAllTyped ==
    ASSUME NEW bytes \in Seq(Byte), NEW bs \in Seq(Block)
    PROVE  \A k \in 0 .. Len(bs) : /\ PlayedAll(bytes, bs)[k] \in Seq(Byte)
                                   /\ Len(PlayedAll(bytes, bs)[k]) = Len(bytes)
<1> DEFINE out == PlayedAll(bytes, bs)
           S == {k \in Nat : k <= Len(bs) => out[k] \in Seq(Byte) /\ Len(out[k]) = Len(bytes)}
<1>1. out[0] = bytes /\ \A k \in 1 .. Len(bs) : out[k] = Played(out[k - 1], bs[k])
  BY PlayedAllFollow
<1> HIDE DEF out
<1>2. 0 \in S
  BY <1>1
<1>3. ASSUME NEW k \in Nat, k \in S PROVE k + 1 \in S
  <2> SUFFICES ASSUME k + 1 <= Len(bs)
               PROVE  out[k + 1] \in Seq(Byte) /\ Len(out[k + 1]) = Len(bytes)
    OBVIOUS
  <2>1. k + 1 \in 1 .. Len(bs) /\ bs[k + 1] \in Block /\ out[k] \in Seq(Byte) /\ Len(out[k]) = Len(bytes)
    BY <1>3
  <2>2. out[k + 1] = Played(out[k], bs[k + 1])
    BY <1>1, <2>1
  <2>3. /\ Played(out[k], bs[k + 1]) \in Seq(Byte)
        /\ Len(Played(out[k], bs[k + 1])) = Len(out[k])
    BY <2>1, PlayedAt
  <2> QED BY <2>1, <2>2, <2>3
<1>4. \A k \in Nat : k \in S
  <2> HIDE DEF S
  <2> QED BY <1>2, <1>3, Induction
<1> QED BY <1>4 DEF out

\* A block can be played before or after all others.
LEMMA PlayedBefore ==
    ASSUME NEW bytes \in Seq(Byte), NEW bs \in Seq(Block), NEW b \in Block
    PROVE  \A k \in 0 .. Len(bs) :
              PlayedAll(Played(bytes, b), bs)[k] = Played(PlayedAll(bytes, bs)[k], b)
<1> DEFINE after == PlayedAll(bytes, bs)
           before == PlayedAll(Played(bytes, b), bs)
           S == {k \in Nat : k <= Len(bs) => before[k] = Played(after[k], b)}
<1>1. after[0] = bytes /\ \A k \in 1 .. Len(bs) : after[k] = Played(after[k - 1], bs[k])
  BY PlayedAllFollow
<1>2. before[0] = Played(bytes, b) /\ \A k \in 1 .. Len(bs) : before[k] = Played(before[k - 1], bs[k])
  BY PlayedAllFollow
<1>3. \A k \in 0 .. Len(bs) : after[k] \in Seq(Byte)
  BY PlayedAllTyped
<1> HIDE DEF after, before
<1>4. 0 \in S
  BY <1>1, <1>2
<1>5. ASSUME NEW k \in Nat, k \in S PROVE k + 1 \in S
  <2> SUFFICES ASSUME k + 1 <= Len(bs) PROVE before[k + 1] = Played(after[k + 1], b)
    OBVIOUS
  <2>1. k + 1 \in 1 .. Len(bs) /\ bs[k + 1] \in Block /\ k \in 0 .. Len(bs)
    OBVIOUS
  <2>2. before[k + 1] = Played(Played(after[k], b), bs[k + 1])
    BY <1>2, <1>5, <2>1
  <2>3. after[k + 1] = Played(after[k], bs[k + 1])
    BY <1>1, <2>1
  <2> QED BY <1>3, <2>1, <2>2, <2>3, PlayedEitherOrder
<1>6. \A k \in Nat : k \in S
  <2> HIDE DEF S
  <2> QED BY <1>4, <1>5, Induction
<1> QED BY <1>6 DEF after, before

\* The bytes can be cut before or after.
LEMMA PlayedAllOnCut ==
    ASSUME NEW bytes \in Seq(Byte), NEW bs \in Seq(Block), NEW n \in 0 .. Len(bytes)
    PROVE  \A k \in 0 .. Len(bs) :
              Resized(PlayedAll(bytes, bs)[k], n) = PlayedAll(Resized(bytes, n), bs)[k]
<1> DEFINE whole == PlayedAll(bytes, bs)
           cut == PlayedAll(Resized(bytes, n), bs)
           S == {k \in Nat : k <= Len(bs) => Resized(whole[k], n) = cut[k]}
<1>1. whole[0] = bytes /\ \A k \in 1 .. Len(bs) : whole[k] = Played(whole[k - 1], bs[k])
  BY PlayedAllFollow
<1>2. cut[0] = Resized(bytes, n) /\ \A k \in 1 .. Len(bs) : cut[k] = Played(cut[k - 1], bs[k])
  BY PlayedAllFollow
<1>3. \A k \in 0 .. Len(bs) : whole[k] \in Seq(Byte) /\ Len(whole[k]) = Len(bytes)
  BY PlayedAllTyped
<1> HIDE DEF whole, cut
<1>4. 0 \in S
  BY <1>1, <1>2
<1>5. ASSUME NEW k \in Nat, k \in S PROVE k + 1 \in S
  <2> SUFFICES ASSUME k + 1 <= Len(bs) PROVE Resized(whole[k + 1], n) = cut[k + 1]
    OBVIOUS
  <2>1. /\ k + 1 \in 1 .. Len(bs) /\ bs[k + 1] \in Block /\ k \in 0 .. Len(bs)
        /\ k + 1 - 1 = k
    OBVIOUS
  <2>2. cut[k + 1] = Played(Resized(whole[k], n), bs[k + 1])
    BY <1>2, <1>5, <2>1
  <2>3. whole[k + 1] = Played(whole[k], bs[k + 1])
    BY <1>1, <2>1
  <2> QED BY <1>3, <2>1, <2>2, <2>3, PlayedOnCut
<1>6. \A k \in Nat : k \in S
  <2> HIDE DEF S
  <2> QED BY <1>4, <1>5, Induction
<1> QED BY <1>6 DEF whole, cut

\* All blocks played twice are not played, whatever order and overlap they have.
LEMMA PlayedAllTwice ==
    ASSUME NEW bytes \in Seq(Byte), NEW bs \in Seq(Block)
    PROVE  \A k \in 0 .. Len(bs) : PlayedAll(PlayedAll(bytes, bs)[k], bs)[k] = bytes
<1> DEFINE once == PlayedAll(bytes, bs)
           S == {k \in Nat : k <= Len(bs) => PlayedAll(once[k], bs)[k] = bytes}
<1>1. once[0] = bytes /\ \A k \in 1 .. Len(bs) : once[k] = Played(once[k - 1], bs[k])
  BY PlayedAllFollow
<1>2. \A k \in 0 .. Len(bs) : once[k] \in Seq(Byte)
  BY PlayedAllTyped
<1> HIDE DEF once
<1>3. 0 \in S
  BY <1>1, PlayedAllFollow
<1>4. ASSUME NEW k \in Nat, k \in S PROVE k + 1 \in S
  <2> SUFFICES ASSUME k + 1 <= Len(bs) PROVE PlayedAll(once[k + 1], bs)[k + 1] = bytes
    OBVIOUS
  <2>1. /\ k + 1 \in 1 .. Len(bs) /\ bs[k + 1] \in Block /\ k \in 0 .. Len(bs)
        /\ k + 1 - 1 = k
    OBVIOUS
  <2>2. once[k + 1] = Played(once[k], bs[k + 1]) /\ once[k] \in Seq(Byte)
    BY <1>1, <1>2, <2>1
  <2>3. PlayedAll(once[k + 1], bs)[k + 1] = Played(PlayedAll(once[k + 1], bs)[k], bs[k + 1])
    BY <2>1, PlayedAllFollow
  <2>4. PlayedAll(once[k + 1], bs)[k] = Played(PlayedAll(once[k], bs)[k], bs[k + 1])
    BY <2>1, <2>2, PlayedBefore
  <2>5. PlayedAll(once[k], bs)[k] = bytes
    BY <1>4, <2>1
  <2> QED BY <2>1, <2>3, <2>4, <2>5, PlayedTwice
<1>5. \A k \in Nat : k \in S
  <2> HIDE DEF S
  <2> QED BY <1>3, <1>4, Induction
<1> QED BY <1>5 DEF once

-----------------------------------------------------------------------------
(***************************************************************************)
(* The steps                                                               *)
(***************************************************************************)

\* The sizes the parser computes with.
LEMMA Sizes ==
    ASSUME TypeOK, HasTrailer
    PROVE  /\ Trailer \in Nat /\ CrcSize \in Nat /\ Len(patch) \in Nat
           /\ BodyEnd \in Int /\ BodyEnd <= Len(patch)
           /\ BodyEnd + CrcSize <= Len(patch) /\ BodyEnd + 2 * CrcSize <= Len(patch)
           /\ pc \notin {"load", "failed"} => BodyEnd >= 4
           /\ src_size \in Nat /\ target_size \in Nat /\ Len(source) \in Nat
BY UPSAssumption, VarIntAssumption DEF TypeOK, HasTrailer, Trailer, BodyEnd, Number

\* The bytes of a block are what is before the first zero, inside the body.
LEMMA DataOfInside ==
    ASSUME TypeOK, HasTrailer, pc \notin {"load", "failed"}, NEW from \in 0 .. Len(patch)
    PROVE  /\ DataOf(from) \in Seq(Byte \ {0})
           /\ from + Len(DataOf(from)) <= Larger(from, BodyEnd)
<1> DEFINE zeros == {i \in from + 1 .. BodyEnd : patch[i] = 0}
           last == IF zeros = {} THEN BodyEnd ELSE (CHOOSE i \in zeros : \A j \in zeros : i <= j) - 1
<1>1. from \in Nat /\ BodyEnd \in Nat /\ BodyEnd <= Len(patch) /\ patch \in Seq(Byte)
  <2>1. patch \in Seq(Byte)
    BY DEF TypeOK
  <2>2. BodyEnd \in Int /\ BodyEnd <= Len(patch) /\ BodyEnd >= 4
    BY Sizes
  <2>3. BodyEnd \in Nat
    BY <2>2
  <2>4. Len(patch) \in Nat
    BY <2>1
  <2>5. from \in Nat
    BY <2>4
  <2> QED BY <2>1, <2>2, <2>3, <2>5
<1>2. last \in Int /\ last <= BodyEnd /\ \A i \in from + 1 .. last : patch[i] # 0
  <2>1. CASE zeros = {}
    BY <1>1, <2>1
  <2>2. CASE zeros # {}
    <3>1. zeros \in SUBSET Nat
      BY <1>1
    <3>2. PICK m \in zeros : \A k \in zeros : m <= k
      BY <2>2, <3>1, LeastElement
    <3> DEFINE least == CHOOSE i \in zeros : \A j \in zeros : i <= j
    <3>3. least \in zeros /\ \A k \in zeros : least <= k
      BY <3>2
    <3>4. last = least - 1
      BY <2>2
    <3> HIDE DEF least, last
    <3>5. least \in Nat /\ least <= BodyEnd
      BY <1>1, <3>3
    <3>6. ASSUME NEW i \in from + 1 .. last PROVE patch[i] # 0
      <4>1. i \notin zeros /\ i \in from + 1 .. BodyEnd
        BY <1>1, <3>3, <3>4, <3>5
      <4> QED BY <4>1
    <3> QED BY <1>1, <3>4, <3>5, <3>6
  <2> QED BY <2>1, <2>2
<1>3. DataOf(from) = SubSeq(patch, from + 1, last)
  BY DEF DataOf
<1> HIDE DEF last
<1>4. \A i \in from + 1 .. last : patch[i] \in Byte \ {0}
  BY <1>1, <1>2
<1>5. SubSeq(patch, from + 1, last) = [i \in 1 .. (last - from) |-> patch[from + i]]
  BY <1>1, <1>2
<1>6. CASE last < from
  <2>1. DataOf(from) = <<>>
    BY <1>1, <1>2, <1>3, <1>6
  <2> QED BY <1>1, <2>1 DEF Larger
<1>7. CASE last >= from
  <2>1. \A i \in 1 .. (last - from) : patch[from + i] \in Byte \ {0}
    BY <1>1, <1>2, <1>4
  <2>2. /\ SubSeq(patch, from + 1, last) \in Seq(Byte \ {0})
        /\ Len(SubSeq(patch, from + 1, last)) = last - from
    BY <1>1, <1>2, <1>5, <1>7, <2>1
  <2> QED BY <1>1, <1>2, <1>3, <1>7, <2>2 DEF Larger
<1> QED BY <1>1, <1>2, <1>6, <1>7

\* A part of the patch is bytes.
LEMMA PartTyped ==
    ASSUME TypeOK, NEW m \in Nat, NEW n \in Nat, n <= Len(patch)
    PROVE  SubSeq(patch, m + 1, n) \in Seq(Byte)
BY DEF TypeOK

\* The types, and what the load found behind its first test.
LEMMA LoadTyped == ASSUME TypeOK, HasTrailer, Load PROVE TypeOK' /\ HasTrailer'
<1> USE DEF Load, Fail
<1>1. UNCHANGED <<patch, file_offset, blocks, checksums, applying>>
  OBVIOUS
<1>2. CASE UNCHANGED header /\ UNCHANGED offset /\ pc' = "failed" /\ error' \in Errors
  BY <1>1, <1>2 DEF TypeOK, HasTrailer, checksums, applying, header
<1>3. CASE /\ Len(patch) >= 4 + Trailer /\ pc' = "parse" /\ UNCHANGED error
           /\ LET src == Decode(patch, 4)
                  target == Decode(patch, src.offset)
              IN src_size' = src.value /\ target_size' = target.value /\ offset' = target.offset
  <2> DEFINE src == Decode(patch, 4)
             target == Decode(patch, src.offset)
  <2>0. Len(patch) >= 4 + Trailer
    BY <1>3
  <2>1. patch \in Seq(Byte) /\ 4 \in 0 .. Len(patch)
    <3>1. patch \in Seq(Byte)
      BY DEF TypeOK
    <3>2. 4 \in 0 .. Len(patch)
      BY <2>0, Sizes
    <3> QED BY <3>1, <3>2
  <2>2. src.value \in Number /\ src.offset \in 4 .. Len(patch)
    BY <2>1, DecodeInside
  <2>3. src.offset \in 0 .. Len(patch)
    BY <2>1, <2>2
  <2>4. target.value \in Number /\ target.offset \in src.offset .. Len(patch)
    BY <2>1, <2>3, DecodeInside
  <2>5. src_size' = src.value /\ target_size' = target.value /\ offset' = target.offset
    BY <1>3
  <2> HIDE DEF src, target
  <2>6. offset' \in Nat /\ offset' <= Larger(4, Len(patch))
    BY <2>1, <2>2, <2>4, <2>5 DEF Larger
  <2>7. TypeOK'
    BY <1>1, <1>3, <2>2, <2>4, <2>5, <2>6 DEF TypeOK, checksums, applying, Larger
  <2>8. HasTrailer'
    BY <1>1, <1>3 DEF HasTrailer, Trailer
  <2> QED BY <2>7, <2>8
<1> QED BY <1>2, <1>3 DEF Errors

LEMMA ParseBlockTyped == ASSUME TypeOK, HasTrailer, ParseBlock PROVE TypeOK' /\ HasTrailer'
<1> DEFINE distance == Decode(patch, offset)
           start == (file_offset + distance.value) % Word
           data == DataOf(distance.offset)
           end == distance.offset + Len(data)
<1>1. /\ pc = "parse" /\ offset < BodyEnd
      /\ blocks' = IF data = <<>> THEN blocks ELSE Append(blocks, [offset |-> start, data |-> data])
      /\ file_offset' = (start + Len(data)) % Word
      /\ offset' = IF end < BodyEnd THEN end + 1 ELSE end
      /\ UNCHANGED <<patch, pc, header, checksums, applying, error>>
  BY DEF ParseBlock, PositionAfter
<1>2. BodyEnd \in Nat /\ BodyEnd <= Len(patch) /\ Len(patch) \in Nat /\ offset \in 0 .. Len(patch)
  <2>1. offset \in Nat /\ pc = "parse" /\ offset < BodyEnd
    BY DEF ParseBlock, TypeOK
  <2> QED BY <2>1, Sizes
<1>3. distance.value \in Number /\ distance.offset \in offset .. Len(patch)
  BY <1>2, DecodeInside DEF TypeOK
<1>4. distance.offset \in 0 .. Len(patch)
  BY <1>2, <1>3
<1>5. data \in Seq(Byte \ {0}) /\ distance.offset + Len(data) <= Larger(distance.offset, BodyEnd)
  BY <1>1, <1>4, DataOfInside
<1> HIDE DEF data, distance
<1>6. end \in Nat /\ end <= Len(patch)
  BY <1>2, <1>4, <1>5 DEF Larger
<1>7. \A n \in Nat : n % Word \in Number
  BY VarIntAssumption DEF Number
<1>8. file_offset \in Nat /\ distance.value \in Nat /\ Len(data) \in Nat
  BY <1>3, <1>5 DEF TypeOK, Number
<1>9. start \in Number /\ start \in Nat
  <2>1. file_offset + distance.value \in Nat
    BY <1>8
  <2>2. start \in Number
    BY <1>7, <2>1
  <2> QED BY <2>2 DEF Number
<1> HIDE DEF start, end
<1>10. file_offset' \in Number
  BY <1>1, <1>7, <1>8, <1>9
<1>11. blocks' \in Seq(Block) /\ Len(blocks) <= Len(blocks')
  <2>1. data # <<>> => [offset |-> start, data |-> data] \in Block
    BY <1>5, <1>9 DEF Block
  <2> HIDE DEF Block
  <2>2. blocks \in Seq(Block)
    BY DEF TypeOK
  <2> QED BY <1>1, <2>1, <2>2
<1>12. offset' \in Nat /\ offset' <= Larger(4, Len(patch))
  BY <1>1, <1>2, <1>6 DEF Larger
<1>13. next \in 1 .. Len(blocks') + 1
  BY <1>11 DEF TypeOK
<1>14. TypeOK'
  BY <1>1, <1>10, <1>11, <1>12, <1>13 DEF TypeOK, header, checksums, applying
<1> QED BY <1>1, <1>14 DEF HasTrailer, Trailer

LEMMA ParseTrailerTyped == ASSUME TypeOK, HasTrailer, ParseTrailer PROVE TypeOK' /\ HasTrailer'
<1>1. /\ BodyEnd \in Nat /\ CrcSize \in Nat
      /\ BodyEnd + CrcSize <= Len(patch) /\ BodyEnd + 2 * CrcSize <= Len(patch)
  BY Sizes DEF ParseTrailer
<1>2. /\ SubSeq(patch, BodyEnd + 1, BodyEnd + CrcSize) \in Seq(Byte)
      /\ SubSeq(patch, BodyEnd + CrcSize + 1, BodyEnd + 2 * CrcSize) \in Seq(Byte)
      /\ SubSeq(patch, BodyEnd + 2 * CrcSize + 1, Len(patch)) \in Seq(Byte)
  <2>1. BodyEnd + CrcSize \in Nat /\ BodyEnd + 2 * CrcSize \in Nat /\ Len(patch) \in Nat
    BY <1>1, Sizes
  <2> QED BY <1>1, <2>1, PartTyped
<1>3. /\ src_crc' \in Seq(Byte) /\ target_crc' \in Seq(Byte) /\ patch_crc' \in Seq(Byte)
      /\ pc = "parse" /\ pc' = "loaded"
      /\ UNCHANGED <<patch, offset, header, file_offset, blocks, applying, error>>
  BY <1>2 DEF ParseTrailer
<1> QED BY <1>3 DEF TypeOK, HasTrailer, Trailer, header, applying

\* An application starts from bytes, and next at 1.
LEMMA StartApplyTyped ==
    ASSUME TypeOK, HasTrailer, NEW bytes \in Seq(Byte), NEW v \in BOOLEAN, StartApply(bytes, v),
           pc \notin {"load", "failed"}
    PROVE  /\ verify' = v /\ source' = bytes /\ next' = 1 /\ UNCHANGED parsed
           /\ output' \in Seq(Byte)
           /\ error' \in Errors \union {"none"}
           /\ pc' \in {"failed", "thrown", "apply"}
           /\ pc' = "apply" => /\ output' = Grown(bytes)
                               /\ v => Len(bytes) = src_size /\ Crc(bytes) = src_crc
<1>1. Larger(Len(bytes), target_size) \in Nat
  BY Sizes DEF Larger
<1>2. Resized(bytes, Larger(Len(bytes), target_size)) \in Seq(Byte) /\ output \in Seq(Byte)
  BY <1>1, ResizedTyped DEF TypeOK
<1>3. /\ verify' = v /\ source' = bytes /\ next' = 1 /\ UNCHANGED parsed
      /\ pc' \in {"failed", "thrown", "apply"} /\ (error' = error \/ error' \in Errors)
      /\ output' = output \/ output' = Resized(bytes, Larger(Len(bytes), target_size))
  BY DEF StartApply, Fail, Errors
<1>4. pc' = "apply" => /\ output' = Grown(bytes)
                       /\ v => Len(bytes) = src_size /\ Crc(bytes) = src_crc
  BY DEF StartApply, Fail, Grown
<1> QED BY <1>2, <1>3, <1>4 DEF TypeOK

LEMMA ApplyTyped ==
    ASSUME TypeOK, HasTrailer, SecondOfFirst, Apply \/ ApplyAgain
    PROVE  TypeOK' /\ HasTrailer'
<1>1. pc \in {"loaded", "valid", "done"} /\ source \in Seq(Byte) /\ output \in Seq(Byte)
  BY DEF Apply, ApplyAgain, TypeOK
<1>2. PICK bytes \in {source, output}, v \in BOOLEAN : StartApply(bytes, v)
  BY DEF Apply, ApplyAgain
<1>3. original' \in Seq(Seq(Byte))
  <2>1. original' = <<source>> \/ original' = original
    BY DEF Apply, ApplyAgain
  <2>2. original \in Seq(Seq(Byte))
    BY DEF TypeOK
  <2>3. source \in Seq(Byte)
    BY <1>1
  <2> HIDE DEF Byte
  <2>4. <<source>> \in Seq(Seq(Byte))
    BY <2>3
  <2> QED BY <2>1, <2>2, <2>4
<1>4. /\ verify' \in BOOLEAN /\ source' \in Seq(Byte) /\ next' = 1 /\ UNCHANGED parsed
      /\ output' \in Seq(Byte) /\ error' \in Errors \union {"none"}
      /\ pc' \in {"failed", "thrown", "apply"}
  BY <1>1, <1>2, StartApplyTyped
<1>5. next' \in 1 .. Len(blocks') + 1
  BY <1>4 DEF TypeOK, parsed
<1> QED BY <1>1, <1>3, <1>4, <1>5 DEF TypeOK, HasTrailer, Trailer, parsed, header, checksums

\* The type invariant through every step.
LEMMA TypeKeeps ==
    ASSUME TypeOK, HasTrailer, SecondOfFirst, [Next]_vars
    PROVE  TypeOK' /\ HasTrailer'
<1>1. CASE Validate
  <2>1. /\ pc = "loaded" /\ pc' \in {"valid", "failed"} /\ error' \in Errors \union {"none"}
        /\ UNCHANGED <<parsed, applying>>
    BY <1>1 DEF Validate, Fail, Errors, TypeOK
  <2> QED BY <2>1 DEF TypeOK, HasTrailer, Trailer, parsed, header, checksums, applying
<1>2. CASE ApplyBlock
  <2>1. /\ pc = "apply" /\ next <= Len(blocks) /\ next' = next + 1
        /\ output' = Played(output, blocks[next])
        /\ UNCHANGED <<parsed, pc, source, verify, original, error>>
    BY <1>2 DEF ApplyBlock
  <2>2. blocks \in Seq(Block) /\ next \in 1 .. Len(blocks) /\ output \in Seq(Byte)
    BY <2>1 DEF TypeOK
  <2>3. blocks[next] \in Block
    BY <2>2
  <2>4. output' \in Seq(Byte)
    BY <2>1, <2>2, <2>3, PlayedAt
  <2>5. next' \in 1 .. Len(blocks') + 1
    BY <2>1, <2>2 DEF parsed
  <2> QED BY <2>1, <2>4, <2>5 DEF TypeOK, HasTrailer, Trailer, parsed, header, checksums
<1>3. CASE Finish
  <2>1. /\ pc = "apply" /\ pc' \in {"done", "failed"} /\ error' \in Errors \union {"none"}
        /\ output' = Resized(output, target_size)
        /\ UNCHANGED <<parsed, source, verify, next, original>>
    BY <1>3 DEF Finish, Fail, Errors, TypeOK
  <2>2. output' \in Seq(Byte)
    BY <2>1, Sizes, ResizedTyped DEF TypeOK
  <2> QED BY <2>1, <2>2 DEF TypeOK, HasTrailer, Trailer, parsed, header, checksums
<1>4. CASE UNCHANGED vars
  BY <1>4 DEF vars, TypeOK, HasTrailer, Trailer
<1> QED BY <1>1, <1>2, <1>3, <1>4, LoadTyped, ParseBlockTyped, ParseTrailerTyped, ApplyTyped DEF Next

-----------------------------------------------------------------------------
(***************************************************************************)
(* What is built and answered                                              *)
(***************************************************************************)

\* The answer to an answer is the bytes of the first application.
LEMMA AnswerTwice ==
    ASSUME TypeOK, NEW bytes \in Seq(Byte)
    PROVE  Answer(Answer(bytes)) = Resized(bytes, target_size)
<1> DEFINE n == Len(blocks)
           short == Resized(bytes, target_size)
           answer == PlayedAll(short, blocks)[n]
<1>1. blocks \in Seq(Block) /\ n \in 0 .. Len(blocks) /\ target_size \in Nat /\ Len(bytes) \in Nat
  BY DEF TypeOK, Number
<1>2. /\ Larger(Len(bytes), target_size) \in Nat
      /\ target_size \in 0 .. Larger(Len(bytes), target_size)
  BY <1>1 DEF Larger
<1>3. Grown(bytes) \in Seq(Byte) /\ Len(Grown(bytes)) = Larger(Len(bytes), target_size)
  BY <1>2, ResizedTyped DEF Grown
<1>4. Resized(Grown(bytes), target_size) = short
  BY <1>2, ResizedTwice DEF Grown
<1>5. Answer(bytes) = answer
  <2>1. target_size \in 0 .. Len(Grown(bytes))
    BY <1>2, <1>3
  <2>2. Resized(PlayedAll(Grown(bytes), blocks)[n], target_size)
          = PlayedAll(Resized(Grown(bytes), target_size), blocks)[n]
    BY <1>1, <1>3, <2>1, PlayedAllOnCut
  <2> QED BY <1>4, <2>2 DEF Answer
<1>6. short \in Seq(Byte) /\ Len(short) = target_size
  BY <1>1, ResizedTyped
<1> HIDE DEF n, short
<1>7. answer \in Seq(Byte) /\ Len(answer) = target_size
  BY <1>1, <1>6, PlayedAllTyped
<1>8. PlayedAll(answer, blocks)[n] = short
  BY <1>1, <1>6, PlayedAllTwice
<1> HIDE DEF answer
<1>9. Grown(answer) = answer
  <2>1. Larger(Len(answer), target_size) = Len(answer)
    BY <1>7 DEF Larger
  <2> QED BY <1>7, <2>1, ResizedSame DEF Grown
<1>10. Answer(answer) = Resized(short, target_size)
  BY <1>8, <1>9 DEF Answer, n
<1> QED BY <1>5, <1>6, <1>10, ResizedSame DEF short

\* What was read from the patch stays when it is applied.
LEMMA ParsedStays ==
    ASSUME UNCHANGED parsed
    PROVE  /\ UNCHANGED <<blocks, src_size, target_size, src_crc, target_crc>>
           /\ \A bytes : Grown(bytes)' = Grown(bytes) /\ Answer(bytes)' = Answer(bytes)
<1>1. UNCHANGED <<blocks, src_size, target_size, src_crc, target_crc>>
  BY DEF parsed, header, checksums
<1> QED BY <1>1 DEF Grown, Answer

Semantics == SourceChecked /\ OutputChecked /\ BlocksPlayed /\ SecondOfFirst

\* Nothing is claimed before an application.
LEMMA Elsewhere == ASSUME pc' \notin {"apply", "done"} PROVE Semantics'
BY DEF Semantics, SourceChecked, OutputChecked, BlocksPlayed, SecondOfFirst

LEMMA StartKeeps ==
    ASSUME TypeOK, HasTrailer, Semantics, Apply \/ ApplyAgain
    PROVE  Semantics'
<1>1. pc \in {"loaded", "valid", "done"} /\ source \in Seq(Byte) /\ output \in Seq(Byte)
  BY DEF Apply, ApplyAgain, TypeOK
<1>2. PICK bytes \in {source, output}, v \in BOOLEAN :
        /\ StartApply(bytes, v)
        /\ \/ original' = <<source>> /\ bytes = source
           \/ pc = "done" /\ UNCHANGED original /\ source = original[1] /\ bytes = output
  BY DEF Apply, ApplyAgain
<1>3. /\ verify' = v /\ source' = bytes /\ next' = 1 /\ UNCHANGED parsed
      /\ pc' \in {"failed", "thrown", "apply"}
      /\ pc' = "apply" => /\ output' = Grown(bytes)
                          /\ v => Len(bytes) = src_size /\ Crc(bytes) = src_crc
  BY <1>1, <1>2, StartApplyTyped
<1> SUFFICES ASSUME pc' = "apply" PROVE Semantics'
  BY <1>3, Elsewhere
<1>4. /\ blocks' = blocks /\ src_size' = src_size /\ src_crc' = src_crc
      /\ Grown(source)' = Grown(bytes)
      /\ \A b : Answer(b)' = Answer(b)
  BY <1>3, ParsedStays DEF Grown
<1>5. SourceChecked'
  BY <1>3, <1>4 DEF SourceChecked
<1>6. BlocksPlayed'
  <2>1. blocks \in Seq(Block)
    BY DEF TypeOK
  <2>2. PlayedAll(Grown(bytes), blocks)[0] = Grown(bytes)
    BY <2>1, PlayedAllFollow
  <2>3. next' - 1 = 0 /\ output' = Grown(bytes)
    BY <1>3
  <2> QED BY <1>4, <2>2, <2>3 DEF BlocksPlayed
<1>7. SecondOfFirst'
  <2>1. CASE original' = <<source>> /\ bytes = source
    BY <1>3, <2>1 DEF SecondOfFirst
  <2>2. CASE pc = "done" /\ UNCHANGED original /\ source = original[1] /\ bytes = output
    <3>1. Len(original) = 1 /\ output = Answer(original[1])
      BY <2>2 DEF Semantics, SecondOfFirst, BlocksPlayed
    <3>2. Len(original') = 1 /\ original'[1] = original[1] /\ source' = Answer(original[1])
      BY <1>3, <2>2, <3>1
    <3>3. Answer(original[1])' = Answer(original[1])
      BY <1>3, <2>2, ParsedStays DEF Answer, Grown
    <3> QED BY <3>2, <3>3 DEF SecondOfFirst
  <2> QED BY <1>2, <2>1, <2>2
<1>8. OutputChecked'
  BY DEF OutputChecked
<1> QED BY <1>5, <1>6, <1>7, <1>8 DEF Semantics

LEMMA BlockKeeps ==
    ASSUME TypeOK, HasTrailer, Semantics, ApplyBlock
    PROVE  Semantics'
<1>1. /\ pc = "apply" /\ next <= Len(blocks) /\ next' = next + 1
      /\ output' = Played(output, blocks[next])
      /\ UNCHANGED <<parsed, pc, source, verify, original>>
  BY DEF ApplyBlock
<1>2. /\ blocks' = blocks /\ src_size' = src_size /\ src_crc' = src_crc
      /\ Grown(source)' = Grown(source) /\ Answer(original[1])' = Answer(original[1])
  BY <1>1, ParsedStays DEF Grown, Answer
<1>3. blocks \in Seq(Block) /\ next \in 1 .. Len(blocks)
  BY <1>1 DEF TypeOK
<1>4. PlayedAll(Grown(source), blocks)[next] = Played(output, blocks[next])
  <2>1. output = PlayedAll(Grown(source), blocks)[next - 1]
    BY <1>1 DEF Semantics, BlocksPlayed
  <2> QED BY <1>3, <2>1, PlayedAllFollow
<1>5. next' - 1 = next
  BY <1>1, <1>3
<1>6. BlocksPlayed'
  BY <1>1, <1>2, <1>4, <1>5 DEF BlocksPlayed
<1> QED BY <1>1, <1>2, <1>6 DEF Semantics, SourceChecked, OutputChecked, SecondOfFirst

LEMMA FinishKeeps ==
    ASSUME TypeOK, HasTrailer, Semantics, Finish
    PROVE  Semantics'
<1>1. /\ pc = "apply" /\ next > Len(blocks) /\ pc' \in {"done", "failed"}
      /\ output' = Resized(output, target_size)
      /\ UNCHANGED <<parsed, source, verify, original>>
      /\ pc' = "done" => (verify => Crc(output') = target_crc)
  BY DEF Finish, Fail, Accepted
<1>2. /\ src_size' = src_size /\ src_crc' = src_crc /\ target_size' = target_size
      /\ target_crc' = target_crc
      /\ Answer(source)' = Answer(source) /\ Answer(original[1])' = Answer(original[1])
  BY <1>1, ParsedStays DEF Grown, Answer
<1>3. next = Len(blocks) + 1 /\ next - 1 = Len(blocks)
  BY <1>1 DEF TypeOK
<1>4. output' = Answer(source)
  <2>1. output = PlayedAll(Grown(source), blocks)[Len(blocks)]
    BY <1>1, <1>3 DEF Semantics, BlocksPlayed
  <2> QED BY <1>1, <2>1 DEF Answer
<1>5. Len(output') = target_size
  BY <1>1, Sizes, ResizedTyped DEF TypeOK
<1>6. BlocksPlayed'
  BY <1>1, <1>2, <1>4 DEF BlocksPlayed
<1>7. SourceChecked' /\ SecondOfFirst'
  BY <1>1, <1>2 DEF Semantics, SourceChecked, SecondOfFirst
<1>8. OutputChecked'
  BY <1>1, <1>2, <1>5 DEF OutputChecked
<1> QED BY <1>6, <1>7, <1>8 DEF Semantics

LEMMA SemanticsKeeps ==
    ASSUME TypeOK, HasTrailer, Semantics, [Next]_vars
    PROVE  Semantics'
<1>1. CASE Load \/ ParseBlock \/ ParseTrailer \/ Validate
  <2>1. pc' \notin {"apply", "done"}
    BY <1>1 DEF Load, ParseBlock, ParseTrailer, Validate, Fail
  <2> QED BY <2>1, Elsewhere
<1>2. CASE UNCHANGED vars
  <2>1. /\ UNCHANGED <<parsed, pc, source, verify, next, output, original>>
    BY <1>2 DEF vars, parsed, header, checksums
  <2>2. /\ UNCHANGED <<blocks, src_size, target_size, src_crc, target_crc>>
        /\ Grown(source)' = Grown(source) /\ Answer(source)' = Answer(source)
        /\ Answer(original[1])' = Answer(original[1])
    BY <2>1, ParsedStays DEF Grown, Answer
  <2> QED BY <2>1, <2>2 DEF Semantics, SourceChecked, OutputChecked, BlocksPlayed, SecondOfFirst
<1> QED BY <1>1, <1>2, StartKeeps, BlockKeeps, FinishKeeps DEF Next

\* The invariant holds before anything is loaded.
LEMMA BlankHolds ==
    ASSUME patch \in Seq(Byte), source \in Seq(Byte), offset \in {0, 4},
           pc = "load", src_size = 0, target_size = 0, file_offset = 0, blocks = <<>>,
           src_crc = <<>>, target_crc = <<>>, patch_crc = <<>>, verify = FALSE,
           next = 1, output = <<>>, original = <<>>, error = "none"
    PROVE  IInv
<1>1. 0 \in Number /\ offset \in Nat /\ offset <= Larger(4, Len(patch))
  BY VarIntAssumption DEF Number, Larger
<1>2. TypeOK
  <2>1. output \in Seq(Byte) /\ blocks \in Seq(Block) /\ original \in Seq(Seq(Byte))
    OBVIOUS
  <2>2. src_crc \in Seq(Byte) /\ target_crc \in Seq(Byte) /\ patch_crc \in Seq(Byte)
    OBVIOUS
  <2>3. src_size \in Number /\ target_size \in Number /\ file_offset \in Number
    BY <1>1
  <2>4. next \in 1 .. Len(blocks) + 1
    OBVIOUS
  <2>5. verify \in BOOLEAN
    OBVIOUS
  <2> QED BY <1>1, <2>1, <2>2, <2>3, <2>4, <2>5 DEF TypeOK
<1> QED
  BY <1>2 DEF IInv, HasTrailer, SourceChecked, OutputChecked, BlocksPlayed, SecondOfFirst

\* So it does at the start.
LEMMA InitHolds == Init => IInv
BY BlankHolds, UPSAssumption DEF Init

\* It holds between two calls, whatever the first one answered or built.
LEMMA BetweenCalls ==
    ASSUME IInv, Len(patch) >= 4 + Trailer, pc' = "loaded",
           source' \in {source, output}, output' \in {output, <<>>}, next' \in {1, next},
           error' \in {error, "none"}, UNCHANGED <<parsed, verify, original>>
    PROVE  IInv'
<1>1. next' \in 1 .. Len(blocks) + 1
  BY DEF IInv, TypeOK
<1>2. source' \in Seq(Byte) /\ output' \in Seq(Byte)
  <2>1. source \in Seq(Byte) /\ output \in Seq(Byte)
    BY DEF IInv, TypeOK
  <2>2. <<>> \in Seq(Byte)
    OBVIOUS
  <2> QED BY <2>1, <2>2
<1>3. TypeOK' /\ HasTrailer'
  BY <1>1, <1>2 DEF IInv, TypeOK, HasTrailer, Trailer, parsed, header, checksums
<1> QED BY <1>3, Elsewhere DEF IInv, Semantics

\* Every step keeps the invariant.
LEMMA StepHolds == IInv /\ [Next]_vars => IInv'
BY TypeKeeps, SemanticsKeeps DEF IInv, Semantics

\* The inductive invariant, for any bytes taken for a patch or a source
\* (ups.cc:38-171).
THEOREM Invariance == Spec => []IInv
BY InitHolds, StepHolds, PTL DEF Spec

-----------------------------------------------------------------------------
\* The parser and apply stay inside the patch and the output, for any bytes
\* whatever: offsets, blocks and numbers keep their types (ups.cc:38-84, 134-171).
THEOREM TypeCorrect == Spec => []TypeOK
<1>1. IInv => TypeOK
  BY DEF IInv
<1> QED BY <1>1, Invariance, PTL

\* An answer that was verified is one that verify_checksums confirms, of the
\* size the patch says (ups.cc:136-147, 161-168, 212-224).
THEOREM VerifiedAnswers == Spec => []VerifiedIsTarget
<1>1. IInv => VerifiedIsTarget
  BY DEF IInv, SourceChecked, OutputChecked, VerifiedIsTarget, ChecksumsMatch
<1> QED BY <1>1, Invariance, PTL

\* A patch applied to what it made gives the source back, as far as the target
\* reaches, however its blocks overlap or lie outside (ups.cc:59-60, 155-161).
THEOREM PatchesReverse == Spec => []Reversible
<1>1. IInv => Reversible
  <2> SUFFICES ASSUME IInv, pc = "done", source # original[1]
               PROVE  output = Resized(original[1], target_size)
    BY DEF Reversible
  <2>1. Len(original) = 1 /\ source = Answer(original[1]) /\ output = Answer(source)
    BY DEF IInv, SecondOfFirst, BlocksPlayed
  <2>2. original[1] \in Seq(Byte)
    <3>1. original \in Seq(Seq(Byte))
      BY DEF IInv, TypeOK
    <3> HIDE DEF Byte
    <3> QED BY <2>1, <3>1
  <2> QED BY <2>1, <2>2, AnswerTwice DEF IInv
<1> QED BY <1>1, Invariance, PTL

-----------------------------------------------------------------------------
(***************************************************************************)
(* What an encoder made                                                    *)
(***************************************************************************)

\* A job of the encoder: what it made, of what, and for what.
LEMMA MadeOf ==
    ASSUME NEW m \in Made
    PROVE  /\ m.from \in Seq(Byte) /\ Len(m.from) \in 0 .. MaxAlloc
           /\ m.to \in Seq(Byte) /\ Len(m.to) \in 0 .. MaxAlloc
           /\ m.layout \in Layouts(DifferenceOf(m)) /\ m.skip \in {0, 1}
           /\ m.bytes = MadeFor(m.from, m.to, m.layout, m.skip)
<1>1. PICK s \in Sources, t \in Sources :
        m \in {[bytes |-> MadeFor(s, t, rs, skip), from |-> s, to |-> t, skip |-> skip,
                layout |-> rs] : rs \in Layouts(Difference(s, t)), skip \in {0, 1}}
  BY DEF Made
<1>2. PICK rs \in Layouts(Difference(s, t)), skip \in {0, 1} :
        m = [bytes |-> MadeFor(s, t, rs, skip), from |-> s, to |-> t, skip |-> skip, layout |-> rs]
  BY <1>1
<1>3. /\ m.from = s /\ m.to = t /\ m.layout = rs /\ m.skip = skip
      /\ m.bytes = MadeFor(s, t, rs, skip)
  BY <1>2
<1>4. /\ s \in Seq(Byte) /\ Len(s) <= MaxAlloc /\ t \in Seq(Byte) /\ Len(t) <= MaxAlloc
  BY UPSAssumption
<1>5. Len(s) \in 0 .. MaxAlloc /\ Len(t) \in 0 .. MaxAlloc
  BY <1>4, UPSAssumption
<1> QED BY <1>2, <1>3, <1>4, <1>5 DEF DifferenceOf

\* A difference has a byte for each position of either text.
LEMMA DifferenceTyped ==
    ASSUME NEW m \in Made
    PROVE  LET d == DifferenceOf(m)
               n == Larger(Len(m.from), Len(m.to))
           IN /\ n \in 0 .. MaxAlloc /\ Len(m.from) <= n /\ Len(m.to) <= n
              /\ d \in Seq(Byte) /\ Len(d) = n
              /\ Resized(m.from, n) \in Seq(Byte) /\ Resized(m.to, n) \in Seq(Byte)
              /\ \A i \in 1 .. n : d[i] = Xor(Resized(m.from, n)[i], Resized(m.to, n)[i])
<1> DEFINE d == DifferenceOf(m)
           n == Larger(Len(m.from), Len(m.to))
           a == Resized(m.from, n)
           b == Resized(m.to, n)
<1>1. /\ m.from \in Seq(Byte) /\ Len(m.from) \in 0 .. MaxAlloc
      /\ m.to \in Seq(Byte) /\ Len(m.to) \in 0 .. MaxAlloc
      /\ MaxAlloc \in Nat
  BY MadeOf, UPSAssumption
<1>2. n \in 0 .. MaxAlloc /\ Len(m.from) <= n /\ Len(m.to) <= n
  BY <1>1 DEF Larger
<1>3. d = [i \in 1 .. n |-> Xor(a[i], b[i])]
  BY DEF DifferenceOf, Difference
<1> HIDE DEF n
<1>4. n \in Nat
  BY <1>1, <1>2
<1>5. a \in Seq(Byte) /\ Len(a) = n /\ b \in Seq(Byte) /\ Len(b) = n
  BY <1>1, <1>4, ResizedTyped
<1> HIDE DEF a, b, d
<1>6. \A i \in 1 .. n : Xor(a[i], b[i]) \in Byte
  <2>1. \A i \in 1 .. n : a[i] \in Byte /\ b[i] \in Byte
    BY <1>5
  <2> QED BY <2>1, UPSAssumption
<1>7. d \in Seq(Byte) /\ Len(d) = n /\ \A i \in 1 .. n : d[i] = Xor(a[i], b[i])
  BY <1>3, <1>4, <1>6
<1> QED BY <1>2, <1>5, <1>7 DEF a, b, d, n

\* The regions are inside the difference, in order, with something between, and
\* hold what of it is not zero.
LEMMA LayoutIs ==
    ASSUME NEW m \in Made
    PROVE  LET d == DifferenceOf(m)
               rs == m.layout
           IN /\ Len(rs) \in Nat
              /\ \A k \in 1 .. Len(rs) :
                    /\ rs[k].first \in 1 .. Len(d) /\ rs[k].last \in rs[k].first .. Len(d)
                    /\ \A i \in rs[k].first .. rs[k].last : d[i] # 0
              /\ \A k \in 1 .. Len(rs) - 1 : rs[k].last + 1 < rs[k + 1].first
              /\ \A i \in 1 .. Len(d) : d[i] # 0 =>
                    \E k \in 1 .. Len(rs) : rs[k].first <= i /\ i <= rs[k].last
<1> DEFINE d == DifferenceOf(m)
           rs == m.layout
<1>1. d \in Seq(Byte)
  BY DifferenceTyped
<1>2. rs \in Layouts(d)
  BY MadeOf
<1>3. PICK n \in 0 .. (Len(d) + 1) \div 2 : rs \in [1 .. n -> Stretches(d)]
  BY <1>2 DEF Layouts
<1>4. n \in Nat /\ Len(d) \in Nat /\ DOMAIN d = 1 .. Len(d)
  <2>1. Len(d) \in Nat /\ DOMAIN d = 1 .. Len(d)
    BY <1>1
  <2>2. (Len(d) + 1) \div 2 \in Int
    BY <2>1
  <2>3. n \in Nat
    BY <2>2
  <2> QED BY <2>1, <2>3
<1>5. rs \in Seq(Stretches(d)) /\ Len(rs) = n /\ DOMAIN rs = 1 .. n
  <2> HIDE DEF d, rs
  <2> QED BY <1>3, <1>4
<1>6. /\ \A k \in 1 .. Len(rs) - 1 : rs[k].last + 1 < rs[k + 1].first
      /\ \A i \in DOMAIN d : d[i] # 0 => \E k \in DOMAIN rs : rs[k].first <= i /\ i <= rs[k].last
  BY <1>2 DEF Layouts
<1> HIDE DEF d, rs
<1>7. ASSUME NEW k \in 1 .. n
      PROVE  /\ rs[k].first \in 1 .. Len(d) /\ rs[k].last \in rs[k].first .. Len(d)
             /\ \A i \in rs[k].first .. rs[k].last : d[i] # 0
  <2>1. rs[k] \in Stretches(d)
    BY <1>3
  <2>2. /\ rs[k].first \in 1 .. Len(d) /\ rs[k].last \in 1 .. Len(d) /\ rs[k].first <= rs[k].last
        /\ \A i \in rs[k].first .. rs[k].last : d[i] # 0
    BY <1>4, <2>1 DEF Stretches
  <2>3. rs[k].last \in rs[k].first .. Len(d)
    BY <1>4, <2>2
  <2> QED BY <2>2, <2>3
<1> QED BY <1>4, <1>5, <1>6, <1>7 DEF d, rs

\* A later region lies behind an earlier one.
LEMMA RegionsInOrder ==
    ASSUME NEW m \in Made, NEW j \in 1 .. Len(m.layout), NEW k \in 1 .. Len(m.layout), j < k
    PROVE  m.layout[j].last < m.layout[k].first
<1> DEFINE rs == m.layout
           n == Len(rs)
           S == {i \in Nat : j + 1 + i <= n => rs[j].last < rs[j + 1 + i].first}
<1>1. /\ n \in Nat /\ j \in 1 .. n /\ k \in 1 .. n
      /\ \A i \in 1 .. n - 1 : rs[i].last + 1 < rs[i + 1].first
  BY LayoutIs
<1>2. ASSUME NEW i \in 1 .. n
      PROVE  rs[i].first \in Nat /\ rs[i].last \in Nat /\ rs[i].first <= rs[i].last
  <2> DEFINE d == DifferenceOf(m)
  <2>1. Len(d) \in Nat
    BY DifferenceTyped
  <2>2. rs[i].first \in 1 .. Len(d) /\ rs[i].last \in rs[i].first .. Len(d)
    BY LayoutIs
  <2> HIDE DEF d, rs
  <2> QED BY <2>1, <2>2
<1> HIDE DEF rs, n
<1>3. 0 \in S
  <2> SUFFICES ASSUME j + 1 <= n PROVE rs[j].last < rs[j + 1].first
    BY <1>1
  <2>1. j \in 1 .. n - 1 /\ j + 1 \in 1 .. n
    BY <1>1
  <2> QED BY <1>1, <1>2, <2>1
<1>4. ASSUME NEW i \in Nat, i \in S PROVE i + 1 \in S
  <2> SUFFICES ASSUME j + 1 + (i + 1) <= n PROVE rs[j].last < rs[j + 1 + (i + 1)].first
    OBVIOUS
  <2> DEFINE h == j + 1 + i
  <2>1. h \in 1 .. n - 1 /\ h + 1 \in 1 .. n /\ h \in 1 .. n /\ j + 1 + (i + 1) = h + 1
    BY <1>1
  <2>2. rs[j].last < rs[h].first
    BY <1>4, <2>1
  <2> HIDE DEF h
  <2>3. rs[h].last + 1 < rs[h + 1].first
    BY <1>1, <2>1
  <2>4. /\ rs[h].first \in Nat /\ rs[h].last \in Nat /\ rs[h].first <= rs[h].last
        /\ rs[h + 1].first \in Nat /\ rs[j].last \in Nat
    BY <1>1, <1>2, <2>1
  <2>5. rs[j].last < rs[h + 1].first
    BY <2>2, <2>3, <2>4
  <2> QED BY <2>1, <2>5
<1>5. \A i \in Nat : i \in S
  <2> HIDE DEF S
  <2> QED BY <1>3, <1>4, Induction
<1>6. \A i \in Nat : j + 1 + i <= n => rs[j].last < rs[j + 1 + i].first
  BY <1>5
<1>7. k - (j + 1) \in Nat /\ j + 1 + (k - (j + 1)) = k /\ k <= n
  BY <1>1
<1>8. rs[j].last < rs[k].first
  BY <1>6, <1>7
<1> QED BY <1>8 DEF rs

\* The bytes of a region: none is zero, and it has some.
LEMMA ChangedTyped ==
    ASSUME NEW m \in Made, NEW k \in 1 .. Len(m.layout)
    PROVE  LET d == DifferenceOf(m)
               r == m.layout[k]
           IN /\ Changed(d, r) \in Seq(Byte \ {0}) /\ Changed(d, r) \in Seq(Byte)
              /\ Len(Changed(d, r)) = r.last - r.first + 1 /\ Changed(d, r) # <<>>
              /\ \A i \in 1 .. Len(Changed(d, r)) : Changed(d, r)[i] = d[r.first - 1 + i]
<1> DEFINE d == DifferenceOf(m)
           r == m.layout[k]
           n == r.last - r.first + 1
           part == SubSeq(d, r.first, r.last)
<1>1. d \in Seq(Byte) /\ Len(d) \in Nat
  BY DifferenceTyped
<1>2. /\ r.first \in 1 .. Len(d) /\ r.last \in r.first .. Len(d)
      /\ \A i \in r.first .. r.last : d[i] # 0
  BY LayoutIs
<1> HIDE DEF d, r
<1>3. /\ r.first \in Nat /\ r.last \in Nat /\ r.first >= 1 /\ r.first <= r.last
      /\ r.last <= Len(d) /\ n \in Nat /\ n >= 1
  BY <1>1, <1>2
<1>4. part = [i \in 1 .. n |-> d[r.first - 1 + i]]
  <2>1. part = [i \in 1 .. (r.last - r.first + 1) |-> d[r.first + i - 1]]
    BY <1>1, <1>3
  <2>2. \A i \in 1 .. n : r.first + i - 1 = r.first - 1 + i
    BY <1>3
  <2> HIDE DEF part
  <2> QED BY <2>1, <2>2
<1>5. ASSUME NEW i \in 1 .. n PROVE d[r.first - 1 + i] \in Byte \ {0}
  <2>1. r.first - 1 + i \in r.first .. r.last /\ r.first - 1 + i \in 1 .. Len(d)
    BY <1>1, <1>3
  <2> QED BY <1>1, <1>2, <2>1
<1> HIDE DEF part, n
<1>6. /\ part \in Seq(Byte \ {0}) /\ part \in Seq(Byte) /\ Len(part) = n
      /\ \A i \in 1 .. n : part[i] = d[r.first - 1 + i]
  BY <1>3, <1>4, <1>5
<1>7. part # <<>>
  BY <1>3, <1>6
<1>8. Changed(d, r) = part
  BY DEF Changed, part
<1> QED BY <1>6, <1>7, <1>8 DEF d, r, n

\* A distance the parser counts as the encoder did leads from the end of one
\* region to the start of the next.
LEMMA DistanceTyped ==
    ASSUME NEW m \in Made, Alike(m), NEW k \in 1 .. Len(m.layout)
    PROVE  LET rs == m.layout
               before == IF k = 1 THEN 0 ELSE rs[k - 1].last
           IN /\ Distance(rs, m.skip, k) \in Number
              /\ before \in Number
              /\ before + Distance(rs, m.skip, k) = rs[k].first - 1
              /\ rs[k].first - 1 \in Number /\ rs[k].last \in Number
<1> DEFINE rs == m.layout
           before == IF k = 1 THEN 0 ELSE rs[k - 1].last
           size == Len(DifferenceOf(m))
<1>1. size \in 0 .. MaxAlloc
  BY DifferenceTyped
<1>2. MaxAlloc \in Nat /\ Word \in Nat /\ MaxAlloc < Word
  BY UPSAssumption, VarIntAssumption
<1>3. ASSUME NEW j \in 1 .. Len(rs)
      PROVE  rs[j].first \in 1 .. size /\ rs[j].last \in rs[j].first .. size
  BY LayoutIs
<1>4. Len(rs) \in Nat /\ k \in 1 .. Len(rs)
  BY LayoutIs
<1> HIDE DEF size
<1>5. rs[k].first \in Nat /\ rs[k].first >= 1 /\ rs[k].last \in Nat /\ rs[k].first <= rs[k].last
      /\ rs[k].last < Word
  BY <1>1, <1>2, <1>3
<1>6. CASE k = 1
  <2>1. before = 0 /\ Distance(rs, m.skip, k) = rs[k].first - 1
    BY <1>5, <1>6 DEF Distance
  <2> DEFINE first == rs[k].first
             last == rs[k].last
             distance == Distance(rs, m.skip, k)
  <2>2. /\ first \in Nat /\ last \in Nat /\ first >= 1 /\ first <= last /\ last < Word
        /\ distance = first - 1 /\ before = 0
    BY <1>5, <2>1
  <2> HIDE DEF before, first, last, distance
  <2>3. /\ distance \in Number /\ before \in Number /\ before + distance = first - 1
        /\ first - 1 \in Number /\ last \in Number
    BY <1>2, <2>2 DEF Number
  <2> QED BY <2>3 DEF before, first, last, distance
<1>7. CASE k # 1
  <2>1. k - 1 \in 1 .. Len(rs) /\ k - 1 < k /\ ~(Len(rs) <= 1)
    BY <1>4, <1>7
  <2>2. m.skip = 0
    BY <2>1 DEF Alike
  <2>3. before = rs[k - 1].last /\ Distance(rs, m.skip, k) = rs[k].first - 1 - (rs[k - 1].last + 0)
    BY <1>7, <2>2 DEF Distance
  <2>4. rs[k - 1].last < rs[k].first
    BY <2>1, RegionsInOrder
  <2>5. rs[k - 1].last \in Nat
    BY <1>1, <1>2, <1>3, <2>1
  <2> DEFINE first == rs[k].first
             last == rs[k].last
             end == rs[k - 1].last
             distance == Distance(rs, m.skip, k)
  <2>6. /\ first \in Nat /\ last \in Nat /\ end \in Nat /\ first >= 1 /\ first <= last /\ last < Word
        /\ end < first /\ distance = first - 1 - end /\ before = end
    BY <1>5, <2>3, <2>4, <2>5
  <2> HIDE DEF before, first, last, end, distance
  <2>7. /\ distance \in Number /\ before \in Number /\ before + distance = first - 1
        /\ first - 1 \in Number /\ last \in Number
    BY <1>2, <2>6 DEF Number
  <2> QED BY <2>7 DEF before, first, last, distance
<1> QED BY <1>6, <1>7

\* The pieces that are written, one for each region.
LEMMA PiecesTyped ==
    ASSUME NEW m \in Made, Alike(m)
    PROVE  /\ PiecesOf(m) \in Seq(Seq(Byte)) /\ Len(PiecesOf(m)) = Len(m.layout)
           /\ \A k \in 1 .. Len(m.layout) :
                 LET number == Encoded[Distance(m.layout, m.skip, k)]
                     data == Changed(DifferenceOf(m), m.layout[k])
                 IN /\ PiecesOf(m)[k] = number \o data \o <<0>>
                    /\ number \in Seq(Byte) /\ data \in Seq(Byte) /\ <<0>> \in Seq(Byte)
                    /\ Len(PiecesOf(m)[k]) = Len(number) + Len(data) + 1
<1> DEFINE n == Len(m.layout)
           number(k) == Encoded[Distance(m.layout, m.skip, k)]
           data(k) == Changed(DifferenceOf(m), m.layout[k])
           piece(k) == number(k) \o data(k) \o <<0>>
<1>1. n \in Nat
  BY LayoutIs
<1>2. PiecesOf(m) = [k \in 1 .. n |-> piece(k)]
  BY DEF PiecesOf, Pieces
<1>3. <<0>> \in Seq(Byte)
  BY VarIntAssumption DEF Byte
<1>4. ASSUME NEW k \in 1 .. n
      PROVE  /\ number(k) \in Seq(Byte) /\ data(k) \in Seq(Byte)
             /\ piece(k) \in Seq(Byte) /\ Len(piece(k)) = Len(number(k)) + Len(data(k)) + 1
  <2>1. Distance(m.layout, m.skip, k) \in Nat
    BY DistanceTyped DEF Number
  <2>2. number(k) \in Seq(Byte)
    BY <2>1, EncodedTyped
  <2>3. data(k) \in Seq(Byte)
    BY ChangedTyped
  <2> HIDE DEF number, data
  <2>4. number(k) \o data(k) \in Seq(Byte) /\ Len(number(k) \o data(k)) = Len(number(k)) + Len(data(k))
    BY <2>2, <2>3
  <2>5. piece(k) \in Seq(Byte) /\ Len(piece(k)) = Len(number(k) \o data(k)) + 1
    BY <1>3, <2>4
  <2> QED BY <2>2, <2>3, <2>4, <2>5
<1> HIDE DEF n, piece
<1>5. PiecesOf(m) \in Seq(Seq(Byte)) /\ Len(PiecesOf(m)) = n /\ \A k \in 1 .. n : PiecesOf(m)[k] = piece(k)
  <2>1. \A k \in 1 .. n : piece(k) \in Seq(Byte)
    BY <1>4
  <2> HIDE DEF Byte
  <2> QED BY <1>1, <1>2, <2>1
<1> QED BY <1>3, <1>4, <1>5 DEF n, piece

-----------------------------------------------------------------------------
(***************************************************************************)
(* Where what an encoder made stands in the patch                          *)
(***************************************************************************)

ChecksumsFit == \A bytes \in Seq(Byte) : Crc(bytes) \in Seq(Byte) /\ Len(Crc(bytes)) = CrcSize

BodyOf(m) == Body(m.from, m.to, m.layout, m.skip)

\* The parts of the body, from the header to the checksums of the two texts.
LEMMA BodyTyped ==
    ASSUME ChecksumsFit, NEW m \in Made, Alike(m)
    PROVE  LET first == Encoded[Len(m.from)]
               second == Encoded[Len(m.to)]
               regions == Laid(PiecesOf(m))[Len(m.layout)]
           IN /\ BodyOf(m) = Magic \o first \o second \o regions \o Crc(m.from) \o Crc(m.to)
              /\ Magic \in Seq(Byte) /\ Len(Magic) = 4
              /\ first \in Seq(Byte) /\ second \in Seq(Byte) /\ regions \in Seq(Byte)
              /\ Crc(m.from) \in Seq(Byte) /\ Len(Crc(m.from)) = CrcSize
              /\ Crc(m.to) \in Seq(Byte) /\ Len(Crc(m.to)) = CrcSize
              /\ BodyOf(m) \in Seq(Byte)
              /\ Len(BodyOf(m)) = BehindRegion(m, Len(m.layout)) + 2 * CrcSize
              /\ Crc(BodyOf(m)) \in Seq(Byte) /\ Len(Crc(BodyOf(m))) = CrcSize
<1> DEFINE first == Encoded[Len(m.from)]
           second == Encoded[Len(m.to)]
           regions == Laid(PiecesOf(m))[Len(m.layout)]
           a == Crc(m.from)
           b == Crc(m.to)
<1>1. m.from \in Seq(Byte) /\ m.to \in Seq(Byte) /\ Len(m.from) \in Nat /\ Len(m.to) \in Nat
  BY MadeOf
<1>2. first \in Seq(Byte) /\ second \in Seq(Byte)
  BY <1>1, EncodedTyped
<1>3. regions \in Seq(Byte)
  <2>1. Len(m.layout) \in 0 .. Len(m.layout)
    BY LayoutIs
  <2> QED BY <2>1, PiecesTyped, LaidTyped
<1>4. a \in Seq(Byte) /\ Len(a) = CrcSize /\ b \in Seq(Byte) /\ Len(b) = CrcSize
  BY <1>1 DEF ChecksumsFit
<1>5. Magic \in Seq(Byte) /\ Len(Magic) = 4 /\ CrcSize \in Nat
  BY UPSAssumption
<1>6. BodyOf(m) = Magic \o first \o second \o regions \o a \o b
  BY DEF BodyOf, Body, PiecesOf, DifferenceOf
<1>7. BehindRegion(m, Len(m.layout)) = 4 + Len(first) + Len(second) + Len(regions)
  BY DEF BehindRegion, FirstRegion
<1> HIDE DEF first, second, regions, a, b
<1> DEFINE p1 == Magic \o first
           p2 == p1 \o second
           p3 == p2 \o regions
           p4 == p3 \o a
<1>8. p1 \in Seq(Byte) /\ Len(p1) = Len(Magic) + Len(first)
  BY <1>2, <1>5, Joined
<1>9. p2 \in Seq(Byte) /\ Len(p2) = Len(p1) + Len(second)
  <2> HIDE DEF p1
  <2> QED BY <1>2, <1>8, Joined
<1>10. p3 \in Seq(Byte) /\ Len(p3) = Len(p2) + Len(regions)
  <2> HIDE DEF p2
  <2> QED BY <1>3, <1>9, Joined
<1>11. p4 \in Seq(Byte) /\ Len(p4) = Len(p3) + Len(a)
  <2> HIDE DEF p3
  <2> QED BY <1>4, <1>10, Joined
<1>12. BodyOf(m) \in Seq(Byte) /\ Len(BodyOf(m)) = Len(p4) + Len(b)
  <2>1. BodyOf(m) = p4 \o b
    BY <1>6
  <2> HIDE DEF p4
  <2> QED BY <1>4, <1>11, <2>1, Joined
<1>13. Len(BodyOf(m)) = BehindRegion(m, Len(m.layout)) + 2 * CrcSize
  <2>1. Len(first) \in Nat /\ Len(second) \in Nat /\ Len(regions) \in Nat
    BY <1>2, <1>3
  <2> DEFINE l1 == Len(p1)
             l2 == Len(p2)
             l3 == Len(p3)
             l4 == Len(p4)
             f == Len(first)
             g == Len(second)
             r == Len(regions)
  <2>2. /\ l1 = 4 + f /\ l2 = l1 + g /\ l3 = l2 + r /\ l4 = l3 + CrcSize
        /\ Len(BodyOf(m)) = l4 + CrcSize /\ BehindRegion(m, Len(m.layout)) = 4 + f + g + r
        /\ f \in Nat /\ g \in Nat /\ r \in Nat
    BY <1>4, <1>5, <1>7, <1>8, <1>9, <1>10, <1>11, <1>12, <2>1, Zenon
  <2> HIDE DEF l1, l2, l3, l4, f, g, r
  <2> QED BY <1>5, <2>2
<1>14. Crc(BodyOf(m)) \in Seq(Byte) /\ Len(Crc(BodyOf(m))) = CrcSize
  BY <1>12 DEF ChecksumsFit
<1> QED BY <1>2, <1>3, <1>4, <1>5, <1>6, <1>12, <1>13, <1>14 DEF first, second, regions, a, b

\* Where the regions are written.
LEMMA BehindTyped ==
    ASSUME NEW m \in Made, Alike(m)
    PROVE  /\ FirstRegion(m) \in Nat /\ FirstRegion(m) >= 4
           /\ BehindRegion(m, 0) = FirstRegion(m)
           /\ \A k \in 0 .. Len(m.layout) :
                 /\ BehindRegion(m, k) \in Nat
                 /\ FirstRegion(m) <= BehindRegion(m, k)
                 /\ BehindRegion(m, k) <= BehindRegion(m, Len(m.layout))
           /\ \A k \in 1 .. Len(m.layout) :
                 BehindRegion(m, k) = BehindRegion(m, k - 1) + Len(PiecesOf(m)[k])
<1> DEFINE n == Len(m.layout)
           laid == Laid(PiecesOf(m))
           base == FirstRegion(m)
<1>1. PiecesOf(m) \in Seq(Seq(Byte)) /\ Len(PiecesOf(m)) = n /\ n \in Nat
  BY PiecesTyped, LayoutIs
<1>2. base \in Nat /\ base >= 4
  <2>1. Len(m.from) \in Nat /\ Len(m.to) \in Nat
    BY MadeOf
  <2> DEFINE f == Len(Encoded[Len(m.from)])
             g == Len(Encoded[Len(m.to)])
  <2>2. f \in Nat /\ g \in Nat
    BY <2>1, EncodedTyped
  <2>3. base = 4 + f + g
    BY DEF FirstRegion
  <2> HIDE DEF f, g, base
  <2> QED BY <2>2, <2>3
<1>3. \A k \in 0 .. n : laid[k] \in Seq(Byte) /\ Len(laid[k]) \in Nat
  <2>1. \A k \in 0 .. n : laid[k] \in Seq(Byte)
    BY <1>1, LaidTyped
  <2> HIDE DEF laid, n
  <2> QED BY <2>1
<1>4. Len(laid[0]) = 0 /\ \A k \in 1 .. n : Len(laid[k]) = Len(laid[k - 1]) + Len(PiecesOf(m)[k])
  BY <1>1, LaidTyped
<1>5. \A k \in 0 .. n : Len(laid[k]) <= Len(laid[n])
  BY <1>1, LaidGrows
<1>6. \A k : BehindRegion(m, k) = base + Len(laid[k])
  BY DEF BehindRegion
<1> HIDE DEF base, laid, n
<1>7. BehindRegion(m, 0) = base
  BY <1>2, <1>4, <1>6
<1>8. ASSUME NEW k \in 0 .. n
      PROVE  /\ BehindRegion(m, k) \in Nat /\ base <= BehindRegion(m, k)
             /\ BehindRegion(m, k) <= BehindRegion(m, n)
  <2>1. n \in 0 .. n
    BY <1>1
  <2> QED BY <1>2, <1>3, <1>5, <1>6, <2>1
<1>9. ASSUME NEW k \in 1 .. n
      PROVE  BehindRegion(m, k) = BehindRegion(m, k - 1) + Len(PiecesOf(m)[k])
  <2>1. k - 1 \in 0 .. n
    BY <1>1
  <2>2. PiecesOf(m)[k] \in Seq(Byte)
    <3> HIDE DEF Byte
    <3> QED BY <1>1
  <2> DEFINE more == Len(PiecesOf(m)[k])
             here == Len(laid[k])
             before == Len(laid[k - 1])
  <2>3. more \in Nat /\ before \in Nat
    BY <1>3, <2>1, <2>2
  <2>4. here = before + more
    BY <1>4
  <2>5. BehindRegion(m, k) = base + here /\ BehindRegion(m, k - 1) = base + before
    BY <1>6
  <2> HIDE DEF more, here, before
  <2>6. BehindRegion(m, k) = BehindRegion(m, k - 1) + more
    BY <1>2, <2>3, <2>4, <2>5
  <2> QED BY <2>6 DEF more
<1> QED BY <1>2, <1>7, <1>8, <1>9 DEF base, n

\* What the encoder wrote stands in the patch where the parser looks for it.
LEMMA MadeStands ==
    ASSUME ChecksumsFit, NEW m \in Made, Alike(m), patch = m.bytes
    PROVE  /\ patch \in Seq(Byte)
           /\ BodyEnd = BehindRegion(m, Len(m.layout)) /\ Len(patch) = BodyEnd + Trailer
           /\ Len(patch) >= 4 + Trailer
           /\ CheckedPart = BodyOf(m)
           /\ SubSeq(patch, 1, 4) = Magic
           /\ Stands(patch, 4, Encoded[Len(m.from)])
           /\ Stands(patch, 4 + Len(Encoded[Len(m.from)]), Encoded[Len(m.to)])
           /\ \A k \in 1 .. Len(m.layout) : Stands(patch, BehindRegion(m, k - 1), PiecesOf(m)[k])
           /\ SubSeq(patch, BodyEnd + 1, BodyEnd + CrcSize) = Crc(m.from)
           /\ SubSeq(patch, BodyEnd + CrcSize + 1, BodyEnd + 2 * CrcSize) = Crc(m.to)
           /\ SubSeq(patch, BodyEnd + 2 * CrcSize + 1, Len(patch)) = Crc(BodyOf(m))
<1> DEFINE first == Encoded[Len(m.from)]
           second == Encoded[Len(m.to)]
           regions == Laid(PiecesOf(m))[Len(m.layout)]
           a == Crc(m.from)
           b == Crc(m.to)
           c == Crc(BodyOf(m))
           end == BehindRegion(m, Len(m.layout))
<1>1. /\ BodyOf(m) = Magic \o first \o second \o regions \o a \o b
      /\ Magic \in Seq(Byte) /\ Len(Magic) = 4
      /\ first \in Seq(Byte) /\ second \in Seq(Byte) /\ regions \in Seq(Byte)
      /\ a \in Seq(Byte) /\ Len(a) = CrcSize /\ b \in Seq(Byte) /\ Len(b) = CrcSize
      /\ BodyOf(m) \in Seq(Byte) /\ Len(BodyOf(m)) = end + 2 * CrcSize
      /\ c \in Seq(Byte) /\ Len(c) = CrcSize
  BY BodyTyped
<1>2. patch = BodyOf(m) \o c
  BY MadeOf DEF MadeFor, BodyOf
<1>3. end = FirstRegion(m) + Len(regions) /\ FirstRegion(m) = 4 + Len(first) + Len(second)
  BY DEF BehindRegion, FirstRegion
<1>4. CrcSize \in Nat /\ Trailer = 3 * CrcSize
  BY UPSAssumption DEF Trailer
<1>5. end \in Nat /\ end >= 4
  <2>1. Len(m.layout) \in 0 .. Len(m.layout)
    BY LayoutIs
  <2>2. /\ FirstRegion(m) \in Nat /\ FirstRegion(m) >= 4
        /\ end \in Nat /\ FirstRegion(m) <= end
    BY <2>1, BehindTyped
  <2> HIDE DEF end
  <2> QED BY <2>2
<1> HIDE DEF first, second, regions, a, b, c, end
<1>6. patch \in Seq(Byte) /\ Len(patch) = end + 2 * CrcSize + CrcSize
  <2>1. /\ BodyOf(m) \in Seq(Byte) /\ Len(BodyOf(m)) = end + 2 * CrcSize
        /\ c \in Seq(Byte) /\ Len(c) = CrcSize
    BY <1>1
  <2>2. /\ BodyOf(m) \o c \in Seq(Byte)
        /\ Len(BodyOf(m) \o c) = Len(BodyOf(m)) + Len(c)
    BY <2>1, Joined
  <2> QED BY <1>2, <2>1, <2>2, Zenon
<1>7. BodyEnd = end /\ Len(patch) = BodyEnd + Trailer /\ Len(patch) >= 4 + Trailer
  BY <1>4, <1>5, <1>6 DEF BodyEnd
<1>8. Stands(patch, 0, BodyOf(m)) /\ Stands(patch, end + 2 * CrcSize, c)
  <2>1. Stands(patch, 0, BodyOf(m) \o c)
    BY <1>2, <1>6, StandsWhole
  <2>2. Stands(patch, 0, BodyOf(m)) /\ Stands(patch, 0 + Len(BodyOf(m)), c)
    BY <1>1, <1>6, <2>1, StandsInTwo
  <2>3. 0 + Len(BodyOf(m)) = end + 2 * CrcSize
    BY <1>1, <1>4, <1>5
  <2> QED BY <2>2, <2>3
<1> DEFINE p1 == Magic \o first
           p2 == p1 \o second
           p3 == p2 \o regions
           p4 == p3 \o a
<1>9. p1 \in Seq(Byte) /\ Len(p1) = 4 + Len(first)
  <2>1. Magic \in Seq(Byte) /\ Len(Magic) = 4 /\ first \in Seq(Byte)
    BY <1>1
  <2>2. p1 \in Seq(Byte) /\ Len(p1) = Len(Magic) + Len(first)
    BY <2>1, Joined
  <2> QED BY <2>1, <2>2, Zenon
<1>10. p2 \in Seq(Byte) /\ Len(p2) = FirstRegion(m)
  <2> HIDE DEF p1
  <2> QED BY <1>1, <1>3, <1>9, Joined, Zenon
<1>11. p3 \in Seq(Byte) /\ Len(p3) = end
  <2> HIDE DEF p2
  <2> QED BY <1>1, <1>3, <1>10, Joined, Zenon
<1>12. p4 \in Seq(Byte) /\ Len(p4) = end + CrcSize
  <2> HIDE DEF p3
  <2> QED BY <1>1, <1>11, Joined, Zenon
<1>13. BodyOf(m) = p4 \o b /\ \A x \in Nat : 0 + x = x
  BY <1>1
<1>14. end + CrcSize \in Nat /\ FirstRegion(m) \in Nat /\ 4 + Len(first) \in Nat
  BY <1>1, <1>4, <1>5, <1>3
<1>15. Stands(patch, 0, p4) /\ Stands(patch, end + CrcSize, b)
  <2> HIDE DEF p4
  <2>1. Stands(patch, 0, p4 \o b)
    BY <1>8, <1>13
  <2>2. Stands(patch, 0, p4) /\ Stands(patch, 0 + Len(p4), b)
    BY <1>1, <1>6, <1>12, <2>1, StandsInTwo
  <2>3. 0 + Len(p4) = end + CrcSize
    BY <1>12, <1>14
  <2> QED BY <2>2, <2>3
<1>16. Stands(patch, 0, p3) /\ Stands(patch, end, a)
  <2> HIDE DEF p3
  <2>1. Stands(patch, 0, p3) /\ Stands(patch, 0 + Len(p3), a)
    BY <1>1, <1>6, <1>11, <1>15, StandsInTwo
  <2>2. 0 + Len(p3) = end
    BY <1>5, <1>11
  <2> QED BY <2>1, <2>2
<1>17. Stands(patch, 0, p2) /\ Stands(patch, FirstRegion(m), regions)
  <2> HIDE DEF p2
  <2>1. Stands(patch, 0, p2) /\ Stands(patch, 0 + Len(p2), regions)
    BY <1>1, <1>6, <1>10, <1>16, StandsInTwo
  <2>2. 0 + Len(p2) = FirstRegion(m)
    BY <1>10, <1>14
  <2> QED BY <2>1, <2>2
<1>18. Stands(patch, 0, p1) /\ Stands(patch, 4 + Len(first), second)
  <2> HIDE DEF p1
  <2>1. Stands(patch, 0, p1) /\ Stands(patch, 0 + Len(p1), second)
    BY <1>1, <1>6, <1>9, <1>17, StandsInTwo
  <2>2. 0 + Len(p1) = 4 + Len(first)
    BY <1>9, <1>14
  <2> QED BY <2>1, <2>2
<1>19. Stands(patch, 0, Magic) /\ Stands(patch, 4, first)
  <2>1. Stands(patch, 0, Magic) /\ Stands(patch, 0 + Len(Magic), first)
    BY <1>1, <1>6, <1>18, StandsInTwo
  <2> QED BY <1>1, <2>1
<1> HIDE DEF p1, p2, p3, p4
<1>20. CheckedPart = BodyOf(m)
  <2>1. SubSeq(patch, 0 + 1, 0 + Len(BodyOf(m))) = BodyOf(m)
    BY <1>1, <1>6, <1>8, StandsPart
  <2>2. 0 + 1 = 1 /\ 0 + Len(BodyOf(m)) = Len(patch) - CrcSize
    BY <1>1, <1>4, <1>5, <1>6
  <2> QED BY <2>1, <2>2 DEF CheckedPart
<1>21. SubSeq(patch, 1, 4) = Magic
  <2>1. SubSeq(patch, 0 + 1, 0 + Len(Magic)) = Magic
    BY <1>1, <1>6, <1>19, StandsPart
  <2> QED BY <1>1, <2>1
<1>22. SubSeq(patch, BodyEnd + 1, BodyEnd + CrcSize) = a
  <2>1. SubSeq(patch, end + 1, end + Len(a)) = a
    BY <1>1, <1>5, <1>6, <1>16, StandsPart
  <2> QED BY <1>1, <1>7, <2>1
<1>23. SubSeq(patch, BodyEnd + CrcSize + 1, BodyEnd + 2 * CrcSize) = b
  <2>1. SubSeq(patch, end + CrcSize + 1, end + CrcSize + Len(b)) = b
    BY <1>1, <1>6, <1>14, <1>15, StandsPart
  <2>2. end + CrcSize + Len(b) = BodyEnd + 2 * CrcSize /\ end + CrcSize + 1 = BodyEnd + CrcSize + 1
    BY <1>1, <1>4, <1>5, <1>7
  <2> QED BY <2>1, <2>2
<1>24. SubSeq(patch, BodyEnd + 2 * CrcSize + 1, Len(patch)) = c
  <2>1. end + 2 * CrcSize \in Nat
    BY <1>4, <1>5
  <2>2. SubSeq(patch, end + 2 * CrcSize + 1, end + 2 * CrcSize + Len(c)) = c
    BY <1>1, <1>6, <1>8, <2>1, StandsPart
  <2>3. end + 2 * CrcSize + Len(c) = Len(patch) /\ end + 2 * CrcSize + 1 = BodyEnd + 2 * CrcSize + 1
    BY <1>1, <1>4, <1>5, <1>6, <1>7
  <2> QED BY <2>2, <2>3
<1>25. ASSUME NEW k \in 1 .. Len(m.layout)
       PROVE  Stands(patch, BehindRegion(m, k - 1), PiecesOf(m)[k])
  <2>1. PiecesOf(m) \in Seq(Seq(Byte)) /\ Len(PiecesOf(m)) = Len(m.layout)
    BY PiecesTyped
  <2>2. Stands(patch, FirstRegion(m), Laid(PiecesOf(m))[Len(PiecesOf(m))])
    BY <1>17, <2>1 DEF regions
  <2>3. Stands(patch, FirstRegion(m) + Len(Laid(PiecesOf(m))[k - 1]), PiecesOf(m)[k])
    BY <1>6, <1>14, <2>1, <2>2, LaidStands
  <2> QED BY <2>3 DEF BehindRegion
<1> QED BY <1>6, <1>7, <1>18, <1>19, <1>20, <1>21, <1>22, <1>23, <1>24, <1>25
        DEF first, second, a, b, c, end

-----------------------------------------------------------------------------
(***************************************************************************)
(* Reading it back                                                         *)
(***************************************************************************)

\* The load finds the sizes of the two texts, and stands before the regions.
LEMMA LoadReads ==
    ASSUME ChecksumsFit, NEW m \in Made, Alike(m), patch = m.bytes, Load
    PROVE  /\ pc' = "parse" /\ offset' = BehindRegion(m, 0)
           /\ src_size' = Len(m.from) /\ target_size' = Len(m.to)
<1> DEFINE first == Len(Encoded[Len(m.from)])
           second == Len(Encoded[Len(m.to)])
<1>1. /\ patch \in Seq(Byte) /\ Len(patch) >= 4 + Trailer /\ SubSeq(patch, 1, 4) = Magic
      /\ Stands(patch, 4, Encoded[Len(m.from)])
      /\ Stands(patch, 4 + first, Encoded[Len(m.to)])
  BY MadeStands
<1>2. Len(m.from) \in Number /\ Len(m.to) \in Number
  <2>1. Len(m.from) \in 0 .. MaxAlloc /\ Len(m.to) \in 0 .. MaxAlloc
    BY MadeOf
  <2>2. MaxAlloc \in Nat /\ Word \in Nat /\ MaxAlloc < Word
    BY UPSAssumption, VarIntAssumption
  <2> QED BY <2>1, <2>2 DEF Number
<1>3. first \in Nat /\ second \in Nat
  BY <1>2, EncodedTyped DEF Number
<1>4. 4 + first <= Len(patch) /\ 4 + first + second <= Len(patch) /\ Len(patch) \in Nat
  <2>1. 4 + first <= Len(patch)
    BY <1>1, Zenon DEF Stands
  <2>2. 4 + first + second <= Len(patch)
    BY <1>1, Zenon DEF Stands
  <2>3. Len(patch) \in Nat
    BY <1>1
  <2> QED BY <2>1, <2>2, <2>3
<1>5. Decode(patch, 4) = [value |-> Len(m.from), offset |-> 4 + first]
  <2>1. 4 \in 0 .. Len(patch)
    <3> HIDE DEF first, second
    <3> QED BY <1>3, <1>4
  <2> QED BY <1>1, <1>2, <2>1, StandsHolds, DecodeEncoded
<1>6. Decode(patch, 4 + first) = [value |-> Len(m.to), offset |-> 4 + first + second]
  <2>1. 4 + first \in 0 .. Len(patch)
    <3> HIDE DEF first, second
    <3> QED BY <1>3, <1>4
  <2> QED BY <1>1, <1>2, <2>1, StandsHolds, DecodeEncoded
<1>7. ~(Len(patch) < 4 + Trailer)
  BY <1>1, <1>4, UPSAssumption DEF Trailer
<1>8. /\ pc' = "parse"
      /\ LET src == Decode(patch, 4)
             target == Decode(patch, src.offset)
         IN src_size' = src.value /\ target_size' = target.value /\ offset' = target.offset
  BY <1>1, <1>7 DEF Load
<1> HIDE DEF first, second
<1>9. src_size' = Len(m.from) /\ target_size' = Len(m.to) /\ offset' = 4 + first + second
  BY <1>5, <1>6, <1>8
<1>10. BehindRegion(m, 0) = 4 + first + second
  BY BehindTyped DEF FirstRegion, first, second
<1> QED BY <1>8, <1>9, <1>10

\* A block ends before the first zero behind its start.
LEMMA DataOfIs ==
    ASSUME patch \in Seq(Byte), BodyEnd \in Nat, NEW from \in Nat, NEW n \in Nat,
           from + n + 1 <= BodyEnd, patch[from + n + 1] = 0,
           \A i \in 1 .. n : patch[from + i] # 0
    PROVE  DataOf(from) = SubSeq(patch, from + 1, from + n)
<1> DEFINE zeros == {i \in from + 1 .. BodyEnd : patch[i] = 0}
           least == CHOOSE i \in zeros : \A j \in zeros : i <= j
           end == from + n + 1
<1>1. end \in zeros
  BY BodyEnd \in Nat
<1>2. ASSUME NEW i \in zeros PROVE end <= i
  <2>1. SUFFICES ASSUME i < end PROVE FALSE
    OBVIOUS
  <2>2. i \in Nat /\ i >= from + 1 /\ patch[i] = 0
    OBVIOUS
  <2>3. i - from \in 1 .. n /\ from + (i - from) = i
    BY <2>1, <2>2
  <2> QED BY <2>2, <2>3
<1>3. end \in Nat /\ \A i \in zeros : i \in Nat
  OBVIOUS
<1>4. least = end
  <2> HIDE DEF zeros, end
  <2>1. \A i \in zeros : (\A j \in zeros : i <= j) => i = end
    BY <1>1, <1>2, <1>3
  <2> QED BY <1>1, <1>2, <2>1
<1>5. zeros # {}
  BY <1>1
<1>6. DataOf(from) = SubSeq(patch, from + 1, least - 1)
  BY <1>5 DEF DataOf
<1>7. end - 1 = from + n
  OBVIOUS
<1> HIDE DEF least, end
<1> QED BY <1>4, <1>6, <1>7

\* Behind the regions read so far the parser finds the next one.
LEMMA RegionReads ==
    ASSUME ChecksumsFit, NEW m \in Made, Alike(m), patch = m.bytes,
           NEW k \in 1 .. Len(m.layout), offset = BehindRegion(m, k - 1)
    PROVE  LET distance == Decode(patch, offset)
               data == DataOf(distance.offset)
           IN /\ distance.value = Distance(m.layout, m.skip, k)
              /\ data = Changed(DifferenceOf(m), m.layout[k])
              /\ distance.offset + Len(data) < BodyEnd
              /\ distance.offset + Len(data) + 1 = BehindRegion(m, k)
<1> DEFINE number == Encoded[Distance(m.layout, m.skip, k)]
           changed == Changed(DifferenceOf(m), m.layout[k])
           from == offset + Len(number)
           size == Len(changed)
           n == Len(m.layout)
<1>1. /\ patch \in Seq(Byte) /\ BodyEnd = BehindRegion(m, n) /\ Len(patch) = BodyEnd + Trailer
      /\ Stands(patch, offset, PiecesOf(m)[k])
  BY MadeStands
<1>2. /\ PiecesOf(m)[k] = number \o changed \o <<0>>
      /\ number \in Seq(Byte) /\ changed \in Seq(Byte) /\ <<0>> \in Seq(Byte)
      /\ Len(PiecesOf(m)[k]) = Len(number) + size + 1
  BY PiecesTyped
<1>3. k - 1 \in 0 .. n /\ k \in 0 .. n /\ n \in Nat
  BY LayoutIs
<1>4. /\ BehindRegion(m, k - 1) \in Nat /\ BehindRegion(m, k) \in Nat /\ BodyEnd \in Nat
      /\ BehindRegion(m, k) <= BodyEnd
      /\ BehindRegion(m, k) = BehindRegion(m, k - 1) + Len(PiecesOf(m)[k])
  <2>1. n \in 0 .. n
    BY <1>3
  <2> QED BY <1>1, <1>3, <2>1, BehindTyped
<1>5. /\ \A i \in 1 .. size : changed[i] # 0
      /\ size \in Nat /\ Len(number) \in Nat
  <2>1. changed \in Seq(Byte \ {0})
    BY ChangedTyped
  <2> HIDE DEF changed, number
  <2> QED BY <1>2, <2>1
<1> HIDE DEF number, changed, size, n
<1>6. /\ offset \in Nat /\ from \in Nat /\ from + size + 1 = BehindRegion(m, k)
      /\ from + size + 1 <= BodyEnd /\ from + size < BodyEnd
  <2> DEFINE a == Len(number)
             piece == Len(PiecesOf(m)[k])
             here == BehindRegion(m, k - 1)
             behind == BehindRegion(m, k)
  <2>1. /\ offset = here /\ here \in Nat /\ behind \in Nat /\ a \in Nat /\ size \in Nat
        /\ behind = here + piece /\ piece = a + size + 1 /\ behind <= BodyEnd /\ BodyEnd \in Nat
    BY <1>2, <1>4, <1>5
  <2>2. from = offset + a
    OBVIOUS
  <2> HIDE DEF a, piece, here, behind, from
  <2>3. /\ offset \in Nat /\ from \in Nat /\ from + size + 1 = behind
        /\ from + size + 1 <= BodyEnd /\ from + size < BodyEnd
    BY <2>1, <2>2
  <2> QED BY <2>3 DEF behind
<1>7. /\ Stands(patch, offset, number) /\ Stands(patch, from, changed)
      /\ Stands(patch, from + size, <<0>>)
  <2>1. number \o changed \in Seq(Byte) /\ Len(number \o changed) = Len(number) + size
    BY <1>2, Joined DEF size
  <2>2. Stands(patch, offset, (number \o changed) \o <<0>>)
    BY <1>1, <1>2
  <2>3. /\ Stands(patch, offset, number \o changed)
        /\ Stands(patch, offset + Len(number \o changed), <<0>>)
    BY <1>1, <1>2, <1>6, <2>1, <2>2, StandsInTwo
  <2>4. Stands(patch, offset, number) /\ Stands(patch, from, changed)
    BY <1>1, <1>2, <1>6, <2>3, StandsInTwo
  <2>5. offset + (Len(number) + size) = from + size
    BY <1>5, <1>6
  <2> QED BY <2>1, <2>3, <2>4, <2>5
<1>8. Decode(patch, offset) = [value |-> Distance(m.layout, m.skip, k), offset |-> from]
  <2>1. Distance(m.layout, m.skip, k) \in Number
    BY DistanceTyped
  <2>2. Len(patch) >= BodyEnd
    BY <1>1, <1>4, UPSAssumption DEF Trailer
  <2>3. offset \in 0 .. Len(patch)
    <3>1. Len(patch) \in Nat
      BY <1>1
    <3>2. offset <= BodyEnd
      <4>1. offset <= from
        BY <1>5, <1>6
      <4> HIDE DEF from
      <4> QED BY <1>4, <1>5, <1>6, <4>1
    <3> QED BY <1>4, <1>6, <2>2, <3>1, <3>2
  <2>4. Holds(patch, offset, Distance(m.layout, m.skip, k))
    BY <1>7, StandsHolds DEF number
  <2> QED BY <1>1, <2>1, <2>3, <2>4, DecodeEncoded DEF number
<1> HIDE DEF from
<1>9. patch[from + size + 1] = 0 /\ \A i \in 1 .. size : patch[from + i] # 0
  <2>1. \A i \in 1 .. size : patch[from + i] = changed[i]
    BY <1>7 DEF Stands, size
  <2>2. Len(<<0>>) = 1 /\ <<0>>[1] = 0 /\ 1 \in 1 .. 1
    OBVIOUS
  <2>3. patch[from + size + 1] = <<0>>[1]
    BY <1>7, <2>2 DEF Stands
  <2> QED BY <1>5, <2>1, <2>2, <2>3
<1>10. DataOf(from) = SubSeq(patch, from + 1, from + size)
  BY <1>1, <1>4, <1>5, <1>6, <1>9, DataOfIs
<1>11. DataOf(from) = changed
  BY <1>1, <1>2, <1>6, <1>7, <1>10, StandsPart DEF size
<1> QED BY <1>6, <1>8, <1>11 DEF changed, size

-----------------------------------------------------------------------------
(***************************************************************************)
(* Playing it back                                                         *)
(***************************************************************************)

\* Blocks that do not cover a position leave it as it is.
LEMMA PlayedElsewhere ==
    ASSUME NEW bytes \in Seq(Byte), NEW bs \in Seq(Block), NEW i \in 1 .. Len(bytes),
           NEW lo \in 0 .. Len(bs), NEW hi \in lo .. Len(bs),
           \A k \in lo + 1 .. hi : ~Covers(bs[k], i)
    PROVE  PlayedAll(bytes, bs)[hi][i] = PlayedAll(bytes, bs)[lo][i]
<1> DEFINE out == PlayedAll(bytes, bs)
           S == {k \in Nat : lo + k <= hi => out[lo + k][i] = out[lo][i]}
           n == Len(bs)
<1>1. \A k \in 1 .. n : out[k] = Played(out[k - 1], bs[k])
  BY PlayedAllFollow
<1>2. \A k \in 0 .. n : out[k] \in Seq(Byte) /\ Len(out[k]) = Len(bytes)
  BY PlayedAllTyped
<1>3. \A k \in 1 .. n : bs[k] \in Block
  <2> HIDE DEF Block
  <2> QED OBVIOUS
<1>4. n \in Nat /\ lo \in 0 .. n /\ hi \in lo .. n /\ lo \in Nat /\ hi \in Nat
  <2>1. n \in Nat
    OBVIOUS
  <2> HIDE DEF n
  <2>2. lo \in 0 .. n /\ hi \in lo .. n
    BY DEF n
  <2> QED BY <2>1, <2>2
<1> HIDE DEF out, n
<1>5. 0 \in S
  BY <1>4
<1>6. ASSUME NEW k \in Nat, k \in S PROVE k + 1 \in S
  <2> SUFFICES ASSUME lo + (k + 1) <= hi PROVE out[lo + (k + 1)][i] = out[lo][i]
    OBVIOUS
  <2> DEFINE j == lo + (k + 1)
  <2>1. j \in lo + 1 .. hi /\ j \in 1 .. n /\ j - 1 = lo + k /\ j - 1 \in 0 .. n /\ lo + k <= hi
    BY <1>4
  <2>2. out[lo + k][i] = out[lo][i]
    BY <1>6, <2>1
  <2> HIDE DEF j
  <2>3. out[j] = Played(out[j - 1], bs[j]) /\ bs[j] \in Block /\ ~Covers(bs[j], i)
    BY <1>1, <1>3, <2>1
  <2>4. out[j - 1] \in Seq(Byte) /\ Len(out[j - 1]) = Len(bytes)
    BY <1>2, <2>1
  <2>5. Played(out[j - 1], bs[j])[i] = out[j - 1][i]
    BY <2>3, <2>4, PlayedAt
  <2> QED BY <2>1, <2>2, <2>3, <2>5 DEF j
<1>7. \A k \in Nat : k \in S
  <2> HIDE DEF S
  <2> QED BY <1>5, <1>6, Induction
<1>8. \A k \in Nat : lo + k <= hi => out[lo + k][i] = out[lo][i]
  BY <1>7
<1>9. hi - lo \in Nat /\ lo + (hi - lo) = hi
  BY <1>4
<1>10. out[hi][i] = out[lo][i]
  <2>1. lo + (hi - lo) <= hi
    BY <1>4
  <2>2. out[lo + (hi - lo)][i] = out[lo][i]
    BY <1>8, <1>9, <2>1
  <2> QED BY <1>9, <2>2
<1> QED BY <1>10 DEF out

\* The block of a region covers it, with the bytes of the difference.
LEMMA BlockOfIs ==
    ASSUME NEW m \in Made, NEW k \in 1 .. Len(m.layout), NEW i \in Nat
    PROVE  LET r == m.layout[k]
               b == BlockOf(m, k)
           IN /\ Covers(b, i) <=> r.first <= i /\ i <= r.last
              /\ Covers(b, i) => b.data[i - b.offset] = DifferenceOf(m)[i]
<1> DEFINE d == DifferenceOf(m)
           r == m.layout[k]
           b == BlockOf(m, k)
           size == Len(b.data)
<1>1. b.offset = r.first - 1 /\ b.data = Changed(d, r)
  BY DEF BlockOf
<1>2. /\ size = r.last - r.first + 1
      /\ \A j \in 1 .. size : b.data[j] = d[r.first - 1 + j]
  BY <1>1, ChangedTyped
<1>3. r.first \in Nat /\ r.last \in Nat /\ r.first >= 1
  <2>1. Len(d) \in Nat
    BY DifferenceTyped
  <2>2. r.first \in 1 .. Len(d) /\ r.last \in r.first .. Len(d)
    BY LayoutIs
  <2> HIDE DEF d, r
  <2> QED BY <2>1, <2>2
<1>4. Covers(b, i) <=> b.offset < i /\ i <= b.offset + size
  BY DEF Covers
<1> HIDE DEF d, r, b, size
<1>5. Covers(b, i) <=> r.first <= i /\ i <= r.last
  BY <1>1, <1>2, <1>3, <1>4
<1>6. Covers(b, i) => b.data[i - b.offset] = d[i]
  <2> SUFFICES ASSUME Covers(b, i) PROVE b.data[i - b.offset] = d[i]
    OBVIOUS
  <2> DEFINE j == i - b.offset
  <2>1. j \in 1 .. size /\ r.first - 1 + j = i
    BY <1>1, <1>2, <1>3, <1>4, <1>5
  <2> HIDE DEF j
  <2>2. b.data[j] = d[i]
    BY <1>2, <2>1
  <2> QED BY <2>2 DEF j
<1> QED BY <1>5, <1>6 DEF d, r, b

\* The laws of XOR, for the byte of a source, one of a target, and what differs.
LEMMA XorBack ==
    ASSUME NEW x \in Byte, NEW y \in Byte
    PROVE  Xor(x, Xor(x, y)) = y /\ (Xor(x, y) = 0 => x = y)
<1>1. 0 \in Byte /\ Xor(x, y) \in Byte
  BY VarIntAssumption, UPSAssumption DEF Byte
<1>2. \A a, b \in Byte : Xor(a, b) = Xor(b, a) /\ Xor(a, 0) = a /\ Xor(Xor(a, b), b) = a
  BY UPSAssumption
<1>3. Xor(x, Xor(x, y)) = Xor(Xor(y, x), x)
  BY <1>1, <1>2, Zenon
<1>4. Xor(x, Xor(x, y)) = y
  BY <1>2, <1>3, Zenon
<1>5. Xor(x, y) = 0 => Xor(x, 0) = y
  BY <1>4
<1> QED BY <1>2, <1>4, <1>5

\* All the blocks of an encoder's patch turn its source into its target.
LEMMA AnswerIsTarget ==
    ASSUME TypeOK, NEW m \in Made, target_size = Len(m.to), Len(blocks) = Len(m.layout),
           \A k \in 1 .. Len(blocks) : blocks[k] = BlockOf(m, k)
    PROVE  Answer(m.from) = m.to
<1> DEFINE d == DifferenceOf(m)
           n == Larger(Len(m.from), Len(m.to))
           a == Resized(m.from, n)
           b == Resized(m.to, n)
           last == Len(blocks)
           out == PlayedAll(a, blocks)
<1>1. /\ n \in 0 .. MaxAlloc /\ Len(m.from) <= n /\ Len(m.to) <= n
      /\ d \in Seq(Byte) /\ Len(d) = n /\ a \in Seq(Byte) /\ b \in Seq(Byte)
      /\ \A i \in 1 .. n : d[i] = Xor(a[i], b[i])
  BY DifferenceTyped
<1>2. blocks \in Seq(Block) /\ last \in Nat /\ MaxAlloc \in Nat /\ n \in Nat
  <2>1. blocks \in Seq(Block) /\ MaxAlloc \in Nat
    BY UPSAssumption DEF TypeOK
  <2> HIDE DEF n
  <2> QED BY <1>1, <2>1
<1>3. m.from \in Seq(Byte) /\ m.to \in Seq(Byte)
  BY MadeOf
<1>4. Len(a) = n /\ Len(b) = n
  <2> HIDE DEF n
  <2> QED BY <1>2, <1>3, ResizedTyped
<1>5. /\ out[0] = a /\ \A k \in 1 .. last : out[k] = Played(out[k - 1], blocks[k])
      /\ \A k \in 0 .. last : out[k] \in Seq(Byte) /\ Len(out[k]) = n
  <2> HIDE DEF a, n
  <2> QED BY <1>1, <1>2, <1>4, PlayedAllFollow, PlayedAllTyped
<1>6. Grown(m.from) = a
  BY DEF Grown
<1> HIDE DEF n, a, b, d
<1>7. ASSUME NEW k \in 1 .. last, NEW i \in 1 .. n
      PROVE  /\ Covers(blocks[k], i) <=> m.layout[k].first <= i /\ i <= m.layout[k].last
             /\ Covers(blocks[k], i) => blocks[k].data[i - blocks[k].offset] = d[i]
  <2>1. blocks[k] = BlockOf(m, k) /\ k \in 1 .. Len(m.layout) /\ i \in Nat
    OBVIOUS
  <2> QED BY <2>1, BlockOfIs DEF d
<1>8. ASSUME NEW i \in 1 .. n PROVE out[last][i] = b[i]
  <2>1. a[i] \in Byte /\ b[i] \in Byte /\ d[i] = Xor(a[i], b[i])
    BY <1>1, <1>4
  <2>2. 0 \in 0 .. last /\ last \in 0 .. last /\ i \in 1 .. Len(a)
    BY <1>2, <1>4
  <2>3. CASE \E k \in 1 .. last : Covers(blocks[k], i)
    <3>1. PICK k \in 1 .. last : Covers(blocks[k], i)
      BY <2>3
    <3>2. ASSUME NEW j \in 1 .. last, j # k PROVE ~Covers(blocks[j], i)
      <4>1. j \in 1 .. Len(m.layout) /\ k \in 1 .. Len(m.layout)
        OBVIOUS
      <4>2. /\ j < k => m.layout[j].last < m.layout[k].first
            /\ k < j => m.layout[k].last < m.layout[j].first
        BY <4>1, RegionsInOrder
      <4>3. /\ m.layout[k].first <= i /\ i <= m.layout[k].last
            /\ Covers(blocks[j], i) => m.layout[j].first <= i /\ i <= m.layout[j].last
        BY <1>7, <3>1
      <4>4. /\ m.layout[k].first \in Nat /\ m.layout[k].last \in Nat
            /\ m.layout[j].first \in Nat /\ m.layout[j].last \in Nat
        <5>1. \A h \in 1 .. Len(m.layout) :
                 m.layout[h].first \in 1 .. Len(d) /\ m.layout[h].last \in m.layout[h].first .. Len(d)
          BY LayoutIs DEF d
        <5>2. Len(d) \in Nat
          BY <1>1
        <5>3. \A h \in 1 .. Len(m.layout) : m.layout[h].first \in Nat /\ m.layout[h].last \in Nat
          <6> SUFFICES ASSUME NEW h \in 1 .. Len(m.layout)
                       PROVE  m.layout[h].first \in Nat /\ m.layout[h].last \in Nat
            OBVIOUS
          <6>1. /\ m.layout[h].first \in 1 .. Len(d)
                /\ m.layout[h].last \in m.layout[h].first .. Len(d)
            BY <5>1
          <6> QED BY <5>2, <6>1
        <5> QED BY <4>1, <5>3
      <4>5. j < k \/ k < j
        BY <1>2, <3>2
      <4> DEFINE fj == m.layout[j].first
                 lj == m.layout[j].last
                 fk == m.layout[k].first
                 lk == m.layout[k].last
      <4>6. i \in Nat
        OBVIOUS
      <4> HIDE DEF fj, lj, fk, lk
      <4>7. ~(fj <= i /\ i <= lj)
        <5>1. fj \in Nat /\ lj \in Nat /\ fk \in Nat /\ lk \in Nat /\ fk <= i /\ i <= lk
          BY <4>3, <4>4 DEF fj, lj, fk, lk
        <5>2. lj < fk \/ lk < fj
          BY <4>2, <4>5 DEF fj, lj, fk, lk
        <5> QED BY <4>6, <5>1, <5>2
      <4> QED BY <4>3, <4>7 DEF fj, lj
    <3>3. k - 1 \in 0 .. last /\ k \in 0 .. last /\ k \in 0 .. last /\ last \in k .. last /\ k - 1 \in 0 .. k - 1
      BY <1>2
    <3>4. out[k - 1][i] = a[i]
      <4>1. \A j \in 0 + 1 .. k - 1 : ~Covers(blocks[j], i)
        BY <1>2, <3>2
      <4>2. out[k - 1][i] = out[0][i]
        BY <1>1, <1>2, <2>2, <3>3, <4>1, PlayedElsewhere
      <4> QED BY <1>5, <4>2
    <3>5. out[last][i] = out[k][i]
      <4>1. \A j \in k + 1 .. last : ~Covers(blocks[j], i)
        BY <1>2, <3>2
      <4> QED BY <1>1, <1>2, <2>2, <3>3, <4>1, PlayedElsewhere
    <3>6. out[k][i] = Xor(out[k - 1][i], blocks[k].data[i - blocks[k].offset])
      <4>1. out[k - 1] \in Seq(Byte) /\ Len(out[k - 1]) = n /\ out[k] = Played(out[k - 1], blocks[k])
        BY <1>5, <3>3
      <4>2. blocks[k] \in Block
        <5> HIDE DEF Block
        <5> QED BY <1>2
      <4> QED BY <3>1, <4>1, <4>2, PlayedAt
    <3>7. out[last][i] = Xor(a[i], d[i])
      BY <1>7, <3>1, <3>4, <3>5, <3>6
    <3> QED BY <2>1, <3>7, XorBack
  <2>4. CASE ~ \E k \in 1 .. last : Covers(blocks[k], i)
    <3>1. d[i] = 0
      <4>1. SUFFICES ASSUME d[i] # 0 PROVE FALSE
        OBVIOUS
      <4>2. PICK k \in 1 .. Len(m.layout) : m.layout[k].first <= i /\ i <= m.layout[k].last
        BY <1>1, <4>1, LayoutIs DEF d
      <4> QED BY <1>7, <2>4, <4>2
    <3>2. out[last][i] = out[0][i]
      <4>1. \A j \in 0 + 1 .. last : ~Covers(blocks[j], i)
        BY <2>4
      <4> QED BY <1>1, <1>2, <2>2, <4>1, PlayedElsewhere
    <3> QED BY <1>5, <2>1, <3>1, <3>2, XorBack
  <2> QED BY <2>3, <2>4
<1>9. out[last] = b
  <2>1. out[last] \in Seq(Byte) /\ Len(out[last]) = n
    BY <1>2, <1>5
  <2> DEFINE result == out[last]
  <2>2. \A i \in 1 .. n : result[i] = b[i]
    BY <1>8
  <2>3. result \in Seq(Byte) /\ Len(result) = n /\ b \in Seq(Byte) /\ Len(b) = n
    BY <1>1, <1>4, <2>1
  <2> HIDE DEF result
  <2>4. result = [i \in 1 .. n |-> result[i]] /\ b = [i \in 1 .. n |-> b[i]]
    BY <2>3
  <2>5. result = b
    BY <2>2, <2>4
  <2> QED BY <2>5 DEF result
<1>10. Answer(m.from) = Resized(b, Len(m.to))
  BY <1>6, <1>9 DEF Answer
<1>11. Len(m.to) \in 0 .. n
  BY <1>1, <1>2, <1>3
<1>12. Resized(b, Len(m.to)) = Resized(m.to, Len(m.to))
  BY <1>2, <1>3, <1>11, ResizedTwice DEF b
<1> QED BY <1>3, <1>10, <1>12, ResizedSame

-----------------------------------------------------------------------------
(***************************************************************************)
(* What an encoder made is reproduced                                      *)
(***************************************************************************)

\* What was given was given before.
LEMMA GivenBefore ==
    ASSUME IInv, NotApplied, [Next]_vars, NEW m, Given(m)'
    PROVE  Given(m) /\ patch = m.bytes /\ UNCHANGED patch
<1>1. UNCHANGED patch
  BY DEF Next, Load, ParseBlock, ParseTrailer, Validate, Apply, ApplyAgain, StartApply, ApplyBlock,
         Finish, parsed, vars
<1>2. CASE Apply
  <2>1. original' = <<source>> /\ original = <<>>
    BY <1>2 DEF Apply, NotApplied
  <2>2. original' # <<>> /\ original'[1] = source
    BY <2>1
  <2> QED BY <1>1, <2>1, <2>2 DEF Given
<1>3. CASE ApplyAgain
  <2>1. UNCHANGED original /\ Len(original) = 1
    BY <1>3 DEF ApplyAgain, IInv, SecondOfFirst
  <2>2. original # <<>>
    BY <2>1
  <2> QED BY <1>1, <2>1, <2>2 DEF Given
<1>4. CASE UNCHANGED <<source, original>>
  BY <1>1, <1>4 DEF Given
<1>5. Given(m)
  BY <1>2, <1>3, <1>4 DEF Next, Load, ParseBlock, ParseTrailer, Validate, ApplyBlock, Finish,
                          applying, vars
<1> QED BY <1>1, <1>5 DEF Given

\* Nothing was applied before the first call of apply.
LEMMA NotAppliedKeeps ==
    ASSUME NotApplied, [Next]_vars
    PROVE  NotApplied'
BY DEF NotApplied, Next, Load, ParseBlock, ParseTrailer, Validate, Apply, ApplyAgain, StartApply,
       ApplyBlock, Finish, Fail, applying, vars

\* The load.
LEMMA LoadReadsBack ==
    ASSUME IInv, ChecksumsFit, NEW m \in Made, Alike(m), patch = m.bytes, ReadBack(m), Load
    PROVE  ReadBack(m)'
<1>1. /\ pc' = "parse" /\ offset' = BehindRegion(m, 0)
      /\ src_size' = Len(m.from) /\ target_size' = Len(m.to)
  BY LoadReads
<1>2. pc = "load" /\ UNCHANGED <<patch, file_offset, blocks>>
  BY DEF Load
<1>3. blocks = <<>> /\ file_offset = 0 /\ Len(m.layout) \in Nat
  BY <1>2, LayoutIs DEF ReadBack, BlocksRead
<1>4. Len(blocks) = 0
  BY <1>3
<1>5. BlocksRead(m)'
  BY <1>1, <1>2, <1>3, <1>4 DEF BlocksRead
<1> QED BY <1>1, <1>5 DEF ReadBack, SizesRead, TrailerRead

\* A turn of the outer loop reads the next region.
LEMMA BlockReadsBack ==
    ASSUME IInv, ChecksumsFit, NEW m \in Made, Alike(m), patch = m.bytes, ReadBack(m), ParseBlock
    PROVE  ReadBack(m)'
<1> DEFINE n == Len(m.layout)
           k == Len(blocks) + 1
           r == m.layout[k]
           distance == Decode(patch, offset)
           start == (file_offset + distance.value) % Word
           data == DataOf(distance.offset)
           end == distance.offset + Len(data)
<1>1. /\ pc = "parse" /\ offset < BodyEnd
      /\ blocks' = IF data = <<>> THEN blocks ELSE Append(blocks, [offset |-> start, data |-> data])
      /\ file_offset' = (start + Len(data)) % Word
      /\ offset' = IF end < BodyEnd THEN end + 1 ELSE end
      /\ UNCHANGED <<patch, pc, src_size, target_size>>
  BY DEF ParseBlock, PositionAfter, header
<1>2. /\ Len(blocks) <= n /\ \A j \in 1 .. Len(blocks) : blocks[j] = BlockOf(m, j)
      /\ offset = BehindRegion(m, Len(blocks))
      /\ file_offset = IF blocks = <<>> THEN 0 ELSE m.layout[Len(blocks)].last
      /\ src_size = Len(m.from) /\ target_size = Len(m.to)
  BY <1>1 DEF ReadBack, BlocksRead, SizesRead
<1>3. blocks \in Seq(Block) /\ n \in Nat /\ Len(blocks) \in Nat
  BY LayoutIs DEF IInv, TypeOK
<1>4. k \in 1 .. n /\ k - 1 = Len(blocks)
  <2>1. BodyEnd = BehindRegion(m, n) /\ BodyEnd \in Nat
    <3>1. BodyEnd = BehindRegion(m, n)
      BY MadeStands
    <3>2. n \in 0 .. n
      BY <1>3
    <3> QED BY <3>1, <3>2, BehindTyped
  <2>2. Len(blocks) # n
    <3> SUFFICES ASSUME Len(blocks) = n PROVE FALSE
      OBVIOUS
    <3>1. offset = BodyEnd
      BY <1>2, <2>1
    <3> QED BY <1>1, <2>1, <3>1
  <2> QED BY <1>2, <1>3, <2>2
<1>5. /\ distance.value = Distance(m.layout, m.skip, k)
      /\ data = Changed(DifferenceOf(m), r)
      /\ end < BodyEnd /\ end + 1 = BehindRegion(m, k)
  BY <1>2, <1>4, RegionReads
<1>6. data # <<>> /\ Len(data) = r.last - r.first + 1
  BY <1>4, <1>5, ChangedTyped
<1>7. file_offset = IF k = 1 THEN 0 ELSE m.layout[k - 1].last
  <2>1. blocks = <<>> <=> k = 1
    BY <1>3
  <2> QED BY <1>2, <1>4, <2>1
<1>8. /\ file_offset + distance.value = r.first - 1
      /\ r.first - 1 \in Number /\ r.last \in Number
  BY <1>4, <1>5, <1>7, DistanceTyped
<1>9. \A x \in Number : x % Word = x
  BY VarIntAssumption DEF Number
<1>10. start = r.first - 1
  BY <1>8, <1>9
<1>11. file_offset' = r.last
  <2> DEFINE f == r.first
             l == r.last
             size == Len(data)
  <2>1. f - 1 \in Number /\ l \in Number /\ size = l - f + 1 /\ f \in Int
    <3>1. r.first \in Int
      <4>1. Len(DifferenceOf(m)) \in Nat /\ r.first \in 1 .. Len(DifferenceOf(m))
        BY <1>4, DifferenceTyped, LayoutIs
      <4> QED BY <4>1
    <3> QED BY <1>6, <1>8, <3>1
  <2>2. file_offset' = (f - 1 + size) % Word
    BY <1>1, <1>10
  <2> HIDE DEF f, l, size
  <2>3. f - 1 + size = l
    BY <2>1 DEF Number
  <2>4. file_offset' = l
    BY <1>9, <2>1, <2>2, <2>3
  <2> QED BY <2>4 DEF l
<1>12. blocks' = Append(blocks, BlockOf(m, k))
  BY <1>1, <1>5, <1>6, <1>10 DEF BlockOf
<1>13. offset' = BehindRegion(m, k)
  BY <1>1, <1>5
<1> HIDE DEF distance, start, data, end, r
<1>14. /\ Len(blocks') = k /\ \A j \in 1 .. k : blocks'[j] = BlockOf(m, j)
       /\ blocks' # <<>>
  <2> DEFINE size == Len(blocks)
             new == BlockOf(m, k)
  <2>1. \A j \in 1 .. size : Append(blocks, new)[j] = blocks[j]
    BY <1>3
  <2>2. Len(Append(blocks, new)) = size + 1 /\ Append(blocks, new)[size + 1] = new
    BY <1>3
  <2> HIDE DEF new
  <2>3. Len(blocks') = k /\ blocks' # <<>>
    BY <1>3, <1>12, <2>2 DEF new
  <2>4. ASSUME NEW j \in 1 .. k PROVE blocks'[j] = BlockOf(m, j)
    <3>1. CASE j = k
      BY <1>12, <2>2, <3>1 DEF new
    <3>2. CASE j # k
      <4>1. j \in 1 .. size
        BY <1>3, <3>2
      <4> QED BY <1>2, <1>12, <2>1, <4>1 DEF new
    <3> QED BY <3>1, <3>2
  <2> QED BY <2>3, <2>4
<1> HIDE DEF k, n
<1>15. BlocksRead(m)'
  <2>1. k <= n
    BY <1>3, <1>4
  <2> QED BY <1>1, <1>11, <1>13, <1>14, <2>1 DEF BlocksRead, n, r
<1> QED BY <1>1, <1>2, <1>15 DEF ReadBack, SizesRead, TrailerRead

\* Behind the regions stand the checksums.
LEMMA TrailerReadsBack ==
    ASSUME IInv, ChecksumsFit, NEW m \in Made, Alike(m), patch = m.bytes, ReadBack(m), ParseTrailer
    PROVE  ReadBack(m)'
<1> DEFINE n == Len(m.layout)
<1>1. /\ pc = "parse" /\ offset >= BodyEnd /\ pc' = "loaded"
      /\ src_crc' = SubSeq(patch, BodyEnd + 1, BodyEnd + CrcSize)
      /\ target_crc' = SubSeq(patch, BodyEnd + CrcSize + 1, BodyEnd + 2 * CrcSize)
      /\ patch_crc' = SubSeq(patch, BodyEnd + 2 * CrcSize + 1, Len(patch))
      /\ UNCHANGED <<patch, blocks, src_size, target_size>>
  BY DEF ParseTrailer, header
<1>2. /\ Len(blocks) <= n /\ \A j \in 1 .. Len(blocks) : blocks[j] = BlockOf(m, j)
      /\ offset = BehindRegion(m, Len(blocks))
      /\ src_size = Len(m.from) /\ target_size = Len(m.to)
  BY <1>1 DEF ReadBack, BlocksRead, SizesRead
<1>3. blocks \in Seq(Block) /\ n \in Nat /\ Len(blocks) \in Nat
  BY LayoutIs DEF IInv, TypeOK
<1>4. Len(blocks) = n
  <2> SUFFICES ASSUME Len(blocks) # n PROVE FALSE
    OBVIOUS
  <2> DEFINE k == Len(blocks) + 1
  <2>1. k \in 1 .. n /\ k - 1 = Len(blocks) /\ k - 1 \in 0 .. n /\ k \in 0 .. n
    BY <1>2, <1>3
  <2>2. BodyEnd = BehindRegion(m, n)
    BY MadeStands
  <2>3. /\ BehindRegion(m, k) = BehindRegion(m, k - 1) + Len(PiecesOf(m)[k])
        /\ BehindRegion(m, k) <= BodyEnd
        /\ BehindRegion(m, k - 1) \in Nat /\ BehindRegion(m, k) \in Nat
    BY <2>1, <2>2, BehindTyped
  <2>4. Len(PiecesOf(m)[k]) >= 1 /\ Len(PiecesOf(m)[k]) \in Nat
    <3> DEFINE a == Encoded[Distance(m.layout, m.skip, k)]
               b == Changed(DifferenceOf(m), m.layout[k])
    <3>1. a \in Seq(Byte) /\ b \in Seq(Byte) /\ Len(PiecesOf(m)[k]) = Len(a) + Len(b) + 1
      BY <2>1, PiecesTyped
    <3> HIDE DEF a, b
    <3>2. Len(a) \in Nat /\ Len(b) \in Nat
      BY <3>1
    <3> QED BY <3>1, <3>2
  <2>5. offset = BehindRegion(m, k - 1) /\ BodyEnd \in Int
    BY <1>2, <2>1, IInv, Sizes DEF IInv
  <2> QED BY <1>1, <2>3, <2>4, <2>5
<1>5. /\ CheckedPart = BodyOf(m)
      /\ src_crc' = Crc(m.from) /\ target_crc' = Crc(m.to) /\ patch_crc' = Crc(BodyOf(m))
  BY <1>1, MadeStands
<1>6. CheckedPart' = CheckedPart
  BY <1>1 DEF CheckedPart
<1>7. TrailerRead(m)'
  BY <1>1, <1>4, <1>5, <1>6 DEF TrailerRead
<1>8. BlocksRead(m)'
  BY <1>1, <1>2 DEF BlocksRead
<1> QED BY <1>1, <1>2, <1>7, <1>8 DEF ReadBack, SizesRead

\* Where nothing that was read changes and the load is over, it stays read back.
LEMMA ReadBackStays ==
    ASSUME NEW m \in Made, ReadBack(m), UNCHANGED parsed,
           pc \notin {"load", "parse"}, pc' \in {"valid", "apply", "done"},
           pc' \in {"apply", "done"} /\ verify' => source' = m.from
    PROVE  ReadBack(m)'
<1>1. UNCHANGED <<patch, blocks, src_size, target_size, src_crc, target_crc, patch_crc>>
  BY DEF parsed, header, checksums
<1>2. CheckedPart' = CheckedPart
  BY <1>1 DEF CheckedPart
<1>3. SizesRead(m)'
  BY <1>1 DEF ReadBack, SizesRead
<1>4. BlocksRead(m)'
  BY <1>1 DEF ReadBack, BlocksRead
<1>5. TrailerRead(m)'
  BY <1>1, <1>2 DEF ReadBack, TrailerRead
<1> QED BY <1>3, <1>4, <1>5 DEF ReadBack

\* The patch is the one its checksum was made for.
LEMMA ValidateReadsBack ==
    ASSUME NEW m \in Made, ReadBack(m), Validate
    PROVE  ReadBack(m)'
<1>1. pc = "loaded" /\ patch_crc = Crc(CheckedPart) /\ UNCHANGED parsed
  BY DEF Validate, ReadBack, TrailerRead
<1>2. pc' = "valid"
  BY <1>1 DEF Validate
<1> QED BY <1>1, <1>2, ReadBackStays

\* An application is to the source the patch was made from, or without checksums
\* to what it was made for; both can be allocated.
LEMMA StartReadsBack ==
    ASSUME IInv, NotApplied, NEW m \in Made, Given(m), ReadBack(m), Apply \/ ApplyAgain
    PROVE  ReadBack(m)'
<1>1. PICK bytes \in {source, output}, v \in BOOLEAN :
        /\ StartApply(bytes, v)
        /\ \/ pc \in {"loaded", "valid"} /\ bytes = source
           \/ pc = "done" /\ bytes = output /\ v = FALSE
  BY DEF Apply, ApplyAgain
<1>2. /\ src_size = Len(m.from) /\ target_size = Len(m.to) /\ src_crc = Crc(m.from)
      /\ pc \notin {"load", "parse"}
  BY <1>1 DEF ReadBack, SizesRead, TrailerRead
<1>3. /\ Len(m.from) \in 0 .. MaxAlloc /\ Len(m.to) \in 0 .. MaxAlloc /\ MaxAlloc \in Nat
  BY MadeOf, UPSAssumption
<1>4. v => bytes = m.from
  <2>1. pc \in {"loaded", "valid"} => source = m.from
    BY DEF NotApplied, Given
  <2> QED BY <1>1, <2>1
<1>5. Len(bytes) \in 0 .. MaxAlloc
  <2>1. CASE pc \in {"loaded", "valid"} /\ bytes = source
    BY <1>3, <2>1 DEF NotApplied, Given
  <2>2. CASE pc = "done" /\ bytes = output
    BY <1>2, <1>3, <2>2 DEF IInv, OutputChecked
  <2> QED BY <1>1, <2>1, <2>2
<1>6. ~(Larger(Len(bytes), target_size) > MaxAlloc)
  <2> DEFINE size == Len(bytes)
             other == Len(m.to)
  <2>1. target_size = other /\ size \in 0 .. MaxAlloc /\ other \in 0 .. MaxAlloc
    BY <1>2, <1>3, <1>5
  <2> HIDE DEF size, other
  <2>2. Larger(size, target_size) <= MaxAlloc /\ Larger(size, target_size) \in Nat
    BY <1>3, <2>1 DEF Larger
  <2>3. ~(Larger(size, target_size) > MaxAlloc)
    BY <1>3, <2>2
  <2> QED BY <2>3 DEF size
<1>7. pc' = "apply" /\ verify' = v /\ source' = bytes /\ UNCHANGED parsed
  BY <1>1, <1>2, <1>4, <1>6 DEF StartApply
<1> QED BY <1>2, <1>4, <1>7, ReadBackStays

\* What is verified at the end is what the patch was made for.
LEMMA FinishReadsBack ==
    ASSUME IInv, NEW m \in Made, ReadBack(m), Finish
    PROVE  ReadBack(m)'
<1>1. pc = "apply" /\ next > Len(blocks) /\ UNCHANGED <<parsed, source, verify>>
  BY DEF Finish
<1>2. /\ target_size = Len(m.to) /\ Len(blocks) = Len(m.layout) /\ target_crc = Crc(m.to)
      /\ \A k \in 1 .. Len(blocks) : blocks[k] = BlockOf(m, k)
      /\ verify => source = m.from
  BY <1>1 DEF ReadBack, SizesRead, BlocksRead, TrailerRead
<1>3. output = PlayedAll(Grown(source), blocks)[Len(blocks)]
  <2>1. next \in 1 .. Len(blocks) + 1 /\ Len(blocks) \in Nat
    BY DEF IInv, TypeOK
  <2>2. next - 1 = Len(blocks)
    BY <1>1, <2>1
  <2> QED BY <1>1, <2>2 DEF IInv, BlocksPlayed
<1>4. ASSUME verify PROVE Accepted(output)
  <2>1. Resized(output, target_size) = Answer(m.from)
    BY <1>2, <1>3, <1>4 DEF Answer
  <2>2. Answer(m.from) = m.to
    BY <1>2, AnswerIsTarget DEF IInv
  <2> QED BY <1>2, <2>1, <2>2 DEF Accepted
<1>5. pc' = "done"
  BY <1>4 DEF Finish
<1> QED BY <1>1, <1>2, <1>5, ReadBackStays

LEMMA EncoderKeeps ==
    ASSUME ChecksumsFit, IInv, EncoderInv, [Next]_vars
    PROVE  EncoderInv'
<1>1. NotApplied /\ NotApplied'
  BY NotAppliedKeeps DEF EncoderInv
<1>2. ASSUME NEW m \in Made, Alike(m), Given(m)' PROVE ReadBack(m)'
  <2>1. Given(m) /\ patch = m.bytes
    BY <1>1, <1>2, GivenBefore
  <2>2. ReadBack(m)
    BY <1>2, <2>1 DEF EncoderInv
  <2>3. CASE ApplyBlock
    <3>1. pc = "apply" /\ UNCHANGED <<parsed, pc, source, verify>>
      BY <2>3 DEF ApplyBlock
    <3>2. verify => source = m.from
      BY <2>2, <3>1 DEF ReadBack
    <3> QED BY <2>2, <3>1, <3>2, ReadBackStays
  <2>4. CASE UNCHANGED vars
    BY <2>2, <2>4 DEF vars, ReadBack, SizesRead, BlocksRead, TrailerRead, CheckedPart
  <2> QED BY <1>1, <1>2, <2>1, <2>2, <2>3, <2>4, LoadReadsBack, BlockReadsBack, TrailerReadsBack,
             ValidateReadsBack, StartReadsBack, FinishReadsBack DEF Next
<1> QED BY <1>1, <1>2 DEF EncoderInv

\* Nothing was read at the start.
LEMMA EncoderInit == Init => EncoderInv
<1> SUFFICES ASSUME Init PROVE EncoderInv
  OBVIOUS
<1>1. pc = "load" /\ blocks = <<>> /\ original = <<>> /\ file_offset = 0
  BY DEF Init
<1>2. Len(blocks) = 0
  BY <1>1
<1>3. ASSUME NEW m \in Made PROVE ReadBack(m)
  <2>1. Len(m.layout) \in Nat
    BY LayoutIs
  <2>2. Len(blocks) <= Len(m.layout)
    BY <1>2, <2>1
  <2>3. BlocksRead(m)
    BY <1>1, <1>2, <2>2 DEF BlocksRead
  <2> QED BY <1>1, <2>3 DEF ReadBack, SizesRead, TrailerRead
<1> QED BY <1>1, <1>3 DEF EncoderInv, NotApplied

\* A UPS patch with one region of changes, made by an encoder from any source for
\* any target, loads, is valid, and turns its source into its target; so does one
\* with any number of regions, if distances are counted from the last byte changed
\* (ups.cc:56-75, 134-171, 193-210).
THEOREM EncodedReproduced ==
    ASSUME ChecksumsFit
    PROVE  Spec => []OneRegionReproduced
<1>1. Init => IInv /\ EncoderInv
  BY InitHolds, EncoderInit
<1>2. IInv /\ EncoderInv /\ [Next]_vars => IInv' /\ EncoderInv'
  BY StepHolds, EncoderKeeps
<1>3. IInv /\ EncoderInv => OneRegionReproduced
  <2> SUFFICES ASSUME IInv, EncoderInv, NEW m \in Made, Alike(m), Given(m)
               PROVE  /\ pc \notin {"failed", "thrown"}
                      /\ pc = "done" /\ source = m.from => output = m.to
    BY DEF OneRegionReproduced, Reproduces
  <2>1. ReadBack(m)
    BY DEF EncoderInv
  <2>2. ASSUME pc = "done", source = m.from PROVE output = m.to
    <3>1. /\ target_size = Len(m.to) /\ Len(blocks) = Len(m.layout)
          /\ \A k \in 1 .. Len(blocks) : blocks[k] = BlockOf(m, k)
      BY <2>1, <2>2 DEF ReadBack, SizesRead, BlocksRead, TrailerRead
    <3>2. output = Answer(m.from)
      BY <2>2 DEF IInv, BlocksPlayed
    <3> QED BY <3>1, <3>2, AnswerIsTarget DEF IInv
  <2> QED BY <2>1, <2>2 DEF ReadBack
<1> QED BY <1>1, <1>2, <1>3, PTL DEF Spec
=============================================================================
