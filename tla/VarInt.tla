------------------------------- MODULE VarInt -------------------------------
(***************************************************************************)
(* The variable-length numbers of UPS and BPS (decode_variable_len in      *)
(* src/formats/ups.cc, decode_bps_num in src/formats/bps.cc, the same code *)
(* twice).  A byte below Half carries a digit and says that another        *)
(* follows; the last byte carries its digit plus Half.  Every continuation *)
(* also adds the weight of the next digit, so that no number has two       *)
(* encodings.  In the code Half is 128, and Word, where std::uint64_t      *)
(* wraps, is 2^64.                                                         *)
(***************************************************************************)
EXTENDS Integers, Sequences

CONSTANTS Half, Word

ASSUME VarIntAssumption ==
    /\ Half \in Nat \ {0, 1}
    /\ Word \in Nat \ {0, 1}

Byte == 0 .. 2 * Half - 1
Number == 0 .. Word - 1

-----------------------------------------------------------------------------
(***************************************************************************)
(* A mistake the code could contain, a variant of an operator below.       *)
(***************************************************************************)

\* A continuation does not add the weight of the next digit.
DigitWithoutBias(acc, b) ==
    [value |-> (acc.value + (b % Half) * acc.shift) % Word,
     shift |-> IF b >= Half THEN acc.shift ELSE (acc.shift * Half) % Word]

-----------------------------------------------------------------------------
\* One turn of the loop: acc is the value so far and the weight of the byte b.
Digit(acc, b) ==
    LET sum == acc.value + (b % Half) * acc.shift
        shift == (acc.shift * Half) % Word
    IN IF b >= Half
         THEN [value |-> sum % Word, shift |-> acc.shift]
         ELSE [value |-> (sum + shift) % Word, shift |-> shift]

\* The offset behind the number: its first byte with the stop bit, or the end.
LastByte(data, offset) ==
    LET stops == {i \in offset + 1 .. Len(data) : data[i] >= Half}
    IN IF stops = {} THEN Len(data) ELSE CHOOSE i \in stops : \A j \in stops : i <= j

\* The value and the weight after each of the first n turns of the loop.
Turns(data, offset, n) ==
    LET acc[i \in 0 .. n] ==
          IF i = 0 THEN [value |-> 0, shift |-> 1]
                   ELSE Digit(acc[i - 1], data[offset + i])
    IN acc

\* The number that starts at an offset of data, and the offset behind it.
Decode(data, offset) ==
    LET last == LastByte(data, offset)
    IN [value |-> Turns(data, offset, last - offset)[last - offset].value,
        offset |-> last]

-----------------------------------------------------------------------------
\* What an encoder of the two formats writes for a number.
Encoded[n \in Nat] ==
    IF n < Half THEN <<n + Half>> ELSE <<n % Half>> \o Encoded[n \div Half - 1]

\* What lies before and with each of the pieces that are written one behind the
\* other.
Laid(pieces) ==
    LET laid[k \in 0 .. Len(pieces)] ==
          IF k = 0 THEN <<>> ELSE laid[k - 1] \o pieces[k]
    IN laid
=============================================================================
