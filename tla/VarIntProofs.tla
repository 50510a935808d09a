---------------------------- MODULE VarIntProofs ----------------------------
(***************************************************************************)
(* What Decode reads, for any bytes, any digit and any word.               *)
(* It reads back what an encoder wrote.                                    *)
(*                                                                         *)
(* The number is computed by a function that recurses over the turns of    *)
(* the loop.  What holds of all its values is proved from a least turn at  *)
(* which it would not, which LeastElement says there is.                   *)
(***************************************************************************)
EXTENDS VarInt, WellFoundedInduction, TLAPS

-----------------------------------------------------------------------------
(***************************************************************************)
(* Numbers                                                                 *)
(***************************************************************************)

\* A set of numbers that has a member has a least one.
LEMMA LeastElement ==
    ASSUME NEW T \in SUBSET Nat, T # {}
    PROVE  \E m \in T : \A k \in T : m <= k
<1>1. IsWellFoundedOn(OpToRel(<, Nat), Nat)
  BY NatLessThanWellFounded
<1>2. PICK m \in T : \A k \in T : <<k, m>> \notin OpToRel(<, Nat)
  BY <1>1, WFMin
<1>3. \A k \in T : ~(k < m)
  BY <1>2 DEF OpToRel
<1> QED BY <1>3

\* Induction, over a set in the place of a predicate.
LEMMA Induction ==
    ASSUME NEW S, 0 \in S, \A k \in Nat : k \in S => k + 1 \in S
    PROVE  \A k \in Nat : k \in S
<1> SUFFICES ASSUME Nat \ S # {} PROVE FALSE
  OBVIOUS
<1>1. PICK m \in Nat \ S : \A k \in Nat \ S : m <= k
  <2>1. Nat \ S \in SUBSET Nat
    OBVIOUS
  <2> QED BY <2>1, LeastElement
<1>2. m - 1 \in Nat /\ m - 1 \in S
  BY <1>1
<1>3. m - 1 + 1 = m
  BY <1>1
<1> QED BY <1>1, <1>2, <1>3

\* A remainder is a number below what is divided by.
LEMMA Remainder ==
    ASSUME NEW x \in Int, NEW p \in Nat \ {0}
    PROVE  /\ x \div p \in Int /\ x % p \in 0 .. p - 1
           /\ x = p * (x \div p) + (x % p)
OBVIOUS

-----------------------------------------------------------------------------
(***************************************************************************)
(* The end of a number                                                     *)
(***************************************************************************)

\* A number ends inside the data; unless the data ended before, it has a byte.
LEMMA LastByteInside ==
    ASSUME NEW data \in Seq(Byte), NEW offset \in 0 .. Len(data)
    PROVE  /\ LastByte(data, offset) \in offset .. Len(data)
           /\ offset < Len(data) => LastByte(data, offset) > offset
<1> DEFINE stops == {i \in offset + 1 .. Len(data) : data[i] >= Half}
<1>1. CASE stops = {}
  <2>1. LastByte(data, offset) = Len(data)
    BY <1>1 DEF LastByte
  <2> QED BY <2>1
<1>2. CASE stops # {}
  <2>1. stops \in SUBSET Nat
    OBVIOUS
  <2>2. \E m \in stops : \A k \in stops : m <= k
    BY <1>2, <2>1, LeastElement
  <2>3. LastByte(data, offset) = CHOOSE m \in stops : \A k \in stops : m <= k
    BY <1>2 DEF LastByte
  <2>4. LastByte(data, offset) \in stops
    BY <2>2, <2>3
  <2> QED BY <2>4
<1> QED BY <1>1, <1>2

-----------------------------------------------------------------------------
(***************************************************************************)
(* The turns of the loop                                                   *)
(***************************************************************************)

State == [value : Number, shift : Number]

\* A turn leads from a value and a weight to such.
LEMMA DigitTyped ==
    ASSUME NEW acc \in State, NEW b \in Byte
    PROVE  Digit(acc, b) \in State
<1> USE VarIntAssumption
<1>1. /\ acc.value \in Number /\ acc.shift \in Number
      /\ b \in Nat /\ b % Half \in Nat
  BY DEF State, Byte
<1>2. \A x, y \in Nat : x * y \in Nat
  OBVIOUS
<1>3. \A x \in Nat : x % Word \in Number
  BY DEF Number
<1>4. acc.value \in Nat /\ acc.shift \in Nat /\ (b % Half) * acc.shift \in Nat /\ acc.shift * Half \in Nat
  BY <1>1, <1>2 DEF Number
<1>5. acc.value + (b % Half) * acc.shift \in Nat
  BY <1>4
<1>6. (acc.shift * Half) % Word \in Number /\ (acc.shift * Half) % Word \in Nat
  BY <1>3, <1>4 DEF Number
<1>7. (acc.value + (b % Half) * acc.shift) % Word \in Number
  BY <1>3, <1>5
<1>8. (acc.value + (b % Half) * acc.shift + ((acc.shift * Half) % Word)) % Word \in Number
  BY <1>3, <1>5, <1>6
<1> DEFINE sum == acc.value + (b % Half) * acc.shift
           shift == (acc.shift * Half) % Word
<1>9. Digit(acc, b) = IF b >= Half THEN [value |-> sum % Word, shift |-> acc.shift]
                                   ELSE [value |-> (sum + shift) % Word, shift |-> shift]
  BY DEF Digit
<1>10. sum % Word \in Number /\ shift \in Number /\ (sum + shift) % Word \in Number
  BY <1>6, <1>7, <1>8
<1> HIDE DEF sum, shift
<1> QED BY <1>1, <1>9, <1>10 DEF State

\* The equation of Turns: it starts at nothing, and each turn follows from the
\* turn before.
LEMMA TurnsFollow ==
    ASSUME NEW data \in Seq(Byte), NEW offset \in Nat, NEW n \in Nat
    PROVE  /\ DOMAIN Turns(data, offset, n) = 0 .. n
           /\ Turns(data, offset, n)[0] = [value |-> 0, shift |-> 1]
           /\ \A i \in 1 .. n :
                 Turns(data, offset, n)[i] = Digit(Turns(data, offset, n)[i - 1], data[offset + i])
<1> DEFINE Zero == [value |-> 0, shift |-> 1]
           Follows(f, m) == /\ f = [i \in 0 .. m |-> f[i]] /\ f[0] = Zero
                            /\ \A i \in 1 .. m : f[i] = Digit(f[i - 1], data[offset + i])
           Bad == {m \in Nat : ~ \E f : Follows(f, m)}
<1> HIDE DEF Zero
<1>1. Bad = {}
  <2>1. SUFFICES ASSUME NEW m \in Bad, \A k \in Bad : m <= k PROVE FALSE
    BY LeastElement
  <2>2. m # 0
    <3>1. Follows([i \in 0 .. 0 |-> Zero], 0)
      OBVIOUS
    <3> QED BY <2>1, <3>1
  <2>3. m - 1 \in Nat /\ m - 1 \notin Bad
    BY <2>1, <2>2
  <2>4. PICK f : Follows(f, m - 1)
    BY <2>3
  <2> DEFINE g == [i \in 0 .. m |-> IF i = m THEN Digit(f[m - 1], data[offset + m]) ELSE f[i]]
  <2>5. Follows(g, m)
    <3>1. g = [i \in 0 .. m |-> g[i]] /\ g[0] = Zero
      BY <2>3, <2>4
    <3>2. ASSUME NEW i \in 1 .. m PROVE g[i] = Digit(g[i - 1], data[offset + i])
      <4>1. i \in 0 .. m /\ i - 1 \in 0 .. m /\ i - 1 # m
        BY <2>3
      <4>2. g[i - 1] = f[i - 1]
        BY <4>1
      <4>3. CASE i = m
        BY <4>1, <4>2, <4>3
      <4>4. CASE i # m
        <5>1. g[i] = f[i] /\ i \in 1 .. m - 1
          BY <2>3, <4>1, <4>4
        <5> QED BY <2>4, <4>2, <5>1
      <4> QED BY <4>3, <4>4
    <3> QED BY <3>1, <3>2
  <2> QED BY <2>1, <2>5
<1>2. PICK f : Follows(f, n)
  BY <1>1
<1>3. f = [i \in 0 .. n |-> IF i = 0 THEN Zero ELSE Digit(f[i - 1], data[offset + i])]
  <2>1. ASSUME NEW i \in 0 .. n
        PROVE  f[i] = IF i = 0 THEN Zero ELSE Digit(f[i - 1], data[offset + i])
    <3>1. CASE i = 0
      BY <1>2, <3>1
    <3>2. CASE i # 0
      <4>1. i \in 1 .. n
        BY <3>2
      <4> QED BY <1>2, <3>2, <4>1
    <3> QED BY <3>1, <3>2
  <2>2. f = [i \in 0 .. n |-> f[i]]
    BY <1>2
  <2> QED BY <2>1, <2>2
<1> DEFINE t == Turns(data, offset, n)
<1>4. t = [i \in 0 .. n |-> IF i = 0 THEN Zero ELSE Digit(t[i - 1], data[offset + i])]
  BY <1>3 DEF Turns, Zero
<1> HIDE DEF t
<1>5. DOMAIN t = 0 .. n /\ t[0] = Zero /\ \A i \in 1 .. n : t[i] = Digit(t[i - 1], data[offset + i])
  BY <1>4
<1> QED BY <1>5 DEF t, Zero

\* Over bytes, every turn has a value and a weight.
LEMMA TurnsTyped ==
    ASSUME NEW data \in Seq(Byte), NEW offset \in Nat, NEW n \in Nat, offset + n <= Len(data)
    PROVE  \A i \in 0 .. n : Turns(data, offset, n)[i] \in State
<1> DEFINE t == Turns(data, offset, n)
           Bad == {i \in 0 .. n : t[i] \notin State}
<1>1. /\ t[0] = [value |-> 0, shift |-> 1]
      /\ \A i \in 1 .. n : t[i] = Digit(t[i - 1], data[offset + i])
  BY TurnsFollow
<1> HIDE DEF t
<1>2. SUFFICES ASSUME NEW m \in Bad, \A k \in Bad : m <= k PROVE FALSE
  <2>1. Bad \in SUBSET Nat
    OBVIOUS
  <2>2. Bad = {} => \A i \in 0 .. n : t[i] \in State
    OBVIOUS
  <2> QED BY <1>2, <2>1, <2>2, LeastElement DEF t
<1>3. t[0] \in State
  BY <1>1, VarIntAssumption DEF State, Number
<1>4. m \in 1 .. n /\ t[m - 1] \in State
  BY <1>2, <1>3
<1>5. data[offset + m] \in Byte
  BY <1>4
<1> QED BY <1>1, <1>2, <1>4, <1>5, DigitTyped

-----------------------------------------------------------------------------
\* Decode answers a number of the word's width and an offset inside the data,
\* behind the one it was given unless that was the end: neither loop over the
\* patch can read past it or stand still (ups.cc:14-27, bps.cc:14-27).
THEOREM DecodeInside ==
    ASSUME NEW data \in Seq(Byte), NEW offset \in 0 .. Len(data)
    PROVE  /\ Decode(data, offset).value \in Number
           /\ Decode(data, offset).offset \in offset .. Len(data)
           /\ offset < Len(data) => Decode(data, offset).offset > offset
<1> DEFINE last == LastByte(data, offset)
<1>1. last \in offset .. Len(data) /\ (offset < Len(data) => last > offset)
  BY LastByteInside
<1>2. Decode(data, offset).offset = last
  BY DEF Decode
<1>3. Decode(data, offset).value = Turns(data, offset, last - offset)[last - offset].value
  BY DEF Decode
<1> HIDE DEF last
<1>4. last - offset \in Nat /\ offset \in Nat /\ offset + (last - offset) <= Len(data)
  BY <1>1
<1>5. Turns(data, offset, last - offset)[last - offset] \in State
  BY <1>4, TurnsTyped
<1> QED BY <1>1, <1>2, <1>3, <1>5 DEF State

-----------------------------------------------------------------------------
(***************************************************************************)
(* What an encoder writes                                                  *)
(***************************************************************************)

\* What is left of a number behind its first digit is smaller.
LEMMA RestSmaller ==
    ASSUME NEW n \in Nat
    PROVE  /\ n % Half \in 0 .. Half - 1
           /\ n >= Half => (n \div Half) - 1 \in 0 .. n - 1
<1>1. Half \in Nat /\ Half >= 2
  BY VarIntAssumption
<1> DEFINE q == n \div Half
           r == n % Half
<1>2. q \in Int /\ r \in 0 .. Half - 1 /\ n = Half * q + r
  BY <1>1, Remainder
<1> HIDE DEF q, r
<1>3. ASSUME NEW x \in Int, x <= 0 PROVE Half * x <= 0
  BY <1>1, <1>3
<1>4. ASSUME NEW x \in Int, x >= 0 PROVE Half * x >= x
  BY <1>1, <1>4
<1>5. ASSUME n >= Half PROVE q - 1 \in 0 .. n - 1
  <2>1. q >= 1
    BY <1>1, <1>2, <1>3, <1>5
  <2>2. q <= n
    BY <1>1, <1>2, <1>4, <2>1
  <2> QED BY <1>2, <2>1, <2>2
<1> QED BY <1>2, <1>5 DEF q, r

\* The equation of Encoded.
LEMMA EncodedEquation ==
    \A n \in Nat : Encoded[n] = IF n < Half THEN <<n + Half>>
                                ELSE <<n % Half>> \o Encoded[(n \div Half) - 1]
<1> DEFINE Step(f, n) == IF n < Half THEN <<n + Half>> ELSE <<n % Half>> \o f[(n \div Half) - 1]
           Follows(f, m) == f = [n \in 0 .. m |-> f[n]] /\ \A n \in 0 .. m : f[n] = Step(f, n)
           Bad == {m \in Nat : ~ \E f : Follows(f, m)}
<1>1. ASSUME NEW n \in Nat, NEW f, NEW g, \A k \in 0 .. n - 1 : f[k] = g[k]
      PROVE  Step(f, n) = Step(g, n)
  <2>1. CASE n < Half
    BY <2>1
  <2>2. CASE ~(n < Half)
    <3>1. n >= Half
      BY <2>2, VarIntAssumption
    <3>2. f[(n \div Half) - 1] = g[(n \div Half) - 1]
      BY <1>1, <3>1, RestSmaller
    <3> QED BY <2>2, <3>2
  <2> QED BY <2>1, <2>2
<1> HIDE DEF Step
<1>2. ASSUME NEW m \in Nat, NEW k \in Nat, NEW f, NEW g, Follows(f, m), Follows(g, k)
      PROVE  \A n \in Nat : n <= m /\ n <= k => f[n] = g[n]
  <2> DEFINE Unlike == {n \in Nat : n <= m /\ n <= k /\ f[n] # g[n]}
  <2>1. SUFFICES ASSUME NEW n \in Unlike, \A i \in Unlike : n <= i PROVE FALSE
    <3>1. Unlike \in SUBSET Nat
      OBVIOUS
    <3> QED BY <2>1, <3>1, LeastElement
  <2>2. \A i \in 0 .. n - 1 : f[i] = g[i]
    BY <2>1
  <2>3. Step(f, n) = Step(g, n)
    BY <1>1, <2>1, <2>2
  <2>4. n \in 0 .. m /\ n \in 0 .. k
    BY <2>1
  <2> QED BY <1>2, <2>1, <2>3, <2>4
<1>3. Bad = {}
  <2>1. SUFFICES ASSUME NEW m \in Bad, \A k \in Bad : m <= k PROVE FALSE
    BY LeastElement
  <2>2. \E f : \A n \in 0 .. m - 1 : f[n] = Step(f, n)
    <3>1. CASE m = 0
      BY <3>1
    <3>2. CASE m # 0
      <4>1. m - 1 \in Nat /\ m - 1 \notin Bad
        BY <2>1, <3>2
      <4> QED BY <4>1
    <3> QED BY <3>1, <3>2
  <2>3. PICK f : \A n \in 0 .. m - 1 : f[n] = Step(f, n)
    BY <2>2
  <2> DEFINE g == [n \in 0 .. m |-> IF n = m THEN Step(f, m) ELSE f[n]]
  <2>4. ASSUME NEW n \in 0 .. m PROVE g[n] = Step(g, n)
    <3>1. \A k \in 0 .. n - 1 : f[k] = g[k]
      OBVIOUS
    <3>2. Step(f, n) = Step(g, n)
      BY <1>1, <3>1
    <3>3. CASE n = m
      BY <3>2, <3>3
    <3>4. CASE n # m
      <4>1. n \in 0 .. m - 1
        BY <3>4
      <4> QED BY <2>3, <3>2, <3>4, <4>1
    <3> QED BY <3>3, <3>4
  <2>5. g = [n \in 0 .. m |-> g[n]]
    OBVIOUS
  <2>6. Follows(g, m)
    BY <2>4, <2>5
  <2> QED BY <2>1, <2>6
<1> DEFINE Part(m) == CHOOSE f : Follows(f, m)
           whole == [n \in Nat |-> Part(n)[n]]
<1>4. \A m \in Nat : Follows(Part(m), m)
  BY <1>3
<1>5. ASSUME NEW n \in Nat PROVE whole[n] = Step(whole, n)
  <2>1. Part(n)[n] = Step(Part(n), n)
    BY <1>4
  <2>2. ASSUME NEW k \in 0 .. n - 1 PROVE Part(n)[k] = whole[k]
    <3>1. whole[k] = Part(k)[k] /\ k \in Nat /\ k <= n
      OBVIOUS
    <3>2. Follows(Part(n), n) /\ Follows(Part(k), k)
      BY <1>4, <3>1
    <3> HIDE DEF Follows, Part, whole
    <3>3. Part(n)[k] = Part(k)[k]
      BY <1>2, <3>1, <3>2
    <3> QED BY <3>1, <3>3
  <2>3. Step(Part(n), n) = Step(whole, n)
    BY <1>1, <2>2
  <2>4. whole[n] = Part(n)[n]
    OBVIOUS
  <2> QED BY <2>1, <2>3, <2>4
<1>6. whole = [n \in Nat |-> Step(whole, n)]
  <2>1. whole = [n \in Nat |-> whole[n]]
    OBVIOUS
  <2> HIDE DEF whole
  <2> QED BY <1>5, <2>1
<1> HIDE DEF whole
<1>7. Encoded = [n \in Nat |-> Step(Encoded, n)]
  BY <1>6 DEF Encoded, Step
<1> QED BY <1>7 DEF Step

\* The bytes of a number are at least one, and only the last has the stop bit.
LEMMA EncodedTyped ==
    ASSUME NEW n \in Nat
    PROVE  /\ Encoded[n] \in Seq(Byte) /\ Len(Encoded[n]) \in Nat \ {0}
           /\ Encoded[n][Len(Encoded[n])] >= Half
           /\ \A i \in 1 .. Len(Encoded[n]) - 1 : Encoded[n][i] < Half
<1> DEFINE Good(e) == /\ e \in Seq(Byte) /\ Len(e) \in Nat \ {0}
                      /\ e[Len(e)] >= Half
                      /\ \A i \in 1 .. Len(e) - 1 : e[i] < Half
           Bad == {k \in Nat : ~Good(Encoded[k])}
<1>1. Half \in Nat /\ Half >= 2
  BY VarIntAssumption
<1>2. SUFFICES ASSUME NEW k \in Bad, \A i \in Bad : k <= i PROVE FALSE
  <2>1. Bad \in SUBSET Nat
    OBVIOUS
  <2> QED BY <1>2, <2>1, LeastElement
<1> DEFINE d == k % Half
           r == (k \div Half) - 1
<1>3. k \in Nat /\ ~Good(Encoded[k])
  BY <1>2
<1>4. Encoded[k] = IF k < Half THEN <<k + Half>> ELSE <<d>> \o Encoded[r]
  BY <1>3, EncodedEquation
<1>5. d \in 0 .. Half - 1 /\ (k >= Half => r \in 0 .. k - 1)
  BY <1>3, RestSmaller
<1> HIDE DEF d, r
<1>6. CASE k < Half
  <2>1. Encoded[k] = <<k + Half>> /\ k + Half \in Byte
    BY <1>1, <1>6, <1>3, <1>4 DEF Byte
  <2>2. Good(<<k + Half>>)
    BY <1>1, <2>1
  <2> QED BY <1>2, <2>1, <2>2
<1>7. CASE k >= Half
  <2>1. Encoded[k] = <<d>> \o Encoded[r]
    BY <1>1, <1>7, <1>3, <1>4
  <2>2. d \in 0 .. Half - 1 /\ r \in 0 .. k - 1
    BY <1>7, <1>5
  <2>3. Good(Encoded[r])
    BY <1>2, <2>2
  <2> DEFINE e == Encoded[r]
             whole == <<d>> \o e
  <2>4. d \in Byte /\ e \in Seq(Byte) /\ Len(e) \in Nat \ {0}
    BY <1>1, <2>2, <2>3 DEF Byte
  <2>5. /\ whole \in Seq(Byte) /\ Len(whole) = Len(e) + 1
        /\ whole[1] = d /\ \A i \in 1 .. Len(e) : whole[i + 1] = e[i]
    BY <2>4
  <2>6. whole[Len(whole)] >= Half
    BY <2>3, <2>4, <2>5
  <2>7. ASSUME NEW i \in 1 .. Len(whole) - 1 PROVE whole[i] < Half
    <3>1. CASE i = 1
      BY <1>1, <2>2, <2>5, <3>1
    <3>2. CASE i # 1
      <4>1. i - 1 \in 1 .. Len(e) - 1 /\ i - 1 + 1 = i
        BY <2>4, <2>5, <3>2
      <4>2. whole[i] = e[i - 1] /\ e[i - 1] < Half
        BY <2>3, <2>4, <2>5, <4>1
      <4> QED BY <4>2
    <3> QED BY <3>1, <3>2
  <2>8. Good(whole)
    BY <2>4, <2>5, <2>6, <2>7
  <2> QED BY <1>2, <2>1, <2>8
<1> QED BY <1>1, <1>3, <1>6, <1>7

Congruent(x, y) == \E c \in Int : x = y + Word * c

\* A turn adds a digit with its weight, and the weight of the next: what is left
\* of the number stands for as much with the new weight as it did before.
LEMMA TurnKeepsSum ==
    ASSUME NEW acc \in State, NEW n \in Nat
    PROVE  /\ n < Half => Congruent(Digit(acc, n + Half).value, acc.value + acc.shift * n)
           /\ n >= Half =>
                LET after == Digit(acc, n % Half)
                IN Congruent(after.value + after.shift * ((n \div Half) - 1),
                             acc.value + acc.shift * n)
<1> DEFINE v == acc.value
           s == acc.shift
<1>1. v \in Nat /\ s \in Nat /\ Half \in Nat /\ Half >= 2 /\ Word \in Nat \ {0}
  BY VarIntAssumption DEF State, Number
<1> HIDE DEF v, s
<1>2. \A x, y \in Nat : x * y \in Nat
  OBVIOUS
<1>3. \A x \in Nat : \E c \in Int : x % Word = x + Word * c
  <2>1. SUFFICES ASSUME NEW x \in Nat PROVE \E c \in Int : x % Word = x + Word * c
    OBVIOUS
  <2> DEFINE q == x \div Word
             r == x % Word
  <2>2. q \in Int /\ r \in Int /\ x = Word * q + r
    BY <1>1, Remainder
  <2> HIDE DEF q, r
  <2>3. r = x + Word * (0 - q)
    BY <1>1, <2>2
  <2> QED BY <2>2, <2>3 DEF r
<1>4. ASSUME n < Half
      PROVE  Congruent(Digit(acc, n + Half).value, v + s * n)
  <2>1. (n + Half) % Half = n
    <3>1. (n + Half) = Half * 1 + n /\ n \in 0 .. Half - 1
      BY <1>1, <1>4
    <3> QED BY <1>1, <3>1
  <2>2. Digit(acc, n + Half).value = (v + (n * s)) % Word
    BY <1>1, <2>1 DEF Digit, v, s
  <2>3. v + (n * s) \in Nat /\ n * s = s * n
    BY <1>1, <1>2
  <2> QED BY <1>3, <2>2, <2>3 DEF Congruent
<1>5. ASSUME n >= Half
      PROVE  Congruent(Digit(acc, n % Half).value + Digit(acc, n % Half).shift * ((n \div Half) - 1),
                       v + s * n)
  <2> DEFINE d == n % Half
             q == n \div Half
             shift == (s * Half) % Word
             value == (v + (d * s) + shift) % Word
  <2>1. q \in Int /\ d \in 0 .. Half - 1 /\ n = Half * q + d
    BY <1>1, Remainder
  <2>2. d % Half = d /\ ~(d >= Half)
    BY <1>1, <2>1
  <2>3. Digit(acc, d) = [value |-> value, shift |-> shift]
    BY <2>2 DEF Digit, v, s
  <2>4. s * Half \in Nat /\ d * s \in Nat
    BY <1>1, <1>2, <2>1
  <2>5. PICK a \in Int : shift = s * Half + Word * a
    BY <1>3, <2>4
  <2>6. shift \in Nat
    BY <1>1, <2>4
  <2>7. v + (d * s) + shift \in Nat
    BY <1>1, <2>4, <2>6
  <2>8. PICK b \in Int : value = v + (d * s) + shift + Word * b
    BY <1>3, <2>7
  <2> HIDE DEF d, q, shift, value
  <2>9. value + shift * (q - 1) = v + (d * s) + Word * b + shift * q
    BY <1>1, <2>1, <2>6, <2>8
  <2>10. shift * q = s * Half * q + Word * (a * q)
    BY <1>1, <2>1, <2>5
  <2>11. s * n = s * Half * q + d * s
    BY <1>1, <2>1
  <2>12. a * q \in Int /\ Word * (a * q) + Word * b = Word * (a * q + b)
    BY <1>1, <2>1
  <2>13. value + shift * (q - 1) = v + s * n + Word * (a * q + b)
    BY <1>1, <2>1, <2>6, <2>9, <2>10, <2>11, <2>12
  <2>14. a * q + b \in Int
    BY <2>12
  <2>15. Congruent(value + shift * (q - 1), v + s * n)
    BY <2>13, <2>14 DEF Congruent
  <2>16. Digit(acc, d).value = value /\ Digit(acc, d).shift = shift
    BY <2>3
  <2> QED BY <2>15, <2>16 DEF d, q
<1> QED BY <1>4, <1>5 DEF v, s

\* The bytes of data behind an offset are those of a number.
Holds(data, offset, n) ==
    /\ offset + Len(Encoded[n]) <= Len(data)
    /\ \A i \in 1 .. Len(Encoded[n]) : data[offset + i] = Encoded[n][i]

\* The turns over the bytes of a number add the number, with the weight the
\* first of them has.
LEMMA TurnsAdd ==
    ASSUME NEW data \in Seq(Byte), NEW offset \in Nat, NEW turns \in Nat, offset + turns <= Len(data),
           NEW n \in Nat, NEW j \in 0 .. turns, j + Len(Encoded[n]) <= turns,
           Holds(data, offset + j, n)
    PROVE  LET t == Turns(data, offset, turns)
           IN Congruent(t[j + Len(Encoded[n])].value, t[j].value + t[j].shift * n)
<1> DEFINE t == Turns(data, offset, turns)
           Adds(k, i) == Congruent(t[i + Len(Encoded[k])].value, t[i].value + t[i].shift * k)
           Fits(k, i) == i + Len(Encoded[k]) <= turns /\ Holds(data, offset + i, k)
           Bad == {k \in Nat : ~ \A i \in 0 .. turns : Fits(k, i) => Adds(k, i)}
<1>1. Half \in Nat /\ Half >= 2 /\ Word \in Nat \ {0}
  BY VarIntAssumption
<1>2. \A i \in 0 .. turns : t[i] \in State
  BY TurnsTyped
<1>3. \A i \in 1 .. turns : t[i] = Digit(t[i - 1], data[offset + i])
  BY TurnsFollow
<1> HIDE DEF t
<1>4. Bad = {}
  <2>1. SUFFICES ASSUME NEW k \in Bad, \A m \in Bad : k <= m PROVE FALSE
    <3>1. Bad \in SUBSET Nat
      OBVIOUS
    <3> QED BY <2>1, <3>1, LeastElement
  <2>2. k \in Nat
    BY <2>1
  <2>3. PICK i \in 0 .. turns : Fits(k, i) /\ ~Adds(k, i)
    BY <2>1
  <2> DEFINE e == Encoded[k]
             d == k % Half
             r == (k \div Half) - 1
  <2>4. /\ Len(e) \in Nat \ {0} /\ i + Len(e) <= turns
        /\ data[offset + i + 1] = e[1]
    <3>1. Len(e) \in Nat \ {0}
      BY <2>2, EncodedTyped
    <3> QED BY <2>3, <3>1 DEF Holds
  <2>5. i + 1 \in 1 .. turns /\ i + 1 - 1 = i /\ offset + (i + 1) = offset + i + 1
    BY <2>4
  <2>6. t[i + 1] = Digit(t[i], e[1])
    BY <1>3, <2>4, <2>5
  <2>7. t[i] \in State
    BY <1>2
  <2>8. CASE k < Half
    <3>1. e = <<k + Half>>
      BY <2>2, <2>8, EncodedEquation
    <3>2. e[1] = k + Half /\ Len(e) = 1
      BY <3>1
    <3>3. Congruent(t[i + 1].value, t[i].value + t[i].shift * k)
      BY <2>2, <2>6, <2>7, <2>8, <3>2, TurnKeepsSum
    <3> QED BY <2>3, <3>2, <3>3
  <2>9. CASE ~(k < Half)
    <3>1. k >= Half
      BY <1>1, <2>2, <2>9
    <3>2. r \in 0 .. k - 1 /\ r \in Nat
      BY <2>2, <3>1, RestSmaller
    <3>3. e = <<d>> \o Encoded[r]
      BY <2>2, <2>9, EncodedEquation
    <3>4. Encoded[r] \in Seq(Byte) /\ Len(Encoded[r]) \in Nat \ {0}
      BY <3>2, EncodedTyped
    <3> HIDE DEF Bad, r, d
    <3>5. /\ Len(e) = Len(Encoded[r]) + 1 /\ e[1] = d
          /\ \A m \in 1 .. Len(Encoded[r]) : e[m + 1] = Encoded[r][m]
      BY <3>3, <3>4
    <3>6. Congruent(t[i + 1].value + t[i + 1].shift * r, t[i].value + t[i].shift * k)
      <4>1. e[1] = k % Half
        BY <3>5 DEF d
      <4>2. Congruent(Digit(t[i], k % Half).value + Digit(t[i], k % Half).shift * ((k \div Half) - 1),
                      t[i].value + t[i].shift * k)
        BY <2>2, <2>7, <3>1, TurnKeepsSum
      <4> QED BY <2>6, <4>1, <4>2 DEF r
    <3>7. /\ i + 1 + Len(Encoded[r]) = i + Len(e) /\ i + 1 + Len(Encoded[r]) <= turns
          /\ offset + (i + 1) + Len(Encoded[r]) <= Len(data)
      <4> DEFINE p == Len(e)
                 q == Len(Encoded[r])
      <4>1. p = q + 1 /\ q \in Nat /\ i \in Nat /\ i + p <= turns
        BY <2>4, <3>4, <3>5
      <4>2. offset + turns <= Len(data) /\ Len(data) \in Nat
        OBVIOUS
      <4> HIDE DEF p, q
      <4>3. i + 1 + q = i + p /\ i + 1 + q <= turns /\ offset + (i + 1) + q <= Len(data)
        BY <4>1, <4>2
      <4> QED BY <4>3 DEF p, q
    <3>8. Fits(r, i + 1)
      <4>1. i + 1 + Len(Encoded[r]) <= turns
        BY <3>7
      <4>2. ASSUME NEW m \in 1 .. Len(Encoded[r]) PROVE data[offset + (i + 1) + m] = Encoded[r][m]
        <5>1. m + 1 \in 1 .. Len(e) /\ offset + (i + 1) + m = offset + i + (m + 1)
          BY <3>4, <3>5
        <5>2. data[offset + i + (m + 1)] = e[m + 1]
          BY <2>3, <5>1 DEF Holds
        <5> QED BY <3>5, <5>1, <5>2
      <4>3. offset + (i + 1) + Len(Encoded[r]) <= Len(data)
        BY <3>7
      <4> QED BY <4>1, <4>2, <4>3 DEF Holds
    <3>9. Adds(r, i + 1)
      <4>1. r \notin Bad
        BY <2>1, <2>2, <3>2
      <4>2. \A m \in 0 .. turns : Fits(r, m) => Adds(r, m)
        BY <3>2, <4>1 DEF Bad
      <4>3. i + 1 \in 0 .. turns
        BY <2>5
      <4> QED BY <3>8, <4>2, <4>3
    <3> DEFINE x == t[i + Len(e)].value
               y == t[i + 1].value + t[i + 1].shift * r
               z == t[i].value + t[i].shift * k
    <3>10. Congruent(x, y) /\ Congruent(y, z)
      BY <3>6, <3>9, <3>7
    <3>11. z \in Int
      <4>1. t[i].value \in Nat /\ t[i].shift \in Nat
        BY <2>7, <1>1 DEF State, Number
      <4> QED BY <2>2, <4>1
    <3> HIDE DEF x, y, z
    <3>12. PICK a \in Int, b \in Int : x = y + Word * a /\ y = z + Word * b
      BY <3>10 DEF Congruent
    <3>13. x = z + Word * (a + b) /\ a + b \in Int
      BY <1>1, <3>11, <3>12
    <3>14. Congruent(x, z)
      BY <3>13 DEF Congruent
    <3> QED BY <2>3, <3>14 DEF x, z
  <2> QED BY <2>8, <2>9
<1>5. Fits(n, j)
  OBVIOUS
<1>6. Adds(n, j)
  BY <1>4, <1>5
<1> QED BY <1>6 DEF t

\* A number ends with its first byte that has the stop bit.
LEMMA NumberEnds ==
    ASSUME NEW data \in Seq(Byte), NEW offset \in 0 .. Len(data), NEW n \in Nat, Holds(data, offset, n)
    PROVE  LastByte(data, offset) = offset + Len(Encoded[n])
<1> DEFINE e == Encoded[n]
           end == offset + Len(e)
           stops == {i \in offset + 1 .. Len(data) : data[i] >= Half}
<1>1. /\ Len(e) \in Nat \ {0} /\ e[Len(e)] >= Half
      /\ \A i \in 1 .. Len(e) - 1 : e[i] < Half
  BY EncodedTyped
<1>2. end \in offset + 1 .. Len(data) /\ data[end] = e[Len(e)]
  <2>1. end <= Len(data) /\ \A i \in 1 .. Len(e) : data[offset + i] = e[i]
    BY DEF Holds
  <2> DEFINE size == Len(e)
  <2>2. size \in Nat \ {0} /\ end = offset + size
    BY <1>1
  <2> HIDE DEF size, end
  <2>3. size \in 1 .. size /\ end \in offset + 1 .. Len(data)
    BY <2>1, <2>2
  <2>4. data[end] = e[size]
    BY <2>1, <2>2, <2>3 DEF size
  <2> QED BY <2>3, <2>4 DEF size
<1>3. end \in stops
  BY <1>1, <1>2
<1>4. ASSUME NEW i \in stops PROVE end <= i
  <2>1. SUFFICES ASSUME i < end PROVE FALSE
    BY <1>2
  <2>2. i - offset \in 1 .. Len(e) - 1 /\ offset + (i - offset) = i
    BY <1>1, <1>2, <2>1
  <2>3. data[i] = e[i - offset] /\ e[i - offset] < Half
    BY <1>1, <2>2 DEF Holds
  <2>4. data[i] >= Half /\ data[i] \in Int /\ Half \in Int
    BY VarIntAssumption DEF Byte
  <2> QED BY <2>3, <2>4
<1>5. \A i \in stops : (\A j \in stops : i <= j) => i = end
  BY <1>2, <1>3, <1>4
<1>6. LastByte(data, offset) = CHOOSE i \in stops : \A j \in stops : i <= j
  BY <1>3 DEF LastByte
<1> HIDE DEF end, stops
<1>7. (CHOOSE i \in stops : \A j \in stops : i <= j) = end
  BY <1>3, <1>4, <1>5
<1> QED BY <1>6, <1>7 DEF end

-----------------------------------------------------------------------------
\* What an encoder wrote for a number of the word's width is read back as that
\* number, and nothing behind it: also where the weights wrap, and wherever in
\* the data it stands (ups.cc:14-27, bps.cc:14-27).
THEOREM DecodeEncoded ==
    ASSUME NEW data \in Seq(Byte), NEW offset \in 0 .. Len(data), NEW n \in Number,
           Holds(data, offset, n)
    PROVE  Decode(data, offset) = [value |-> n, offset |-> offset + Len(Encoded[n])]
<1> DEFINE size == Len(Encoded[n])
           t == Turns(data, offset, size)
<1>1. n \in Nat /\ Word \in Nat \ {0, 1} /\ offset \in Nat
  BY VarIntAssumption DEF Number
<1>2. size \in Nat \ {0} /\ offset + size <= Len(data)
  BY <1>1, EncodedTyped DEF Holds
<1>3. LastByte(data, offset) = offset + size
  BY <1>1, NumberEnds
<1>4. offset + size - offset = size /\ offset + 0 = offset
  BY <1>1, <1>2
<1>5. Decode(data, offset) = [value |-> t[size].value, offset |-> offset + size]
  BY <1>3, <1>4 DEF Decode
<1>6. t[0] = [value |-> 0, shift |-> 1] /\ t[size] \in State
  <2> HIDE DEF size
  <2>1. size \in Nat /\ size \in 0 .. size
    BY <1>2
  <2>2. Turns(data, offset, size)[0] = [value |-> 0, shift |-> 1]
    BY <1>1, <2>1, TurnsFollow
  <2>3. Turns(data, offset, size)[size] \in State
    BY <1>1, <1>2, <2>1, TurnsTyped
  <2> QED BY <2>2, <2>3
<1>7. Congruent(t[size].value, t[0].value + t[0].shift * n)
  <2>1. 0 \in 0 .. size /\ 0 + size <= size /\ 0 + size = size
    BY <1>2
  <2> QED BY <1>1, <1>2, <1>4, <2>1, TurnsAdd
<1> HIDE DEF t
<1>8. PICK c \in Int : t[size].value = n + Word * c
  BY <1>1, <1>6, <1>7 DEF Congruent
<1>9. t[size].value \in 0 .. Word - 1 /\ n \in 0 .. Word - 1
  BY <1>6 DEF State, Number
<1>10. c = 0
  <2>1. ASSUME c >= 1 PROVE FALSE
    <3>1. Word * c >= Word
      BY <1>1, <2>1
    <3> QED BY <1>1, <1>8, <1>9, <3>1
  <2>2. ASSUME c <= 0 - 1 PROVE FALSE
    <3>1. Word * c <= 0 - Word
      BY <1>1, <2>2
    <3> QED BY <1>1, <1>8, <1>9, <3>1
  <2> QED BY <2>1, <2>2
<1>11. t[size].value = n
  BY <1>1, <1>8, <1>10
<1> QED BY <1>5, <1>11

-----------------------------------------------------------------------------
(***************************************************************************)
(* Where the pieces an encoder wrote stand in its patch                    *)
(***************************************************************************)

\* The bytes of data behind an offset are these.
Stands(data, offset, bytes) ==
    /\ offset + Len(bytes) <= Len(data)
    /\ \A i \in 1 .. Len(bytes) : data[offset + i] = bytes[i]

\* The bytes of a number are bytes that stand.
LEMMA StandsHolds ==
    ASSUME NEW data, NEW offset, NEW n, Stands(data, offset, Encoded[n])
    PROVE  Holds(data, offset, n)
BY DEF Stands, Holds

\* Two strings of bytes one behind the other are a string of bytes, as long as both.
LEMMA Joined ==
    ASSUME NEW a \in Seq(Byte), NEW b \in Seq(Byte)
    PROVE  a \o b \in Seq(Byte) /\ Len(a \o b) = Len(a) + Len(b)
OBVIOUS

\* What stands in two parts, of which the one is behind the other.
LEMMA StandsInTwo ==
    ASSUME NEW data \in Seq(Byte), NEW offset \in Nat, NEW a \in Seq(Byte), NEW b \in Seq(Byte),
           Stands(data, offset, a \o b)
    PROVE  Stands(data, offset, a) /\ Stands(data, offset + Len(a), b)
<1> DEFINE m == Len(a)
           n == Len(b)
           both == a \o b
<1>1. m \in Nat /\ n \in Nat /\ Len(data) \in Nat
  OBVIOUS
<1>2. /\ Len(both) = m + n
      /\ \A i \in 1 .. m : both[i] = a[i]
      /\ \A i \in 1 .. n : both[m + i] = b[i]
  OBVIOUS
<1>3. offset + (m + n) <= Len(data) /\ \A i \in 1 .. m + n : data[offset + i] = both[i]
  BY <1>2 DEF Stands
<1> HIDE DEF m, n, both
<1>4. offset + m <= Len(data) /\ offset + m + n <= Len(data)
  BY <1>1, <1>3
<1>5. \A i \in 1 .. m : data[offset + i] = a[i]
  BY <1>1, <1>2, <1>3
<1>6. ASSUME NEW i \in 1 .. n PROVE data[offset + m + i] = b[i]
  <2>1. m + i \in 1 .. m + n /\ offset + (m + i) = offset + m + i
    BY <1>1
  <2> QED BY <1>2, <1>3, <2>1
<1> QED BY <1>4, <1>5, <1>6 DEF Stands, m, n

\* A whole string stands in itself.
LEMMA StandsWhole ==
    ASSUME NEW data \in Seq(Byte)
    PROVE  Stands(data, 0, data)
<1>1. 0 + Len(data) <= Len(data) /\ \A i \in 1 .. Len(data) : data[0 + i] = data[i]
  OBVIOUS
<1> QED BY <1>1 DEF Stands

\* What stands is the part of the data it stands in.
LEMMA StandsPart ==
    ASSUME NEW data \in Seq(Byte), NEW offset \in Nat, NEW bytes \in Seq(Byte),
           Stands(data, offset, bytes)
    PROVE  SubSeq(data, offset + 1, offset + Len(bytes)) = bytes
<1> DEFINE n == Len(bytes)
           part == SubSeq(data, offset + 1, offset + n)
<1>1. n \in Nat /\ offset + n <= Len(data) /\ \A i \in 1 .. n : data[offset + i] = bytes[i]
  BY DEF Stands
<1>2. bytes = [i \in 1 .. n |-> bytes[i]]
  OBVIOUS
<1> HIDE DEF n
<1>3. part = [i \in 1 .. n |-> data[offset + i]]
  BY <1>1
<1> HIDE DEF part
<1>4. part = bytes
  BY <1>1, <1>2, <1>3
<1> QED BY <1>4 DEF part, n

\* The equation of Laid: each piece is written behind those before it.
LEMMA LaidFollow ==
    ASSUME NEW pieces \in Seq(Seq(Byte))
    PROVE  /\ Laid(pieces)[0] = <<>>
           /\ \A k \in 1 .. Len(pieces) : Laid(pieces)[k] = Laid(pieces)[k - 1] \o pieces[k]
<1> DEFINE Nothing == <<>>
           With(laid, k) == laid \o pieces[k]
           Follows(f, m) == /\ f = [k \in 0 .. m |-> f[k]] /\ f[0] = Nothing
                            /\ \A k \in 1 .. m : f[k] = With(f[k - 1], k)
           S == {m \in Nat : \E f : Follows(f, m)}
<1> HIDE DEF Nothing, With
<1>1. 0 \in S
  <2>1. Follows([k \in 0 .. 0 |-> Nothing], 0)
    OBVIOUS
  <2> QED BY <2>1
<1>2. ASSUME NEW m \in Nat, m \in S PROVE m + 1 \in S
  <2>1. PICK f : Follows(f, m)
    BY <1>2
  <2> DEFINE g == [k \in 0 .. m + 1 |-> IF k = m + 1 THEN With(f[m], m + 1) ELSE f[k]]
  <2>2. g = [k \in 0 .. m + 1 |-> g[k]] /\ g[0] = Nothing
    BY <2>1
  <2>3. ASSUME NEW k \in 1 .. m + 1 PROVE g[k] = With(g[k - 1], k)
    <3>1. k \in 0 .. m + 1 /\ k - 1 \in 0 .. m + 1 /\ k - 1 # m + 1
      OBVIOUS
    <3>2. g[k - 1] = f[k - 1]
      BY <3>1
    <3>3. CASE k = m + 1
      <4>1. g[k] = With(f[m], m + 1) /\ k - 1 = m
        BY <3>1, <3>3
      <4> QED BY <3>2, <3>3, <4>1
    <3>4. CASE k # m + 1
      <4>1. g[k] = f[k] /\ k \in 1 .. m
        BY <3>1, <3>4
      <4> QED BY <2>1, <3>2, <4>1
    <3> QED BY <3>3, <3>4
  <2>4. Follows(g, m + 1)
    BY <2>2, <2>3
  <2> HIDE DEF g, Follows
  <2>5. m + 1 \in Nat /\ \E h : Follows(h, m + 1)
    BY <2>4
  <2> QED BY <2>5
<1>3. \A m \in Nat : m \in S
  <2> HIDE DEF S
  <2> QED BY <1>1, <1>2, Induction
<1>4. Len(pieces) \in Nat
  OBVIOUS
<1>5. PICK f : Follows(f, Len(pieces))
  BY <1>3, <1>4
<1>6. f = [k \in 0 .. Len(pieces) |-> IF k = 0 THEN Nothing ELSE With(f[k - 1], k)]
  <2>1. ASSUME NEW k \in 0 .. Len(pieces)
        PROVE  f[k] = IF k = 0 THEN Nothing ELSE With(f[k - 1], k)
    <3>1. CASE k = 0
      BY <1>5, <3>1
    <3>2. CASE k # 0
      <4>1. k \in 1 .. Len(pieces)
        BY <3>2
      <4> QED BY <1>5, <3>2, <4>1
    <3> QED BY <3>1, <3>2
  <2>2. f = [k \in 0 .. Len(pieces) |-> f[k]]
    BY <1>5
  <2> QED BY <2>1, <2>2
<1> DEFINE laid == Laid(pieces)
<1>7. laid = [k \in 0 .. Len(pieces) |-> IF k = 0 THEN Nothing ELSE With(laid[k - 1], k)]
  BY <1>6 DEF Laid, Nothing, With
<1> HIDE DEF laid
<1>8. laid[0] = Nothing /\ \A k \in 1 .. Len(pieces) : laid[k] = With(laid[k - 1], k)
  <2> DEFINE n == Len(pieces)
             Value(k) == IF k = 0 THEN Nothing ELSE With(laid[k - 1], k)
  <2>1. \A k \in 0 .. n : laid[k] = Value(k)
    <3> HIDE DEF n, Value
    <3>1. laid = [k \in 0 .. n |-> Value(k)]
      BY <1>7 DEF n, Value
    <3> QED BY <3>1
  <2>2. 0 \in 0 .. n /\ \A k \in 1 .. n : k \in 0 .. n /\ k # 0
    BY <1>4
  <2>3. Value(0) = Nothing /\ \A k \in 1 .. n : Value(k) = With(laid[k - 1], k)
    BY <2>2
  <2> HIDE DEF Value
  <2> QED BY <2>1, <2>2, <2>3
<1> QED BY <1>8 DEF laid, Nothing, With

\* What is laid is bytes, and a piece makes it longer by itself.
LEMMA LaidTyped ==
    ASSUME NEW pieces \in Seq(Seq(Byte))
    PROVE  /\ \A k \in 0 .. Len(pieces) : Laid(pieces)[k] \in Seq(Byte)
           /\ Len(Laid(pieces)[0]) = 0
           /\ \A k \in 1 .. Len(pieces) :
                 Len(Laid(pieces)[k]) = Len(Laid(pieces)[k - 1]) + Len(pieces[k])
<1> DEFINE laid == Laid(pieces)
           S == {k \in Nat : k <= Len(pieces) => laid[k] \in Seq(Byte)}
<1>1. laid[0] = <<>> /\ \A k \in 1 .. Len(pieces) : laid[k] = laid[k - 1] \o pieces[k]
  BY LaidFollow
<1> HIDE DEF laid
<1>2. \A k \in 1 .. Len(pieces) : pieces[k] \in Seq(Byte)
  <2> HIDE DEF Byte
  <2> QED OBVIOUS
<1>3. 0 \in S
  <2>1. laid[0] \in Seq(Byte)
    BY <1>1
  <2> QED BY <2>1
<1>4. ASSUME NEW k \in Nat, k \in S PROVE k + 1 \in S
  <2> SUFFICES ASSUME k + 1 <= Len(pieces) PROVE laid[k + 1] \in Seq(Byte)
    OBVIOUS
  <2>1. k + 1 \in 1 .. Len(pieces) /\ laid[k] \in Seq(Byte) /\ k + 1 - 1 = k
    BY <1>4
  <2> DEFINE j == k + 1
  <2>3. j \in 1 .. Len(pieces) /\ j - 1 = k
    BY <2>1
  <2> HIDE DEF j
  <2>4. laid[j] = laid[j - 1] \o pieces[j]
    BY <1>1, <2>3, Zenon
  <2>5. laid[k] \o pieces[j] \in Seq(Byte)
    BY <1>2, <2>1, <2>3
  <2> QED BY <2>3, <2>4, <2>5 DEF j
<1>5. \A k \in Nat : k \in S
  <2> HIDE DEF S
  <2> QED BY <1>3, <1>4, Induction
<1>6. \A k \in 0 .. Len(pieces) : laid[k] \in Seq(Byte)
  BY <1>5
<1>7. ASSUME NEW k \in 1 .. Len(pieces) PROVE Len(laid[k]) = Len(laid[k - 1]) + Len(pieces[k])
  <2>1. k - 1 \in 0 .. Len(pieces)
    OBVIOUS
  <2>2. laid[k - 1] \in Seq(Byte) /\ pieces[k] \in Seq(Byte) /\ laid[k] = laid[k - 1] \o pieces[k]
    BY <1>1, <1>2, <1>6, <2>1
  <2> QED BY <2>2
<1>8. Len(laid[0]) = 0
  BY <1>1
<1> QED BY <1>6, <1>7, <1>8 DEF laid

\* The more pieces, the longer.
LEMMA LaidGrows ==
    ASSUME NEW pieces \in Seq(Seq(Byte)), NEW k \in 0 .. Len(pieces)
    PROVE  Len(Laid(pieces)[k]) <= Len(Laid(pieces)[Len(pieces)])
<1> DEFINE n == Len(pieces)
           size(j) == Len(Laid(pieces)[j])
           S == {j \in Nat : k + j <= n => size(k) <= size(k + j)}
<1>1. n \in Nat /\ k \in 0 .. n
  OBVIOUS
<1>2. ASSUME NEW j \in 0 .. n PROVE size(j) \in Nat
  <2>1. Laid(pieces)[j] \in Seq(Byte)
    BY LaidTyped
  <2> QED BY <2>1
<1>3. ASSUME NEW j \in 1 .. n PROVE size(j) >= size(j - 1)
  <2>1. size(j) = size(j - 1) + Len(pieces[j])
    BY LaidTyped
  <2>2. pieces[j] \in Seq(Byte)
    <3> HIDE DEF Byte
    <3> QED OBVIOUS
  <2>3. Len(pieces[j]) \in Nat /\ size(j - 1) \in Nat
    BY <1>1, <1>2, <2>2
  <2> DEFINE more == Len(pieces[j])
  <2> HIDE DEF size, more
  <2>4. more \in Nat /\ size(j) = size(j - 1) + more /\ size(j - 1) \in Nat
    BY <2>1, <2>3 DEF size, more
  <2> QED BY <2>4
<1> HIDE DEF n, size
<1>4. 0 \in S
  BY <1>1, <1>2
<1>5. ASSUME NEW j \in Nat, j \in S PROVE j + 1 \in S
  <2> SUFFICES ASSUME k + (j + 1) <= n PROVE size(k) <= size(k + (j + 1))
    OBVIOUS
  <2>1. k + (j + 1) \in 1 .. n /\ k + (j + 1) - 1 = k + j /\ k + j \in 0 .. n
    BY <1>1
  <2>2. size(k) <= size(k + j)
    BY <1>5, <2>1
  <2>3. size(k + (j + 1)) >= size(k + j)
    BY <1>3, <2>1
  <2>4. size(k) \in Nat /\ size(k + j) \in Nat /\ size(k + (j + 1)) \in Nat
    BY <1>1, <1>2, <2>1
  <2> QED BY <2>2, <2>3, <2>4
<1>6. \A j \in Nat : j \in S
  <2> HIDE DEF S
  <2> QED BY <1>4, <1>5, Induction
<1>7. \A j \in Nat : k + j <= n => size(k) <= size(k + j)
  BY <1>6
<1>8. size(k) <= size(n)
  <2>1. n - k \in Nat /\ k + (n - k) <= n
    BY <1>1
  <2>2. size(k) <= size(k + (n - k))
    BY <1>7, <2>1
  <2>3. k + (n - k) = n
    BY <1>1
  <2> QED BY <2>2, <2>3
<1> QED BY <1>8 DEF size, n

\* Where all of the pieces stand, each of them does, behind those before it.
LEMMA LaidStands ==
    ASSUME NEW data \in Seq(Byte), NEW offset \in Nat, NEW pieces \in Seq(Seq(Byte)),
           Stands(data, offset, Laid(pieces)[Len(pieces)])
    PROVE  \A k \in 1 .. Len(pieces) : Stands(data, offset + Len(Laid(pieces)[k - 1]), pieces[k])
<1> DEFINE n == Len(pieces)
           laid == Laid(pieces)
           S == {k \in Nat : k <= n => Stands(data, offset, laid[n - k])}
<1>1. n \in Nat
  OBVIOUS
<1>2. \A k \in 1 .. n : laid[k] = laid[k - 1] \o pieces[k]
  BY LaidFollow
<1>3. \A k \in 0 .. n : laid[k] \in Seq(Byte)
  BY LaidTyped
<1>4. \A k \in 1 .. n : pieces[k] \in Seq(Byte)
  <2> HIDE DEF Byte
  <2> QED OBVIOUS
<1>5. Stands(data, offset, laid[n])
  OBVIOUS
<1> HIDE DEF laid, n
<1>6. ASSUME NEW k \in 1 .. n, Stands(data, offset, laid[k])
      PROVE  Stands(data, offset, laid[k - 1]) /\ Stands(data, offset + Len(laid[k - 1]), pieces[k])
  <2>1. k - 1 \in 0 .. n
    BY <1>1
  <2>2. laid[k - 1] \in Seq(Byte) /\ pieces[k] \in Seq(Byte) /\ laid[k] = laid[k - 1] \o pieces[k]
    BY <1>2, <1>3, <1>4, <2>1
  <2>3. Stands(data, offset, laid[k - 1] \o pieces[k])
    BY <1>6, <2>2
  <2> QED BY <2>2, <2>3, StandsInTwo
<1>7. 0 \in S
  <2>1. n - 0 = n
    BY <1>1
  <2> QED BY <1>5, <2>1
<1>8. ASSUME NEW k \in Nat, k \in S PROVE k + 1 \in S
  <2> SUFFICES ASSUME k + 1 <= n PROVE Stands(data, offset, laid[n - (k + 1)])
    OBVIOUS
  <2>1. n - k \in 1 .. n /\ n - k - 1 = n - (k + 1) /\ k <= n
    BY <1>1
  <2>2. Stands(data, offset, laid[n - k])
    BY <1>8, <2>1
  <2>3. Stands(data, offset, laid[n - k - 1])
    BY <1>6, <2>1, <2>2
  <2> QED BY <2>1, <2>3
<1>9. \A k \in Nat : k \in S
  <2> HIDE DEF S
  <2> QED BY <1>7, <1>8, Induction
<1>10. ASSUME NEW k \in 1 .. n PROVE Stands(data, offset + Len(laid[k - 1]), pieces[k])
  <2>1. n - k \in Nat /\ n - k <= n /\ n - (n - k) = k
    BY <1>1
  <2>2. Stands(data, offset, laid[k])
    BY <1>9, <2>1
  <2> QED BY <1>6, <2>2
<1> QED BY <1>10 DEF laid, n
=============================================================================
