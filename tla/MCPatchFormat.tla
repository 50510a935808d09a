--------------------------- MODULE MCPatchFormat ---------------------------
(***************************************************************************)
(* Patches of all formats over base-8 digits: the same bodies under every  *)
(* header, whole or spoilt, and patches made for each of the sources.      *)
(***************************************************************************)
EXTENDS PatchFormatInv, FiniteSets
LOCAL INSTANCE SequencesExt

CONSTANTS MaxBody   \* bound: length of the arbitrary bodies

HeaderIPS == <<3, 1, 2, 0, 1>>
HeaderUPS == <<1, 2, 3, 0>>
HeaderBPS == <<1, 2, 3, 1>>
EndIPS == <<1, 0, 1>>

Bit(n, k) == (n \div k) % 2
ByteXor(a, b) == LET Sum(k) == k * ((Bit(a, k) + Bit(b, k)) % 2) IN Sum(4) + Sum(2) + Sum(1)
Checksum(bytes) == <<FoldLeft(LAMBDA acc, b : (3 * acc + b + 1) % 8, Len(bytes) % 8, bytes)>>

Digits == 0 .. 2 * Half - 1
GivenSources == {<<>>, <<2>>, <<1, 3>>, <<4, 0, 3>>, <<1, 1, 6>>}

-----------------------------------------------------------------------------
\* A number below Half * (Half + 1).
Number(n) == IF n < Half THEN <<n + Half>> ELSE <<n % Half, n \div Half - 1 + Half>>

\* The body with the two checksums and its own, right or wrong.
Sealed(header, body, s, t) ==
    LET bytes == header \o body \o Crc(s) \o Crc(t)
    IN {bytes \o Crc(bytes), bytes \o <<(Crc(bytes)[1] + 1) % 8>>}

\* UPS: byte k of the source changes, or is added.
Changed(s, k, b) ==
    [i \in 1 .. (IF k > Len(s) THEN k ELSE Len(s)) |->
        LET old == IF i <= Len(s) THEN s[i] ELSE 0 IN IF i = k THEN Xor(old, b) ELSE old]
Changing(s, k, b) ==
    LET t == Changed(s, k, b)
    IN Sealed(UPSMagic, Number(Len(s)) \o Number(Len(t)) \o Number(k - 1) \o <<b, 0>>, s, t)

\* BPS: a byte of the source by each command, read or copied from an offset.
Command(code, length, delta) == Number((length - 1) * 4 + code) \o delta
Turning(s) ==
    LET n == Len(s)
        body == Number(n) \o Number(n) \o Number(0)
    IN {[body |-> body \o Command(0, n, <<>>), to |-> s],
        [body |-> body \o Command(2, n - 1, Number(2)) \o Command(2, 1, Number(2 * n + 1)),
         to |-> SubSeq(s, 2, n) \o <<s[1]>>],
        [body |-> body \o Command(2, 1, Number(0)) \o Command(3, n - 1, Number(0)),
         to |-> [i \in 1 .. n |-> s[1]]],
        [body |-> body \o Command(1, n, <<>>), to |-> SubSeq(Command(1, n, <<>>), 1, 1)]}

Made ==
    UNION {Changing(s, k, b) : s \in Sources, k \in 1 .. 3, b \in {1, 5}}
      \union UNION {UNION {Sealed(BPSMagic, m.body, s, m.to) : m \in Turning(s)} :
                      s \in {x \in Sources : Len(x) >= 2}}

-----------------------------------------------------------------------------
\* Headers, among them some that differ in their last byte only.
Headers == {IPSMagic, UPSMagic, BPSMagic, <<3, 1, 2, 0, 2>>, <<1, 2, 3, 3>>}

\* Two IPS records: a byte, and a run that may grow the file.
Records == {<<>>, <<0, 0, 1, 0, 1, 2>>, <<0, 0, 2, 0, 0, 0, 2, 1>>}

Bodies ==
    BoundedSeq(Digits, MaxBody)
      \union {r1 \o r2 \o EofMark : r1 \in Records, r2 \in Records}

LoadedPatches ==
    Made
      \union UNION {Sealed(h, b, <<>>, s) : h \in Headers, b \in Bodies, s \in {<<>>, <<2>>}}
      \union BoundedSeq({1, 2, 3}, 4)
=============================================================================
