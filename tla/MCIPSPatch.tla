----------------------------- MODULE MCIPSPatch -----------------------------
(***************************************************************************)
(* IPS patches over binary digits: every byte string up to MaxBody bytes   *)
(* behind the header, and longer ones made of up to three records, whole   *)
(* or cut anywhere, with and without an end marker.                        *)
(***************************************************************************)
EXTENDS IPSInv
LOCAL INSTANCE SequencesExt

CONSTANT MaxBody   \* bound: length of the arbitrary bodies

MCMagic == <<1, 1, 0, 0, 1>>
MCEofMark == <<1, 0, 1>>

Data(o, d) == [offset |-> o, size |-> Len(d), is_rle |-> FALSE,
               rle_size |-> 0, rle_value |-> 0, data |-> d]
Run(o, n, v) == [offset |-> o, size |-> 0, is_rle |-> TRUE,
                 rle_size |-> n, rle_value |-> v, data |-> <<>>]

\* Offset 5 is written like the end marker.
MCRecords ==
    {Data(0, <<1, 0>>), Data(1, <<1>>), Data(2, <<0, 1, 1>>), Data(5, <<1>>),
     Run(0, 3, 0), Run(1, 1, 1), Run(4, 2, 1), Run(3, 0, 1)}

Tails == {<<>>, <<1>>, MCEofMark, MCEofMark \o <<0, 0, 1>>, MCEofMark \o <<1, 0, 1, 0>>}

Made(n) == {EncodeAll(rs) \o t : rs \in [1 .. n -> MCRecords], t \in Tails}
Cut(b) == {SubSeq(b, 1, n) : n \in 0 .. Len(b)}

Bodies == BoundedSeq({0, 1}, MaxBody)
            \union UNION {Cut(b) : b \in Made(1) \union Made(2)} \union Made(3)

MCPatches ==
    {MCMagic \o b : b \in Bodies}
      \union {<<0, 1, 0, 0, 1>> \o b : b \in {<<>>, <<1, 0, 1>>}} \union Cut(MCMagic)

MCSources == {<<>>, <<1>>, <<1, 0, 1, 1, 0>>}
=============================================================================
