----------------------------- MODULE BPSEncoder -----------------------------
(***************************************************************************)
(* What a BPS encoder writes: the patches the format is for, which the     *)
(* library reads and does not make.  A script is the sequence of commands  *)
(* an encoder chose; Sources are the texts it runs on.                     *)
(***************************************************************************)
EXTENDS BPSInv

CONSTANT Scripts   \* the sequences of commands that are encoded

\* A command of a script.  What is written of it fits in a word.
Order ==
    {c \in [action : Action, length : 1 .. Word \div 4, distance : Int, data : Seq(Byte)] :
        1 - Word < 2 * c.distance /\ 2 * c.distance < Word}

ASSUME ScriptsAssumption == Scripts \subseteq Seq(Order)

-----------------------------------------------------------------------------
\* What is written.

Code == [SourceRead |-> 0, TargetRead |-> 1, SourceCopy |-> 2, TargetCopy |-> 3]

CommandNumber(c) == (c.length - 1) * 4 + Code[c.action]

\* A distance, with its sign in the lowest bit.
Signed(d) == IF d < 0 THEN 1 - 2 * d ELSE 2 * d

EncodedCommand(c) ==
    Encoded[CommandNumber(c)]
      \o (IF IsCopy(c.action) THEN Encoded[Signed(c.distance)]
          ELSE IF c.action = "TargetRead" THEN c.data ELSE <<>>)

Pieces(cs) == [k \in 1 .. Len(cs) |-> EncodedCommand(cs[k])]
EncodedCommands(cs) == Laid(Pieces(cs))[Len(cs)]

Body(s, t, cs) ==
    Magic \o Encoded[Len(s)] \o Encoded[Len(t)] \o Encoded[0] \o EncodedCommands(cs)
      \o Crc(s) \o Crc(t)

MadeFor(s, t, cs) == Body(s, t, cs) \o Crc(Body(s, t, cs))

-----------------------------------------------------------------------------
(***************************************************************************)
(* What the format says the commands mean: SourceRead reads at the         *)
(* position of the output, TargetRead reads the bytes behind the command,  *)
(* a copy whose source runs into what it writes repeats it.                *)
(***************************************************************************)

From(acc, c) ==
    CASE c.action = "SourceRead" -> Len(acc.out)
      [] c.action = "TargetRead" -> 0
      [] c.action = "SourceCopy" -> acc.src + c.distance
      [] c.action = "TargetCopy" -> acc.tgt + c.distance

Legal(s, acc, c) ==
    CASE c.action \in {"SourceRead", "SourceCopy"} ->
              0 <= From(acc, c) /\ From(acc, c) + c.length <= Len(s)
      [] c.action = "TargetRead" -> Len(c.data) = c.length
      [] c.action = "TargetCopy" -> From(acc, c) \in 0 .. Len(acc.out) - 1

Bytes(s, acc, c) ==
    CASE c.action \in {"SourceRead", "SourceCopy"} ->
              SubSeq(s, From(acc, c) + 1, From(acc, c) + c.length)
      [] c.action = "TargetRead" -> c.data
      [] c.action = "TargetCopy" ->
              [k \in 1 .. c.length |->
                  acc.out[From(acc, c) + 1 + ((k - 1) % (Len(acc.out) - From(acc, c)))]]

After(s, acc, c) ==
    LET legal == acc.ok /\ Legal(s, acc, c)
        end == From(acc, c) + c.length
    IN [ok |-> legal,
        out |-> IF legal THEN acc.out \o Bytes(s, acc, c) ELSE acc.out,
        src |-> IF c.action = "SourceCopy" THEN end ELSE acc.src,
        tgt |-> IF c.action = "TargetCopy" THEN end ELSE acc.tgt]

\* Whether there is a meaning, the output and the cursors, after each of the
\* first commands.
Meaning(s, cs) ==
    LET acc[k \in 0 .. Len(cs)] ==
          IF k = 0 THEN [ok |-> TRUE, out |-> <<>>, src |-> 0, tgt |-> 0]
                   ELSE After(s, acc[k - 1], cs[k])
    IN acc

Result(s, cs) == Meaning(s, cs)[Len(cs)]
HasMeaning(s, cs) == Result(s, cs).ok /\ Len(Result(s, cs).out) <= MaxAlloc

\* Every patch an encoder makes of a script that has a meaning, and for what.
Made ==
    {LET t == Result(j[1], j[2]).out
     IN [bytes |-> MadeFor(j[1], t, j[2]), from |-> j[1], to |-> t, script |-> j[2]] :
        j \in {p \in Sources \X Scripts : HasMeaning(p[1], p[2])}}

-----------------------------------------------------------------------------
Given(m) == patch = m.bytes /\ source = m.from

\* Where the patch is m, it applies to what m was made from and gives what it
\* was made for.
Reproduces(m) ==
    Given(m) =>
        /\ pc \notin {"failed", "thrown"}
        /\ pc = "done" => output = m.to

Has(m, action) == \E i \in DOMAIN m.script : m.script[i].action = action

\* SourceReads come before any copy, and none copies from the source.
ReadsFirst(m) ==
    /\ ~Has(m, "SourceCopy")
    /\ \A i, j \in DOMAIN m.script :
          m.script[i].action = "SourceRead" /\ j < i => m.script[j].action = "SourceRead"

\* The commands of a script that the parser and apply take as the encoder does.
Alike(m) == ~Has(m, "TargetRead") /\ (~Has(m, "SourceRead") \/ ReadsFirst(m))

\* A patch of copies alone loads, is valid, and turns its source into its
\* target, also where a copy overlaps itself; so does one that begins with
\* SourceReads and then copies from the target (bps.cc:80-94, 176-235).
CopiesReproduced == \A m \in Made : Alike(m) => Reproduces(m)

-----------------------------------------------------------------------------
(***************************************************************************)
(* Why CopiesReproduced holds: what of m was read back and run in each     *)
(* state.                                                                  *)
(***************************************************************************)

\* Where the first command of m is written, and where the one behind the k-th.
FirstCommand(m) ==
    4 + Len(Encoded[Len(m.from)]) + Len(Encoded[Len(m.to)]) + Len(Encoded[0])
BehindCommand(m, k) == FirstCommand(m) + Len(Laid(Pieces(m.script))[k])

CommandOf(c) ==
    [action |-> c.action, length |-> c.length,
     offset_delta |-> IF IsCopy(c.action) THEN Signed(c.distance) ELSE 0]

SizesRead(m) == pc # "load" => src_size = Len(m.from) /\ target_size = Len(m.to)

CommandsRead(m) ==
    /\ Len(commands) <= Len(m.script)
    /\ \A k \in 1 .. Len(commands) : commands[k] = CommandOf(m.script[k])
    /\ pc = "load" => commands = <<>> /\ offset = 4
    /\ pc = "parse" => offset = BehindCommand(m, Len(commands))

TrailerRead(m) ==
    pc \notin {"load", "parse"} =>
        /\ Len(commands) = Len(m.script)
        /\ src_crc = Crc(m.from) /\ target_crc = Crc(m.to)
        /\ patch_crc = Crc(CheckedPart)

\* The cursor in the source is where SourceReads or SourceCopies left it, as
\* long as there is only one of the two.
CommandsRun(m) ==
    LET acc == Meaning(m.from, m.script)[next - 1]
    IN /\ pc \in {"load", "parse", "loaded", "valid"} => next = 1
       /\ output = acc.out /\ target_rel_offset = acc.tgt
       /\ ~Has(m, "SourceRead") => source_rel_offset = acc.src
       /\ (\A i \in 1 .. next - 1 : m.script[i].action = "SourceRead") =>
              source_rel_offset = Len(output)
       /\ pc = "done" => output = m.to

ReadBack(m) ==
    /\ pc \notin {"failed", "thrown"}
    /\ SizesRead(m)
    /\ CommandsRead(m)
    /\ TrailerRead(m)
    /\ CommandsRun(m)

EncoderInv == \A m \in Made : Alike(m) /\ Given(m) => ReadBack(m)
=============================================================================
