---------------------------- MODULE ArtifactFormats ----------------------------
(***************************************************************************)
(* What is looked at inside a compiled addon before it is released: the    *)
(* link-edit data of a Darwin image (src/scripts/macho-linkedit.js) and    *)
(* the C library a Linux image needs (src/scripts/check-linux-runtime.js). *)
(*                                                                         *)
(* Offsets and sizes of a Darwin image are counted in words of four bytes, *)
(* its header fields are unsigned and of Bits bits.                        *)
(***************************************************************************)
EXTENDS Integers, Sequences

CONSTANTS
  Bits,     \* width of a header field, in words (30)
  Offsets,  \* bound: the offsets and sizes tried in a symbol table
  Lengths   \* bound: the lengths of an image

ASSUME FormatsAssumption ==
  /\ Bits \in Nat \ {0}
  /\ Offsets \cup Lengths \subseteq 0 .. 2^Bits - 1

VARIABLES
  artifact,  \* what was inspected last
  verdict    \* whether it was accepted

formatVars == <<artifact, verdict>>

-------------------------------------------------------------------------------
(***************************************************************************)
(* Darwin                                                                  *)
(***************************************************************************)
Header == 8
Entry == 4    \* one symbol

\* Mutation: sums wrap around like the fields they are made of.
Plus_Wrapping(a, b) == (a + b) % 2^Bits

\* JavaScript adds fields without wrapping around.
Plus(a, b) == a + b

Nothing == [symtab |-> FALSE, size |-> 0]
CommandAt(image, i) ==
  IF i <= Len(image.commands) THEN image.commands[i] ELSE Nothing
End(image) == Plus(Header, image.commandsSize)

\* Mutation: the string pool may begin at any word.
TableFits_Unaligned(image, table) ==
  /\ table.size = 6
  /\ table.symbols >= End(image)
  /\ Plus(table.symbols, Entry * table.entries) <= image.length
  /\ table.pool > 0 /\ table.strings >= End(image)
  /\ Plus(table.strings, table.pool) <= image.length

\* The symbols and the string pool of the symbol table lie behind the commands,
\* the string pool at a multiple of eight bytes.
TableFits(image, table) ==
  /\ table.size = 6
  /\ table.symbols >= End(image)
  /\ Plus(table.symbols, Entry * table.entries) <= image.length
  /\ table.pool > 0 /\ table.strings >= End(image)
  /\ Plus(table.strings, table.pool) <= image.length
  /\ table.strings % 2 = 0

\* validateMachOLinkedit: each command is found where the one before it ends.
AcceptedDarwin(image, cpu) ==
  LET end == End(image)
      walk[i \in 0 .. image.count] ==
        IF i = 0
          THEN [ok |-> TRUE, offset |-> Header, tables |-> 0]
          ELSE LET before == walk[i - 1]
                   command == CommandAt(image, i)
               IN  [ok |-> /\ before.ok
                           /\ before.offset + 2 <= end
                           /\ command.size >= 2 /\ command.size % 2 = 0
                           /\ Plus(before.offset, command.size) <= end
                           /\ command.symtab =>
                                before.tables = 0 /\ TableFits(image, command),
                    offset |-> before.offset + command.size,
                    tables |-> before.tables + (IF command.symtab THEN 1 ELSE 0)]
  IN  /\ image.length >= Header
      /\ image.magic /\ image.cpu = cpu
      /\ end <= image.length /\ 2 * image.count <= end - Header
      /\ walk[image.count].ok
      /\ walk[image.count].offset = end
      /\ walk[image.count].tables = 1

-------------------------------------------------------------------------------
(***************************************************************************)
(* Linux.  A version is the sequence of its numbers.                       *)
(***************************************************************************)
Leading(n) == IF n < 10 THEN n ELSE n \div 10

\* Mutation: versions are compared as texts, digit by digit.
Lower_Text(m, n) ==
  Leading(m) < Leading(n) \/ (Leading(m) = Leading(n) /\ m < n)

\* localeCompare with numeric: runs of digits compare as numbers.
Lower(m, n) == m < n

AtMost(v, w) ==
  \E i \in 0 .. Len(v) :
    /\ i <= Len(w) /\ \A j \in 1 .. i : v[j] = w[j]
    /\ i = Len(v) \/ (i < Len(w) /\ Lower(v[i + 1], w[i + 1]))

Baseline == <<2, 35>>

\* validateGlibcVersions: of what is needed it sees the versions in numbers, not
\* GLIBC_ABI_DT_RELR or GLIBC_PRIVATE.
AcceptedLinux(needed, target) ==
  IF target = "musl"
    THEN needed = {}
    ELSE needed # {} /\ LET floor == CHOOSE v \in needed : \A w \in needed : AtMost(w, v)
                        IN  AtMost(floor, Baseline)

-------------------------------------------------------------------------------
(***************************************************************************)
(* What may be inspected                                                   *)
(***************************************************************************)
Plain(size) == [symtab |-> FALSE, size |-> size]
Table(size, symbols, entries, strings, pool) ==
  [symtab |-> TRUE, size |-> size, symbols |-> symbols, entries |-> entries,
   strings |-> strings, pool |-> pool]

CommandsSize(commands) ==
  LET sum[i \in 0 .. Len(commands)] ==
        IF i = 0 THEN 0 ELSE sum[i - 1] + commands[i].size
  IN  sum[Len(commands)]

\* An image a linker makes: commands, symbols, padding, and the string pool.
Linked(before, after, entries, padding, pool) ==
  LET end == Header + CommandsSize(before \o after) + 6
      strings == end + Entry * entries + padding
      commands == before \o <<Table(6, end, entries, strings, pool)>> \o after
  IN  [length |-> strings + pool, magic |-> TRUE, cpu |-> "arm64",
       commandsSize |-> end - Header, count |-> Len(commands), commands |-> commands]

Plains == {<<>>, <<Plain(2)>>, <<Plain(4)>>, <<Plain(4), Plain(2)>>}
LinkedImages ==
  {Linked(before, after, entries, padding, pool) :
     before \in Plains, after \in Plains, entries \in 0 .. 2, padding \in 0 .. 2,
     pool \in 1 .. 3}

\* Images with a usual symbol table and anything else beside it, and with any
\* symbol table.
UsualTable == Table(6, 16, 1, 20, 2)
Commands == {Plain(n) : n \in 0 .. 4} \cup {UsualTable, [UsualTable EXCEPT !.size = 4]}
OtherImages ==
  {[length |-> 24, magic |-> magic, cpu |-> cpu, commandsSize |-> size, count |-> count,
    commands |-> commands] :
     magic \in BOOLEAN, cpu \in {"arm64", "x64", "other"}, size \in {6, 8, 10},
     count \in 0 .. 3, commands \in UNION {[1 .. n -> Commands] : n \in 1 .. 2}}
  \cup
  {[length |-> length, magic |-> TRUE, cpu |-> "arm64", commandsSize |-> 6, count |-> 1,
    commands |-> <<Table(6, symbols, entries, strings, pool)>>] :
     length \in Lengths, symbols \in Offsets, entries \in 0 .. 2 \cup {2^Bits - 1},
     strings \in Offsets, pool \in Offsets}

Versions == {<<2, 2, 5>>, <<2, 4>>, <<2, 34>>, <<2, 35>>, <<2, 35, 1>>, <<2, 36>>, <<3, 0>>}

-------------------------------------------------------------------------------
FormatInit == artifact = [kind |-> "none"] /\ verdict = FALSE

InspectDarwin(image, target) ==
  /\ artifact' = [kind |-> "darwin", image |-> image, target |-> target]
  /\ verdict' = AcceptedDarwin(image, target)

InspectLinux(needed, target) ==
  /\ artifact' = [kind |-> "linux", needed |-> needed, target |-> target]
  /\ verdict' = AcceptedLinux(needed, target)

FormatNext ==
  /\ artifact.kind = "none"
  /\ \/ \E image \in LinkedImages : InspectDarwin(image, "arm64")
     \/ \E image \in OtherImages, target \in {"arm64", "x64"} : InspectDarwin(image, target)
     \/ \E needed \in SUBSET Versions, target \in {"gnu", "musl"} : InspectLinux(needed, target)

FormatSpec == FormatInit /\ [][FormatNext]_formatVars

-------------------------------------------------------------------------------
(***************************************************************************)
(* Properties                                                              *)
(***************************************************************************)

\* The commands take up exactly the room the header gives them, one of them is
\* the symbol table, and what it points to is in the file, not in the commands.
Loadable(image, target) ==
  LET commands == SubSeq(image.commands, 1, image.count)
      data == Header + image.commandsSize .. image.length - 1
      Span(from, size) == from .. from + size - 1
  IN  /\ image.cpu = target
      /\ Len(image.commands) >= image.count
      /\ CommandsSize(commands) = image.commandsSize
      /\ \E i \in 1 .. image.count :
           /\ \A j \in 1 .. image.count : commands[j].symtab <=> j = i
           /\ Span(commands[i].symbols, Entry * commands[i].entries) \subseteq data
           /\ Span(commands[i].strings, commands[i].pool) \subseteq data
           /\ commands[i].pool > 0 /\ commands[i].strings % 2 = 0

\* The oldest supported Linux has this version of the C library.
Supported(v) ==
  v[1] < 2 \/ (v[1] = 2 /\ (Len(v) = 1 \/ v[2] < 35 \/ v = <<2, 35>>))

\* What dyld of macOS 27 and the C library of the oldest supported Linux can
\* load is accepted when a linker made it, and nothing else is accepted: a Darwin
\* image with its tables inside the file and an aligned string pool, a GNU image
\* that needs no version above 2.35, a musl image that needs none at all, as far
\* as what is needed is said in numbers.
AcceptedImagesLoad ==
  /\ artifact.kind = "darwin" =>
       /\ verdict => Loadable(artifact.image, artifact.target)
       /\ artifact.image \in LinkedImages /\ artifact.target = "arm64" =>
            (verdict <=> Loadable(artifact.image, artifact.target))
  /\ artifact.kind = "linux" =>
       (verdict <=>
          IF artifact.target = "musl"
            THEN artifact.needed = {}
            ELSE /\ artifact.needed # {}
                 /\ \A v \in artifact.needed : Supported(v))
===============================================================================
