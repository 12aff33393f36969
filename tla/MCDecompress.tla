---------------------------- MODULE MCDecompress ----------------------------
(***************************************************************************)
(* A base module and three modules to unpack, in the order of their        *)
(* addresses, in pages of two bytes; ELF segments at various places.       *)
(***************************************************************************)
EXTENDS Decompress

CONSTANTS elf,
  Bottoms,     \* where the first image lies
  RamStart     \* the first address of RAM

MCTags == {elf} \cup (1..4)
Elf(b, e) == [begin |-> b, end |-> e, tag |-> elf]

\* The images follow each other at page boundaries, with gaps.  The base module
\* comes first or last.
Sizes == { <<2, 2>>, <<2, 5>>, <<3, 4>> }
Mod(s, z, b) == [start |-> s, size |-> z[1], usize |-> z[2], base |-> b]
Kernel(s) == Mod(s, <<3, 3>>, TRUE)

Chain(b, gap, x, y, z) ==
  LET s2 == RoundPage(b + x[1]) + gap
      s3 == RoundPage(s2 + y[1])
  IN << Mod(b, x, FALSE), Mod(s2, y, FALSE), Mod(s3, z, FALSE) >>

End(c) == RoundPage(c[Len(c)].start + c[Len(c)].size)

Mods3 ==
  { Chain(b, g, x, y, z) : b \in Bottoms, g \in {0, 4, 14}, x \in Sizes, y \in Sizes, z \in Sizes }

Modules ==
  { <<Kernel(c[1].start - 4)>> \o c : c \in { x \in Mods3 : x[1].start >= 8 } }
    \cup { Append(c, Kernel(End(c))) : c \in Mods3 }

Segments ==
  { <<Elf(20, 21)>>, <<Elf(30, 33)>>, <<Elf(4, 5), Elf(36, 39)>>, <<Elf(14, 15)>>,
    <<Elf(2, 9), Elf(16, 17), Elf(24, 25)>> }

Rams == { <<Elf(RamStart, MaxAddr - 16)>>, <<Elf(RamStart, 33)>>,
         <<Elf(RamStart, 25), Elf(40, 41)>> }

MCSetups == [mods : Modules, ram : Rams, busy : Segments, modaddr : {0, 12, 24}]
=============================================================================
