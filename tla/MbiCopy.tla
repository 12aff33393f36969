------------------------------ MODULE MbiCopy ------------------------------
(***************************************************************************)
(* Platform_x86_multiboot (x86_pc.cc) with modules of the boot loader: the *)
(* multiboot information is reserved piece by piece, copied into one block *)
(* of free memory, and given up; then the modules are moved together.      *)
(*                                                                         *)
(* mem[a] tells what byte a is a copy of: <<"mod", i, k>> is byte k of     *)
(* module i, <<"str", i, k>> of its command line and <<"str", 0, k>> of    *)
(* the boot loader's own.  Words of the structures are records; their      *)
(* bytes in mem only show whether they are overwritten.                    *)
(***************************************************************************)
EXTENDS FirmwareMap

CONSTANTS
  WordSize,     \* the unit of round_wordsize()
  InfoSize,     \* the size of l4util_mb_info_t and of l4util_l4mod_info
  EntrySize,    \* the size of l4util_mb_mod_t and of l4util_l4mod_mod
  ModeSize,     \* the size of the VBE mode information
  CtrlSize,     \* the size of the VBE controller information
  Top           \* 0xfffffff0

OldTag == "mbi"
NewTag == "mbi_rt"
ModTag == "module"
CpuFwTag == "cpu_fw"

\* The boot loader sets the flag for the command line if there is one, and
\* puts modules on pages of their own.
ASSUME MbiAssumption ==
  /\ {WordSize, InfoSize, EntrySize, ModeSize, CtrlSize, Top} \subseteq Addr \ {0}
  /\ \A b \in Boots :
       LET m == b.mbi IN
       /\ m.flag = (m.cmdline # 0)
       /\ \A i \in DOMAIN m.mods : m.mods[i].start % PageSize = 0

VARIABLES
  mem,    \* the memory
  l4mi,   \* the copy of the information
  todo    \* the modules still to be moved, with their destinations

bvars == <<mem, l4mi, todo>>

Info == boot.mbi
Mods == Info.mods

Unknown == <<"any", 0, 0>>
Zero == <<"zero", 0, 0>>

\* n bytes at `at' that belong to object i of a kind
Piece(kind, i, at, n) == [kind |-> kind, i |-> i, at |-> at, n |-> n]

ModeAt == IF Info.video THEN Info.mode ELSE 0
CtrlAt == IF Info.video THEN Info.ctrl ELSE 0

\* The pieces of the multiboot information, in the order of init_regions()
OldPieces ==
  << Piece("mbi", 0, Info.at, InfoSize) >>
    \o (IF Info.flag THEN << Piece("str", 0, Info.cmdline, Info.len) >> ELSE <<>>)
    \o << Piece("mods", 0, Info.modsAt, EntrySize * Len(Mods)) >>
    \o (IF ModeAt # 0 THEN << Piece("mode", 0, ModeAt, ModeSize) >> ELSE <<>>)
    \o (IF CtrlAt # 0 THEN << Piece("ctrl", 0, CtrlAt, CtrlSize) >> ELSE <<>>)
    \o [i \in DOMAIN Mods |-> Piece("str", i, Mods[i].str, Mods[i].len)]

ModPieces == [i \in DOMAIN Mods |-> Piece("mod", i, Mods[i].start, Mods[i].end - Mods[i].start)]

Written(m, p) ==
  [a \in Addr |-> IF a \in p.at..(p.at + p.n - 1) THEN <<p.kind, p.i, a - p.at>> ELSE m[a]]

NoL4mi == [at |-> 0, size |-> 0, cmdline |-> 0, mode |-> 0, ctrl |-> 0, mods |-> <<>>]

BInit ==
  /\ mem = IF ByLoader THEN FoldLeft(Written, [a \in Addr |-> Unknown], OldPieces \o ModPieces)
           ELSE [a \in Addr |-> Unknown]
  /\ l4mi = NoL4mi
  /\ todo = <<>>

-----------------------------------------------------------------------------
(* init_regions() *)

RegionOf(p) == StartSize(p.at, p.n, IF p.kind = "mod" THEN ModTag ELSE OldTag)

\* A module with its start behind its end is refused.
InitRegions ==
  /\ fpc = "regions"
  /\ LET new == [k \in DOMAIN (OldPieces \o ModPieces) |-> RegionOf((OldPieces \o ModPieces)[k])]
     IN IF \/ Mods = <<>>
           \/ \E i \in DOMAIN Mods : Mods[i].start >= Mods[i].end
           \/ AddAllPanics(regions, new)
        THEN fpc' = "panic" /\ UNCHANGED regions
        ELSE fpc' = "kernel" /\ regions' = AddAll(regions, new)
  /\ UNCHANGED bvars

-----------------------------------------------------------------------------
(* construct_mbi() *)

RoundWord(n) == RoundSize(n, WordSize)

\* The first pass: the size of the copy
InfoTotal ==
  InfoSize + EntrySize * Len(Mods)
    + (IF Info.flag THEN RoundWord(Info.len) ELSE 0)
    + (IF ModeAt # 0 THEN ModeSize ELSE 0) + (IF CtrlAt # 0 THEN CtrlSize ELSE 0)
    + FoldLeft(LAMBDA n, m : IF m.str # 0 THEN n + RoundWord(m.len) ELSE n, 0, Mods)

\* The second pass: what is copied, in this order, and the room it takes
Copies ==
  (IF ModeAt # 0 THEN << Piece("mode", 0, ModeAt, ModeSize) >> ELSE <<>>)
    \o (IF CtrlAt # 0 THEN << Piece("ctrl", 0, CtrlAt, CtrlSize) >> ELSE <<>>)
    \o (IF Info.cmdline # 0 THEN << Piece("str", 0, Info.cmdline, Info.len) >> ELSE <<>>)
    \o SelectSeq([i \in DOMAIN Mods |-> Piece("str", i, Mods[i].str, Mods[i].len)],
                 LAMBDA p : p.at # 0)

Room(p) == IF p.kind = "str" THEN RoundWord(p.n) ELSE p.n

\* Where piece k of the copies c goes in a block at `to'
Cursor(c, to, k) ==
  FoldLeft(LAMBDA n, p : n + Room(p), to + InfoSize + EntrySize * Len(Mods), SubSeq(c, 1, k - 1))

\* memmove() within m
Copied(m, to, from, n) ==
  [a \in Addr |-> IF a \in to..(to + n - 1) THEN m[from + a - to] ELSE m[a]]

\* The block cleared, with the two structures and every piece in its place
Block(c, to) ==
  LET clear == [a \in Addr |-> IF a \in to..(to + InfoTotal - 1) THEN Zero ELSE mem[a]]
      struct == Written(Written(clear, Piece("l4mi", 0, to, InfoSize)),
                        Piece("l4m", 0, to + InfoSize, EntrySize * Len(Mods)))
  IN FoldLeft(LAMBDA m, k : Copied(m, Cursor(c, to, k), c[k].at, c[k].n),
              struct, [k \in DOMAIN c |-> k])

\* The place of a kind of piece in the copy, 0 if there is none
PlaceIn(c, to, kind, i) ==
  LET k == SelectInSeq(c, LAMBDA p : p.kind = kind /\ p.i = i)
  IN IF k = 0 THEN 0 ELSE Cursor(c, to, k)

\* The first three modules are the kernel, sigma0 and the root task; others
\* are told apart by their command line.
Flags(i) ==
  CASE i = 1 -> "kernel" [] i = 2 -> "sigma0" [] i = 3 -> "roottask"
    [] OTHER -> IF Mods[i].fw THEN "cpu_fw" ELSE "unspec"

CopyOf(c, to) ==
  [ at |-> to, size |-> InfoTotal,
    cmdline |-> PlaceIn(c, to, "str", 0),
    mode |-> PlaceIn(c, to, "mode", 0), ctrl |-> PlaceIn(c, to, "ctrl", 0),
    mods |-> [i \in DOMAIN Mods |->
                [start |-> Mods[i].start, end |-> Mods[i].end,
                 cmdline |-> PlaceIn(c, to, "str", i), flags |-> Flags(i)]] ]

\* Mutant: the old information is given up before memory is found.
Taken_GivenUp == SelectSeq(regions, LAMBDA r : r.tag # OldTag)

\* What is reserved while memory for the copy is searched
Taken == regions

ConstructMbi ==
  /\ fpc = "copy"
  /\ LET to == LowestHole(ram, Everything, Taken, InfoTotal, 0, PageSize)
         with == Added(regions, StartSize(to, InfoTotal, NewTag))
     IN IF to = 0 THEN fpc' = "panic" /\ UNCHANGED <<regions, mem, l4mi>>
        ELSE IF Cursor(Copies, to, Len(Copies) + 1) # to + InfoTotal
        THEN fpc' = "assert" /\ UNCHANGED <<regions, mem, l4mi>>
        ELSE /\ mem' = Block(Copies, to)
             /\ l4mi' = CopyOf(Copies, to)
             /\ regions' = SelectSeq(with, LAMBDA r : r.tag # OldTag)
             /\ fpc' = "place"
  /\ UNCHANGED todo

-----------------------------------------------------------------------------
(* move_modules() *)

\* module(i), from the copy
SizeOf(i) == l4mi.mods[i].end - l4mi.mods[i].start

\* The place of module i when all are put together at `to', by their starts
DestOf(to, i) ==
  to + MapThenSumSet(LAMBDA j : RoundPage(SizeOf(j)),
                     { j \in DOMAIN l4mi.mods : l4mi.mods[j].start < l4mi.mods[i].start })

\* The modules by their starts
Sorted == SortSeq([i \in DOMAIN l4mi.mods |-> i],
                  LAMBDA i, j : l4mi.mods[i].start < l4mi.mods[j].start)

\* Mutant: all modules are moved in the order of their addresses.
MoveOrder_Up(to) == Sorted

\* Modules that move up, the highest one first, then the others; the first
\* one that moves down ends the first group.
MoveOrder(to) ==
  LET down == SelectInSeq(Sorted, LAMBDA i : DestOf(to, i) < l4mi.mods[i].start)
      up == IF down = 0 THEN Len(Sorted) ELSE down - 1
  IN Reverse(SubSeq(Sorted, 1, up)) \o SubSeq(Sorted, up + 1, Len(Sorted))

\* The regions of the modules are dropped and room for all of them is found.
PlaceModules ==
  /\ fpc = "place"
  /\ regions' = SelectSeq(regions, LAMBDA r : r.tag # ModTag)
  /\ LET need == MapThenSumSet(LAMBDA i : RoundPage(SizeOf(i)), DOMAIN l4mi.mods)
         to == LowestHole(ram, Everything, regions', need, Info.modaddr, PageSize)
         order == MoveOrder(to)
     IN IF to = 0 THEN fpc' = "panic" /\ UNCHANGED todo
        ELSE /\ todo' = [k \in DOMAIN order |-> [i |-> order[k], dest |-> DestOf(to, order[k])]]
             /\ fpc' = "move"
  /\ UNCHANGED <<mem, l4mi>>

TagOf(i) == IF l4mi.mods[i].flags = "cpu_fw" THEN CpuFwTag ELSE ModTag

\* move_module(): the rest of the last page is cleared.
MoveModule ==
  /\ fpc = "move" /\ todo # <<>>
  /\ LET i == Head(todo).i
         d == Head(todo).dest
         s == l4mi.mods[i].start
         n == SizeOf(i)
         point == Interval(d, d, ModTag)
     IN IF s # d /\ (FindContaining(ram, point) = 0 \/ Find(regions, point) # 0)
        THEN fpc' = "panic" /\ UNCHANGED <<regions, bvars>>
        ELSE IF d >= Top - n THEN fpc' = "assert" /\ UNCHANGED <<regions, bvars>>
        ELSE /\ mem' = IF s = d THEN mem
                       ELSE [a \in Addr |->
                               IF a \in (d + n)..(RoundPage(d + n) - 1) THEN Zero
                               ELSE Copied(mem, d, s, n)[a]]
             /\ l4mi' = [l4mi EXCEPT !.mods[i].start = d, !.mods[i].end = d + n]
             /\ regions' = Added(regions, StartSize(d, n, TagOf(i)))
             /\ todo' = Tail(todo)
             /\ UNCHANGED fpc

MoveEnd ==
  /\ fpc = "move" /\ todo = <<>>
  /\ fpc' = "up"
  /\ UNCHANGED <<regions, bvars>>

BStep ==
  /\ InitRegions \/ ConstructMbi \/ PlaceModules \/ MoveModule \/ MoveEnd
  /\ UNCHANGED <<boot, map, idx, ram, firm, key, mapKey, stale, services, console, late,
                 kernel, video, vbe>>

-----------------------------------------------------------------------------
(* Properties *)

\* Object i of a kind stands at `at', all of its n bytes, reserved with a tag.
Stands(kind, i, at, n, tag) ==
  \A k \in 0..(n - 1) :
    /\ mem[at + k] = <<kind, i, k>>
    /\ \E x \in DOMAIN regions : regions[x].tag = tag /\ at + k \in Bytes(regions[x])

\* From the moment the boot loader's information is given up, everything the
\* kernel and the root task get to see of it stands in the block reserved for
\* it: both structures, the VBE information and all command lines, whichever
\* way the modules are moved around afterwards.
InfoIntact ==
  l4mi.at # 0 /\ fpc # "panic" =>
    /\ Stands("l4mi", 0, l4mi.at, InfoSize, NewTag)
    /\ Stands("l4m", 0, l4mi.at + InfoSize, EntrySize * Len(Mods), NewTag)
    /\ Info.flag => Stands("str", 0, l4mi.cmdline, Info.len, NewTag)
    /\ ModeAt # 0 => Stands("mode", 0, l4mi.mode, ModeSize, NewTag)
    /\ CtrlAt # 0 => Stands("ctrl", 0, l4mi.ctrl, CtrlSize, NewTag)
    /\ \A i \in DOMAIN Mods : Stands("str", i, l4mi.mods[i].cmdline, Mods[i].len, NewTag)

\* In the end every module of the boot loader stands where the copy of the
\* information says, complete and reserved, and firmware for the CPU is not
\* among the memory the root task gets.
ModulesDelivered ==
  fpc = "up" /\ l4mi.at # 0 =>
    \A i \in DOMAIN Mods :
      Stands("mod", i, l4mi.mods[i].start, Mods[i].end - Mods[i].start,
             IF i > 3 /\ Mods[i].fw THEN CpuFwTag ELSE ModTag)

=============================================================================
