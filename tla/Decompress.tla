----------------------------- MODULE Decompress -----------------------------
(***************************************************************************)
(* Boot_modules_image_mode::decompress_mods() of boot_modules.cc: the boot *)
(* modules of a compressed image are unpacked into one contiguous area.    *)
(* If no free RAM lies in front of them, the area may overlap the packed   *)
(* images: it is placed such that, unpacking in the right order, no image  *)
(* is overwritten before it has been unpacked.  Then the base modules      *)
(* (kernel, sigma0, roottask), unpacked already, are moved out of the way  *)
(* of the ELF segments.                                                    *)
(*                                                                         *)
(* A byte of memory holds byte k of the image of module m as it was loaded *)
(* (<<m, 0, k>>) or as it is unpacked (<<m, 1, k>>), zero, or something    *)
(* else.  The tag of a module's region is the module's index; ElfTag is    *)
(* the tag of every other region.  Addresses are unsigned: they wrap.      *)
(***************************************************************************)
EXTENDS Regions

CONSTANTS
  ElfTag,     \* the tag of regions that do not belong to a module
  MinRam,     \* sizeof(unsigned long), the lowest address handed out
  Setups      \* the inputs: records [mods, ram, busy, modaddr]; mods is a
              \* sequence of records [start, size, usize, base]

Zero == <<0, 0, 0>>
Other == <<0, 0, 1>>

Module == [start : Addr, size : Addr \ {0}, usize : Addr \ {0}, base : BOOLEAN]

\* There is a module to unpack: "mod_header->num_mods() > Num_base_modules".
ASSUME SetupAssumption ==
  /\ ElfTag \in Tags
  /\ MinRam \in Addr \ {0}
  /\ Setups \subseteq [mods : Seq(Module), ram : Seq(Region), busy : Seq(Region), modaddr : Addr]
  /\ \A s \in Setups : /\ DOMAIN s.mods \subseteq Tags
                       /\ \E m \in DOMAIN s.mods : ~s.mods[m].base

VARIABLES
  in,        \* the input
  start,     \* Mod_info::_start of each module
  size,      \* Mod_info::_size of each module
  data,      \* the contents of memory
  list,      \* the list regions
  rdest, rpos, ldest, lpos,   \* the areas tried behind and before the images
  destbuf,   \* where the next module goes
  fwd,       \* the order of unpacking
  i,         \* the loop variable of the running loop
  pc

vars == <<in, start, size, data, list, rdest, rpos, ldest, lpos, destbuf, fwd, i, pc>>

Count == Len(in.mods)
Mods == 1..Count
Base(m) == in.mods[m].base
Unpacked(m) == in.mods[m].usize
Compressed(m) == size[m] # Unpacked(m)

\* mod_sorter: the modules to unpack, by address
Sorter == SortSeq(SetToSeq({ m \in Mods : ~Base(m) }), LAMBDA x, y : in.mods[x].start < in.mods[y].start)

Total == FoldLeft(LAMBDA n, m : n + RoundPage(Unpacked(m)), 0, Sorter)

Span(b, n, t) == [begin |-> b, end |-> b + n - 1, tag |-> t]

\* Mod_info::region(true) and region()
Rounded(m, b) == Span(b, RoundPage(Unpacked(m)), m)
ModRegion(m) == Span(start[m], size[m], m)

\* The memory the boot loader was handed
Loaded(s) ==
  [a \in Addr |->
     LET inside == { m \in DOMAIN s.mods :
                       a \in s.mods[m].start..(s.mods[m].start + s.mods[m].size - 1) }
     IN IF inside = {} THEN Other
        ELSE LET m == CHOOSE x \in inside : TRUE IN <<m, 0, a - s.mods[m].start>>]

\* init_mod_regions() and l4_exec_add_region(): modules, then ELF segments
\* that may lie on top of them
Listed(s) ==
  LET WithMods == FoldLeft(LAMBDA l, m : Placed(l, Span(s.mods[m].start, s.mods[m].size, m)),
                           <<>>, [m \in DOMAIN s.mods |-> m])
  IN FoldLeft(LAMBDA l, r : Placed(l, r), WithMods, s.busy)

\* The result of find_free_ram(n, min): the lowest hole, or 0
LowestHole(l, n, min) ==
  LET len == RoundPage(n)
      low == IF min > MinRam THEN min ELSE MinRam
      holes == { a \in low..MaxAddr :
                   /\ a % PageSize = 0
                   /\ a + len - 1 <= MaxAddr
                   /\ FindContaining(in.ram, Span(a, len, ElfTag)) # 0
                   /\ Find(l, Span(a, len, ElfTag)) = 0 }
  IN IF holes = {} THEN 0 ELSE CHOOSE a \in holes : \A b \in holes : a <= b

Init ==
  /\ in \in Setups
  /\ start = [m \in Mods |-> in.mods[m].start]
  /\ size = [m \in Mods |-> in.mods[m].size]
  /\ data = Loaded(in)
  /\ list = Listed(in)
  /\ rdest = 0 /\ rpos = 0 /\ ldest = 0 /\ lpos = 0
  /\ destbuf = 0
  /\ fwd = TRUE
  /\ i = 1
  /\ pc = "place"

-----------------------------------------------------------------------------
(* Where to *)

\* The first attempts: free RAM, or around the first image
Place ==
  /\ pc = "place"
  /\ LET m0 == Sorter[1]
         r == RoundPage(start[m0] + size[m0])
         l == TruncPage(Word(start[m0] - Unpacked(m0)))
         d == LowestHole(list, Total, in.modaddr)
     IN /\ rdest' = r /\ rpos' = r
        /\ ldest' = l /\ lpos' = l
        /\ destbuf' = d
        /\ pc' = IF d = 0 \/ d > r THEN "adjust" ELSE "unpack"
  /\ UNCHANGED <<in, start, size, data, list, fwd, i>>

\* Mutant: the end of an image is not rounded up to its page.
RightDelta_NoRound(m) ==
  IF rpos < start[m] + size[m] THEN TruncPage(start[m] + size[m]) - rpos ELSE 0

\* Module m must go behind its image, so the area is shifted up,
RightDelta(m) ==
  IF rpos < start[m] + size[m] THEN RoundPage(start[m] + size[m]) - rpos ELSE 0

\* Mutant: the end of the module may touch the image.
LeftDelta_Trunc(m) ==
  LET e == Word(lpos + Unpacked(m))
  IN IF e > start[m] THEN TruncPage(e - start[m]) ELSE 0

\* or in front of it, so the area is shifted down.
LeftDelta(m) ==
  LET e == Word(lpos + Unpacked(m))
  IN IF e > start[m] THEN RoundPage(e - start[m]) ELSE 0

\* The area in front of the images cannot be shifted below address 0.
Room(delta) == ldest > delta

\* One iteration of the loop over all modules, in the order of the header
Adjust ==
  /\ pc = "adjust"
  /\ i <= Count
  /\ i' = i + 1
  /\ \/ /\ Base(i)
        /\ UNCHANGED <<list, rdest, rpos, ldest, lpos>>
     \/ /\ ~Base(i)
        /\ list' = SelectSeq(list, LAMBDA r : r.tag # i)
        /\ LET d == RightDelta(i)
               e == LeftDelta(i)
               fits == Room(e)
               n == RoundPage(Unpacked(i))
           IN /\ rdest' = rdest + d
              /\ rpos' = rpos + d + n
              /\ ldest' = IF ldest = 0 \/ e = 0 THEN ldest ELSE IF fits THEN ldest - e ELSE 0
              /\ lpos' = Word((IF ldest # 0 /\ e # 0 /\ fits THEN lpos - e ELSE lpos) + n)
  /\ UNCHANGED <<in, start, size, data, destbuf, fwd, pc>>

\* The area in front of the images, the one behind them, or free RAM there
Choose ==
  /\ pc = "adjust"
  /\ i > Count
  /\ LET Fits(d) == /\ FindContaining(in.ram, Span(d, Total, ElfTag)) # 0
                    /\ Find(list, Span(d, Total, ElfTag)) = 0
         wraps(d) == d + Total - 1 > MaxAddr
         left == ldest # 0 /\ Fits(ldest)
         right == Fits(rdest)
         d == IF left THEN ldest
              ELSE IF right THEN rdest ELSE LowestHole(list, Total, rdest)
     IN IF wraps(ldest) \/ (~left /\ wraps(rdest))
        THEN pc' = "failed" /\ UNCHANGED <<destbuf, fwd, i>>
        ELSE /\ fwd' = left
             /\ destbuf' = IF left \/ d = 0 THEN d ELSE d + Total
             /\ i' = IF left THEN 1 ELSE Len(Sorter)
             /\ pc' = IF d = 0 THEN "panic" ELSE "unpack"
  /\ UNCHANGED <<in, start, size, data, list, rdest, rpos, ldest, lpos>>

-----------------------------------------------------------------------------
(* Unpacking *)

\* The image of module m is complete where it lies.
Packed(m) == \A k \in 0..(in.mods[m].size - 1) : data[start[m] + k] = <<m, 0, k>>

\* decompress() needs the image, and memory apart from it: inflate() fails if
\* it overwrites its input.
Inflates(m, d) ==
  /\ Packed(m)
  /\ ~Overlaps(Span(d, Unpacked(m), m), ModRegion(m))

\* inflate(), or memmove() of a module that is not compressed
Written(m, d) ==
  [a \in Addr |-> IF a \in d..(d + Unpacked(m) - 1)
                  THEN IF Compressed(m) THEN <<m, 1, a - d>> ELSE data[start[m] + (a - d)]
                  ELSE data[a]]

\* inflate() that fails leaves something else behind.
Spoilt(m, d) == [a \in Addr |-> IF a \in d..(d + Unpacked(m) - 1) THEN Other ELSE data[a]]

\* decomp_move_mod(), decompress_mod(): drop_mod_region() removes the first
\* region of the module.
Unpack(m, d) ==
  LET k == SelectInSeq(list, LAMBDA r : r.tag = m)
      dropped == IF k = 0 THEN list ELSE RemoveAt(list, k)
      outside == FindContaining(in.ram, Span(d, Unpacked(m), m)) = 0
      broken == Compressed(m) /\ ~Inflates(m, d)
      clash == ~TooSmall(Rounded(m, d)) /\ Collides(dropped, Rounded(m, d))
  IN IF Compressed(m) /\ outside
     THEN pc' = "panic" /\ UNCHANGED <<start, size, data, list>>
     ELSE IF broken
     THEN pc' = "panic" /\ data' = Spoilt(m, d) /\ UNCHANGED <<start, size, list>>
     ELSE /\ data' = Written(m, d)
          /\ start' = [start EXCEPT ![m] = d]
          /\ size' = [size EXCEPT ![m] = Unpacked(m)]
          /\ list' = IF clash \/ TooSmall(Rounded(m, d)) THEN dropped
                     ELSE Placed(dropped, Rounded(m, d))
          /\ pc' = IF clash THEN "panic" ELSE pc

\* The next module in the order of addresses, or against it
UnpackNext ==
  /\ pc = "unpack"
  /\ i \in DOMAIN Sorter
  /\ LET m == Sorter[i]
         n == RoundPage(Unpacked(m))
     IN /\ Unpack(m, IF fwd THEN destbuf ELSE destbuf - n)
        /\ destbuf' = IF fwd THEN destbuf + n ELSE destbuf - n
  /\ i' = IF fwd THEN i + 1 ELSE i - 1
  /\ UNCHANGED <<in, rdest, rpos, ldest, lpos, fwd>>

TurnToBase ==
  /\ pc = "unpack"
  /\ i \notin DOMAIN Sorter
  /\ i' = 1
  /\ pc' = "base"
  /\ UNCHANGED <<in, start, size, data, list, rdest, rpos, ldest, lpos, destbuf, fwd>>

-----------------------------------------------------------------------------
(* The base modules *)

\* Mutant: only regions that cover the whole module count.
InTheWay_Whole(m) == \E k \in DOMAIN list : list[k].tag = ElfTag /\ Encloses(list[k], ModRegion(m))

\* An ELF segment is going to be loaded on top of the module.
InTheWay(m) == \E k \in DOMAIN list : list[k].tag = ElfTag /\ Overlaps(list[k], ModRegion(m))

\* _move_module(): memmove(), and memset() of the rest of the last page
Moved(m, d) ==
  [a \in Addr |-> IF a \in d..(d + size[m] - 1) THEN data[start[m] + (a - d)]
                  ELSE IF a \in (d + size[m])..(RoundPage(d + size[m]) - 1) THEN Zero
                  ELSE data[a]]

\* The new region has No_subtype, which is also the index of the first module;
\* the old region remains.
MoveBase ==
  /\ pc = "base"
  /\ i <= Count
  /\ i' = i + 1
  /\ \/ /\ ~(Base(i) /\ InTheWay(i))
        /\ UNCHANGED <<start, data, list, pc>>
     \/ /\ Base(i) /\ InTheWay(i)
        /\ LET d == LowestHole(list, size[i], 0) IN
           IF d = 0 THEN pc' = "panic" /\ UNCHANGED <<start, data, list>>
           ELSE /\ data' = Moved(i, d)
                /\ list' = IF size[i] = 1 THEN list ELSE Placed(list, Span(d, size[i], 1))
                /\ start' = [start EXCEPT ![i] = d]
                /\ UNCHANGED pc
  /\ UNCHANGED <<in, size, rdest, rpos, ldest, lpos, destbuf, fwd>>

Finish ==
  /\ pc = "base"
  /\ i > Count
  /\ pc' = "done"
  /\ UNCHANGED <<in, start, size, data, list, rdest, rpos, ldest, lpos, destbuf, fwd, i>>

Done == pc \in {"done", "panic", "failed"} /\ UNCHANGED vars

Next == Place \/ Adjust \/ Choose \/ UnpackNext \/ TurnToBase \/ MoveBase \/ Finish \/ Done
Spec == Init /\ [][Next]_vars

-----------------------------------------------------------------------------
(* Properties *)

\* Type invariant.
TypeOK ==
  /\ in \in Setups
  /\ start \in [Mods -> Addr] /\ size \in [Mods -> Addr]
  /\ data \in [Addr -> {Zero, Other} \cup (Mods \X {0, 1} \X Addr)]
  /\ list \in Seq(Region)
  /\ {ldest, lpos, rdest, destbuf} \subseteq Addr
  /\ fwd \in BOOLEAN
  /\ i \in 0..(Count + 1)
  /\ pc \in {"place", "adjust", "unpack", "base", "done", "panic", "failed"}

\* "We can do this, when we start decompression from the last module and
\* ensure that no decompressed module overlaps its compressed data": at every
\* moment every module is complete where it lies, packed or unpacked.
NoModuleLost ==
  \A m \in Mods :
    IF in.mods[m].size # Unpacked(m) /\ size[m] = Unpacked(m)
    THEN \A k \in 0..(Unpacked(m) - 1) : data[start[m] + k] = <<m, 1, k>>
    ELSE Packed(m)

\* Contiguous RAM for all modules, from modaddr on, that nothing lies in while
\* the images are where they were loaded, in front of them or behind them
FreeBeside ==
  LET low == in.mods[Sorter[1]].start
      high == in.mods[Last(Sorter)].start + in.mods[Last(Sorter)].size
  IN { a \in Addr : /\ a % PageSize = 0 /\ a >= MinRam /\ a >= in.modaddr
                    /\ a < low \/ a >= high
                    /\ a + Total - 1 <= MaxAddr
                    /\ a..(a + Total - 1) \cap Covered(Listed(in)) = {}
                    /\ \E k \in DOMAIN in.ram : a..(a + Total - 1) \subseteq Bytes(in.ram[k]) }

\* The boot loader gives up only if no RAM for the modules is free in front of
\* the images or behind them, though it searches twice, with and without them,
\* from different addresses; or if none is free for a base module.  In
\* particular no image is found damaged, and no area chosen turns out to be
\* occupied.  (RAM the images lie in themselves, or between them, may be left.)
PanicsOnlyWithoutRam ==
  pc = "panic" =>
    \/ destbuf = 0 /\ FreeBeside = {}
    \/ i > 1 /\ Base(i - 1) /\ LowestHole(list, size[i - 1], 0) = 0

\* When everything is in place no ELF segment will be loaded on top of a
\* module, no two modules overlap, and each of them is reserved.
ModulesSafe ==
  pc = "done" =>
    \A m \in Mods :
      /\ \A b \in DOMAIN in.busy : ~Overlaps(in.busy[b], ModRegion(m))
      /\ \A n \in Mods : n # m => ~Overlaps(ModRegion(n), ModRegion(m))
      /\ Bytes(ModRegion(m)) \subseteq Covered(list)

\* The assertions of class Region, "assert(_begin <= _end)", fail for one reason
\* alone: the first module unpacks to more than the memory below its image, so
\* that the area in front of it begins below address 0.
AssertionsHold ==
  pc = "failed" => in.mods[Sorter[1]].start < Unpacked(Sorter[1])

\* decompress_mods() keeps every module, packed or not, through all its moves.
UnpackedIntact == TypeOK /\ NoModuleLost

\* decompress_mods() stops for lack of RAM alone, above the images, below them
\* or below address 0: not for an image it has spoilt itself, nor for memory it
\* has lost sight of.
StopsOnlyWithoutRam == PanicsOnlyWithoutRam /\ AssertionsHold

=============================================================================
