------------------------------ MODULE BootFlow ------------------------------
(***************************************************************************)
(* startup() of startup.cc in image mode without compression: from the     *)
(* memory map to the jump into the kernel.  One action is one phase, and   *)
(* the loops over the AMP nodes take one step per node.                    *)
(*                                                                         *)
(* Memory is a function of addresses: byte j of boot module k is <<k, j>>. *)
(* A boot module that is an ELF image has program headers, of type load,   *)
(* dynamic or kip; its ELF header is byte 0.  The KIPs are kept beside     *)
(* memory, one for each node.  A panic stops the boot.                     *)
(***************************************************************************)
EXTENDS RegionOps, ModInfo

CONSTANTS
  SuperPage,  \* L4_SUPERPAGESIZE, the alignment of a relocated kernel
  Grain,      \* the 1 KiB conventional memory is trimmed to
  Setups      \* the inputs, see SetupAssumption

Zero == <<0, 0>>
Other == <<0, 1>>
Preset == <<0, 2>>
Mbi == <<0, 3>>
Info == <<0, 4>>
None == MaxAddr + 1     \* no address

\* A region's tag: its type and, for an ELF image, its name.
Tag(t, k) == <<t, k>>
BootTag == Tag("boot", 0)
InfoTag == Tag("boot", 1)       \* .modinfo
ModTag == Tag("mod", 0)
MbiTag == Tag("mbi", 0)
KmemTag == Tag("kmem", 0)

Phdr == [type : {"load", "dynamic", "kip"}, paddr : Addr, memsz : Nat, filesz : Nat,
         offset : Nat, align : Addr \ {0}]

Module == [kind : {"kernel", "sigma0", "root", "other"}, size : Addr \ {0},
           attrs : Seq(Byte), phdrs : Seq(Phdr)]

ASSUME SetupAssumption ==
  /\ SuperPage \in Addr \ {0} /\ Grain \in Addr \ {0}
  /\ \A s \in Setups :
       /\ s.mods \in Seq(Module)
       /\ s.start \in [DOMAIN s.mods -> Addr]   \* where the modules lie
       /\ s.boot \in Region              \* .bootstrap
       /\ s.image \in Addr               \* the address of image_info
       /\ s.header \in Addr              \* module_header: behind image_info; 0 if not set
       /\ s.strings \in Seq(Addr \X Addr) \* names, command lines and sums: address and size
       /\ s.mem \in Seq(Region)           \* -mem=, or the platform's map
       /\ s.maxmem \in Nat                \* -maxmem=
       /\ s.sysalloc \in Seq(Region)      \* -sysalloc=
       /\ s.kmem \in Seq(Region)          \* -kmemarea= of the kernel
       /\ s.modaddr \in Addr              \* -modaddr=
       /\ s.preset \in BOOLEAN            \* -presetmem=
       /\ s.memEnd \in Addr               \* mem_end
       /\ s.kips \in Seq(Nat)             \* the node of each KIP
       /\ s.kopts \in Seq(Nat)            \* the node of each options record
       /\ s.meant \in [DOMAIN s.mods -> SUBSET Nat] \* the nodes each module is meant for
       /\ s.utest \in BOOLEAN             \* -utest_opts= of the kernel
       /\ s.mbiSize \in Nat \ {0}

VARIABLES
  in,        \* the setup
  ram, sysalloc, regions,
  data,      \* the contents of memory
  nodesOf,   \* the nodes is_for_node() accepts for each module
  start,     \* the address of each module
  offset,    \* fiasco_offset, sigma0_offset, roottask_offset
  kips,      \* what each node's KIP says
  mbi,       \* the module information handed to the root task
  node,      \* the index of the loop over nodes
  filled,    \* history: fill_mem() has run
  pc

vars == <<in, ram, sysalloc, regions, data, nodesOf, start, offset, kips, mbi, node, filled, pc>>

NumNodes == 2
Nodes == 0..(NumNodes - 1)
Mods == DOMAIN in.mods
Loads(k) == SelectSeq(in.mods[k].phdrs, LAMBDA p : p.type = "load" /\ p.memsz # 0)
EmptyKip == [strings |-> "none", sigma0 |-> None, root |-> None, mbi |-> None, md |-> <<>>]

\* image_info.module_header is relative until init_modules_infos().
ModHeader == in.image + in.header

HeaderAlign == 2        \* mod_header lies at a multiple of eight bytes.

\* modinfo_gen_payload_size(): the end of the last string
PayloadEnd == Max({ in.strings[i][1] + in.strings[i][2] : i \in DOMAIN in.strings })

InfoRegion == StartSize(ModHeader, PayloadEnd - ModHeader, InfoTag)

\* The bytes of the strings
InfoBytes ==
  UNION { in.strings[i][1]..(in.strings[i][1] + in.strings[i][2] - 1) : i \in DOMAIN in.strings }

Init ==
  /\ in \in Setups
  /\ ram = <<>> /\ sysalloc = <<>> /\ regions = <<>>
  /\ start = in.start
  /\ nodesOf = [k \in Mods |-> { n \in Nodes : IsForNode(in.mods[k].attrs, n) }]
  /\ data = [a \in Addr |->
       LET inside == { k \in Mods : a \in in.start[k]..(in.start[k] + in.mods[k].size - 1) }
       IN IF inside = {} THEN (IF a \in InfoBytes THEN Info ELSE Other)
          ELSE LET k == Min(inside) IN <<k, a - in.start[k]>>]
  /\ offset = [k \in Mods |-> [n \in Nodes |-> None]]
  /\ kips = [n \in Nodes |-> [EmptyKip EXCEPT !.strings = IF n = 0 THEN "placeholder" ELSE "none"]]
  /\ mbi = None
  /\ node = 0
  /\ filled = FALSE
  /\ pc = "info"

Panic ==
  /\ pc' = "panic"
  /\ UNCHANGED <<in, ram, sysalloc, regions, data, nodesOf, start, offset, kips, mbi, node, filled>>

\* The next node, or the next phase after the last one
NextNode(here, there) ==
  /\ node' = IF node + 1 < NumNodes THEN node + 1 ELSE 0
  /\ pc' = IF node + 1 < NumNodes THEN here ELSE there

-----------------------------------------------------------------------------
(* The memory map *)

\* ram.add() below the limit of -maxmem=
RamAdded(list, r) == AddedUpTo(list, r, in.maxmem)

SetupMemoryMap ==
  /\ pc = "map"
  /\ LET Upto(i) == FoldLeft(RamAdded, <<>>, SubSeq(in.mem, 1, i))
     IN IF \E i \in DOMAIN in.mem : AddUpToPanics(Upto(i - 1), in.mem[i], in.maxmem) THEN Panic
        ELSE /\ ram' = Upto(Len(in.mem))
             /\ pc' = "regions"
             /\ UNCHANGED <<in, sysalloc, regions, data, nodesOf, start, offset, kips, mbi, node, filled>>

\* init_modules_infos(): the image must have been post-processed, and its
\* header lies at an aligned address (an assertion).
InitModulesInfos ==
  /\ pc = "info"
  /\ IF in.header = 0 \/ ModHeader % HeaderAlign # 0 THEN Panic
     ELSE /\ pc' = "map"
          /\ UNCHANGED <<in, ram, sysalloc, regions, data, nodesOf, start, offset, kips, mbi, node, filled>>

\* init_regions() of bootstrap, of the platform and of its boot modules
ModRegion(k, t) == StartSize(start[k], in.mods[k].size, t)

ModRegions == <<InfoRegion>> \o [k \in Mods |-> ModRegion(k, ModTag)]

InitRegions ==
  /\ pc = "regions"
  /\ LET new == <<in.boot>> \o ModRegions
     IN IF AddAllPanics(<<>>, new) THEN Panic
        ELSE /\ regions' = AddAll(<<>>, new)
             /\ pc' = "sysalloc"
             /\ UNCHANGED <<in, ram, sysalloc, data, nodesOf, start, offset, kips, mbi, node, filled>>

\* A -sysalloc= region counts if it meets RAM; without any option it is all
\* of memory.
SetupSysalloc ==
  /\ pc = "sysalloc"
  /\ LET met == SelectSeq(in.sysalloc, LAMBDA r : Find(ram, r) # 0)
         list == AddAll(<<>>, met)
     IN IF AddAllPanics(<<>>, met) \/ (in.sysalloc # <<>> /\ list = <<>>) THEN Panic
        ELSE /\ sysalloc' = IF in.sysalloc = <<>> THEN <<Interval(0, MaxAddr, BootTag)>>
                            ELSE Optimized(list)
             /\ pc' = "kernel"
             /\ UNCHANGED <<in, ram, regions, data, nodesOf, start, offset, kips, mbi, node, filled>>

-----------------------------------------------------------------------------
(* The layout of the ELF images: add_elf_regions() *)

\* base_mod_idx(): the first module of that kind for the node, 0 if none
BaseMod(kind, n) ==
  SelectInSeq([k \in Mods |-> k], LAMBDA k : in.mods[k].kind = kind /\ n \in nodesOf[k])

KernelMod == BaseMod("kernel", 0)

\* find_region_overlap(): modules will be moved out of the way.
Blocked(list, r) == \E i \in DOMAIN list : Overlaps(list[i], r) /\ list[i].tag # ModTag

\* l4_exec_gather_info(): the image cannot stay where it was linked.
NeedsRelocation(k) ==
  \/ FindAttr(in.mods[k].attrs, RelocKey) # <<>>
  \/ \E i \in DOMAIN Loads(k) :
       LET r == StartSize(Loads(k)[i].paddr, Loads(k)[i].memsz, BootTag)
       IN FindContaining(sysalloc, r) = 0 \/ FindContaining(ram, r) = 0 \/ Blocked(regions, r)

HasDynamic(k) == \E i \in DOMAIN in.mods[k].phdrs :
                   in.mods[k].phdrs[i].type = "dynamic" /\ in.mods[k].phdrs[i].memsz # 0

First(k) == Min({ Loads(k)[i].paddr : i \in DOMAIN Loads(k) })
Final(k) == Max({ Loads(k)[i].paddr + Loads(k)[i].memsz - 1 : i \in DOMAIN Loads(k) })
Alignment(k, least) == Max({ Loads(k)[i].align : i \in DOMAIN Loads(k) } \cup {least})

\* The address a relocated image is loaded at: behind bootstrap for
\* the kernel, if there is room.  0 stands for "not enough free memory".
Place(k, least) ==
  LET a == Alignment(k, least)
      size == Final(k) - TruncSize(First(k), a) + 1
      above == LowestHole(ram, sysalloc, regions, size, in.boot.begin, a)
      any == LowestHole(ram, sysalloc, regions, size, 1, a)
  IN IF in.mods[k].kind = "kernel" /\ above # 0 THEN above ELSE any

ElfOffset(k, least) ==
  IF NeedsRelocation(k) /\ HasDynamic(k) /\ Loads(k) # <<>>
  THEN Place(k, least) - TruncSize(First(k), Alignment(k, least))
  ELSE 0

NoPlace(k, least) ==
  NeedsRelocation(k) /\ HasDynamic(k) /\ Loads(k) # <<>> /\ Place(k, least) = 0

Segment(k, i, off) ==
  StartSize(Loads(k)[i].paddr + off, Loads(k)[i].memsz, Tag(in.mods[k].kind, k))

\* Mutant: the segments of root tasks are not reserved.
WithSegments_NoRoot(list, k, off) ==
  IF in.mods[k].kind = "root" THEN list
  ELSE FoldLeft(LAMBDA l, i : AddedOver(l, Segment(k, i, off)), list, [j \in DOMAIN Loads(k) |-> j])

\* l4_exec_add_region() for every segment
WithSegments(list, k, off) ==
  FoldLeft(LAMBDA l, i : AddedOver(l, Segment(k, i, off)), list, [j \in DOMAIN Loads(k) |-> j])

SegmentsPanic(list, k, off) ==
  \E i \in DOMAIN Loads(k) :
    LET r == Segment(k, i, off)
        before == FoldLeft(LAMBDA l, j : AddedOver(l, Segment(k, j, off)), list, [j \in 1..(i - 1) |-> j])
        s == Find(sysalloc, r)
    IN Blocked(before, r) \/ s = 0 \/ ~Encloses(sysalloc[s], r)

LayoutPanics(k, least) == NoPlace(k, least) \/ SegmentsPanic(regions, k, ElfOffset(k, least))

KernelRegions ==
  /\ pc = "kernel"
  /\ LET k == KernelMod IN
     IF k = 0 \/ LayoutPanics(k, SuperPage) THEN Panic
     ELSE LET off == ElfOffset(k, SuperPage) IN
       /\ offset' = [offset EXCEPT ![k] = [n \in Nodes |-> off]]
       /\ regions' = WithSegments(regions, k, off)
       /\ pc' = "sigma0"
       /\ UNCHANGED <<in, ram, sysalloc, data, nodesOf, start, kips, mbi, node, filled>>

HasKipHeader(k) == \E i \in DOMAIN in.mods[k].phdrs : in.mods[k].phdrs[i].type = "kip"

\* search_kip(): KIPs are a page apart, in any order.
SearchKip(n) == n \in Range(in.kips)

\* kip_exists_for_node(): looked up in the file, assumed without a header
KipExists(n) == HasKipHeader(KernelMod) => SearchKip(n)

\* One image of one node: sigma0, then the root task
NodeRegions(kind, here, there) ==
  /\ pc = here
  /\ LET k == BaseMod(kind, node)
         Go == IF kind = "sigma0" THEN pc' = there /\ UNCHANGED node
                                  ELSE NextNode("sigma0", there)
     IN IF k = 0 \/ ~KipExists(node)
        THEN Go /\ UNCHANGED <<in, ram, sysalloc, regions, data, nodesOf, start, offset, kips, mbi, filled>>
        ELSE IF LayoutPanics(k, 1) THEN Panic
        ELSE LET off == ElfOffset(k, 1) IN
          /\ offset' = [offset EXCEPT ![k][node] = off]
          /\ regions' = WithSegments(regions, k, off)
          /\ Go
          /\ UNCHANGED <<in, ram, sysalloc, data, nodesOf, start, kips, mbi, filled>>

Sigma0Regions == NodeRegions("sigma0", "sigma0", "root")
RootRegions == NodeRegions("root", "root", "mbi")

-----------------------------------------------------------------------------
(* construct_mbi(): the modules are compacted, and described to the root   *)
(* task, the ELF images first.                                             *)

Pages(k) == RoundPage(in.mods[k].size)
PageSum(ks) == FoldSet(LAMBDA k, n : n + Pages(k), 0, ks)

\* Where move_modules() puts the modules when the area begins at `to': in the
\* order of their addresses, one behind the other
Targets(to) ==
  LET sorter == SortSeq([k \in Mods |-> k], LAMBDA j, k : start[j] < start[k])
      Next_(w, k) == [cursor |-> w.cursor + Pages(k), of |-> w.of @@ (k :> w.cursor)]
  IN FoldLeft(Next_, [cursor |-> to, of |-> <<>>], sorter).of

\* Memory when the modules lie at their targets, those moved followed by zeros
Moved(t) ==
  LET ByteOf(k, j) == IF j < in.mods[k].size THEN data[start[k] + j] ELSE Zero
      Hit(a) == { k \in Mods : t[k] # start[k] /\ a \in t[k]..(t[k] + Pages(k) - 1) }
  IN [a \in Addr |-> IF Hit(a) = {} THEN data[a]
                     ELSE LET k == Min(Hit(a)) IN ByteOf(k, a - t[k])]

MbiOrder ==
  LET all == [k \in Mods |-> k]
  IN SelectSeq(all, LAMBDA k : in.mods[k].kind # "other")
       \o SelectSeq(all, LAMBDA k : in.mods[k].kind = "other")

ConstructMbi ==
  /\ pc = "mbi"
  /\ LET free == SelectSeq(regions, LAMBDA r : r.tag # ModTag)
         addr == RoundPage(in.modaddr)
         to == LowestHole(ram, sysalloc, free, PageSum(Mods), addr, PageSize)
         t == Targets(to)
         withMods == Optimized(FoldSet(LAMBDA k, l : Added(l, StartSize(t[k], in.mods[k].size, ModTag)),
                                       free, Mods))
         moved == Moved(t)
         at == LowestHole(ram, sysalloc, withMods, RoundPage(in.mbiSize), addr, PageSize)
     IN IF to = 0 \/ at = 0 THEN Panic
        ELSE
          /\ start' = t
          /\ regions' = Optimized(Added(withMods, StartSize(at, RoundPage(in.mbiSize), MbiTag)))
          /\ mbi' = [at |-> at, mods |-> [i \in Mods |->
                       LET k == MbiOrder[i]
                       IN [mod |-> k, start |-> t[k], size |-> in.mods[k].size]]]
          /\ data' = [a \in Addr |-> IF a \in mbi'.at..(mbi'.at + in.mbiSize - 1) THEN Mbi ELSE moved[a]]
          /\ pc' = "load"
          /\ UNCHANGED <<in, ram, sysalloc, nodesOf, offset, kips, node, filled>>

-----------------------------------------------------------------------------
(* Loading: load_elf_module(), l4_exec_read_exec() *)

\* exec_load_elf() accepts the file.
ElfOk(k) == data[start[k]] = <<k, 0>>

\* Mutant: the memory behind the contents of the file is left as it is.
LoadedData_NoBss(d, k, off) ==
  FoldLeft(LAMBDA m, p :
             [a \in Addr |->
                LET j == a - (p.paddr + off)
                IN IF j < 0 \/ j >= p.filesz THEN m[a] ELSE m[start[k] + p.offset + j]],
           d, Loads(k))

\* The segments of module k copied to where they run, the rest zeroed
LoadedData(d, k, off) ==
  FoldLeft(LAMBDA m, p :
             [a \in Addr |->
                LET j == a - (p.paddr + off)
                IN IF j < 0 \/ j >= p.memsz THEN m[a]
                   ELSE IF j < p.filesz THEN m[start[k] + p.offset + j] ELSE Zero],
           d, Loads(k))

LoadPanics(k, off) ==
  \/ ~ElfOk(k)
  \/ \E i \in DOMAIN Loads(k) :
       LET r == Segment(k, i, off)
       IN FindContaining(sysalloc, r) = 0 \/ FindContaining(ram, r) = 0
          \/ Find(regions, [r EXCEPT !.end = r.begin]) = 0

\* The memory of the file is freed: whole pages, or just the file.
Freed(list, k) ==
  LET whole == StartSize(start[k], Pages(k), ModTag)
  IN IF SubFinds(list, whole) THEN Subtracted(list, whole)
     ELSE Subtracted(list, ModRegion(k, ModTag))

Entry(k, off) == Loads(k)[1].paddr + off

\* find_kip() reads the ELF header of the kernel's file.
FindKipPanics == ~ElfOk(KernelMod) \/ ~HasKipHeader(KernelMod)

LoadKernel ==
  /\ pc = "load"
  /\ LET k == KernelMod
         off == offset[k][0]
     IN IF LoadPanics(k, off) \/ FindKipPanics \/ ~SearchKip(0) THEN Panic
        ELSE /\ data' = LoadedData(data, k, off)
             /\ regions' = Freed(regions, k)
             /\ pc' = "kmem"
             /\ UNCHANGED <<in, ram, sysalloc, nodesOf, start, offset, kips, mbi, node, filled>>

\* setup_kmem_areas(): the unused RAM of the areas
KmemHoles ==
  LET free == (Covered(in.kmem) \cap Covered(ram)) \ Covered(regions)
      begins == { a \in free : a - 1 \notin free }
      EndOf(b) == Min({ e \in free : e >= b /\ e + 1 \notin free })
  IN { Interval(b, EndOf(b), KmemTag) : b \in begins }

KmemAreas ==
  /\ pc = "kmem"
  /\ regions' = FoldSet(LAMBDA h, l : Added(l, h), regions, KmemHoles)
  /\ pc' = "setup"
  /\ UNCHANGED <<in, ram, sysalloc, data, nodesOf, start, offset, kips, mbi, node, filled>>

\* Mutant: the start addresses of the previous node are kept.
EntryOf_Kept(kind, n) ==
  LET k == BaseMod(kind, n)
      p == BaseMod(kind, 0)
  IN IF k # 0 THEN Entry(k, offset[k][n])
     ELSE IF p # 0 THEN Entry(p, offset[p][0]) ELSE 0

\* boot_info.sigma0_start, boot_info.roottask_start
EntryOf(kind, n) ==
  LET k == BaseMod(kind, n) IN IF k = 0 THEN 0 ELSE Entry(k, offset[k][n])

\* find_kopts(): a record for the node, or the page behind the KIP
FindsKopts(n) == in.kopts = <<>> \/ n \in Range(in.kopts)

\* copy_kip_feature_string(): only the first KIP has strings of its own.
KipStrings == kips[0].strings

\* search_and_setup_utest_feature(): the placeholder takes the kernel's option,
\* cut off if it is longer.
UtestFeature(strings) == IF in.utest /\ strings # "none" THEN "options" ELSE strings

\* PART TWO: load sigma0 and the root task of a node, and fill in its KIP.
SetupNode ==
  /\ pc = "setup"
  /\ LET s == BaseMod("sigma0", node)
         r == BaseMod("root", node)
         mine == SelectSeq(<<s, r>>, LAMBDA k : k # 0)
     IN IF node # 0 /\ FindKipPanics THEN Panic
        ELSE IF ~SearchKip(node)
        THEN NextNode("setup", "fill")
             /\ UNCHANGED <<in, ram, sysalloc, regions, data, nodesOf, start, offset, kips, mbi, filled>>
        ELSE IF \/ \E i \in DOMAIN mine : LoadPanics(mine[i], offset[mine[i]][node])
                \/ ~ElfOk(KernelMod) \/ ~FindsKopts(node)
        THEN Panic
        ELSE
          /\ data' = FoldLeft(LAMBDA d, k : LoadedData(d, k, offset[k][node]), data, mine)
          /\ regions' = FoldLeft(Freed, regions, mine)
          /\ kips' = [kips EXCEPT ![node].strings = UtestFeature(KipStrings),
                                  ![node].sigma0 = EntryOf("sigma0", node),
                                  ![node].root = EntryOf("root", node),
                                  ![node].mbi = mbi.at]
          /\ NextNode("setup", "fill")
          /\ UNCHANGED <<in, ram, sysalloc, nodesOf, start, offset, mbi, filled>>

-----------------------------------------------------------------------------
(* fill_mem() *)

\* Mutant: the last byte of a region is filled.
Behind_Last(z) == z.end

\* The next byte to look at behind a region: 0 behind one that ends at ~0UL
Behind(z) == Word(z.end + 1)

\* The bytes of RAM region r that no region of the sorted list uses
Unused(r) ==
  LET last == Min({r.end, in.memEnd})
      f == FoldLeft(LAMBDA w, z :
             IF w.stop \/ z.end < w.at THEN w
             ELSE IF z.begin > last THEN [w EXCEPT !.stop = TRUE]
             ELSE [at |-> Behind(z), bytes |-> w.bytes \cup (w.at..(z.begin - 1)), stop |-> FALSE],
             [at |-> r.begin, bytes |-> {}, stop |-> FALSE], regions)
  IN IF r.begin > in.memEnd THEN {} ELSE f.bytes \cup (f.at..last)

FillMem ==
  /\ pc = "fill"
  /\ LET bytes == UNION { Unused(ram[i]) : i \in DOMAIN ram }
     IN data' = IF in.preset THEN [a \in Addr |-> IF a \in bytes THEN Preset ELSE data[a]] ELSE data
  /\ filled' = in.preset
  /\ pc' = "finalize"
  /\ UNCHANGED <<in, ram, sysalloc, regions, nodesOf, start, offset, kips, mbi, node>>

\* finalize_mod_regions()
ModsFinalized(list) == Subtracted(list, InfoRegion)

\* .modinfo, then .bootstrap cease to exist.
FinalizeRegions ==
  /\ pc = "finalize"
  /\ regions' = Optimized(Subtracted(ModsFinalized(regions), in.boot))
  /\ pc' = "md"
  /\ UNCHANGED <<in, ram, sysalloc, data, nodesOf, start, offset, kips, mbi, node, filled>>

-----------------------------------------------------------------------------
(* PART THREE: init_kip_md() and the jump into the kernel *)

\* Mutant: boot modules are taken for memory of the boot loader.
MemType_NoMods(t) ==
  CASE t[1] \in {"boot", "mod"} -> "none"
    [] t[1] = "kmem" -> "kmem"
    [] t[1] = "kernel" -> "reserved"
    [] t[1] = "sigma0" -> "dedicated"
    [] t[1] \in {"root", "mbi"} -> "bootloader"

\* Region types to memory descriptors
MemType(t) ==
  CASE t[1] = "boot" -> "none"
    [] t[1] = "kmem" -> "kmem"
    [] t[1] = "kernel" -> "reserved"
    [] t[1] = "sigma0" -> "dedicated"
    [] t[1] \in {"root", "mod", "mbi"} -> "bootloader"

Conventional(r) ==
  Interval(RoundSize(r.begin, Grain), TruncSize(r.end + 1, Grain) - 1, "conventional")

MemDescs ==
  [i \in DOMAIN ram |-> Conventional(ram[i])]
    \o [i \in DOMAIN SelectSeq(regions, LAMBDA r : MemType(r.tag) # "none") |->
          LET r == SelectSeq(regions, LAMBDA x : MemType(x.tag) # "none")[i]
          IN Interval(r.begin, r.end, MemType(r.tag))]

\* The KIP of the first node is known; the others are looked up again, in
\* the ELF file of the kernel.
InitKipMd ==
  /\ pc = "md"
  /\ IF node # 0 /\ FindKipPanics THEN Panic
     ELSE /\ kips' = IF SearchKip(node) THEN [kips EXCEPT ![node].md = MemDescs] ELSE kips
          /\ NextNode("md", "boot")
          /\ UNCHANGED <<in, ram, sysalloc, regions, data, nodesOf, start, offset, mbi, filled>>

Stopped == pc \in {"boot", "panic"} /\ UNCHANGED vars

Next ==
  \/ InitModulesInfos \/ SetupMemoryMap \/ InitRegions \/ SetupSysalloc
  \/ KernelRegions \/ Sigma0Regions \/ RootRegions
  \/ ConstructMbi \/ LoadKernel \/ KmemAreas \/ SetupNode
  \/ FillMem \/ FinalizeRegions \/ InitKipMd
  \/ Stopped

Spec == Init /\ [][Next]_vars

-----------------------------------------------------------------------------
(* Properties *)

BaseMods == { k \in Mods : in.mods[k].kind # "other" }
Intact(k) == \A j \in 0..(in.mods[k].size - 1) : data[start[k] + j] = <<k, j>>

\* Type invariant of the boot flow.
TypeOK ==
  /\ ram \in Seq(Region) /\ sysalloc \in Seq(Region) /\ regions \in Seq(Region)
  /\ data \in [Addr -> (0..Len(in.mods)) \X Addr]
  /\ start \in [Mods -> Addr]
  /\ node \in Nodes

\* startup(): "we have to ensure that the original ELF binaries are not
\* modified or overwritten up to this point", although load_elf_module() has
\* freed their memory: until fill_mem() every ELF file is as it was loaded.
SourcesIntact ==
  pc \in {"kernel", "sigma0", "root", "mbi", "load", "kmem", "setup", "fill"}
    => \A k \in BaseMods : Intact(k)

\* fill_mem() met a region that ends at ~0UL: "the further space that we
\* examine" then starts at 0 again, and memory in use is filled, too.
FillWrapped == filled /\ \E i \in DOMAIN regions : regions[i].end = MaxAddr

\* When the kernel is started, every segment of every image of a node with a
\* KIP is in memory at its place, file contents first, then zeros, whatever
\* was moved, loaded, freed and filled in between, but for a region that
\* reaches the end of the address space when memory is filled.
ImagesLoaded ==
  (pc = "boot" /\ ~FillWrapped) =>
    \A n \in Nodes \cap Range(in.kips), kind \in {"kernel", "sigma0", "root"} :
      LET k == BaseMod(kind, n) IN
      k # 0 => \A i \in DOMAIN Loads(k) : \A j \in 0..(Loads(k)[i].memsz - 1) :
        LET p == Loads(k)[i] IN
        data[p.paddr + offset[k][n] + j] =
          IF j < p.filesz THEN <<k, p.offset + j>> ELSE Zero

\* The modules that are not ELF images of the boot reach the root task intact
\* at the address the module information gives, and that information is
\* intact, too.
ModulesSurvive ==
  (pc = "boot" /\ ~FillWrapped) =>
    /\ \A a \in mbi.at..(mbi.at + in.mbiSize - 1) : data[a] = Mbi
    /\ \A i \in DOMAIN mbi.mods :
         LET m == mbi.mods[i] IN
         in.mods[m.mod].kind = "other" =>
           \A j \in 0..(m.size - 1) : data[m.start + j] = <<m.mod, j>>

\* The names and command lines of the modules, which are read again and again,
\* are still as they were when the kernel is started: the region for them reaches
\* from the header to the last one, in whichever order they lie.
InfoKept == (pc = "boot" /\ ~FillWrapped) => \A a \in InfoBytes : data[a] = Info

\* The memory the started system depends on.
Live ==
  UNION { Bytes(Segment(k, i, offset[k][n])) :
            <<k, n, i>> \in { x \in BaseMods \X Nodes \X (1..3) :
                               x[3] \in DOMAIN Loads(x[1]) /\ offset[x[1]][x[2]] # None } }
    \cup (mbi.at..(mbi.at + in.mbiSize - 1))
    \cup UNION { Bytes(ModRegion(k, ModTag)) : k \in Mods \ BaseMods }

\* No KIP offers memory in use as free: each such byte has a descriptor
\* besides the conventional one, in the KIP of every node.
KipDescribes ==
  pc = "boot" =>
    \A n \in Nodes \cap Range(in.kips) :
      \A a \in Live : \E i \in DOMAIN kips[n].md :
        a \in Bytes(kips[n].md[i]) /\ kips[n].md[i].tag # "conventional"

\* The module of a kind for node n as the image's author meant it, 0 if none
Meant(kind, n) ==
  SelectInSeq([k \in Mods |-> k], LAMBDA k : in.mods[k].kind = kind /\ n \in in.meant[k])

\* Every node's KIP has the entry points of the images meant for it, within the
\* memory of those images, and 0 for an image the node does not have, and the
\* feature strings of the first KIP, the kernel's test options included.
KipsComplete ==
  pc = "boot" =>
    \A n \in Nodes \cap Range(in.kips) :
      LET Right(kind, ip) ==
            LET k == Meant(kind, n) IN
            IF k = 0 THEN ip = 0
            ELSE \E i \in DOMAIN regions :
                   ip \in Bytes(regions[i]) /\ regions[i].tag = Tag(kind, k)
      IN /\ Right("sigma0", kips[n].sigma0)
         /\ Right("root", kips[n].root)
         /\ kips[n].mbi = mbi.at
         /\ kips[n].strings = IF in.utest THEN "options" ELSE "placeholder"

\* "The ELF binaries for the kernel, sigma0, and roottask must no longer be
\* used from here on": filling free memory cannot make the boot fail.
PresetHarmless == filled => pc # "panic"

\* Through all phases of startup() the state stays well formed and the ELF
\* files are intact while they are needed.
SourcesKept == TypeOK /\ SourcesIntact

\* What startup() hands over besides the images arrives: modules, the
\* information on them, and their names and command lines, again but for a
\* region that reaches the end of the address space when memory is filled.
HandedOver == ModulesSurvive /\ InfoKept

=============================================================================
