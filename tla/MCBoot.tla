------------------------------- MODULE MCBoot -------------------------------
(***************************************************************************)
(* Boots of a kernel with one or two KIPs, sigma0, a root task for each    *)
(* node and a data module, in 20 pages of four bytes.                      *)
(***************************************************************************)
EXTENDS BootFlow

CONSTANTS
  Orders,     \* the orders of the modules in memory
  Links,      \* the link addresses of the kernel, sigma0 and root task
  Maps, ModAddrs, KipsAndKopts, Presets, Relocatable

MCTags == { Tag(t, k) : t \in {"boot", "mod", "kernel", "sigma0", "root", "mbi", "kmem", "ram"}, k \in 0..5 }

Load(p, m, f) == [type |-> "load", paddr |-> p, memsz |-> m, filesz |-> f,
                  offset |-> 1, align |-> PageSize]
Other_(t) == [type |-> t, paddr |-> 0, memsz |-> 1, filesz |-> 1, offset |-> 1, align |-> 1]
Dyn(d) == IF d THEN <<Other_("dynamic")>> ELSE <<>>

\* Attributes, with lengths of one or of two bytes each
Attr(key, val) == <<128, Len(key), Len(val)>> \o key \o val
WideAttr(key, val) == <<133, Len(key), 0, Len(val), 0>> \o key \o val

Unnamed == <<0>>                                        \* no attributes
Named == AttrMagic \o WideAttr(<<97>>, <<98, 99>>)      \* a=bc
Reloc == Named \o Attr(RelocKey, <<49>>) \o <<0>>      \* a=bc reloc=1
First0 == Named \o Attr(NodesKey, <<48, 58, 55>>) \o <<0>>              \* nodes=0:7
Second1 == Named \o WideAttr(NodesKey, <<49, 48, 58, 49, 45, 51>>) \o <<0>>  \* nodes=10:1-3

\* The kernel's image has a page for each KIP; the second root task belongs
\* to node 1 alone.
Mod(kind, size, attrs, phdrs) == [kind |-> kind, size |-> size, attrs |-> attrs, phdrs |-> phdrs]

MCMods(l, dyn, own) ==
  << Mod("kernel", 8, Unnamed, <<Load(l[1], 8, 5), Other_("kip")>> \o Dyn(dyn)),
     Mod("sigma0", 3, IF own THEN Reloc ELSE Named \o <<0>>, <<Load(l[2], 4, 2)>> \o Dyn(TRUE)),
     Mod("root", 4, First0, <<Load(l[3], 2, 2), Load(l[3] + 2, 4, 1)>> \o Dyn(dyn)),
     Mod("other", 5, Unnamed, <<>>) >>
  \o (IF own THEN <<Mod("root", 2, Second1, <<Load(l[3], 3, 1)>> \o Dyn(TRUE))>> ELSE <<>>)

MCMeant == << 0..9, 0..9, {0, 7}, 0..9, {1, 2, 3, 10} >>

\* The modules one behind the other, in whole pages, from page `at' on
Lay(mods, order, at) ==
  LET Before_(k) == { j \in DOMAIN mods : order[j] < order[k] }
      PagesOf(k) == RoundPage(mods[k].size)
  IN [k \in DOMAIN mods |-> at + FoldSet(LAMBDA j, n : n + PagesOf(j), 0, Before_(k))]

Whole == <<Interval(PageSize, MaxAddr, Tag("ram", 0))>>

\* Memory maps: all of it; two RAM regions, restricted by -sysalloc= and
\* -maxmem=; and with an area for the kernel, which reaches the end of the
\* address space or ends before the last page.
MCMaps ==
  { [mem |-> Whole, max |-> MaxAddr, sys |-> <<>>, kmem |-> <<>>],
    [mem |-> <<Interval(PageSize, 47, Tag("ram", 0)), Interval(48, MaxAddr, Tag("ram", 0))>>,
     max |-> MaxAddr - 2 * PageSize, sys |-> <<Interval(0, 3, BootTag), Interval(4, 83, BootTag)>>, kmem |-> <<>>],
    [mem |-> Whole, max |-> MaxAddr, sys |-> <<>>, kmem |-> <<Interval(40, MaxAddr, KmemTag)>>],
    [mem |-> Whole, max |-> MaxAddr, sys |-> <<>>, kmem |-> <<Interval(40, MaxAddr - PageSize, KmemTag)>>] }

\* Options that name the same memory twice
Twice ==
  { [mem |-> Whole \o <<Interval(40, 47, Tag("ram", 0))>>, max |-> MaxAddr + 1, sys |-> <<>>, kmem |-> <<>>],
    [mem |-> Whole, max |-> MaxAddr, sys |-> <<Interval(4, 83, BootTag), Interval(40, 47, BootTag)>>, kmem |-> <<>>] }

MCSetups ==
  { LET mods == MCMods(x.link, x.dyn, x.own)
    IN [mods |-> mods, start |-> Lay(mods, x.order, 3 * PageSize),
        boot |-> StartSize(PageSize, PageSize, BootTag),
        image |-> PageSize + 1, header |-> x.header,
        strings |-> <<<<8, 1>>, <<10, 2>>, <<9, 1>>>>, meant |-> SubSeq(MCMeant, 1, Len(mods)),
        mem |-> x.map.mem, maxmem |-> x.map.max, sysalloc |-> x.map.sys,
        kmem |-> x.map.kmem, modaddr |-> x.modaddr, preset |-> x.preset, utest |-> x.own,
        memEnd |-> MaxAddr - PageSize, kips |-> x.nodes[1], kopts |-> x.nodes[2], mbiSize |-> 3] :
    x \in [link : Links, dyn : Relocatable, own : BOOLEAN, order : Orders,
           map : Maps, modaddr : ModAddrs, preset : Presets, nodes : KipsAndKopts, header : {PageSize - 1}]
      \cup [link : {<<48, 60, 64>>}, dyn : {TRUE}, own : {TRUE}, order : {<<1, 2, 3, 4, 5>>},
            map : Maps, modaddr : {4}, preset : {FALSE}, nodes : KipsAndKopts, header : {0, PageSize}]
      \cup [link : {<<48, 60, 64>>}, dyn : {TRUE}, own : {TRUE}, order : {<<1, 2, 3, 4, 5>>},
            map : Twice, modaddr : {4}, preset : {FALSE}, nodes : KipsAndKopts, header : {PageSize - 1}] }

MCOrders == { <<1, 2, 3, 4, 5>>, <<5, 3, 2, 1, 4>>, <<2, 5, 4, 3, 1>> }
MCLinks == { <<48, 60, 64>>, <<12, 24, 32>>, <<40, 36, 72>> }
MCModAddrs == { 4, 30 }
MCKipsAndKopts == { <<<<0>>, <<0, 1>>>>, <<<<0, 1>>, <<0, 1>>>>, <<<<0, 1>>, <<0>>>> }
=============================================================================
