----------------------------- MODULE DeviceTree -----------------------------
(***************************************************************************)
(* The flattened device tree (dt.h, dt.cc): the cache of parents, the      *)
(* reading of array properties, the translation of addresses through the   *)
(* buses, the memory map the tree describes, the UART it names, and the    *)
(* place of the tree itself in the memory map.                             *)
(*                                                                         *)
(* A tree is the sequence of its nodes in the order of their offsets.      *)
(* A node has a depth, a name and properties; an array property is a       *)
(* sequence of cells of CellBase values each, two of which make an         *)
(* address.  Node 0 stands for an invalid node.  libfdt is external.       *)
(***************************************************************************)
EXTENDS RegionOps, FiniteSetsExt

CONSTANTS
  CellBase,    \* the values of a cell, 2^32
  StackLen,    \* Parent_cache::scan(): Stack_len
  CacheMax,    \* Parent_cache: Max_num_elems
  Machines     \* the machines: tree, memory reserve map, place of the tree, boot image

ASSUME CellAssumption == CellBase * CellBase = MaxAddr + 1

\* Nodes come in the order of a walk: below a node of the level above.  The
\* root is no interrupt controller.
ASSUME TreeAssumption ==
  /\ StackLen \in Nat /\ CacheMax \in Nat
  /\ \A m \in Machines :
       /\ Len(m.nodes) \in Nat /\ DOMAIN m.nodes = 1..Len(m.nodes)
       /\ \A n \in DOMAIN m.nodes :
            /\ m.nodes[n].depth \in Nat
            /\ m.nodes[n].depth > 0 =>
                 \E k \in 1..(n - 1) : m.nodes[k].depth = m.nodes[n].depth - 1
            /\ "interrupt-controller" \in DOMAIN m.nodes[n].props => m.nodes[n].depth > 0

VARIABLES
  dt,        \* the machine
  fdt,       \* Dt::_fdt, 0 for the null pointer
  cache,     \* Parent_cache::_cache
  stack,     \* scan(): parent_stack
  cur,       \* the node, or entry, an iteration has reached
  dpc,       \* how far the platform is
  ram,       \* mem_manager->ram
  sysalloc,  \* mem_manager->sysalloc
  regions,   \* mem_manager->regions
  kuart      \* the kernel's UART, kuart and kuart_flags

dvars == <<dt, fdt, cache, stack, cur, dpc, ram, sysalloc, regions, kuart>>

\* scan() does not initialise its stack: any node, or none, may be in it.
DInit ==
  /\ dt \in Machines
  /\ fdt = 0 /\ cache = <<>> /\ cur = 0
  /\ \E junk \in 0..Len(dt.nodes) : stack = [d \in 0..(StackLen - 1) |-> junk]
  /\ dpc = "dt"
  /\ ram = <<>> /\ sysalloc = <<>> /\ regions = <<>>
  /\ kuart = [flags |-> {}]

DPanic ==
  /\ dpc' = "panic"
  /\ UNCHANGED <<dt, fdt, cache, stack, cur, ram, sysalloc, regions, kuart>>

-----------------------------------------------------------------------------
(* The tree, as libfdt shows it *)

Nodes == DOMAIN dt.nodes
Depth(n) == dt.nodes[n].depth
HasProp(n, p) == p \in DOMAIN dt.nodes[n].props
Prop(n, p) == dt.nodes[n].props[p]
PropIs(n, p, v) == HasProp(n, p) /\ Prop(n, p) = v

\* fdt_parent_offset()
FdtParent(n) ==
  IF Depth(n) = 0 THEN 0 ELSE Max({ m \in 1..(n - 1) : Depth(m) = Depth(n) - 1 })

Children(n) == { m \in Nodes : m > n /\ FdtParent(m) = n }

\* node_by_path() of a node below the root
ByPath(name) ==
  LET hit == { n \in Nodes : Depth(n) = 1 /\ dt.nodes[n].name = name }
  IN IF hit = {} THEN 0 ELSE Min(hit)

\* node_by_compatible()
ByCompatible(c) ==
  LET hit == { n \in Nodes : PropIs(n, "compatible", c) }
  IN IF hit = {} THEN 0 ELSE Min(hit)

\* node_by_phandle()
ByPhandle(h) ==
  LET hit == { n \in Nodes : PropIs(n, "phandle", h) }
  IN IF hit = {} THEN 0 ELSE Min(hit)

IsEnabled(n) == HasProp(n, "status") => Prop(n, "status") \in {"ok", "okay"}

-----------------------------------------------------------------------------
(* Parent_cache *)

\* init(): without a tree, or with a broken one, check_for_dt() panics.
DtInit ==
  /\ dpc = "dt"
  /\ IF dt.at = 0 \/ ~dt.good THEN DPanic
     ELSE /\ fdt' = dt.at
          /\ cur' = 1
          /\ dpc' = "scan"
          /\ UNCHANGED <<dt, cache, stack, ram, sysalloc, regions, kuart>>

\* Mutant: the parent is looked up one level too deep.
StackedParent_Sibling(d) == IF d > 0 /\ d < StackLen THEN stack[d] ELSE 0

StackedParent(d) == IF d > 0 /\ d <= StackLen THEN stack[d - 1] ELSE 0

\* The depth fdt_next_node() counts: scan() starts at 0, so the root is at 1
\* and what it finds below it on the stack was never written.
ScanDepth(n) == Depth(n) + 1

\* scan(): the nodes of a depth below Stack_len, until the cache is full
ScanNode ==
  /\ dpc = "scan"
  /\ IF cur > Len(dt.nodes) \/ Len(cache) = CacheMax
     THEN dpc' = "kuart" /\ cur' = 0 /\ UNCHANGED <<cache, stack>>
     ELSE /\ IF ScanDepth(cur) < StackLen
             THEN /\ cache' = Append(cache, [node |-> cur, parent |-> StackedParent(ScanDepth(cur))])
                  /\ stack' = [stack EXCEPT ![ScanDepth(cur)] = cur]
             ELSE UNCHANGED <<cache, stack>>
          /\ cur' = cur + 1
          /\ UNCHANGED dpc
  /\ UNCHANGED <<dt, fdt, ram, sysalloc, regions, kuart>>

\* get_parent(): binary search, 0 for a node that is not cached
CachedParent(n) ==
  LET find[w \in [lo : 1..(Len(cache) + 1), hi : 0..Len(cache)]] ==
        LET i == w.lo + ((w.hi - w.lo) \div 2)
        IN IF w.lo > w.hi THEN 0
           ELSE IF cache[i].node = n THEN cache[i].parent
           ELSE IF cache[i].node > n THEN find[[w EXCEPT !.hi = i - 1]]
           ELSE find[[w EXCEPT !.lo = i + 1]]
  IN find[[lo |-> 1, hi |-> Len(cache)]]

\* parent_node()
ParentNode(n) == IF CachedParent(n) = 0 THEN FdtParent(n) ELSE CachedParent(n)

-----------------------------------------------------------------------------
(* Array properties *)

\* read_value()
ReadValue(cells) == FoldLeft(LAMBDA v, c : Word(v * CellBase + c), 0, cells)

\* Array_prop: the number of elements of the given cell counts, and a field
ElemSize(sizes) == FoldLeft(+, 0, sizes)
IsValid(n, p, sizes) == HasProp(n, p) /\ Len(Prop(n, p)) % ElemSize(sizes) = 0
Elements(n, p, sizes) == Len(Prop(n, p)) \div ElemSize(sizes)

Field(n, p, sizes, e, k) ==
  LET off == (e - 1) * ElemSize(sizes) + ElemSize(SubSeq(sizes, 1, k - 1))
  IN ReadValue(SubSeq(Prop(n, p), off + 1, off + sizes[k]))

\* get_addr_size_cells(); libfdt's defaults are 2 and 1
AddrCells(n) == IF HasProp(n, "address-cells") THEN Prop(n, "address-cells") ELSE 2
SizeCells(n) == IF HasProp(n, "size-cells") THEN Prop(n, "size-cells") ELSE 1
CellsOk(n) == AddrCells(n) \in 1..2 /\ SizeCells(n) \in 0..2

-----------------------------------------------------------------------------
(* Addresses; a translation is the set of its results, empty on failure *)

\* Mutant: the base of the range is not checked.
Matches_NoBase(child, len, a, size) == Word(a + size) <= Word(child + len)

\* Range::match()
Matches(child, len, a, size) == child <= a /\ Word(a + size) <= Word(child + len)

\* The ranges property of a bus below the bus pp, and the first window that
\* has the register
RangeCells(p, pp) == <<AddrCells(p), AddrCells(pp), SizeCells(p)>>

Ranges(p, sizes) ==
  [i \in 1..Elements(p, "ranges", sizes) |->
     [child |-> Field(p, "ranges", sizes, i, 1), parent |-> Field(p, "ranges", sizes, i, 2),
      len |-> Field(p, "ranges", sizes, i, 3)]]

Window(ranges, a, size) ==
  LET k == SelectInSeq(ranges, LAMBDA w : Matches(w.child, w.len, a, size))
  IN IF k = 0 THEN {} ELSE {ranges[k]}

\* translate_reg(): the windows up to the root, or to a bus with empty ranges
TranslateReg(parent, addr, size) ==
  LET up[p \in Nodes, a \in Addr] ==
        IF p = 1 THEN {a}
        ELSE UNION { IF ~(CellsOk(p) /\ CellsOk(pp) /\ IsValid(p, "ranges", RangeCells(p, pp))) THEN {}
                     ELSE IF Prop(p, "ranges") = <<>> THEN {a}
                     ELSE UNION { up[pp, Word(a - w.child + w.parent)] :
                                    w \in Window(Ranges(p, RangeCells(p, pp)), a, size) }
                     : pp \in {ParentNode(p)} }
  IN up[parent, addr]

\* get_reg_array(): the elements of reg on the bus p, none if it is not valid
RegCells(p) == <<AddrCells(p), SizeCells(p)>>

RegArray(n, p) ==
  IF p = 0 \/ ~HasProp(n, "reg") THEN <<>>
  ELSE IF ~CellsOk(p) \/ ~IsValid(n, "reg", RegCells(p)) THEN <<>>
  ELSE [i \in 1..Elements(n, "reg", RegCells(p)) |->
          [addr |-> Field(n, "reg", RegCells(p), i, 1), size |-> Field(n, "reg", RegCells(p), i, 2)]]

\* get_reg_val()
Translated(e, p) == { [e EXCEPT !.addr = a] : a \in TranslateReg(p, e.addr, e.size) }

\* for_each_reg()
Regs(n) ==
  LET Reg(p, e) == LET v == Translated(e, p) IN IF v = {} THEN <<>> ELSE <<CHOOSE r \in v : TRUE>>
  IN FoldLeft(LAMBDA found, e : found \o Reg(ParentNode(n), e), <<>>, RegArray(n, ParentNode(n)))

\* get_reg(0): the set of the address of the first register
GetReg(n) ==
  UNION { { r.addr : r \in Translated(e, ParentNode(n)) } :
            e \in ToSet(SubSeq(RegArray(n, ParentNode(n)), 1, 1)) }

-----------------------------------------------------------------------------
(* setup_memory() *)

\* nodes_by_prop_value(): the node an iteration goes on with, 0 at its end
NextNode(S) == IF \E n \in S : n > cur THEN Min({ n \in S : n > cur }) ELSE 0
MemoryNodes == { n \in Nodes : PropIs(n, "device_type", "memory") }
ReservedNodes ==
  IF ByPath("reserved-memory") = 0 THEN {} ELSE Children(ByPath("reserved-memory"))

\* Region::start_size() asserts that there is a byte.
AsRegion(r, t) == Interval(r.addr, Word(r.addr + r.size - 1), t)
NoRegion(r) == r.size = 0

\* Mutant: the limit of -maxmem= is not kept.
AddRam_Unlimited(list, r, max) ==
  IF Find(list, AsRegion(r, "ram")) # 0 THEN list ELSE Added(list, AsRegion(r, "ram"))

\* "Ignore multiple similar given regions"
AddRam(list, r, max) ==
  IF Find(list, AsRegion(r, "ram")) # 0 THEN list ELSE AddedUpTo(list, AsRegion(r, "ram"), max)

\* The registers of memory node n
AddMemory(n, found, max) ==
  IF \E i \in DOMAIN found : NoRegion(found[i]) THEN DPanic
  ELSE /\ ram' = FoldLeft(LAMBDA l, r : AddRam(l, r, max), ram, found)
       /\ cur' = n
       /\ UNCHANGED <<dt, fdt, cache, stack, dpc, sysalloc, regions, kuart>>

MemoryNode(max) ==
  /\ dpc = "memory"
  /\ LET n == NextNode(MemoryNodes) IN
     IF n = 0
     THEN cur' = 0 /\ dpc' = "reserved" /\ UNCHANGED <<dt, fdt, cache, stack, ram, sysalloc, regions, kuart>>
     ELSE AddMemory(n, IF IsEnabled(n) THEN Regs(n) ELSE <<>>, max)

\* The regions of an entry of an iteration, which then goes on behind `next'
Reserve(found, next) ==
  LET new == [i \in DOMAIN found |-> AsRegion(found[i], "reserved")] IN
  IF (\E i \in DOMAIN found : NoRegion(found[i])) \/ AddAllPanics(regions, new) THEN DPanic
  ELSE /\ regions' = AddAll(regions, new)
       /\ cur' = next
       /\ UNCHANGED <<dt, fdt, cache, stack, dpc, ram, sysalloc, kuart>>

\* Mutant: the first register of a node is left out.
ReservedRegs_Rest(n) == LET r == Regs(n) IN IF IsEnabled(n) /\ r # <<>> THEN Tail(r) ELSE <<>>

ReservedRegs(n) == IF IsEnabled(n) THEN Regs(n) ELSE <<>>

ReservedNode ==
  /\ dpc = "reserved"
  /\ LET n == NextNode(ReservedNodes) IN
     IF n = 0
     THEN cur' = 0 /\ dpc' = "memreserve" /\ UNCHANGED <<dt, fdt, cache, stack, ram, sysalloc, regions, kuart>>
     ELSE Reserve(ReservedRegs(n), n)

\* The memory reserve map of the tree
MemReserve ==
  /\ dpc = "memreserve"
  /\ IF cur = Len(dt.rsv)
     THEN cur' = 0 /\ dpc' = "regions" /\ UNCHANGED <<dt, fdt, cache, stack, ram, sysalloc, regions, kuart>>
     ELSE Reserve(<<dt.rsv[cur + 1]>>, cur + 1)

-----------------------------------------------------------------------------
(* after_setup_memory_map() *)

DtbRegion(a) == StartSize(a, dt.size, "dtb")

\* The tree stays, or moves to memory that may be given away; 0 without it.
DtbPlace ==
  IF FindContaining(sysalloc, DtbRegion(fdt)) # 0 THEN fdt
  ELSE LowestHole(ram, sysalloc, regions, dt.size, PageSize, PageSize)

AfterSetupMemoryMap ==
  /\ dpc = "dtb"
  /\ IF DtbPlace = 0 THEN DPanic
     ELSE /\ fdt' = DtbPlace
          /\ regions' = IF Find(regions, DtbRegion(DtbPlace)) # 0 THEN regions
                        ELSE Added(regions, DtbRegion(DtbPlace))
          /\ dpc' = "modaddr"
          /\ UNCHANGED <<dt, cache, stack, cur, ram, sysalloc, kuart>>

-----------------------------------------------------------------------------
(* The UART *)

\* parse_plic_irq()
PlicIrq(n) ==
  IF IsValid(n, "interrupts", <<1>>) /\ Elements(n, "interrupts", <<1>>) >= 1
  THEN {Field(n, "interrupts", <<1>>, 1, 1)} ELSE {}

\* parse_uart() of a node whose register is at address a
ParsesUart(n) == IsEnabled(n) /\ GetReg(n) # {}

Uart(k, n, a) ==
  LET irq  == [flags |-> {"irq"}, irq |-> Min(PlicIrq(n))]
      baud == [flags |-> {"baud"}, baud |-> Prop(n, "current-speed")]
      Set(o, r) == [flags |-> o.flags \cup r.flags] @@ r @@ o
      ki   == IF PlicIrq(n) = {} THEN k ELSE Set(k, irq)
      kb   == IF HasProp(n, "current-speed") THEN Set(ki, baud) ELSE ki
  IN Set(kb, [flags |-> {"base"}, base |-> a])

\* get_stdout_uart_node(): the node and the baud rate behind the colon, 0 without one
Chosen == ByPath("chosen")
StdoutNode ==
  IF Chosen = 0 THEN 0
  ELSE IF ~HasProp(Chosen, "stdout-path") THEN 0
  ELSE LET hit == { n \in Nodes : dt.nodes[n].name = Prop(Chosen, "stdout-path").path }
       IN IF hit = {} THEN 0 ELSE Min(hit)
StdoutBaud == Prop(Chosen, "stdout-path").baud

\* get_stdout_uart(): the baud rate stays set if parse_uart() fails.
StdoutFits(c) == StdoutNode # 0 /\ PropIs(StdoutNode, "compatible", c)
WithBaud(k) ==
  IF StdoutBaud = 0 THEN k ELSE [flags |-> k.flags \cup {"baud"}, baud |-> StdoutBaud] @@ k

\* setup_kuart_from_dt(): the UART of stdout-path, or the first one that can be used
UartOf(fit) == IF StdoutNode \in fit THEN {StdoutNode} ELSE IF fit = {} THEN {} ELSE {Min(fit)}

SetupUart(k, use) ==
  IF use = {} THEN kuart' = k
  ELSE \E n \in use : \E a \in GetReg(n) : kuart' = Uart(k, n, a)

SetupKuart(c) ==
  /\ dpc = "kuart"
  /\ SetupUart(IF StdoutFits(c) THEN WithBaud(kuart) ELSE kuart,
               UartOf({ n \in Nodes : PropIs(n, "compatible", c) /\ ParsesUart(n) }))
  /\ dpc' = "cmdline"
  /\ UNCHANGED <<dt, fdt, cache, stack, cur, ram, sysalloc, regions>>

=============================================================================
