------------------------------- MODULE Boot32 -------------------------------
(***************************************************************************)
(* The 32-bit stub of the amd64 boot loader: bootstrap() of boot_kernel.c  *)
(* with the reservations (support.c), the allocator (mm_alloc.c) and the   *)
(* loader of the 64-bit part (load_elf.c).                                 *)
(*                                                                         *)
(* The machine is an input: the memory map, what lies behind it in memory, *)
(* and where the boot loader has put everything.  Addresses are counted in *)
(* cells, PageSize of them in a page.                                      *)
(***************************************************************************)
EXTENDS PageTables, Integers, SequencesExt

CONSTANTS
  PageSize,
  Limit,             \* 4 GiB
  MaxReservations,   \* Max_reservations
  Machines

Area == [start : Nat, size : Nat]
MemRange == [addr : Nat, size : Nat, memory : BOOLEAN]

ASSUME MachineAssumption ==
  /\ PageSize \in Nat \ {0}
  /\ Limit \in Nat /\ Limit = PageSize * 4 * PtabSize[2]
  /\ MaxReservations \in Nat \ {0}
  /\ \A m \in Machines :
       /\ m.map \in Seq(MemRange) /\ m.map # <<>> /\ m.behind \in MemRange
       /\ m.image \in Area /\ m.mbi \in Seq(Area)
       /\ m.modules \in Seq([file : Area, cmdline : Area, segs : Seq(Area)])
       /\ m.upper \in Nat                       \* 0: the size in the header wraps at 4 GiB
       /\ m.elf \in BOOLEAN                     \* the headers of the modules are valid
       /\ m.segs \in Seq(Area) /\ m.align \in Nat
       /\ m.rela \in {"relative", "other"}

VARIABLES
  machine,
  res,        \* reservations
  todo,       \* what is still to be reserved
  upper,      \* mem_upper
  range,      \* mm_alloc.range: an entry of the map, 0 if there is none
  used,       \* mm_alloc.used
  written,    \* the cells the 64-bit part was loaded to
  spc

svars == <<machine, res, todo, upper, range, used, written, spc>>

Cells(a) == a.start..(a.start + a.size - 1)
At(start, size) == [start |-> start, size |-> size]

\* reserve_elf(): the final locations of kernel, sigma0 and roottask
ElfAreas(m) ==
  FlattenSeq([i \in 1..Min({3, Len(m.modules)}) |-> m.modules[i].segs])

\* reserve_mbi()
MbiAreas(m) ==
  m.mbi \o FlattenSeq([i \in DOMAIN m.modules |-> <<m.modules[i].cmdline, m.modules[i].file>>])

\* What bootstrap() reserves, in its order
Reserved(m) ==
  << m.image, At(0, PageSize), At(PageSize, PageSize) >> \o ElfAreas(m) \o MbiAreas(m)

SInit ==
  /\ machine \in Machines
  /\ res = <<>>
  /\ todo = Reserved(machine)
  /\ upper = 0
  /\ range = 0 /\ used = 0
  /\ written = {}
  /\ spc = "cpu"

SPanic ==
  /\ spc' = "panic"
  /\ UNCHANGED <<machine, res, todo, upper, range, used, written>>

-----------------------------------------------------------------------------
(* bootstrap(): the CPU, and the end of memory *)

\* base_cpu_setup() finds out the features of the CPU (gig).
BaseCpuSetup ==
  /\ spc = "cpu"
  /\ spc' = "upper"
  /\ UNCHANGED <<machine, res, todo, upper, range, used, written>>

\* find_upper_mem(); if no RAM of the map ends above 0, the size in the header
\* counts.
FindUpperMem ==
  /\ spc = "upper"
  /\ LET ends == { machine.map[i].addr + machine.map[i].size :
                   i \in { j \in DOMAIN machine.map : machine.map[j].memory } }
     IN upper' = IF ends \subseteq {0} THEN machine.upper ELSE Max(ends)
  /\ spc' = "reserve"
  /\ UNCHANGED <<machine, res, todo, range, used, written>>

-----------------------------------------------------------------------------
(* reservation_add() *)

Trunc(x) == (x \div PageSize) * PageSize
Round(x) == Trunc(x + PageSize - 1)

RangeIn4g(start, size) == size <= Limit /\ start <= Limit - size

\* The whole pages of an area
Paged(a) == At(Trunc(a.start), Round(a.start - Trunc(a.start) + a.size))

Inside(r, n) == n.start >= r.start /\ n.start + n.size <= r.start + r.size
DirectlyAfter(r, n) == r.start + r.size = n.start
DirectlyBefore(r, n) == r.start = n.start + n.size

\* The entry that takes up n.  "Directly before" sets the start alone.
Joined(r, n) ==
  CASE Inside(r, n) -> r
    [] ~Inside(r, n) /\ DirectlyAfter(r, n) -> At(r.start, r.size + n.size)
    [] OTHER -> At(n.start, r.size)

\* The last entry of a full list
Extended(e, n) ==
  LET start == Min({e.start, n.start}) IN
  At(start, IF start + e.size < n.start + n.size THEN n.start + n.size - start ELSE e.size)

ReservationAdd(list, n) ==
  LET k == SelectInSeq(list, LAMBDA r : Inside(r, n) \/ DirectlyAfter(r, n) \/ DirectlyBefore(r, n))
      last == Len(list)
  IN CASE k # 0 -> [list EXCEPT ![k] = Joined(@, n)]
       [] k = 0 /\ last < MaxReservations -> Append(list, n)
       [] OTHER -> [list EXCEPT ![last] = Extended(@, n)]

\* sanity_elf(), before the segments of the modules are reserved
BadElf == Len(todo) = Len(Reserved(machine)) - 3 /\ ~machine.elf

\* One call of reservation_add()
Reserve32 ==
  /\ spc = "reserve"
  /\ todo # <<>>
  /\ LET n == Paged(Head(todo)) IN
     IF BadElf \/ ~RangeIn4g(n.start, n.size) THEN SPanic
     ELSE /\ res' = ReservationAdd(res, n)
          /\ todo' = Tail(todo)
          /\ UNCHANGED <<machine, upper, range, used, written, spc>>

\* The end of memory is rounded to a superpage, and at most 4 GiB.
Ceiling == Min({upper, Limit})
Superpage == PageSize * PtabSize[1]
MemEnd == ((Ceiling + Superpage - 1) \div Superpage) * Superpage

StartPaging ==
  /\ spc = "reserve"
  /\ todo = <<>>
  /\ upper' = MemEnd
  /\ spc' = "paging"
  /\ UNCHANGED <<machine, res, todo, range, used, written>>

-----------------------------------------------------------------------------
(* mm_alloc_alloc() *)

\* overlaps_reservation(): where the first reservation in the way ends
OverlapEnd(start, size) ==
  LET k == SelectInSeq(res, LAMBDA r : r.start < start + size /\ r.start + r.size > start)
  IN IF k = 0 THEN 0 ELSE res[k].start + res[k].size

\* The entry after the last one is whatever lies behind the map.
MapEntry(i) == IF i <= Len(machine.map) THEN machine.map[i] ELSE machine.behind

\* range_in_4G_for_size(); the subtraction is unsigned.
Fits(e, n, size) == (n > e.size \/ e.size - n >= size) /\ e.addr + n + size <= Limit

\* next_ram_range(): the entry after the current one is looked at without a
\* check that it is in the map, the ones after it with the check.
NextRamRange(i, size) ==
  LET ok == { k \in {i + 1} \cup (i + 2)..Len(machine.map) :
                MapEntry(k).memory /\ Fits(MapEntry(k), 0, size) }
  IN IF ok = {} THEN 0 ELSE Min(ok)

-----------------------------------------------------------------------------
(* load_elf() *)

\* Mutant: the linked location is used although it is reserved.
UsableRange_Always(s) == RangeIn4g(s.start, s.size)

UsableRange(s) == RangeIn4g(s.start, s.size) /\ OverlapEnd(s.start, s.size) = 0

\* All segments of the 64-bit part; the first address is aligned down with a
\* mask, which is 0 without an alignment.
MinAddr ==
  LET low == Min({ machine.segs[i].start : i \in DOMAIN machine.segs })
  IN IF machine.align = 0 THEN 0 ELSE (low \div machine.align) * machine.align
MaxAddr32 == Max({ machine.segs[i].start + machine.segs[i].size : i \in DOMAIN machine.segs })
AllocSize == MaxAddr32 - MinAddr

\* The segments, moved by reloc
LoadAt(reloc) ==
  /\ written' = UNION { Cells(At(machine.segs[i].start + reloc, machine.segs[i].size)) :
                        i \in DOMAIN machine.segs }
  /\ spc' = IF reloc # 0 /\ machine.rela # "relative" THEN "panic" ELSE "loaded"

LoadElf ==
  /\ spc = "load"
  /\ IF \A i \in DOMAIN machine.segs : UsableRange(machine.segs[i])
     THEN LoadAt(0) /\ UNCHANGED range
     ELSE /\ range' = NextRamRange(0, AllocSize)
          /\ spc' = "alloc"
          /\ UNCHANGED written
  /\ UNCHANGED <<machine, res, todo, upper, used>>

\* One round of mm_alloc_alloc()'s loop
AllocTry ==
  /\ spc = "alloc"
  /\ IF range = 0 THEN SPanic
     ELSE LET e == MapEntry(range)
              over == OverlapEnd(e.addr + used, AllocSize)
              past == over - e.addr
          IN IF over = 0
             THEN /\ LoadAt(e.addr + used - MinAddr)
                  /\ used' = used + AllocSize
                  /\ UNCHANGED <<machine, res, todo, upper, range>>
             ELSE /\ IF e.size <= past \/ ~Fits(e, past, AllocSize)
                     THEN range' = NextRamRange(range, AllocSize) /\ used' = 0
                     ELSE range' = range /\ used' = past
                  /\ UNCHANGED <<machine, res, todo, upper, written, spc>>

SStep == BaseCpuSetup \/ FindUpperMem \/ Reserve32 \/ StartPaging \/ LoadElf \/ AllocTry

-----------------------------------------------------------------------------
(* Properties *)

\* No area ends where one that is already reserved begins (DirectlyBefore),
\* and once the reservations are used up areas come in ascending order.
InOrder(m) ==
  LET r == Reserved(m) IN
  \A i, j \in DOMAIN r : i < j =>
    /\ ~DirectlyBefore(Paged(r[i]), Paged(r[j]))
    /\ i >= MaxReservations => r[i].start <= r[j].start

\* What lies behind the memory map does not look like RAM.
MapsEnd == \A m \in Machines : ~m.behind.memory

\* The 64-bit part is loaded over no reservation.  If the areas came in an
\* order in which reservation_add() loses none, it spares every page of the
\* stub with its page tables, of kernel, sigma0 and roottask at their final
\* locations, of the boot loader's information, and of the modules with their
\* list and command lines.  The memory map, the VBE information and the copy
\* of the RSDP, which the 64-bit part reads as well, are spared only where they
\* share a page with these: reserve_mbi() does not reserve them.
StubSparesAll ==
  /\ \A k \in DOMAIN res : written \cap Cells(res[k]) = {}
  /\ InOrder(machine) =>
       \A i \in DOMAIN Reserved(machine) : written \cap Cells(Paged(Reserved(machine)[i])) = {}

\* If it is moved, it gets memory the map calls RAM, below 4 GiB.  Where it was
\* linked to, load_elf() does not ask for RAM.
LoadedInRam ==
  range # 0 /\ written # {} =>
    \E i \in DOMAIN machine.map :
      /\ machine.map[i].memory
      /\ written \subseteq machine.map[i].addr..(machine.map[i].addr + machine.map[i].size - 1)
      /\ written \subseteq 0..(Limit - 1)

=============================================================================
