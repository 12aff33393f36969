----------------------------- MODULE RiscvStart -----------------------------
(***************************************************************************)
(* The start of the RISC-V platform (ARCH-riscv, riscv_virt.cc) with the   *)
(* boot loader's command line (startup()): all harts enter at _start, the  *)
(* first one runs the boot loader and the others wait for the kernel's     *)
(* entry.  DeviceTree, CmdLine, FwCfg and RiscvConfig have the steps of    *)
(* the boot hart, this module has their order.  BootFlow has the loading   *)
(* of modules between the boot information and the kernel configuration.   *)
(***************************************************************************)
EXTENDS CmdLine, FwCfg, RiscvConfig

CONSTANTS
  Harts,      \* the harts of the machine
  RamBase,    \* RAM_BASE
  ModAddr     \* MODADDR

VARIABLES
  hpc,       \* what a hart does
  lottery,   \* _mp_hart_lottery
  launch,    \* mp_launch_boot_kernel
  opt,       \* what the command line gave
  lko        \* the kernel's options

svars == <<hpc, lottery, launch, opt, lko>>
vars == <<dvars, fvars, cvars, kvars, svars>>

Init ==
  /\ DInit /\ FInit /\ CInit /\ KInit
  /\ hpc = [h \in Harts |-> "start"]
  /\ lottery = 0 /\ launch = 0
  /\ opt = [maxmem |-> WordMax, mem |-> FALSE, sysalloc |-> FALSE, modaddr |-> 0, preset |-> FALSE]
  /\ lko = [flags |-> {}]

-----------------------------------------------------------------------------
(* The harts: crt0.S and __main() *)

Lottery(h) ==
  /\ hpc[h] = "start"
  /\ hpc' = [hpc EXCEPT ![h] = IF lottery = 0 THEN "main" ELSE "wait"]
  /\ lottery' = lottery + 1
  /\ UNCHANGED <<dvars, fvars, cvars, kvars, launch, opt, lko>>

\* Mutant: the lottery is in .bss.
Cleared_Lottery(n) == 0

\* clear_bss() spares .data, where the lottery is.
Cleared(n) == n

Main(h) ==
  /\ hpc[h] = "main"
  /\ hpc' = [hpc EXCEPT ![h] = "boot"]
  /\ lottery' = Cleared(lottery)
  /\ UNCHANGED <<dvars, fvars, cvars, kvars, launch, opt, lko>>

\* The loop on mp_launch_boot_kernel
WaitForBootstrap(h) ==
  /\ hpc[h] = "wait" /\ launch # 0
  /\ hpc' = [hpc EXCEPT ![h] = "kernel"]
  /\ UNCHANGED <<dvars, fvars, cvars, kvars, lottery, launch, opt, lko>>

Hart(h) == Lottery(h) \/ Main(h) \/ WaitForBootstrap(h)

-----------------------------------------------------------------------------
(* The arguments of the boot loader *)

Answered(stage, a) == dpc = stage /\ arg = a /\ cpc \in {"found", "null"}
Found == cpc = "found"

CheckArg ==
  /\ dpc \in {"cmdline", "sysalloc", "modaddr"}
  /\ SearchArg \/ TestArg
  /\ UNCHANGED <<dvars, fvars, kvars, svars>>

NoserialArg ==
  /\ Answered("cmdline", "noserial")
  /\ kuart' = IF Found THEN [kuart EXCEPT !.flags = @ \cup {"noserial"}] ELSE kuart
  /\ AskFor("wait", 1)
  /\ UNCHANGED <<dt, fdt, cache, stack, cur, dpc, ram, sysalloc, regions, fvars, kvars, svars>>

WaitArg ==
  /\ Answered("cmdline", "wait")
  /\ AskFor("maxmem", 1)
  /\ UNCHANGED <<dvars, fvars, kvars, svars>>

\* get_memory_max_size()
MaxmemArg ==
  /\ Answered("cmdline", "maxmem")
  /\ opt' = [opt EXCEPT !.maxmem = IF Found THEN Shifted(Value, 2) ELSE WordMax]
  /\ AskFor("mem", 1)
  /\ UNCHANGED <<dvars, fvars, kvars, hpc, lottery, launch, lko>>

\* The area of a -mem= or -sysalloc= argument as a region, empty if it is refused
Area(v, t) == { AsRegion(l, t) : l \in MemLayout(v) }

Refused == DPanic /\ UNCHANGED <<cvars, svars>>

\* setup_memory_map(): an area that overlaps another one is a panic.
MemArg ==
  /\ dpc = "cmdline" /\ arg = "mem" /\ Found
  /\ LET given == Area(Layout, "ram")
     IN IF given = {} \/ \E r \in given : AddUpToPanics(ram, r, opt.maxmem) THEN Refused
        ELSE /\ \E r \in given : ram' = AddedUpTo(ram, r, opt.maxmem)
             /\ opt' = [opt EXCEPT !.mem = TRUE]
             /\ AskFor("mem", s + 1)
             /\ UNCHANGED <<dt, fdt, cache, stack, cur, dpc, sysalloc, regions, kuart, hpc, lottery, launch, lko>>
  /\ UNCHANGED <<fvars, kvars>>

MemEnd ==
  /\ dpc = "cmdline" /\ arg = "mem" /\ cpc = "null"
  /\ dpc' = IF opt.mem THEN "regions" ELSE "memory"
  /\ UNCHANGED <<dt, fdt, cache, stack, cur, ram, sysalloc, regions, kuart, fvars, cvars, kvars, svars>>

\* init_regions() of the boot loader and of its image's modules
InitRegions ==
  /\ dpc = "regions"
  /\ IF AddAllPanics(regions, dt.image) THEN Refused
     ELSE /\ regions' = AddAll(regions, dt.image)
          /\ dpc' = "sysalloc"
          /\ AskFor("sysalloc", 1)
          /\ UNCHANGED <<dt, fdt, cache, stack, cur, ram, sysalloc, kuart, svars>>
  /\ UNCHANGED <<fvars, kvars>>

\* setup_sysalloc_map(): an area without RAM in it is skipped.
SysallocArg ==
  /\ dpc = "sysalloc" /\ arg = "sysalloc" /\ Found
  /\ LET given == Area(Layout, "sysalloc")
         use == { r \in given : Find(ram, r) # 0 }
     IN IF given = {} \/ \E r \in use : AddPanics(sysalloc, r) THEN Refused
        ELSE /\ sysalloc' = IF use = {} THEN sysalloc ELSE Added(sysalloc, CHOOSE r \in use : TRUE)
             /\ opt' = [opt EXCEPT !.sysalloc = TRUE]
             /\ AskFor("sysalloc", s + 1)
             /\ UNCHANGED <<dt, fdt, cache, stack, cur, dpc, ram, regions, kuart, hpc, lottery, launch, lko>>
  /\ UNCHANGED <<fvars, kvars>>

SysallocEnd ==
  /\ dpc = "sysalloc" /\ arg = "sysalloc" /\ cpc = "null"
  /\ IF opt.sysalloc /\ sysalloc = <<>> THEN Refused
     ELSE /\ sysalloc' = IF opt.sysalloc THEN Optimized(sysalloc)
                         ELSE <<Interval(0, MaxAddr, "sysalloc")>>
          /\ dpc' = "dtb"
          /\ UNCHANGED <<dt, fdt, cache, stack, cur, ram, regions, kuart, cvars, svars>>
  /\ UNCHANGED <<fvars, kvars>>

Bogus(a) == a >= WordMax - RamBase

ModaddrArg ==
  /\ Answered("modaddr", "modaddr")
  /\ LET a == IF Found THEN Value ELSE ModAddr IN
     IF Found /\ Bogus(a) THEN Refused
     ELSE /\ opt' = [opt EXCEPT !.modaddr = Word(RoundPage(Word(RamBase + a)))]
          /\ AskFor("presetmem", 1)
          /\ UNCHANGED <<dvars, hpc, lottery, launch, lko>>
  /\ UNCHANGED <<fvars, kvars>>

PresetArg ==
  /\ Answered("modaddr", "presetmem")
  /\ opt' = [opt EXCEPT !.preset = Found]
  /\ dpc' = "mbi"
  /\ UNCHANGED <<dt, fdt, cache, stack, cur, ram, sysalloc, regions, kuart, fvars, cvars, kvars, hpc, lottery, launch, lko>>

Arguments ==
  \/ CheckArg \/ NoserialArg \/ WaitArg \/ MaxmemArg \/ MemArg \/ MemEnd \/ InitRegions
  \/ SysallocArg \/ SysallocEnd \/ ModaddrArg \/ PresetArg

-----------------------------------------------------------------------------
(* The steps of the boot hart *)

Tree ==
  /\ DtInit \/ ScanNode \/ SetupKuart("ns16550a") \/ MemoryNode(opt.maxmem) \/ ReservedNode \/ MemReserve
  /\ UNCHANGED <<fvars, cvars, kvars, svars>>

PlaceTree ==
  /\ AfterSetupMemoryMap /\ AskFor("modaddr", 1)
  /\ UNCHANGED <<fvars, kvars, svars>>

\* construct_mbi()
Firmware ==
  /\ FwStep \/ FwError
  /\ UNCHANGED <<cvars, kvars, svars>>

FirmwareEnd ==
  /\ dpc = "mbi" /\ fw.at = "end"
  /\ dpc' = "config"
  /\ UNCHANGED <<dt, fdt, cache, stack, cur, ram, sysalloc, regions, kuart, fvars, cvars, kvars, svars>>

\* setup_kernel_config()
Configure == KStep /\ UNCHANGED <<fvars, cvars, svars>>

Flags(o, k) == o \cup k

\* The kernel's own command line, and the UART
SetupOptions ==
  /\ dpc = "config" /\ kpc = "done"
  /\ LET o == KernelOptions(dt.kernel)
     IN lko' = [flags |-> Flags(o.flags, kuart.flags), number |-> o.number, jdb |-> o.jdb, uart |-> kuart]
  /\ dpc' = "boot"
  /\ UNCHANGED <<dt, fdt, cache, stack, cur, ram, sysalloc, regions, kuart, fvars, cvars, kvars, hpc, lottery, launch, opt>>

\* boot_kernel(): the other harts are released first.
BootKernel ==
  /\ dpc = "boot"
  /\ launch' = 1
  /\ dpc' = "kernel"
  /\ UNCHANGED <<dt, fdt, cache, stack, cur, ram, sysalloc, regions, kuart, fvars, cvars, kvars, hpc, lottery, opt, lko>>

EnterKernel(h) ==
  /\ dpc = "kernel"
  /\ hpc' = [hpc EXCEPT ![h] = "kernel"]
  /\ UNCHANGED <<dvars, fvars, cvars, kvars, lottery, launch, opt, lko>>

BootLoader(h) ==
  /\ hpc[h] = "boot"
  /\ \/ Tree \/ Arguments \/ PlaceTree \/ Firmware \/ FirmwareEnd \/ Configure
     \/ SetupOptions \/ BootKernel \/ EnterKernel(h)

Device == (DmaDone \/ DmaFails) /\ UNCHANGED <<cvars, kvars, svars>>

\* l4_infinite_loop() after a panic, and the kernel
Halted ==
  /\ dpc = "panic" \/ \A h \in Harts : hpc[h] = "kernel"
  /\ UNCHANGED vars

Next ==
  \/ \E h \in Harts : Hart(h) \/ BootLoader(h)
  \/ Device
  \/ Halted

\* The boot hart has something to do: it neither polls the device nor has it
\* given up.  It can then take a step; were it stuck there, TLC would report a
\* deadlock as soon as the other harts wait.
BootRuns ==
  /\ \E h \in Harts : hpc[h] = "boot"
  /\ dpc # "panic" /\ desc.control \notin {"read", "write"}

\* Harts run, and the device ends its transfers.  For the boot hart this is
\* weak fairness of BootLoader, with BootRuns in place of ENABLED.
Fairness ==
  /\ \A h \in Harts : WF_vars(Hart(h))
  /\ <>[]BootRuns => []<><<\E h \in Harts : BootLoader(h)>>_vars
  /\ WF_vars(Device)

Spec == Init /\ [][Next]_vars /\ Fairness

-----------------------------------------------------------------------------
(* Properties *)

TypeOK ==
  /\ fdt \in Addr /\ cur \in 0..(Len(dt.nodes) + 1)
  /\ \A i \in DOMAIN cache : cache[i].node \in Nodes /\ cache[i].parent \in 0..Len(dt.nodes)
  /\ dpc \in {"dt", "scan", "kuart", "cmdline", "memory", "reserved", "memreserve", "regions", "sysalloc",
               "dtb", "modaddr", "mbi", "config", "boot", "kernel", "panic"}
  /\ \A l \in {ram, sysalloc, regions} : \A i \in DOMAIN l : l[i].begin \in Addr /\ l[i].end \in Addr
  /\ line \in Words /\ s \in 1..(Len(line) + 1) /\ cpc \in {"strstr", "test", "found", "null"}
  /\ desc.control \in {"read", "write", "done", "error"} /\ dev.off \in Nat
  /\ kip.isa \subseteq 0..31 /\ Len(kip.harts) <= MaxHarts /\ kpc \in {"isa", "harts", "plic", "contexts", "done"}
  /\ hpc \in [Harts -> {"start", "main", "boot", "wait", "kernel"}]
  /\ lottery \in 0..Cardinality(Harts) /\ launch \in 0..1
  /\ opt.maxmem \in Addr /\ opt.modaddr \in Addr

\* Parent_cache agrees with libfdt on every node below the root once the tree
\* has been scanned, whatever its depth, however many nodes did not fit into
\* the cache and whatever was on the stack of scan().  The root's entry is that
\* leftover; the properties of memory, UART and harts show that none follows it.
ParentRight ==
  dpc \notin {"dt", "scan", "panic"} =>
    \A n \in Nodes : Depth(n) > 0 => ParentNode(n) = FdtParent(n)

\* The address of a register as the specification of the tree defines it: the
\* windows of all buses up to the root, an empty one for the same address
Physical(p, e) ==
  LET Has(w, a) == w.child <= a /\ a + e.size <= w.child + w.len
      All(b, pp) == ToSet(Ranges(b, RangeCells(b, pp)))
      on[b \in Nodes, a \in Addr] ==
        IF b = 1 THEN {a}
        ELSE IF ~HasProp(b, "ranges") THEN {}
        ELSE IF Prop(b, "ranges") = <<>> THEN on[FdtParent(b), a]
        ELSE UNION { on[FdtParent(b), a + w.parent - w.child] : w \in { v \in All(b, FdtParent(b)) : Has(v, a) } }
  IN on[p, e.addr]

\* The bytes all registers of a node have
NodeBytes(n) ==
  UNION { UNION { a..(a + e.size - 1) : a \in Physical(FdtParent(n), e) } :
            e \in ToSet(RegArray(n, FdtParent(n))) }

Ready == dpc \in {"regions", "sysalloc", "dtb", "modaddr", "mbi", "config", "boot", "kernel"}

\* Without -mem= the boot loader uses exactly the memory the enabled nodes of
\* the tree describe, up to -maxmem=: no node is lost, none counts twice and
\* none lands at the address of its own bus.
RamDescribed ==
  LET described == UNION { NodeBytes(n) : n \in { m \in MemoryNodes : IsEnabled(m) } }
  IN Ready /\ ~opt.mem =>
       /\ Covered(ram) \subseteq described
       /\ Cardinality(Covered(ram)) = TotalSize(ram)
       /\ TotalSize(ram) = Min({opt.maxmem, Cardinality(described)})

\* With -mem= the RAM is what the arguments give, with -sysalloc= memory is
\* only allocated from these areas, and no argument is read in part or skipped.
ArgsTaken ==
  LET Wanted(a) == { i \in DOMAIN line : line[i].opt = a }
      Spots(a) == { line[i].area : i \in Wanted(a) }
      Of(v) == (v.addr * Kilo^v.aunit)..(v.addr * Kilo^v.aunit + v.size * Kilo^v.sunit - 1)
  IN dpc \in {"dtb", "modaddr", "mbi", "config", "boot", "kernel"} =>
       /\ opt.mem <=> Wanted("mem") # {}
       /\ opt.mem /\ Wanted("maxmem") = {} => Covered(ram) = UNION { Of(v) : v \in Spots("mem") }
       /\ TotalSize(ram) <= opt.maxmem
       /\ Wanted("sysalloc") # {} =>
            Covered(sysalloc) = UNION { Of(v) : v \in { w \in Spots("sysalloc") : Of(w) \cap Covered(ram) # {} } }
       /\ dpc \in {"mbi", "config", "boot", "kernel"} =>
            /\ opt.preset <=> Wanted("presetmem") # {}
            /\ opt.modaddr >= RamBase
            /\ "noserial" \in kuart.flags <=> Wanted("noserial") # {}

\* From its placement on the tree lies in memory the boot loader may use and
\* is reserved to its last byte, moved or not, so that the module made of it
\* and the kernel find it intact.
DtbKept ==
  dpc \in {"modaddr", "mbi", "config", "boot", "kernel"} =>
    LET tree == fdt..(fdt + dt.size - 1)
    IN tree \subseteq Covered(sysalloc) /\ tree \subseteq Covered(regions)

\* What the boot loader allocates - the copy of the tree, the frame buffer and
\* the VBE information - is RAM it may use, never memory the tree reserves by a
\* node or by its reserve map, never the image, and never shared between two.
AllocationsApart ==
  LET Own(t) == { r \in ToSet(regions) : r.tag = t }
      reserved == (UNION { NodeBytes(n) : n \in { m \in ReservedNodes : IsEnabled(m) } })
                    \cup (UNION { dt.rsv[i].addr..(dt.rsv[i].addr + dt.rsv[i].size - 1) : i \in DOMAIN dt.rsv })
      new == Own("fb") \cup Own("vbe") \cup (IF fdt = dt.at THEN {} ELSE Own("dtb"))
      used == new \cup Own("dtb")
  IN dpc # "panic" =>
       /\ \A r \in new : /\ Bytes(r) \subseteq Covered(ram) \cap Covered(sysalloc)
                          /\ Bytes(r) \cap Covered(dt.image) = {}
                          /\ ~opt.mem => Bytes(r) \cap reserved = {}
       /\ \A r, q \in used : r # q => ~Overlaps(r, q)

\* The kernel is told one UART: the enabled one stdout-path names if there is
\* one, else the first usable one; base, interrupt and baud rate are of this
\* node and the options of the kernel's own command line stay.  Where a UART
\* is, behind buses of any cell counts, is given with the machine.
KernelTold ==
  LET Base(n) == dt.nodes[n].at
      Speed(u) == IF HasProp(u, "current-speed") THEN Prop(u, "current-speed")
                  ELSE IF u = StdoutNode THEN StdoutBaud ELSE 0
  IN dpc \in {"boot", "kernel"} =>
       /\ \A u \in UartOf({ n \in Nodes : PropIs(n, "compatible", "ns16550a") /\ IsEnabled(n) /\ Base(n) # {} }) :
            /\ "base" \in lko.flags /\ lko.uart.base \in Base(u)
            /\ "irq" \in lko.flags <=> HasProp(u, "interrupts") /\ Prop(u, "interrupts") # <<>>
            /\ "irq" \in lko.flags => lko.uart.irq = Prop(u, "interrupts")[1]
            /\ "baud" \in lko.flags <=> Speed(u) # 0
            /\ Speed(u) # 0 => lko.uart.baud = Speed(u)
       /\ \A i \in DOMAIN dt.kernel : dt.kernel[i].opt \in Booleans => dt.kernel[i].opt \in lko.flags
       /\ lko.jdb <= CmdLen

\* One hart runs the boot loader, whichever comes first and whenever the
\* others arrive, and no hart enters the kernel before its options, its
\* configuration and the boot information are complete.
HartsWait ==
  /\ Cardinality({ h \in Harts : hpc[h] \in {"main", "boot"} }) <= 1
  /\ (\E h \in Harts : hpc[h] = "kernel") =>
       dpc = "kernel" /\ kpc = "done" /\ fw.at = "end" /\ lko # [flags |-> {}] /\ desc.control = "done"

\* Unless the boot loader gives up, every hart enters the kernel.
AllHartsEnter == <>(dpc = "panic" \/ \A h \in Harts : hpc[h] = "kernel")

\* check_arg() returns: with a pointer behind the argument or with nullptr.
ArgsEnd == (dpc = "cmdline" /\ cpc = "strstr") ~> (cpc \in {"found", "null"} \/ dpc = "panic")

\* setup_memory_map() and setup_sysalloc_map(): memory is what the device tree
\* describes, or what the command line says instead.
RamRight == RamDescribed /\ ArgsTaken

\* What lies in memory at the same time is apart: device tree, frame buffer, VBE
\* information, the image and what the tree reserves.
PlacesRight == DtbKept /\ AllocationsApart /\ FbReserved

\* setup_kernel_config(): extensions, harts and interrupt contexts are those of
\* the machine, for every hart the kernel is told of.
ConfigSound == TypeOK /\ IsaSound /\ TargetsRight

=============================================================================
