# Verification of the L4Re bootstrap boot loader

TLA+ models of `bootstrap`, the program that runs between the firmware (or
GRUB, U-Boot, ...) and the Fiasco kernel. It learns where RAM is, lays out the
ELF images of kernel, sigma0 and roottask, moves or unpacks the boot modules,
loads the images, writes memory descriptors into the kernel info page (KIP) and
jumps to the kernel. All paths below are relative to `src/server/src/`.

The program runs once. Most of what makes it hard to get right is memory:
everything it handles (its own binary, the modules, the images, the tables it
was given) lies in the memory it is rearranging, tracked in one fixed-size list
of regions, with addresses that are unsigned and wrap. A mistake shows as a
machine that does not boot, for one memory map and one set of modules. The
boot loader itself has one thread, but it is not alone: EFI firmware changes its
memory map in timer events, a BIOS works on USB controllers from system
management mode, QEMU's configuration device answers by DMA, and on RISC-V all
harts enter at once.

## Inventory

| Component | State | Operations | Correct if |
|---|---|---|---|
| Region lists, `region.{h,cc}` | array in a fixed store, limits, bytes taken in | `add`, `sub`, `optimize`, `remove_if`, `find*` | sorted, disjoint but for tolerated overlaps, never beyond the store, limits kept, each call has its effect on exactly the addresses named |
| Search for free RAM, `memory.cc` | none | `find_free_ram`, `find_free_ram_rev` | ends, and returns the lowest (highest) hole or 0 |
| Boot flow, `startup.cc` | lists `ram`, `regions`, `sysalloc` | `startup()`, `add_elf_regions`, `load_elf_module`, `fill_mem` | no image is overwritten while it is needed; images and modules arrive intact; each node gets its own images |
| Memory parameters, `startup.cc` | command line | `check_arg`, `parse_mem_layout`, `setup_memory_map`, `setup_sysalloc_map` | every argument is found and read as a whole; ends |
| Kernel memory, `startup.cc` | `regions` | `setup_kmem_areas` | exactly the free RAM of the areas asked for; ends |
| Moving modules, `boot_modules.cc` | `mod_sorter`, memory contents | `move_modules`, `_move_module` | contents survive, the new places are reserved |
| Unpacking modules, `boot_modules.cc`, `uncompress.cc` | as above | `decompress_mods` | no packed image is overwritten before it is unpacked; base modules leave the way of ELF segments |
| ELF images, `exec.cc` | none | `exec_load_elf` | the segments of the file, zero filled |
| KIP and kernel options, `init_kip.cc`, `koptions.cc` | KIPs of the nodes | `init_kip_md`, `kcmdline_parse` | descriptors agree with `ram` and `regions` |
| Module attributes, `mod_info.{h,cc}` | packed header | `find`, `is_for_node`, `modinfo_gen_payload_size` | a module is used for the nodes it is meant for; the header is reserved to its end |
| Multiboot, `multiboot2.cc`, `x86_pc.cc` | the loader's information | `process_*`, `construct_mbi` | a tag is not overwritten before it is read; the copy is complete before the original is given up |
| EFI, `efi-support.cc` | firmware memory map, key | `setup_memory`, `firmware_announce_memory`, `exit_boot_services` | RAM agrees with the map; on boards that announce it (`orin`, `sbsa`) the kernel's memory is the boot loader's; no call after the exit |
| x86 PCI, `x86_pc-base.h`, `x86_pc.cc` | configuration space, serial board | `Pci_iterator`, `setup`, `pci_quirks`, `disable_pci_bus_master` | the bus is silent, DMA ends after the handoff, the port is the one asked for |
| amd64 stub, `ARCH-amd64/` | page tables, reservations | `ptab_map_range`, `reservation_add`, `load_elf`, `mm_alloc_alloc` | nothing needed is overwritten; all memory asked for is mapped |
| Device tree, `dt.{h,cc}` | cache of parents, the tree's place | `setup_memory`, `translate_reg`, `get_stdout_uart`, `check_for_dt` | memory and UART are those described; the tree survives |
| Firmware devices, `qemu_fw_cfg*.cc`, `qemu_ramfb.cc` | DMA descriptor, frame buffer | `find_file`, `dma_transfer`, `setup_ramfb` | nothing is used before the device is done |
| RISC-V, `ARCH-riscv/` | lottery, kernel entry, configuration | `_start`, `parse_isa_ext`, `parse_harts`, `parse_interrupt_target_contexts` | one hart boots, all enter the kernel, and only when it is ready |
| ARM and MIPS boards, C glue, build tools | - | - | fixed addresses, device access, host tools |

Components interact by calls and through the three lists. `startup()` fills
`ram` and `regions` from the platform, adds the segments of the ELF images
(which may be laid over the images of modules), lets the platform's
`Boot_modules` move or unpack the modules, loads the images, releases their
sources with `sub()`, sets aside kernel memory and reports `regions` in the
KIPs. Errors end in `panic()` or a failed `assert()`, which do not return.

The hazards, each at its line, are listed in `PROJECT.json`.

## Modules

| Module | Code | |
|---|---|---|
| `Regions` | `region.h`, `region.cc` | class `Region` and the pure lookups of a list; unsigned wrap-around (`Word`), page rounding |
| `RegionList` | `region.cc`, `startup.cc` | a list as a state machine |
| `MemoryClaims` | - | the abstract specification of a list |
| `RegionOps` | `region.cc`, `memory.cc` | the effect of a whole call on a list, for the modules that compose calls |
| `FreeRam` | `memory.cc`, `region.cc` | both searches |
| `KmemArea` | `startup.cc` | `setup_kmem_areas()` |
| `ModuleMove` | `boot_modules.cc` | `move_modules()` |
| `Decompress` | `boot_modules.cc` | `decompress_mods()` |
| `ModInfo` | `mod_info.h`, `mod_info.cc` | attribute lists, node ranges |
| `BootFlow` | `startup.cc`, `exec.cc`, `init_kip.cc`, `boot_modules.cc` | `startup()`, composing `RegionOps` and `ModInfo` |
| `Multiboot2` | `multiboot2.cc` | the conversion in place |
| `FirmwareMap` | `x86_pc.cc`, `efi-support.cc`, `platform/*efi*.cc` | memory maps of BIOS and EFI, the life of the boot services on a PC and on the ARM boards with EFI |
| `MbiCopy` | `x86_pc.cc`, `boot_modules.cc` | modules and information of a multiboot loader |
| `X86Boot` | `x86_pc.cc` | `Multiboot2`, then `FirmwareMap`, then `MbiCopy` |
| `PageTables` | `ARCH-amd64/paging.c`, `boot_cpu.c` | `ptab_map_range()` as a walk |
| `Boot32` | `ARCH-amd64/boot32/` | the 32-bit stub |
| `PciSerial` | `x86_pc-base.h` | serial boards and their drivers |
| `PciBus` | `x86_pc-base.h`, `x86_pc.cc` | the bus, its iterator, xHCI handoff with the BIOS |
| `Amd64Start` | `ARCH-amd64/` | `Boot32`, then `PciBus`, on the same `PageTables` |
| `DeviceTree` | `dt.h`, `dt.cc` | the tree and what is read from it |
| `CmdLine` | `startup.cc`, `koptions.cc` | arguments, memory areas, kernel options |
| `FwCfg` | `qemu_fw_cfg.cc`, `qemu_ramfb.cc` | DMA with the device, frame buffer |
| `RiscvConfig` | `ARCH-riscv/` | ISA strings, harts, interrupt contexts |
| `RiscvStart` | `ARCH-riscv/`, `startup.cc` | all harts, composing the four above |
| `RegionLemmas`, `RegionListProofs` | | proofs about `Regions`, `RegionList` and its refinement |
| `SearchProofs`, `KmemProofs`, `MoveProofs` | | proofs about `FreeRam`, `KmemArea` and `ModuleMove` |
| `X86Proofs`, `PciProofs`, `RiscvProofs` | | proofs about `FirmwareMap` in `X86Boot`, `PciBus`, `Boot32` and `PageTables` in `Amd64Start`, and `FwCfg`, the cache of `DeviceTree`, `RiscvConfig` and the harts in `RiscvStart` |
| `MC*` | | instances for TLC |

**Regions and tags.** A region is a record `[begin, end, tag]` with an
inclusive end as in the code. Name, type and subtype only ever matter together,
in comparisons, so they are one tag. `MaxAddr` is the largest unsigned long.

**RegionList.** `list` is the array between `_reg` and `_end`, `combined` is
`_combined_size`. A call is a request (`Call`) followed by steps: `Add`,
`AddElf` and `Sub` are the bodies of `add()`, `l4_exec_add_region()` and
`sub()`, `Insert` is the part of `add_nolimitcheck()` behind the search,
`Optimize` and `RemoveIf` are one iteration of the loops. `phase` records where
`startup()` is, which decides the calls it makes: in phase `map` overlaps
panic; in phase `elf` a segment may lie on temporary regions (modules, the
multiboot info); at the end of the phase these are removed, and in phase `run`
modules and kernel memory are added and images subtracted. This is the path of
`move_modules()` and of the x86 `construct_mbi()`; with
`CONFIG_BOOTSTRAP_COMPRESS` the regions of base modules stay in the list (see
"Observed deviations"). `call`, `snap` and `squeezed` are
history variables: the running call, the list when it began, and whether the
list was full when a segment had to be inserted.

**MemoryClaims** says what a list promises: a function from addresses to the
tags they are claimed under; a call adds, releases or renames claims on the
addresses it names, or never returns; compaction may extend a claim only
within pages its tag already touches. `RegionList!ImplementsClaims` maps the
array to this function and requires that every call implements it.

**FreeRam** has one action per nested loop (`Ram`, `Sysalloc`, `Try`), for
both directions; the hook `validate` is an address window. **KmemArea**
keeps the restarting scan: `Scan` is one iteration of it. The list is taken to
have room. **ModuleMove** and **Decompress** hold the contents of memory byte by
byte, where a byte knows which module, and which byte of it, it holds; thus
"overwritten" is visible in the state. In `Decompress` zlib is external: a
module inflates if its packed image is intact and apart from the output. The
search for free RAM appears there as its result, the lowest hole, which is what
run `free_ram` shows of it.

**BootFlow** takes the phases of `startup()` one by one, with the loops over AMP
nodes as one step per node. Memory is again byte by byte. A setup gives modules
with their program headers and attribute bytes, the memory map and the
arguments. The moves of `move_modules()`, the scan of `setup_kmem_areas()` and
the searches appear as their results, which `modules`, `kmem` and `free_ram`
show of the loops. The KIPs are kept beside memory; the KIPs inside the kernel's
image are pages whose order does not matter. `find_kip()` reads the ELF header
of the kernel's file wherever the code does, which is what makes the use of
freed files visible.

**Multiboot2** moves cells of eight bytes, the alignment of tags, and keeps
where each came from; the chunked rotation is a fold of memory moves. In
**FirmwareMap** the firmware is an actor with a map, a key and timer events
(`FirmwareEvent`, at most `MaxEvents`), and the boot loader reads entry by entry.
**MbiCopy** keeps the two passes of `construct_mbi()`, which must agree on the
size, and the moves one module at a time.

**PageTables** turns the recursion of `ptab_map_level()` into a walk: a step
writes a leaf, skips, or descends, and `Resume` returns to the first level whose
loop goes on. It serves both parts of the amd64 boot loader, as in the code, with
the pool of the stub and then free RAM. **Boot32** has one action per call the
stub makes. **PciBus** has the iterator, the loop over serial cards, and
`pci_quirks()`; `BiosReleases` is the BIOS's action, possible at any time after
the request or never.

**DeviceTree** has a tree as a sequence of nodes with depths. The parent cache,
the counts of cells and the translation through buses are taken from the code,
libfdt's own walk is external and serves as the reference in `ParentRight`.
**FwCfg** has the device as an actor that completes a descriptor some time
after it was started, or fails. **RiscvStart** has one program counter per hart
and the order of the boot hart's steps.

## Runs

Passing runs:

| Run | Shows |
|---|---|
| `regions` | all sequences of calls on `regions` in their phases, on eight addresses in two pages and three entries: the store is not overrun, the list stays sorted, every call implements `MemoryClaims`, every call ends |
| `ram` | the address and size limits of the list `ram` |
| `free_ram` | each search ends with the best hole or 0, and never fails an assertion |
| `kmem` | the scan makes exactly the free RAM of the areas kernel memory, keeps the list ordered, reports whether it added any, and ends |
| `modules` | page aligned modules are compacted without loss into any target, overlapping or not, nothing else is written, the target is reserved, and moved modules are padded with zeros |
| `decompress` | in every order of unpacking no module is lost, the loader panics only if no RAM is free in front of or behind the images and asserts only if the first module has too little memory below it, and afterwards modules and ELF segments are apart |
| `boot` | the ELF files are intact until their last use although they are freed (`SourcesIntact`); at the jump every segment of every node's images is in place (`ImagesLoaded`), modules, module information and headers are untouched (`ModulesSurvive`, `InfoKept`), the KIPs hide all memory in use (`KipDescribes`) and name the images meant for their node (`KipsComplete`) |
| `x86` | the conversion meets every tag once and unchanged (`TagsWaiting`, `Converted`) and gives up only if the tags have too little room (`FailsOnlyWithoutRoom`), the map arrives (`MapDelivered`), free memory is usable and complete (`FreeIsUsable`, `RamComplete`), on boards that announce it the kernel's memory is the boot loader's whatever the firmware does (`KernelOwned`), the exit fails only if the firmware changed its map (`ExitFailsOnlyByFirmware`) and is final (`NoLateCall`), a loader's information and modules survive copying and moving (`InfoIntact`, `ModulesDelivered`) |
| `amd64` | the stub moves the 64-bit part only into RAM (`LoadedInRam`) and loads it over no reservation and, where none was lost, over no page reserved (`StubSparesAll`), the page tables fit the pool and map what was asked for (`TablesInPool`, `IdentityMapped`), ports are those offered and those of the card (`PortsAgree`, `OwnPort`), DMA ends with the handoff and the bus is silent (`DmaUntilHandoff`, `BusQuiet`), and all of it ends with a silent BIOS (`StartEnds`) |
| `riscv` | the parent cache is right below the root (`ParentRight`), RAM and UART are those described (`RamDescribed`, `KernelTold`), arguments are taken whole (`ArgsTaken`), tree, frame buffer and reserved memory stay apart (`DtbKept`, `AllocationsApart`, `FbReserved`), the device's answer is used only when complete (`FbFound`), the configuration is sound (`IsaSound`, `TargetsRight`), harts wait and all enter the kernel (`HartsWait`, `AllHartsEnter`) |

The names in brackets are the definitions that state the result. Where several
of them are facets of one promise, the run checks their conjunction, together with
the type invariant of the module:

| Checked | Parts |
|---|---|
| `SearchRight` | `TypeOK`, `FindsBestHole`, `NeverAsserts` |
| `KmemRight` | `TypeOK`, `KmemIsFreeRam`, `KmemKeepsOrder`, `KmemReported` |
| `ModulesMoved` | `TypeOK`, `ModulesIntact`, `ModulesReserved`, `TailsZero` |
| `UnpackedIntact`, `StopsOnlyWithoutRam` | `TypeOK`, `NoModuleLost`; `PanicsOnlyWithoutRam`, `AssertionsHold` |
| `SourcesKept`, `HandedOver` | `TypeOK`, `SourcesIntact`; `ModulesSurvive`, `InfoKept` |
| `ConversionRight`, `RamRight`, `CleanExit` of `X86Boot` | `TypeOK`, `TagsWaiting`, `Converted`, `FailsOnlyWithoutRoom`, `MapDelivered`; `FreeIsUsable`, `RamComplete`; `NoLateCall`, `ExitFailsOnlyByFirmware` |
| `TablesRight`, `StubRight`, `PortsRight` | `IdentityMapped`, `TablesInPool`; `TypeOK`, `StubSparesAll`, `LoadedInRam`; `PortsAgree`, `OwnPort` |
| `RamRight`, `PlacesRight`, `ConfigSound` of `RiscvStart` | `RamDescribed`, `ArgsTaken`; `DtbKept`, `AllocationsApart`, `FbReserved`; `TypeOK`, `IsaSound`, `TargetsRight` |

Runs that show a disagreement between the code and what its comments say:

| Run | Shows |
|---|---|
| `boot_preset` | with `-presetmem` and two nodes `fill_mem()` overwrites the kernel's file, which `find_kip()` then reads (`startup.cc:1112`) |
| `args_hang` | `check_arg()` never returns if the argument occurs inside a word (`startup.cc:308`) |

## Observed deviations

What the modelling brought to light besides. The passing runs leave these cases
out by their inputs or by a named condition of the property. Where a
condition or input is named, admitting the case makes TLC show what the code does;
the others were seen while reading it.

*Regions and modules.* A segment inserted into a full list may overlap a
permanent region, as `optimize()` extends an entry after the overlap check
(`startup.cc:1255`; `RegionsSorted` and `ImplementsClaims` are conditional on
`squeezed`). `find_free_rev()` wraps below address 0 and returns memory that is
not RAM (`region.cc:55`; `Roomy` keeps the lists off both ends of the address
space). A hole of one byte makes the scan for kernel memory restart for ever
(`startup.cc:782`; `kmem` has holes of two bytes and more). A first module that
unpacks to more than the memory below it fails an assertion instead of trying
the other area (`boot_modules.cc:672`; `AssertionsHold` says that this is the only
way to one). RAM between the images, or that they lie in themselves, is not
tried, so the boot loader may panic although it would do (`boot_modules.cc:686`;
`PanicsOnlyWithoutRam` speaks of RAM in front of the images and behind them).
`fill_mem()` wraps to 0 behind a region that ends with the address space and
fills memory in use (`startup.cc:547`; `FillWrapped` of `BootFlow`).
A base module that is moved keeps its old region (`boot_modules.cc:747`).
`malloc()` rounds with the wrong mask (`uncompress.cc:36`). `optimize()` bridges
gaps within a page, so with byte-granular regions `ram` may exceed its size
limit, and a region across the address limit is cut one byte below it
(`region.cc:136`). The zero fill behind a module overwrites a neighbour in the
same page (`boot_modules.cc:193`), a module of one byte is not reserved
(`region.cc:75`), and one already in place is not padded (`boot_modules.cc:135`).
Attributes do not count for the size of the region `.modinfo`; the model has them
in front of the last string.

*Arguments.* `if (!ko)` is never true (`startup.cc:272`). `parse_memvalue()`
wraps silently, areas that wrap are not refused, and `-modaddr=` within the last
page is rounded to 0. With `-mem=` the tree's reserved memory is not reserved.

*x86.* `construct_mbi()` computes its size from the flag and copies by the
pointer of the command line, and fails an assertion if they disagree; a module
without command line is dereferenced in `init_regions()`; modules that share a
command line panic as overlapping regions; page aligned modules are not
requested in the multiboot header although `move_modules()` relies on them.
`reservation_add()` loses the end when an area lies directly before a known one
(`support.c:66`), and in a full table the old end: what is lost may be overwritten,
and `StubSparesAll` claims the reservations that are left (`InOrder` names the orders in which
none is lost). `reserve_mbi()` does not reserve the memory map, the VBE information and the copy of the
RSDP at all (`boot_kernel.c:41`), though the 64-bit part reads them. `load_elf()` does
not ask whether the place it is linked to is RAM.
`next_ram_range()` reads the entry behind the map (`mm_alloc.c:94`, `MapsEnd`).
`process_fb()` reserves room for the VBE structures at the end, far more than its tag
holds, so tags that wait behind an RGB framebuffer are cut off or moved beyond
the buffer (`multiboot2.cc:140`; `FbLast`).
`ptab_alloc()` allows one page behind its pool (`boot_cpu.c:399`, never reached, see
`TablesInPool`). The end of the bus is taken for the card asked for
(`x86_pc-base.h:794`) unless a card is the last function on it, and a rejected candidate leaves its BARs in the board
(`:524`, the condition of `OwnPort`). `read_bars()` keeps the flags of 64-bit and prefetchable BARs in
the base and takes the lowest one for the size (`:532`), and a board without BAR is
accessed at address 0 (`:822`). EFI boots never hand off xHCI controllers, and a PC
does not announce the kernel's memory (`platform.h:26`), so the firmware may use it
until the exit.

*Device tree and RISC-V.* An empty `ranges` ends the translation below the root
(`dt.cc:127`); of memory nodes that overlap in part one is dropped (`dt.cc:211`);
a part of the tree that is reserved counts for all of it (`dt.cc:286`); reserved
memory that overlaps the reserve map panics; the baud rate of an unusable stdout
stays set for the fallback. `scan()` counts the root as depth 1 and gives it the
never-written first slot of its stack as parent (`dt.h:202`; arbitrary in the model, no
caller follows it). `memcpy()` takes the number of words for bytes, so with fewer than four words
the 26 single letters do not all arrive (`platform_riscv.cc:239` against the comment at `:212`;
`IsaSound` is checked with four), and harts with nothing in common leave the
bitmap as before the first hart, so that the next one starts it again (`:229`, the
condition of `IsaSound`). `Isa_parser` splits names with digits. A device without DMA is waited
for in front of the check of its version (`qemu_fw_cfg.cc:123`), `read_str()`
writes one byte behind a full buffer (`qemu_fw_cfg.h:112`), and the size of the
frame buffer wraps in 32 bits (`qemu_ramfb.cc:90`). The memory of the boot loader
is given up before the waiting harts have left its spin loop.

**Bounds.** All bounds are in the `.cfg` files. Lists of three entries are
enough for an insertion, a merge or a removal at the front, in the middle and
at the end, and for a list to be full, optimized and retried. Pages of two or
four bytes make rounding matter; two pages and a half-page offset
give gaps that `optimize()` bridges and gaps it must not. Three modules are the
fewest for which one goes up, one goes down and one stays, and for which
an unpacked module can land on an image two places away; they begin at
the bottom of memory and higher up, with and without gaps between them. The searches have up
to two RAM regions, since a bound carried from one to the next is where holes
could be skipped. The address spaces have 8 to 96 bytes, so wrap-around is
reachable.

`boot` has two nodes with one root task or one for each, images that stay,
are relocated or do not fit, three orders of modules and memory maps with one and two RAM regions,
a kernel area up to the end of the address space, and options that name memory twice. `x86`
has every kind of tag, some longer than a chunk and some shorter, with framebuffers in front of and
behind others, maps with
overlaps in both orders, and modules in front of, behind and around the
information; `MaxEvents` bounds the timer events of the firmware, enough for one
before and after each call that matters. `amd64` has page tables of four entries, so that
ranges span, end in and skip tables of each level, more areas than reservations and areas
in every order, one of which loses a reservation,
and buses with gaps, bridges, single and multi-function devices; `MaxWait` stands
for the 300 polls. `MCAmd64` combines every stub machine with a plain bus and
every bus with a plain machine, as the two share only the page tables.
`riscv` has three harts, one more than the kernel is told of, and combines
every tree and firmware with plain command lines and every command line with
plain machines.

**Deadlock** is checked, except for `ram`: the list is used while the memory map
is set up and then left alone.

**Fairness.** `RegionList`, `FreeRam` and `KmemArea` assume weak fairness of
the step of the running call: nothing preempts the boot loader, so a loop takes
its next iteration. Nothing is assumed about which calls are made. `Amd64Start`
has weak fairness of the boot loader and none of the BIOS. `RiscvStart` has weak
fairness of every hart, as each executes its loop, and of the device, which
answers a request it was given. For the boot hart the condition `BootRuns` stands for
`ENABLED`, which TLC cannot evaluate cheaply there: it is the set of
states in which a step of the boot loader exists. `BootFlow` and `X86Boot` have
no liveness properties; their phases follow each other without loops that wait.

## Proofs

Every theorem holds for all values of the constants that satisfy the named
assumptions: `WordAssumption` (pages divide the address space) and the one of the
module it is about. None of the invariants below is inductive as stated; each
strengthening was checked with TLC before it was proved.

| Module | Theorem | States | Inductive invariant |
|---|---|---|---|
| `RegionListProofs` | `TypeCorrect` | `Spec => []TypeOK` | `TypeOK` |
| | `StoreNeverOverrun` | `Spec => []StoreBound` | with `TypeOK` |
| | `ListSorted` | `Spec => []RegionsSorted` | `SortedInv` |
| | `ListImplementsClaims` | `NoLimits /\ Spec => ImplementsClaims` | `ClaimsInv` |
| | `AddressLimitKept` | `Spec => []AddressesKept` | `LimitInv` |
| `SearchProofs` | `SearchesRight` | `Spec => []SearchRight` | `SearchInv` |
| `KmemProofs` | `KmemNeverPanics` | `Spec => [](TypeOK /\ KmemKeepsOrder)` | `OrderInv` |
| | `KmemExact` | `Coarse /\ Spec => []KmemRight` | `OrderInv`, `ExactInv` |
| `MoveProofs` | `ModulesStayWhole` | all areas free: `Spec => []ModulesMoved` | `MoveInv` |
| | `WritesStayInArea` | all areas free: `Spec => []OnlyTargetWritten` | `MoveInv` |
| `X86Proofs` | `ExitIsClean` | `Spec => []CleanExit` | `ExitInv` |
| | `KernelStaysOwned` | `Spec => []KernelOwned` | `KernelInv` |
| `PciProofs` | `DmaOutlivesBios`, `BusEndsQuiet` | `Spec => []DmaUntilHandoff`, `Spec => []BusQuiet` | `BusInv` |
| | `StubAlwaysRight` | `MapsEnd`: `Spec => []StubRight` | `StubInv` |
| | `TablesAlwaysRight` | `Entries >= 4`, `PoolPages >= 6`, `BarsAligned`: `Spec => []TablesRight` | `TablesInv` |
| | `PortsAlwaysAgree` | `Spec => []PortsAgree` | `PortsInv` |
| | `PortsAlwaysRight` | `CardsFit`: `Spec => []PortsRight` | `PortsInv`, `OpenInv` |
| `RiscvProofs` | `HartsAlwaysWait` | `Spec => []HartsWait` | `HartInv` |
| | `FbAlwaysFound` | `Spec => []FbFound` | `FwInv` |
| | `ParentsAlwaysRight` | `Spec => []ParentRight` | `ParentInv` |
| | `TargetsAlwaysRight` | `[]HartsDistinct /\ Spec => []TargetsRight` | `TargetsInv` |

**Region lists.** From `ListAssumption` (tags and phases are as in the code,
the capacity is positive, the limit is an address above 0):

* `TypeCorrect`. The content is that each entry that is clipped, capped, split,
  merged or placed is again a region with `begin <= end` within the address
  space. The code asserts this in some places and relies on it in others.
  `FitsWithin` is the core: what `add()` clips and caps remains a region within
  the one it was given.
* `StoreNeverOverrun` needs, beside the types, that `Sub` and `Optimize` never
  lengthen the array and that `Insert` checks for room after `optimize()`.
* `ListSorted`. An ELF segment is inserted without an overlap check, on the
  strength of a check some steps before; and `remove_if()` restores full order
  only at its end. `SortedInv` adds the phase each step belongs to
  (`StepsInPhase`), that the region to be inserted is clear of permanent
  regions (`CheckedClear`), and that entries `remove_if()` has passed
  are permanent (`PassedPerm`). The lemmas `PlacedSorted` and `PlacedUpToTemps` show
  that the insertion point found by the first-fit search keeps the order, in
  the strict list and in the one with tolerated overlaps; `RemovedSorted`,
  `ShrunkSorted` and `MergedSorted` do the same for `remove()`, `sub()` and `optimize()`.
* `ListImplementsClaims` is the refinement of `MemoryClaims`, step by step: while
  a call runs, the abstract claims are those of the list when it began (`snap`),
  and the step with which it returns is a step of the abstract specification.
  `ClaimsInv` says, for each point between two steps, what the list lacks of
  the effect: `Removing` for `remove_if()`, `Joining` and `Adding` for a region
  not inserted yet, `Splitting` for the upper part `sub()` has to put back; and
  `optimize()` in between only compacts within pages. `NoLimits` says that the
  list is `regions`, which has no limit of address or size.
* `AddressLimitKept` is the address half of `LimitsKept`: not only the entries lie
  below the limit, but also what a call has set aside to insert after a step of
  `optimize()` or `sub()` (`LimitInv`), as the limit is applied on entry only.

**Search for free RAM.** `SearchesRight` is about both directions: no
assertion fails, and the answer is the best hole. `SearchAssumption` has the
lists of RAM and of memory for allocation in order, as `ListSorted` shows of a list. `SearchInv` adds that the piece
tried lies within the RAM region, the allocation region, the window and the bounds
(`Frame`), and that no hole is behind the search (`NothingMissed`): each
hole in a RAM region not left yet is still ahead of the address tried. The work
is in the jump over a region in use: the first (last) region that overlaps the
piece tried is found, no hole ends below (begins above) its far end, and
rounding to the alignment skips none. Finding the condition `Need >= 2` of `Roomy`
is a result of the proof: a single byte at the very end of a RAM region is
not found by the upward search.

**Kernel memory.** `KmemAssumption` has the list sorted and without kernel
memory when `setup_kmem_areas()` begins. `KmemNeverPanics` needs nothing else:
`OrderInv` says that the scan has passed only regions clear of what is left of the area
(`Passed`), so what it adds in front of the first region that is not, or behind the
last, collides with none; after a restart nothing counts as passed. `KmemExact` needs `Coarse`, no two bounds of the input one byte apart,
which page-aligned regions satisfy; the run's inputs do. `ExactInv` carries that no new
bounds arise (`BoundsKept`), that the scan leaves behind no free address of the RAM it is in
(`Scanned`, `NoneMissed`), that regions in use stay (`UsedKept`), that kernel
memory lies in one RAM region and one area begun (`KmemInArea`), and
that the flags tell of it (`Flagged`), which settles that `hit` is set wherever
`new` is, so the two messages of `setup_kmem_areas()` never hide an addition.

**Moving of modules.** `LayoutAssumption` says that modules begin on pages,
are apart, and have at least two bytes. `FreeArea` is what `find_free_ram()`
promises of its answer (`SearchesRight`, with the size it is called with): RAM of the
computed size with no region in use. `MCModules` checks that its layouts have it.
`calc_modules_size()` adds the sizes in the order of the modules, `move_modules()` in
the order of their addresses; that the second never exceeds the first is an invariant
of its own: the modules laid out so far are a set of modules, and the sum over them plus
those left is the sum computed (`SumExists`, `SomeBelowAll`). The sums are made explicit as functions, and the
induction they need is done by a least counterexample. `MoveInv` says
that there is a sequence `C` of targets, each a module's pages behind the one before
(`Targets`); that modules below `end_fwd` lie at or below their target and
the next one above it (`Directions`); and that the modules moved lie at their target,
the others where they were loaded (`Placement`), whole (`Whole`), padded (`Tails`) and
reserved if moved (`Listed`). `ClearUp` and `ClearDown` are the core: the target of the next
module is clear of every other module, moved or not, and of all regions in use. A module
that goes up cannot meet one not moved yet below it, as that lies below its own place;
one that goes down cannot meet one above. `RestOfPages` shows that the zero fill
ends with the module's pages, in the last page of the address space too,
where `l4_round_page()` wraps to 0.

**x86.** `ExitInv` adds to `CleanExit` that the console is the firmware's only
while its services are up, and that from the last read of the map to the exit a
differing key is the work of the firmware. `KernelOwned` is about boards that announce the kernel's memory
(`Announces`: `orin` and `sbsa`, not a PC). `KernelInv` adds that the
kernel begins on a page and ends within the address space; the rest is that the
announcement, which rounds to pages, covers the hole found. `BootAssumption` has
`KernelSize` no larger than the address space less a page. `BusInv` follows the iterator:
functions behind it have bus mastering off, controllers behind it in the second loop
are handed over (`MastersOff`, `QuirksDone`), and within a handoff
semaphore and SMIs are as the step left them (`HandoffState`). `PciAssumption` says
that devices with a second function say so in the header of the first, as PCI requires.

**amd64 stub.** `StubInv` says that every area `bootstrap()` has reserved so far is covered
by the entries of the table, whichever were joined or extended (`Covered`), and that
the piece of RAM tried next fits the entry of the memory map it is in (`Searching`).
The first half of `StubSparesAll`, no reservation is overwritten, holds for every order of the areas: the
search jumps behind every reservation that meets the place tried. For the second half `Covered`
is kept under `InOrder`, which excludes two orders: an area directly before a known
one, where `reservation_add()` sets only the start, and a full table whose last entry is
moved down. In these areas are lost, and `MCAmd64` has a machine on which the lost one is
overwritten. `MapsEnd` is the hypothesis of the theorem: what lies behind the memory map does not look
like RAM, since `next_ram_range()` looks there.

**Page tables.** `TablesInv` has four parts. The path: the loops of
`ptab_map_level()` stand in tables that lead to the address they are at (`WalkReaches`). The
tree: tables have levels and numbers such that an entry, if valid, leads to a table one
level below or is a leaf for its own address (`Tree`, `Shape`), so an existing table or leaf
left by an earlier call is the right one. Progress: what was asked for is mapped or
still ahead of the loop (`Progress`); entries only ever become valid, so it stays mapped. The pool:
for the stub, which maps superpages of at most 4 GiB from 0 on, there is a table for each GiB
behind the loop, besides the top two (`PoolKept`), hence six in all. `Entries >= 4` and
`PoolPages >= 6` are 512 and 6 in the code. Only the 64-bit part, which takes tables from free RAM, may run out of it. `BarsAligned` says that a BAR is aligned to its size, as PCI
requires, or at least that it leaves no entry of a level it is not aligned to: where a leaf
exists already, `ptab_map_level()` adds the leaf's whole size to an unaligned address,
and of a range that continued behind the leaf it would skip the first pages (`paging.c:91`). An empty
memory map ends in an assertion (`StubAsserts`).

**Serial ports.** The functions of the bus have numbers in the order of `operator ++` (`Num`, `NumOrder`), and
`IsFold` gives the board and the cards of the functions below each number; that there is exactly one such
function is shown by least counterexamples (`FoldExists`, `FoldUnique`). `PortsInv` says that in
both loops the board and the number of the card are those of the functions behind the
iterator (`LookedAt`): a function the loop visits does one step of the fold (`VisitStep`), and `operator ++`
passes only numbers without a function, which leave it alone (`AdvanceSkips`). As a card keeps its number when
more are found (`CardsGrow`), the one `search_pci_serial_devs()` stops at is the one
`scan_pci_uarts()` printed under that number. `OpenInv` adds that each card up to there has its
accesses enabled, and that nothing disables them afterwards. The first candidate then meets a new
board (`FirstCandidate`) and leaves its own BARs in it, whatever its driver (`TryOwn`). `CardsFit` is about the
hardware: what the driver takes for the ports lies within the BAR it goes by. `MCAmd64` checks it of its cards.

**RISC-V.** `HartInv` says that no hart has passed the lottery before it is drawn
and at most one runs the boot loader afterwards (`OneRuns`), that no transfer of the
device is under way before the first one and after the last (`Idle`), and what
each stage of the boot hart has left behind in the composed modules, with the
release of the other harts as the last stage (`InOrder`). `FwInv` follows the dialogue
with QEMU's device: which item is selected and how far it was read (`Items`), that the
search has passed no entry of the name (`Walk`), and that what is read from the buffer is
what the device put there, since each step waits for the descriptor (`Resolution`,
`Shown`). `FwAssumption` says that files have selectors behind those of the fixed items.

**Device tree.** `ParentInv` says that the cache has the nodes in order, each with the parent
libfdt would find (`CacheRight`), and that the stack of `scan()` holds the last node of each level
(`StackRight`), so the entry one level up is the parent of the next node; the slot above the root
holds whatever was there. `TreeAssumption`
says that each node below the root comes behind a node one level up, as in any
flattened tree. That the binary search ends and answers for every window is shown by
a least counterexample over the sizes of windows (`SearchAnswers`). A node that did not fit, or lies too deep,
is looked up by libfdt. The root is left out: its cached parent is that leftover. `TargetsAlwaysRight` builds on it: `parse_interrupt_target_contexts()` goes from
a handle to the controller and from there, through the cache, to the hart; the root is no interrupt
controller (an assumption on the tree), so its leftover is not followed. `TargetsInv` has the
list without doubles and no longer than its array (`HartList`), and that each
context entered serves its hart and is the last one looked at that does (`Entered`). `HartsDistinct` is
about the tree alone: the harts listed have different ids. Otherwise the second of two
with the same id is left without a context.

`RegionLemmas` holds the facts about words, rounding, lookups in a list, and about
inserting into and removing from a sequence that all of these rest on.

**Only model-checked.** All liveness properties (`CallsEnd`, `SearchEnds`, `KmemEnds`,
`StartEnds`, `AllHartsEnter`), which are out of reach of the proof system.
Properties that hold of the instances but not of every instance, since the code deviates
there (see above): the size half of `LimitsKept`, where `optimize()` merges across gaps; `RamRight`
with overlapping or one-byte entries; the ISA half of `ConfigSound`, which needs four words and whose
condition names the harts with nothing in common; and `KernelTold` with the trees named above. A property that compares a scan of nested data with a
reference definition of the same scan (`ConversionRight`): a proof would be
an induction over the data of the input, for which the library's theorems
cannot be used; where induction was needed elsewhere (sums, sizes of tables, numbers of an
iterator) it is done by a least counterexample over explicit functions. And
properties of the compositions, for which no inductive invariant was worked out: those of `Decompress`,
`BootFlow` and `MbiCopy`, and `PlacesRight`.

## Not modelled

Printing; the registers of UARTs and the text console; ACPI tables, which are
only searched; the boards of ARM and MIPS under `platform/` with their fixed
addresses; descriptor tables, trap handlers and assembly other than the start of
the harts; zlib and its heap, libfdt and gnu-efi; the build tools. `PROJECT.json`
lists every component.

## Possible further work

The modules of `Decompress` kept apart by the order of unpacking, and the information copied by
`MbiCopy`, are the properties most worth proving next. The ARM boards' shared code
(`platform_common-arm.cc`) would be worth a module if it grew logic beyond register accesses.
