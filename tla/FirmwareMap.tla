---------------------------- MODULE FirmwareMap ----------------------------
(***************************************************************************)
(* The firmware's memory map and the lists `ram' and `regions': the        *)
(* setup_memory_map() of x86 multiboot platforms (x86_pc.cc), Efi::        *)
(* setup_memory() and the life of the EFI boot services until              *)
(* Efi::exit_boot_services() (efi-support.cc), on PCs (x86_efi_pc.cc) and  *)
(* on Arm boards (orin.cc, sbsa.cc).                                       *)
(*                                                                         *)
(* The EFI firmware is an actor of its own: it owns the map, changes it    *)
(* in timer events while the boot services are up, and gives out a key for *)
(* every version of it.                                                    *)
(***************************************************************************)
EXTENDS RegionOps, FiniteSetsExt

CONSTANTS
  Boots,        \* the inputs, see BootAssumption
  KernelSize,   \* the size of the kernel's image
  MaxEvents     \* bound on the events of the firmware

RamTag == "ram"
ArchTag == "arch"
NoMemTag == "no_mem"
DontUseTag == "ram_dont_use"
FwBootTag == "boot"
KernelTag == "kernel"
VbeTag == "vbe"

E820Types == {"memory", "reserved", "acpi", "nvs", "unusable", "pmem", "unknown"}
EfiTypes == {"bs", "loader", "conventional", "acpi", "nvs", "runtime"}

\* The size of the kernel, rounded up to pages, fits a word.  A boot: its
\* origin and platform, the boot loader's own regions, the ACPI root pointer, and the map;
\* without one the size of lower and upper memory and the EBDA.
ASSUME BootAssumption ==
  /\ KernelSize \in 1..(MaxAddr + 1 - PageSize) /\ MaxEvents \in Nat
  /\ \A b \in Boots :
       /\ b.origin \in {"multiboot", "efi"}
       /\ b.arm \in BOOLEAN                     \* an EFI boot of orin.cc or sbsa.cc
       /\ b.own \in Seq(Region)
       /\ b.mbi.image \in BOOLEAN               \* the modules are in the image
       /\ b.hasMap \in BOOLEAN
       /\ b.lower \in Nat /\ b.upper \in Nat /\ b.ebda \in Addr
       /\ b.low \in Addr                        \* 1 MiB
       /\ b.modes \in Seq([ok : BOOLEAN, current : BOOLEAN, rgb : BOOLEAN])
       /\ \A i \in DOMAIN b.map :
            /\ b.map[i].r \in Region
            /\ b.map[i].type \in IF b.origin = "efi" THEN EfiTypes ELSE E820Types

VARIABLES
  boot,       \* the input
  map,        \* the map being read
  idx,        \* the entry looked at
  ram, regions,
  firm,       \* EFI: what the firmware uses each byte for
  key,        \* EFI: the key of the current map
  mapKey,     \* EFI: the key the boot loader got last
  stale,      \* history: the firmware changed the map after the last read
  services,   \* EFI: the boot services are up
  console,    \* where printf() goes
  late,       \* history: a boot service was called after the exit
  kernel,     \* where the kernel was put, 0 if not yet
  video,      \* the graphics mode found: "none", "rgb" or "blt"
  vbe,        \* the memory for it, and whether the information is valid
  fpc

fvars == <<boot, map, idx, ram, regions, firm, key, mapKey, stale, services,
           console, late, kernel, video, vbe, fpc>>

Efi == boot.origin = "efi"

\* The modules are those of a multiboot 1 loader, see MbiCopy.
ByLoader == boot.origin = "multiboot" /\ boot.version = 1 /\ ~boot.mbi.image

NoVbe == [at |-> 0, valid |-> FALSE]

\* Usable memory as the firmware describes it
Usable(t) == t \in {"memory", "conventional", "loader", "bs"}

EntriesAt(m, a) == { i \in DOMAIN m : a \in Bytes(m[i].r) }

FInit ==
  /\ boot \in Boots
  /\ map = boot.map
  /\ idx = 1
  /\ ram = <<>> /\ regions = <<>>
  /\ firm = [a \in Addr |-> LET e == EntriesAt(boot.map, a) IN
                            IF e = {} THEN "none" ELSE boot.map[Max(e)].type]
  /\ key = 1 /\ mapKey = 0 /\ stale = FALSE
  /\ services = Efi
  /\ console = IF Efi THEN "efi" ELSE "uart"
  /\ late = FALSE
  /\ kernel = 0
  /\ video = "none" /\ vbe = NoVbe
  /\ fpc = "gop"

FStop(why) ==
  /\ fpc' = why
  /\ UNCHANGED <<boot, map, idx, ram, regions, firm, key, mapKey, stale, services,
                 console, late, kernel, video, vbe>>

-----------------------------------------------------------------------------
(* Efi::setup_gop(): the mode the display is in, if the firmware reports it *)

SetupGop ==
  /\ fpc = "gop"
  /\ LET hit == { i \in DOMAIN boot.modes : boot.modes[i].ok /\ boot.modes[i].current }
     IN video' = IF ~Efi \/ hit = {} THEN "none"
                 ELSE IF boot.modes[Max(hit)].rgb THEN "rgb" ELSE "blt"
  /\ fpc' = "own"
  /\ UNCHANGED <<boot, map, idx, ram, regions, firm, key, mapKey, stale, services,
                 console, late, kernel, vbe>>

-----------------------------------------------------------------------------
(* Platform_x86_1::setup_memory_map() *)

\* The page table, boot32_info and the ACPI root pointer are reserved; EFI
\* reads the map.
Reserve ==
  /\ fpc = "own"
  /\ IF ~Efi /\ AddAllPanics(<<>>, boot.own) THEN FStop("panic")
     ELSE /\ IF Efi THEN mapKey' = key /\ stale' = FALSE /\ UNCHANGED regions
                    ELSE regions' = AddAll(<<>>, boot.own) /\ UNCHANGED <<mapKey, stale>>
          /\ fpc' = IF boot.hasMap \/ Efi THEN "entries" ELSE "sizes"
          /\ UNCHANGED <<boot, map, idx, ram, firm, key, services, console, late, kernel, video, vbe>>

LowRam == StartSize(0, boot.lower, RamTag)
HighRam == StartSize(boot.low, boot.upper, RamTag)

\* Without a map: lower and upper memory, of which there must be some of each
\* (an assertion of start_size()).  The EBDA is cut out; ram.add()
\* puts the part behind it in front of the entry r points to, so that r is
\* that part when its end is set to p.  The EBDA's 1 KiB is a page here.
MemorySizes ==
  /\ fpc = "sizes"
  /\ LET both == <<LowRam, HighRam>>
         list == AddAll(<<>>, both)
         p == boot.ebda
         e == p + PageSize
         k == Find(list, Interval(p, e - 1, RamTag))
         r == list[k]
         with == AddedOver(list, Interval(e, r.end, RamTag))
     IN IF boot.lower = 0 \/ boot.upper = 0 THEN FStop("assert")
        ELSE IF AddAllPanics(<<>>, both) THEN FStop("panic")
        ELSE IF p <= PageSize \/ k = 0
        THEN /\ ram' = list
             /\ fpc' = "bios"
             /\ UNCHANGED <<boot, map, idx, regions, firm, key, mapKey, stale, services,
                            console, late, kernel, video, vbe>>
        ELSE IF e - 1 < r.end /\ with # list THEN FStop("assert")
        ELSE /\ ram' = [list EXCEPT ![k].end = p]
             /\ fpc' = "bios"
             /\ UNCHANGED <<boot, map, idx, regions, firm, key, mapKey, stale, services,
                            console, late, kernel, video, vbe>>

\* What an entry of the e820 map adds to `regions'
Claimed(type, r) ==
  CASE type \in {"reserved", "acpi", "nvs", "pmem"} -> <<[r EXCEPT !.tag = ArchTag]>>
    [] type = "unusable" -> <<[r EXCEPT !.tag = NoMemTag]>>
    [] OTHER -> <<>>

E820Entry ==
  /\ fpc = "entries" /\ ~Efi
  /\ idx <= Len(map)
  /\ LET e == map[idx]
         mem == IF e.type = "memory" THEN <<[e.r EXCEPT !.tag = RamTag]>> ELSE <<>>
     IN IF AddAllPanics(ram, mem) \/ AddAllPanics(regions, Claimed(e.type, e.r))
        THEN FStop("panic")
        ELSE /\ ram' = AddAll(ram, mem)
             /\ regions' = AddAll(regions, Claimed(e.type, e.r))
             /\ idx' = idx + 1
             /\ UNCHANGED <<boot, map, firm, key, mapKey, stale, services, console,
                            late, kernel, video, vbe, fpc>>

E820End ==
  /\ fpc = "entries" /\ ~Efi
  /\ idx > Len(map)
  /\ FStop("bios")

\* The first page belongs to the BIOS.
BiosPage ==
  /\ fpc = "bios"
  /\ LET page == <<StartSize(0, PageSize, ArchTag)>> IN
     IF AddAllPanics(regions, page) THEN FStop("panic")
     ELSE /\ regions' = AddAll(regions, page)
          /\ fpc' = IF ByLoader THEN "regions" ELSE "kernel"
          /\ UNCHANGED <<boot, map, idx, ram, firm, key, mapKey, stale, services,
                         console, late, kernel, video, vbe>>

-----------------------------------------------------------------------------
(* Efi::setup_memory() *)

\* Mutant: the memory of the boot services is free.
EfiClaims_NotBs(type, r) ==
  IF type \in {"acpi", "nvs"} THEN Added(regions, [r EXCEPT !.tag = ArchTag]) ELSE regions

EfiClaims(type, r) ==
  CASE type = "bs" -> AddedOver(regions, [r EXCEPT !.tag = DontUseTag])
    [] type \in {"acpi", "nvs"} -> Added(regions, [r EXCEPT !.tag = ArchTag])
    [] OTHER -> regions

EfiRam(type) == type \in {"bs", "loader", "conventional"}

EfiEntry ==
  /\ fpc = "entries" /\ Efi
  /\ idx <= Len(map)
  /\ LET e == map[idx] IN
     IF e.type \in {"acpi", "nvs"} /\ AddPanics(regions, [e.r EXCEPT !.tag = ArchTag])
     THEN FStop("panic")
     ELSE /\ regions' = EfiClaims(e.type, e.r)
          /\ ram' = IF EfiRam(e.type) THEN AddedOver(ram, [e.r EXCEPT !.tag = RamTag]) ELSE ram
          /\ idx' = idx + 1
          /\ UNCHANGED <<boot, map, firm, key, mapKey, stale, services, console,
                         late, kernel, video, vbe, fpc>>

EfiEntriesEnd ==
  /\ fpc = "entries" /\ Efi
  /\ idx > Len(map)
  /\ ram' = Optimized(ram)
  /\ regions' = FoldLeft(AddedOver, regions, boot.own)
  /\ fpc' = "kernel"
  /\ UNCHANGED <<boot, map, idx, firm, key, mapKey, stale, services, console, late,
                 kernel, video, vbe>>

-----------------------------------------------------------------------------
(* The kernel gets its memory, and on Arm boards the firmware is told. *)

Everything == <<Interval(0, MaxAddr, RamTag)>>

\* Mutant: the firmware is not told.
Announce_Not(r) == UNCHANGED <<firm, key>>

\* firmware_announce_memory() does nothing on a PC.
Announces == Efi /\ boot.arm

\* AllocatePages() makes the memory the boot loader's.
Announce(r) ==
  /\ firm' = IF Announces THEN [a \in Addr |-> IF a \in Bytes(r) THEN "loader" ELSE firm[a]] ELSE firm
  /\ key' = IF Announces THEN key + 1 ELSE key

\* It fails unless the memory is free.
AnnounceFails(r) == Announces /\ \E x \in Bytes(r) : firm[x] # "conventional"

PlaceKernel ==
  /\ fpc = "kernel"
  /\ LET a == LowestHole(ram, Everything, regions, KernelSize, PageSize, PageSize)
         r == StartSize(a, RoundPage(KernelSize), KernelTag)
     IN IF a = 0 \/ AnnounceFails(r) THEN FStop("panic")
        ELSE /\ Announce(r)
             /\ regions' = Added(regions, r)
             /\ kernel' = a
             /\ fpc' = "exit"
             /\ UNCHANGED <<boot, map, idx, ram, mapKey, stale, services, console, late, video, vbe>>

-----------------------------------------------------------------------------
(* Efi::exit_boot_services() *)

\* Mutant: the key of setup_memory() is used.
ReadMap_Not ==
  /\ fpc = "exit"
  /\ FStop("leave")

\* A PC turns its console off before the exit.
ConsoleBeforeExit == IF console = "efi" /\ ~boot.arm THEN "none" ELSE console

\* The map is read again for its key.
ReadMap ==
  /\ fpc = "exit"
  /\ console' = ConsoleBeforeExit
  /\ fpc' = IF Efi THEN "leave" ELSE IF ByLoader THEN "copy" ELSE "vbe"
  /\ mapKey' = key
  /\ stale' = FALSE
  /\ UNCHANGED <<boot, map, idx, ram, regions, firm, key, services, late, kernel, video, vbe>>

\* The console of the firmware is gone.
ConsoleAfterExit == IF console = "efi" THEN "none" ELSE console

ExitBootServices ==
  /\ fpc = "leave"
  /\ IF mapKey # key THEN FStop("exit_failed")
     ELSE /\ services' = FALSE
          /\ console' = ConsoleAfterExit
          /\ fpc' = "vbe"
          /\ UNCHANGED <<boot, map, idx, ram, regions, firm, key, mapKey, stale, late,
                         kernel, video, vbe>>

\* Efi::construct_mbi(): memory for the graphics information; the format of
\* the pixels decides at the end whether it is used.
ConstructVbe ==
  /\ fpc = "vbe"
  /\ LET a == LowestHole(ram, Everything, regions, 2, PageSize, PageSize) IN
     IF video = "none" \/ a = 0 THEN UNCHANGED <<regions, vbe>>
     ELSE /\ regions' = Added(regions, StartSize(a, 2, VbeTag))
          /\ vbe' = [at |-> a, valid |-> video = "rgb"]
  /\ fpc' = "up"
  /\ UNCHANGED <<boot, map, idx, ram, firm, key, mapKey, stale, services, console,
                 late, kernel, video>>

-----------------------------------------------------------------------------
(* Output, and the firmware itself *)

Halted == {"assert", "panic", "exit_failed", "up"}

\* printf() with the EFI console is a call of the firmware, which may change
\* the map.  Nothing is printed between the last read of the map and the exit.
PrintLine ==
  /\ fpc \in {"kernel", "exit", "vbe", "up"}
  /\ console = "efi"
  /\ ~services \/ key < MaxEvents
  /\ late' = (late \/ ~services)
  /\ key' = IF services THEN key + 1 ELSE key
  /\ UNCHANGED <<boot, map, idx, ram, regions, firm, mapKey, stale, services, console,
                 kernel, video, vbe, fpc>>

\* A timer event of the firmware takes free memory, or gives it back.
FirmwareEvent ==
  /\ services /\ fpc \notin Halted
  /\ key < MaxEvents
  /\ \E p \in { a \in Addr : a % PageSize = 0 /\ firm[a] \in {"conventional", "bs"} } :
       firm' = [a \in Addr |-> IF a \in p..(p + PageSize - 1)
                               THEN (IF firm[p] = "bs" THEN "conventional" ELSE "bs") ELSE firm[a]]
  /\ key' = key + 1
  /\ stale' = (mapKey # 0)
  /\ UNCHANGED <<boot, map, idx, ram, regions, mapKey, services, console, late, kernel,
                 video, vbe, fpc>>

FStep ==
  \/ SetupGop \/ Reserve \/ MemorySizes \/ E820Entry \/ E820End \/ BiosPage
  \/ EfiEntry \/ EfiEntriesEnd \/ PlaceKernel \/ ReadMap \/ ExitBootServices
  \/ ConstructVbe \/ PrintLine \/ FirmwareEvent

-----------------------------------------------------------------------------
(* Properties *)

Mapped == fpc \in {"regions", "kernel", "exit", "leave", "copy", "place", "move", "vbe", "up"}

\* Memory the boot loader takes for free is described by the firmware, and
\* every entry for it says that it is RAM the firmware does not use itself:
\* whatever the order of the entries, a reservation wins over one for RAM.
FreeIsUsable ==
  Mapped /\ boot.hasMap =>
    \A a \in Covered(ram) \ Covered(regions) :
      LET e == EntriesAt(map, a)
      IN e # {} /\ \A i \in e : map[i].type \in {"memory", "conventional", "loader"}

\* No usable memory is lost, if the entries of the map are disjoint.
RamComplete ==
  Mapped /\ boot.hasMap /\ (\A i, j \in DOMAIN map : i # j => ~Overlaps(map[i].r, map[j].r)) =>
    \A a \in Addr : (\E i \in EntriesAt(map, a) : Usable(map[i].type)) => a \in Covered(ram)

\* On a board that announces it, the kernel's memory belongs to the boot loader
\* in the firmware's books, too, down to the last page, from the moment it is
\* chosen, and no event of the firmware takes any of it while the services
\* are up.
KernelOwned ==
  Announces /\ kernel # 0 =>
    \A a \in kernel..(kernel + KernelSize - 1) : firm[a] = "loader"

\* The boot loader never calls a boot service it has left, not even to print.
NoLateCall == ~late

\* If ExitBootServices() fails, then because the firmware changed its map
\* after the map was read for the last time, and not by a call of the boot
\* loader itself.
ExitFailsOnlyByFirmware == fpc = "exit_failed" => stale

=============================================================================
