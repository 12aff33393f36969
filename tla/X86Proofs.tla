------------------------------ MODULE X86Proofs ------------------------------
(***************************************************************************)
(* Proofs about the x86 boot: how the boot loader leaves the EFI boot      *)
(* services, and who owns the kernel's memory while the firmware still     *)
(* runs.                                                                   *)
(***************************************************************************)
EXTENDS X86Boot, RegionLemmas

-----------------------------------------------------------------------------
(* CleanExit *)

\* The inductive strengthening of CleanExit.  The console is the firmware's
\* only while the services are up; and from the last read of the map to the
\* exit a key that differs from the one read is the work of the firmware.
ExitInv ==
  /\ late = FALSE
  /\ services \in BOOLEAN
  /\ console = "efi" => services
  /\ key \in Nat \ {0}
  /\ fpc = "leave" => mapKey \in Nat \ {0} /\ (mapKey # key => stale)
  /\ fpc = "exit_failed" => stale

\* A step that changes the control only, and not to the last stage of the
\* exit or its failure.
LEMMA ExitInvKept ==
  ASSUME ExitInv,
         UNCHANGED <<late, services, console, key>>,
         UNCHANGED <<mapKey, stale>> \/ fpc' \notin {"leave", "exit_failed"},
         fpc' \in {"leave", "exit_failed"} => fpc' = fpc
  PROVE  ExitInv'
BY DEF ExitInv

\* The steps of setup_memory_map() and of exit_boot_services().
LEMMA ExitInvFStep ==
  ASSUME ExitInv, FStep
  PROVE  ExitInv'
<1>1. CASE SetupGop
  BY <1>1, ExitInvKept DEF SetupGop
<1>2. CASE Reserve
  BY <1>2, ExitInvKept DEF Reserve, FStop
<1>3. CASE MemorySizes
  BY <1>3, ExitInvKept DEF MemorySizes, FStop
<1>4. CASE E820Entry
  BY <1>4, ExitInvKept DEF E820Entry, FStop
<1>5. CASE E820End
  BY <1>5, ExitInvKept DEF E820End, FStop
<1>6. CASE BiosPage
  BY <1>6, ExitInvKept DEF BiosPage, FStop
<1>7. CASE EfiEntry
  BY <1>7, ExitInvKept DEF EfiEntry, FStop
<1>8. CASE EfiEntriesEnd
  BY <1>8, ExitInvKept DEF EfiEntriesEnd
<1>9. CASE PlaceKernel
  BY <1>9 DEF PlaceKernel, FStop, Announce, ExitInv
<1>10. CASE ReadMap
  BY <1>10 DEF ReadMap, ConsoleBeforeExit, ExitInv
<1>11. CASE ExitBootServices
  BY <1>11 DEF ExitBootServices, ConsoleAfterExit, FStop, ExitInv
<1>12. CASE ConstructVbe
  BY <1>12, ExitInvKept DEF ConstructVbe
<1>13. CASE PrintLine
  <2>1. services = TRUE /\ late = FALSE
    BY <1>13 DEF PrintLine, ExitInv
  <2>2. late' = FALSE
    BY <1>13, <2>1, Zenon DEF PrintLine
  <2>3. key' \in Nat \ {0}
    BY <1>13 DEF PrintLine, ExitInv
  <2>4. UNCHANGED <<services, console, mapKey, stale, fpc>> /\ fpc # "leave"
    BY <1>13 DEF PrintLine
  <2> QED BY <2>1, <2>2, <2>3, <2>4 DEF ExitInv
<1>14. CASE FirmwareEvent
  <2>1. /\ UNCHANGED <<late, services, console, mapKey, fpc>> /\ fpc # "exit_failed"
        /\ key' = key + 1
    BY <1>14 DEF FirmwareEvent, Halted
  <2>2. stale' = (mapKey # 0)
    BY <1>14, Zenon DEF FirmwareEvent
  <2>3. fpc = "leave" => mapKey # 0
    BY DEF ExitInv
  <2>4. fpc' = "leave" => stale'
    BY <2>1, <2>2, <2>3, Zenon
  <2> QED BY <2>1, <2>4 DEF ExitInv
<1> QED
  BY <1>1, <1>2, <1>3, <1>4, <1>5, <1>6, <1>7, <1>8, <1>9, <1>10, <1>11, <1>12, <1>13,
     <1>14 DEF FStep

\* Nothing MbiCopy does leads to the exit or calls the firmware.
LEMMA ExitInvBStep ==
  ASSUME ExitInv, BStep
  PROVE  ExitInv'
<1>1. UNCHANGED <<late, services, console, key, mapKey, stale>>
  BY DEF BStep
<1>2. fpc' \in {"leave", "exit_failed"} => fpc' = fpc
  BY DEF BStep, InitRegions, ConstructMbi, PlaceModules, MoveModule, MoveEnd
<1> QED BY <1>1, <1>2, ExitInvKept

\* CleanExit holds for every firmware, memory map and command line: no boot
\* service is called after ExitBootServices(), not even by printf(), and the
\* call fails only if the firmware changed its map after the last read.
THEOREM ExitIsClean == Spec => []CleanExit
<1>1. Init => ExitInv
  <2> SUFFICES ASSUME Init PROVE ExitInv
    OBVIOUS
  <2>1. services \in BOOLEAN /\ (console = "efi" => services)
    BY Zenon DEF Init, FInit, Efi
  <2>2. late = FALSE /\ key = 1 /\ fpc = "gop"
    BY DEF Init, FInit
  <2> QED BY <2>1, <2>2 DEF ExitInv
<1>2. ExitInv /\ [Next]_vars => ExitInv'
  <2> SUFFICES ASSUME ExitInv, [Next]_vars
               PROVE  ExitInv'
    OBVIOUS
  <2>1. CASE Convert
    BY <2>1, ExitInvKept DEF Convert
  <2>2. CASE Run
    BY <2>2, ExitInvFStep, ExitInvBStep DEF Run
  <2>3. CASE UNCHANGED vars
    BY <2>3, ExitInvKept DEF vars, fvars
  <2> QED BY <2>1, <2>2, <2>3 DEF Next, Done
<1>3. ExitInv => CleanExit
  BY DEF ExitInv, CleanExit, NoLateCall, ExitFailsOnlyByFirmware
<1> QED BY <1>1, <1>2, <1>3, PTL DEF Spec

-----------------------------------------------------------------------------
(* KernelOwned *)

\* find_free_ram() returns nothing, or an aligned piece of the address space
\* that RAM encloses and no region overlaps.
LEMMA HoleFound ==
  ASSUME NEW rm, NEW sys, NEW l, NEW sz, NEW min, NEW align
  PROVE  LET a == LowestHole(rm, sys, l, sz, min, align)
             n == RoundSize(sz, align)
             h == [begin |-> a, end |-> a + n - 1]
         IN \/ a = 0
            \/ /\ a \in Addr \ {0} /\ a >= min /\ a % align = 0
               /\ a + n - 1 <= MaxAddr
               /\ \E i \in DOMAIN rm : Encloses(rm[i], h)
               /\ Find(l, h) = 0
<1> DEFINE holes == Holes(rm, sys, l, sz, min, align)
           a == LowestHole(rm, sys, l, sz, min, align)
<1>1. CASE holes = {}
  BY <1>1 DEF LowestHole
<1>2. CASE holes # {}
  <2>1. holes \in SUBSET Nat
    BY WordAssumption DEF Holes, Addr
  <2>2. \E m \in holes : \A y \in holes : m <= y
    BY <1>2, <2>1, LeastElement
  <2>3. a = CHOOSE x \in holes : \A y \in holes : x <= y
    BY <1>2 DEF LowestHole
  <2> HIDE DEF holes, a
  <2>4. a \in holes
    BY <2>2, <2>3
  <2> QED BY <2>4 DEF holes, a, Holes
<1> QED BY <1>1, <1>2

\* The inductive strengthening of KernelOwned: the kernel begins on a page,
\* and ends within the address space.
KernelInv ==
  Announces /\ kernel # 0 =>
    /\ kernel \in Nat /\ kernel % PageSize = 0
    /\ kernel + KernelSize - 1 <= MaxAddr
    /\ \A a \in kernel..(kernel + KernelSize - 1) : firm[a] = "loader"

\* Most steps leave the kernel and the firmware's books alone.
LEMMA KernelInvKept ==
  ASSUME KernelInv, UNCHANGED <<boot, firm, kernel>>
  PROVE  KernelInv'
BY DEF KernelInv, Announces, Efi

\* The firmware is told of the kernel's memory to the last page.
LEMMA KernelInvPlaced ==
  ASSUME KernelInv, PlaceKernel
  PROVE  KernelInv'
<1> DEFINE a == LowestHole(ram, Everything, regions, KernelSize, PageSize, PageSize)
           n == RoundPage(KernelSize)
           r == StartSize(a, n, KernelTag)
<1>1. CASE UNCHANGED <<boot, firm, kernel>>
  BY <1>1, KernelInvKept
<1>2. CASE ~UNCHANGED <<boot, firm, kernel>>
  <2>1. a # 0 /\ Announce(r) /\ kernel' = a /\ boot' = boot
    BY <1>2 DEF PlaceKernel, FStop
  <2>2. a \in Nat /\ a % PageSize = 0 /\ a + n - 1 <= MaxAddr
    <3>1. a = 0 \/ (a \in Addr /\ a % PageSize = 0 /\ a + RoundSize(KernelSize, PageSize) - 1 <= MaxAddr)
      BY HoleFound
    <3> QED BY <2>1, <3>1, WordAssumption DEF Addr, RoundPage
  <2>3. KernelSize \in Nat /\ n \in Nat /\ n >= KernelSize
    BY RoundBounds, BootAssumption, WordAssumption DEF RoundPage
  <2>4. r.begin = a /\ r.end = a + n - 1
    BY DEF StartSize, Interval
  <2> HIDE DEF a, n, r
  <2>5. Announces => firm' = [x \in Addr |-> IF x \in Bytes(r) THEN "loader" ELSE firm[x]]
    BY <2>1 DEF Announce
  <2>6. \A x \in a..(a + KernelSize - 1) : x \in Addr /\ x \in Bytes(r)
    BY <2>2, <2>3, <2>4, WordAssumption DEF Bytes, Addr
  <2>7. Announces' = Announces
    BY <2>1 DEF Announces, Efi
  <2> QED BY <2>1, <2>2, <2>3, <2>5, <2>6, <2>7, WordAssumption DEF KernelInv
<1> QED BY <1>1, <1>2

\* An event of the firmware changes whole pages that are not the boot
\* loader's, and the kernel's pages are.
LEMMA KernelInvEvent ==
  ASSUME KernelInv, FirmwareEvent
  PROVE  KernelInv'
<1>1. UNCHANGED <<boot, kernel>>
  BY DEF FirmwareEvent
<1>2. PICK p \in Addr :
        /\ p % PageSize = 0 /\ firm[p] \in {"conventional", "bs"}
        /\ firm' = [a \in Addr |-> IF a \in p..(p + PageSize - 1)
                                   THEN (IF firm[p] = "bs" THEN "conventional" ELSE "bs") ELSE firm[a]]
  BY DEF FirmwareEvent
<1>3. SUFFICES ASSUME Announces, kernel # 0
               PROVE  \A a \in kernel..(kernel + KernelSize - 1) : firm'[a] = "loader"
  BY <1>1 DEF KernelInv, Announces, Efi
<1>4. /\ kernel \in Nat /\ kernel % PageSize = 0 /\ kernel + KernelSize - 1 <= MaxAddr
      /\ \A a \in kernel..(kernel + KernelSize - 1) : firm[a] = "loader"
  BY <1>3 DEF KernelInv
<1>5. /\ KernelSize \in Nat /\ MaxAddr \in Nat /\ PageSize \in Nat \ {0}
      /\ p \in Nat /\ p <= MaxAddr
  BY BootAssumption, WordAssumption DEF Addr
<1>6. ASSUME NEW a \in kernel..(kernel + KernelSize - 1)
      PROVE  firm'[a] = "loader"
  <2>1. a \in Addr
    BY <1>4, <1>5 DEF Addr
  <2>2. ~(a \in p..(p + PageSize - 1))
    <3> SUFFICES ASSUME a \in p..(p + PageSize - 1) PROVE FALSE
      OBVIOUS
    <3>1. kernel < p + PageSize
      BY <1>4, <1>5
    <3>2. kernel <= p
      BY <1>2, <1>4, <1>5, <3>1, MultiplesApart
    <3>3. p \in kernel..(kernel + KernelSize - 1)
      BY <1>4, <1>5, <3>2
    <3> QED BY <1>2, <1>4, <3>3
  <2> QED BY <1>2, <1>4, <2>1, <2>2
<1> QED BY <1>6

\* KernelOwned holds for every map, kernel, platform and sequence of firmware
\* events:
\* find_free_ram() and firmware_announce_memory() give the kernel whole pages,
\* and the firmware never takes one of them back.
THEOREM KernelStaysOwned == Spec => []KernelOwned
<1>1. Init => KernelInv
  BY DEF Init, FInit, KernelInv
<1>2. KernelInv /\ [Next]_vars => KernelInv'
  <2> SUFFICES ASSUME KernelInv, [Next]_vars
               PROVE  KernelInv'
    OBVIOUS
  <2>1. CASE Convert
    BY <2>1, KernelInvKept DEF Convert
  <2>2. CASE Run
    <3>1. CASE BStep
      BY <3>1, KernelInvKept DEF BStep
    <3>2. CASE FStep
      <4>1. CASE SetupGop \/ Reserve \/ E820End \/ EfiEntriesEnd \/ ReadMap \/ ConstructVbe \/ PrintLine
        BY <4>1, KernelInvKept DEF SetupGop, Reserve, E820End, EfiEntriesEnd, ReadMap,
           ConstructVbe, PrintLine, FStop
      <4>2. CASE MemorySizes
        BY <4>2, KernelInvKept DEF MemorySizes, FStop
      <4>3. CASE E820Entry
        BY <4>3, KernelInvKept DEF E820Entry, FStop
      <4>4. CASE BiosPage
        BY <4>4, KernelInvKept DEF BiosPage, FStop
      <4>5. CASE EfiEntry
        BY <4>5, KernelInvKept DEF EfiEntry, FStop
      <4>6. CASE ExitBootServices
        BY <4>6, KernelInvKept DEF ExitBootServices, FStop
      <4> QED
        BY <3>2, <4>1, <4>2, <4>3, <4>4, <4>5, <4>6, KernelInvPlaced, KernelInvEvent DEF FStep
    <3> QED BY <2>2, <3>1, <3>2 DEF Run
  <2>3. CASE UNCHANGED vars
    BY <2>3, KernelInvKept DEF vars, fvars
  <2> QED BY <2>1, <2>2, <2>3 DEF Next, Done
<1>3. KernelInv => KernelOwned
  BY DEF KernelInv, KernelOwned
<1> QED BY <1>1, <1>2, <1>3, PTL DEF Spec

=============================================================================
