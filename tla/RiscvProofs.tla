----------------------------- MODULE RiscvProofs -----------------------------
(***************************************************************************)
(* Proofs about the start of the RISC-V platform: one hart boots, no hart  *)
(* enters the kernel before everything it needs is there, the frame buffer *)
(* the firmware's device offers is found and configured, and the cache of  *)
(* parents agrees with the device tree.                                    *)
(***************************************************************************)
EXTENDS RiscvStart, TLAPS, FiniteSetTheorems, NaturalsInduction, WellFoundedInduction

\* The stages of the boot hart behind construct_mbi()
Late == {"config", "boot", "kernel"}

Runs(h) == hpc[h] \in {"main", "boot"}

\* Until the lottery is drawn no hart has passed it, and afterwards at most
\* one hart runs the boot loader.
OneRuns ==
  /\ hpc \in [Harts -> {"start", "main", "boot", "wait", "kernel"}]
  /\ lottery \in Nat
  /\ lottery = 0 => \A h \in Harts : hpc[h] = "start"
  /\ \A g, h \in Harts : Runs(g) /\ Runs(h) => g = h

\* No transfer is under way before the first one and after the last one.
Idle ==
  /\ "control" \in DOMAIN desc /\ "at" \in DOMAIN fw
  /\ fw.at \in {"idle", "end"} => desc.control = "done"

\* What each stage of the boot hart has left behind, and the release of the
\* other harts as the last one.
InOrder ==
  /\ dpc \in Late => fw.at = "end"
  /\ dpc \in {"boot", "kernel"} => kpc = "done" /\ "uart" \in DOMAIN lko
  /\ dpc = "kernel" <=> launch # 0
  /\ \A h \in Harts : hpc[h] = "kernel" => launch # 0

\* The inductive strengthening of HartsWait.
HartInv == OneRuns /\ Idle /\ InOrder

-----------------------------------------------------------------------------
(* The steps *)

\* The steps up to construct_mbi() touch neither harts nor transfers.
LEMMA EarlyStep ==
  ASSUME HartInv, UNCHANGED <<fvars, kvars, hpc, lottery, launch, lko>>,
         dpc \notin Late, dpc' \notin Late
  PROVE  HartInv'
BY DEF HartInv, OneRuns, Runs, Idle, InOrder, Late, fvars, kvars

\* Harts pass the lottery, clear the memory and leave the loop.
LEMMA HartStep ==
  ASSUME HartInv, NEW h \in Harts, Hart(h)
  PROVE  HartInv'
<1> USE DEF HartInv
<1>1. UNCHANGED <<dvars, fvars, kvars, launch, lko>>
  BY DEF Hart, Lottery, Main, WaitForBootstrap
<1>2. Idle' /\ (dpc \in Late => fw.at = "end")' /\ (dpc = "kernel" <=> launch # 0)'
      /\ (dpc \in {"boot", "kernel"} => kpc = "done" /\ "uart" \in DOMAIN lko)'
  BY <1>1 DEF Idle, InOrder, dvars, fvars, kvars, Late
<1>3. CASE Lottery(h)
  <2>1. hpc' = [hpc EXCEPT ![h] = IF lottery = 0 THEN "main" ELSE "wait"] /\ lottery' = lottery + 1
    BY <1>3 DEF Lottery
  <2>2. OneRuns'
    BY <2>1 DEF OneRuns, Runs
  <2>3. \A g \in Harts : hpc'[g] = "kernel" => launch' # 0
    BY <1>1, <2>1 DEF OneRuns, InOrder
  <2> QED BY <1>2, <2>2, <2>3 DEF InOrder
<1>4. CASE Main(h)
  <2>1. hpc' = [hpc EXCEPT ![h] = "boot"] /\ lottery' = lottery /\ hpc[h] = "main"
    BY <1>4 DEF Main, Cleared
  <2>2. OneRuns'
    BY <2>1 DEF OneRuns, Runs
  <2>3. \A g \in Harts : hpc'[g] = "kernel" => launch' # 0
    BY <1>1, <2>1 DEF OneRuns, InOrder
  <2> QED BY <1>2, <2>2, <2>3 DEF InOrder
<1>5. CASE WaitForBootstrap(h)
  <2>1. /\ hpc' = [hpc EXCEPT ![h] = "kernel"] /\ lottery' = lottery /\ hpc[h] = "wait"
        /\ launch # 0
    BY <1>5 DEF WaitForBootstrap
  <2>2. OneRuns'
    BY <2>1 DEF OneRuns, Runs
  <2>3. \A g \in Harts : hpc'[g] = "kernel" => launch' # 0
    BY <1>1, <2>1 DEF OneRuns, InOrder
  <2> QED BY <1>2, <2>2, <2>3 DEF InOrder
<1> QED BY <1>3, <1>4, <1>5 DEF Hart

\* The device tree is read before the late stages.
LEMMA TreeStep ==
  ASSUME HartInv, Tree
  PROVE  HartInv'
<1>1. UNCHANGED <<fvars, kvars, hpc, lottery, launch, lko>>
  BY DEF Tree, svars
<1>2. dpc \notin Late /\ dpc' \notin Late
  BY DEF Tree, DtInit, ScanNode, SetupKuart, MemoryNode, AddMemory, ReservedNode, Reserve,
     MemReserve, DPanic, Late
<1> QED BY <1>1, <1>2, EarlyStep

\* So are the arguments.
LEMMA ArgumentStep ==
  ASSUME HartInv, Arguments
  PROVE  HartInv'
<1> USE DEF Answered, Refused, DPanic, Late, dvars, svars
<1>1. CASE CheckArg
  BY <1>1, EarlyStep DEF CheckArg
<1>2. CASE NoserialArg
  BY <1>2, EarlyStep DEF NoserialArg
<1>3. CASE WaitArg
  BY <1>3, EarlyStep DEF WaitArg
<1>4. CASE MaxmemArg
  BY <1>4, EarlyStep DEF MaxmemArg
<1>5. CASE MemArg
  BY <1>5, EarlyStep DEF MemArg
<1>6. CASE MemEnd
  BY <1>6, EarlyStep DEF MemEnd
<1>7. CASE InitRegions
  BY <1>7, EarlyStep DEF InitRegions
<1>8. CASE SysallocArg
  BY <1>8, EarlyStep DEF SysallocArg
<1>9. CASE SysallocEnd
  BY <1>9, EarlyStep DEF SysallocEnd
<1>10. CASE ModaddrArg
  BY <1>10, EarlyStep DEF ModaddrArg
<1>11. CASE PresetArg
  BY <1>11, EarlyStep DEF PresetArg
<1> QED
  BY <1>1, <1>2, <1>3, <1>4, <1>5, <1>6, <1>7, <1>8, <1>9, <1>10, <1>11 DEF Arguments

\* construct_mbi() ends with no transfer under way, and does nothing behind its
\* end.
LEMMA FirmwareStep ==
  ASSUME HartInv, Firmware
  PROVE  HartInv'
<1> USE DEF HartInv
<1>1. UNCHANGED <<kvars, hpc, lottery, launch, lko>>
  BY DEF Firmware, svars
<1>2. fw.at # "end" /\ dpc' \in {dpc, "panic"}
  <2>1. CASE FwError
    BY <2>1 DEF FwError, DPanic, Idle
  <2>2. CASE FwStep
    BY <2>2 DEF FwStep, SetupFwCfg, FwSignature, FwVersion, FwCount, FwSkip, FwRamfb, FwRes,
       FwString, AllocFb, FwConfigured, Transferred, DPanic, dvars
  <2> QED BY <2>1, <2>2 DEF Firmware
<1>3. dpc \notin Late /\ dpc' \notin Late
  BY <1>2 DEF InOrder, Late
<1>4. Idle'
  <2> USE DEF Idle, Read, Write, Goto, NotFound, Transferred, fvars
  <2>1. CASE FwError
    BY <2>1 DEF FwError
  <2>2. CASE SetupFwCfg
    BY <2>2 DEF SetupFwCfg
  <2>3. CASE FwSignature
    BY <2>3 DEF FwSignature
  <2>4. CASE FwVersion
    BY <2>4 DEF FwVersion
  <2>5. CASE FwCount
    BY <2>5 DEF FwCount
  <2>6. CASE FwSkip
    BY <2>6 DEF FwSkip
  <2>7. CASE FwRamfb
    BY <2>7 DEF FwRamfb
  <2>8. CASE FwRes
    BY <2>8 DEF FwRes
  <2>9. CASE FwString
    BY <2>9 DEF FwString
  <2>10. CASE AllocFb
    <3>1. fw.at = "alloc"
      BY <2>10 DEF AllocFb
    <3>2. CASE UNCHANGED <<desc, fw>>
      BY <3>2
    <3>3. CASE ~UNCHANGED <<desc, fw>>
      <4>1. \E v, a : /\ desc' = [control |-> "write", val |-> v]
                     /\ fw' = [fw EXCEPT !.at = "config", !.fb = a]
        BY <2>10, <3>3 DEF AllocFb
      <4>2. PICK a : fw' = [fw EXCEPT !.at = "config", !.fb = a]
        BY <4>1
      <4>3. "at" \in DOMAIN fw' /\ fw'.at = "config"
        BY <4>2
      <4>4. "control" \in DOMAIN desc'
        BY <4>1
      <4> QED BY <4>3, <4>4
    <3> QED BY <3>2, <3>3
  <2>11. CASE FwConfigured
    BY <2>11 DEF FwConfigured
  <2> QED
    BY <2>1, <2>2, <2>3, <2>4, <2>5, <2>6, <2>7, <2>8, <2>9, <2>10, <2>11 DEF Firmware, FwStep
<1>5. OneRuns'
  BY <1>1 DEF OneRuns, Runs
<1>6. InOrder'
  BY <1>1, <1>3 DEF InOrder, Late
<1> QED BY <1>4, <1>5, <1>6

\* The end of a transfer, by the device.
LEMMA DeviceStep ==
  ASSUME HartInv, Device
  PROVE  HartInv'
<1> USE DEF HartInv
<1>1. UNCHANGED <<fw, dpc, kpc, hpc, lottery, launch, lko>>
  BY DEF Device, DmaDone, DmaFails, dvars, kvars, svars
<1>2. desc.control \in {"read", "write"} /\ "control" \in DOMAIN desc'
  BY DEF Device, DmaDone, DmaFails, Idle
<1>3. Idle'
  BY <1>1, <1>2 DEF Idle
<1> QED BY <1>1, <1>3 DEF OneRuns, Runs, InOrder, Late

\* The rest of the boot loader, from the boot information to the kernel.
LEMMA LateStep ==
  ASSUME HartInv, NEW h \in Harts, hpc[h] = "boot",
         FirmwareEnd \/ Configure \/ SetupOptions \/ BootKernel \/ EnterKernel(h)
  PROVE  HartInv'
<1> USE DEF HartInv
<1>1. CASE FirmwareEnd
  <2>1. UNCHANGED <<fvars, kpc, hpc, lottery, launch, lko>> /\ dpc = "mbi" /\ dpc' = "config" /\ fw.at = "end"
    BY <1>1 DEF FirmwareEnd, kvars, svars
  <2> QED BY <2>1 DEF OneRuns, Runs, Idle, InOrder, Late, fvars
<1>2. CASE Configure
  <2>1. UNCHANGED <<fvars, hpc, lottery, launch, lko, dpc>> /\ dpc = "config"
    BY <1>2 DEF Configure, KStep, ParseIsaExt, ParseHarts, ParsePlic, ParseContext, dvars, svars
  <2> QED BY <2>1 DEF OneRuns, Runs, Idle, InOrder, Late, fvars
<1>3. CASE SetupOptions
  <2>1. UNCHANGED <<fvars, kpc, hpc, lottery, launch>> /\ dpc = "config" /\ dpc' = "boot" /\ kpc = "done"
    BY <1>3 DEF SetupOptions, kvars
  <2>2. "uart" \in DOMAIN lko'
    BY <1>3 DEF SetupOptions
  <2> QED BY <2>1, <2>2 DEF OneRuns, Runs, Idle, InOrder, Late, fvars
<1>4. CASE BootKernel
  <2>1. /\ UNCHANGED <<fvars, kpc, hpc, lottery, lko>> /\ dpc = "boot" /\ dpc' = "kernel"
        /\ launch' = 1
    BY <1>4 DEF BootKernel, kvars
  <2> QED BY <2>1 DEF OneRuns, Runs, Idle, InOrder, Late, fvars
<1>5. CASE EnterKernel(h)
  <2>1. /\ UNCHANGED <<fvars, kpc, dpc, lottery, launch, lko>> /\ dpc = "kernel"
        /\ hpc' = [hpc EXCEPT ![h] = "kernel"]
    BY <1>5 DEF EnterKernel, kvars, dvars
  <2> QED BY <2>1 DEF OneRuns, Runs, Idle, InOrder, Late, fvars
<1> QED BY <1>1, <1>2, <1>3, <1>4, <1>5

\* The invariant says what is wanted.
LEMMA HartInvWaits == HartInv => HartsWait
<1> SUFFICES ASSUME HartInv PROVE HartsWait
  OBVIOUS
<1> DEFINE S == { h \in Harts : hpc[h] \in {"main", "boot"} }
<1>1. Cardinality(S) <= 1
  <2>1. CASE S = {}
    BY <2>1, FS_EmptySet
  <2>2. CASE S # {}
    <3>1. PICK h \in S : TRUE
      BY <2>2
    <3>2. S = {h}
      BY <3>1 DEF HartInv, OneRuns, Runs
    <3> QED BY <3>2, FS_Singleton
  <2> QED BY <2>1, <2>2
<1>2. "uart" \in DOMAIN lko => lko # [flags |-> {}]
  <2>1. "uart" \notin DOMAIN [flags |-> {}]
    OBVIOUS
  <2> QED BY <2>1, Zenon
<1>3. (\E h \in Harts : hpc[h] = "kernel") =>
        dpc = "kernel" /\ kpc = "done" /\ fw.at = "end" /\ lko # [flags |-> {}] /\ desc.control = "done"
  BY <1>2 DEF HartInv, InOrder, Idle, Late
<1> QED BY <1>1, <1>3 DEF HartsWait

-----------------------------------------------------------------------------
(* The theorem *)

\* The invariant holds.
LEMMA HartInvAlways == Spec => []HartInv
<1>1. Init => HartInv
  <2> SUFFICES ASSUME Init PROVE HartInv
    OBVIOUS
  <2>1. OneRuns
    BY DEF Init, OneRuns, Runs
  <2>2. Idle
    BY DEF Init, FInit, Idle
  <2>3. InOrder
    BY DEF Init, DInit, InOrder, Late
  <2> QED BY <2>1, <2>2, <2>3 DEF HartInv
<1>2. HartInv /\ [Next]_vars => HartInv'
  <2> SUFFICES ASSUME HartInv, [Next]_vars
               PROVE  HartInv'
    OBVIOUS
  <2>1. ASSUME NEW h \in Harts, BootLoader(h) PROVE HartInv'
    <3>1. CASE PlaceTree
      BY <3>1, EarlyStep DEF PlaceTree, AfterSetupMemoryMap, DPanic, Late, svars
    <3> QED BY <2>1, <3>1, TreeStep, ArgumentStep, FirmwareStep, LateStep DEF BootLoader
  <2>2. CASE UNCHANGED vars
    BY <2>2 DEF vars, dvars, fvars, kvars, svars, HartInv, OneRuns, Runs, Idle, InOrder, Late
  <2> QED BY <2>1, <2>2, HartStep, DeviceStep DEF Next, Halted
<1> QED BY <1>1, <1>2, PTL DEF Spec

\* HartsWait holds for any number of harts, every device tree and command line:
\* whoever wins the lottery, the loop on mp_launch_boot_kernel holds all other
\* harts back until options, configuration and boot information are complete
\* and the last DMA transfer has ended.
THEOREM HartsAlwaysWait == Spec => []HartsWait
BY HartInvAlways, HartInvWaits, PTL

-----------------------------------------------------------------------------
(* The frame buffer: what the boot loader waits for and what the device does *)

\* From the first transfer on the tree, and the cache of parents, are as they were.
Scanned == {"mbi", "panic"} \cup Late

Shape ==
  /\ dt \in Machines
  /\ DOMAIN fw = {"at", "name", "left", "ramfb", "pixels", "fb"}
  /\ DOMAIN dev = {"sel", "off", "fb"} /\ dev.off \in Nat
  /\ DOMAIN desc = {"control", "val"}
  /\ desc.control \in {"read", "write", "done", "error"}
  /\ desc.control = "write" => fw.at = "config"
  /\ desc.control = "read" => fw.at # "config"
  /\ fw.at # "idle" => dpc \in Scanned

\* What has been found when a stage is reached: the device, its signature and
\* the file of the frame buffer
DeviceThere == fw.at \notin {"idle", "end"} => FwPresent
SignatureRight == fw.at \notin {"idle", "end", "signature"} => dt.fw.signature = "QEMU"

\* The entry of the directory before which no entry has this name
FirstFile(k, name) ==
  /\ k \in DOMAIN dt.fw.dir /\ dt.fw.dir[k].name = name
  /\ \A i \in 1..(k - 1) : dt.fw.dir[i].name # name

RamfbFile(k) == FirstFile(k, "ramfb") /\ dt.fw.dir[k].valid /\ fw.ramfb = dt.fw.dir[k].sel

RamfbChosen ==
  /\ fw.at \in {"count", "entry"} => fw.name \in {"ramfb", "fb_res"}
  /\ \/ fw.at \in {"count", "entry"} /\ fw.name = "fb_res"
     \/ fw.at \in {"string", "alloc", "config"}
     => \E k \in DOMAIN dt.fw.dir : RamfbFile(k)

\* What is selected while a transfer is under way, and what has arrived at its end
Items ==
  /\ fw.at = "signature" =>
       /\ desc.control = "read" => dev.sel = Signature
       /\ desc.control = "done" => buf = [signature |-> dt.fw.signature]
  /\ fw.at = "version" =>
       /\ desc.control = "read" => dev.sel = Version
       /\ desc.control = "done" => buf = [version |-> dt.fw.version]
  /\ fw.at = "count" =>
       /\ dev.sel = Dir
       /\ desc.control = "read" => dev.off = 0
       /\ desc.control = "done" => dev.off = 1 /\ buf = [count |-> Len(dt.fw.dir)]

\* The walk through the directory: the entry asked for is the one behind those
\* passed over, and none of these had the name.
Entry == Len(dt.fw.dir) - fw.left

Walk ==
  fw.at = "entry" =>
    /\ fw.left \in Nat /\ Entry \in 1..Len(dt.fw.dir)
    /\ \A i \in 1..(Entry - 1) : dt.fw.dir[i].name # fw.name
    /\ dev.sel = Dir
    /\ desc.control = "read" => dev.off = Entry
    /\ desc.control = "done" => dev.off = Entry + 1 /\ buf = dt.fw.dir[Entry]

\* The resolution
Resolution ==
  /\ fw.at = "string" =>
       /\ \E k \in DOMAIN dt.fw.dir : FirstFile(k, "fb_res") /\ dt.fw.dir[k].size > 0
       /\ desc.control = "read" => dev.sel \notin Same..Dir /\ IsFile(dev.sel, "fb_res")
       /\ desc.control = "done" => buf = dt.fw.res
  /\ fw.at \in {"alloc", "config"} => fw.pixels = FbPixels

\* The configuration of the frame buffer
Shown ==
  /\ fw.at \notin {"config", "end"} => dev.fb.addr = 0
  /\ fw.at = "config" =>
       /\ desc.val.addr # 0 /\ desc.val.size = FbPixels * Stride
       /\ dev.sel = fw.ramfb
       /\ desc.control = "done" => dev.fb = desc.val

\* The inductive strengthening of FbFound.
FwInv == Shape /\ DeviceThere /\ SignatureRight /\ RamfbChosen /\ Items /\ Walk /\ Resolution /\ Shown /\ FbFound

-----------------------------------------------------------------------------
(* Facts about the directory *)

LEMMA MinIs ==
  ASSUME NEW S \in SUBSET Int, NEW k \in S, \A y \in S : k <= y
  PROVE  Min(S) = k
<1>1. \A x \in S : (\A y \in S : x <= y) => x = k
  OBVIOUS
<1> QED BY <1>1, Zenon DEF Min

FileSet == [name : STRING, sel : Nat \ (Same..Dir), size : Nat, valid : BOOLEAN]

LEMMA DirType ==
  ASSUME dt \in Machines
  PROVE  /\ dt.fw.dir \in Seq(FileSet)
         /\ DOMAIN dt.fw.dir = 1..Len(dt.fw.dir) /\ Len(dt.fw.dir) \in Nat
         /\ \A i \in 1..Len(dt.fw.dir) : dt.fw.dir[i] \in FileSet
<1>1. dt.fw.dir \in Seq(FileSet)
  BY FwAssumption DEF FileSet
<1> QED BY <1>1

\* The first entry of a name is the one FbFound means.
LEMMA FirstIsMin ==
  ASSUME dt \in Machines, NEW k, NEW name, FirstFile(k, name)
  PROVE  DirFiles(name) # {} /\ Min(DirFiles(name)) = k
<1>1. DirFiles(name) \in SUBSET Int /\ k \in DirFiles(name)
  BY DirType DEF DirFiles, FirstFile
<1>2. \A y \in DirFiles(name) : k <= y
  BY DirType DEF DirFiles, FirstFile
<1> QED BY <1>1, <1>2, MinIs

LEMMA NoFile ==
  ASSUME dt \in Machines, NEW name, \A i \in 1..Len(dt.fw.dir) : dt.fw.dir[i].name # name
  PROVE  DirFiles(name) = {}
BY DirType DEF DirFiles

\* The device and what its directory asks for do not change any more.
LEMMA Still ==
  ASSUME dt' = dt, cache' = cache
  PROVE  FwPresent' = FwPresent /\ FbUsable' = FbUsable /\ FbPixels' = FbPixels
<1>1. \A n : GetReg(n)' = GetReg(n)
  BY SMT DEF GetReg, Translated, TranslateReg, RegArray, Nodes, CellsOk, AddrCells, SizeCells,
     IsValid, RangeCells, RegCells, HasProp, Prop, Ranges, Field, Elements, ParentNode, FdtParent,
     CachedParent, Depth
<1>2. ByCompatible("fw-cfg")' = ByCompatible("fw-cfg")
  BY DEF ByCompatible, Nodes, PropIs, HasProp, Prop
<1>3. FwPresent' = FwPresent
  BY <1>1, <1>2 DEF FwPresent
<1>4. \A name : DirFiles(name)' = DirFiles(name)
  BY DEF DirFiles
<1> QED BY <1>3, <1>4 DEF FbUsable, FbPixels

-----------------------------------------------------------------------------
(* The steps keep FwInv *)

\* Steps of other parts: the tree is scanned before the first transfer only.
LEMMA OtherKeeps ==
  ASSUME FwInv, UNCHANGED <<dt, fvars>>, cache' = cache \/ fw.at = "idle",
         dpc \in Scanned => dpc' \in Scanned
  PROVE  FwInv'
<1> USE DEF FwInv, fvars
<1>1. Shape'
  BY DEF Shape
<1>2. CASE fw.at = "idle"
  BY <1>1, <1>2 DEF DeviceThere, SignatureRight, RamfbChosen, Items, Walk, Resolution, Shown, FbFound
<1>3. CASE cache' = cache
  <2>1. FwPresent' = FwPresent /\ FbUsable' = FbUsable /\ FbPixels' = FbPixels
    BY <1>3, Still
  <2>2. DeviceThere' /\ SignatureRight' /\ Items' /\ Shown' /\ FbFound'
    BY <2>1 DEF DeviceThere, SignatureRight, Items, Shown, FbFound
  <2>3. RamfbChosen'
    BY DEF RamfbChosen, RamfbFile, FirstFile
  <2>4. Walk'
    BY DEF Walk, Entry
  <2>5. Resolution'
    BY <2>1 DEF Resolution, FirstFile, IsFile, FileOf
  <2> QED BY <1>1, <2>2, <2>3, <2>4, <2>5
<1> QED BY <1>2, <1>3

\* The device ends a transfer with what is selected, or with an error.
LEMMA DeviceKeeps ==
  ASSUME FwInv, Device
  PROVE  FwInv'
<1> USE DEF FwInv
<1>1. UNCHANGED <<dt, cache, dpc, fw>>
  BY DEF Device, DmaDone, DmaFails, dvars
<1>2. FwPresent' = FwPresent /\ FbUsable' = FbUsable /\ FbPixels' = FbPixels
  BY <1>1, Still
<1>3. DeviceThere' /\ SignatureRight' /\ RamfbChosen'
  BY <1>1, <1>2 DEF DeviceThere, SignatureRight, RamfbChosen, RamfbFile, FirstFile
<1>4. desc.control \in {"read", "write"} /\ desc'.val = desc.val /\ DOMAIN desc' = DOMAIN desc
  BY DEF Device, DmaDone, DmaFails, Shape
<1>5. CASE DmaFails
  <2>1. desc'.control = "error" /\ UNCHANGED <<dev, buf>>
    BY <1>5 DEF DmaFails, Shape
  <2>2. Shape'
    BY <1>1, <1>4, <2>1 DEF Shape
  <2>3. Items' /\ Shown' /\ FbFound'
    BY <1>1, <1>2, <1>4, <2>1 DEF Items, Shown, FbFound
  <2>4. Walk'
    BY <1>1, <2>1 DEF Walk, Entry
  <2>5. Resolution'
    BY <1>1, <1>2, <2>1 DEF Resolution, FirstFile
  <2> QED BY <1>3, <2>2, <2>3, <2>4, <2>5
<1>6. CASE DmaDone
  <2>1. /\ desc'.control = "done" /\ DOMAIN dev' = DOMAIN dev /\ dev'.sel = dev.sel /\ dev'.off = dev.off + 1
        /\ dev'.fb = IF desc.control = "write" /\ IsFile(dev.sel, "ramfb") THEN desc.val ELSE dev.fb
        /\ buf' = IF desc.control = "read" THEN Unit ELSE buf
    BY <1>6 DEF DmaDone, Shape
  <2>2. Shape'
    BY <1>1, <1>4, <2>1 DEF Shape
  <2>3. Items'
    BY <1>1, <1>4, <2>1 DEF Items, Shape, Unit, Signature, Version, Dir
  <2>4. Walk'
    <3> SUFFICES ASSUME fw.at = "entry" PROVE Walk'
      BY <1>1 DEF Walk
    <3>1. desc.control = "read" /\ dev.sel = Dir /\ dev.off = Entry /\ Entry \in 1..Len(dt.fw.dir)
      BY <1>4 DEF Walk, Shape
    <3>2. buf' = dt.fw.dir[Entry]
      BY <2>1, <3>1 DEF Unit, Signature, Version, Dir
    <3> QED BY <1>1, <2>1, <3>1, <3>2 DEF Walk, Entry
  <2>5. Resolution'
    <3>1. CASE fw.at = "string"
      <4>1. desc.control = "read" /\ dev.sel \notin Same..Dir /\ IsFile(dev.sel, "fb_res")
        BY <1>4, <3>1 DEF Resolution, Shape
      <4>2. dev.sel \notin {Signature, Version, Dir}
        BY <4>1 DEF Same, Signature, Version, Dir
      <4>3. buf' = dt.fw.res
        BY <2>1, <4>1, <4>2 DEF Unit
      <4> QED BY <1>1, <2>1, <3>1, <4>3 DEF Resolution, FirstFile
    <3>2. CASE fw.at # "string"
      BY <1>1, <1>2, <3>2 DEF Resolution
    <3> QED BY <3>1, <3>2
  <2>6. Shown' /\ FbFound'
    <3>1. CASE fw.at = "config"
      <4>1. PICK k \in DOMAIN dt.fw.dir : RamfbFile(k)
        BY <3>1 DEF RamfbChosen
      <4>2. IsFile(dev.sel, "ramfb")
        BY <3>1, <4>1 DEF Shown, RamfbFile, FirstFile, IsFile, FileOf
      <4>3. dev'.fb = desc.val
        BY <1>4, <2>1, <3>1, <4>2 DEF Shape
      <4> QED BY <1>1, <1>2, <1>4, <2>1, <3>1, <4>3 DEF Shown, FbFound
    <3>2. CASE fw.at # "config"
      <4>1. dev'.fb = dev.fb
        BY <1>4, <2>1, <3>2 DEF Shape
      <4> QED BY <1>1, <1>2, <3>2, <4>1 DEF Shown, FbFound
    <3> QED BY <3>1, <3>2
  <2> QED BY <1>3, <2>2, <2>3, <2>4, <2>5, <2>6
<1> QED BY <1>5, <1>6 DEF Device

\* construct_mbi() ends without a frame buffer where there is none to be had.
LEMMA EndKeeps ==
  ASSUME FwInv, ~FbUsable, fw.at \notin {"config", "end"}, dpc \in Scanned,
         UNCHANGED <<dt, cache, dpc, dev, desc, buf>>, fw' = [fw EXCEPT !.at = "end"],
         desc.control = "done"
  PROVE  FwInv'
<1> USE DEF FwInv
<1>1. fw'.at = "end" /\ DOMAIN fw' = DOMAIN fw
  BY DEF Shape
<1>2. FbUsable' = FbUsable
  BY Still
<1>3. Shape'
  BY <1>1 DEF Shape
<1>4. FbFound'
  BY <1>1, <1>2 DEF FbFound, Shown
<1> QED
  BY <1>1, <1>3, <1>4 DEF DeviceThere, SignatureRight, RamfbChosen, Items, Walk, Resolution, Shown

\* Without a resolution the default is used, and memory allocated next.
LEMMA DefaultKeeps ==
  ASSUME FwInv, FbPixels = Default, fw.at \in {"count", "entry"}, fw.name = "fb_res",
         UNCHANGED <<dt, cache, dpc, dev, desc, buf>>,
         fw' = [fw EXCEPT !.at = "alloc", !.pixels = Default], desc.control = "done"
  PROVE  FwInv'
<1> USE DEF FwInv
<1>1. fw'.at = "alloc" /\ fw'.pixels = Default /\ fw'.ramfb = fw.ramfb /\ DOMAIN fw' = DOMAIN fw
  BY DEF Shape
<1>2. FwPresent' = FwPresent /\ FbPixels' = FbPixels
  BY Still
<1>3. Shape'
  BY <1>1 DEF Shape
<1>4. RamfbChosen'
  BY <1>1 DEF RamfbChosen, RamfbFile, FirstFile
<1> QED
  BY <1>1, <1>2, <1>3, <1>4 DEF DeviceThere, SignatureRight, Items, Walk, Resolution, Shown, FbFound

\* Nothing is found: there is no frame buffer, or no resolution.
LEMMA NotFoundKeeps ==
  ASSUME FwInv, fw.at \in {"count", "entry"}, desc.control = "done",
         DirFiles(fw.name) = {} \/ (fw.name = "fb_res" /\ FbPixels = Default),
         NotFound, UNCHANGED dvars
  PROVE  FwInv'
<1>1. fw.name \in {"ramfb", "fb_res"}
  BY DEF FwInv, RamfbChosen
<1>2. CASE fw.name = "ramfb"
  <2>1. ~FbUsable
    BY <1>2 DEF FbUsable
  <2>2. dpc \in Scanned
    BY DEF FwInv, Shape
  <2>3. UNCHANGED <<dt, cache, dpc, dev, desc, buf>> /\ fw' = [fw EXCEPT !.at = "end"]
    BY <1>2 DEF NotFound, Goto, dvars
  <2> QED BY <2>1, <2>2, <2>3, EndKeeps
<1>3. CASE fw.name = "fb_res"
  <2>1. FbPixels = Default
    BY <1>3 DEF FbPixels
  <2>2. UNCHANGED <<dt, cache, dpc, dev, desc, buf>> /\ fw' = [fw EXCEPT !.at = "alloc", !.pixels = Default]
    BY <1>3 DEF NotFound, Goto, dvars
  <2> QED BY <1>3, <2>1, <2>2, DefaultKeeps
<1> QED BY <1>1, <1>2, <1>3

\* A panic leaves the transfers alone.
LEMMA PanicKeeps ==
  ASSUME FwInv, DPanic, UNCHANGED fvars
  PROVE  FwInv'
BY OtherKeeps DEF DPanic, Scanned

\* The signature and the version
LEMMA BeginKeeps ==
  ASSUME FwInv, SetupFwCfg \/ FwSignature \/ FwVersion, HartInv
  PROVE  FwInv'
<1> USE DEF FwInv
<1>1. CASE SetupFwCfg
  <2>1. UNCHANGED <<dt, cache, dpc>> /\ dpc = "mbi" /\ fw.at = "idle" /\ desc.control = "done"
    BY <1>1 DEF SetupFwCfg, dvars, HartInv, Idle
  <2>2. CASE FwPresent
    <3>1. /\ dev' = [dev EXCEPT !.sel = Signature, !.off = 0] /\ desc' = [desc EXCEPT !.control = "read"]
          /\ fw' = [fw EXCEPT !.at = "signature"]
      BY <1>1, <2>2 DEF SetupFwCfg, Read, Same, Signature
    <3>2. /\ dev'.sel = Signature /\ dev'.off = 0 /\ dev'.fb = dev.fb /\ DOMAIN dev' = DOMAIN dev
          /\ desc'.control = "read" /\ DOMAIN desc' = DOMAIN desc
          /\ fw'.at = "signature" /\ DOMAIN fw' = DOMAIN fw
      BY <3>1 DEF Shape
    <3>3. Shape'
      BY <2>1, <3>2 DEF Shape, Scanned
    <3>4. FwPresent'
      BY <2>1, <2>2, Still
    <3> QED
      BY <2>1, <3>2, <3>3, <3>4 DEF DeviceThere, SignatureRight, RamfbChosen, Items, Walk, Resolution,
         Shown, FbFound
  <2>3. CASE ~FwPresent
    <3>1. ~FbUsable
      BY <2>3 DEF FbUsable
    <3>2. UNCHANGED <<dev, desc, buf>> /\ fw' = [fw EXCEPT !.at = "end"]
      BY <1>1, <2>3 DEF SetupFwCfg, Goto
    <3> QED BY <2>1, <3>1, <3>2, EndKeeps DEF Scanned
  <2> QED BY <2>2, <2>3
<1>2. CASE FwSignature
  <2>1. /\ UNCHANGED <<dt, cache, dpc>> /\ fw.at = "signature" /\ desc.control = "done" /\ dpc \in Scanned
        /\ buf = [signature |-> dt.fw.signature]
    BY <1>2 DEF FwSignature, Transferred, dvars, Shape, Items
  <2>2. CASE buf = [signature |-> "QEMU"]
    <3>1. dt.fw.signature = "QEMU"
      <4>1. buf.signature = "QEMU"
        BY <2>2
      <4> QED BY <2>1, <4>1
    <3>2. /\ dev' = [dev EXCEPT !.sel = Version, !.off = 0] /\ desc' = [desc EXCEPT !.control = "read"]
          /\ fw' = [fw EXCEPT !.at = "version"]
      BY <1>2, <2>2 DEF FwSignature, Read, Same, Version
    <3>3. /\ dev'.sel = Version /\ dev'.off = 0 /\ dev'.fb = dev.fb /\ DOMAIN dev' = DOMAIN dev
          /\ desc'.control = "read" /\ DOMAIN desc' = DOMAIN desc
          /\ fw'.at = "version" /\ DOMAIN fw' = DOMAIN fw
      BY <3>2 DEF Shape
    <3>4. Shape'
      BY <2>1, <3>3 DEF Shape
    <3>5. FwPresent'
      BY <2>1, Still DEF DeviceThere
    <3> QED
      BY <2>1, <3>1, <3>3, <3>4, <3>5 DEF DeviceThere, SignatureRight, RamfbChosen, Items, Walk, Resolution,
         Shown, FbFound
  <2>3. CASE buf # [signature |-> "QEMU"]
    <3>1. ~FbUsable
      BY <2>1, <2>3 DEF FbUsable
    <3>2. UNCHANGED <<dev, desc, buf>> /\ fw' = [fw EXCEPT !.at = "end"]
      BY <1>2, <2>3 DEF FwSignature, Goto
    <3> QED BY <2>1, <3>1, <3>2, EndKeeps
  <2> QED BY <2>2, <2>3
<1>3. CASE FwVersion
  <2>1. fw.at = "version" /\ dpc \in Scanned
    BY <1>3 DEF FwVersion, Transferred, Shape
  <2>2. CASE buf = [version |-> "dma"]
    <3>1. /\ dev' = [dev EXCEPT !.sel = Dir, !.off = 0] /\ desc' = [desc EXCEPT !.control = "read"]
          /\ fw' = [fw EXCEPT !.at = "count", !.name = "ramfb"] /\ UNCHANGED <<dt, cache, dpc>>
      BY <1>3, <2>2 DEF FwVersion, Read, Same, Dir, dvars
    <3>2. /\ dev'.sel = Dir /\ dev'.off = 0 /\ dev'.fb = dev.fb /\ DOMAIN dev' = DOMAIN dev
          /\ desc'.control = "read" /\ DOMAIN desc' = DOMAIN desc
          /\ fw'.at = "count" /\ fw'.name = "ramfb" /\ DOMAIN fw' = DOMAIN fw
      BY <3>1 DEF Shape
    <3>3. Shape'
      BY <2>1, <3>1, <3>2 DEF Shape
    <3>4. FwPresent'
      BY <2>1, <3>1, Still DEF DeviceThere
    <3> QED
      BY <2>1, <3>1, <3>2, <3>3, <3>4 DEF DeviceThere, SignatureRight, RamfbChosen, Items, Walk, Resolution,
         Shown, FbFound
  <2>3. CASE buf # [version |-> "dma"]
    BY <1>3, <2>3, PanicKeeps DEF FwVersion
  <2> QED BY <2>2, <2>3
<1> QED BY <1>1, <1>2, <1>3

\* The number of entries, then the first one
LEMMA CountKeeps ==
  ASSUME FwInv, FwCount
  PROVE  FwInv'
<1> USE DEF FwInv
<1>1. /\ UNCHANGED <<dt, cache, dpc>> /\ fw.at = "count" /\ desc.control = "done" /\ dt \in Machines
      /\ buf.count = Len(dt.fw.dir) /\ dev.sel = Dir /\ dev.off = 1
  BY DEF FwCount, Transferred, dvars, Shape, Items
<1>2. Len(dt.fw.dir) \in Nat
  BY <1>1, DirType
<1>3. CASE buf.count > 0
  <2>1. /\ dev' = dev /\ desc' = [desc EXCEPT !.control = "read"]
        /\ fw' = [fw EXCEPT !.at = "entry", !.left = buf.count - 1]
    BY <1>3 DEF FwCount, Read
  <2>2. /\ desc'.control = "read" /\ DOMAIN desc' = DOMAIN desc
        /\ fw'.at = "entry" /\ fw'.left = Len(dt.fw.dir) - 1 /\ fw'.name = fw.name
        /\ fw'.ramfb = fw.ramfb /\ DOMAIN fw' = DOMAIN fw
    BY <1>1, <2>1 DEF Shape
  <2>3. Shape'
    BY <1>1, <2>1, <2>2 DEF Shape
  <2>4. FwPresent'
    BY <1>1, Still DEF DeviceThere
  <2>5. Walk'
    <3>1. Entry' = 1
      BY <1>1, <1>2, <2>2 DEF Entry
    <3> QED BY <1>1, <1>2, <1>3, <2>1, <2>2, <3>1 DEF Walk
  <2>6. RamfbChosen'
    BY <1>1, <2>2 DEF RamfbChosen, RamfbFile, FirstFile
  <2> QED
    BY <1>1, <2>1, <2>2, <2>3, <2>4, <2>5, <2>6 DEF DeviceThere, SignatureRight, Items, Resolution,
       Shown, FbFound
<1>4. CASE ~(buf.count > 0)
  <2>1. DirFiles(fw.name) = {}
    BY <1>1, <1>2, <1>4, NoFile
  <2> QED BY <1>1, <1>4, <2>1, NotFoundKeeps DEF FwCount
<1> QED BY <1>3, <1>4

\* An entry is passed over.
LEMMA SkipKeeps ==
  ASSUME FwInv, FwSkip
  PROVE  FwInv'
<1> USE DEF FwInv
<1>1. /\ UNCHANGED <<dt, cache, dpc>> /\ fw.at = "entry" /\ desc.control = "done" /\ dt \in Machines
      /\ buf.name # fw.name /\ buf = dt.fw.dir[Entry] /\ dev.sel = Dir /\ dev.off = Entry + 1
      /\ fw.left \in Nat /\ Entry \in 1..Len(dt.fw.dir)
      /\ \A i \in 1..(Entry - 1) : dt.fw.dir[i].name # fw.name
  BY DEF FwSkip, Transferred, dvars, Shape, Walk
<1>2. Len(dt.fw.dir) \in Nat
  BY <1>1, DirType
<1>3. \A i \in 1..Entry : dt.fw.dir[i].name # fw.name
  <2>1. \A i \in 1..Entry : i \in 1..(Entry - 1) \/ i = Entry
    BY <1>1
  <2> QED BY <1>1, <2>1
<1>4. CASE fw.left > 0
  <2>1. /\ dev' = dev /\ desc' = [desc EXCEPT !.control = "read"]
        /\ fw' = [fw EXCEPT !.left = fw.left - 1]
    BY <1>4 DEF FwSkip, Read, More
  <2>2. /\ desc'.control = "read" /\ DOMAIN desc' = DOMAIN desc
        /\ fw'.at = "entry" /\ fw'.left = fw.left - 1 /\ fw'.name = fw.name
        /\ fw'.ramfb = fw.ramfb /\ DOMAIN fw' = DOMAIN fw
    BY <1>1, <2>1 DEF Shape
  <2>3. Shape'
    BY <1>1, <2>1, <2>2 DEF Shape
  <2>4. FwPresent'
    BY <1>1, Still DEF DeviceThere
  <2>5. Walk'
    <3>1. Entry = Len(dt.fw.dir) - fw.left /\ Entry' = Len(dt.fw.dir) - fw'.left
      BY <1>1 DEF Entry
    <3>2. fw.left > 0 /\ fw'.left = fw.left - 1 /\ fw.left \in Nat
      BY <1>1, <1>4, <2>2
    <3>3. Entry' = Entry + 1 /\ fw'.left \in Nat
      BY <1>2, <3>1, <3>2
    <3>4. Entry' \in 1..Len(dt.fw.dir) /\ Entry' - 1 = Entry
      <4>1. Entry \in Nat /\ Entry >= 1
        BY <1>1, <1>2
      <4> QED BY <1>2, <3>1, <3>2, <3>3, <4>1
    <3> QED BY <1>1, <1>3, <2>1, <2>2, <3>3, <3>4 DEF Walk
  <2>6. RamfbChosen'
    BY <1>1, <2>2 DEF RamfbChosen, RamfbFile, FirstFile
  <2> QED
    BY <1>1, <2>1, <2>2, <2>3, <2>4, <2>5, <2>6 DEF DeviceThere, SignatureRight, Items, Resolution,
       Shown, FbFound
<1>5. CASE ~(fw.left > 0)
  <2>1. Entry = Len(dt.fw.dir)
    BY <1>1, <1>2, <1>5 DEF Entry
  <2>2. DirFiles(fw.name) = {}
    BY <1>1, <1>3, <2>1, NoFile
  <2> QED BY <1>1, <1>5, <2>2, NotFoundKeeps DEF FwSkip, More
<1> QED BY <1>4, <1>5

\* The entry of the name is the first one of it.
LEMMA EntryFirst ==
  ASSUME FwInv, Transferred("entry"), buf.name = fw.name
  PROVE  /\ FirstFile(Entry, fw.name) /\ dt.fw.dir[Entry] \in FileSet /\ buf = dt.fw.dir[Entry]
         /\ Entry \in DOMAIN dt.fw.dir /\ dt \in Machines
         /\ DirFiles(fw.name) # {} /\ Min(DirFiles(fw.name)) = Entry
<1>1. /\ dt \in Machines /\ buf = dt.fw.dir[Entry] /\ Entry \in 1..Len(dt.fw.dir)
      /\ \A i \in 1..(Entry - 1) : dt.fw.dir[i].name # fw.name
  BY DEF FwInv, Transferred, Shape, Walk
<1>2. dt.fw.dir[Entry] \in FileSet /\ Entry \in DOMAIN dt.fw.dir
  BY <1>1, DirType
<1>3. FirstFile(Entry, fw.name)
  BY <1>1, <1>2 DEF FirstFile
<1> QED BY <1>1, <1>2, <1>3, FirstIsMin

\* The file of the frame buffer
LEMMA RamfbKeeps ==
  ASSUME FwInv, FwRamfb
  PROVE  FwInv'
<1> USE DEF FwInv
<1>1. /\ UNCHANGED <<dt, cache, dpc>> /\ fw.at = "entry" /\ desc.control = "done" /\ dpc \in Scanned
      /\ fw.name = "ramfb" /\ Transferred("entry") /\ buf.name = fw.name
  BY DEF FwRamfb, Transferred, dvars, Shape
<1>2. /\ FirstFile(Entry, "ramfb") /\ dt.fw.dir[Entry] \in FileSet /\ buf = dt.fw.dir[Entry]
      /\ Entry \in DOMAIN dt.fw.dir /\ Min(DirFiles("ramfb")) = Entry
  BY <1>1, EntryFirst
<1>3. CASE buf.valid
  <2>1. /\ dev' = [dev EXCEPT !.sel = Dir, !.off = 0] /\ desc' = [desc EXCEPT !.control = "read"]
        /\ fw' = [fw EXCEPT !.at = "count", !.name = "fb_res", !.ramfb = buf.sel]
    BY <1>3 DEF FwRamfb, Read, Same, Dir
  <2>2. /\ dev'.sel = Dir /\ dev'.off = 0 /\ dev'.fb = dev.fb /\ DOMAIN dev' = DOMAIN dev
        /\ desc'.control = "read" /\ DOMAIN desc' = DOMAIN desc
        /\ fw'.at = "count" /\ fw'.name = "fb_res" /\ fw'.ramfb = buf.sel /\ DOMAIN fw' = DOMAIN fw
    BY <2>1 DEF Shape
  <2>3. Shape'
    BY <1>1, <2>2 DEF Shape
  <2>4. FwPresent'
    BY <1>1, Still DEF DeviceThere
  <2>5. RamfbChosen'
    <3>1. PICK k \in DOMAIN dt.fw.dir : k = Entry
      BY <1>2
    <3>2. RamfbFile(k)'
      <4>1. /\ dt.fw.dir[k].name = "ramfb" /\ dt.fw.dir[k].valid /\ fw'.ramfb = dt.fw.dir[k].sel
            /\ \A i \in 1..(k - 1) : dt.fw.dir[i].name # "ramfb"
        BY <1>2, <1>3, <2>2, <3>1 DEF FirstFile
      <4> QED BY <1>1, <4>1 DEF RamfbFile, FirstFile
    <3> QED BY <1>1, <2>2, <3>2 DEF RamfbChosen
  <2> QED
    BY <1>1, <2>2, <2>3, <2>4, <2>5 DEF DeviceThere, SignatureRight, Items, Walk, Resolution,
       Shown, FbFound
<1>4. CASE ~buf.valid
  <2>1. ~FbUsable
    BY <1>2, <1>4 DEF FbUsable
  <2>2. UNCHANGED <<dev, desc, buf>> /\ fw' = [fw EXCEPT !.at = "end"]
    BY <1>4 DEF FwRamfb, Goto
  <2> QED BY <1>1, <2>1, <2>2, EndKeeps
<1> QED BY <1>3, <1>4

\* The file of the resolution: empty, to be read, or too long for the buffer
LEMMA ResKeeps ==
  ASSUME FwInv, FwRes
  PROVE  FwInv'
<1> USE DEF FwInv
<1>1. /\ UNCHANGED <<dt, cache, dpc>> /\ fw.at = "entry" /\ desc.control = "done" /\ dpc \in Scanned
      /\ fw.name = "fb_res" /\ Transferred("entry") /\ buf.name = fw.name /\ UNCHANGED dvars
  BY DEF FwRes, Transferred, dvars, Shape
<1>2. /\ FirstFile(Entry, "fb_res") /\ dt.fw.dir[Entry] \in FileSet /\ buf = dt.fw.dir[Entry]
      /\ Entry \in DOMAIN dt.fw.dir /\ Min(DirFiles("fb_res")) = Entry
  BY <1>1, EntryFirst
<1>3. buf.size \in Nat /\ buf.sel \in Nat \ (Same..Dir)
  BY <1>2 DEF FileSet
<1>4. CASE buf.size = 0
  <2>1. FbPixels = Default
    BY <1>2, <1>4 DEF FbPixels
  <2> QED BY <1>1, <1>4, <2>1, NotFoundKeeps DEF FwRes
<1>5. CASE buf.size # 0 /\ buf.size < BufLen
  <2>1. buf.sel # Same
    BY <1>3 DEF Same, Dir
  <2>2. /\ dev' = [dev EXCEPT !.sel = buf.sel, !.off = 0] /\ desc' = [desc EXCEPT !.control = "read"]
        /\ fw' = [fw EXCEPT !.at = "string"]
    BY <1>5, <2>1 DEF FwRes, Read
  <2>3. /\ dev'.sel = buf.sel /\ dev'.off = 0 /\ dev'.fb = dev.fb /\ DOMAIN dev' = DOMAIN dev
        /\ desc'.control = "read" /\ DOMAIN desc' = DOMAIN desc
        /\ fw'.at = "string" /\ fw'.ramfb = fw.ramfb /\ DOMAIN fw' = DOMAIN fw
    BY <2>2 DEF Shape
  <2>4. Shape'
    BY <1>1, <2>3 DEF Shape
  <2>5. FwPresent'
    BY <1>1, Still DEF DeviceThere
  <2>6. RamfbChosen'
    BY <1>1, <2>3 DEF RamfbChosen, RamfbFile, FirstFile
  <2>7. Resolution'
    <3>1. PICK k \in DOMAIN dt.fw.dir : k = Entry
      BY <1>2
    <3>2. /\ dt.fw.dir[k].name = "fb_res" /\ dt.fw.dir[k].size > 0 /\ dev'.sel = dt.fw.dir[k].sel
          /\ \A i \in 1..(k - 1) : dt.fw.dir[i].name # "fb_res"
      BY <1>2, <1>3, <1>5, <2>3, <3>1 DEF FirstFile
    <3>3. FirstFile(k, "fb_res")' /\ IsFile(dev.sel, "fb_res")'
      BY <1>1, <3>2 DEF FirstFile, IsFile, FileOf
    <3> QED BY <1>1, <1>3, <2>3, <3>2, <3>3 DEF Resolution
  <2> QED
    BY <1>1, <2>3, <2>4, <2>5, <2>6, <2>7 DEF DeviceThere, SignatureRight, Items, Walk, Shown, FbFound
<1>6. CASE buf.size # 0 /\ ~(buf.size < BufLen)
  <2>1. UNCHANGED <<dev, desc, buf>> /\ fw' = [fw EXCEPT !.at = "smashed"]
    BY <1>6 DEF FwRes, Goto
  <2>2. fw'.at = "smashed" /\ DOMAIN fw' = DOMAIN fw
    BY <2>1 DEF Shape
  <2>3. Shape'
    BY <1>1, <2>1, <2>2 DEF Shape
  <2>4. FwPresent'
    BY <1>1, Still DEF DeviceThere
  <2> QED
    BY <1>1, <2>1, <2>2, <2>3, <2>4 DEF DeviceThere, SignatureRight, RamfbChosen, Items, Walk, Resolution,
       Shown, FbFound
<1> QED BY <1>4, <1>5, <1>6

\* The resolution has arrived.
LEMMA StringKeeps ==
  ASSUME FwInv, FwString
  PROVE  FwInv'
<1> USE DEF FwInv
<1>1. /\ UNCHANGED <<dt, cache, dpc, dev, desc, buf>> /\ fw.at = "string" /\ desc.control = "done"
      /\ fw' = [fw EXCEPT !.at = "alloc", !.pixels = IF buf.x THEN buf.width * buf.height ELSE Default]
      /\ buf = dt.fw.res /\ dt \in Machines /\ dpc \in Scanned
  BY DEF FwString, Transferred, Goto, dvars, Shape, Resolution
<1>2. /\ fw'.at = "alloc" /\ fw'.ramfb = fw.ramfb /\ DOMAIN fw' = DOMAIN fw
      /\ fw'.pixels = IF buf.x THEN buf.width * buf.height ELSE Default
  BY <1>1 DEF Shape
<1>3. PICK k \in DOMAIN dt.fw.dir : FirstFile(k, "fb_res") /\ dt.fw.dir[k].size > 0
  BY <1>1 DEF Resolution
<1>4. DirFiles("fb_res") # {} /\ Min(DirFiles("fb_res")) = k
  BY <1>1, <1>3, FirstIsMin
<1>5. fw'.pixels = FbPixels
  BY <1>1, <1>2, <1>3, <1>4 DEF FbPixels
<1>6. FwPresent' /\ FbPixels' = FbPixels
  BY <1>1, Still DEF DeviceThere
<1>7. Shape'
  BY <1>1, <1>2 DEF Shape
<1>8. RamfbChosen'
  BY <1>1, <1>2 DEF RamfbChosen, RamfbFile, FirstFile
<1> QED
  BY <1>1, <1>2, <1>5, <1>6, <1>7, <1>8 DEF DeviceThere, SignatureRight, Items, Walk, Resolution, Shown, FbFound

\* Memory for the frame buffer, and its configuration
LEMMA AllocKeeps ==
  ASSUME FwInv, AllocFb
  PROVE  FwInv'
<1> USE DEF FwInv
<1>1. fw.at = "alloc" /\ dpc \in Scanned /\ fw.pixels = FbPixels
  BY DEF AllocFb, Shape, Resolution
<1>2. \/ DPanic /\ UNCHANGED fvars
      \/ \E a : /\ a # 0 /\ UNCHANGED <<dt, cache, dpc>>
               /\ Write(fw.ramfb, [addr |-> a, size |-> fw.pixels * Stride], [fw EXCEPT !.at = "config", !.fb = a])
  BY DEF AllocFb
<1>3. CASE DPanic /\ UNCHANGED fvars
  BY <1>3, PanicKeeps
<1>4. ASSUME NEW a, a # 0, UNCHANGED <<dt, cache, dpc>>,
             Write(fw.ramfb, [addr |-> a, size |-> fw.pixels * Stride], [fw EXCEPT !.at = "config", !.fb = a])
      PROVE  FwInv'
  <2>1. /\ dev' = [dev EXCEPT !.sel = fw.ramfb, !.off = 0]
        /\ desc' = [control |-> "write", val |-> [addr |-> a, size |-> fw.pixels * Stride]]
        /\ fw' = [fw EXCEPT !.at = "config", !.fb = a]
    BY <1>4 DEF Write
  <2>2. /\ dev'.sel = fw.ramfb /\ dev'.off = 0 /\ DOMAIN dev' = DOMAIN dev
        /\ desc'.control = "write" /\ DOMAIN desc' = DOMAIN desc
        /\ desc'.val.addr = a /\ desc'.val.size = fw.pixels * Stride
        /\ fw'.at = "config" /\ fw'.ramfb = fw.ramfb /\ fw'.pixels = fw.pixels /\ DOMAIN fw' = DOMAIN fw
    BY <2>1 DEF Shape
  <2>3. Shape'
    BY <1>1, <1>4, <2>2 DEF Shape
  <2>4. FwPresent' /\ FbPixels' = FbPixels
    BY <1>1, <1>4, Still DEF DeviceThere
  <2>5. RamfbChosen'
    BY <1>1, <1>4, <2>2 DEF RamfbChosen, RamfbFile, FirstFile
  <2>6. Resolution' /\ Shown'
    BY <1>1, <1>4, <2>2, <2>4 DEF Resolution, Shown
  <2> QED
    BY <1>1, <1>4, <2>2, <2>3, <2>4, <2>5, <2>6 DEF DeviceThere, SignatureRight, Items, Walk, FbFound
<1> QED BY <1>2, <1>3, <1>4

\* The device has taken the configuration.
LEMMA ConfiguredKeeps ==
  ASSUME FwInv, FwConfigured
  PROVE  FwInv'
<1> USE DEF FwInv
<1>1. /\ UNCHANGED <<dt, cache, dpc, dev, desc, buf>> /\ fw.at = "config" /\ desc.control = "done"
      /\ fw' = [fw EXCEPT !.at = "end"] /\ dpc \in Scanned /\ dt \in Machines
  BY DEF FwConfigured, Transferred, Shape
<1>2. fw'.at = "end" /\ DOMAIN fw' = DOMAIN fw
  BY <1>1 DEF Shape
<1>3. PICK k \in DOMAIN dt.fw.dir : RamfbFile(k)
  BY <1>1 DEF RamfbChosen
<1>4. DirFiles("ramfb") # {} /\ Min(DirFiles("ramfb")) = k
  BY <1>1, <1>3, FirstIsMin DEF RamfbFile
<1>5. FbUsable
  BY <1>1, <1>3, <1>4 DEF FbUsable, DeviceThere, SignatureRight, RamfbFile
<1>6. FbUsable' = FbUsable /\ FbPixels' = FbPixels
  BY <1>1, Still
<1>7. FbFound'
  BY <1>1, <1>2, <1>5, <1>6 DEF Shown, FbFound
<1>8. Shape'
  BY <1>1, <1>2 DEF Shape
<1> QED
  BY <1>1, <1>2, <1>7, <1>8 DEF DeviceThere, SignatureRight, RamfbChosen, Items, Walk, Resolution, Shown

\* All steps of construct_mbi()
LEMMA FirmwareKeeps ==
  ASSUME HartInv, FwInv, Firmware
  PROVE  FwInv'
<1>1. CASE FwError
  BY <1>1, PanicKeeps DEF FwError
<1> QED
  BY <1>1, BeginKeeps, CountKeeps, SkipKeeps, RamfbKeeps, ResKeeps, StringKeeps, AllocKeeps,
     ConfiguredKeeps DEF Firmware, FwStep

-----------------------------------------------------------------------------
(* The theorem *)

\* The steps before and behind construct_mbi(): the device is left alone, and
\* the tree is not scanned again.
LEMMA RestKeeps ==
  ASSUME FwInv, NEW h \in Harts,
         \/ Hart(h) \/ Tree \/ Arguments \/ PlaceTree \/ FirmwareEnd \/ Configure
         \/ SetupOptions \/ BootKernel \/ EnterKernel(h)
  PROVE  FwInv'
<1> USE DEF dvars, svars
<1>1. CASE Hart(h)
  BY <1>1, OtherKeeps DEF Hart, Lottery, Main, WaitForBootstrap
<1>2. CASE Tree
  <2>1. UNCHANGED <<dt, fvars>> /\ dpc \notin Scanned
    BY <1>2 DEF Tree, DtInit, ScanNode, SetupKuart, MemoryNode, AddMemory, ReservedNode, Reserve,
       MemReserve, DPanic, Scanned, Late
  <2>2. fw.at = "idle"
    BY <2>1 DEF FwInv, Shape
  <2> QED BY <2>1, <2>2, OtherKeeps
<1>3. CASE Arguments
  <2>1. UNCHANGED <<dt, fvars>> /\ dpc \notin Scanned
    <3> USE DEF Answered, Refused, DPanic, Scanned, Late
    <3> QED
      BY <1>3 DEF Arguments, CheckArg, NoserialArg, WaitArg, MaxmemArg, MemArg, MemEnd, InitRegions,
         SysallocArg, SysallocEnd, ModaddrArg, PresetArg
  <2>2. fw.at = "idle"
    BY <2>1 DEF FwInv, Shape
  <2> QED BY <2>1, <2>2, OtherKeeps
<1>4. CASE PlaceTree
  <2>1. UNCHANGED <<dt, fvars>> /\ dpc \notin Scanned
    BY <1>4 DEF PlaceTree, AfterSetupMemoryMap, DPanic, Scanned, Late
  <2>2. fw.at = "idle"
    BY <2>1 DEF FwInv, Shape
  <2> QED BY <2>1, <2>2, OtherKeeps
<1>5. CASE FirmwareEnd
  BY <1>5, OtherKeeps DEF FirmwareEnd, Scanned, Late
<1>6. CASE Configure
  BY <1>6, OtherKeeps DEF Configure, KStep, ParseIsaExt, ParseHarts, ParsePlic, ParseContext
<1>7. CASE SetupOptions
  BY <1>7, OtherKeeps DEF SetupOptions, Scanned, Late
<1>8. CASE BootKernel
  BY <1>8, OtherKeeps DEF BootKernel, Scanned, Late
<1>9. CASE EnterKernel(h)
  BY <1>9, OtherKeeps DEF EnterKernel
<1> QED BY <1>1, <1>2, <1>3, <1>4, <1>5, <1>6, <1>7, <1>8, <1>9

\* FbFound holds for every device tree and every directory of the device, as
\* long as files have selectors of their own: whenever the device ends its
\* transfers, the count, the entries in their order, the resolution and the
\* configuration are those asked for, and the first frame buffer named is shown.
THEOREM FbAlwaysFound == Spec => []FbFound
<1>1. Init => FwInv
  <2> SUFFICES ASSUME Init PROVE FwInv
    OBVIOUS
  <2>1. /\ dt \in Machines /\ dev = [sel |-> Same, off |-> 0, fb |-> Nothing]
        /\ desc = [control |-> "done", val |-> Nothing]
        /\ fw = [at |-> "idle", name |-> "none", left |-> 0, ramfb |-> 0, pixels |-> 0, fb |-> 0]
    BY DEF Init, DInit, FInit
  <2>2. fw.at = "idle" /\ dev.fb.addr = 0
    BY <2>1 DEF Nothing
  <2>3. Shape
    BY <2>1 DEF Shape
  <2> QED
    BY <2>2, <2>3 DEF FwInv, DeviceThere, SignatureRight, RamfbChosen, Items, Walk, Resolution,
       Shown, FbFound
<1>2. HartInv /\ FwInv /\ [Next]_vars => FwInv'
  <2> SUFFICES ASSUME HartInv, FwInv, [Next]_vars PROVE FwInv'
    OBVIOUS
  <2>1. CASE UNCHANGED vars
    BY <2>1, OtherKeeps DEF vars, dvars
  <2> QED
    BY <2>1, RestKeeps, FirmwareKeeps, DeviceKeeps DEF Next, BootLoader, Halted
<1>3. FwInv => FbFound
  BY DEF FwInv
<1> QED BY <1>1, <1>2, <1>3, HartInvAlways, PTL DEF Spec

-----------------------------------------------------------------------------
(* The cache of parents: the binary search *)

\* A set of natural numbers has a least element.
LEMMA LeastElement ==
  ASSUME NEW I \in SUBSET Nat, I # {}
  PROVE  \E m \in I : \A y \in I : m <= y
<1> DEFINE R == { p \in Nat \X Nat : p[1] < p[2] }
<1>1. IsWellFoundedOn(R, Nat)
  BY NatLessThanWellFounded, Zenon DEF OpToRel
<1> HIDE DEF R
<1>2. PICK x \in I : \A y \in I : ~(<<y, x>> \in R)
  BY <1>1, WFMin
<1> USE DEF R
<1>3. \A y \in I : ~(y < x)
  BY <1>2
<1> QED BY <1>3

Windows(L) == [lo : 1..(L + 1), hi : 0..L]
Middle(w) == w.lo + ((w.hi - w.lo) \div 2)
Lower(w) == [w EXCEPT !.hi = Middle(w) - 1]
Upper(w) == [w EXCEPT !.lo = Middle(w) + 1]

\* One round of get_parent() with the answers f of the windows left
Round(c, n, f, w) ==
  IF w.lo > w.hi THEN 0
  ELSE IF c[Middle(w)].node = n THEN c[Middle(w)].parent
  ELSE IF c[Middle(w)].node > n THEN f[Lower(w)]
  ELSE f[Upper(w)]

\* The answer v to the question for node n is right for a window.
Answers(c, n, w, v) ==
  /\ \A i \in w.lo..w.hi : c[i].node = n => v = c[i].parent
  /\ (\A i \in w.lo..w.hi : c[i].node # n) => v = 0

\* Entries in the order of their nodes
Rising(c, L) ==
  /\ \A i \in 1..L : c[i].node \in Nat
  /\ \A i, j \in 1..L : i < j => c[i].node < c[j].node

LEMMA Halves ==
  ASSUME NEW L \in Nat, NEW w \in Windows(L), w.lo <= w.hi
  PROVE  /\ w.lo \in 1..L /\ w.hi \in 1..L /\ Middle(w) \in w.lo..w.hi /\ Middle(w) \in 1..L
         /\ Lower(w) \in Windows(L) /\ Lower(w).lo = w.lo /\ Lower(w).hi = Middle(w) - 1
         /\ Upper(w) \in Windows(L) /\ Upper(w).lo = Middle(w) + 1 /\ Upper(w).hi = w.hi
<1>1. w.lo \in Nat \ {0} /\ w.hi \in Nat /\ w.hi <= L
  BY DEF Windows
<1>2. PICK a \in Nat : a = w.hi - w.lo
  BY <1>1
<1>3. a \div 2 \in Nat /\ a \div 2 <= a
  OBVIOUS
<1>4. Middle(w) \in Nat /\ w.lo <= Middle(w) /\ Middle(w) <= w.hi
  BY <1>1, <1>2, <1>3 DEF Middle
<1> HIDE DEF Middle
<1>5. /\ Lower(w).lo = w.lo /\ Lower(w).hi = Middle(w) - 1
      /\ Upper(w).lo = Middle(w) + 1 /\ Upper(w).hi = w.hi
  BY DEF Lower, Upper, Windows
<1>6. Lower(w) \in Windows(L) /\ Upper(w) \in Windows(L)
  BY <1>1, <1>4 DEF Lower, Upper, Windows
<1> QED BY <1>1, <1>4, <1>5, <1>6

\* A round answers for its window if the round it leaves the rest to does.
LEMMA RoundAnswers ==
  ASSUME NEW L \in Nat, NEW c, Rising(c, L), NEW n \in Nat, NEW f, NEW w \in Windows(L),
         w.lo <= w.hi => Answers(c, n, Lower(w), f[Lower(w)]) /\ Answers(c, n, Upper(w), f[Upper(w)])
  PROVE  Answers(c, n, w, Round(c, n, f, w))
<1>0. w.lo \in Nat /\ w.hi \in Nat
  BY DEF Windows
<1>1. CASE w.lo > w.hi
  BY <1>0, <1>1 DEF Answers, Round
<1>2. CASE w.lo <= w.hi
  <2>1. PICK m \in 1..L : m = Middle(w) /\ m \in w.lo..w.hi
    BY <1>2, Halves
  <2>2. w.lo..w.hi \subseteq 1..L
    BY <1>0, <1>2, Halves
  <2>3. ~(w.lo > w.hi)
    BY <1>0, <1>2
  <2>4. CASE c[m].node = n
    <3>1. Round(c, n, f, w) = c[m].parent
      BY <2>1, <2>3, <2>4 DEF Round
    <3>2. \A i \in w.lo..w.hi : c[i].node = n => i = m
      <4> SUFFICES ASSUME NEW i \in w.lo..w.hi, c[i].node = n, i # m PROVE FALSE
        OBVIOUS
      <4>1. i \in 1..L /\ (i < m \/ m < i)
        BY <2>2
      <4> QED BY <2>4, <4>1 DEF Rising
    <3> QED BY <2>1, <2>4, <3>1, <3>2 DEF Answers
  <2>5. CASE c[m].node # n /\ c[m].node > n
    <3>1. Round(c, n, f, w) = f[Lower(w)]
      BY <2>1, <2>3, <2>5 DEF Round
    <3>2. \A i \in w.lo..w.hi : c[i].node = n => i \in w.lo..(m - 1)
      <4> SUFFICES ASSUME NEW i \in w.lo..w.hi, c[i].node = n, ~(i < m) PROVE FALSE
        BY <1>0
      <4>1. i \in 1..L /\ (i = m \/ m < i)
        BY <2>2
      <4>2. c[i].node \in Nat /\ c[m].node \in Nat
        BY <4>1 DEF Rising
      <4> QED BY <2>5, <4>1, <4>2 DEF Rising
    <3>3. w.lo..(m - 1) \subseteq w.lo..w.hi
      BY <1>0, <2>1
    <3>4. Lower(w).lo = w.lo /\ Lower(w).hi = m - 1
      BY <1>2, <2>1, Halves
    <3> QED BY <1>2, <3>1, <3>2, <3>3, <3>4 DEF Answers
  <2>6. CASE c[m].node # n /\ ~(c[m].node > n)
    <3>1. Round(c, n, f, w) = f[Upper(w)]
      BY <2>1, <2>3, <2>6 DEF Round
    <3>2. \A i \in w.lo..w.hi : c[i].node = n => i \in (m + 1)..w.hi
      <4> SUFFICES ASSUME NEW i \in w.lo..w.hi, c[i].node = n, ~(i > m) PROVE FALSE
        BY <1>0
      <4>1. i \in 1..L /\ (i = m \/ i < m)
        BY <2>2
      <4>2. c[i].node \in Nat /\ c[m].node \in Nat
        BY <4>1 DEF Rising
      <4> QED BY <2>6, <4>1, <4>2 DEF Rising
    <3>3. (m + 1)..w.hi \subseteq w.lo..w.hi
      BY <1>0, <2>1
    <3>4. Upper(w).lo = m + 1 /\ Upper(w).hi = w.hi
      BY <1>2, <2>1, Halves
    <3> QED BY <1>2, <3>1, <3>2, <3>3, <3>4 DEF Answers
  <2> QED BY <2>4, <2>5, <2>6
<1> QED BY <1>0, <1>1, <1>2

\* There is one answer only.
LEMMA OneAnswer ==
  ASSUME NEW c, NEW n, NEW w, NEW u, NEW v, Answers(c, n, w, u), Answers(c, n, w, v)
  PROVE  u = v
BY DEF Answers

LEMMA AnAnswer ==
  ASSUME NEW L \in Nat, NEW c, Rising(c, L), NEW n, NEW w \in Windows(L)
  PROVE  \E v : Answers(c, n, w, v)
<1>1. w.lo..w.hi \subseteq 1..L
  BY DEF Windows
<1>2. CASE \A i \in w.lo..w.hi : c[i].node # n
  BY <1>2 DEF Answers
<1>3. ASSUME NEW i \in w.lo..w.hi, c[i].node = n PROVE \E v : Answers(c, n, w, v)
  <2>1. ASSUME NEW j \in w.lo..w.hi, c[j].node = n PROVE j = i
    <3>1. i \in 1..L /\ j \in 1..L
      BY <1>1
    <3>2. c[i].node \in Nat /\ c[j].node \in Nat
      BY <3>1 DEF Rising
    <3>3. ~(i < j) /\ ~(j < i)
      BY <1>3, <2>1, <3>1, <3>2 DEF Rising
    <3> QED BY <3>1, <3>3
  <2> QED BY <1>3, <2>1 DEF Answers
<1> QED BY <1>2, <1>3

\* The recursion of get_parent() ends: a function with these values exists.
LEMMA SearchExists ==
  ASSUME NEW L \in Nat, NEW c, Rising(c, L), NEW n \in Nat
  PROVE  \E f : f = [w \in Windows(L) |-> Round(c, n, f, w)]
<1> DEFINE F == [w \in Windows(L) |-> CHOOSE v : Answers(c, n, w, v)]
<1>1. ASSUME NEW w \in Windows(L) PROVE Answers(c, n, w, F[w])
  <2>1. \E v : Answers(c, n, w, v)
    BY AnAnswer
  <2> QED BY <2>1
<1>2. F = [w \in Windows(L) |-> F[w]]
  OBVIOUS
<1> HIDE DEF F
<1>3. ASSUME NEW w \in Windows(L) PROVE F[w] = Round(c, n, F, w)
  <2>1. w.lo <= w.hi => Lower(w) \in Windows(L) /\ Upper(w) \in Windows(L)
    BY Halves
  <2>2. Answers(c, n, w, Round(c, n, F, w))
    BY <1>1, <2>1, RoundAnswers
  <2> QED BY <1>1, <2>2, OneAnswer
<1>4. F = [w \in Windows(L) |-> Round(c, n, F, w)]
  BY <1>2, <1>3, Zenon
<1> QED BY <1>4

\* Every such function answers for every window, by the windows' sizes.
LEMMA SearchAnswers ==
  ASSUME NEW L \in Nat, NEW c, Rising(c, L), NEW n \in Nat, NEW f,
         f = [w \in Windows(L) |-> Round(c, n, f, w)]
  PROVE  \A w \in Windows(L) : Answers(c, n, w, f[w])
<1> DEFINE Span(w) == (w.hi + 1) - w.lo + L
           Bad == { d \in Nat : \E w \in Windows(L) : Span(w) = d /\ ~Answers(c, n, w, f[w]) }
<1>1. \A w \in Windows(L) : Span(w) \in Nat
  BY DEF Windows
<1>2. Bad = {}
  <2> SUFFICES ASSUME Bad # {} PROVE FALSE
    OBVIOUS
  <2>1. Bad \in SUBSET Nat
    OBVIOUS
  <2> HIDE DEF Bad
  <2>2. PICK d \in Bad : \A y \in Bad : d <= y
    BY <2>1, LeastElement
  <2> USE DEF Bad
  <2>3. PICK w \in Windows(L) : Span(w) = d /\ ~Answers(c, n, w, f[w])
    BY <2>2
  <2>4. ASSUME NEW u \in Windows(L), Span(u) < d PROVE Answers(c, n, u, f[u])
    <3>1. Span(u) \in Nat /\ d \in Nat
      BY <1>1, <2>1, <2>2
    <3>2. ~(d <= Span(u))
      BY <2>4, <3>1
    <3> HIDE DEF Span
    <3> QED BY <2>2, <3>1, <3>2
  <2>5. w.lo <= w.hi => /\ Lower(w) \in Windows(L) /\ Span(Lower(w)) < d
                        /\ Upper(w) \in Windows(L) /\ Span(Upper(w)) < d
    <3> SUFFICES ASSUME w.lo <= w.hi PROVE /\ Lower(w) \in Windows(L) /\ Span(Lower(w)) < d
                                           /\ Upper(w) \in Windows(L) /\ Span(Upper(w)) < d
      OBVIOUS
    <3>1. PICK m \in 1..L : m = Middle(w) /\ m \in w.lo..w.hi
      BY Halves
    <3>2. /\ Lower(w).lo = w.lo /\ Lower(w).hi = m - 1
          /\ Upper(w).lo = m + 1 /\ Upper(w).hi = w.hi
      BY <3>1, Halves
    <3>3. w.lo \in Nat /\ w.hi \in Nat
      BY DEF Windows
    <3>4. Span(Lower(w)) < Span(w) /\ Span(Upper(w)) < Span(w)
      BY <3>1, <3>2, <3>3
    <3> HIDE DEF Span
    <3> QED BY <2>3, <3>4, Halves
  <2>6. w.lo <= w.hi => Answers(c, n, Lower(w), f[Lower(w)]) /\ Answers(c, n, Upper(w), f[Upper(w)])
    BY <2>4, <2>5
  <2>7. Answers(c, n, w, Round(c, n, f, w))
    BY <2>6, RoundAnswers
  <2>8. f[w] = Round(c, n, f, w)
    BY Zenon
  <2> QED BY <2>3, <2>7, <2>8
<1>3. ASSUME NEW w \in Windows(L) PROVE Answers(c, n, w, f[w])
  <2>1. Span(w) \notin Bad
    BY <1>2
  <2> QED BY <1>1, <2>1
<1> QED BY <1>3

-----------------------------------------------------------------------------
(* The cache of parents: scan() *)

\* The cache has the parents of nodes, in the order of the nodes; the root's
\* parent in it is any number.
CacheRight ==
  /\ dt \in Machines
  /\ cache \in Seq([node : Nat, parent : Nat])
  /\ Rising(cache, Len(cache))
  /\ \A i \in 1..Len(cache) : cache[i].node \in Nodes
  /\ \A i \in 1..Len(cache) : Depth(cache[i].node) > 0 => cache[i].parent = FdtParent(cache[i].node)

\* On the stack is the last node of each level so far, above what was there.
StackRight ==
  /\ cur \in 1..(Len(dt.nodes) + 1)
  /\ stack \in [0..(StackLen - 1) -> Nat]
  /\ \A i \in 1..Len(cache) : cache[i].node < cur
  /\ \A m \in 1..(cur - 1) : ScanDepth(m) < StackLen =>
       stack[ScanDepth(m)] \in m..(cur - 1) /\ Depth(stack[ScanDepth(m)]) = Depth(m)

\* The inductive strengthening of ParentRight.
ParentInv ==
  /\ CacheRight
  /\ dpc = "dt" => cache = <<>> /\ stack \in [0..(StackLen - 1) -> Nat]
  /\ dpc = "scan" => StackRight

LEMMA TreeType ==
  ASSUME dt \in Machines
  PROVE  /\ Len(dt.nodes) \in Nat /\ Nodes = 1..Len(dt.nodes)
         /\ \A n \in Nodes : /\ Depth(n) \in Nat
                             /\ Depth(n) > 0 => \E k \in 1..(n - 1) : Depth(k) = Depth(n) - 1
                             /\ HasProp(n, "interrupt-controller") => Depth(n) > 0
         /\ StackLen \in Nat /\ CacheMax \in Nat
BY TreeAssumption DEF Nodes, Depth, HasProp

\* parent_node() agrees with libfdt, for nodes in the cache and others.
LEMMA CacheAgrees ==
  ASSUME CacheRight, NEW n \in Nodes, Depth(n) > 0
  PROVE  ParentNode(n) = FdtParent(n)
<1>1. n \in Nat
  BY TreeType DEF CacheRight
<1> DEFINE L == Len(cache)
<1>2. L \in Nat /\ Rising(cache, L)
  BY DEF CacheRight
<1>3. \E f : f = [w \in Windows(L) |-> Round(cache, n, f, w)] /\ CachedParent(n) = f[[lo |-> 1, hi |-> L]]
  <2>1. \E f : f = [w \in Windows(L) |-> Round(cache, n, f, w)]
    BY <1>1, <1>2, SearchExists
  <2> QED BY <2>1, Zenon DEF CachedParent, Round, Windows, Middle, Lower, Upper
<1>4. PICK f : f = [w \in Windows(L) |-> Round(cache, n, f, w)] /\ CachedParent(n) = f[[lo |-> 1, hi |-> L]]
  BY <1>3
<1> DEFINE all == [lo |-> 1, hi |-> L]
<1>5. all \in Windows(L) /\ all.lo = 1 /\ all.hi = L
  BY <1>2 DEF Windows
<1>6. Answers(cache, n, all, f[all])
  <2> HIDE DEF all
  <2> QED BY <1>1, <1>2, <1>4, <1>5, SearchAnswers
<1>7. CASE \E i \in 1..L : cache[i].node = n
  <2>1. PICK i \in 1..L : cache[i].node = n
    BY <1>7
  <2>2. CachedParent(n) = cache[i].parent
    BY <1>4, <1>5, <1>6, <2>1 DEF Answers
  <2> QED BY <2>1, <2>2 DEF CacheRight, ParentNode
<1>8. CASE \A i \in 1..L : cache[i].node # n
  <2>1. CachedParent(n) = 0
    BY <1>4, <1>5, <1>6, <1>8 DEF Answers
  <2> QED BY <2>1 DEF ParentNode
<1> QED BY <1>7, <1>8

\* The node a step of scan() takes from the stack
LEMMA StackedIsParent ==
  ASSUME CacheRight, StackRight, cur <= Len(dt.nodes), ScanDepth(cur) < StackLen
  PROVE  /\ StackedParent(ScanDepth(cur)) \in Nat
         /\ Depth(cur) > 0 => StackedParent(ScanDepth(cur)) = FdtParent(cur)
<1>0. dt \in Machines /\ cur \in Nat \ {0}
  BY DEF CacheRight, StackRight
<1>1. cur \in Nodes /\ Depth(cur) \in Nat /\ StackLen \in Nat /\ ScanDepth(cur) = Depth(cur) + 1
  BY <1>0, TreeType DEF ScanDepth
<1>2. StackedParent(ScanDepth(cur)) = stack[Depth(cur)] /\ Depth(cur) \in 0..(StackLen - 1)
  BY <1>1 DEF StackedParent
<1>3. stack[Depth(cur)] \in Nat
  BY <1>2 DEF StackRight
<1>4. ASSUME Depth(cur) > 0 PROVE stack[Depth(cur)] = FdtParent(cur)
  <2> DEFINE S == { m \in 1..(cur - 1) : Depth(m) = Depth(cur) - 1 }
             top == stack[Depth(cur)]
  <2>1. PICK k \in 1..(cur - 1) : Depth(k) = Depth(cur) - 1
    BY <1>1, <1>4, TreeType DEF CacheRight
  <2>2. \A m \in S : ScanDepth(m) = Depth(cur) /\ ScanDepth(m) < StackLen
    BY <1>1, <1>2 DEF ScanDepth
  <2>3. ASSUME NEW m \in S PROVE top \in m..(cur - 1) /\ Depth(top) = Depth(cur) - 1
    BY <2>2, <2>3 DEF StackRight
  <2>4. top \in S
    BY <1>0, <1>1, <2>1, <2>3
  <2>5. S \in SUBSET Nat /\ \A m \in S : top >= m
    BY <1>0, <1>1, <2>3
  <2>6. FdtParent(cur) = Max(S)
    BY <1>1, <1>4 DEF FdtParent
  <2> HIDE DEF S, top
  <2>8. \A x \in S : (\A y \in S : x >= y) => x = top
    BY <2>4, <2>5
  <2>9. Max(S) = top
    BY <2>4, <2>5, <2>8, Zenon DEF Max
  <2> QED BY <2>6, <2>9 DEF top
<1> QED BY <1>2, <1>3, <1>4

\* One iteration of scan()
LEMMA ScanKeeps ==
  ASSUME ParentInv, ScanNode
  PROVE  ParentInv'
<1>1. dpc = "scan" /\ CacheRight /\ StackRight /\ dt' = dt
  BY DEF ScanNode, ParentInv
<1>2. /\ Len(dt.nodes) \in Nat /\ Nodes = 1..Len(dt.nodes) /\ cur \in Nat \ {0}
      /\ \A m \in Nodes : Depth(m) \in Nat /\ ScanDepth(m) = Depth(m) + 1
      /\ StackLen \in Nat
  BY <1>1, TreeType DEF CacheRight, StackRight, ScanDepth
<1>3. Len(cache) \in Nat
  BY <1>1 DEF CacheRight
<1>4. /\ Nodes' = Nodes /\ (\A m : Depth(m)' = Depth(m)) /\ (\A m : ScanDepth(m)' = ScanDepth(m))
      /\ (\A m : FdtParent(m)' = FdtParent(m))
  BY <1>1 DEF Nodes, Depth, ScanDepth, FdtParent
<1>5. CASE cur > Len(dt.nodes) \/ Len(cache) = CacheMax
  <2>1. dpc' = "kuart" /\ cache' = cache
    BY <1>5 DEF ScanNode
  <2>2. CacheRight'
    BY <1>1, <1>4, <2>1 DEF CacheRight
  <2> QED BY <2>1, <2>2 DEF ParentInv
<1>6. CASE ~(cur > Len(dt.nodes) \/ Len(cache) = CacheMax)
  <2>1. cur' = cur + 1 /\ dpc' = "scan" /\ cur \in Nodes /\ cur <= Len(dt.nodes)
    BY <1>1, <1>2, <1>6 DEF ScanNode
  <2>2. CASE ~(ScanDepth(cur) < StackLen)
    <3>1. cache' = cache /\ stack' = stack
      BY <1>6, <2>2 DEF ScanNode
    <3>2. CacheRight'
      BY <1>1, <1>4, <3>1 DEF CacheRight
    <3>3. StackRight'
      <4>1. \A m \in 1..(cur' - 1) : ScanDepth(m) < StackLen => m \in 1..(cur - 1)
        BY <1>2, <2>1, <2>2
      <4>2. \A i \in 1..Len(cache) : cache[i].node < cur'
        <5>1. \A i \in 1..Len(cache) : cache[i].node \in Nat /\ cache[i].node < cur
          BY <1>1 DEF CacheRight, StackRight, Rising
        <5> QED BY <1>2, <2>1, <5>1
      <4>3. \A m \in 1..(cur' - 1) : ScanDepth(m) < StackLen =>
              stack[ScanDepth(m)] \in m..(cur' - 1) /\ Depth(stack[ScanDepth(m)]) = Depth(m)
        <5> SUFFICES ASSUME NEW m \in 1..(cur' - 1), ScanDepth(m) < StackLen
                     PROVE  stack[ScanDepth(m)] \in m..(cur' - 1) /\ Depth(stack[ScanDepth(m)]) = Depth(m)
          OBVIOUS
        <5>1. stack[ScanDepth(m)] \in m..(cur - 1) /\ Depth(stack[ScanDepth(m)]) = Depth(m)
          BY <1>1, <4>1 DEF StackRight
        <5> QED BY <1>2, <2>1, <5>1
      <4> QED BY <1>1, <1>2, <1>4, <2>1, <3>1, <4>2, <4>3 DEF StackRight
    <3> QED BY <2>1, <3>2, <3>3 DEF ParentInv
  <2>3. CASE ScanDepth(cur) < StackLen
    <3> DEFINE new == [node |-> cur, parent |-> StackedParent(ScanDepth(cur))]
    <3>1. cache' = Append(cache, new) /\ stack' = [stack EXCEPT ![ScanDepth(cur)] = cur]
      BY <1>6, <2>3 DEF ScanNode
    <3>2. /\ StackedParent(ScanDepth(cur)) \in Nat
          /\ Depth(cur) > 0 => StackedParent(ScanDepth(cur)) = FdtParent(cur)
      BY <1>1, <2>1, <2>3, StackedIsParent
    <3>3. /\ new \in [node : Nat, parent : Nat] /\ new.node = cur
          /\ Depth(cur) > 0 => new.parent = FdtParent(cur)
      BY <1>2, <3>2
    <3> HIDE DEF new
    <3>4. /\ cache' \in Seq([node : Nat, parent : Nat])
          /\ Len(cache') = Len(cache) + 1 /\ cache'[Len(cache) + 1] = new
          /\ \A i \in 1..Len(cache) : cache'[i] = cache[i]
      BY <1>1, <3>1, <3>3 DEF CacheRight
    <3>5. \A i \in 1..Len(cache') : i \in 1..Len(cache) \/ i = Len(cache) + 1
      BY <1>3, <3>4
    <3>6. \A i \in 1..Len(cache) : cache[i].node \in Nat /\ cache[i].node < cur
      BY <1>1 DEF CacheRight, StackRight, Rising
    <3>7. Rising(cache', Len(cache'))
      <4>1. \A i \in 1..Len(cache') : cache'[i].node \in Nat
        BY <1>2, <3>3, <3>4, <3>5, <3>6
      <4>2. ASSUME NEW i \in 1..Len(cache'), NEW j \in 1..Len(cache'), i < j
            PROVE  cache'[i].node < cache'[j].node
        <5>1. i \in 1..Len(cache)
          BY <1>3, <3>4, <4>2
        <5>2. CASE j \in 1..Len(cache)
          BY <1>1, <3>4, <4>2, <5>1, <5>2 DEF CacheRight, Rising
        <5>3. CASE j = Len(cache) + 1
          BY <3>3, <3>4, <3>6, <5>1, <5>3
        <5> QED BY <3>5, <5>2, <5>3
      <4> QED BY <4>1, <4>2 DEF Rising
    <3>8. \A i \in 1..Len(cache') : /\ cache'[i].node \in Nodes
                                    /\ Depth(cache'[i].node) > 0 => cache'[i].parent = FdtParent(cache'[i].node)
      <4>1. \A i \in 1..Len(cache) : /\ cache[i].node \in Nodes
                                     /\ Depth(cache[i].node) > 0 => cache[i].parent = FdtParent(cache[i].node)
        BY <1>1 DEF CacheRight
      <4> QED BY <2>1, <3>3, <3>4, <3>5, <4>1
    <3>9. CacheRight'
      BY <1>1, <1>4, <3>4, <3>7, <3>8 DEF CacheRight
    <3>10. ASSUME NEW i \in 1..Len(cache') PROVE cache'[i].node < cur'
      <4>1. CASE i \in 1..Len(cache)
        <5>1. cache'[i].node = cache[i].node /\ cache[i].node \in Nat /\ cache[i].node < cur
          BY <3>4, <3>6, <4>1
        <5> QED BY <1>2, <2>1, <5>1
      <4>2. CASE i = Len(cache) + 1
        <5>1. cache'[i].node = cur
          BY <3>3, <3>4, <4>2
        <5> QED BY <1>2, <2>1, <5>1
      <4> QED BY <3>5, <4>1, <4>2
    <3>11. ScanDepth(cur) \in 0..(StackLen - 1) /\ stack \in [0..(StackLen - 1) -> Nat]
      BY <1>1, <1>2, <2>1, <2>3 DEF StackRight
    <3>12. ASSUME NEW m \in 1..(cur' - 1), ScanDepth(m) < StackLen
           PROVE  stack'[ScanDepth(m)] \in m..(cur' - 1) /\ Depth(stack'[ScanDepth(m)]) = Depth(m)
      <4>1. m \in Nodes /\ ScanDepth(m) \in 0..(StackLen - 1) /\ m <= cur /\ m \in Nat
        BY <1>2, <2>1, <3>12
      <4>2. CASE ScanDepth(m) = ScanDepth(cur)
        <5>1. stack'[ScanDepth(m)] = cur
          BY <3>1, <3>11, <4>2
        <5> QED BY <1>2, <2>1, <4>1, <4>2, <5>1
      <4>3. CASE ScanDepth(m) # ScanDepth(cur)
        <5>1. m \in 1..(cur - 1)
          BY <1>2, <4>1, <4>3
        <5>2. stack'[ScanDepth(m)] = stack[ScanDepth(m)]
          BY <3>1, <3>11, <4>1, <4>3
        <5>3. stack[ScanDepth(m)] \in m..(cur - 1) /\ Depth(stack[ScanDepth(m)]) = Depth(m)
          BY <1>1, <3>12, <5>1 DEF StackRight
        <5> QED BY <1>2, <2>1, <5>2, <5>3
      <4> QED BY <4>2, <4>3
    <3>13. stack' \in [0..(StackLen - 1) -> Nat]
      BY <1>2, <3>1, <3>11
    <3>14. StackRight'
      BY <1>1, <1>2, <1>4, <2>1, <3>10, <3>12, <3>13 DEF StackRight
    <3> QED BY <2>1, <3>9, <3>14 DEF ParentInv
  <2> QED BY <2>2, <2>3
<1> QED BY <1>5, <1>6

\* All other steps leave tree and cache alone.
LEMMA CacheKept ==
  ASSUME ParentInv, UNCHANGED <<dt, cache>>,
         dpc' \notin {"dt", "scan"} \/ UNCHANGED <<dpc, cur, stack>>
  PROVE  ParentInv'
<1>1. /\ Nodes' = Nodes /\ (\A m : Depth(m)' = Depth(m)) /\ (\A m : ScanDepth(m)' = ScanDepth(m))
      /\ (\A m : FdtParent(m)' = FdtParent(m))
  BY DEF Nodes, Depth, ScanDepth, FdtParent
<1>2. CacheRight'
  BY <1>1 DEF ParentInv, CacheRight
<1>3. CASE dpc' \notin {"dt", "scan"}
  BY <1>2, <1>3 DEF ParentInv
<1>4. CASE UNCHANGED <<dpc, cur, stack>>
  BY <1>1, <1>2, <1>4 DEF ParentInv, StackRight
<1> QED BY <1>3, <1>4

\* DtInit and scan() alone touch the cache, and the tree is not scanned again.
LEMMA ParentStep ==
  ASSUME ParentInv, [Next]_vars
  PROVE  ParentInv'
<1> USE DEF dvars
<1>1. CASE DtInit
  <2>1. UNCHANGED <<dt, cache, stack>> /\ dpc = "dt"
    BY <1>1 DEF DtInit, DPanic
  <2>2. CASE dpc' = "scan" /\ cur' = 1
    <3>1. cache = <<>> /\ stack \in [0..(StackLen - 1) -> Nat] /\ CacheRight
      BY <2>1 DEF ParentInv
    <3>2. Len(cache) = 0 /\ Len(dt.nodes) \in Nat
      BY <3>1, TreeType DEF CacheRight
    <3>3. CacheRight'
      <4>1. Nodes' = Nodes /\ (\A m : FdtParent(m)' = FdtParent(m))
        BY <2>1 DEF Nodes, Depth, FdtParent
      <4> QED BY <2>1, <3>1, <4>1 DEF CacheRight
    <3>4. StackRight'
      BY <2>1, <2>2, <3>1, <3>2 DEF StackRight
    <3> QED BY <2>2, <3>3, <3>4 DEF ParentInv
  <2>3. CASE dpc' = "panic"
    BY <2>1, <2>3, CacheKept
  <2> QED BY <1>1, <2>2, <2>3 DEF DtInit, DPanic
<1>2. CASE SetupKuart("ns16550a") \/ MemoryNode(opt.maxmem) \/ ReservedNode \/ MemReserve
  <2>1. CASE SetupKuart("ns16550a")
    BY <2>1, CacheKept DEF SetupKuart
  <2>2. CASE MemoryNode(opt.maxmem)
    <3>1. UNCHANGED <<dt, cache>> /\ dpc' \notin {"dt", "scan"}
      <4>1. CASE NextNode(MemoryNodes) = 0
        BY <2>2, <4>1 DEF MemoryNode
      <4>2. ASSUME NEW n, NEW found, AddMemory(n, found, opt.maxmem), dpc = "memory"
            PROVE  UNCHANGED <<dt, cache>> /\ dpc' \notin {"dt", "scan"}
        <5>1. UNCHANGED <<dt, cache>> /\ (dpc' = "panic" \/ dpc' = dpc)
          BY <4>2, Zenon DEF AddMemory, DPanic
        <5> QED BY <4>2, <5>1
      <4>3. CASE NextNode(MemoryNodes) # 0
        BY <2>2, <4>2, <4>3 DEF MemoryNode
      <4> QED BY <4>1, <4>3
    <3> QED BY <3>1, CacheKept
  <2>3. CASE ReservedNode \/ MemReserve
    <3>1. UNCHANGED <<dt, cache>> /\ dpc' \notin {"dt", "scan"}
      BY <2>3 DEF ReservedNode, MemReserve, Reserve, DPanic
    <3> QED BY <3>1, CacheKept
  <2> QED BY <1>2, <2>1, <2>2, <2>3
<1>3. CASE Arguments
  <2>1. UNCHANGED <<dt, cache>> /\ dpc' \notin {"dt", "scan"}
    <3> USE DEF Answered, Refused, DPanic
    <3> QED
      BY <1>3 DEF Arguments, CheckArg, NoserialArg, WaitArg, MaxmemArg, MemArg, MemEnd, InitRegions,
         SysallocArg, SysallocEnd, ModaddrArg, PresetArg
  <2> QED BY <2>1, CacheKept
<1>4. CASE PlaceTree
  <2>1. UNCHANGED <<dt, cache>> /\ dpc' \notin {"dt", "scan"}
    BY <1>4 DEF PlaceTree, AfterSetupMemoryMap, DPanic
  <2> QED BY <2>1, CacheKept
<1>5. CASE Firmware
  <2>1. UNCHANGED <<dt, cache>> /\ (dpc' = "panic" \/ UNCHANGED <<dpc, cur, stack>>)
    <3>1. CASE FwError
      BY <3>1 DEF FwError, DPanic
    <3>2. CASE FwStep
      BY <3>2 DEF FwStep, SetupFwCfg, FwSignature, FwVersion, FwCount, FwSkip, FwRamfb, FwRes,
         FwString, AllocFb, FwConfigured, DPanic
    <3> QED BY <1>5, <3>1, <3>2 DEF Firmware
  <2> QED BY <2>1, CacheKept
<1>6. CASE FirmwareEnd \/ SetupOptions \/ BootKernel
  <2>1. UNCHANGED <<dt, cache>> /\ dpc' \notin {"dt", "scan"}
    BY <1>6 DEF FirmwareEnd, SetupOptions, BootKernel
  <2> QED BY <2>1, CacheKept
<1>7. CASE Configure
  <2>1. UNCHANGED <<dt, cache, dpc, cur, stack>>
    <3>1. CASE ParseIsaExt
      BY <3>1, Zenon DEF ParseIsaExt
    <3>2. CASE ParseHarts
      BY <3>2 DEF ParseHarts
    <3>3. CASE ParsePlic
      BY <3>3 DEF ParsePlic
    <3>4. CASE ParseContext
      BY <3>4 DEF ParseContext
    <3> QED BY <1>7, <3>1, <3>2, <3>3, <3>4 DEF Configure, KStep
  <2> QED BY <2>1, CacheKept
<1>8. ASSUME NEW h \in Harts, Hart(h) \/ EnterKernel(h) PROVE ParentInv'
  <2>1. UNCHANGED <<dt, cache, dpc, cur, stack>>
    BY <1>8 DEF Hart, Lottery, Main, WaitForBootstrap, EnterKernel
  <2> QED BY <2>1, CacheKept
<1>9. CASE Device \/ UNCHANGED vars
  <2>1. UNCHANGED <<dt, cache, dpc, cur, stack>>
    BY <1>9 DEF Device, DmaDone, DmaFails, vars
  <2> QED BY <2>1, CacheKept
<1> QED
  BY <1>1, <1>2, <1>3, <1>4, <1>5, <1>6, <1>7, <1>8, <1>9, ScanKeeps DEF Next, BootLoader, Tree, Halted

LEMMA ParentInvAlways == Spec => []ParentInv
<1>1. Init => ParentInv
  <2> SUFFICES ASSUME Init PROVE ParentInv
    OBVIOUS
  <2>1. dt \in Machines /\ cache = <<>> /\ dpc = "dt"
    BY DEF Init, DInit
  <2>2. cache \in Seq([node : Nat, parent : Nat]) /\ Len(cache) = 0
    BY <2>1
  <2>3. stack \in [0..(StackLen - 1) -> Nat]
    <3>1. Len(dt.nodes) \in Nat
      BY <2>1, TreeType
    <3>2. PICK junk \in 0..Len(dt.nodes) : stack = [d \in 0..(StackLen - 1) |-> junk]
      BY DEF Init, DInit
    <3>3. junk \in Nat
      BY <3>1
    <3> QED BY <3>2, <3>3
  <2> QED BY <2>1, <2>2, <2>3 DEF ParentInv, CacheRight, Rising
<1>2. ParentInv /\ [Next]_vars => ParentInv'
  BY ParentStep
<1> QED BY <1>1, <1>2, PTL DEF Spec

\* ParentRight holds for every tree, whatever the depth of its nodes, the length
\* of the stack of scan(), what was on it before and the size of the cache: for
\* every node below the root parent_node() agrees with libfdt, by the binary
\* search in the part of the tree that is cached and without it elsewhere.
THEOREM ParentsAlwaysRight == Spec => []ParentRight
<1>1. ParentInv => ParentRight
  BY CacheAgrees DEF ParentInv, ParentRight
<1> QED BY <1>1, ParentInvAlways, PTL

-----------------------------------------------------------------------------
(* The interrupt contexts *)

\* The harts parse_harts() lists have different ids, as the specification of the
\* device tree requires of the nodes below /cpus.  This is about the tree alone,
\* which no step changes.
HartsDistinct ==
  LET ids == SelectSeq(Cpus, HasHartid)
  IN \A i, j \in 1..Len(ids) : Hartid(ids[i]) = Hartid(ids[j]) => i = j

\* The interrupt controller of a context, and the hart it belongs to
Controller(c) == ByPhandle(Handle(c))
Owner(c) == FdtParent(Controller(c))

\* Context c brings interrupts to place h of the list.
Serves(c, h) ==
  /\ Irq(c) # CellBase - 1
  /\ PropIs(Controller(c), "compatible", "cpu-intc")
  /\ Owner(c) # 0 /\ HasHartid(Owner(c)) /\ Hartid(Owner(c)) = kip.harts[h]

\* The list is no longer than the array and names no hart twice.
HartList ==
  /\ DOMAIN kip = {"isa", "harts", "timebase", "plic", "target"}
  /\ DOMAIN kip.harts \subseteq 1..MaxHarts
  /\ \A h, g \in DOMAIN kip.harts : kip.harts[h] = kip.harts[g] => h = g

\* No context is looked at before the list is complete.
BeforeContexts ==
  /\ kpc \in {"isa", "harts", "plic", "contexts", "done"}
  /\ kpc \in {"isa", "harts", "plic"} => ctx = 0 /\ kip.target = [h \in 1..MaxHarts |-> NoCtx]

\* The contexts entered so far serve their hart, and no later one behind them
\* was looked at that does.
Entered ==
  /\ ctx \in Nat /\ kip.target \in [1..MaxHarts -> Int]
  /\ \A c \in 1..ctx : Resolves(c)
  /\ \A h \in DOMAIN kip.harts :
       /\ kip.target[h] # NoCtx => kip.target[h] + 1 \in 1..ctx /\ Serves(kip.target[h] + 1, h)
       /\ \A c \in 1..ctx : Serves(c, h) => kip.target[h] >= c - 1

\* The inductive strengthening of TargetsRight.
TargetsInv == HartList /\ BeforeContexts /\ Entered

\* What the tree says stays.
LEMMA TreeStays ==
  ASSUME dt' = dt
  PROVE  /\ \A c : Resolves(c)' = Resolves(c)
         /\ \A c : Irq(c)' = Irq(c) /\ Controller(c)' = Controller(c) /\ Owner(c)' = Owner(c)
         /\ \A n, p, v : PropIs(n, p, v)' = PropIs(n, p, v)
         /\ \A n : HasHartid(n)' = HasHartid(n) /\ Hartid(n)' = Hartid(n)
<1>1. Nodes' = Nodes /\ (\A n : Depth(n)' = Depth(n)) /\ (\A n : FdtParent(n)' = FdtParent(n))
  BY DEF Nodes, Depth, FdtParent
<1>2. \A n, p : HasProp(n, p)' = HasProp(n, p) /\ Prop(n, p)' = Prop(n, p)
  BY DEF HasProp, Prop
<1>3. \A n, p, v : PropIs(n, p, v)' = PropIs(n, p, v)
  BY <1>2 DEF PropIs
<1>4. \A n : HasHartid(n)' = HasHartid(n) /\ Hartid(n)' = Hartid(n)
  BY <1>2, <1>3 DEF HasHartid, HasIsa, IsEnabled, Hartid
<1>5. Plic' = Plic
  BY DEF Plic, ByCompatible, PropIs, HasProp, Prop, Nodes
<1>6. \A c : Irq(c)' = Irq(c) /\ Handle(c)' = Handle(c)
  BY <1>2, <1>5 DEF Irq, Handle, Field
<1>7. \A h : ByPhandle(h)' = ByPhandle(h)
  BY DEF ByPhandle, PropIs, HasProp, Prop, Nodes
<1>8. \A c : Controller(c)' = Controller(c)
  BY <1>6, <1>7 DEF Controller
<1>9. \A c : Owner(c)' = Owner(c) /\ Resolves(c)' = Resolves(c)
  BY <1>1, <1>2, <1>3, <1>6, <1>7, <1>8 DEF Owner, Resolves
<1> QED BY <1>3, <1>4, <1>6, <1>8, <1>9

\* The least of a set of numbers is in it.
LEMMA MinIn ==
  ASSUME NEW S \in SUBSET Nat, S # {}
  PROVE  Min(S) \in S
<1>1. \E x \in S : \A y \in S : x <= y
  BY LeastElement
<1> QED BY <1>1, Zenon DEF Min

\* A context that can be resolved is entered for the harts it serves alone.
LEMMA HartOfServes ==
  ASSUME CacheRight, HartList, NEW c, Resolves(c)
  PROVE  \A h \in DOMAIN kip.harts : h \in HartOf(c) <=> Serves(c, h)
<1> DEFINE ic == Controller(c)
           hit == { n \in Nodes : PropIs(n, "phandle", Handle(c)) }
           hart == ParentNode(ic)
           at == { h \in DOMAIN kip.harts : kip.harts[h] = Hartid(hart) }
<1>1. ic # 0 /\ ic = ByPhandle(Handle(c))
  BY DEF Resolves, Controller
<1>2. Nodes \subseteq Nat
  BY TreeType DEF CacheRight
<1>3. hit # {} /\ ic = Min(hit)
  BY <1>1 DEF ByPhandle
<1>4. ic \in Nodes /\ Depth(ic) > 0
  <2>1. hit \in SUBSET Nat
    BY <1>2
  <2>2. HasProp(ic, "interrupt-controller")
    BY <1>1 DEF Resolves
  <2> HIDE DEF ic
  <2>3. ic \in Nodes
    BY <1>3, <2>1, MinIn
  <2> QED BY <2>2, <2>3, TreeType DEF CacheRight
<1>5. hart = Owner(c)
  BY <1>4, CacheAgrees DEF Owner
<1>6. at \in SUBSET Nat
  BY ConfigAssumption DEF HartList
<1>7. \A h \in at : at = {h}
  BY DEF HartList
<1>8. at # {} => {Min(at)} = at
  <2> HIDE DEF at
  <2> QED BY <1>6, <1>7, MinIn
<1>9. HartOf(c) = IF Irq(c) = CellBase - 1 \/ ~PropIs(ic, "compatible", "cpu-intc") \/ hart = 0 THEN {}
                  ELSE IF ~HasHartid(hart) THEN {}
                  ELSE IF at = {} THEN {} ELSE {Min(at)}
  BY <1>1, Zenon DEF HartOf
<1>10. \A h \in DOMAIN kip.harts : h \in at <=> Hartid(Owner(c)) = kip.harts[h]
  BY <1>5
<1> HIDE DEF ic, hart, at
<1>11. \A h : h \in HartOf(c) <=> /\ Irq(c) # CellBase - 1 /\ PropIs(ic, "compatible", "cpu-intc")
                                  /\ hart # 0 /\ HasHartid(hart) /\ h \in at
  BY <1>8, <1>9
<1>12. ic = Controller(c)
  BY DEF ic
<1> QED BY <1>5, <1>10, <1>11, <1>12 DEF Serves

\* An iteration over the contexts
LEMMA ContextKeeps ==
  ASSUME ParentInv, TargetsInv, ParseContext
  PROVE  TargetsInv'
<1> USE DEF TargetsInv
<1>1. dt' = dt /\ kpc = "contexts" /\ CacheRight
  BY DEF ParseContext, dvars, ParentInv
<1>2. /\ \A c : Resolves(c)' = Resolves(c)
      /\ kip'.harts = kip.harts => \A c, h : Serves(c, h)' = Serves(c, h)
  BY <1>1, TreeStays DEF Serves
<1>3. CASE ~(ctx < Contexts /\ Resolves(ctx + 1))
  <2>1. kpc' = "done" /\ UNCHANGED <<kip, ctx>>
    BY <1>3 DEF ParseContext
  <2> QED BY <1>2, <2>1 DEF HartList, BeforeContexts, Entered
<1>4. CASE Resolves(ctx + 1) /\ ctx < Contexts
  <2> DEFINE T == [h \in 1..MaxHarts |-> IF h \in HartOf(ctx + 1) THEN ctx ELSE kip.target[h]]
  <2>1. kip' = [kip EXCEPT !.target = T] /\ ctx' = ctx + 1 /\ kpc' = kpc
    BY <1>4 DEF ParseContext
  <2>2. T \in [1..MaxHarts -> Int]
    <3>1. ctx \in Nat /\ kip.target \in [1..MaxHarts -> Int]
      BY DEF Entered
    <3>2. ctx \in Int
      BY <3>1
    <3>3. \A h \in 1..MaxHarts : kip.target[h] \in Int
      BY <3>1, Zenon
    <3> QED BY <3>2, <3>3, Zenon
  <2>3. \A h \in DOMAIN kip.harts :
          T[h] = IF Serves(ctx + 1, h) THEN ctx ELSE kip.target[h]
    BY <1>1, <1>4, HartOfServes DEF HartList
  <2> HIDE DEF T
  <2>4. kip'.harts = kip.harts /\ kip'.target = T /\ HartList'
    BY <2>1 DEF HartList
  <2>5. BeforeContexts'
    BY <1>1, <2>1 DEF BeforeContexts
  <2>6. \A c \in 1..ctx' : c \in 1..ctx \/ c = ctx + 1
    BY <2>1 DEF Entered
  <2>7. \A c \in 1..ctx' : Resolves(c)'
    BY <1>2, <1>4, <2>6 DEF Entered
  <2>8. ASSUME NEW h \in DOMAIN kip.harts
        PROVE  /\ T[h] # NoCtx => T[h] + 1 \in 1..ctx' /\ Serves(T[h] + 1, h)
               /\ \A c \in 1..ctx' : Serves(c, h) => T[h] >= c - 1
    <3>1. ctx \in Nat /\ h \in 1..MaxHarts /\ kip.target[h] \in Int /\ ctx' = ctx + 1
      BY <2>1, <2>8 DEF Entered, HartList
    <3>2. CASE Serves(ctx + 1, h)
      BY <2>3, <2>8, <3>1, <3>2
    <3>3. CASE ~Serves(ctx + 1, h)
      <4>1. T[h] = kip.target[h]
        BY <2>3, <2>8, <3>3
      <4>2. /\ kip.target[h] # NoCtx => kip.target[h] + 1 \in 1..ctx /\ Serves(kip.target[h] + 1, h)
            /\ \A c \in 1..ctx : Serves(c, h) => kip.target[h] >= c - 1
        BY <2>8 DEF Entered
      <4> QED BY <2>6, <3>1, <3>3, <4>1, <4>2
    <3> QED BY <3>2, <3>3
  <2>9. Entered'
    <3>1. ctx' \in Nat /\ kip'.target \in [1..MaxHarts -> Int]
      BY <2>1, <2>2, <2>4 DEF Entered
    <3>2. \A c, h : Serves(c, h)' = Serves(c, h)
      BY <1>2, <2>4
    <3>3. (\A h \in DOMAIN kip.harts :
            /\ kip.target[h] # NoCtx => kip.target[h] + 1 \in 1..ctx /\ Serves(kip.target[h] + 1, h)
            /\ \A c \in 1..ctx : Serves(c, h) => kip.target[h] >= c - 1)'
      BY <2>4, <2>8, <3>2
    <3> QED BY <2>7, <3>1, <3>3 DEF Entered
  <2> QED BY <2>4, <2>5, <2>9
<1> QED BY <1>3, <1>4

\* All other steps leave the contexts alone.
LEMMA ContextsKept ==
  ASSUME TargetsInv, UNCHANGED <<dt, kvars>>
  PROVE  TargetsInv'
<1>1. /\ \A c : Resolves(c)' = Resolves(c)
      /\ \A c, h : Serves(c, h)' = Serves(c, h)
  BY TreeStays DEF Serves, kvars
<1>2. Entered'
  BY <1>1 DEF kvars, TargetsInv, Entered
<1> QED BY <1>2 DEF kvars, TargetsInv, HartList, BeforeContexts

\* With no context looked at there is nothing to show but the list.
LEMMA NoContextYet ==
  ASSUME HartList', (ctx = 0)', (kip.target = [h \in 1..MaxHarts |-> NoCtx])'
  PROVE  Entered'
<1>1. NoCtx \in Int
  BY DEF NoCtx
<1>2. kip'.target \in [1..MaxHarts -> Int] /\ \A h \in 1..MaxHarts : kip'.target[h] = NoCtx
  BY <1>1
<1>3. \A h \in DOMAIN kip'.harts : h \in 1..MaxHarts
  BY DEF HartList
<1>4. ctx' \in Nat /\ 1..ctx' = {}
  OBVIOUS
<1> QED BY <1>2, <1>3, <1>4 DEF Entered

\* setup_kernel_config()
LEMMA ConfigKeeps ==
  ASSUME HartsDistinct, ParentInv, TargetsInv, KStep
  PROVE  TargetsInv'
<1>1. CASE ParseIsaExt
  <2>1. kpc = "isa" /\ kpc' = "harts" /\ ctx' = ctx /\ \E x : kip' = [kip EXCEPT !.isa = x]
    BY <1>1, Zenon DEF ParseIsaExt
  <2>2. kip'.target = kip.target /\ kip'.harts = kip.harts /\ DOMAIN kip' = DOMAIN kip
    BY <2>1 DEF TargetsInv, HartList
  <2>3. ctx' = 0 /\ kip'.target = [h \in 1..MaxHarts |-> NoCtx]
    BY <2>1, <2>2 DEF TargetsInv, BeforeContexts
  <2>4. HartList'
    BY <2>2 DEF TargetsInv, HartList
  <2>5. Entered'
    BY <2>3, <2>4, NoContextYet
  <2> QED BY <2>1, <2>3, <2>4, <2>5 DEF TargetsInv, BeforeContexts
<1>2. CASE ParseHarts
  <2> DEFINE ids == SelectSeq(Cpus, HasHartid)
             n == HartNum(Len(ids))
             harts == [i \in 1..n |-> Hartid(ids[i])]
  <2>1. /\ kpc = "harts" /\ kpc' = "plic" /\ ctx' = ctx
        /\ \E x : kip' = [kip EXCEPT !.harts = harts, !.timebase = x]
    BY <1>2, Zenon DEF ParseHarts
  <2>2. n \in Nat /\ n <= MaxHarts /\ n <= Len(ids)
    BY ConfigAssumption DEF HartNum
  <2>3. \A i, j \in 1..n : harts[i] = harts[j] => i = j
    BY <2>2 DEF HartsDistinct
  <2>4. DOMAIN harts = 1..n
    OBVIOUS
  <2> HIDE DEF n, harts
  <2>5. kip'.target = kip.target /\ kip'.harts = harts /\ DOMAIN kip' = DOMAIN kip
    BY <2>1 DEF TargetsInv, HartList
  <2>6. HartList'
    <3>1. 1..n \subseteq 1..MaxHarts
      BY <2>2, ConfigAssumption
    <3> QED BY <2>3, <2>4, <2>5, <3>1 DEF TargetsInv, HartList
  <2>7. ctx' = 0 /\ kip'.target = [h \in 1..MaxHarts |-> NoCtx]
    BY <2>1, <2>5 DEF TargetsInv, BeforeContexts
  <2>8. Entered'
    BY <2>6, <2>7, NoContextYet
  <2> QED BY <2>1, <2>6, <2>7, <2>8 DEF TargetsInv, BeforeContexts
<1>3. CASE ParsePlic
  <2>1. /\ kpc = "plic" /\ kpc' \in {"contexts", "done"} /\ ctx' = ctx
        /\ kip' = kip \/ \E x : kip' = [kip EXCEPT !.plic = x]
    BY <1>3 DEF ParsePlic, PlicFound
  <2>2. kip'.target = kip.target /\ kip'.harts = kip.harts /\ DOMAIN kip' = DOMAIN kip
    BY <2>1 DEF TargetsInv, HartList
  <2>3. ctx' = 0 /\ kip'.target = [h \in 1..MaxHarts |-> NoCtx]
    BY <2>1, <2>2 DEF TargetsInv, BeforeContexts
  <2>4. HartList'
    BY <2>2 DEF TargetsInv, HartList
  <2>5. Entered'
    BY <2>3, <2>4, NoContextYet
  <2> QED BY <2>1, <2>3, <2>4, <2>5 DEF TargetsInv, BeforeContexts
<1> QED BY <1>1, <1>2, <1>3, ContextKeeps DEF KStep

\* No step but those of setup_kernel_config() touches the configuration.
LEMMA ConfigAlone ==
  ASSUME [Next]_vars
  PROVE  Configure \/ UNCHANGED <<dt, kvars>>
<1> USE DEF dvars
<1>1. CASE Tree
  <2>1. UNCHANGED kvars
    BY <1>1 DEF Tree
  <2>2. ASSUME NEW n, NEW found, AddMemory(n, found, opt.maxmem) PROVE dt' = dt
    BY <2>2, Zenon DEF AddMemory, DPanic
  <2>3. CASE MemoryNode(opt.maxmem)
    <3>1. NextNode(MemoryNodes) = 0 => dt' = dt
      BY <2>3 DEF MemoryNode
    <3>2. NextNode(MemoryNodes) # 0 => dt' = dt
      BY <2>2, <2>3 DEF MemoryNode
    <3> QED BY <2>1, <3>1, <3>2
  <2>4. CASE DtInit \/ ScanNode
    BY <2>1, <2>4 DEF DtInit, ScanNode, DPanic
  <2>5. CASE SetupKuart("ns16550a")
    BY <2>1, <2>5 DEF SetupKuart
  <2>6. CASE ReservedNode \/ MemReserve
    BY <2>1, <2>6 DEF ReservedNode, MemReserve, Reserve, DPanic
  <2> QED BY <1>1, <2>3, <2>4, <2>5, <2>6 DEF Tree
<1>2. CASE Arguments
  <2> USE DEF Answered, Refused, DPanic
  <2> QED
    BY <1>2 DEF Arguments, CheckArg, NoserialArg, WaitArg, MaxmemArg, MemArg, MemEnd, InitRegions,
       SysallocArg, SysallocEnd, ModaddrArg, PresetArg
<1>3. CASE PlaceTree
  BY <1>3 DEF PlaceTree, AfterSetupMemoryMap, DPanic
<1>4. CASE Firmware
  <2>1. CASE FwError
    BY <1>4, <2>1 DEF Firmware, FwError, DPanic
  <2>2. CASE FwStep
    BY <1>4, <2>2 DEF Firmware, FwStep, SetupFwCfg, FwSignature, FwVersion, FwCount, FwSkip, FwRamfb,
       FwRes, FwString, AllocFb, FwConfigured, DPanic
  <2> QED BY <1>4, <2>1, <2>2 DEF Firmware
<1>5. CASE FirmwareEnd \/ SetupOptions \/ BootKernel
  BY <1>5 DEF FirmwareEnd, SetupOptions, BootKernel
<1>6. ASSUME NEW h \in Harts, Hart(h) \/ EnterKernel(h) PROVE UNCHANGED <<dt, kvars>>
  BY <1>6 DEF Hart, Lottery, Main, WaitForBootstrap, EnterKernel
<1>7. CASE Device \/ UNCHANGED vars
  BY <1>7 DEF Device, DmaDone, DmaFails, vars
<1> QED BY <1>1, <1>2, <1>3, <1>4, <1>5, <1>6, <1>7 DEF Next, BootLoader, Halted

\* TargetsRight holds for every tree with distinct hart ids, any number of harts and
\* any array of contexts: each hart of the kernel's list gets a context whose
\* interrupt controller sits below this hart, found through the cache of parents,
\* and none is left out if all contexts could be resolved.
THEOREM TargetsAlwaysRight == []HartsDistinct /\ Spec => []TargetsRight
<1>1. Init => TargetsInv
  <2> SUFFICES ASSUME Init PROVE TargetsInv
    OBVIOUS
  <2>1. /\ kip = [isa |-> {}, harts |-> <<>>, timebase |-> 0, plic |-> 0,
                  target |-> [h \in 1..MaxHarts |-> NoCtx]]
        /\ ctx = 0 /\ kpc = "isa"
    BY DEF Init, KInit
  <2>2. kip.harts = <<>> /\ kip.target = [h \in 1..MaxHarts |-> NoCtx]
        /\ DOMAIN kip = {"isa", "harts", "timebase", "plic", "target"}
    BY <2>1
  <2>3. HartList
    BY <2>2 DEF HartList
  <2>4. Entered
    <3>1. NoCtx \in Int
      BY DEF NoCtx
    <3>2. kip.target \in [1..MaxHarts -> Int] /\ DOMAIN kip.harts = {} /\ 1..ctx = {}
      BY <2>1, <2>2, <3>1
    <3> QED BY <2>1, <3>2 DEF Entered
  <2> QED BY <2>1, <2>2, <2>3, <2>4 DEF TargetsInv, BeforeContexts
<1>2. HartsDistinct /\ ParentInv /\ TargetsInv /\ [Next]_vars => TargetsInv'
  BY ConfigAlone, ConfigKeeps, ContextsKept DEF Configure
<1>3. TargetsInv => TargetsRight
  <2> SUFFICES ASSUME TargetsInv, NEW h \in DOMAIN kip.harts
               PROVE  /\ kip.target[h] # NoCtx =>
                           Resolves(kip.target[h] + 1) /\ Serves(kip.target[h] + 1, h)
                      /\ ctx = Contexts => \A c \in 1..Contexts : Serves(c, h) => kip.target[h] >= c - 1
    BY Zenon DEF TargetsRight, Serves, Owner, Controller
  <2> QED BY DEF TargetsInv, Entered
<1> QED BY <1>1, <1>2, <1>3, ParentInvAlways, PTL DEF Spec

=============================================================================
