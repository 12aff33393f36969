-------------------------------- MODULE FwCfg --------------------------------
(***************************************************************************)
(* QEMU's firmware configuration device (qemu_fw_cfg.cc) and the frame     *)
(* buffer that is set up through it (qemu_ramfb.cc).  Every access but the *)
(* selection of an item is a DMA transfer: the boot loader writes a        *)
(* descriptor, starts the device and polls the descriptor until the device *)
(* has cleared it or reports an error.  The device is an actor of its own. *)
(***************************************************************************)
EXTENDS DeviceTree

CONSTANTS
  SuperPage,   \* L4_SUPERPAGESIZE
  Stride,      \* Ramfb_stride
  Default,     \* Ramfb_default_width * Ramfb_default_height
  BufLen,      \* the length of fbe_res[]
  VbeSize      \* the size of the VBE information

VARIABLES
  dev,     \* the device: selected item, offset, frame buffer it shows
  desc,    \* the DMA descriptor: control, and the value to write
  buf,     \* the buffer the device writes to
  fw,      \* the boot loader: what it waits for, the file it looks for, results
  mbi      \* vbe information of the boot information

fvars == <<dev, desc, buf, fw, mbi>>

\* Fw_cfg_item_slectors; files follow.  Same leaves the selection as it is.
Same == 0
Signature == 1
Version == 2
Dir == 3

\* The directory has the selectors of files only, none of the fixed items'.
ASSUME FwAssumption ==
  \A m \in Machines :
    m.fw.dir \in Seq([name : STRING, sel : Nat \ (Same..Dir), size : Nat, valid : BOOLEAN])

Nothing == [addr |-> 0, size |-> 0]

FInit ==
  /\ dev = [sel |-> Same, off |-> 0, fb |-> Nothing]
  /\ desc = [control |-> "done", val |-> Nothing]
  /\ buf = [none |-> 0]
  /\ fw = [at |-> "idle", name |-> "none", left |-> 0, ramfb |-> 0, pixels |-> 0, fb |-> 0]
  /\ mbi = Nothing

-----------------------------------------------------------------------------
(* The device *)

FileOf(sel) == { i \in DOMAIN dt.fw.dir : dt.fw.dir[i].sel = sel }
IsFile(sel, name) == \E i \in FileOf(sel) : dt.fw.dir[i].name = name

\* The unit at the device's offset: directory and files as dt.fw gives them
Unit ==
  CASE dev.sel = Signature -> [signature |-> dt.fw.signature]
    [] dev.sel = Version   -> [version |-> dt.fw.version]
    [] dev.sel = Dir       -> IF dev.off = 0 THEN [count |-> Len(dt.fw.dir)] ELSE dt.fw.dir[dev.off]
    [] OTHER               -> IF IsFile(dev.sel, "fb_res") THEN dt.fw.res ELSE [none |-> 0]

\* A transfer ends: the data is there, or has been taken, and control is cleared.
DmaDone ==
  /\ desc.control \in {"read", "write"}
  /\ buf' = IF desc.control = "read" THEN Unit ELSE buf
  /\ dev' = [dev EXCEPT !.off = @ + 1, !.fb = IF desc.control = "write" /\ IsFile(dev.sel, "ramfb") THEN desc.val ELSE @]
  /\ desc' = [desc EXCEPT !.control = "done"]
  /\ UNCHANGED <<fw, mbi, dvars>>

DmaFails ==
  /\ desc.control \in {"read", "write"} /\ dt.fw.faulty
  /\ desc' = [desc EXCEPT !.control = "error"]
  /\ UNCHANGED <<dev, buf, fw, mbi, dvars>>

-----------------------------------------------------------------------------
(* Accesses of the boot loader *)

\* select() and read_bytes(): the next unit of the item, or of another one
Read(sel, next) ==
  /\ dev' = IF sel = Same THEN dev ELSE [dev EXCEPT !.sel = sel, !.off = 0]
  /\ desc' = [desc EXCEPT !.control = "read"]
  /\ fw' = next
  /\ UNCHANGED <<buf, mbi>>

Write(sel, val, next) ==
  /\ dev' = [dev EXCEPT !.sel = sel, !.off = 0]
  /\ desc' = [control |-> "write", val |-> val]
  /\ fw' = next
  /\ UNCHANGED <<buf, mbi>>

Goto(next) == fw' = next /\ UNCHANGED <<dev, desc, buf, mbi>>

\* Mutant: the descriptor is taken for done at once.
Transferred_NoPoll(at) == fw.at = at /\ desc.control # "error"

\* dma_transfer() has ended
Transferred(at) == fw.at = at /\ desc.control = "done"

FwError ==
  /\ fw.at # "idle" /\ desc.control = "error"
  /\ DPanic /\ UNCHANGED fvars

\* The tree has a node of the device, and its registers can be reached.
FwPresent ==
  LET n == ByCompatible("fw-cfg") IN n # 0 /\ GetReg(n) # {}

\* setup_fw_cfg() and init(): the signature, and the interface version
SetupFwCfg ==
  /\ dpc = "mbi" /\ fw.at = "idle"
  /\ IF FwPresent THEN Read(Signature, [fw EXCEPT !.at = "signature"])
                  ELSE Goto([fw EXCEPT !.at = "end"])
  /\ UNCHANGED dvars

FwSignature ==
  /\ Transferred("signature")
  /\ IF buf = [signature |-> "QEMU"] THEN Read(Version, [fw EXCEPT !.at = "version"])
                     ELSE Goto([fw EXCEPT !.at = "end"])
  /\ UNCHANGED dvars

FwVersion ==
  /\ Transferred("version")
  /\ IF buf = [version |-> "dma"]
     THEN Read(Dir, [fw EXCEPT !.at = "count", !.name = "ramfb"]) /\ UNCHANGED dvars
     ELSE DPanic /\ UNCHANGED fvars

-----------------------------------------------------------------------------
(* find_file() and its callers *)

NotFound == IF fw.name = "ramfb" THEN Goto([fw EXCEPT !.at = "end"])
            ELSE Goto([fw EXCEPT !.at = "alloc", !.pixels = Default])

More == fw.left > 0

FwCount ==
  /\ Transferred("count")
  /\ IF buf.count > 0 THEN Read(Same, [fw EXCEPT !.at = "entry", !.left = buf.count - 1]) ELSE NotFound
  /\ UNCHANGED dvars

\* Mutant: the directory is selected again for every entry.
FwSkip_Selects ==
  /\ Transferred("entry") /\ buf.name # fw.name
  /\ IF More THEN Read(Dir, [fw EXCEPT !.at = "count"]) ELSE NotFound
  /\ UNCHANGED dvars

\* An entry of another name, with more entries behind it or not
FwSkip ==
  /\ Transferred("entry") /\ buf.name # fw.name
  /\ IF More THEN Read(Same, [fw EXCEPT !.left = @ - 1]) ELSE NotFound
  /\ UNCHANGED dvars

\* setup_ramfb(): the file of the frame buffer
FwRamfb ==
  /\ Transferred("entry") /\ buf.name = fw.name /\ fw.name = "ramfb"
  /\ IF buf.valid THEN Read(Dir, [fw EXCEPT !.at = "count", !.name = "fb_res", !.ramfb = buf.sel])
                  ELSE Goto([fw EXCEPT !.at = "end"])
  /\ UNCHANGED dvars

\* detect_ramfb_size(): read_str() stores its terminator behind the buffer if
\* the file fills it; an empty file is taken for none.
FwRes ==
  /\ Transferred("entry") /\ buf.name = fw.name /\ fw.name = "fb_res"
  /\ IF buf.size = 0 THEN NotFound
     ELSE IF buf.size < BufLen THEN Read(buf.sel, [fw EXCEPT !.at = "string"])
     ELSE Goto([fw EXCEPT !.at = "smashed"])
  /\ UNCHANGED dvars

\* Without an `x' in it the default remains.
FwString ==
  /\ Transferred("string")
  /\ Goto([fw EXCEPT !.at = "alloc", !.pixels = IF buf.x THEN buf.width * buf.height ELSE Default])
  /\ UNCHANGED dvars

-----------------------------------------------------------------------------
(* The rest of setup_ramfb() *)

FbSize == RoundSize(Word(fw.pixels * Stride), SuperPage)

FbRegion(a) == StartSize(a, FbSize, "fb")

AllocFb ==
  /\ fw.at = "alloc"
  /\ LET a == IF FbSize = 0 THEN 0 ELSE HighestHole(ram, sysalloc, regions, FbSize, PageSize, SuperPage) IN
     IF a = 0 THEN DPanic /\ UNCHANGED fvars
     ELSE /\ regions' = Added(regions, FbRegion(a))
          /\ Write(fw.ramfb, [addr |-> a, size |-> fw.pixels * Stride], [fw EXCEPT !.at = "config", !.fb = a])
          /\ UNCHANGED <<dt, fdt, cache, stack, cur, dpc, ram, sysalloc, kuart>>

\* Without memory for the VBE information the frame buffer is not announced.
FwConfigured ==
  /\ Transferred("config")
  /\ LET v == LowestHole(ram, sysalloc, regions, VbeSize, PageSize, PageSize) IN
     IF v = 0 THEN UNCHANGED <<regions, mbi>>
     ELSE /\ regions' = Added(regions, StartSize(v, VbeSize, "vbe"))
          /\ mbi' = [addr |-> fw.fb, size |-> FbSize]
  /\ fw' = [fw EXCEPT !.at = "end"]
  /\ UNCHANGED <<dev, desc, buf, dt, fdt, cache, stack, cur, dpc, ram, sysalloc, kuart>>

FwStep ==
  \/ SetupFwCfg \/ FwSignature \/ FwVersion \/ FwCount \/ FwSkip \/ FwRamfb \/ FwRes
  \/ FwString \/ AllocFb \/ FwConfigured

-----------------------------------------------------------------------------
(* Properties *)

\* What the device shows lies in memory that is reserved for it, and no other
\* region has any of it: the configuration the device takes by DMA, the size
\* rounded for the region and the boot information agree.
FbReserved ==
  dev.fb.addr # 0 =>
    /\ \E i \in DOMAIN regions :
         regions[i].tag = "fb" /\ Encloses(regions[i], StartSize(dev.fb.addr, dev.fb.size, "fb"))
    /\ mbi.addr # 0 => mbi.addr = dev.fb.addr /\ mbi.size >= dev.fb.size

\* The machine has a device whose directory names a frame buffer: the first
\* entry of a name counts.
DirFiles(name) == { i \in DOMAIN dt.fw.dir : dt.fw.dir[i].name = name }
FbUsable ==
  /\ FwPresent /\ dt.fw.signature = "QEMU"
  /\ DirFiles("ramfb") # {} /\ dt.fw.dir[Min(DirFiles("ramfb"))].valid

\* The pixels the file system asks for: the resolution of its file, if any
FbPixels ==
  IF /\ DirFiles("fb_res") # {} /\ dt.fw.dir[Min(DirFiles("fb_res"))].size > 0
     /\ dt.fw.res.x
  THEN dt.fw.res.width * dt.fw.res.height ELSE Default

\* Once the device's directory names a frame buffer and all transfers have
\* succeeded, the boot loader configures it with the resolution the file
\* system gives; it never gets lost between two transfers, whenever the device
\* completes them.
FbFound ==
  fw.at = "end" =>
    /\ FbUsable <=> dev.fb.addr # 0
    /\ FbUsable => dev.fb.size = FbPixels * Stride

=============================================================================
