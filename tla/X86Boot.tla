------------------------------ MODULE X86Boot ------------------------------
(***************************************************************************)
(* From the boot loader's information to the lists `ram' and `regions' on  *)
(* x86: a multiboot 2 loader's tags are converted first (Multiboot2), and  *)
(* setup_memory_map() (FirmwareMap) then reads the memory map from the     *)
(* converted buffer.  EFI and multiboot 1 boots have no such first step.   *)
(* The modules of a multiboot 1 loader are taken over last (MbiCopy).      *)
(***************************************************************************)
EXTENDS Multiboot2, MbiCopy

CONSTANT E820    \* the entries of the memory map in the tag

vars == <<mvars, fvars, bvars>>

Init ==
  /\ MInit
  /\ FInit
  /\ BInit

\* A multiboot 2 boot: the map is what the converted information refers to.
Version2 == boot.origin = "multiboot" /\ boot.version = 2

ConvertedMap == [x \in 1..mbi.mmapLen |-> E820[buf[mbi.mmap + x - 1][2] - 101]]

Convert ==
  /\ Version2 /\ mpc = "tags"
  /\ MStep
  /\ UNCHANGED <<boot, idx, ram, regions, firm, key, mapKey, stale, services, console,
                 late, kernel, video, vbe, fpc, bvars>>
  /\ map' = IF mpc' = "done" THEN ConvertedMap' ELSE map

Run ==
  /\ Version2 => mpc = "done"
  /\ (FStep /\ UNCHANGED bvars) \/ BStep
  /\ UNCHANGED mvars

Done ==
  /\ mpc \in {"assert", "corrupt"} \/ fpc \in Halted
  /\ UNCHANGED vars

Next == Convert \/ Run \/ Done
Spec == Init /\ [][Next]_vars

-----------------------------------------------------------------------------
(* Properties *)

\* Type invariant of the x86 boot.
TypeOK ==
  /\ ram \in Seq(Region) /\ regions \in Seq(Region)
  /\ size \in 0..Len(buf) /\ FbLast => tag \in 1..Len(buf)
  /\ idx \in Nat \ {0} /\ kernel \in Addr

\* The map setup_memory_map() reads is the one the multiboot 2 loader passed,
\* entry by entry, although it has been moved and converted in place.
MapDelivered ==
  Version2 /\ mpc = "done" /\ FbLast /\ TagsOf("memmap") # <<>> => map = E820

\* _multiboot2_to_multiboot() works in place without loss, unless tags it
\* rotates follow an RGB framebuffer tag: tags that wait are untouched, those
\* converted are complete and apart, the memory map reaches
\* setup_memory_map(), and an assertion fails only for lack of room.
ConversionRight == TypeOK /\ TagsWaiting /\ FailsOnlyWithoutRoom /\ Converted /\ MapDelivered

\* setup_memory_map() of BIOS and EFI machines: memory taken for free is usable,
\* and no usable memory is lost.
RamRight == FreeIsUsable /\ RamComplete

\* exit_boot_services() leaves with a key that only the firmware can make stale,
\* and nothing of the boot loader calls back afterwards.
CleanExit == NoLateCall /\ ExitFailsOnlyByFirmware

=============================================================================
