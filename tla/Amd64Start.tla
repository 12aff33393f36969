----------------------------- MODULE Amd64Start -----------------------------
(***************************************************************************)
(* The start of an amd64 machine: the 32-bit stub (Boot32) reserves, maps  *)
(* and loads, and the 64-bit part goes on with the PCI bus (PciBus) on the *)
(* page tables the stub has left (PageTables).                             *)
(***************************************************************************)
EXTENDS Boot32, PciBus

vars == <<tvars, svars, pvars>>

Init == TInit /\ SInit /\ PInit

\* The stub apart from its page tables
Stub == SStep /\ UNCHANGED <<tvars, pvars>>

\* base_paging_init(), which has to map something, and the end of
\* ptab_map_range()
StubMaps ==
  /\ spc = "paging" /\ tabs = <<>> /\ upper > 0
  /\ BasePagingInit(upper \div PageSize)
  /\ UNCHANGED <<svars, pvars>>

\* ptab_map_range() refuses an empty range
StubAsserts ==
  /\ spc = "paging" /\ tabs = <<>> /\ upper = 0
  /\ SPanic
  /\ UNCHANGED <<tvars, pvars>>

StubMapped ==
  /\ spc = "paging" /\ tabs # <<>> /\ walk.level = Done
  /\ spc' = "load"
  /\ UNCHANGED <<tvars, machine, res, todo, upper, range, used, written, pvars>>

\* The jump to the 64-bit part
EnterLong ==
  /\ spc = "loaded" /\ ~long
  /\ long' = TRUE
  /\ UNCHANGED <<tabs, gig, walk, asked, full, svars, pvars>>

Map == MapStep /\ UNCHANGED <<svars, pvars>>

Bus == long /\ PciStep /\ UNCHANGED <<tvars, svars>>
BusQuirk == long /\ Quirk /\ UNCHANGED svars
Bios == long /\ BiosReleases /\ UNCHANGED <<tvars, svars>>

Halted ==
  /\ spc = "panic" \/ full \/ phase \in {"boot", "scanned", "crashed"}
  /\ UNCHANGED vars

BootLoader == Stub \/ StubMaps \/ StubAsserts \/ StubMapped \/ EnterLong \/ Map \/ Bus \/ BusQuirk
Next == BootLoader \/ Bios \/ Halted

\* The boot loader runs on; nothing is assumed of the BIOS.
Spec == Init /\ [][Next]_vars /\ WF_vars(BootLoader)

-----------------------------------------------------------------------------
(* Properties *)

\* Type invariant of the start of an amd64 machine.
TypeOK ==
  /\ res \in Seq(Area) /\ Len(res) <= MaxReservations
  /\ range \in 0..(Len(machine.map) + 1)
  /\ used \in Nat
  /\ walk.level \in 0..Done
  /\ it \in Pos \/ Ended(it)
  /\ DOMAIN fns \subseteq Pos /\ to \in 0..MaxWait

\* The stub and the 64-bit part come to an end: every walk through the page
\* tables, every search for memory, and the handoff with a BIOS that does not
\* react.
StartEnds == <>(spc = "panic" \/ full \/ phase \in {"boot", "scanned", "crashed"})

\* ptab_map_range() in both parts of the boot loader: all that was asked for is
\* mapped, with the tables the pool has.
TablesRight == IdentityMapped /\ TablesInPool

\* load_elf() and mm_alloc_alloc() of the stub: the 64-bit part is written over
\* nothing the stub has reserved, and moved into RAM only.
StubRight == TypeOK /\ StubSparesAll /\ LoadedInRam

\* setup_uart(): the port in use is the one offered under its number, and lies
\* in an enabled BAR of the card.
PortsRight == PortsAgree /\ OwnPort

=============================================================================
