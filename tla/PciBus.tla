------------------------------- MODULE PciBus -------------------------------
(***************************************************************************)
(* The PCI bus of an x86 machine as the boot loader uses it: the search    *)
(* for a serial port (setup_uart() of x86_pc-base.h), the end of bus       *)
(* mastering (disable_pci_bus_master()) and the handoff of xHCI            *)
(* controllers from the BIOS (pci_quirks() of x86_pc.cc).                  *)
(*                                                                         *)
(* The BIOS is an actor of its own: it serves a controller from system     *)
(* management mode and gives it back at any time after it was asked to, or *)
(* never.                                                                  *)
(***************************************************************************)
EXTENDS PciSerial, PageTables

CONSTANTS
  Buses, Devs, Funcs,   \* Max_bus, and 32 and 8
  MaxWait,              \* the rounds do_handoff_cap() waits for the BIOS, 300
  Setups                \* the inputs: functions, command line, value of the stack

Pos == [bus : 0..(Buses - 1), dev : 0..(Devs - 1), func : 0..(Funcs - 1)]
Cap == [legacy : BOOLEAN, inside : BOOLEAN]

ASSUME PciAssumption ==
  /\ Buses \in Nat \ {0} /\ Devs \in Nat \ {0} /\ Funcs \in Nat \ {0, 1}
  /\ MaxWait \in Nat \ {0} /\ NumBars \in Nat \ {0}
  /\ \A s \in Setups :
       /\ DOMAIN s.fns \subseteq Pos
       /\ s.stack \in Drivers
       /\ s.arg \in {"none", "noserial", "com", "pci", "probe"}
       /\ s.card \in Nat /\ s.port \in Nat
       /\ s.osAsked \in BOOLEAN      \* the OS semaphores are set already
       /\ \A p \in DOMAIN s.fns :
            /\ s.fns[p].class \in {"serial", "xhci", "other"}
            /\ s.fns[p].driver \in Drivers /\ s.fns[p].subclass \in Nat
            /\ s.fns[p].multi \in BOOLEAN /\ s.fns[p].ports \in Nat
            /\ s.fns[p].bars \in [0..(NumBars - 1) -> Bar]
            /\ s.fns[p].caps \in Seq(Cap)
            /\ s.fns[p].mem \in BOOLEAN
            \* Functions beside the first one are those of a multi-function device.
            /\ LET first == [p EXCEPT !.func = 0]
               IN p.func # 0 /\ first \in DOMAIN s.fns => s.fns[first].multi

VARIABLES
  setup,      \* the input
  fns,        \* the PCI functions
  it,         \* the Pci_iterator
  moving,     \* operator ++ looks for the next function
  phase,      \* the loop that runs
  board, card,
  found,      \* the function looked at last is a card
  printed,    \* the ports scan_pci_uarts() offered: card, port and base
  uart,       \* kuart
  sem,        \* the semaphores of USB legacy support, and whether SMIs are on
  seen,       \* val of do_handoff_cap()
  to,         \* the rounds it still waits
  forced      \* history: controllers taken without the BIOS

pvars == <<setup, fns, it, moving, phase, board, card, found, printed, uart, sem, seen, to, forced>>

Origin == [bus |-> 0, dev |-> 0, func |-> 0]
Ended(p) == p.bus = Buses
Present(p) == ~Ended(p) /\ p \in DOMAIN fns

PInit ==
  /\ setup \in Setups
  /\ fns = [p \in DOMAIN setup.fns |->
              [master |-> TRUE, io |-> FALSE, mem |-> setup.fns[p].mem]]
  /\ it = Origin /\ moving = FALSE
  /\ phase = "uart"
  /\ board = NewBoard /\ card = 0 /\ found = FALSE /\ printed = {}
  /\ uart = [state |-> "none", base |-> 0]
  /\ sem = [p \in { q \in DOMAIN setup.fns : setup.fns[q].class = "xhci" } |->
              [bios |-> TRUE, os |-> setup.osAsked, smi |-> TRUE]]
  /\ seen = [bios |-> FALSE, os |-> FALSE]
  /\ to = 0
  /\ forced = {}

Fn(p) == setup.fns[p]

-----------------------------------------------------------------------------
(* Pci_iterator *)

\* The header type of a function that is not there reads as 0xff.
MultiFunction(p) == ~Present(p) \/ Fn(p).multi

\* Mutant: the functions of a multi-function device end with a gap.
Step_StopAtGap(p) ==
  LET q == IF MultiFunction(p) /\ Present(p) /\ p.func < Funcs - 1
           THEN [p EXCEPT !.func = @ + 1] ELSE [p EXCEPT !.func = 0, !.dev = @ + 1]
  IN IF q.dev >= Devs THEN [bus |-> q.bus + 1, dev |-> 0, func |-> 0] ELSE q

\* One round of operator ++
Step(p) ==
  LET q == CASE p.func = 0 /\ MultiFunction(p) -> [p EXCEPT !.func = 1]
             [] p.func = 0 /\ ~MultiFunction(p) -> [p EXCEPT !.dev = @ + 1]
             [] p.func # 0 /\ p.func < Funcs - 1 -> [p EXCEPT !.func = @ + 1]
             [] OTHER -> [p EXCEPT !.func = 0, !.dev = @ + 1]
  IN IF q.dev >= Devs THEN [bus |-> q.bus + 1, dev |-> 0, func |-> 0] ELSE q

Advance ==
  /\ moving
  /\ it' = Step(it)
  /\ moving' = ~(Ended(it') \/ Present(it'))
  /\ UNCHANGED <<setup, fns, phase, board, card, found, printed, uart, sem, seen, to, forced>>

Visiting(ph) == phase = ph /\ ~moving

\* A new loop begins with a new iterator.
Enter(ph) == phase' = ph /\ it' = Origin /\ moving' = FALSE

-----------------------------------------------------------------------------
(* setup_uart() *)

SetupUart ==
  /\ Visiting("uart")
  /\ CASE setup.arg = "noserial" -> Enter("masters") /\ UNCHANGED board
       [] setup.arg = "none" -> phase' = "init" /\ board' = Legacy(board, 1) /\ UNCHANGED <<it, moving>>
       [] setup.arg = "com" -> phase' = "init" /\ board' = Legacy(board, setup.port) /\ UNCHANGED <<it, moving>>
       [] setup.arg = "pci" -> Enter("search") /\ UNCHANGED board
       [] setup.arg = "probe" -> Enter("probe") /\ UNCHANGED board
  /\ UNCHANGED <<setup, fns, card, found, printed, uart, sem, seen, to, forced>>

\* The vendor and device of the first function are read by operator ++ alone,
\* and a new iterator has an arbitrary value for them.
DriverAt(p) == IF p = Origin THEN setup.stack ELSE Fn(p).driver

Absent == [class |-> "other", driver |-> "none", subclass |-> 255, multi |-> TRUE, ports |-> 0,
           bars |-> [i \in 0..(NumBars - 1) |-> NoBar], caps |-> <<>>, mem |-> FALSE]

TryOn(b, p) == TryDrivers(DriverAt(p), b, IF Present(p) THEN Fn(p) ELSE Absent)
Try(p) == TryOn(board, p)

Enabled(p, what) ==
  IF Present(p) THEN [fns EXCEPT ![p].io = @ \/ what = "io", ![p].mem = @ \/ what = "mem"]
  ELSE fns

\* search_pci_serial_devs(): the functions up to the card that is asked for
Search ==
  /\ Visiting("search") /\ ~Ended(it)
  /\ LET s == Try(it) IN
     IF ~s.ok
     THEN board' = s.board /\ moving' = TRUE /\ UNCHANGED <<fns, phase, it, card>>
     ELSE /\ fns' = Enabled(it, s.enable)
          /\ board' = s.board
          /\ card' = card + 1
          /\ phase' = IF card = setup.card THEN "init" ELSE phase
          /\ moving' = (card # setup.card)
          /\ UNCHANGED it
  /\ found' = Try(it).ok
  /\ UNCHANGED <<setup, printed, uart, sem, seen, to, forced>>

\* The end of the bus: a last search that has found nothing is counted like one
\* that has.  There is none if the last function is a card itself.
SearchEnds ==
  /\ Visiting("search") /\ Ended(it)
  /\ phase' = "init"
  /\ board' = IF card = setup.card /\ ~found THEN board ELSE Legacy(board, 1)
  /\ UNCHANGED <<setup, fns, it, moving, card, found, printed, uart, sem, seen, to, forced>>

\* The registers of a port of a board without BAR are not set, and the first
\* access goes to address 0.
Faults(b) == BarOf(b).type = "none"

\* scan_pci_uarts() prints what to pass for each port, on that port as well,
\* and does not return.
ScanFaults == Try(it).ok /\ Try(it).board.ports > 0 /\ Faults(Try(it).board)

Scan ==
  /\ Visiting("probe") /\ ~Ended(it) /\ ~ScanFaults
  /\ LET s == Try(it) IN
     IF ~s.ok THEN board' = s.board /\ UNCHANGED <<fns, card, printed>>
     ELSE /\ fns' = Enabled(it, s.enable)
          /\ board' = s.board
          /\ card' = card + 1
          /\ printed' = printed \cup { [card |-> card, port |-> p, base |-> GetBase(s.board, p)] :
                                       p \in 0..(s.board.ports - 1) }
  /\ moving' = TRUE
  /\ UNCHANGED <<setup, it, phase, found, uart, sem, seen, to, forced>>

ScanCrashes ==
  /\ Visiting("probe") /\ ~Ended(it) /\ ScanFaults
  /\ phase' = "crashed"
  /\ fns' = Enabled(it, Try(it).enable)
  /\ board' = Try(it).board
  /\ UNCHANGED <<setup, it, moving, card, found, printed, uart, sem, seen, to, forced>>

ScanEnds ==
  /\ Visiting("probe") /\ Ended(it)
  /\ phase' = "scanned"
  /\ UNCHANGED <<setup, fns, it, moving, board, card, found, printed, uart, sem, seen, to, forced>>

\* init_uart(); the port may not answer.  A legacy board has one port only,
\* whatever number is asked for.
InitUart ==
  /\ Visiting("init")
  /\ IF Faults(board) THEN phase' = "crashed" /\ UNCHANGED <<uart, it, moving>>
     ELSE /\ \E ok \in BOOLEAN :
               uart' = IF ok THEN [state |-> "up", base |-> GetBase(board, setup.port)]
                       ELSE [uart EXCEPT !.state = "noserial"]
          /\ Enter("masters")
  /\ UNCHANGED <<setup, fns, board, card, found, printed, sem, seen, to, forced>>

-----------------------------------------------------------------------------
(* disable_pci_bus_master() *)

\* Mutant: only the first function of a device.
MasterOff_First(p) == IF Present(p) /\ p.func = 0 THEN [fns EXCEPT ![p].master = FALSE] ELSE fns

MasterOff(p) == IF Present(p) THEN [fns EXCEPT ![p].master = FALSE] ELSE fns

\* Mutant: no exception for xHCI.
Skipped_Not(p) == FALSE

\* The BIOS may still use an xHCI controller.
Skipped(p) == Present(p) /\ Fn(p).class = "xhci"

Masters ==
  /\ Visiting("masters")
  /\ IF Ended(it) THEN Enter("quirks") /\ UNCHANGED fns
     ELSE /\ fns' = IF Skipped(it) THEN fns ELSE MasterOff(it)
          /\ moving' = TRUE
          /\ UNCHANGED <<it, phase>>
  /\ UNCHANGED <<setup, board, card, found, printed, uart, sem, seen, to, forced>>

-----------------------------------------------------------------------------
(* pci_quirks(), xhci_handoff() and do_handoff_cap() *)

\* xhci_probe_bar(): a memory BAR; its base and length are counted in pages.
BarValid(p) == Fn(p).bars[0].type = "mem"

Quirk ==
  /\ Visiting("quirks")
  /\ CASE Ended(it) -> phase' = "boot" /\ UNCHANGED <<moving, fns, tvars>>
       [] ~Ended(it) /\ ~Skipped(it) -> moving' = TRUE /\ UNCHANGED <<phase, fns, tvars>>
       [] Skipped(it) /\ (~fns[it].mem \/ ~BarValid(it)) ->
            fns' = MasterOff(it) /\ moving' = TRUE /\ UNCHANGED <<phase, tvars>>
       [] OTHER -> /\ MapRange(Fn(it).bars[0].base, Fn(it).bars[0].len)
                   /\ phase' = "caps"
                   /\ UNCHANGED <<moving, fns>>
  /\ UNCHANGED <<setup, it, board, card, found, printed, uart, sem, seen, to, forced>>

\* The walk over the capabilities stops at the first one for USB legacy
\* support, or outside of the BAR.
LegacyCap(p) ==
  \E i \in DOMAIN Fn(p).caps :
    /\ Fn(p).caps[i].legacy
    /\ \A j \in 1..i : Fn(p).caps[j].inside
    /\ \A j \in 1..(i - 1) : ~Fn(p).caps[j].legacy

HandoffBegins ==
  /\ phase = "caps" /\ walk.level = Done
  /\ IF LegacyCap(it) THEN phase' = "ask" /\ seen' = [bios |-> sem[it].bios, os |-> sem[it].os]
                      ELSE phase' = "release" /\ UNCHANGED seen
  /\ UNCHANGED <<setup, fns, it, moving, board, card, found, printed, uart, sem, to, forced>>

\* The register is written as it was read, with the OS semaphore set.
Ask ==
  /\ phase = "ask"
  /\ IF seen.bios
     THEN sem' = [sem EXCEPT ![it].bios = TRUE, ![it].os = TRUE] /\ phase' = "wait" /\ to' = MaxWait
     ELSE phase' = "smi" /\ UNCHANGED <<sem, to>>
  /\ UNCHANGED <<setup, fns, it, moving, board, card, found, printed, uart, seen, forced>>

\* Mutant: the BIOS is waited for without end.
Patience_Endless == to

Patience == to - 1

WaitBios ==
  /\ phase = "wait"
  /\ to' = Patience
  /\ phase' = IF to' > 0 THEN (IF sem[it].bios THEN "wait" ELSE "smi") ELSE "force"
  /\ UNCHANGED <<setup, fns, it, moving, board, card, found, printed, uart, sem, seen, forced>>

\* The value read at the beginning is written without the BIOS semaphore,
\* which takes back the OS semaphore unless it was set before.
Forced(s) == [s EXCEPT !.bios = FALSE, !.os = seen.os]

ForceOwnership ==
  /\ phase = "force"
  /\ sem' = [sem EXCEPT ![it] = Forced(@)]
  /\ forced' = forced \cup {it}
  /\ phase' = "smi"
  /\ UNCHANGED <<setup, fns, it, moving, board, card, found, printed, uart, seen, to>>

DisableSmi ==
  /\ phase = "smi"
  /\ sem' = [sem EXCEPT ![it].smi = FALSE]
  /\ phase' = "release"
  /\ UNCHANGED <<setup, fns, it, moving, board, card, found, printed, uart, seen, to, forced>>

Release ==
  /\ phase = "release"
  /\ fns' = MasterOff(it)
  /\ phase' = "quirks" /\ moving' = TRUE
  /\ UNCHANGED <<setup, it, board, card, found, printed, uart, sem, seen, to, forced>>

\* The BIOS gives a controller back.
BiosReleases ==
  /\ \E p \in DOMAIN sem :
       /\ sem[p].bios /\ sem[p].os
       /\ sem' = [sem EXCEPT ![p].bios = FALSE]
  /\ UNCHANGED <<setup, fns, it, moving, phase, board, card, found, printed, uart, seen, to, forced>>

\* The steps that leave the page tables alone, and the one that does not
PciStep ==
  \/ Advance \/ SetupUart \/ Search \/ SearchEnds \/ Scan \/ ScanCrashes \/ ScanEnds \/ InitUart
  \/ Masters \/ HandoffBegins \/ Ask \/ WaitBios \/ ForceOwnership \/ DisableSmi \/ Release

-----------------------------------------------------------------------------
(* Properties *)

\* The memory BARs that are mapped for the handoff, counted in pages: as they
\* are aligned to their size, they do not leave an entry of a level they are
\* not aligned to.
BarsAligned ==
  \A s \in Setups : \A p \in DOMAIN s.fns :
    LET b == s.fns[p].bars[0] IN
    s.fns[p].class = "xhci" /\ b.type = "mem" =>
      /\ b.len > 0 /\ b.base + b.len <= PtabSize[Done]
      /\ \A l \in 0..Root : Aligned(l, b.base) \/ (b.base % PtabSize[l]) + b.len <= PtabSize[l]

\* The cards are those their drivers are written for: what a driver, or the one
\* for any device, takes for the ports of a card lies in one BAR of the kind
\* that it enables, as read_bars() has decoded it.  (A memory BAR of 64 bits is
\* decoded as one of four bytes.)
CardsFit ==
  \A s \in Setups : \A p \in DOMAIN s.fns : \A driver \in {s.fns[p].driver, "none"} :
    LET t == TryDrivers(driver, NewBoard, s.fns[p])
        b == BarOf(t.board)
    IN t.ok =>
         /\ b.type = t.enable
         /\ \A port \in 0..t.board.ports : GetBase(t.board, port) \in b.base..(b.base + b.len - 1)

\* A controller the legacy support protocol applies to
HandedOff(p) == setup.fns[p].class = "xhci" /\ setup.fns[p].mem /\ BarValid(p) /\ LegacyCap(p)

\* The kernel starts with a silent bus: no function masters it, the BIOS owns
\* no controller any more and gets no interrupts for one.
BusQuiet ==
  phase = "boot" =>
    /\ \A p \in DOMAIN fns : ~fns[p].master
    /\ \A p \in DOMAIN sem : HandedOff(p) => ~sem[p].bios /\ ~sem[p].smi

\* DMA of a controller is never cut off while the BIOS owns the controller.
DmaUntilHandoff ==
  \A p \in DOMAIN sem : HandedOff(p) /\ ~fns[p].master => ~sem[p].bios

\* The cards of the machine: the functions in the order of the bus, and the
\* boards of those a driver accepts.
PosOf(n) == [bus |-> n \div (Devs * Funcs), dev |-> (n \div Funcs) % Devs, func |-> n % Funcs]

CardsAfter(c, p) ==
  LET t == TryOn(c.board, p) IN
  IF ~Present(p) /\ p # Origin THEN c
  ELSE [board |-> t.board, cards |-> IF t.ok THEN Append(c.cards, t.board) ELSE c.cards]

Cards ==
  LET f[n \in 0..(Buses * Devs * Funcs)] ==
        IF n = 0 THEN [board |-> NewBoard, cards |-> <<>>] ELSE CardsAfter(f[n - 1], PosOf(n - 1))
  IN f[Buses * Devs * Funcs].cards

\* -comport=pci:probe offers every port of every card in the machine, and
\* -comport=pci:c:p selects the port that was offered for c and p: the two
\* loops number the cards alike, and no function is skipped or seen twice.
PortsAgree ==
  /\ phase = "scanned" =>
       printed = UNION { { [card |-> c - 1, port |-> p, base |-> GetBase(Cards[c], p)] :
                           p \in 0..(Cards[c].ports - 1) } : c \in DOMAIN Cards }
  /\ uart.state = "up" /\ setup.arg = "pci" /\ setup.card < Len(Cards) =>
       uart.base = GetBase(Cards[setup.card + 1], setup.port)

\* The functions a driver looks at
Candidates == { p \in DOMAIN fns : DriverAt(p) # "none" \/ Fn(p).class = "serial" }
Later(p, q) == \E n \in 0..(Buses * Devs * Funcs - 1) : \E m \in 0..(n - 1) : p = PosOf(n) /\ q = PosOf(m)

\* If the first candidate is the card that is asked for, the port lies in one
\* of its own BARs, and the BAR is enabled.  (A candidate that was rejected
\* before leaves its BARs in the board.)
OwnPort ==
  uart.state = "up" /\ setup.arg = "pci" /\ setup.card = 0 /\ setup.stack = "none" =>
    \A p \in Candidates :
      /\ \A q \in Candidates \ {p} : Later(q, p)
      /\ TryOn(NewBoard, p).ok
      => \E i \in DOMAIN Fn(p).bars :
           LET b == Fn(p).bars[i]
           IN /\ uart.base \in b.base..(b.base + b.len - 1)
              /\ \/ b.type = "io" /\ fns[p].io
                 \/ b.type = "mem" /\ fns[p].mem

=============================================================================
