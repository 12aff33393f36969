------------------------------ MODULE PciProofs ------------------------------
(***************************************************************************)
(* Proofs about the start of an amd64 machine.  The PCI bus: the loops     *)
(* over it reach every function, DMA of a controller ends after its        *)
(* handoff, and the kernel starts with a silent bus.  The 32-bit stub: the *)
(* reservations cover all that is needed, and the 64-bit part is loaded to *)
(* RAM that is not reserved.  The page tables: the walk maps all that is   *)
(* asked for, and the stub's pool suffices.  The serial ports: the number  *)
(* of a port is the same where it is offered and where it is used, and the *)
(* port lies in an enabled BAR of its card.                                *)
(***************************************************************************)
EXTENDS Amd64Start, TLAPS, NaturalsInduction, WellFoundedInduction

-----------------------------------------------------------------------------
(* The order of the bus *)

Sooner(p, q) ==
  \/ p.bus < q.bus
  \/ p.bus = q.bus /\ (p.dev < q.dev \/ (p.dev = q.dev /\ p.func < q.func))

\* The iterator behind the last function
EndPos == [bus |-> Buses, dev |-> 0, func |-> 0]

\* The iterator has left function p.
Behind(p) == Sooner(p, it) \/ (moving /\ p = it)

Xhci == { p \in DOMAIN setup.fns : setup.fns[p].class = "xhci" }

\* What a function and a controller are, and where the iterator may be
BusType ==
  /\ setup \in Setups
  /\ DOMAIN fns = DOMAIN setup.fns
  /\ \A p \in DOMAIN fns : {"master", "mem"} \subseteq DOMAIN fns[p]
  /\ DOMAIN sem = Xhci
  /\ \A p \in Xhci : sem[p] \in [bios : BOOLEAN, os : BOOLEAN, smi : BOOLEAN]
  /\ seen \in [bios : BOOLEAN, os : BOOLEAN]
  /\ it \in Pos \cup {EndPos}
  /\ moving \in BOOLEAN /\ (moving => it \in Pos)

\* The functions of the machine.
LEMMA Functions ==
  ASSUME BusType
  PROVE  /\ DOMAIN fns \subseteq Pos
         /\ \A p \in DOMAIN fns : p.func # 0 /\ [p EXCEPT !.func = 0] \in DOMAIN fns =>
                                    Fn([p EXCEPT !.func = 0]).multi
BY PciAssumption DEF BusType, Fn

\* One round of operator ++ goes up, and passes no function.
LEMMA StepPassesNone ==
  ASSUME BusType, it \in Pos
  PROVE  /\ Step(it) \in Pos \cup {EndPos} /\ Sooner(it, Step(it))
         /\ \A x \in DOMAIN fns : Sooner(x, Step(it)) <=> Sooner(x, it) \/ x = it
<1>1. /\ Buses \in Nat \ {0} /\ Devs \in Nat \ {0} /\ Funcs \in Nat \ {0, 1}
      /\ it.bus \in 0..(Buses - 1) /\ it.dev \in 0..(Devs - 1) /\ it.func \in 0..(Funcs - 1)
  BY PciAssumption DEF Pos
<1> DEFINE b == it.bus
           d == it.dev
           f == it.func
           next == IF d + 1 >= Devs THEN [bus |-> b + 1, dev |-> 0, func |-> 0]
                   ELSE [bus |-> b, dev |-> d + 1, func |-> 0]
<1>2. \/ f < Funcs - 1 /\ Step(it) = [bus |-> b, dev |-> d, func |-> f + 1]
      \/ f = 0 /\ Present(it) /\ ~Fn(it).multi /\ Step(it) = next
      \/ f = Funcs - 1 /\ Step(it) = next
  <2> DEFINE q == CASE f = 0 /\ MultiFunction(it) -> [it EXCEPT !.func = 1]
                    [] f = 0 /\ ~MultiFunction(it) -> [it EXCEPT !.dev = @ + 1]
                    [] f # 0 /\ f < Funcs - 1 -> [it EXCEPT !.func = @ + 1]
                    [] OTHER -> [it EXCEPT !.func = 0, !.dev = @ + 1]
  <2>1. Step(it) = IF q.dev >= Devs THEN [bus |-> q.bus + 1, dev |-> 0, func |-> 0] ELSE q
    BY Zenon DEF Step
  <2>2. it = [bus |-> b, dev |-> d, func |-> f]
    BY DEF Pos
  <2>3. CASE f = 0 /\ MultiFunction(it)
    <3>1. q = [it EXCEPT !.func = 1]
      BY <2>3
    <3>2. q = [bus |-> b, dev |-> d, func |-> 1]
      BY <2>2, <3>1
    <3> HIDE DEF q
    <3> QED BY <1>1, <2>1, <2>3, <3>2
  <2>4. CASE f = 0 /\ ~MultiFunction(it)
    <3>1. q = [it EXCEPT !.dev = @ + 1]
      BY <2>4
    <3>2. q = [bus |-> b, dev |-> d + 1, func |-> 0]
      BY <2>2, <2>4, <3>1
    <3> HIDE DEF q
    <3> QED BY <1>1, <2>1, <2>4, <3>2 DEF MultiFunction
  <2>5. CASE f # 0 /\ f < Funcs - 1
    <3>1. q = [it EXCEPT !.func = @ + 1]
      BY <2>5
    <3>2. q = [bus |-> b, dev |-> d, func |-> f + 1]
      BY <2>2, <3>1
    <3> HIDE DEF q
    <3> QED BY <1>1, <2>1, <2>5, <3>2
  <2>6. CASE f # 0 /\ ~(f < Funcs - 1)
    <3>1. q = [it EXCEPT !.func = 0, !.dev = @ + 1]
      BY <2>6
    <3>2. q = [bus |-> b, dev |-> d + 1, func |-> 0]
      BY <2>2, <3>1
    <3> HIDE DEF q
    <3> QED BY <1>1, <2>1, <2>6, <3>2
  <2> QED BY <2>3, <2>4, <2>5, <2>6
<1>3. Step(it) \in Pos \cup {EndPos}
  BY <1>1, <1>2 DEF Pos, EndPos
<1>4. Sooner(it, Step(it))
  BY <1>1, <1>2 DEF Sooner
<1>5. ASSUME NEW x \in DOMAIN fns
      PROVE  Sooner(x, Step(it)) <=> Sooner(x, it) \/ x = it
  <2>1. /\ x \in Pos /\ x.bus \in 0..(Buses - 1) /\ x.dev \in 0..(Devs - 1)
        /\ x.func \in 0..(Funcs - 1)
    BY Functions DEF Pos
  <2>2. x = it <=> x.bus = b /\ x.dev = d /\ x.func = f
    BY <2>1 DEF Pos
  <2>3. CASE f < Funcs - 1 /\ Step(it) = [bus |-> b, dev |-> d, func |-> f + 1]
    BY <1>1, <2>1, <2>2, <2>3 DEF Sooner
  <2>4. CASE f = Funcs - 1 /\ Step(it) = next
    BY <1>1, <2>1, <2>2, <2>4 DEF Sooner
  <2>5. CASE f = 0 /\ Present(it) /\ ~Fn(it).multi /\ Step(it) = next
    <3>1. x.bus = b /\ x.dev = d => x.func = 0
      <4> SUFFICES ASSUME x.bus = b, x.dev = d, x.func # 0 PROVE FALSE
        OBVIOUS
      <4>1. [x EXCEPT !.func = 0] = it
        BY <2>1, <2>5 DEF Pos
      <4> QED BY <2>5, <4>1, Functions DEF Present
    <3> QED BY <1>1, <2>1, <2>2, <2>5, <3>1 DEF Sooner
  <2> QED BY <1>2, <2>3, <2>4, <2>5
<1> QED BY <1>3, <1>4, <1>5

\* So the iterator has left the same functions before and after a round.
LEMMA AdvanceLeaves ==
  ASSUME BusType, Advance
  PROVE  BusType' /\ \A x \in DOMAIN fns : Behind(x)' <=> Behind(x)
<1>1. moving /\ it \in Pos /\ it' = Step(it) /\ UNCHANGED <<setup, fns, sem, seen>>
  BY DEF Advance, BusType
<1>2. moving' = ~(Ended(it') \/ Present(it'))
  BY Zenon DEF Advance
<1>3. moving' \in BOOLEAN
  BY <1>2, Zenon
<1>4. it' \in Pos \cup {EndPos}
  BY <1>1, StepPassesNone
<1>5. moving' => it' \in Pos
  <2>1. Ended(EndPos)
    BY DEF Ended, EndPos
  <2> QED BY <1>2, <1>4, <2>1, Zenon
<1>6. ASSUME NEW x \in DOMAIN fns PROVE Behind(x)' <=> Behind(x)
  <2>1. ~(moving' /\ x = it')
    <3> SUFFICES ASSUME moving', x = it' PROVE FALSE
      OBVIOUS
    <3>1. ~Ended(it') /\ ~Present(it')
      BY <1>2, Zenon
    <3> QED BY <3>1 DEF Present
  <2>2. Behind(x)' <=> Sooner(x, Step(it))
    BY <1>1, <2>1 DEF Behind
  <2>3. Behind(x) <=> Sooner(x, it) \/ x = it
    BY <1>1 DEF Behind
  <2> QED BY <1>1, <2>2, <2>3, StepPassesNone
<1>7. BusType'
  BY <1>1, <1>3, <1>4, <1>5 DEF BusType, Xhci
<1> QED BY <1>6, <1>7

\* A loop begins with no function behind it, and ends with all of them.
LEMMA LoopBounds ==
  ASSUME BusType, NEW x \in DOMAIN fns
  PROVE  /\ it = Origin /\ ~moving => ~Behind(x)
         /\ Ended(it) => Behind(x)
<1>1. Buses \in Nat /\ x.bus \in 0..(Buses - 1) /\ x.dev \in Nat /\ x.func \in Nat
  BY Functions, PciAssumption DEF Pos
<1>2. it = Origin /\ ~moving => ~Behind(x)
  BY <1>1 DEF Behind, Sooner, Origin
<1>3. Ended(it) => Sooner(x, it)
  BY <1>1 DEF Ended, Sooner
<1> QED BY <1>2, <1>3 DEF Behind

-----------------------------------------------------------------------------
(* The invariant *)

Early == {"uart", "search", "probe", "init", "scanned", "crashed", "masters"}
Handoff == {"caps", "ask", "wait", "force", "smi", "release"}

\* Function p is done with: its DMA is off, and the BIOS has lost it.
Quiet(p) ==
  /\ ~fns[p].master
  /\ p \in Xhci => (HandedOff(p) => ~sem[p].bios /\ ~sem[p].smi)

\* Memory accesses stay enabled where the BIOS has enabled them.
MemKept == \A p \in DOMAIN fns : setup.fns[p].mem => fns[p].mem

\* disable_pci_bus_master() spares the controllers, and is done with every
\* other function it has passed.
MastersOff ==
  /\ phase \in Early => \A p \in Xhci : fns[p].master
  /\ phase = "masters" => \A p \in DOMAIN fns \ Xhci : Behind(p) => Quiet(p)

\* pci_quirks() is done with every controller it has passed, and has not
\* touched the others.
QuirksDone ==
  phase \in {"quirks"} \cup Handoff =>
    /\ \A p \in DOMAIN fns : p \notin Xhci \/ Behind(p) => Quiet(p)
    /\ \A p \in Xhci : ~Behind(p) => fns[p].master

\* The handoff of the controller at the iterator
HandoffState ==
  /\ phase \in Handoff => ~moving /\ it \in Xhci
  /\ phase = "ask" => (sem[it].bios => seen.bios)
  /\ phase = "smi" => ~sem[it].bios
  /\ phase = "release" => (LegacyCap(it) => ~sem[it].bios /\ ~sem[it].smi)

AllQuiet == phase = "boot" => \A p \in DOMAIN fns : Quiet(p)

\* The inductive strengthening of DmaUntilHandoff and BusQuiet.
BusInv ==
  /\ phase \in Early \cup {"quirks", "boot"} \cup Handoff
  /\ BusType /\ MemKept /\ MastersOff /\ QuirksDone /\ HandoffState /\ AllQuiet

\* The phases are different ones.
LEMMA Phases ==
  /\ Handoff \cap Early = {}
  /\ \A p \in {"quirks", "boot"} : p \notin Early /\ p \notin Handoff
  /\ "masters" \in Early
BY DEF Early, Handoff

\* Nothing of the bus changes.
LEMMA BusInvKept ==
  ASSUME BusInv, UNCHANGED <<setup, fns, it, moving, phase, sem, seen>>
  PROVE  BusInv'
<1>1. /\ setup' = setup /\ fns' = fns /\ it' = it /\ moving' = moving /\ phase' = phase
      /\ sem' = sem /\ seen' = seen
  OBVIOUS
<1>2. /\ Xhci' = Xhci
      /\ \A p : (Behind(p)' <=> Behind(p)) /\ (HandedOff(p)' <=> HandedOff(p)) /\ (LegacyCap(p)' <=> LegacyCap(p))
  BY <1>1 DEF Xhci, Behind, HandedOff, LegacyCap, BarValid, Fn
<1>3. \A p : Quiet(p)' <=> Quiet(p)
  BY <1>1, <1>2 DEF Quiet
<1>4. BusType' /\ MemKept' /\ phase' \in Early \cup {"quirks", "boot"} \cup Handoff
  <2>1. BusType'
    BY <1>1, <1>2 DEF BusInv, BusType
  <2>2. MemKept'
    BY <1>1 DEF BusInv, MemKept
  <2> QED BY <1>1, <2>1, <2>2 DEF BusInv
<1>5. MastersOff' /\ QuirksDone'
  BY <1>1, <1>2, <1>3 DEF BusInv, MastersOff, QuirksDone
<1>6. HandoffState' /\ AllQuiet'
  BY <1>1, <1>2, <1>3 DEF BusInv, HandoffState, AllQuiet
<1> QED BY <1>4, <1>5, <1>6 DEF BusInv

\* A step of setup_uart(): the controllers keep DMA, whatever else a driver
\* enables.
LEMMA UartStep ==
  ASSUME BusInv, UNCHANGED <<setup, sem, seen>>, phase \in Early \ {"masters"},
         phase' \in Early, DOMAIN fns' = DOMAIN fns,
         \A p \in DOMAIN fns : /\ {"master", "mem"} \subseteq DOMAIN fns'[p]
                               /\ fns'[p].master = fns[p].master
                               /\ fns[p].mem => fns'[p].mem,
         it' \in Pos \cup {EndPos}, moving' \in BOOLEAN, moving' => it' \in Pos,
         phase' = "masters" => it' = Origin /\ ~moving'
  PROVE  BusInv'
<1>1. BusType'
  BY DEF BusInv, BusType, Xhci
<1>2. MemKept'
  BY DEF BusInv, BusType, MemKept
<1>3. MastersOff'
  <2>1. \A p \in Xhci' : fns'[p].master
    BY DEF BusInv, MastersOff, BusType, Xhci
  <2>2. phase' = "masters" => \A p \in DOMAIN fns' : ~Behind(p)'
    <3> SUFFICES ASSUME it' = Origin, ~moving', NEW p \in DOMAIN fns'
                 PROVE  ~Behind(p)'
      OBVIOUS
    <3>1. Buses \in Nat /\ p.bus \in Nat /\ p.dev \in Nat /\ p.func \in Nat
      <4>1. p \in Pos
        BY Functions DEF BusInv
      <4> QED BY <4>1, PciAssumption DEF Pos
    <3> QED BY <3>1 DEF Behind, Sooner, Origin
  <2> QED BY <2>1, <2>2 DEF MastersOff
<1>4. QuirksDone' /\ HandoffState' /\ AllQuiet'
  BY DEF QuirksDone, HandoffState, AllQuiet, Early, Handoff
<1> QED BY <1>1, <1>2, <1>3, <1>4 DEF BusInv

\* One round of operator ++.
LEMMA AdvanceStep ==
  ASSUME BusInv, Advance
  PROVE  BusInv'
<1>1. UNCHANGED <<setup, fns, phase, sem, seen>> /\ moving
  BY DEF Advance
<1>2. BusType /\ BusType' /\ \A x \in DOMAIN fns : Behind(x)' <=> Behind(x)
  BY AdvanceLeaves DEF BusInv
<1>3. Xhci' = Xhci /\ Xhci \subseteq DOMAIN fns /\ \A x \in DOMAIN fns : Quiet(x)' <=> Quiet(x)
  BY <1>1, <1>2 DEF Quiet, HandedOff, Xhci, LegacyCap, BarValid, Fn, BusType
<1>4. phase \notin Handoff
  BY <1>1 DEF BusInv, HandoffState
<1>5. MemKept' /\ MastersOff' /\ AllQuiet'
  BY <1>1, <1>2, <1>3 DEF BusInv, MemKept, MastersOff, AllQuiet
<1>6. QuirksDone'
  BY <1>1, <1>2, <1>3 DEF BusInv, QuirksDone
<1>7. HandoffState'
  BY <1>1, <1>4 DEF HandoffState, Handoff
<1> QED BY <1>1, <1>2, <1>5, <1>6, <1>7 DEF BusInv

\* A step of the handoff of the controller at the iterator: the others are not
\* touched.
LEMMA HandoffStep ==
  ASSUME BusInv, phase \in Handoff, phase' \in Handoff, UNCHANGED <<setup, fns, it, moving>>,
         seen' \in [bios : BOOLEAN, os : BOOLEAN], DOMAIN sem' = DOMAIN sem,
         sem'[it] \in [bios : BOOLEAN, os : BOOLEAN, smi : BOOLEAN],
         \A p \in DOMAIN sem : p # it => sem'[p] = sem[p],
         HandoffState'
  PROVE  BusInv'
<1>1. BusType /\ Xhci' = Xhci /\ Xhci \subseteq DOMAIN fns /\ DOMAIN sem = Xhci
  BY DEF BusInv, BusType, Xhci
<1>2. ~moving /\ it \in Xhci
  BY DEF BusInv, HandoffState
<1>3. BusType'
  BY <1>1, <1>2 DEF BusType
<1>4. ~Behind(it) /\ \A p \in DOMAIN fns : Behind(p)' <=> Behind(p)
  <2>1. it.bus \in Int /\ it.dev \in Int /\ it.func \in Int
    BY <1>1, <1>2, Functions DEF Pos
  <2> QED BY <1>2, <2>1 DEF Behind, Sooner
<1>5. \A p \in DOMAIN fns : p # it => (Quiet(p)' <=> Quiet(p))
  BY <1>1 DEF Quiet, HandedOff, LegacyCap, BarValid, Fn
<1>6. QuirksDone
  BY DEF BusInv
<1>7. QuirksDone'
  BY <1>1, <1>2, <1>4, <1>5, <1>6 DEF QuirksDone
<1>8. MemKept' /\ MastersOff' /\ AllQuiet'
  BY <1>1, Phases DEF BusInv, MemKept, MastersOff, AllQuiet, Handoff, Early
<1> QED BY <1>3, <1>7, <1>8 DEF BusInv

\* do_handoff_cap(), until the controller is released.
LEMMA HandoffSteps ==
  ASSUME BusInv, HandoffBegins \/ Ask \/ WaitBios \/ ForceOwnership \/ DisableSmi
  PROVE  BusInv'
<1>1. phase \in Handoff /\ UNCHANGED <<setup, fns, it, moving>>
  BY DEF HandoffBegins, Ask, WaitBios, ForceOwnership, DisableSmi, Handoff
<1>2. ~moving /\ it \in Xhci /\ Xhci' = Xhci /\ DOMAIN sem = Xhci /\ LegacyCap(it)' = LegacyCap(it)
  BY <1>1 DEF BusInv, HandoffState, BusType, Xhci, LegacyCap, Fn
<1>3. /\ sem[it] \in [bios : BOOLEAN, os : BOOLEAN, smi : BOOLEAN] /\ HandoffState
      /\ seen \in [bios : BOOLEAN, os : BOOLEAN]
  BY <1>2 DEF BusInv, BusType
<1>4. CASE HandoffBegins
  <2>1. /\ sem' = sem
        /\ \/ phase' = "ask" /\ seen' = [bios |-> sem[it].bios, os |-> sem[it].os]
           \/ phase' = "release" /\ ~LegacyCap(it) /\ seen' = seen
    BY <1>4 DEF HandoffBegins
  <2>2. phase' \in Handoff /\ HandoffState'
    BY <1>1, <1>2, <2>1 DEF HandoffState, Handoff
  <2> QED BY <1>1, <1>3, <2>1, <2>2, HandoffStep
<1>5. CASE Ask
  <2>1. /\ phase = "ask"
        /\ seen' = seen
        /\ \/ /\ seen.bios /\ phase' = "wait"
              /\ sem' = [sem EXCEPT ![it].bios = TRUE, ![it].os = TRUE]
           \/ ~seen.bios /\ phase' = "smi" /\ sem' = sem
    BY <1>5 DEF Ask
  <2>2. phase' = "smi" => ~sem'[it].bios
    BY <1>3, <2>1 DEF HandoffState
  <2>3. phase' \in Handoff /\ HandoffState'
    BY <1>1, <1>2, <2>1, <2>2 DEF HandoffState, Handoff
  <2>4. /\ DOMAIN sem' = DOMAIN sem
        /\ sem'[it] \in [bios : BOOLEAN, os : BOOLEAN, smi : BOOLEAN]
        /\ \A p \in DOMAIN sem : p # it => sem'[p] = sem[p]
    BY <1>2, <1>3, <2>1, ZenonT(30)
  <2> QED BY <1>1, <1>3, <2>1, <2>3, <2>4, HandoffStep
<1>6. CASE WaitBios
  <2>1. /\ phase' \in {"wait", "smi", "force"} /\ UNCHANGED <<sem, seen>>
        /\ phase' = "smi" => ~sem[it].bios
    BY <1>6 DEF WaitBios
  <2>2. phase' \in Handoff /\ HandoffState'
    BY <1>1, <1>2, <2>1 DEF HandoffState, Handoff
  <2> QED BY <1>1, <1>3, <2>1, <2>2, HandoffStep
<1>7. CASE ForceOwnership
  <2>1. seen' = seen /\ phase' = "smi" /\ sem' = [sem EXCEPT ![it] = [@ EXCEPT !.bios = FALSE, !.os = seen.os]]
    BY <1>7 DEF ForceOwnership, Forced
  <2>2. phase' \in Handoff /\ HandoffState'
    BY <1>1, <1>2, <1>3, <2>1 DEF HandoffState, Handoff
  <2>3. /\ DOMAIN sem' = DOMAIN sem
        /\ sem'[it] \in [bios : BOOLEAN, os : BOOLEAN, smi : BOOLEAN]
        /\ \A p \in DOMAIN sem : p # it => sem'[p] = sem[p]
    BY <1>2, <1>3, <2>1
  <2> QED BY <1>1, <1>3, <2>1, <2>2, <2>3, HandoffStep
<1>8. CASE DisableSmi
  <2>1. phase = "smi" /\ phase' = "release" /\ seen' = seen /\ sem' = [sem EXCEPT ![it].smi = FALSE]
    BY <1>8 DEF DisableSmi
  <2>2. phase' \in Handoff /\ HandoffState'
    BY <1>1, <1>2, <1>3, <2>1 DEF HandoffState, Handoff
  <2>3. /\ DOMAIN sem' = DOMAIN sem
        /\ sem'[it] \in [bios : BOOLEAN, os : BOOLEAN, smi : BOOLEAN]
        /\ \A p \in DOMAIN sem : p # it => sem'[p] = sem[p]
    BY <1>2, <1>3, <2>1
  <2> QED BY <1>1, <1>3, <2>1, <2>2, <2>3, HandoffStep
<1> QED BY <1>4, <1>5, <1>6, <1>7, <1>8

\* disable_pci_bus_master() of a function.
LEMMA MasterOffShape ==
  ASSUME BusType
  PROVE  /\ DOMAIN MasterOff(it) = DOMAIN fns
         /\ \A p \in DOMAIN fns :
              /\ {"master", "mem"} \subseteq DOMAIN MasterOff(it)[p]
              /\ MasterOff(it)[p].mem = fns[p].mem
              /\ p # it => MasterOff(it)[p] = fns[p]
              /\ p = it => ~MasterOff(it)[p].master
<1>1. \A p \in DOMAIN fns : p \in Pos /\ ~Ended(p)
  <2> SUFFICES ASSUME NEW p \in DOMAIN fns PROVE p \in Pos /\ ~Ended(p)
    OBVIOUS
  <2>1. p \in Pos /\ Buses \in Nat
    BY Functions, PciAssumption
  <2> QED BY <2>1 DEF Ended, Pos
<1>2. CASE Present(it)
  BY <1>2 DEF MasterOff, BusType, Present
<1>3. CASE ~Present(it)
  <2>1. it \notin DOMAIN fns
    BY <1>1, <1>3 DEF Present
  <2> QED BY <1>3, <2>1 DEF MasterOff, BusType
<1> QED BY <1>2, <1>3

\* The iterator sets out from a function.
LEMMA Leaving ==
  ASSUME BusType, ~moving, moving' = TRUE, it' = it, NEW p \in DOMAIN fns
  PROVE  Behind(p)' <=> Behind(p) \/ p = it
BY DEF Behind

\* One function of disable_pci_bus_master(), or its end.
LEMMA MastersStep ==
  ASSUME BusInv, Masters
  PROVE  BusInv'
<1>1. /\ BusType /\ MemKept /\ MastersOff /\ phase = "masters" /\ ~moving
      /\ UNCHANGED <<setup, sem, seen>> /\ Xhci' = Xhci /\ Xhci \subseteq DOMAIN fns
  BY DEF BusInv, Masters, Visiting, Xhci, BusType
<1>2. (\A p \in Xhci : fns[p].master) /\ \A p \in DOMAIN fns \ Xhci : Behind(p) => Quiet(p)
  BY <1>1, Phases DEF MastersOff
<1>3. CASE Ended(it)
  <2>1. phase' = "quirks" /\ it' = Origin /\ moving' = FALSE /\ fns' = fns
    BY <1>3 DEF Masters, Enter
  <2>2. BusType'
    <3>1. Origin \in Pos
      BY PciAssumption DEF Origin, Pos
    <3> QED BY <1>1, <2>1, <3>1 DEF BusType
  <2>3. \A p \in DOMAIN fns : Behind(p) /\ ~Behind(p)'
    <3> SUFFICES ASSUME NEW p \in DOMAIN fns PROVE Behind(p) /\ ~Behind(p)'
      OBVIOUS
    <3>1. p.bus \in Nat /\ p.dev \in Nat /\ p.func \in Nat
      BY <1>1, Functions, PciAssumption DEF Pos
    <3> QED BY <1>1, <1>3, <2>1, <3>1, LoopBounds DEF Behind, Sooner, Origin
  <2>4. \A p \in DOMAIN fns : Quiet(p)' <=> Quiet(p)
    BY <1>1, <2>1 DEF Quiet, HandedOff, BarValid, LegacyCap, Fn
  <2>5. QuirksDone'
    BY <1>1, <1>2, <2>1, <2>3, <2>4 DEF QuirksDone
  <2>6. MemKept' /\ MastersOff' /\ HandoffState' /\ AllQuiet'
    BY <1>1, <2>1, Phases DEF MemKept, MastersOff, HandoffState, AllQuiet, Handoff
  <2> QED BY <2>1, <2>2, <2>5, <2>6 DEF BusInv
<1>4. CASE ~Ended(it)
  <2>1. phase' = phase /\ it' = it /\ moving' = TRUE /\ fns' = IF Skipped(it) THEN fns ELSE MasterOff(it)
    BY <1>4 DEF Masters
  <2>2. it \in Pos
    BY <1>1, <1>4 DEF BusType, Ended, EndPos
  <2>3. /\ DOMAIN fns' = DOMAIN fns
        /\ \A p \in DOMAIN fns : /\ {"master", "mem"} \subseteq DOMAIN fns'[p]
                                 /\ fns'[p].mem = fns[p].mem
                                 /\ p # it => fns'[p] = fns[p]
    BY <1>1, <2>1, MasterOffShape DEF BusType
  <2>4. BusType' /\ MemKept'
    BY <1>1, <2>1, <2>2, <2>3 DEF BusType, MemKept
  <2>5. \A p \in Xhci : fns'[p] = fns[p]
    <3>1. it \in Xhci => Skipped(it)
      BY <1>1, <1>4 DEF Xhci, Skipped, Present, Fn
    <3> QED BY <1>1, <2>1, <2>3, <3>1
  <2>6. it \in DOMAIN fns \ Xhci => ~fns'[it].master
    <3>1. it \in DOMAIN fns \ Xhci => ~Skipped(it)
      BY <1>1 DEF Xhci, Skipped, Fn, BusType
    <3> QED BY <1>1, <2>1, <3>1, MasterOffShape
  <2>7. ASSUME NEW p \in DOMAIN fns \ Xhci, Behind(p)' PROVE Quiet(p)'
    <3>1. Behind(p) \/ p = it
      BY <1>1, <2>1, <2>7, Leaving
    <3>2. ~fns'[p].master
      BY <1>2, <2>3, <2>6, <3>1 DEF Quiet
    <3> QED BY <1>1, <3>2 DEF Quiet
  <2>8. MastersOff'
    BY <1>1, <1>2, <2>1, <2>3, <2>5, <2>7 DEF MastersOff
  <2>9. QuirksDone' /\ HandoffState' /\ AllQuiet'
    BY <1>1, <2>1, Phases DEF QuirksDone, HandoffState, AllQuiet, Handoff
  <2> QED BY <1>1, <2>1, <2>4, <2>8, <2>9, Phases DEF BusInv
<1> QED BY <1>3, <1>4

\* pci_quirks() leaves a function that is quiet, if it is there at all.
LEMMA QuirkLeaves ==
  ASSUME BusInv, phase \in {"quirks"} \cup Handoff, ~moving, ~Ended(it),
         UNCHANGED <<setup, it, sem, seen>>, phase' = "quirks", moving' = TRUE,
         fns' \in {fns, MasterOff(it)}, it \in DOMAIN fns => Quiet(it)'
  PROVE  BusInv'
<1>1. /\ BusType /\ MemKept /\ QuirksDone
      /\ Xhci' = Xhci /\ Xhci \subseteq DOMAIN fns
  BY DEF BusInv, Xhci, BusType
<1>2. it \in Pos
  BY <1>1 DEF BusType, Ended, EndPos
<1>3. /\ DOMAIN fns' = DOMAIN fns
      /\ \A p \in DOMAIN fns : /\ {"master", "mem"} \subseteq DOMAIN fns'[p]
                               /\ fns'[p].mem = fns[p].mem
                               /\ p # it => fns'[p] = fns[p]
  BY <1>1, MasterOffShape DEF BusType
<1>4. BusType' /\ MemKept'
  BY <1>1, <1>2, <1>3 DEF BusType, MemKept
<1>5. \A p \in DOMAIN fns : p # it => (Quiet(p)' <=> Quiet(p))
  BY <1>1, <1>3 DEF Quiet, HandedOff, BarValid, LegacyCap, Fn
<1>6. \A p \in DOMAIN fns : Behind(p)' <=> Behind(p) \/ p = it
  BY <1>1, Leaving
<1>7. QuirksDone'
  <2>1. /\ \A p \in DOMAIN fns : p \notin Xhci \/ Behind(p) => Quiet(p)
        /\ \A p \in Xhci : ~Behind(p) => fns[p].master
    BY <1>1 DEF QuirksDone
  <2>2. \A p \in DOMAIN fns : p \notin Xhci \/ Behind(p)' => Quiet(p)'
    BY <2>1, <1>5, <1>6
  <2>3. \A p \in Xhci : ~Behind(p)' => fns'[p].master
    BY <1>1, <2>1, <1>3, <1>6
  <2> QED BY <1>1, <1>3, <2>2, <2>3 DEF QuirksDone
<1>8. MastersOff' /\ HandoffState' /\ AllQuiet'
  BY Phases DEF MastersOff, HandoffState, AllQuiet, Handoff
<1> QED BY <1>4, <1>7, <1>8 DEF BusInv

\* One function of pci_quirks(): the end, a function that is no controller, a
\* controller that cannot be reached, or the beginning of a handoff.
LEMMA QuirkStep ==
  ASSUME BusInv, Quirk
  PROVE  BusInv'
<1>1. /\ BusType /\ MemKept /\ QuirksDone /\ phase = "quirks" /\ ~moving
      /\ UNCHANGED <<setup, it, sem, seen>> /\ Xhci' = Xhci /\ Xhci \subseteq DOMAIN fns
  BY DEF BusInv, Quirk, Visiting, Xhci, BusType
<1>2. it \in Xhci <=> Skipped(it)
  <2>1. it \in Xhci => ~Ended(it)
    <3> SUFFICES ASSUME it \in Xhci PROVE ~Ended(it)
      OBVIOUS
    <3>1. it \in Pos /\ Buses \in Nat
      BY <1>1, Functions, PciAssumption
    <3> QED BY <3>1 DEF Ended, Pos
  <2> QED BY <1>1, <2>1 DEF Xhci, Skipped, Present, Fn, BusType
<1>3. CASE Ended(it)
  <2>1. phase' = "boot" /\ moving' = moving /\ fns' = fns
    BY <1>3 DEF Quirk, Skipped, Present
  <2>2. \A p \in DOMAIN fns : Quiet(p)' <=> Quiet(p)
    BY <1>1, <2>1 DEF Quiet, HandedOff, BarValid, LegacyCap, Fn
  <2>3. \A p \in DOMAIN fns : Quiet(p)
    BY <1>1, <1>3, LoopBounds DEF QuirksDone
  <2>4. AllQuiet' /\ BusType' /\ MemKept'
    BY <1>1, <2>1, <2>2, <2>3 DEF AllQuiet, BusType, MemKept
  <2>5. MastersOff' /\ QuirksDone' /\ HandoffState'
    BY <2>1, Phases DEF MastersOff, QuirksDone, HandoffState, Handoff
  <2> QED BY <2>1, <2>4, <2>5 DEF BusInv
<1>4. CASE ~Ended(it) /\ ~Skipped(it)
  <2>1. phase' = phase /\ moving' = TRUE /\ fns' = fns
    BY <1>4 DEF Quirk
  <2>2. it \in DOMAIN fns => Quiet(it)'
    BY <1>1, <1>2, <1>4, <2>1 DEF QuirksDone, Quiet
  <2> QED BY <1>1, <1>4, <2>1, <2>2, QuirkLeaves
<1>5. CASE Skipped(it) /\ (~fns[it].mem \/ ~BarValid(it))
  <2>1. ~Ended(it)
    BY <1>5 DEF Skipped, Present
  <2>2. phase' = phase /\ moving' = TRUE /\ fns' = MasterOff(it)
    BY <1>5, <2>1 DEF Quirk
  <2>3. ~HandedOff(it)
    BY <1>1, <1>2, <1>5 DEF HandedOff, MemKept
  <2>4. Quiet(it)'
    <3>1. ~fns'[it].master
      BY <1>1, <1>2, <1>5, <2>2, MasterOffShape
    <3>2. ~HandedOff(it)'
      BY <1>1, <2>3 DEF HandedOff, BarValid, LegacyCap, Fn
    <3> QED BY <1>1, <3>1, <3>2 DEF Quiet
  <2> QED BY <1>1, <2>1, <2>2, <2>4, QuirkLeaves
<1>6. CASE Skipped(it) /\ fns[it].mem /\ BarValid(it)
  <2>1. ~Ended(it)
    BY <1>6 DEF Skipped, Present
  <2>2. phase' = "caps" /\ moving' = moving /\ fns' = fns
    BY <1>6, <2>1 DEF Quirk
  <2>3. BusType' /\ MemKept'
    BY <1>1, <2>2 DEF BusType, MemKept
  <2>4. \A p \in DOMAIN fns : (Quiet(p)' <=> Quiet(p)) /\ (Behind(p)' <=> Behind(p))
    BY <1>1, <2>2 DEF Quiet, HandedOff, BarValid, LegacyCap, Fn, Behind
  <2>5. QuirksDone'
    BY <1>1, <2>2, <2>4 DEF QuirksDone
  <2>6. HandoffState' /\ MastersOff' /\ AllQuiet'
    BY <1>1, <1>2, <1>6, <2>2 DEF HandoffState, MastersOff, AllQuiet, Handoff, Early
  <2> QED BY <2>2, <2>3, <2>5, <2>6 DEF BusInv, Handoff
<1> QED BY <1>3, <1>4, <1>5, <1>6

\* The end of a handoff.
LEMMA ReleaseStep ==
  ASSUME BusInv, Release
  PROVE  BusInv'
<1>1. /\ phase = "release" /\ phase' = "quirks" /\ moving' = TRUE /\ fns' = MasterOff(it)
      /\ UNCHANGED <<setup, it, sem, seen>>
  BY DEF Release
<1>2. /\ phase \in Handoff /\ ~moving /\ it \in Xhci /\ BusType /\ it \in DOMAIN fns
      /\ LegacyCap(it) => ~sem[it].bios /\ ~sem[it].smi
  BY <1>1 DEF BusInv, HandoffState, Handoff, BusType, Xhci
<1>3. ~Ended(it)
  <2>1. it \in Pos /\ Buses \in Nat
    BY <1>2, Functions, PciAssumption
  <2> QED BY <2>1 DEF Ended, Pos
<1>4. Quiet(it)'
  <2>1. ~fns'[it].master
    BY <1>1, <1>2, MasterOffShape
  <2>2. HandedOff(it)' => ~sem'[it].bios /\ ~sem'[it].smi
    BY <1>1, <1>2 DEF HandedOff, LegacyCap, Fn
  <2> QED BY <1>1, <2>1, <2>2 DEF Quiet
<1> QED BY <1>1, <1>2, <1>3, <1>4, QuirkLeaves

\* The BIOS gives a controller back.
LEMMA BiosStep ==
  ASSUME BusInv, BiosReleases
  PROVE  BusInv'
<1>1. UNCHANGED <<setup, fns, it, moving, phase, seen>>
  BY DEF BiosReleases
<1>2. PICK c \in DOMAIN sem : sem' = [sem EXCEPT ![c].bios = FALSE]
  BY DEF BiosReleases
<1>3. BusType /\ Xhci' = Xhci /\ DOMAIN sem = Xhci /\ Xhci \subseteq DOMAIN fns
  BY <1>1 DEF BusInv, BusType, Xhci
<1>4. \A p \in Xhci : sem[p] \in [bios : BOOLEAN, os : BOOLEAN, smi : BOOLEAN]
  BY <1>3 DEF BusType
<1>5. /\ DOMAIN sem' = Xhci
      /\ \A p \in Xhci : /\ sem'[p] \in [bios : BOOLEAN, os : BOOLEAN, smi : BOOLEAN]
                         /\ sem'[p].bios => sem[p].bios
                         /\ sem'[p].smi = sem[p].smi
  BY <1>2, <1>3, <1>4
<1>6. BusType'
  BY <1>1, <1>3, <1>5 DEF BusType
<1>7. \A p \in DOMAIN fns : (Quiet(p) => Quiet(p)') /\ (Behind(p)' <=> Behind(p))
  BY <1>1, <1>3, <1>5 DEF Quiet, HandedOff, LegacyCap, BarValid, Fn, Behind
<1>8. HandoffState'
  BY <1>1, <1>3, <1>5 DEF BusInv, HandoffState, Handoff, LegacyCap, Fn
<1>9. QuirksDone'
  BY <1>1, <1>3, <1>7 DEF BusInv, QuirksDone
<1>10. MemKept' /\ MastersOff' /\ AllQuiet'
  BY <1>1, <1>3, <1>7 DEF BusInv, MemKept, MastersOff, AllQuiet
<1> QED BY <1>1, <1>6, <1>8, <1>9, <1>10 DEF BusInv

-----------------------------------------------------------------------------
(* The theorems *)

\* What a driver enables leaves bus mastering as it is.
LEMMA EnabledShape ==
  ASSUME BusType, NEW what
  PROVE  /\ DOMAIN Enabled(it, what) = DOMAIN fns
         /\ \A p \in DOMAIN fns :
              /\ {"master", "mem"} \subseteq DOMAIN Enabled(it, what)[p]
              /\ Enabled(it, what)[p].master = fns[p].master
              /\ fns[p].mem => Enabled(it, what)[p].mem
<1>1. CASE Present(it)
  <2>1. it \in DOMAIN fns /\ {"master", "mem"} \subseteq DOMAIN fns[it]
    BY <1>1 DEF Present, BusType
  <2> DEFINE io == fns[it].io \/ what = "io"
             mem == fns[it].mem \/ what = "mem"
  <2>2. Enabled(it, what) = [fns EXCEPT ![it].io = io, ![it].mem = mem]
    BY <1>1, <2>1, Zenon DEF Enabled
  <2>3. fns[it].mem => mem
    OBVIOUS
  <2> HIDE DEF io, mem
  <2>4. /\ DOMAIN Enabled(it, what) = DOMAIN fns
        /\ \A p \in DOMAIN fns : p # it => Enabled(it, what)[p] = fns[p]
        /\ DOMAIN Enabled(it, what)[it] = DOMAIN fns[it]
        /\ Enabled(it, what)[it].master = fns[it].master
        /\ Enabled(it, what)[it].mem = mem
    BY <2>1, <2>2, ZenonT(30)
  <2> QED BY <2>1, <2>3, <2>4 DEF BusType
<1>2. CASE ~Present(it)
  BY <1>2 DEF Enabled, BusType
<1> QED BY <1>1, <1>2

\* The search for a serial port, in all of its steps.
LEMMA SerialSteps ==
  ASSUME BusInv, SetupUart \/ Search \/ SearchEnds \/ Scan \/ ScanCrashes \/ ScanEnds \/ InitUart
  PROVE  BusInv'
<1>1. /\ BusType /\ ~moving /\ UNCHANGED <<setup, sem, seen>>
      /\ phase \in Early \ {"masters"}
  BY DEF BusInv, SetupUart, Search, SearchEnds, Scan, ScanCrashes, ScanEnds, InitUart, Visiting, Early
<1>3. fns' = fns \/ \E what : fns' = Enabled(it, what)
  BY DEF SetupUart, Search, SearchEnds, Scan, ScanCrashes, ScanEnds, InitUart
<1>4. /\ DOMAIN fns' = DOMAIN fns
      /\ \A p \in DOMAIN fns : /\ {"master", "mem"} \subseteq DOMAIN fns'[p]
                               /\ fns'[p].master = fns[p].master
                               /\ fns[p].mem => fns'[p].mem
  BY <1>1, <1>3, EnabledShape DEF BusType
<1>5. Origin \in Pos
  BY PciAssumption DEF Origin, Pos
<1>6. ~Ended(it) => it \in Pos
  BY <1>1 DEF BusType, Ended, EndPos
<1>7. /\ phase' \in Early
      /\ it' \in {it, Origin} /\ moving' \in BOOLEAN
      /\ moving' => it' = it /\ ~Ended(it)
      /\ phase' = "masters" => it' = Origin /\ ~moving'
  <2>1. CASE SetupUart
    <3>1. setup.arg \in {"none", "noserial", "com", "pci", "probe"}
      BY <1>1, PciAssumption DEF BusType
    <3>2. \/ Enter("masters") \/ Enter("search") \/ Enter("probe")
          \/ phase' = "init" /\ UNCHANGED <<it, moving>>
      BY <2>1, <3>1 DEF SetupUart
    <3>3. \/ phase' \in {"masters", "search", "probe"} /\ it' = Origin /\ moving' = FALSE
          \/ phase' = "init" /\ it' = it /\ moving' = moving
      BY <3>2, Zenon DEF Enter
    <3>4. moving' = FALSE
      BY <1>1, <3>3, Zenon DEF BusType
    <3> QED BY <3>3, <3>4, Zenon DEF Early
  <2>2. CASE Search
    <3>1. /\ phase = "search" /\ ~Ended(it) /\ it' = it
          /\ phase' \in {"search", "init"} /\ moving' \in BOOLEAN
      BY <2>2 DEF Search, Visiting
    <3> QED BY <3>1 DEF Early
  <2>3. CASE SearchEnds \/ ScanEnds \/ ScanCrashes
    <3>1. phase' \in {"init", "scanned", "crashed"} /\ it' = it /\ moving' = moving
      BY <2>3 DEF SearchEnds, ScanEnds, ScanCrashes
    <3> QED BY <1>1, <3>1 DEF Early, BusType
  <2>4. CASE Scan
    BY <1>1, <2>4 DEF Scan, Visiting, Early
  <2>5. CASE InitUart
    <3>1. \/ Enter("masters")
          \/ phase' = "crashed" /\ UNCHANGED <<it, moving>>
      BY <2>5 DEF InitUart
    <3>2. \/ phase' = "masters" /\ it' = Origin /\ moving' = FALSE
          \/ phase' = "crashed" /\ it' = it /\ moving' = moving
      BY <3>1, Zenon DEF Enter
    <3>3. moving' = FALSE
      BY <1>1, <3>2, Zenon DEF BusType
    <3> QED BY <3>2, <3>3, Zenon DEF Early
  <2> QED BY <2>1, <2>2, <2>3, <2>4, <2>5
<1>8. it' \in Pos \cup {EndPos} /\ (moving' => it' \in Pos)
  BY <1>1, <1>5, <1>6, <1>7 DEF BusType
<1> QED BY <1>1, <1>4, <1>7, <1>8, UartStep

\* The invariant holds for every machine, bus and command line.
LEMMA BusInvariant == Spec => []BusInv
<1>1. Init => BusInv
  <2> SUFFICES ASSUME Init PROVE BusInv
    OBVIOUS
  <2> USE DEF Init, PInit
  <2>1. BusType
    <3>1. Origin \in Pos
      BY PciAssumption DEF Origin, Pos
    <3>2. setup \in Setups /\ setup.osAsked \in BOOLEAN
      BY PciAssumption
    <3> QED BY <3>1, <3>2 DEF BusType, Xhci
  <2>2. MemKept /\ MastersOff
    BY DEF MemKept, MastersOff, Xhci
  <2>3. QuirksDone /\ HandoffState /\ AllQuiet
    BY DEF QuirksDone, HandoffState, AllQuiet, Handoff
  <2> QED BY <2>1, <2>2, <2>3 DEF BusInv, Early
<1>2. BusInv /\ [Next]_vars => BusInv'
  <2> SUFFICES ASSUME BusInv, [Next]_vars
               PROVE  BusInv'
    OBVIOUS
  <2>1. CASE Stub \/ StubMaps \/ StubAsserts \/ StubMapped \/ EnterLong \/ Map
    BY <2>1, BusInvKept DEF Stub, StubMaps, StubAsserts, StubMapped, EnterLong, Map, pvars
  <2>2. CASE Bus
    BY <2>2, AdvanceStep, SerialSteps, MastersStep, HandoffSteps, ReleaseStep DEF Bus, PciStep
  <2>3. CASE BusQuirk
    BY <2>3, QuirkStep DEF BusQuirk
  <2>4. CASE Bios
    BY <2>4, BiosStep DEF Bios
  <2>5. CASE UNCHANGED vars
    BY <2>5, BusInvKept DEF vars, pvars
  <2> QED BY <2>1, <2>2, <2>3, <2>4, <2>5 DEF Next, BootLoader, Halted
<1> QED BY <1>1, <1>2, PTL DEF Spec

\* DmaUntilHandoff holds for every machine: whenever the BIOS gives a controller
\* back, in time, late or never, disable_pci_bus_master() and xhci_handoff()
\* cut off its DMA only after the BIOS has lost it.
THEOREM DmaOutlivesBios == Spec => []DmaUntilHandoff
<1>1. BusInv => DmaUntilHandoff
  <2> SUFFICES ASSUME BusInv, NEW p \in DOMAIN sem, HandedOff(p), ~fns[p].master
               PROVE  ~sem[p].bios
    BY DEF DmaUntilHandoff
  <2>1. p \in Xhci /\ p \in DOMAIN fns
    BY DEF BusInv, BusType, Xhci
  <2>2. phase \notin Early
    BY <2>1 DEF BusInv, MastersOff
  <2>3. Quiet(p)
    BY <2>1, <2>2 DEF BusInv, QuirksDone, AllQuiet
  <2> QED BY <2>1, <2>3 DEF Quiet
<1> QED BY <1>1, BusInvariant, PTL

\* BusQuiet holds for every machine: no function is passed over by the loops of
\* disable_pci_bus_master() and pci_quirks(), so that none masters the bus when
\* the kernel starts, and no controller is left to the BIOS.
THEOREM BusEndsQuiet == Spec => []BusQuiet
<1>1. BusInv => BusQuiet
  <2> SUFFICES ASSUME BusInv, phase = "boot" PROVE BusQuiet
    BY DEF BusQuiet
  <2>1. \A p \in DOMAIN fns : Quiet(p)
    BY DEF BusInv, AllQuiet
  <2>2. DOMAIN sem = Xhci /\ Xhci \subseteq DOMAIN fns
    BY DEF BusInv, BusType, Xhci
  <2> QED BY <2>1, <2>2 DEF BusQuiet, Quiet
<1> QED BY <1>1, BusInvariant, PTL

-----------------------------------------------------------------------------
(* Numbers and sequences *)

\* A set of natural numbers has a least element.
LEMMA LeastElement ==
  ASSUME NEW I \in SUBSET Nat, I # {}
  PROVE  \E m \in I : \A y \in I : m <= y
<1> DEFINE R == { p \in Nat \X Nat : p[1] < p[2] }
<1>1. IsWellFoundedOn(R, Nat)
  BY NatLessThanWellFounded, Zenon DEF OpToRel
<1> HIDE DEF R
<1>2. PICK x \in I : \A y \in I : ~(<<y, x>> \in R)
  BY <1>1, WFMin
<1> USE DEF R
<1>3. \A y \in I : ~(y < x)
  BY <1>2
<1> QED BY <1>3

\* FlattenSeq() of sequences over S is a sequence over S, by induction over them.
LEMMA FlattenType ==
  ASSUME NEW S, NEW ss \in Seq(Seq(S))
  PROVE  FlattenSeq(ss) \in Seq(S)
<1> DEFINE n == Len(ss)
           Body(f, i) == IF i = 1 THEN ss[i] ELSE f[i-1] \o ss[i]
           Fun(k) == \E f : f = [i \in 1..k |-> Body(f, i)]
<1>1. n \in Nat /\ DOMAIN ss = 1..n /\ \A i \in 1..n : ss[i] \in Seq(S)
  OBVIOUS
<1>2. CASE n = 0
  <2>1. ss = <<>>
    BY <1>2
  <2> QED BY <2>1 DEF FlattenSeq
<1>3. CASE n # 0
  <2>1. Fun(n)
    <3> DEFINE Bad == { k \in Nat : ~Fun(k) }
    <3>1. Bad = {}
      <4> SUFFICES ASSUME Bad # {} PROVE FALSE
        OBVIOUS
      <4>1. Bad \in SUBSET Nat
        OBVIOUS
      <4> HIDE DEF Bad
      <4>2. PICK k \in Bad : \A y \in Bad : k <= y
        BY <4>1, LeastElement
      <4>3. k \in Nat /\ ~Fun(k)
        BY <4>2 DEF Bad
      <4> HIDE DEF Body
      <4>4. k # 0
        <5>1. [i \in 1..0 |-> 0] = [i \in 1..0 |-> Body([j \in 1..0 |-> 0], i)]
          OBVIOUS
        <5> QED BY <4>3, <5>1
      <4>5. k - 1 \in Nat /\ k - 1 \notin Bad
        BY <4>2, <4>3, <4>4
      <4>6. PICK f : f = [i \in 1..(k-1) |-> Body(f, i)]
        BY <4>5 DEF Bad
      <4> DEFINE g == [i \in 1..k |-> IF i < k THEN f[i] ELSE Body(f, k)]
      <4>7. g = [i \in 1..k |-> Body(g, i)]
        <5> SUFFICES ASSUME NEW i \in 1..k PROVE g[i] = Body(g, i)
          OBVIOUS
        <5>1. i = 1 \/ g[i - 1] = f[i - 1]
          BY <4>3
        <5>2. Body(g, i) = Body(f, i)
          BY <5>1 DEF Body
        <5>3. i < k => f[i] = Body(f, i)
          <6>1. i < k => i \in 1..(k - 1)
            BY <4>3
          <6> QED BY <4>6, <6>1, Zenon
        <5>4. i = k \/ i < k
          BY <4>3
        <5> QED BY <5>2, <5>3, <5>4
      <4> HIDE DEF g
      <4>8. Fun(k)
        BY <4>7
      <4> QED BY <4>3, <4>8
    <3> QED BY <1>1, <3>1
  <2> DEFINE F == CHOOSE f : f = [i \in 1..n |-> Body(f, i)]
  <2>2. F = [i \in 1..n |-> Body(F, i)]
    BY <2>1
  <2>3. FlattenSeq(ss) = F[n]
    BY <1>3 DEF FlattenSeq
  <2> HIDE DEF F
  <2>4. \A i \in 1..n : F[i] \in Seq(S)
    <3> DEFINE Bad == { k \in 1..n : F[k] \notin Seq(S) }
    <3> SUFFICES ASSUME Bad # {} PROVE FALSE
      OBVIOUS
    <3>1. Bad \in SUBSET Nat
      BY <1>1
    <3> HIDE DEF Bad
    <3>2. PICK k \in Bad : \A y \in Bad : k <= y
      BY <3>1, LeastElement
    <3>3. k \in 1..n /\ F[k] \notin Seq(S) /\ (k = 1 \/ (k - 1 \in 1..n /\ F[k - 1] \in Seq(S)))
      BY <1>1, <3>2 DEF Bad
    <3>4. F[k] = IF k = 1 THEN ss[k] ELSE F[k - 1] \o ss[k]
      BY <2>2, <3>3, Zenon
    <3> QED BY <1>1, <3>3, <3>4
  <2> QED BY <1>1, <1>3, <2>3, <2>4
<1> QED BY <1>1, <1>2, <1>3
\* What is in a sequence.
LEMMA ElementsOf ==
  ASSUME NEW T, NEW s \in Seq(T)
  PROVE  Len(s) \in Nat /\ DOMAIN s = 1..Len(s) /\ \A i \in DOMAIN s : s[i] \in T
OBVIOUS

\* The least element of a set of indices.
LEMMA MinIs ==
  ASSUME NEW I \in SUBSET Nat, I # {}
  PROVE  Min(I) \in I /\ \A y \in I : Min(I) <= y
BY LeastElement DEF Min

\* The first of some indices, or 0.
LEMMA FirstOf ==
  ASSUME NEW n \in Nat, NEW I \in SUBSET (1..n)
  PROVE  LET k == IF I # {} THEN Min(I) ELSE 0
         IN k \in Nat /\ (k # 0 => k \in I) /\ (k = 0 => I = {})
<1>1. I \in SUBSET Nat /\ 0 \notin I
  OBVIOUS
<1>2. CASE I # {}
  <2>1. Min(I) \in I
    BY <1>1, <1>2, MinIs
  <2>2. Min(I) # 0 /\ Min(I) \in Nat
    BY <1>1, <2>1
  <2> QED BY <1>2, <2>1, <2>2
<1>3. CASE I = {}
  BY <1>3
<1> QED BY <1>2, <1>3

\* The greatest of the numbers f gives to 1..n
LEMMA GreatestIs ==
  ASSUME NEW n \in Nat \ {0}, NEW f \in [1..n -> Nat]
  PROVE  LET S == { f[i] : i \in 1..n } IN Max(S) \in S /\ \A y \in S : y <= Max(S)
<1> DEFINE S == { f[i] : i \in 1..n }
           Top(k) == \E t \in 1..k : \A i \in 1..k : f[i] <= f[t]
           Bad == { k \in 1..n : ~Top(k) }
<1>1. Bad = {}
  <2> SUFFICES ASSUME Bad # {} PROVE FALSE
    OBVIOUS
  <2>1. Bad \in SUBSET Nat
    OBVIOUS
  <2> HIDE DEF Bad
  <2>2. PICK k \in Bad : \A y \in Bad : k <= y
    BY <2>1, LeastElement
  <2>3. k \in 1..n /\ ~Top(k)
    BY <2>2 DEF Bad
  <2>4. k # 1
    BY <2>3
  <2>5. k - 1 \in 1..n /\ k - 1 \notin Bad
    BY <2>2, <2>3, <2>4
  <2>6. PICK t \in 1..(k - 1) : \A i \in 1..(k - 1) : f[i] <= f[t]
    BY <2>5 DEF Bad
  <2>7. t \in 1..k /\ f[t] \in Nat /\ f[k] \in Nat /\ \A i \in 1..k : i = k \/ i \in 1..(k - 1)
    BY <2>3, <2>6
  <2>8. CASE f[k] <= f[t]
    BY <2>3, <2>6, <2>7, <2>8
  <2>9. CASE f[t] < f[k]
    <3>1. \A i \in 1..k : f[i] \in Nat
      BY <2>3
    <3> QED BY <2>3, <2>6, <2>7, <2>9, <3>1
  <2> QED BY <2>7, <2>8, <2>9
<1>2. Top(n)
  <2> HIDE DEF Top
  <2> QED BY <1>1
<1>3. PICK t \in 1..n : \A i \in 1..n : f[i] <= f[t]
  BY <1>2
<1>4. S \subseteq Nat /\ f[t] \in S /\ \A y \in S : y <= f[t]
  BY <1>3
<1> HIDE DEF S
<1>5. \E x \in S : \A y \in S : x >= y
  BY <1>4
<1>6. Max(S) \in S /\ \A y \in S : Max(S) >= y
  BY <1>5, Zenon DEF Max
<1>7. Max(S) \in S /\ \A y \in S : y <= Max(S)
  BY <1>4, <1>6
<1> QED BY <1>7 DEF S

-----------------------------------------------------------------------------
(* Pages *)

\* Division by an alignment.
LEMMA Division ==
  ASSUME NEW x \in Nat, NEW n \in Nat \ {0}
  PROVE  /\ x \div n \in Nat
         /\ (x \div n) * n \in Nat
         /\ (x \div n) * n <= x
         /\ x < (x \div n) * n + n
<1> DEFINE q == x \div n
<1>1. q \in Nat /\ x = q * n + (x % n) /\ x % n \in 0..(n - 1)
  OBVIOUS
<1>2. q * n \in Nat
  BY <1>1
<1> HIDE DEF q
<1>3. q * n <= x /\ x < q * n + n
  BY <1>1, <1>2
<1> QED BY <1>1, <1>2, <1>3 DEF q

\* l4_trunc_page()
LEMMA TruncBounds ==
  ASSUME NEW x \in Nat
  PROVE  Trunc(x) \in Nat /\ Trunc(x) <= x /\ x < Trunc(x) + PageSize
BY Division, MachineAssumption DEF Trunc

\* l4_trunc_page() keeps the order.
LEMMA TruncAscends ==
  ASSUME NEW x \in Nat, NEW y \in Nat, x <= y
  PROVE  Trunc(x) <= Trunc(y)
<1> DEFINE p == x \div PageSize
           q == y \div PageSize
<1>1. PageSize \in Nat \ {0}
  BY MachineAssumption
<1>2. p \in Nat /\ q \in Nat /\ p * PageSize <= x /\ y < q * PageSize + PageSize
  BY <1>1, Division
<1>3. p * PageSize \in Nat /\ q * PageSize \in Nat
  BY <1>1, <1>2
<1> HIDE DEF p, q
<1>4. p <= q
  <2> SUFFICES ASSUME p >= q + 1 PROVE FALSE
    BY <1>2
  <2>1. p * PageSize >= (q + 1) * PageSize
    BY <1>1, <1>2
  <2>2. (q + 1) * PageSize = q * PageSize + PageSize
    BY <1>1, <1>2
  <2> QED BY <1>1, <1>2, <1>3, <2>1, <2>2
<1>5. p * PageSize <= q * PageSize
  BY <1>1, <1>2, <1>4
<1> QED BY <1>5 DEF Trunc, p, q

\* The pages of an area hold all of it.
LEMMA PagedHolds ==
  ASSUME NEW a \in Area
  PROVE  /\ Paged(a) \in Area
         /\ Paged(a).start = Trunc(a.start)
         /\ Paged(a).start <= a.start
         /\ a.start + a.size <= Paged(a).start + Paged(a).size
<1>1. a.start \in Nat /\ a.size \in Nat /\ PageSize \in Nat \ {0}
  BY MachineAssumption DEF Area
<1> DEFINE t == Trunc(a.start)
           s == a.start - t + a.size
           y == s + PageSize - 1
<1>2. t \in Nat /\ t <= a.start
  BY <1>1, TruncBounds
<1>3. s \in Nat /\ y \in Nat /\ t + s = a.start + a.size
  BY <1>1, <1>2
<1>4. Trunc(y) \in Nat /\ y < Trunc(y) + PageSize
  BY <1>3, TruncBounds
<1>5. Paged(a) = [start |-> t, size |-> Trunc(y)]
  BY DEF Paged, At, Round
<1>6. s <= Trunc(y)
  <2> HIDE DEF s
  <2> QED BY <1>1, <1>3, <1>4
<1> HIDE DEF t, y, s
<1>7. Paged(a) \in Area
  BY <1>2, <1>4, <1>5 DEF Area
<1>8. Paged(a).start = t /\ Paged(a).size = Trunc(y)
  BY <1>5
<1>9. a.start + a.size <= t + Trunc(y)
  BY <1>1, <1>2, <1>3, <1>4, <1>6
<1> QED BY <1>2, <1>7, <1>8, <1>9 DEF t

-----------------------------------------------------------------------------
(* The invariant of the stub *)

\* How many of the areas reservation_add() has been called for
Taken == Len(Reserved(machine)) - Len(todo)

\* Every area so far lies within a reservation.
Held == \A i \in 1..Taken : \E k \in DOMAIN res : Inside(res[k], Paged(Reserved(machine)[i]))

\* A reservation begins with the pages of an area it has taken up, no earlier
\* one than its own number.
Begun == \A k \in DOMAIN res : \E i \in k..Taken : res[k].start = Paged(Reserved(machine)[i]).start

\* What is still to be reserved is the rest of what bootstrap() reserves, and
\* what is reserved is not lost if it comes in order.
Covered ==
  /\ todo \in Seq(Area) /\ Taken \in Nat
  /\ \A i \in 1..Len(todo) : todo[i] = Reserved(machine)[Taken + i]
  /\ Len(res) <= Taken
  /\ InOrder(machine) => Held /\ Begun

\* Every call is done before the 64-bit part is loaded, nothing is written
\* earlier, and a range of the allocator is RAM that is large enough.
Searching ==
  /\ spc \in {"cpu", "upper", "reserve", "paging", "load", "alloc", "loaded", "panic"}
  /\ spc \in {"paging", "load", "alloc"} => todo = <<>>
  /\ spc \in {"cpu", "upper", "reserve", "paging", "load"} => range = 0 /\ used = 0
  /\ spc \notin {"loaded", "panic"} => written = {}
  /\ written # {} => todo = <<>>
  /\ spc = "alloc" =>
       /\ machine.segs # <<>>
       /\ range # 0 => /\ machine.map[range].memory
                       /\ used <= machine.map[range].size
                       /\ Fits(machine.map[range], used, AllocSize)

StubType ==
  /\ machine \in Machines
  /\ res \in Seq(Area) /\ Len(res) <= MaxReservations
  /\ range \in 0..Len(machine.map)
  /\ used \in Nat

\* Nothing is loaded over a reservation.
Apart == \A k \in DOMAIN res : written \cap Cells(res[k]) = {}

\* The inductive strengthening of StubSparesAll and LoadedInRam.
StubInv == StubType /\ Covered /\ Searching /\ Apart /\ LoadedInRam

\* What bootstrap() reserves are areas.
LEMMA ReservedAreas ==
  ASSUME NEW m \in Machines
  PROVE  Reserved(m) \in Seq(Area)
<1>1. /\ m.image \in Area /\ m.mbi \in Seq(Area) /\ PageSize \in Nat
      /\ m.modules \in Seq([file : Area, cmdline : Area, segs : Seq(Area)])
  BY MachineAssumption
<1> DEFINE n == Min({3, Len(m.modules)})
<1>2. n \in Nat /\ n <= Len(m.modules)
  <2>1. {3, Len(m.modules)} \in SUBSET Nat /\ {3, Len(m.modules)} # {}
    BY <1>1
  <2> QED BY <2>1, MinIs
<1> HIDE DEF n
<1>3. \A i \in DOMAIN m.modules : m.modules[i].segs \in Seq(Area) /\ m.modules[i].cmdline \in Area /\ m.modules[i].file \in Area
  <2> DEFINE T == [file : Area, cmdline : Area, segs : Seq(Area)]
  <2>1. \A i \in DOMAIN m.modules : m.modules[i] \in T
    <3> HIDE DEF T
    <3>1. m.modules \in Seq(T)
      BY <1>1 DEF T
    <3> QED BY <3>1, ElementsOf
  <2>2. \A x \in T : x.segs \in Seq(Area) /\ x.cmdline \in Area /\ x.file \in Area
    <3> HIDE DEF Area
    <3> QED OBVIOUS
  <2> QED BY <2>1, <2>2, Zenon
<1>4. DOMAIN m.modules = 1..Len(m.modules) /\ Len(m.modules) \in Nat
  BY <1>1
<1> HIDE DEF Area
<1> DEFINE e == [i \in 1..n |-> m.modules[i].segs]
           c == [i \in DOMAIN m.modules |-> <<m.modules[i].cmdline, m.modules[i].file>>]
<1>5. e \in Seq(Seq(Area))
  BY <1>2, <1>3, <1>4
<1>6. c \in Seq(Seq(Area))
  <2>1. \A i \in DOMAIN m.modules : <<m.modules[i].cmdline, m.modules[i].file>> \in Seq(Area)
    BY <1>3
  <2> QED BY <1>4, <2>1
<1>7. ElfAreas(m) = FlattenSeq(e) /\ MbiAreas(m) = m.mbi \o FlattenSeq(c)
  BY DEF ElfAreas, MbiAreas, n
<1> HIDE DEF e, c
<1>8. ElfAreas(m) \in Seq(Area) /\ FlattenSeq(c) \in Seq(Area)
  BY <1>5, <1>6, <1>7, FlattenType
<1>9. MbiAreas(m) \in Seq(Area)
  BY <1>1, <1>7, <1>8
<1>10. At(0, PageSize) \in Area /\ At(PageSize, PageSize) \in Area
  BY <1>1 DEF At, Area
<1>11. <<m.image, At(0, PageSize), At(PageSize, PageSize)>> \in Seq(Area)
  BY <1>1, <1>10
<1> QED BY <1>8, <1>9, <1>11 DEF Reserved

\* reservation_add() keeps what a reservation holds and its start, and takes up
\* the new area, unless that ends where a reservation begins, or comes before
\* the last entry of a full list.
LEMMA AddTakesUp ==
  ASSUME NEW list \in Seq(Area), NEW n \in Area, Len(list) <= MaxReservations,
         \A k \in 1..Len(list) : ~DirectlyBefore(list[k], n),
         Len(list) = MaxReservations => list[Len(list)].start <= n.start
  PROVE  LET new == ReservationAdd(list, n) IN
         /\ new \in Seq(Area) /\ Len(new) <= MaxReservations
         /\ Len(new) \in {Len(list), Len(list) + 1}
         /\ \A k \in 1..Len(list) : /\ k \in 1..Len(new)
                                   /\ new[k].start = list[k].start
                                   /\ new[k].size >= list[k].size
         /\ Len(new) = Len(list) + 1 => new[Len(new)] = n
         /\ \E k \in 1..Len(new) : Inside(new[k], n)
<1> DEFINE I == { i \in 1..Len(list) : Inside(list[i], n) \/ DirectlyAfter(list[i], n) \/ DirectlyBefore(list[i], n) }
           k == IF I # {} THEN Min(I) ELSE 0
           new == ReservationAdd(list, n)
<1>1. /\ MaxReservations \in Nat \ {0} /\ Len(list) \in Nat
      /\ n.start \in Nat /\ n.size \in Nat
      /\ \A i \in 1..Len(list) : list[i] \in Area /\ list[i].start \in Nat /\ list[i].size \in Nat
  <2>1. \A a \in Area : a.start \in Nat /\ a.size \in Nat
    BY DEF Area
  <2>2. Len(list) \in Nat /\ \A i \in 1..Len(list) : list[i] \in Area
    BY ElementsOf, Zenon
  <2> QED BY <2>1, <2>2, MachineAssumption, Zenon
<1>2. (k # 0 => k \in I) /\ k \in Nat
  <2>1. I \in SUBSET (1..Len(list))
    OBVIOUS
  <2> HIDE DEF I
  <2> QED BY <1>1, <2>1, FirstOf
<1>3. new = CASE k # 0 -> [list EXCEPT ![k] = Joined(@, n)]
              [] k = 0 /\ Len(list) < MaxReservations -> Append(list, n)
              [] OTHER -> [list EXCEPT ![Len(list)] = Extended(@, n)]
  BY DEF ReservationAdd, SelectInSeq
<1>4. k # 0 => k \in 1..Len(list) /\ (Inside(list[k], n) \/ DirectlyAfter(list[k], n))
  BY <1>1, <1>2
<1> HIDE DEF I, k, new
<1>5. CASE k # 0
  <2> DEFINE j == Joined(list[k], n)
  <2>1. new = [list EXCEPT ![k] = j]
    BY <1>3, <1>5
  <2>2. /\ j \in Area /\ j.start = list[k].start /\ j.size >= list[k].size /\ Inside(j, n)
    <3>1. list[k].start \in Nat /\ list[k].size \in Nat /\ list[k] \in Area
      BY <1>1, <1>4, <1>5
    <3>2. CASE Inside(list[k], n)
      <4>1. j = list[k]
        BY <3>2, Zenon DEF Joined
      <4> QED BY <3>1, <3>2, <4>1
    <3>3. CASE ~Inside(list[k], n) /\ DirectlyAfter(list[k], n)
      <4>1. j = [start |-> list[k].start, size |-> list[k].size + n.size]
        BY <3>3 DEF Joined, At
      <4> QED BY <1>1, <3>1, <3>3, <4>1, SMTT(30) DEF Inside, DirectlyAfter, Area
    <3> QED BY <1>4, <1>5, <3>2, <3>3
  <2> HIDE DEF j
  <2>3. /\ new \in Seq(Area) /\ Len(new) = Len(list)
        /\ new[k] = j /\ \A i \in 1..Len(list) : i # k => new[i] = list[i]
    BY <1>1, <1>4, <1>5, <2>1, <2>2
  <2>4. \A i \in 1..Len(list) : new[i].start = list[i].start /\ new[i].size >= list[i].size
    BY <1>1, <2>2, <2>3
  <2> QED BY <1>1, <1>4, <1>5, <2>2, <2>3, <2>4 DEF new
<1>6. CASE k = 0 /\ Len(list) < MaxReservations
  <2>1. new = Append(list, n)
    BY <1>3, <1>6
  <2>2. /\ new \in Seq(Area) /\ Len(new) = Len(list) + 1 /\ new[Len(list) + 1] = n
        /\ \A i \in 1..Len(list) : i \in 1..Len(new) /\ new[i] = list[i]
    BY <1>1, <2>1
  <2>3. Len(new) \in 1..Len(new) /\ Inside(n, n)
    BY <1>1, <2>2 DEF Inside
  <2>4. \A i \in 1..Len(list) : new[i].start = list[i].start /\ new[i].size >= list[i].size
    BY <1>1, <2>2
  <2> QED BY <1>1, <1>6, <2>2, <2>3, <2>4 DEF new
<1>7. CASE k = 0 /\ ~(Len(list) < MaxReservations)
  <2> DEFINE l == Len(list)
             x == Extended(list[l], n)
  <2>1. l \in 1..Len(list) /\ l = MaxReservations
    BY <1>1, <1>7
  <2>2. new = [list EXCEPT ![l] = x]
    BY <1>3, <1>7
  <2>3. x \in Area /\ x.start = list[l].start /\ x.size >= list[l].size /\ Inside(x, n)
    <3> DEFINE s == Min({list[l].start, n.start})
    <3>1. list[l].start \in Nat /\ list[l].size \in Nat /\ list[l].start <= n.start
      BY <1>1, <2>1
    <3>2. s = list[l].start
      <4>1. s \in {list[l].start, n.start} /\ \A y \in {list[l].start, n.start} : s <= y
        BY <1>1, <3>1, MinIs
      <4> HIDE DEF s
      <4> QED BY <1>1, <3>1, <4>1
    <3> DEFINE z == IF s + list[l].size < n.start + n.size THEN n.start + n.size - s ELSE list[l].size
    <3>3. x = [start |-> s, size |-> z]
      BY DEF Extended, At
    <3> HIDE DEF s
    <3>4. z \in Nat /\ z >= list[l].size /\ n.start + n.size <= s + z
      <4>1. ASSUME NEW a \in Nat, NEW b \in Nat, NEW c \in Nat, NEW d \in Nat, a <= c
            PROVE  LET y == IF a + b < c + d THEN c + d - a ELSE b
                   IN y \in Nat /\ y >= b /\ c + d <= a + y
        BY <4>1
      <4> QED BY <1>1, <3>1, <3>2, <4>1
    <3> HIDE DEF z
    <3>5. x.start = s /\ x.size = z /\ x \in Area
      BY <3>1, <3>2, <3>3, <3>4 DEF Area
    <3> QED BY <1>1, <3>1, <3>2, <3>4, <3>5 DEF Inside
  <2> HIDE DEF x, l
  <2>4. /\ new \in Seq(Area) /\ Len(new) = Len(list)
        /\ new[l] = x /\ \A i \in 1..Len(list) : i # l => new[i] = list[i]
    BY <1>1, <2>1, <2>2, <2>3
  <2>5. \A i \in 1..Len(list) : new[i].start = list[i].start /\ new[i].size >= list[i].size
    BY <1>1, <2>3, <2>4
  <2> QED BY <1>1, <2>1, <2>3, <2>4, <2>5 DEF new
<1> QED BY <1>5, <1>6, <1>7

\* In whatever order the areas come, reservation_add() leaves a list of areas
\* that is not too long.
LEMMA AddKeepsType ==
  ASSUME NEW list \in Seq(Area), NEW n \in Area, Len(list) <= MaxReservations
  PROVE  LET new == ReservationAdd(list, n) IN
         /\ new \in Seq(Area) /\ Len(new) <= MaxReservations
         /\ Len(new) \in {Len(list), Len(list) + 1}
<1> DEFINE I == { i \in 1..Len(list) : Inside(list[i], n) \/ DirectlyAfter(list[i], n) \/ DirectlyBefore(list[i], n) }
           k == IF I # {} THEN Min(I) ELSE 0
           l == Len(list)
           new == ReservationAdd(list, n)
<1>1. /\ MaxReservations \in Nat \ {0} /\ l \in Nat
      /\ n.start \in Nat /\ n.size \in Nat
      /\ \A i \in 1..l : list[i] \in Area /\ list[i].start \in Nat /\ list[i].size \in Nat
  <2>1. \A a \in Area : a.start \in Nat /\ a.size \in Nat
    BY DEF Area
  <2>2. Len(list) \in Nat /\ \A i \in 1..Len(list) : list[i] \in Area
    BY ElementsOf, Zenon
  <2> QED BY <2>1, <2>2, MachineAssumption, Zenon
<1>2. k # 0 => k \in 1..l
  <2>1. I \in SUBSET (1..Len(list))
    OBVIOUS
  <2> HIDE DEF I
  <2> QED BY <1>1, <2>1, FirstOf
<1>3. new = CASE k # 0 -> [list EXCEPT ![k] = Joined(@, n)]
              [] k = 0 /\ l < MaxReservations -> Append(list, n)
              [] OTHER -> [list EXCEPT ![l] = Extended(@, n)]
  BY DEF ReservationAdd, SelectInSeq
<1> HIDE DEF I, k, new
<1>4. ASSUME NEW j \in 1..l, NEW a \in Area, new = [list EXCEPT ![j] = a]
      PROVE  new \in Seq(Area) /\ Len(new) = l
  BY <1>4
<1>5. CASE k # 0
  <2>1. Joined(list[k], n) \in Area
    <3>1. list[k] \in Area /\ list[k].start \in Nat /\ list[k].size \in Nat
      BY <1>1, <1>2, <1>5
    <3>2. At(list[k].start, list[k].size + n.size) \in Area /\ At(n.start, list[k].size) \in Area
      BY <1>1, <3>1 DEF At, Area
    <3> QED BY <3>1, <3>2 DEF Joined
  <2>2. new = [list EXCEPT ![k] = Joined(list[k], n)]
    BY <1>3, <1>5
  <2> QED BY <1>1, <1>2, <1>4, <1>5, <2>1, <2>2 DEF new
<1>6. CASE k = 0 /\ l < MaxReservations
  <2>1. new = Append(list, n)
    BY <1>3, <1>6
  <2> QED BY <1>1, <1>6, <2>1 DEF new
<1>7. CASE k = 0 /\ ~(l < MaxReservations)
  <2>1. l \in 1..l /\ l = MaxReservations
    BY <1>1, <1>7
  <2>2. new = [list EXCEPT ![l] = Extended(list[l], n)]
    BY <1>3, <1>7
  <2>3. Extended(list[l], n) \in Area
    <3>1. list[l].start \in Nat /\ list[l].size \in Nat
      BY <1>1, <2>1
    <3> DEFINE m == Min({list[l].start, n.start})
    <3>2. m \in Nat /\ m <= n.start
      BY <1>1, <3>1, MinIs
    <3> HIDE DEF m
    <3>3. /\ n.start + n.size - m \in Nat
          /\ Extended(list[l], n) = At(m, IF m + list[l].size < n.start + n.size THEN n.start + n.size - m ELSE list[l].size)
      BY <1>1, <3>2 DEF Extended, m
    <3> QED BY <3>1, <3>2, <3>3 DEF At, Area
  <2> QED BY <1>1, <1>4, <2>1, <2>2, <2>3 DEF new
<1> QED BY <1>5, <1>6, <1>7

\* One call of reservation_add().
LEMMA ReserveStep ==
  ASSUME StubInv, Reserve32
  PROVE  StubInv'
<1>1. /\ StubType /\ Covered /\ Searching /\ Apart /\ LoadedInRam
      /\ spc = "reserve" /\ todo # <<>> /\ machine \in Machines
      /\ written = {} /\ range = 0 /\ used = 0
  BY DEF StubInv, Searching, Reserve32, StubType
<1>2. CASE SPanic
  <2>1. /\ spc' = "panic" /\ UNCHANGED <<machine, res, todo, upper, range, used, written>>
    BY <1>2 DEF SPanic
  <2>2. StubType' /\ Covered'
    BY <1>1, <2>1 DEF StubType, Covered, Held, Begun, Taken
  <2>3. Searching'
    BY <1>1, <2>1 DEF Searching
  <2>4. Apart' /\ LoadedInRam'
    BY <1>1, <2>1 DEF Apart, LoadedInRam
  <2> QED BY <2>2, <2>3, <2>4 DEF StubInv
<1>3. CASE ~SPanic
  <2> DEFINE R == Reserved(machine)
             n == Paged(Head(todo))
             new == ReservationAdd(res, n)
  <2>1. /\ res' = new /\ todo' = Tail(todo)
        /\ UNCHANGED <<machine, upper, range, used, written, spc>>
    BY <1>3, Zenon DEF Reserve32
  <2>2. R \in Seq(Area) /\ Len(R) \in Nat /\ \A i \in 1..Len(R) : R[i] \in Area
    BY <1>1, ReservedAreas, ElementsOf, Zenon
  <2>3. /\ todo \in Seq(Area) /\ Taken \in Nat /\ Len(todo) \in Nat /\ Len(todo) >= 1
        /\ Len(R) = Taken + Len(todo) /\ Len(res) <= Taken
        /\ \A i \in 1..Len(todo) : todo[i] = R[Taken + i]
    BY <1>1, <2>2 DEF Covered, Held, Begun, Taken
  <2>4. /\ Head(todo) = R[Taken + 1] /\ Taken + 1 \in 1..Len(R)
        /\ Tail(todo) \in Seq(Area) /\ Len(Tail(todo)) = Len(todo) - 1
        /\ \A i \in 1..Len(Tail(todo)) : Tail(todo)[i] = R[Taken + 1 + i]
    BY <2>2, <2>3
  <2>5. n \in Area /\ n.start = Trunc(R[Taken + 1].start) /\ n = Paged(R[Taken + 1])
    BY <2>2, <2>4, PagedHolds
  <2>6. /\ res \in Seq(Area) /\ Len(res) <= MaxReservations /\ Len(res) \in Nat
        /\ DOMAIN res = 1..Len(res) /\ MaxReservations \in Nat \ {0}
    <3>1. res \in Seq(Area) /\ Len(res) <= MaxReservations /\ MaxReservations \in Nat \ {0}
      BY <1>1, MachineAssumption DEF StubType
    <3> QED BY <3>1, ElementsOf, Zenon
  <2>7. /\ new \in Seq(Area) /\ Len(new) <= MaxReservations
        /\ Len(new) \in {Len(res), Len(res) + 1}
    BY <2>5, <2>6, AddKeepsType
  <2>8. Taken' = Taken + 1 /\ Reserved(machine)' = R
    <3>1. Reserved(machine)' = R
      BY <2>1 DEF R, Reserved, ElfAreas, MbiAreas
    <3> QED BY <2>1, <2>2, <2>3, <2>4, <3>1 DEF Taken
  <2>9. ASSUME InOrder(machine)
        PROVE  /\ \A i \in 1..(Taken + 1) : \E k \in 1..Len(new) : Inside(new[k], Paged(R[i]))
               /\ \A k \in 1..Len(new) : \E i \in k..(Taken + 1) : new[k].start = Paged(R[i]).start
    <3>1. \A k \in 1..Len(res) : \E i \in k..Taken : res[k].start = Paged(R[i]).start
      BY <1>1, <2>6, <2>9, Zenon DEF Covered, Begun
    <3>2. \A i, j \in 1..Len(R) : i < j =>
            /\ ~DirectlyBefore(Paged(R[i]), Paged(R[j]))
            /\ i >= MaxReservations => R[i].start <= R[j].start
      BY <2>2, <2>9, ElementsOf DEF InOrder
    <3> HIDE DEF R, n, new
    <3>3. \A k \in 1..Len(res) : ~DirectlyBefore(res[k], n)
      <4> SUFFICES ASSUME NEW k \in 1..Len(res) PROVE ~DirectlyBefore(res[k], n)
        OBVIOUS
      <4>1. PICK i \in k..Taken : res[k].start = Paged(R[i]).start
        BY <2>6, <3>1
      <4>2. i \in 1..Len(R) /\ i < Taken + 1
        BY <2>2, <2>3, <2>6
      <4>3. ~DirectlyBefore(Paged(R[i]), n)
        BY <2>4, <2>5, <3>2, <4>2
      <4> QED BY <4>1, <4>3 DEF DirectlyBefore
    <3>4. Len(res) = MaxReservations => res[Len(res)].start <= n.start
      <4> SUFFICES ASSUME Len(res) = MaxReservations PROVE res[Len(res)].start <= n.start
        OBVIOUS
      <4>1. PICK i \in Len(res)..Taken : res[Len(res)].start = Paged(R[i]).start
        BY <2>6, <3>1
      <4>2. i \in 1..Len(R) /\ i < Taken + 1 /\ i >= MaxReservations
        BY <2>2, <2>3, <2>6
      <4>3. R[i].start <= R[Taken + 1].start /\ R[i] \in Area /\ R[Taken + 1] \in Area
        BY <2>2, <2>4, <3>2, <4>2
      <4>4. R[i].start \in Nat /\ R[Taken + 1].start \in Nat
        BY <4>3 DEF Area
      <4>5. Trunc(R[i].start) <= Trunc(R[Taken + 1].start)
        BY <4>3, <4>4, TruncAscends
      <4> QED BY <2>5, <4>1, <4>3, <4>5, PagedHolds
    <3>5. /\ new \in Seq(Area) /\ Len(new) <= MaxReservations
          /\ Len(new) \in {Len(res), Len(res) + 1}
          /\ \A k \in 1..Len(res) : /\ k \in 1..Len(new)
                                    /\ new[k].start = res[k].start
                                    /\ new[k].size >= res[k].size
          /\ Len(new) = Len(res) + 1 => new[Len(new)] = n
          /\ \E k \in 1..Len(new) : Inside(new[k], n)
      BY <2>5, <2>6, <3>3, <3>4, AddTakesUp DEF new
    <3>6. \A i \in 1..(Taken + 1) : \E k \in 1..Len(new) : Inside(new[k], Paged(R[i]))
      <4> SUFFICES ASSUME NEW i \in 1..(Taken + 1)
                   PROVE  \E k \in 1..Len(new) : Inside(new[k], Paged(R[i]))
        OBVIOUS
      <4>1. CASE i = Taken + 1
        BY <2>5, <3>5, <4>1
      <4>2. CASE i \in 1..Taken
        <5>1. PICK k \in DOMAIN res : Inside(res[k], Paged(R[i]))
          BY <1>1, <2>9, <4>2 DEF Covered, Held, R
        <5>2. k \in 1..Len(res) /\ res[k] \in Area
          BY <2>6, <5>1, ElementsOf
        <5>3. k \in 1..Len(new) /\ new[k].start = res[k].start /\ new[k].size >= res[k].size /\ new[k] \in Area
          BY <3>5, <5>2, ElementsOf
        <5>4. Paged(R[i]) \in Area
          BY <2>2, <2>3, <4>2, PagedHolds
        <5>5. /\ res[k].start \in Nat /\ res[k].size \in Nat /\ new[k].size \in Nat
              /\ Paged(R[i]).start \in Nat /\ Paged(R[i]).size \in Nat
          BY <5>2, <5>3, <5>4 DEF Area
        <5>6. Inside(new[k], Paged(R[i]))
          BY <5>1, <5>3, <5>5 DEF Inside
        <5> QED BY <5>3, <5>6
      <4> QED BY <2>3, <4>1, <4>2
    <3>7. \A k \in 1..Len(new) : \E i \in k..(Taken + 1) : new[k].start = Paged(R[i]).start
      <4> SUFFICES ASSUME NEW k \in 1..Len(new)
                   PROVE  \E i \in k..(Taken + 1) : new[k].start = Paged(R[i]).start
        OBVIOUS
      <4>1. CASE k \in 1..Len(res)
        <5>1. PICK i \in k..Taken : res[k].start = Paged(R[i]).start
          BY <2>6, <3>1, <4>1
        <5>2. i \in k..(Taken + 1) /\ new[k].start = res[k].start
          BY <2>3, <3>5, <4>1
        <5> QED BY <5>1, <5>2
      <4>2. CASE k \notin 1..Len(res)
        <5>1. k = Len(new) /\ Len(new) = Len(res) + 1
          BY <2>6, <3>5, <4>2
        <5>2. new[k] = Paged(R[Taken + 1])
          BY <2>5, <3>5, <5>1
        <5>3. Taken + 1 \in k..(Taken + 1)
          BY <2>3, <2>6, <5>1
        <5> QED BY <5>2, <5>3
      <4> QED BY <4>1, <4>2
    <3> QED BY <3>6, <3>7
  <2> HIDE DEF R, n, new
  <2>10. DOMAIN new = 1..Len(new) /\ Len(new) <= Taken + 1
    BY <2>3, <2>6, <2>7, ElementsOf
  <2>11. Covered'
    <3>1. todo' \in Seq(Area) /\ Taken' \in Nat /\ Len(res') <= Taken'
      BY <2>1, <2>3, <2>4, <2>8, <2>10
    <3>2. \A i \in 1..Len(todo') : todo'[i] = Reserved(machine)'[Taken' + i]
      BY <2>1, <2>4, <2>8
    <3>3. InOrder(machine)' => Held' /\ Begun'
      <4> SUFFICES ASSUME InOrder(machine)' PROVE Held' /\ Begun'
        OBVIOUS
      <4>1. InOrder(machine)
        BY <2>1
      <4>2. \A i \in 1..Taken' : \E k \in DOMAIN res' : Inside(res'[k], Paged(Reserved(machine)'[i]))
        BY <2>1, <2>8, <2>9, <2>10, <4>1, Zenon
      <4>3. \A k \in DOMAIN res' : \E i \in k..Taken' : res'[k].start = Paged(Reserved(machine)'[i]).start
        BY <2>1, <2>8, <2>9, <2>10, <4>1, Zenon
      <4> QED BY <4>2, <4>3 DEF Held, Begun, Inside, Paged, At, Trunc, Round
    <3> QED BY <3>1, <3>2, <3>3 DEF Covered
  <2>12. StubType' /\ Searching'
    BY <1>1, <2>1, <2>7 DEF StubType, Searching
  <2>13. Apart' /\ LoadedInRam'
    BY <1>1, <2>1 DEF Apart, LoadedInRam
  <2> QED BY <2>11, <2>12, <2>13 DEF StubInv
<1> QED BY <1>2, <1>3

\* overlaps_reservation()
LEMMA OverlapRight ==
  ASSUME StubType, NEW start \in Nat, NEW size \in Nat
  PROVE  /\ OverlapEnd(start, size) \in Nat
         /\ OverlapEnd(start, size) # 0 => OverlapEnd(start, size) > start
         /\ OverlapEnd(start, size) = 0 =>
              \A k \in 1..Len(res) : res[k].start >= start + size \/ res[k].start + res[k].size <= start
<1> DEFINE I == { i \in 1..Len(res) : res[i].start < start + size /\ res[i].start + res[i].size > start }
           k == IF I # {} THEN Min(I) ELSE 0
<1>1. /\ Len(res) \in Nat
      /\ \A i \in 1..Len(res) : res[i].start \in Nat /\ res[i].size \in Nat
  <2>1. \A a \in Area : a.start \in Nat /\ a.size \in Nat
    BY DEF Area
  <2> QED BY <2>1, ElementsOf, Zenon DEF StubType
<1>2. (k # 0 => k \in I) /\ (k = 0 => I = {}) /\ k \in Nat
  <2>1. I \in SUBSET (1..Len(res))
    OBVIOUS
  <2> HIDE DEF I
  <2> QED BY <1>1, <2>1, FirstOf
<1>3. OverlapEnd(start, size) = IF k = 0 THEN 0 ELSE res[k].start + res[k].size
  BY DEF OverlapEnd, SelectInSeq
<1> HIDE DEF k
<1>4. CASE k = 0
  <2>1. \A i \in 1..Len(res) : ~(res[i].start < start + size /\ res[i].start + res[i].size > start)
    BY <1>2, <1>4
  <2> QED BY <1>1, <1>3, <1>4, <2>1
<1>5. CASE k # 0
  <2>1. k \in 1..Len(res) /\ res[k].start + res[k].size > start
    BY <1>2, <1>5
  <2>2. res[k].start \in Nat /\ res[k].size \in Nat
    BY <1>1, <2>1
  <2> QED BY <1>3, <1>5, <2>1, <2>2
<1> QED BY <1>4, <1>5

\* What overlaps no reservation has no cell of one.
LEMMA ApartFromEach ==
  ASSUME StubType, NEW start \in Nat, NEW size \in Nat, OverlapEnd(start, size) = 0,
         NEW k \in DOMAIN res, NEW c \in Int, start <= c, c < start + size
  PROVE  c \notin Cells(res[k])
<1>1. k \in 1..Len(res) /\ res[k].start \in Nat /\ res[k].size \in Nat
  <2>1. res \in Seq(Area)
    BY DEF StubType
  <2>2. k \in 1..Len(res) /\ res[k] \in Area
    BY <2>1, ElementsOf, Zenon
  <2> QED BY <2>2 DEF Area
<1>2. res[k].start >= start + size \/ res[k].start + res[k].size <= start
  BY <1>1, OverlapRight
<1>3. ~(res[k].start <= c /\ c < res[k].start + res[k].size)
  BY <1>1, <1>2
<1> QED BY <1>1, <1>3 DEF Cells

\* What is apart from the reservations is apart from all that was reserved, if
\* it came in order.
LEMMA SparesAll ==
  ASSUME StubInv
  PROVE  StubSparesAll
<1>1. StubType /\ Covered /\ Searching /\ Apart
  BY DEF StubInv
<1> DEFINE R == Reserved(machine)
<1>2. ASSUME InOrder(machine), NEW i \in DOMAIN R, NEW c \in written PROVE c \notin Cells(Paged(R[i]))
  <2>1. R \in Seq(Area) /\ Len(R) \in Nat /\ DOMAIN R = 1..Len(R) /\ R[i] \in Area
    <3>1. R \in Seq(Area)
      BY <1>1, ReservedAreas DEF StubType
    <3> QED BY <1>2, <3>1, ElementsOf, Zenon
  <2>2. i \in 1..Taken
    <3>1. Len(todo) = 0
      BY <1>1, <1>2 DEF Searching
    <3>2. Taken = Len(R)
      BY <2>1, <3>1 DEF Taken
    <3> QED BY <1>2, <2>1, <3>2, Zenon
  <2> DEFINE p == Paged(R[i])
  <2>3. PICK k \in DOMAIN res : Inside(res[k], p)
    BY <1>1, <1>2, <2>2 DEF Covered, Held
  <2>4. res[k].start \in Nat /\ res[k].size \in Nat
    <3>1. res \in Seq(Area)
      BY <1>1 DEF StubType
    <3>2. res[k] \in Area
      BY <2>3, <3>1, ElementsOf, Zenon
    <3> QED BY <3>2 DEF Area
  <2>5. p \in Area
    BY <2>1, PagedHolds
  <2>6. p.start \in Nat /\ p.size \in Nat
    BY <2>5 DEF Area
  <2>7. c \notin Cells(res[k])
    BY <1>1, <1>2, <2>3 DEF Apart
  <2> HIDE DEF p, R
  <2>8. c \notin Cells(p)
    BY <2>3, <2>4, <2>6, <2>7 DEF Inside, Cells
  <2> QED BY <2>8 DEF p
<1> QED BY <1>1, <1>2 DEF StubSparesAll, Apart

\* load_elf() looks at all segments for the area it needs.
LEMMA SegmentBounds ==
  ASSUME machine \in Machines, machine.segs # <<>>
  PROVE  /\ MinAddr \in Nat /\ AllocSize \in Nat
         /\ \A i \in DOMAIN machine.segs :
              /\ machine.segs[i].start \in Nat /\ machine.segs[i].size \in Nat
              /\ MinAddr <= machine.segs[i].start
              /\ machine.segs[i].start + machine.segs[i].size <= MinAddr + AllocSize
<1> DEFINE S == machine.segs
           n == Len(S)
           f == [i \in 1..n |-> S[i].start + S[i].size]
           Low == { S[i].start : i \in DOMAIN S }
           High == { f[i] : i \in 1..n }
<1>1. S \in Seq(Area) /\ machine.align \in Nat
  BY MachineAssumption
<1>2. n \in Nat /\ DOMAIN S = 1..n /\ \A i \in 1..n : S[i] \in Area
  BY <1>1, ElementsOf, Zenon
<1>3. \A i \in 1..n : S[i].start \in Nat /\ S[i].size \in Nat
  <2>1. \A a \in Area : a.start \in Nat /\ a.size \in Nat
    BY DEF Area
  <2> QED BY <1>2, <2>1
<1>4. n # 0
  BY <1>1
<1>5. MaxAddr32 = Max(High)
  <2>1. High = { S[i].start + S[i].size : i \in DOMAIN S }
    BY <1>2, Zenon
  <2> QED BY <2>1 DEF MaxAddr32
<1>6. f \in [1..n -> Nat]
  BY <1>3
<1>7. Max(High) \in High /\ \A y \in High : y <= Max(High)
  <2>1. n \in Nat \ {0}
    BY <1>2, <1>4
  <2> HIDE DEF f, n
  <2> QED BY <1>6, <2>1, GreatestIs
<1>8. Min(Low) \in Nat /\ \A i \in 1..n : Min(Low) <= S[i].start
  <2>1. Low \in SUBSET Nat /\ S[1].start \in Low
    BY <1>2, <1>3, <1>4
  <2>2. \A i \in 1..n : S[i].start \in Low
    BY <1>2
  <2> HIDE DEF Low
  <2>3. Min(Low) \in Low /\ \A y \in Low : Min(Low) <= y
    BY <2>1, MinIs
  <2> QED BY <2>1, <2>2, <2>3
<1>9. MinAddr \in Nat /\ MinAddr <= Min(Low)
  <2>1. MinAddr = IF machine.align = 0 THEN 0 ELSE (Min(Low) \div machine.align) * machine.align
    BY DEF MinAddr
  <2> HIDE DEF Low
  <2>2. machine.align = 0 => MinAddr = 0
    BY <2>1
  <2>3. ASSUME NEW a \in Nat \ {0}, NEW x \in Nat
        PROVE  (x \div a) * a \in Nat /\ (x \div a) * a <= x
    BY Division
  <2>4. machine.align # 0 => MinAddr = (Min(Low) \div machine.align) * machine.align
    BY <2>1
  <2>5. CASE machine.align = 0
    BY <1>8, <2>2, <2>5
  <2>6. CASE machine.align # 0
    <3>1. machine.align \in Nat \ {0} /\ Min(Low) \in Nat
      BY <1>1, <1>8, <2>6
    <3> QED BY <2>3, <2>4, <2>6, <3>1, Zenon
  <2> QED BY <2>5, <2>6
<1>10. \A i \in 1..n : f[i] \in High /\ f[i] = S[i].start + S[i].size
  OBVIOUS
<1>11. High \subseteq Nat
  <2> HIDE DEF f
  <2> QED BY <1>6
<1> HIDE DEF S, n, f, Low, High
<1>12. \A i \in 1..n : MinAddr <= S[i].start /\ S[i].start + S[i].size <= MaxAddr32
  <2> SUFFICES ASSUME NEW i \in 1..n PROVE MinAddr <= S[i].start /\ S[i].start + S[i].size <= MaxAddr32
    OBVIOUS
  <2>1. S[i].start \in Nat /\ Min(Low) <= S[i].start
    BY <1>3, <1>8
  <2> QED BY <1>5, <1>7, <1>8, <1>9, <1>10, <2>1
<1>13. MaxAddr32 \in Nat
  BY <1>5, <1>7, <1>11
<1>14. AllocSize \in Nat /\ MinAddr + AllocSize = MaxAddr32
  <2>1. 1 \in 1..n
    BY <1>2, <1>4
  <2>2. MinAddr <= S[1].start /\ S[1].start + S[1].size <= MaxAddr32 /\ S[1].start \in Nat /\ S[1].size \in Nat
    BY <1>3, <1>12, <2>1
  <2> QED BY <1>9, <1>13, <2>2 DEF AllocSize
<1> QED BY <1>2, <1>3, <1>9, <1>12, <1>14 DEF S

\* The segments of the 64-bit part, moved by d
Moved(d) ==
  UNION { Cells(At(machine.segs[i].start + d, machine.segs[i].size)) : i \in DOMAIN machine.segs }

\* A cell of the moved segments is one of a moved segment.
LEMMA MovedCell ==
  ASSUME NEW d \in Int, NEW c \in Moved(d), machine \in Machines
  PROVE  /\ c \in Int
         /\ \E i \in DOMAIN machine.segs :
              /\ machine.segs[i].start \in Nat /\ machine.segs[i].size \in Nat
              /\ machine.segs[i].start + d <= c
              /\ c < machine.segs[i].start + machine.segs[i].size + d
<1>1. PICK i \in DOMAIN machine.segs : c \in Cells(At(machine.segs[i].start + d, machine.segs[i].size))
  BY DEF Moved
<1>2. machine.segs[i] \in Area
  <2>1. machine.segs \in Seq(Area)
    BY MachineAssumption
  <2> QED BY <2>1, ElementsOf, Zenon
<1> DEFINE s == machine.segs[i].start
           z == machine.segs[i].size
<1>3. s \in Nat /\ z \in Nat
  BY <1>2 DEF Area
<1>4. c \in (s + d)..(s + d + z - 1)
  BY <1>1 DEF Cells, At
<1> HIDE DEF s, z
<1>5. c \in Int /\ s + d <= c /\ c < s + z + d
  BY <1>3, <1>4
<1> QED BY <1>3, <1>5 DEF s, z

\* next_ram_range() answers with RAM of the map that is large enough, if what
\* lies behind the map does not look like RAM.
LEMMA NextIsRam ==
  ASSUME machine \in Machines, ~machine.behind.memory, NEW i \in Nat, i <= Len(machine.map), NEW size \in Nat
  PROVE  /\ NextRamRange(i, size) \in 0..Len(machine.map)
         /\ NextRamRange(i, size) # 0 => /\ machine.map[NextRamRange(i, size)].memory
                                         /\ Fits(machine.map[NextRamRange(i, size)], 0, size)
<1> DEFINE n == Len(machine.map)
           ok == { k \in {i + 1} \cup (i + 2)..n : MapEntry(k).memory /\ Fits(MapEntry(k), 0, size) }
<1>1. n \in Nat
  BY MachineAssumption, ElementsOf
<1>2. NextRamRange(i, size) = IF ok = {} THEN 0 ELSE Min(ok)
  BY DEF NextRamRange
<1>3. CASE ok = {}
  BY <1>1, <1>2, <1>3
<1>4. CASE ok # {}
  <2>1. ok \in SUBSET Nat
    BY <1>1
  <2>2. Min(ok) \in ok
    <3> HIDE DEF ok
    <3> QED BY <1>4, <2>1, MinIs
  <2>3. PICK k \in {i + 1} \cup (i + 2)..n : k = Min(ok) /\ MapEntry(k).memory /\ Fits(MapEntry(k), 0, size)
    BY <2>2
  <2>4. k \in Nat /\ k >= 1
    BY <1>1, <2>3
  <2>5. k <= n /\ MapEntry(k) = machine.map[k]
    BY <1>1, <2>3, <2>4 DEF MapEntry
  <2> HIDE DEF ok, n
  <2>6. NextRamRange(i, size) = k
    BY <1>2, <1>4, <2>3
  <2> QED BY <1>1, <2>3, <2>4, <2>5, <2>6 DEF n
<1> QED BY <1>3, <1>4

\* The 64-bit part is loaded to where it was linked, or an area is looked for.
LEMMA LoadStep ==
  ASSUME StubInv, ~machine.behind.memory, LoadElf
  PROVE  StubInv'
<1>1. /\ StubType /\ Covered /\ Searching /\ Apart /\ LoadedInRam
      /\ spc = "load" /\ todo = <<>> /\ machine \in Machines
      /\ written = {} /\ range = 0 /\ used = 0
      /\ UNCHANGED <<machine, res, todo, upper, used>>
  BY DEF StubInv, Searching, LoadElf, StubType
<1>2. Covered'
  BY <1>1 DEF Covered, Held, Begun, Taken
<1>3. CASE \A i \in DOMAIN machine.segs : UsableRange(machine.segs[i])
  <2>1. LoadAt(0) /\ range' = range
    BY <1>3, Zenon DEF LoadElf
  <2>2. written' = Moved(0) /\ spc' \in {"loaded", "panic"}
    BY <2>1 DEF LoadAt, Moved
  <2>3. StubType' /\ Searching' /\ LoadedInRam'
    BY <1>1, <2>1, <2>2 DEF StubType, Searching, LoadedInRam
  <2>4. Apart'
    <3> SUFFICES ASSUME NEW k \in DOMAIN res, NEW c \in Moved(0)
                 PROVE  c \notin Cells(res[k])
      BY <1>1, <2>2 DEF Apart
    <3>1. PICK j \in DOMAIN machine.segs :
              /\ machine.segs[j].start \in Nat /\ machine.segs[j].size \in Nat
              /\ machine.segs[j].start + 0 <= c
              /\ c < machine.segs[j].start + machine.segs[j].size + 0
      BY <1>1, MovedCell
    <3>2. c \in Int
      BY <1>1, MovedCell
    <3> DEFINE s == machine.segs[j].start
               z == machine.segs[j].size
    <3>3. OverlapEnd(s, z) = 0
      BY <1>3, <3>1 DEF UsableRange
    <3>4. s \in Nat /\ z \in Nat /\ s <= c /\ c < s + z
      BY <3>1, <3>2
    <3> HIDE DEF s, z
    <3> QED BY <1>1, <3>2, <3>3, <3>4, ApartFromEach
  <2> QED BY <1>2, <2>3, <2>4 DEF StubInv
<1>4. CASE ~(\A i \in DOMAIN machine.segs : UsableRange(machine.segs[i]))
  <2>1. range' = NextRamRange(0, AllocSize) /\ spc' = "alloc" /\ written' = written
    BY <1>4, Zenon DEF LoadElf
  <2>2. machine.segs # <<>>
    BY <1>4
  <2>3. AllocSize \in Nat
    BY <1>1, <2>2, SegmentBounds
  <2>4. /\ range' \in 0..Len(machine.map)
        /\ range' # 0 => machine.map[range'].memory /\ Fits(machine.map[range'], 0, AllocSize)
    <3>1. 0 <= Len(machine.map)
      BY <1>1, MachineAssumption, ElementsOf
    <3> QED BY <1>1, <2>1, <2>3, <3>1, NextIsRam
  <2>5. StubType' /\ Apart' /\ LoadedInRam'
    BY <1>1, <2>1, <2>4 DEF StubType, Apart, LoadedInRam
  <2>6. AllocSize' = AllocSize
    BY <1>1 DEF AllocSize, MaxAddr32, MinAddr
  <2>7. range' # 0 => machine.map[range'].size \in Nat
    <3>1. machine.map \in Seq(MemRange)
      BY <1>1, MachineAssumption
    <3>2. \A i \in 1..Len(machine.map) : machine.map[i] \in MemRange
      BY <3>1, ElementsOf, Zenon
    <3>3. \A e \in MemRange : e.size \in Nat
      BY DEF MemRange
    <3>4. range' # 0 => range' \in 1..Len(machine.map)
      BY <2>4, <3>1
    <3> QED BY <3>2, <3>3, <3>4, Zenon
  <2>8. Searching'
    <3>1. spc' = "alloc" /\ todo' = <<>> /\ written' = {} /\ machine'.segs # <<>>
      BY <1>1, <2>1, <2>2
    <3>2. range' # 0 => /\ machine'.map[range'].memory
                        /\ used' <= machine'.map[range'].size
                        /\ Fits(machine'.map[range'], used', AllocSize')
      BY <1>1, <2>4, <2>6, <2>7
    <3> QED BY <3>1, <3>2 DEF Searching, Fits
  <2> QED BY <1>2, <2>5, <2>8 DEF StubInv
<1> QED BY <1>3, <1>4

\* One round of mm_alloc_alloc()'s loop.
LEMMA AllocStep ==
  ASSUME StubInv, ~machine.behind.memory, AllocTry
  PROVE  StubInv'
<1>1. /\ StubType /\ Covered /\ Searching /\ Apart /\ LoadedInRam
      /\ spc = "alloc" /\ todo = <<>> /\ machine \in Machines /\ machine.segs # <<>>
      /\ written = {} /\ used \in Nat /\ range \in 0..Len(machine.map)
      /\ range # 0 => /\ machine.map[range].memory /\ used <= machine.map[range].size
                      /\ Fits(machine.map[range], used, AllocSize)
  BY DEF StubInv, Searching, AllocTry, StubType
<1>2. CASE range = 0
  <2>1. SPanic
    BY <1>2 DEF AllocTry
  <2>2. spc' = "panic" /\ UNCHANGED <<machine, res, todo, upper, range, used, written>>
    BY <2>1 DEF SPanic
  <2>3. StubType' /\ Covered'
    BY <1>1, <2>2 DEF StubType, Covered, Held, Begun, Taken
  <2>4. Searching' /\ Apart' /\ LoadedInRam'
    BY <1>1, <1>2, <2>2 DEF Searching, Apart, LoadedInRam
  <2> QED BY <2>3, <2>4 DEF StubInv
<1>3. CASE range # 0
  <2> DEFINE e == MapEntry(range)
             z == AllocSize
             s == e.addr + used
             over == OverlapEnd(s, z)
             past == over - e.addr
  <2>1. range \in 1..Len(machine.map) /\ e = machine.map[range] /\ Len(machine.map) \in Nat
    <3>1. Len(machine.map) \in Nat
      BY <1>1, MachineAssumption, ElementsOf
    <3> QED BY <1>1, <1>3, <3>1 DEF MapEntry
  <2>2. e.addr \in Nat /\ e.size \in Nat
    <3>1. machine.map \in Seq(MemRange)
      BY <1>1, MachineAssumption
    <3>2. \A x \in MemRange : x.size \in Nat /\ x.addr \in Nat
      BY DEF MemRange
    <3> QED BY <2>1, <3>1, <3>2, ElementsOf, Zenon
  <2>3. /\ MinAddr \in Nat /\ z \in Nat
        /\ \A i \in DOMAIN machine.segs :
              /\ machine.segs[i].start \in Nat /\ machine.segs[i].size \in Nat
              /\ MinAddr <= machine.segs[i].start
              /\ machine.segs[i].start + machine.segs[i].size <= MinAddr + z
    BY <1>1, SegmentBounds
  <2>4. e.memory /\ used <= e.size /\ e.size - used >= z /\ e.addr + used + z <= Limit
    <3> HIDE DEF e, z
    <3> QED BY <1>1, <1>3, <2>1, <2>2 DEF Fits, z
  <2>5. s \in Nat /\ over \in Nat /\ (over # 0 => over > s)
    <3>1. s \in Nat
      BY <1>1, <2>2
    <3> HIDE DEF s, z
    <3> QED BY <1>1, <2>3, <3>1, OverlapRight
  <2>6. IF over = 0
        THEN /\ LoadAt(e.addr + used - MinAddr)
             /\ used' = used + z
             /\ UNCHANGED <<machine, res, todo, upper, range>>
        ELSE /\ IF e.size <= past \/ ~Fits(e, past, z)
                THEN range' = NextRamRange(range, z) /\ used' = 0
                ELSE range' = range /\ used' = past
             /\ UNCHANGED <<machine, res, todo, upper, written, spc>>
    BY <1>3, Zenon DEF AllocTry
  <2>7. UNCHANGED <<machine, res, todo>>
    BY <2>6
  <2>8. Covered'
    BY <1>1, <2>7 DEF Covered, Held, Begun, Taken
  <2>9. CASE over = 0
    <3>1. LoadAt(e.addr + used - MinAddr) /\ used' = used + z /\ range' = range
      BY <2>6, <2>9
    <3>2. written' = Moved(e.addr + used - MinAddr) /\ spc' \in {"loaded", "panic"}
      <4>1. written' = Moved(e.addr + used - MinAddr)
        BY <3>1, Zenon DEF LoadAt, Moved
      <4>2. spc' \in {"loaded", "panic"}
        BY <3>1, Zenon DEF LoadAt
      <4> QED BY <4>1, <4>2
    <3>3. ASSUME NEW c \in Moved(e.addr + used - MinAddr) PROVE c \in Int /\ s <= c /\ c < s + z
      <4>1. e.addr + used - MinAddr \in Int
        BY <1>1, <2>2, <2>3
      <4>2. PICK j \in DOMAIN machine.segs :
              /\ machine.segs[j].start \in Nat /\ machine.segs[j].size \in Nat
              /\ machine.segs[j].start + (e.addr + used - MinAddr) <= c
              /\ c < machine.segs[j].start + machine.segs[j].size + (e.addr + used - MinAddr)
        BY <1>1, <4>1, MovedCell
      <4>3. c \in Int
        BY <1>1, <4>1, MovedCell
      <4>4. /\ MinAddr <= machine.segs[j].start
            /\ machine.segs[j].start + machine.segs[j].size <= MinAddr + z
        BY <2>3, <4>2
      <4>5. ASSUME NEW a \in Nat, NEW b \in Nat, NEW m \in Nat, NEW y \in Nat, NEW t \in Nat,
                   m <= a, a + b <= m + y, a + (t - m) <= c, c < a + b + (t - m)
            PROVE  t <= c /\ c < t + y
        BY <4>3, <4>5
      <4>6. machine.segs[j].start \in Nat /\ machine.segs[j].size \in Nat /\ MinAddr \in Nat /\ z \in Nat /\ e.addr + used \in Nat
        BY <2>3, <2>5, <4>2
      <4>7. e.addr + used <= c /\ c < e.addr + used + z
        <5> DEFINE a == machine.segs[j].start
                   b == machine.segs[j].size
        <5>1. a + (e.addr + used - MinAddr) <= c /\ c < a + b + (e.addr + used - MinAddr)
          BY <4>2
        <5>2. a \in Nat /\ b \in Nat /\ MinAddr <= a /\ a + b <= MinAddr + z
          BY <4>2, <4>4
        <5>3. PICK t \in Nat : t = e.addr + used
          BY <4>6
        <5> HIDE DEF a, b, z, e
        <5>4. a + (t - MinAddr) <= c /\ c < a + b + (t - MinAddr)
          <6>1. e.addr \in Nat /\ used \in Nat /\ MinAddr \in Nat
            BY <1>1, <2>2, <4>6 DEF e
          <6> QED BY <4>3, <5>1, <5>2, <5>3, <6>1
        <5>5. t <= c /\ c < t + z
          BY <4>3, <4>6, <5>2, <5>4
        <5> QED BY <5>3, <5>5
      <4> QED BY <4>3, <4>7
    <3>4. Apart'
      <4> SUFFICES ASSUME NEW k \in DOMAIN res, NEW c \in Moved(e.addr + used - MinAddr)
                   PROVE  c \notin Cells(res[k])
        BY <2>7, <3>2 DEF Apart
      <4>1. c \in Int /\ s <= c /\ c < s + z
        BY <3>3
      <4> HIDE DEF s, z
      <4> QED BY <1>1, <2>3, <2>5, <2>9, <4>1, ApartFromEach
    <3>5. LoadedInRam'
      <4>1. ASSUME NEW c \in Moved(e.addr + used - MinAddr)
            PROVE  c \in e.addr..(e.addr + e.size - 1) /\ c \in 0..(Limit - 1)
        <5>1. c \in Int /\ s <= c /\ c < s + z
          BY <3>3, <4>1
        <5>2. Limit \in Nat
          BY MachineAssumption
        <5> HIDE DEF z, e
        <5>3. c \in e.addr..(e.addr + e.size - 1)
          BY <1>1, <2>2, <2>3, <2>4, <5>1, SMTT(30)
        <5>4. c \in 0..(Limit - 1)
          BY <1>1, <2>2, <2>3, <2>4, <5>1, <5>2, SMTT(30)
        <5> QED BY <5>3, <5>4
      <4>2. range \in DOMAIN machine.map
        <5>1. machine.map \in Seq(MemRange)
          BY <1>1, MachineAssumption
        <5> QED BY <2>1, <5>1, ElementsOf, Zenon
      <4> QED BY <2>1, <2>4, <2>7, <3>2, <4>1, <4>2, Zenon DEF LoadedInRam
    <3>6. StubType' /\ Searching'
      <4>1. used' \in Nat
        BY <1>1, <2>3, <3>1
      <4> QED BY <1>1, <2>7, <3>1, <3>2, <4>1 DEF StubType, Searching
    <3> QED BY <2>8, <3>4, <3>5, <3>6 DEF StubInv
  <2>10. CASE over # 0
    <3>1. /\ IF e.size <= past \/ ~Fits(e, past, z)
             THEN range' = NextRamRange(range, z) /\ used' = 0
             ELSE range' = range /\ used' = past
          /\ UNCHANGED <<machine, res, todo, upper, written, spc>>
      BY <2>6, <2>10
    <3>2. past \in Nat
      BY <1>1, <2>2, <2>5, <2>10
    <3>3. /\ range' \in 0..Len(machine.map) /\ used' \in Nat
          /\ range' # 0 => /\ machine.map[range'].memory /\ used' <= machine.map[range'].size
                           /\ Fits(machine.map[range'], used', z)
      <4>1. CASE e.size <= past \/ ~Fits(e, past, z)
        <5>1. range' = NextRamRange(range, z) /\ used' = 0
          BY <3>1, <4>1
        <5>2. /\ range' \in 0..Len(machine.map)
              /\ range' # 0 => machine.map[range'].memory /\ Fits(machine.map[range'], 0, z)
          <6>1. range \in Nat /\ range <= Len(machine.map)
            BY <2>1
          <6> HIDE DEF z
          <6> QED BY <1>1, <2>3, <5>1, <6>1, NextIsRam, Zenon
        <5>3. range' # 0 => machine.map[range'].size \in Nat
          <6>1. machine.map \in Seq(MemRange)
            BY <1>1, MachineAssumption
          <6>2. \A i \in 1..Len(machine.map) : machine.map[i] \in MemRange
            BY <6>1, ElementsOf, Zenon
          <6>3. \A x \in MemRange : x.size \in Nat
            BY DEF MemRange
          <6>4. range' # 0 => range' \in 1..Len(machine.map)
            BY <2>1, <5>2
          <6> QED BY <6>2, <6>3, <6>4, Zenon
        <5> QED BY <5>1, <5>2, <5>3
      <4>2. CASE ~(e.size <= past) /\ Fits(e, past, z)
        <5>1. range' = range /\ used' = past
          BY <3>1, <4>2
        <5>2. past <= e.size
          BY <2>2, <3>2, <4>2
        <5> QED BY <1>1, <2>1, <2>4, <3>2, <4>2, <5>1, <5>2
      <4> QED BY <4>1, <4>2
    <3>4. AllocSize' = z
      BY <3>1 DEF AllocSize, MaxAddr32, MinAddr
    <3>5. StubType' /\ Apart' /\ LoadedInRam'
      BY <1>1, <3>1, <3>3 DEF StubType, Apart, LoadedInRam
    <3>6. Searching'
      <4>1. range' # 0 => /\ machine'.map[range'].memory /\ used' <= machine'.map[range'].size
                          /\ Fits(machine'.map[range'], used', AllocSize')
        BY <3>1, <3>3, <3>4
      <4> QED BY <1>1, <3>1, <4>1 DEF Searching, Fits
    <3> QED BY <2>8, <3>5, <3>6 DEF StubInv
  <2> QED BY <2>9, <2>10
<1> QED BY <1>2, <1>3

-----------------------------------------------------------------------------
(* The stub's theorem *)

\* A walk through the page tables is at one of their levels, or done.
WalkType == "level" \in DOMAIN walk /\ walk.level \in 0..Done

\* While the BIOS is waited for, there is time left.
TimerType == to \in 0..MaxWait /\ (phase = "wait" => to > 0)

\* The loop that goes on is one of a level above, or none.
LEMMA ResumeType ==
  ASSUME NEW level \in 0..Root, NEW la, NEW size
  PROVE  Resume(level, la, size) \in 0..Done
<1> DEFINE I == { k \in level..Root : ~Aligned(k + 1, la) } \cup {Done}
<1>1. I \in SUBSET Nat /\ I # {} /\ I \subseteq 0..Done /\ Done \in 0..Done
  BY DEF Root, Done
<1>2. Resume(level, la, size) = IF size = 0 THEN Done ELSE Min(I)
  BY DEF Resume
<1> HIDE DEF I
<1>3. Min(I) \in I
  BY <1>1, MinIs
<1>4. size # 0 => Resume(level, la, size) = Min(I)
  BY <1>2
<1>5. size = 0 => Resume(level, la, size) = Done
  BY <1>2
<1> QED BY <1>1, <1>3, <1>4, <1>5, Zenon

\* A step of ptab_map_level().
LEMMA MapWalkType ==
  ASSUME WalkType, MapStep
  PROVE  WalkType'
<1>1. CASE MapLeaf
  <2>1. PICK la, size : walk' = [walk EXCEPT !.level = Resume(walk.level, la, size), !.la = la, !.size = size]
    BY <1>1, Zenon DEF MapLeaf
  <2>2. walk.level \in 0..Root
    BY <1>1 DEF MapLeaf, WalkType, Root, Done
  <2>3. Resume(walk.level, la, size) \in 0..Done
    BY <2>2, ResumeType
  <2> QED BY <2>1, <2>3 DEF WalkType
<1>2. CASE Descend
  <2>1. walk.level \in 1..Root
    BY <1>2 DEF Descend, WalkType, Root, Done
  <2>2. \/ walk' = walk
        \/ \E x : walk' = [walk EXCEPT !.level = walk.level - 1, !.path[walk.level - 1] = x]
    BY <1>2, Zenon DEF Descend
  <2>3. CASE walk' = walk
    BY <2>3 DEF WalkType
  <2>4. CASE \E x : walk' = [walk EXCEPT !.level = walk.level - 1, !.path[walk.level - 1] = x]
    <3>1. DOMAIN walk' = DOMAIN walk /\ walk'.level = walk.level - 1
      BY <2>4 DEF WalkType
    <3> QED BY <2>1, <3>1 DEF WalkType, Root, Done
  <2> QED BY <2>2, <2>3, <2>4
<1>3. CASE OutOfRam
  BY <1>3 DEF OutOfRam, WalkType
<1> QED BY <1>1, <1>2, <1>3 DEF MapStep

\* The walk and the timer keep their types in every step.
LEMMA WalkAndTimer == Spec => [](WalkType /\ TimerType)
<1>1. Init => WalkType /\ TimerType
  BY PciAssumption DEF Init, TInit, PInit, WalkType, TimerType, NoWalk, Done
<1>2. BusInv /\ WalkType /\ TimerType /\ [Next]_vars => WalkType' /\ TimerType'
  <2> SUFFICES ASSUME BusInv, WalkType, TimerType, [Next]_vars
               PROVE  WalkType' /\ TimerType'
    OBVIOUS
  <2>1. CASE Stub \/ StubAsserts \/ StubMapped \/ UNCHANGED vars
    <3>1. UNCHANGED <<walk, to, phase>>
      BY <2>1 DEF Stub, StubAsserts, StubMapped, vars, tvars, pvars
    <3> QED BY <3>1 DEF WalkType, TimerType
  <2>2. CASE EnterLong \/ StubMaps
    <3>1. /\ to' = to /\ phase' = phase
          /\ walk' = walk \/ \E p, l, s : walk' = [level |-> Root, path |-> p, la |-> l, size |-> s]
      BY <2>2 DEF EnterLong, StubMaps, BasePagingInit, pvars
    <3> QED BY <3>1 DEF WalkType, TimerType, Root, Done
  <2>3. CASE Map
    <3>1. to' = to /\ phase' = phase /\ MapStep
      BY <2>3 DEF Map, pvars
    <3> QED BY <3>1, MapWalkType DEF TimerType
  <2>4. CASE Bus
    <3>1. WalkType'
      BY <2>4 DEF Bus, tvars, WalkType
    <3>2. MaxWait \in Nat \ {0}
      BY PciAssumption
    <3>3. CASE Ask
      <4>1. to' = MaxWait \/ (to' = to /\ phase' = "smi")
        BY <3>3 DEF Ask
      <4> QED BY <3>1, <3>2, <4>1 DEF TimerType
    <3>4. CASE WaitBios
      <4>1. phase = "wait" /\ to' = to - 1 /\ (phase' = "wait" => to' > 0)
        BY <3>4 DEF WaitBios, Patience
      <4> QED BY <3>1, <3>2, <4>1 DEF TimerType
    <3>5. CASE Advance
      BY <3>1, <3>5 DEF Advance, TimerType
    <3>6. CASE SetupUart \/ Search \/ SearchEnds \/ Scan \/ ScanCrashes \/ ScanEnds \/ InitUart
      <4>1. to' = to
        BY <3>6 DEF SetupUart, Search, SearchEnds, Scan, ScanCrashes, ScanEnds, InitUart
      <4>2. phase' # "wait"
        <5>1. setup.arg \in {"none", "noserial", "com", "pci", "probe"}
          BY PciAssumption DEF BusInv, BusType
        <5>2. CASE SetupUart
          BY <5>1, <5>2 DEF SetupUart, Enter
        <5> QED BY <3>6, <5>2 DEF Search, SearchEnds, Scan, ScanCrashes, ScanEnds, InitUart, Enter, Visiting
      <4> QED BY <3>1, <4>1, <4>2 DEF TimerType
    <3>7. CASE Masters \/ HandoffBegins \/ ForceOwnership \/ DisableSmi \/ Release
      <4>1. to' = to /\ phase' # "wait"
        BY <3>7 DEF Masters, HandoffBegins, ForceOwnership, DisableSmi, Release, Enter, Visiting
      <4> QED BY <3>1, <4>1 DEF TimerType
    <3> QED BY <2>4, <3>3, <3>4, <3>5, <3>6, <3>7 DEF Bus, PciStep
  <2>5. CASE BusQuirk
    <3>1. to' = to /\ phase' # "wait"
      BY <2>5 DEF BusQuirk, Quirk, Visiting
    <3>2. walk' = walk \/ \E p, l, s : walk' = [level |-> Root, path |-> p, la |-> l, size |-> s]
      BY <2>5 DEF BusQuirk, Quirk, MapRange, tvars
    <3> QED BY <3>1, <3>2 DEF WalkType, TimerType, Root, Done
  <2>6. CASE Bios
    BY <2>6 DEF Bios, BiosReleases, tvars, WalkType, TimerType
  <2> QED BY <2>1, <2>2, <2>3, <2>4, <2>5, <2>6 DEF Next, BootLoader, Halted
<1> QED BY <1>1, <1>2, BusInvariant, PTL DEF Spec

\* Nothing of the stub changes.
LEMMA StubInvKept ==
  ASSUME StubInv, UNCHANGED <<machine, res, todo, range, used, written>>,
         \/ spc' = spc
         \/ spc' = "upper" /\ spc = "cpu"
         \/ spc' = "reserve" /\ spc = "upper"
         \/ spc' = "paging" /\ spc = "reserve" /\ todo = <<>>
         \/ spc' \in {"load", "panic"} /\ spc = "paging"
  PROVE  StubInv'
<1>1. StubType' /\ Covered'
  BY DEF StubInv, StubType, Covered, Held, Begun, Taken
<1>2. AllocSize' = AllocSize
  BY DEF AllocSize, MaxAddr32, MinAddr
<1>3. Searching'
  BY <1>2 DEF StubInv, Searching, Fits
<1>4. Apart' /\ LoadedInRam'
  BY DEF StubInv, Apart, LoadedInRam
<1> QED BY <1>1, <1>3, <1>4 DEF StubInv

\* The invariant of the stub.
LEMMA StubInvariant ==
  ASSUME MapsEnd
  PROVE  Spec => []StubInv
<1>1. Init => StubInv
  <2> SUFFICES ASSUME Init PROVE StubInv
    OBVIOUS
  <2>1. /\ machine \in Machines /\ res = <<>> /\ todo = Reserved(machine)
        /\ range = 0 /\ used = 0 /\ written = {} /\ spc = "cpu"
    BY DEF Init, SInit
  <2>2. Reserved(machine) \in Seq(Area) /\ Len(Reserved(machine)) \in Nat
    BY <2>1, ReservedAreas, ElementsOf
  <2>3. Taken = 0
    BY <2>1, <2>2 DEF Taken
  <2>4. Covered
    BY <2>1, <2>2, <2>3 DEF Covered, Held, Begun
  <2>5. StubType
    BY <2>1, MachineAssumption, ElementsOf DEF StubType
  <2>6. Searching /\ Apart /\ LoadedInRam
    BY <2>1 DEF Searching, Apart, LoadedInRam
  <2> QED BY <2>4, <2>5, <2>6 DEF StubInv
<1>2. StubInv /\ [Next]_vars => StubInv'
  <2> SUFFICES ASSUME StubInv, [Next]_vars
               PROVE  StubInv'
    OBVIOUS
  <2>1. ~machine.behind.memory
    BY DEF MapsEnd, StubInv, StubType
  <2>2. CASE Stub
    <3>1. CASE BaseCpuSetup \/ FindUpperMem \/ StartPaging
      BY <3>1, StubInvKept DEF BaseCpuSetup, FindUpperMem, StartPaging
    <3> QED BY <2>1, <2>2, <3>1, ReserveStep, LoadStep, AllocStep DEF Stub, SStep
  <2>3. CASE StubMapped \/ StubAsserts
    BY <2>3, StubInvKept DEF StubMapped, StubAsserts, SPanic
  <2>4. CASE StubMaps \/ EnterLong \/ Map \/ Bus \/ BusQuirk \/ Bios \/ UNCHANGED vars
    <3>1. UNCHANGED svars
      BY <2>4 DEF StubMaps, EnterLong, Map, Bus, BusQuirk, Bios, vars
    <3> QED BY <3>1, StubInvKept DEF svars
  <2> QED BY <2>2, <2>3, <2>4 DEF Next, BootLoader, Halted
<1> QED BY <1>1, <1>2, PTL DEF Spec

\* StubRight holds for every memory map that does not seem to go on behind its
\* end, every set of modules and every place of the 64-bit part: load_elf() and
\* mm_alloc_alloc() write it over no reservation, move it only into RAM below
\* 4 GiB, and spare whatever bootstrap() has reserved in an order in which
\* reservation_add() joins and extends entries without losing one.
THEOREM StubAlwaysRight ==
  ASSUME MapsEnd
  PROVE  Spec => []StubRight
<1>1. StubInv /\ BusInv /\ WalkType /\ TimerType => StubRight
  <2> SUFFICES ASSUME StubInv, BusInv, WalkType, TimerType PROVE StubRight
    OBVIOUS
  <2>1. it \in Pos \/ Ended(it)
    BY DEF BusInv, BusType, Ended, EndPos
  <2>2. DOMAIN fns \subseteq Pos
    BY Functions DEF BusInv
  <2>3. range \in 0..(Len(machine.map) + 1)
    <3>1. Len(machine.map) \in Nat
      BY MachineAssumption, ElementsOf DEF StubInv, StubType
    <3> QED BY <3>1 DEF StubInv, StubType
  <2>4. TypeOK
    BY <2>1, <2>2, <2>3 DEF StubInv, StubType, WalkType, TimerType, TypeOK
  <2> QED BY <2>4, SparesAll DEF StubInv, StubRight
<1> QED BY <1>1, StubInvariant, BusInvariant, WalkAndTimer, PTL

-----------------------------------------------------------------------------
(* Page tables: the entries of every level *)

\* The only way to write a number as a multiple and a rest.
LEMMA Quotient ==
  ASSUME NEW n \in Nat \ {0}, NEW q \in Nat, NEW r \in Nat, r < n
  PROVE  (q * n + r) \div n = q /\ (q * n + r) % n = r
OBVIOUS

LEMMA Parts ==
  ASSUME NEW a \in Nat, NEW n \in Nat \ {0}
  PROVE  /\ a \div n \in Nat /\ a % n \in Nat /\ a % n < n
         /\ a = (a \div n) * n + (a % n)
OBVIOUS

\* A division in two steps.
LEMMA Nested ==
  ASSUME NEW a \in Nat, NEW p \in Nat \ {0}, NEW e \in Nat \ {0}
  PROVE  a \div (e * p) = (a \div p) \div e
<1>1. PICK q \in Nat : q = a \div p
  BY Parts
<1>2. PICK r \in Nat : r < p /\ a = q * p + r
  BY <1>1, Parts
<1>3. PICK s \in Nat : s = q \div e
  BY Parts
<1>4. PICK t \in Nat : t < e /\ q = s * e + t
  BY <1>3, Parts
<1>5. e * p \in Nat \ {0} /\ t * p + r \in Nat
  OBVIOUS
<1>6. t * p + r < e * p
  <2>1. (t + 1) * p <= e * p
    BY <1>4
  <2>2. (t + 1) * p = t * p + p
    OBVIOUS
  <2> QED BY <1>2, <2>1, <2>2
<1>7. a = s * (e * p) + (t * p + r)
  <2>1. (s * e + t) * p = s * (e * p) + t * p
    OBVIOUS
  <2> QED BY <1>2, <1>4, <2>1
<1>8. a \div (e * p) = s
  BY <1>5, <1>6, <1>7, Quotient
<1> QED BY <1>1, <1>3, <1>8

\* ptab_size() of every level.
LEMMA Powers ==
  /\ Entries \in Nat \ {0, 1} /\ PtabSize[0] = 1
  /\ \A l \in 0..Done : PtabSize[l] \in Nat \ {0}
  /\ \A l \in 0..Root : PtabSize[l + 1] = Entries * PtabSize[l]
<1> DEFINE Body(f, l) == IF l = 0 THEN 1 ELSE Entries * f[l - 1]
           p1 == Entries * 1
           p2 == Entries * p1
           p3 == Entries * p2
           p4 == Entries * p3
           F == [l \in 0..Done |-> CASE l = 0 -> 1 [] l = 1 -> p1 [] l = 2 -> p2
                                     [] l = 3 -> p3 [] OTHER -> p4]
<1>1. Entries \in Nat \ {0, 1}
  BY TableAssumption
<1>2. ASSUME NEW l \in 0..Done PROVE F[l] = Body(F, l)
  <2>1. l = 0 \/ l = 1 \/ l = 2 \/ l = 3 \/ l = 4
    BY DEF Done
  <2>2. F[0] = 1 /\ F[1] = p1 /\ F[2] = p2 /\ F[3] = p3 /\ F[4] = p4
    BY DEF Done
  <2> HIDE DEF F, p1, p2, p3, p4
  <2>3. /\ 1 - 1 = 0 /\ 2 - 1 = 1 /\ 3 - 1 = 2 /\ 4 - 1 = 3
    OBVIOUS
  <2>4. p1 = Entries * 1 /\ p2 = Entries * p1 /\ p3 = Entries * p2 /\ p4 = Entries * p3
    BY DEF p1, p2, p3, p4
  <2> QED BY <2>1, <2>2, <2>3, <2>4
<1> HIDE DEF F, Body
<1>3. PtabSize = [l \in 0..Done |-> Body(PtabSize, l)]
  <2>1. F = [l \in 0..Done |-> F[l]]
    BY DEF F
  <2>2. F = [l \in 0..Done |-> Body(F, l)]
    BY <1>2, <2>1
  <2> QED BY <2>2, Zenon DEF PtabSize, Body
<1>4. \A l \in 0..Done : PtabSize[l] = Body(PtabSize, l)
  BY <1>3, Zenon
<1>5. PtabSize[0] = 1
  BY <1>4 DEF Done, Body
<1>6. ASSUME NEW l \in 0..Root PROVE PtabSize[l + 1] = Entries * PtabSize[l]
  <2>1. l + 1 \in 0..Done /\ l + 1 # 0 /\ (l + 1) - 1 = l
    BY DEF Done, Root
  <2>2. PtabSize[l + 1] = Body(PtabSize, l + 1)
    BY <1>4, <2>1
  <2> QED BY <2>1, <2>2 DEF Body
<1> DEFINE Pos0(l) == PtabSize[l] \in Nat \ {0}
<1>7. Pos0(0)
  BY <1>5
<1>8. ASSUME NEW l \in 0..Root, Pos0(l) PROVE Pos0(l + 1)
  <2>1. \A x \in Nat \ {0} : Entries * x \in Nat \ {0}
    BY <1>1
  <2> QED BY <1>6, <1>8, <2>1
<1>9. \A l \in 0..Done : Pos0(l)
  <2> HIDE DEF Pos0
  <2>1. Pos0(1) /\ Pos0(2) /\ Pos0(3) /\ Pos0(4)
    <3>1. Pos0(0 + 1)
      BY <1>7, <1>8 DEF Root
    <3>2. Pos0(1 + 1)
      BY <1>8, <3>1 DEF Root
    <3>3. Pos0(2 + 1)
      BY <1>8, <3>2 DEF Root
    <3>4. Pos0(3 + 1)
      BY <1>8, <3>3 DEF Root
    <3> QED BY <3>1, <3>2, <3>3, <3>4
  <2> QED BY <1>7, <2>1 DEF Done
<1> QED BY <1>1, <1>5, <1>6, <1>9

\* The entry of an address in a table, and the tables above.
LEMMA EntryOf ==
  ASSUME NEW l \in 0..Root, NEW a \in Nat
  PROVE  /\ FindPtabe(l, a) \in 0..(Entries - 1)
         /\ a \div PtabSize[l] \in Nat
         /\ a \div PtabSize[l + 1] \in Nat
         /\ a \div PtabSize[l + 1] = (a \div PtabSize[l]) \div Entries
         /\ a \div PtabSize[l] = (a \div PtabSize[l + 1]) * Entries + FindPtabe(l, a)
<1>1. PICK p \in Nat \ {0} : p = PtabSize[l]
  BY Powers DEF Root, Done
<1>2. PICK e \in Nat \ {0} : e = Entries
  BY Powers
<1>3. PtabSize[l + 1] = e * p
  BY <1>1, <1>2, Powers
<1>4. PICK q \in Nat : q = a \div p
  BY Parts
<1>5. a \div (e * p) = q \div e
  BY <1>4, Nested
<1>6. q \div e \in Nat /\ q % e \in 0..(e - 1) /\ q = (q \div e) * e + (q % e)
  <2>1. q % e \in Nat /\ q % e < e
    BY Parts
  <2>2. q % e \in 0..(e - 1)
    BY <2>1
  <2> QED BY <2>2, Parts
<1>7. FindPtabe(l, a) = q % e
  BY <1>1, <1>2, <1>4 DEF FindPtabe
<1> QED BY <1>1, <1>2, <1>3, <1>4, <1>5, <1>6, <1>7

\* Addresses that share an entry share those of the tables above.
Shares(l, a, b) == a \div PtabSize[l] = b \div PtabSize[l]

LEMMA SharesAbove ==
  ASSUME NEW l \in 0..Done, NEW a \in Nat, NEW b \in Nat, Shares(l, a, b)
  PROVE  /\ \A k \in l..Done : Shares(k, a, b)
         /\ \A k \in l..Root : FindPtabe(k, a) = FindPtabe(k, b)
<1>1. ASSUME NEW k \in 0..Root, Shares(k, a, b) PROVE Shares(k + 1, a, b)
  BY <1>1, EntryOf DEF Shares
<1>2. \A k \in l..Done : Shares(k, a, b)
  <2>1. l = 0 \/ l = 1 \/ l = 2 \/ l = 3 \/ l = 4
    BY DEF Done
  <2>2. /\ Shares(0, a, b) => Shares(1, a, b)
        /\ Shares(1, a, b) => Shares(2, a, b)
        /\ Shares(2, a, b) => Shares(3, a, b)
        /\ Shares(3, a, b) => Shares(4, a, b)
    <3>1. Shares(0, a, b) => Shares(0 + 1, a, b)
      BY <1>1 DEF Root
    <3>2. Shares(1, a, b) => Shares(1 + 1, a, b)
      BY <1>1 DEF Root
    <3>3. Shares(2, a, b) => Shares(2 + 1, a, b)
      BY <1>1 DEF Root
    <3>4. Shares(3, a, b) => Shares(3 + 1, a, b)
      BY <1>1 DEF Root
    <3> QED BY <3>1, <3>2, <3>3, <3>4
  <2>3. \A k \in l..Done : \/ k = 0 /\ l = 0
                           \/ k = 1 /\ l <= 1
                           \/ k = 2 /\ l <= 2
                           \/ k = 3 /\ l <= 3
                           \/ k = 4
    BY DEF Done
  <2> QED BY <2>1, <2>2, <2>3
<1>3. ASSUME NEW k \in l..Root PROVE FindPtabe(k, a) = FindPtabe(k, b)
  <2>1. k \in l..Done
    BY DEF Root, Done
  <2> QED BY <1>2, <2>1 DEF FindPtabe, Shares
<1> QED BY <1>2, <1>3

\* What holds of one level and of the next above holds of all above.
LEMMA LevelsAbove ==
  ASSUME NEW S, NEW j \in 0..Done, j \in S, \A k \in j..Root : k \in S => k + 1 \in S
  PROVE  j..Done \subseteq S
<1>1. \A k \in 0..Done : k = 0 \/ k = 1 \/ k = 2 \/ k = 3 \/ k = 4
  BY DEF Done
<1>2. /\ j <= 0 /\ 0 \in S => 1 \in S
      /\ j <= 1 /\ 1 \in S => 2 \in S
      /\ j <= 2 /\ 2 \in S => 3 \in S
      /\ j <= 3 /\ 3 \in S => 4 \in S
  BY DEF Root, Done
<1>3. /\ j <= 1 => 1 \in S
      /\ j <= 2 => 2 \in S
      /\ j <= 3 => 3 \in S
      /\ j <= 4 => 4 \in S
  BY <1>1, <1>2 DEF Done
<1>4. ASSUME NEW k \in j..Done PROVE k \in S
  <2>1. k \in 0..Done /\ j <= k
    BY DEF Done
  <2> QED BY <1>1, <1>3, <2>1
<1> QED BY <1>4

\* What holds of the root and of the next level below holds of all below.
LEMMA LevelsBelow ==
  ASSUME NEW S, NEW l \in 0..Root, Root \in S, \A k \in l..(Root - 1) : k + 1 \in S => k \in S
  PROVE  l..Root \subseteq S
<1>1. \A k \in 0..Root : k = 0 \/ k = 1 \/ k = 2 \/ k = 3
  BY DEF Root
<1>2. /\ l <= 2 => 2 \in S
      /\ l <= 1 /\ 2 \in S => 1 \in S
      /\ l <= 0 /\ 1 \in S => 0 \in S
  BY DEF Root
<1>3. ASSUME NEW k \in l..Root PROVE k \in S
  <2>1. k \in 0..Root /\ l <= k
    BY DEF Root
  <2> QED BY <1>1, <1>2, <2>1 DEF Root
<1> QED BY <1>3

\* A size is a multiple of the sizes of the levels below.
LEMMA SizesDivide ==
  ASSUME NEW j \in 0..Done, NEW k \in j..Done
  PROVE  \E m \in Nat \ {0} : PtabSize[k] = m * PtabSize[j]
<1> DEFINE S == { h \in 0..Done : \E m \in Nat \ {0} : PtabSize[h] = m * PtabSize[j] }
<1>1. PICK p \in Nat \ {0} : p = PtabSize[j]
  BY Powers
<1>2. j \in S
  <2>1. p = 1 * p
    OBVIOUS
  <2> QED BY <1>1, <2>1
<1>3. ASSUME NEW h \in j..Root, h \in S PROVE h + 1 \in S
  <2>1. PICK m \in Nat \ {0} : PtabSize[h] = m * p
    BY <1>1, <1>3
  <2>2. PICK e \in Nat \ {0} : e = Entries
    BY Powers
  <2>3. h \in 0..Root /\ h + 1 \in 0..Done
    BY DEF Root, Done
  <2>4. PtabSize[h + 1] = e * (m * p)
    BY <2>1, <2>2, <2>3, Powers
  <2>5. e * (m * p) = (e * m) * p /\ e * m \in Nat \ {0}
    OBVIOUS
  <2> QED BY <1>1, <2>3, <2>4, <2>5
<1> HIDE DEF S
<1>4. k \in S
  BY <1>2, <1>3, LevelsAbove
<1> QED BY <1>4 DEF S

LEMMA Multiples ==
  ASSUME NEW n \in Nat \ {0}, NEW a \in Nat
  PROVE  a % n = 0 <=> \E q \in Nat : a = q * n
<1>1. a % n = 0 => a = (a \div n) * n /\ a \div n \in Nat
  BY Parts
<1>2. ASSUME NEW q \in Nat, a = q * n PROVE a % n = 0
  <2>1. a = q * n + 0
    BY <1>2
  <2> QED BY <2>1, Quotient
<1> QED BY <1>1, <1>2

LEMMA AlignedBelow ==
  ASSUME NEW k \in 0..Done, NEW j \in 0..k, NEW a \in Nat, Aligned(k, a)
  PROVE  Aligned(j, a)
<1>1. j \in 0..Done /\ k \in j..Done
  BY DEF Done
<1>2. PICK p \in Nat \ {0} : p = PtabSize[j]
  BY <1>1, Powers
<1>3. PICK m \in Nat \ {0} : PtabSize[k] = m * p
  BY <1>1, <1>2, SizesDivide
<1>4. m * p \in Nat \ {0}
  OBVIOUS
<1>5. PICK q \in Nat : a = q * (m * p)
  BY <1>3, <1>4, Multiples DEF Aligned
<1>6. a = (q * m) * p /\ q * m \in Nat
  BY <1>5
<1> QED BY <1>2, <1>6, Multiples DEF Aligned

\* Behind an entry comes the next one of the table, unless the table ends.
LEMMA NextEntry ==
  ASSUME NEW p \in Nat \ {0}, NEW m \in Nat \ {0}, NEW x \in Nat
  PROVE  \/ (x * p + p) % (m * p) = 0
         \/ (x * p + p) \div (m * p) = (x * p) \div (m * p)
<1>1. PICK q \in Nat : q = x \div m
  BY Parts
<1>2. PICK r \in Nat : r < m /\ x = q * m + r
  BY <1>1, Parts
<1>3. m * p \in Nat \ {0} /\ r * p \in Nat /\ (r + 1) * p \in Nat
  OBVIOUS
<1>4. x * p = q * (m * p) + r * p /\ x * p + p = q * (m * p) + (r + 1) * p
  <2>1. (q * m + r) * p = q * (m * p) + r * p
    OBVIOUS
  <2>2. (r + 1) * p = r * p + p
    OBVIOUS
  <2>3. q * (m * p) \in Nat
    OBVIOUS
  <2> QED BY <1>2, <1>3, <2>1, <2>2, <2>3
<1>5. CASE r + 1 = m
  <2>1. x * p + p = (q + 1) * (m * p)
    <3>1. (q + 1) * (m * p) = q * (m * p) + m * p
      OBVIOUS
    <3> QED BY <1>4, <1>5, <3>1
  <2> QED BY <1>3, <2>1, Multiples
<1>6. CASE r + 1 < m
  <2>1. r * p < (r + 1) * p
    OBVIOUS
  <2>2. (r + 1) * p < m * p
    BY <1>6
  <2>3. (x * p) \div (m * p) = q
    BY <1>3, <1>4, <2>1, <2>2, Quotient
  <2>4. (x * p + p) \div (m * p) = q
    BY <1>3, <1>4, <2>2, Quotient
  <2> QED BY <2>3, <2>4
<1> QED BY <1>2, <1>5, <1>6

LEMMA NextShares ==
  ASSUME NEW l \in 0..Root, NEW k \in l..Root, NEW a \in Nat, Aligned(l, a),
         ~Aligned(k + 1, a + PtabSize[l])
  PROVE  Shares(k + 1, a + PtabSize[l], a)
<1>1. l \in 0..Done /\ k + 1 \in l..Done
  BY DEF Root, Done
<1>2. PICK p \in Nat \ {0} : p = PtabSize[l]
  BY <1>1, Powers
<1>3. PICK m \in Nat \ {0} : PtabSize[k + 1] = m * p
  BY <1>1, <1>2, SizesDivide
<1>4. PICK x \in Nat : a = x * p
  BY <1>2, Multiples DEF Aligned
<1> QED BY <1>2, <1>3, <1>4, NextEntry DEF Aligned, Shares

-----------------------------------------------------------------------------
(* Page tables: what they map *)

Index == 0..(Entries - 1)
Entry == [valid : BOOLEAN, leaf : BOOLEAN, to : Nat]
IsTabs(T) == T \in Seq([Index -> Entry])

\* The tables p of the levels down to l lead to address a.
Link(T, p, k, a) ==
  LET e == T[p[k + 1]][FindPtabe(k + 1, a)] IN e.valid /\ ~e.leaf /\ e.to = p[k]
Leads(T, p, l, a) ==
  /\ p[Root] = 1
  /\ \A k \in l..Root : p[k] \in 1..Len(T)
  /\ \A k \in l..(Root - 1) : Link(T, p, k, a)

Leaf(T, t, i) == T[t][i].valid /\ T[t][i].leaf

\* Address a is mapped one to one, at the end of a path.
Mapped(T, a) ==
  \E l \in 0..Root : \E p :
    /\ Leads(T, p, l, a)
    /\ Leaf(T, p[l], FindPtabe(l, a))
    /\ T[p[l]][FindPtabe(l, a)].to + (a % PtabSize[l]) = a

\* What is valid stays.
Grows(T, U) ==
  /\ Len(T) <= Len(U)
  /\ \A t \in 1..Len(T) : \A i \in Index : T[t][i].valid => U[t][i] = T[t][i]

LEMMA TabsLen == ASSUME NEW T, IsTabs(T) PROVE Len(T) \in Nat /\ DOMAIN T = 1..Len(T)
BY DEF IsTabs

LEMMA LeadsStays ==
  ASSUME NEW T, NEW U, IsTabs(T), IsTabs(U), Grows(T, U), NEW p, NEW l \in 0..Root, NEW a \in Nat, Leads(T, p, l, a)
  PROVE  Leads(U, p, l, a)
<1>1. Len(T) \in Nat /\ Len(U) \in Nat
  BY DEF IsTabs
<1>2. \A k \in l..Root : p[k] \in 1..Len(U)
  BY <1>1 DEF Leads, Grows
<1>3. ASSUME NEW k \in l..(Root - 1) PROVE Link(U, p, k, a)
  <2>1. k + 1 \in l..Root /\ k + 1 \in 0..Root
    BY DEF Root
  <2>2. p[k + 1] \in 1..Len(T) /\ FindPtabe(k + 1, a) \in Index
    BY <2>1, EntryOf DEF Leads, Index
  <2>3. Link(T, p, k, a)
    BY DEF Leads
  <2> QED BY <2>2, <2>3 DEF Link, Grows
<1> QED BY <1>2, <1>3 DEF Leads

LEMMA MappedStays ==
  ASSUME NEW T, NEW U, IsTabs(T), IsTabs(U), Grows(T, U), NEW a \in Nat, Mapped(T, a)
  PROVE  Mapped(U, a)
<1>1. PICK l \in 0..Root : \E p :
        /\ Leads(T, p, l, a)
        /\ Leaf(T, p[l], FindPtabe(l, a))
        /\ T[p[l]][FindPtabe(l, a)].to + (a % PtabSize[l]) = a
  BY DEF Mapped
<1>2. PICK p :
        /\ Leads(T, p, l, a)
        /\ Leaf(T, p[l], FindPtabe(l, a))
        /\ T[p[l]][FindPtabe(l, a)].to + (a % PtabSize[l]) = a
  BY <1>1
<1>3. Leads(U, p, l, a)
  BY <1>2, LeadsStays
<1>4. p[l] \in 1..Len(T) /\ FindPtabe(l, a) \in Index
  <2>1. l \in l..Root
    BY DEF Root
  <2>2. p[l] \in 1..Len(T)
    BY <1>2, <2>1 DEF Leads
  <2>3. FindPtabe(l, a) \in Index
    BY EntryOf DEF Index
  <2> QED BY <2>2, <2>3
<1>5. U[p[l]][FindPtabe(l, a)] = T[p[l]][FindPtabe(l, a)]
  BY <1>2, <1>4 DEF Grows, Leaf
<1> QED BY <1>2, <1>3, <1>5 DEF Mapped, Leaf

\* An address with the same entries is led to by the same tables.
LEMMA LeadsShared ==
  ASSUME NEW T, NEW p, NEW l \in 0..Root, NEW h \in l..Done, NEW a \in Nat, NEW b \in Nat,
         Leads(T, p, l, a), h <= l + 1, Shares(h, a, b)
  PROVE  Leads(T, p, l, b)
<1>1. \A k \in h..Root : FindPtabe(k, a) = FindPtabe(k, b)
  BY SharesAbove DEF Done
<1>2. \A k \in l..(Root - 1) : k + 1 \in h..Root
  BY DEF Root, Done
<1> QED BY <1>1, <1>2 DEF Leads, Link

-----------------------------------------------------------------------------

\* The walk of the CPU for an address follows the tables that lead to it.
LEMMA CpuFinds ==
  ASSUME IsTabs(tabs), NEW a \in Nat, NEW l \in 0..Root, NEW p, Leads(tabs, p, l, a)
  PROVE  TableAt(a)[l] = p[l]
<1> DEFINE Below(f, k) == LET up == f[k + 1]
                              e == tabs[up][FindPtabe(k + 1, a)]
                          IN IF up # 0 /\ e.valid /\ ~e.leaf THEN e.to ELSE 0
           Body(f, k) == IF k = Root THEN 1 ELSE Below(f, k)
           To(up, k) == LET e == tabs[up][FindPtabe(k + 1, a)]
                        IN IF up # 0 /\ e.valid /\ ~e.leaf THEN e.to ELSE 0
           t2 == To(1, 2)
           t1 == To(t2, 1)
           t0 == To(t1, 0)
           F == [k \in 0..Root |-> CASE k = 3 -> 1 [] k = 2 -> t2 [] k = 1 -> t1 [] OTHER -> t0]
<1>1. ASSUME NEW k \in 0..Root PROVE F[k] = Body(F, k)
  <2>1. k = 0 \/ k = 1 \/ k = 2 \/ k = 3
    BY DEF Root
  <2>2. F[3] = 1 /\ F[2] = t2 /\ F[1] = t1 /\ F[0] = t0
    <3> HIDE DEF t0, t1, t2
    <3> QED BY DEF Root
  <2> HIDE DEF F
  <2>3. Below(F, 2) = To(F[3], 2) /\ Below(F, 1) = To(F[2], 1) /\ Below(F, 0) = To(F[1], 0)
    <3>1. 2 + 1 = 3 /\ 1 + 1 = 2 /\ 0 + 1 = 1
      OBVIOUS
    <3> QED BY <3>1
  <2> HIDE DEF Below, To
  <2> QED BY <2>1, <2>2, <2>3 DEF Root
<1>2. TableAt(a) = [k \in 0..Root |-> Body(TableAt(a), k)]
  <2> HIDE DEF F, Below, To
  <2>1. F = [k \in 0..Root |-> F[k]]
    BY DEF F
  <2> HIDE DEF Body
  <2>2. F = [k \in 0..Root |-> Body(F, k)]
    BY <1>1, <2>1
  <2> QED BY <2>2, Zenon DEF TableAt, Body, Below
<1> HIDE DEF Body
<1>3. \A k \in 0..Root : TableAt(a)[k] = Body(TableAt(a), k)
  BY <1>2, Zenon
<1>4. PICK at : at = TableAt(a)
  OBVIOUS
<1>5. at[Root] = 1
  BY <1>3, <1>4 DEF Body, Root
<1>6. ASSUME NEW k \in l..(Root - 1), at[k + 1] = p[k + 1] PROVE at[k] = p[k]
  <2>1. k \in 0..Root /\ k # Root /\ k + 1 \in l..Root
    BY DEF Root
  <2>2. at[k] = Below(at, k)
    BY <1>3, <1>4, <2>1 DEF Body
  <2>3. p[k + 1] # 0 /\ Link(tabs, p, k, a)
    BY <2>1, TabsLen DEF Leads
  <2> QED BY <1>6, <2>2, <2>3 DEF Link
<1> DEFINE S == { k \in 0..Root : at[k] = p[k] }
<1>7. Root \in S
  BY <1>5 DEF Leads, Root
<1>8. \A k \in l..(Root - 1) : k + 1 \in S => k \in S
  BY <1>6 DEF Root
<1> HIDE DEF S
<1>9. l..Root \subseteq S
  BY <1>7, <1>8, LevelsBelow
<1> QED BY <1>4, <1>9 DEF S, Root

\* What is mapped one to one at the end of a path is so for the CPU.
LEMMA MappedIsMapped ==
  ASSUME IsTabs(tabs), NEW a \in Nat, Mapped(tabs, a)
  PROVE  MapsTo(a, a)
<1>1. PICK l \in 0..Root : \E p :
        /\ Leads(tabs, p, l, a)
        /\ Leaf(tabs, p[l], FindPtabe(l, a))
        /\ tabs[p[l]][FindPtabe(l, a)].to + (a % PtabSize[l]) = a
  BY DEF Mapped
<1>2. PICK p :
        /\ Leads(tabs, p, l, a)
        /\ Leaf(tabs, p[l], FindPtabe(l, a))
        /\ tabs[p[l]][FindPtabe(l, a)].to + (a % PtabSize[l]) = a
  BY <1>1
<1>3. TableAt(a)[l] = p[l]
  BY <1>2, CpuFinds
<1>4. p[l] # 0
  BY <1>2, TabsLen DEF Leads, Root
<1> QED BY <1>2, <1>3, <1>4, Zenon DEF MapsTo, Leaf

-----------------------------------------------------------------------------
(* Page tables: a tree *)

\* A table of level lev[t] is the num[t]-th of its level in the address space,
\* and what an entry leads to is where the entry is.
EntryRight(T, lev, num, t, i) ==
  LET e == T[t][i]
      n == num[t] * Entries + i
  IN e.valid =>
       IF e.leaf THEN AllowLeaf(lev[t]) /\ e.to = n * PtabSize[lev[t]]
       ELSE /\ lev[t] > 0 /\ e.to \in 1..Len(T)
            /\ lev[e.to] = lev[t] - 1 /\ num[e.to] = n
Shape(T, lev, num) ==
  /\ lev \in [1..Len(T) -> 0..Root] /\ num \in [1..Len(T) -> Nat]
  /\ Len(T) > 0 /\ lev[1] = Root /\ num[1] = 0
  /\ \A t \in 1..Len(T) : \A i \in Index : EntryRight(T, lev, num, t, i)

\* The tables on a path are those of the address.
LEMMA PathNumbers ==
  ASSUME NEW T, IsTabs(T), NEW lev, NEW num, Shape(T, lev, num), NEW p, NEW l \in 0..Root,
         NEW a \in Nat, a < PtabSize[Done], Leads(T, p, l, a)
  PROVE  \A k \in l..Root : lev[p[k]] = k /\ num[p[k]] = a \div PtabSize[k + 1]
<1> DEFINE S == { k \in 0..Root : lev[p[k]] = k /\ num[p[k]] = a \div PtabSize[k + 1] }
<1>1. Root \in S
  <2>1. PICK n \in Nat \ {0} : n = PtabSize[Done]
    BY Powers DEF Done
  <2>2. a \div n = 0
    <3>1. a = 0 * n + a
      OBVIOUS
    <3> QED BY <2>1, <3>1, Quotient
  <2>3. lev[p[Root]] = Root /\ num[p[Root]] = 0 /\ Root + 1 = Done
    BY DEF Shape, Leads, Root, Done
  <2> QED BY <2>1, <2>2, <2>3 DEF Root
<1>2. ASSUME NEW k \in l..(Root - 1), k + 1 \in S PROVE k \in S
  <2>1. k \in 0..Root /\ k + 1 \in 0..Root /\ k + 1 \in l..Root /\ (k + 1) - 1 = k
    BY DEF Root
  <2>2. PICK t \in 1..Len(T) : t = p[k + 1]
    BY <2>1 DEF Leads
  <2>3. PICK i \in Index : i = FindPtabe(k + 1, a)
    BY <2>1, EntryOf DEF Index
  <2>4. lev[t] = k + 1 /\ num[t] = a \div PtabSize[(k + 1) + 1]
    BY <1>2, <2>2
  <2>5. T[t][i].valid /\ ~T[t][i].leaf /\ T[t][i].to = p[k]
    BY <2>2, <2>3 DEF Leads, Link
  <2>6. EntryRight(T, lev, num, t, i)
    BY DEF Shape
  <2>7. lev[p[k]] = k /\ num[p[k]] = num[t] * Entries + i
    BY <2>1, <2>4, <2>5, <2>6 DEF EntryRight
  <2>8. a \div PtabSize[k + 1] = num[t] * Entries + i
    BY <2>1, <2>3, <2>4, EntryOf
  <2> QED BY <2>1, <2>7, <2>8
<1> HIDE DEF S
<1>3. l..Root \subseteq S
  BY <1>1, <1>2, LevelsBelow
<1> QED BY <1>3 DEF S

\* A leaf at the end of a path maps its address one to one.
LEMMA LeafMaps ==
  ASSUME NEW T, IsTabs(T), NEW lev, NEW num, Shape(T, lev, num), NEW p, NEW l \in 0..Root,
         NEW a \in Nat, a < PtabSize[Done], Leads(T, p, l, a), Leaf(T, p[l], FindPtabe(l, a))
  PROVE  Mapped(T, a)
<1>0. \A k \in l..Root : lev[p[k]] = k /\ num[p[k]] = a \div PtabSize[k + 1]
  BY PathNumbers
<1>1. l \in l..Root
  BY DEF Root
<1>2. PICK t \in 1..Len(T) : t = p[l]
  BY <1>1 DEF Leads
<1>3. PICK i \in Index : i = FindPtabe(l, a)
  BY EntryOf DEF Index
<1>4. lev[t] = l /\ num[t] = a \div PtabSize[l + 1]
  BY <1>0, <1>1, <1>2, Zenon
<1>5. EntryRight(T, lev, num, t, i)
  BY DEF Shape
<1>6. T[t][i].to = (num[t] * Entries + i) * PtabSize[l]
  BY <1>2, <1>3, <1>4, <1>5 DEF EntryRight, Leaf
<1>7. num[t] * Entries + i = a \div PtabSize[l]
  BY <1>3, <1>4, EntryOf
<1>8. PtabSize[l] \in Nat \ {0}
  <2>1. l \in 0..Done
    BY DEF Root, Done
  <2> QED BY <2>1, Powers, Zenon
<1>9. (a \div PtabSize[l]) * PtabSize[l] + (a % PtabSize[l]) = a
  BY <1>8, Parts
<1> QED BY <1>2, <1>3, <1>6, <1>7, <1>9 DEF Mapped

-----------------------------------------------------------------------------
(* Page tables: the steps of ptab_map_level() *)

\* Tables that differ in entry i of table t alone.
OnlyAt(T, U, t, i) ==
  \A s \in 1..Len(T) : \A j \in Index : U[s][j] = T[s][j] \/ (s = t /\ j = i)

SetTo(T, t, i, e) == [T EXCEPT ![t][i] = e]
WithTable(T, t, i) == Append(SetTo(T, t, i, [valid |-> TRUE, leaf |-> FALSE, to |-> Len(T) + 1]), Empty)

\* An entry that was not valid is set.
LEMMA SetEntry ==
  ASSUME NEW T, IsTabs(T), NEW t \in 1..Len(T), NEW i \in Index, NEW e \in Entry,
         ~T[t][i].valid, NEW U, U = SetTo(T, t, i, e)
  PROVE  /\ IsTabs(U) /\ Len(U) = Len(T) /\ Grows(T, U) /\ U[t][i] = e
         /\ OnlyAt(T, U, t, i)
<1>1. T \in Seq([Index -> Entry]) /\ Len(T) \in Nat /\ DOMAIN T = 1..Len(T)
  BY DEF IsTabs
<1>2. U \in Seq([Index -> Entry]) /\ Len(U) = Len(T)
  BY <1>1 DEF SetTo
<1>3. U[t][i] = e
  BY <1>1 DEF SetTo
<1>4. \A s \in 1..Len(T) : \A j \in Index : U[s][j] = T[s][j] \/ (s = t /\ j = i)
  BY <1>1 DEF SetTo
<1>5. Grows(T, U)
  BY <1>1, <1>2, <1>4 DEF Grows
<1> QED BY <1>2, <1>3, <1>4, <1>5 DEF IsTabs, OnlyAt

\* A table is added.
LEMMA AddTable ==
  ASSUME NEW T, IsTabs(T), NEW U, U = Append(T, Empty)
  PROVE  /\ IsTabs(U) /\ Len(U) = Len(T) + 1 /\ Grows(T, U) /\ Len(T) \in Nat
         /\ \A s \in 1..Len(T) : U[s] = T[s]
         /\ \A j \in Index : ~U[Len(T) + 1][j].valid
<1>1. T \in Seq([Index -> Entry]) /\ Len(T) \in Nat
  BY DEF IsTabs
<1>2. Empty \in [Index -> Entry] /\ \A j \in Index : ~Empty[j].valid
  BY DEF Empty, NoEntry, Index, Entry
<1> HIDE DEF Empty
<1>3. U \in Seq([Index -> Entry]) /\ Len(U) = Len(T) + 1 /\ U[Len(T) + 1] = Empty
  BY <1>1, <1>2
<1>4. \A s \in 1..Len(T) : U[s] = T[s]
  BY <1>1
<1>5. Grows(T, U)
  BY <1>1, <1>3, <1>4 DEF Grows
<1> QED BY <1>1, <1>2, <1>3, <1>4, <1>5 DEF IsTabs

\* The address of the entry of a path.
LEMMA PathEntry ==
  ASSUME NEW T, IsTabs(T), NEW lev, NEW num, Shape(T, lev, num), NEW p, NEW l \in 0..Root,
         NEW a \in Nat, a < PtabSize[Done], Leads(T, p, l, a)
  PROVE  /\ p[l] \in 1..Len(T) /\ FindPtabe(l, a) \in Index
         /\ lev[p[l]] = l
         /\ num[p[l]] * Entries + FindPtabe(l, a) = a \div PtabSize[l]
<1>1. \A k \in l..Root : lev[p[k]] = k /\ num[p[k]] = a \div PtabSize[k + 1]
  BY PathNumbers
<1>2. l \in l..Root
  BY DEF Root
<1>3. p[l] \in 1..Len(T) /\ FindPtabe(l, a) \in Index
  BY <1>2, EntryOf DEF Leads, Index
<1>4. lev[p[l]] = l /\ num[p[l]] = a \div PtabSize[l + 1]
  BY <1>1, <1>2
<1> QED BY <1>3, <1>4, EntryOf

LEMMA LeafShape ==
  ASSUME NEW T, IsTabs(T), NEW lev, NEW num, Shape(T, lev, num), NEW p, NEW l \in 0..Root,
         NEW a \in Nat, a < PtabSize[Done], Leads(T, p, l, a), Aligned(l, a), AllowLeaf(l),
         NEW U, U[p[l]][FindPtabe(l, a)] = [valid |-> TRUE, leaf |-> TRUE, to |-> a],
         Len(U) = Len(T), OnlyAt(T, U, p[l], FindPtabe(l, a))
  PROVE  Shape(U, lev, num)
<1>1. PICK t \in 1..Len(T) : t = p[l]
  BY PathEntry
<1>2. PICK i \in Index : i = FindPtabe(l, a)
  BY PathEntry
<1>3. lev[t] = l /\ num[t] * Entries + i = a \div PtabSize[l]
  BY <1>1, <1>2, PathEntry
<1>4. (a \div PtabSize[l]) * PtabSize[l] = a
  <2>1. PtabSize[l] \in Nat \ {0}
    <3>1. l \in 0..Done
      BY DEF Root, Done
    <3> QED BY <3>1, Powers, Zenon
  <2>2. PICK n \in Nat \ {0} : n = PtabSize[l]
    BY <2>1
  <2>3. a % n = 0
    BY <2>2 DEF Aligned
  <2>4. a = (a \div n) * n
    BY <2>3, Parts
  <2> QED BY <2>2, <2>4
<1>5. U[t][i] = [valid |-> TRUE, leaf |-> TRUE, to |-> a]
  BY <1>1, <1>2
<1>6. EntryRight(U, lev, num, t, i)
  BY <1>3, <1>4, <1>5 DEF EntryRight
<1>7. ASSUME NEW s \in 1..Len(T), NEW j \in Index PROVE EntryRight(U, lev, num, s, j)
  <2>1. EntryRight(T, lev, num, s, j)
    BY DEF Shape
  <2>2. CASE U[s][j] = T[s][j]
    BY <2>1, <2>2 DEF EntryRight
  <2>3. CASE s = p[l] /\ j = FindPtabe(l, a)
    BY <1>1, <1>2, <1>6, <2>3
  <2> QED BY <2>2, <2>3 DEF OnlyAt
<1> QED BY <1>7 DEF Shape

\* The last table of U is the one below the entry of address a.
NewLevels(U, lev, l) == [s \in 1..Len(U) |-> IF s = Len(U) THEN l - 1 ELSE lev[s]]
NewNumbers(U, num, l, a) == [s \in 1..Len(U) |-> IF s = Len(U) THEN a \div PtabSize[l] ELSE num[s]]
NoneValid(T, t) == \A j \in Index : ~T[t][j].valid

\* A table below the entry of a path.
LEMMA TableShape ==
  ASSUME NEW T, IsTabs(T), NEW lev, NEW num, Shape(T, lev, num), NEW p, NEW l \in 1..Root,
         NEW a \in Nat, a < PtabSize[Done], Leads(T, p, l, a),
         NEW U, U[p[l]][FindPtabe(l, a)] = [valid |-> TRUE, leaf |-> FALSE, to |-> Len(T) + 1],
         Len(T) \in Nat, Len(U) = Len(T) + 1, OnlyAt(T, U, p[l], FindPtabe(l, a)),
         NoneValid(U, Len(T) + 1)
  PROVE  Shape(U, NewLevels(U, lev, l), NewNumbers(U, num, l, a))
<1>0. l \in 0..Root /\ l - 1 \in 0..Root
  BY DEF Root
<1>1. PICK t \in 1..Len(T) : t = p[l]
  BY <1>0, PathEntry
<1>2. PICK i \in Index : i = FindPtabe(l, a)
  BY <1>0, PathEntry
<1>3. lev[t] = l /\ num[t] * Entries + i = a \div PtabSize[l]
  BY <1>0, <1>1, <1>2, PathEntry
<1>4. a \div PtabSize[l] \in Nat
  BY <1>0, EntryOf
<1>5. PICK z \in Nat \ {0} : z = Len(U) /\ z = Len(T) + 1
  OBVIOUS
<1>6. PICK L : L = NewLevels(U, lev, l)
  OBVIOUS
<1>7. PICK N : N = NewNumbers(U, num, l, a)
  OBVIOUS
<1>8. \A s \in 1..Len(T) : s \in 1..z /\ s # z
  BY <1>5
<1>9. \A s \in 1..z : s = z \/ s \in 1..Len(T)
  BY <1>5
<1>10. /\ L[z] = l - 1 /\ N[z] = a \div PtabSize[l]
       /\ \A s \in 1..Len(T) : L[s] = lev[s] /\ N[s] = num[s]
  <2>1. z \in 1..Len(U)
    BY <1>5
  <2> QED BY <1>5, <1>6, <1>7, <1>8, <2>1 DEF NewLevels, NewNumbers
<1>11. L \in [1..z -> 0..Root] /\ N \in [1..z -> Nat]
  <2>1. lev \in [1..Len(T) -> 0..Root] /\ num \in [1..Len(T) -> Nat]
    BY DEF Shape
  <2>2. ASSUME NEW s \in 1..z PROVE /\ (IF s = z THEN l - 1 ELSE lev[s]) \in 0..Root
                                   /\ (IF s = z THEN a \div PtabSize[l] ELSE num[s]) \in Nat
    BY <1>0, <1>4, <1>9, <2>1
  <2> QED BY <1>5, <1>6, <1>7, <2>2 DEF NewLevels, NewNumbers
<1>12. L[1] = Root /\ N[1] = 0
  BY <1>10 DEF Shape
<1>13. EntryRight(U, L, N, t, i)
  <2>1. U[t][i] = [valid |-> TRUE, leaf |-> FALSE, to |-> z]
    BY <1>1, <1>2, <1>5
  <2>2. L[t] = l /\ N[t] = num[t]
    BY <1>3, <1>10
  <2>3. l > 0 /\ z \in 1..Len(U)
    BY <1>5
  <2> QED BY <1>3, <1>10, <2>1, <2>2, <2>3 DEF EntryRight
<1>14. ASSUME NEW s \in 1..Len(T), NEW j \in Index PROVE EntryRight(U, L, N, s, j)
  <2>1. EntryRight(T, lev, num, s, j)
    BY DEF Shape
  <2>2. CASE U[s][j] = T[s][j]
    <3>1. L[s] = lev[s] /\ N[s] = num[s]
      BY <1>10
    <3>2. ASSUME T[s][j].valid, ~T[s][j].leaf
          PROVE  /\ lev[s] > 0 /\ T[s][j].to \in 1..Len(U)
                 /\ L[T[s][j].to] = lev[s] - 1 /\ N[T[s][j].to] = num[s] * Entries + j
      <4>1. /\ lev[s] > 0 /\ T[s][j].to \in 1..Len(T)
            /\ lev[T[s][j].to] = lev[s] - 1 /\ num[T[s][j].to] = num[s] * Entries + j
        BY <2>1, <3>2 DEF EntryRight
      <4> QED BY <1>5, <1>8, <1>10, <4>1
    <3> QED BY <2>1, <2>2, <3>1, <3>2 DEF EntryRight
  <2>3. CASE s = p[l] /\ j = FindPtabe(l, a)
    BY <1>1, <1>2, <1>13, <2>3
  <2> QED BY <2>2, <2>3 DEF OnlyAt
<1>15. ASSUME NEW j \in Index PROVE EntryRight(U, L, N, z, j)
  BY <1>5 DEF EntryRight, NoneValid
<1>16. \A s \in 1..Len(U) : \A j \in Index : EntryRight(U, L, N, s, j)
  BY <1>5, <1>9, <1>14, <1>15
<1>17. Shape(U, L, N)
  BY <1>5, <1>11, <1>12, <1>16 DEF Shape
<1> QED BY <1>6, <1>7, <1>17, Zenon

\* A range is aligned to a level, or does not leave an entry of the level.
Fit(j, la, size) == la % PtabSize[j] = 0 \/ (la % PtabSize[j]) + size <= PtabSize[j]

\* ptab_map_level() is at an entry of level l.
Reaching(T, l, p, la, size) ==
  /\ Leads(T, p, l, la)
  /\ size > 0 /\ la + size <= PtabSize[Done]
  /\ \A j \in 0..l : Fit(j, la, size)

LEMMA SizeOf ==
  ASSUME NEW l \in 0..Root PROVE PtabSize[l] \in Nat \ {0}
<1>1. l \in 0..Done
  BY DEF Root, Done
<1> QED BY <1>1, Powers, Zenon

LEMMA SameBlock ==
  ASSUME NEW n \in Nat \ {0}, NEW b \in Nat, NEW size \in Nat, NEW a \in Nat,
         b % n = 0 \/ (b % n) + size <= n, b <= a, a < b + size, a < b + n
  PROVE  a \div n = b \div n
<1>1. PICK q \in Nat : q = b \div n
  BY Parts
<1>2. PICK r \in Nat : r = b % n /\ r < n /\ b = q * n + r
  BY <1>1, Parts
<1>3. PICK d \in Nat : d = a - b
  OBVIOUS
<1>4. r + d < n /\ r + d \in Nat
  BY <1>2, <1>3
<1>5. a = q * n + (r + d)
  <2>1. q * n \in Nat
    OBVIOUS
  <2> QED BY <1>2, <1>3, <2>1
<1>6. a \div n = q
  BY <1>4, <1>5, Quotient
<1> QED BY <1>1, <1>6

\* An entry that is a leaf maps the part of the range that lies in it.
LEMMA LeafCovers ==
  ASSUME NEW T, IsTabs(T), NEW lev, NEW num, Shape(T, lev, num), NEW p, NEW l \in 0..Root,
         NEW la \in Nat, NEW size \in Nat, Reaching(T, l, p, la, size),
         Leaf(T, p[l], FindPtabe(l, la)),
         NEW a \in Nat, la <= a, a < la + size, a < la + PtabSize[l]
  PROVE  Mapped(T, a)
<1>1. PICK n \in Nat \ {0} : n = PtabSize[l]
  BY SizeOf
<1>2. Fit(l, la, size)
  BY DEF Reaching
<1>3. a \div n = la \div n
  BY <1>1, <1>2, SameBlock DEF Fit
<1>4. Shares(l, la, a)
  BY <1>1, <1>3 DEF Shares
<1>5. Leads(T, p, l, la)
  BY DEF Reaching
<1>6. l \in l..Done /\ l \in 0..Done /\ l <= l + 1
  BY DEF Root, Done
<1>7. Leads(T, p, l, a)
  BY <1>4, <1>5, <1>6, LeadsShared
<1>8. FindPtabe(l, la) = FindPtabe(l, a)
  BY <1>4, <1>6, SharesAbove DEF Root
<1>9. a < PtabSize[Done]
  <2>1. PtabSize[Done] \in Nat
    BY Powers DEF Done
  <2> QED BY <2>1 DEF Reaching
<1> QED BY <1>7, <1>8, <1>9, LeafMaps

\* The loop that goes on is the one of the table the address lies in.
LEMMA ResumeIs ==
  ASSUME NEW l \in 0..Root, NEW la \in Nat \ {0}, la < PtabSize[Done], Aligned(l, la),
         NEW size, size # 0
  PROVE  /\ Resume(l, la, size) \in l..Root
         /\ ~Aligned(Resume(l, la, size) + 1, la)
         /\ Aligned(Resume(l, la, size), la)
<1> DEFINE I == { k \in l..Root : ~Aligned(k + 1, la) } \cup {Done}
<1>1. I \in SUBSET Nat /\ I # {}
  BY DEF Root, Done
<1>2. Resume(l, la, size) = Min(I)
  BY DEF Resume
<1>3. Root \in I
  <2>1. PICK n \in Nat \ {0} : n = PtabSize[Done]
    BY Powers DEF Done
  <2>2. la % n = la
    <3>1. la = 0 * n + la
      OBVIOUS
    <3> QED BY <2>1, <3>1, Quotient
  <2>3. Root + 1 = Done /\ Root \in l..Root
    BY DEF Root, Done
  <2> QED BY <2>1, <2>2, <2>3 DEF Aligned
<1>4. \A k \in I : k # Done => k \in l..Root /\ ~Aligned(k + 1, la)
  OBVIOUS
<1>5. \A k \in l..Root : k \notin I => Aligned(k + 1, la)
  OBVIOUS
<1> HIDE DEF I
<1>6. PICK m \in Nat : m = Min(I) /\ m \in I /\ \A y \in I : m <= y
  BY <1>1, MinIs
<1>7. m # Done
  BY <1>3, <1>6 DEF Root, Done
<1>8. m \in l..Root /\ ~Aligned(m + 1, la)
  BY <1>4, <1>6, <1>7
<1>9. Aligned(m, la)
  <2>1. CASE m = l
    BY <2>1
  <2>2. CASE m # l
    <3>1. m - 1 \in l..Root /\ m - 1 < m /\ (m - 1) + 1 = m
      BY <1>8, <2>2 DEF Root
    <3>2. m - 1 \notin I
      BY <1>6, <3>1
    <3> QED BY <1>5, <3>1, <3>2
  <2> QED BY <2>1, <2>2
<1> QED BY <1>2, <1>6, <1>8, <1>9

\* What is left of the size behind an entry.
Rest(n, size) == IF n <= size THEN size - n ELSE 0

LEMMA RestLeft ==
  ASSUME NEW n \in Nat \ {0}, NEW b \in Nat, NEW size \in Nat \ {0}, NEW end \in Nat, b + size <= end,
         b % n = 0 \/ (b % n) + size <= n
  PROVE  /\ Rest(n, size) \in Nat
         /\ Rest(n, size) # 0 => b % n = 0
         /\ Rest(n, size) # 0 => b + n \in Nat \ {0} /\ b + n < end
         /\ Rest(n, size) # 0 => (b + n) + Rest(n, size) = b + size
<1>1. PICK r \in Nat : r = b % n
  BY Parts
<1>2. \/ Rest(n, size) = size - n /\ n <= size
      \/ Rest(n, size) = 0 /\ size < n
  BY DEF Rest
<1>3. r = 0 \/ r + size <= n
  BY <1>1
<1> QED BY <1>1, <1>2, <1>3

LEMMA RestCovers ==
  ASSUME NEW n \in Nat \ {0}, NEW b \in Nat, NEW size \in Nat, NEW a \in Nat, b <= a, a < b + size
  PROVE  \/ a < b + n
         \/ Rest(n, size) # 0 /\ b + n <= a /\ a < (b + n) + Rest(n, size)
BY DEF Rest

\* Behind a leaf ptab_map_level() is at the next entry of the tables.
LEMMA LeafAdvances ==
  ASSUME NEW T, NEW p, NEW l \in 0..Root, NEW la \in Nat, NEW size \in Nat,
         Reaching(T, l, p, la, size),
         NEW n, n = PtabSize[l], NEW k, k = Resume(l, la + n, Rest(n, size))
  PROVE  /\ la + n \in Nat /\ Rest(n, size) \in Nat
         /\ k = Done <=> Rest(n, size) = 0
         /\ k # Done => /\ k \in l..Root /\ Reaching(T, k, p, la + n, Rest(n, size))
                        /\ Aligned(l, la) /\ Aligned(k, la + n) /\ ~Aligned(k + 1, la + n)
                        /\ (la + n) + Rest(n, size) = la + size
         /\ \A a \in Nat : la <= a /\ a < la + size =>
              a < la + n \/ (k # Done /\ la + n <= a /\ a < (la + n) + Rest(n, size))
<1>1. n \in Nat \ {0}
  BY SizeOf
<1>2. PICK end \in Nat : end = PtabSize[Done]
  BY Powers DEF Done
<1>3. Leads(T, p, l, la) /\ size \in Nat \ {0} /\ la + size <= end
  BY <1>2 DEF Reaching
<1>4. la % n = 0 \/ (la % n) + size <= n
  BY DEF Reaching, Fit
<1>5. /\ Rest(n, size) \in Nat
      /\ Rest(n, size) # 0 => la % n = 0
      /\ Rest(n, size) # 0 => la + n \in Nat \ {0} /\ la + n < end
      /\ Rest(n, size) # 0 => (la + n) + Rest(n, size) = la + size
  BY ONLY <1>1, <1>3, <1>4, la \in Nat, end \in Nat, RestLeft
<1>11. ASSUME NEW a \in Nat, la <= a, a < la + size
       PROVE  a < la + n \/ (Rest(n, size) # 0 /\ la + n <= a /\ a < (la + n) + Rest(n, size))
  BY <1>1, <1>11, RestCovers
<1>6. la + n \in Nat
  BY <1>1
<1>7. PICK b \in Nat : b = la + n
  BY <1>6
<1>8. PICK r \in Nat : r = Rest(n, size)
  BY <1>5
<1>9. CASE r = 0
  <2>1. k = Done
    BY <1>7, <1>8, <1>9 DEF Resume
  <2> QED BY <1>5, <1>6, <1>8, <1>9, <1>11, <2>1
<1>10. CASE r # 0
  <2>1. Aligned(l, la) /\ b \in Nat \ {0} /\ b < PtabSize[Done] /\ b + r = la + size
    BY <1>2, <1>5, <1>7, <1>8, <1>10 DEF Aligned
  <2>2. Aligned(l, b)
    <3>1. PICK x \in Nat : la = x * n
      BY <1>1, <2>1, Multiples DEF Aligned
    <3>2. b = (x + 1) * n
      BY <1>1, <1>7, <3>1
    <3> QED BY <1>1, <3>2, Multiples DEF Aligned
  <2>3. k \in l..Root /\ ~Aligned(k + 1, b) /\ Aligned(k, b)
    BY <1>7, <1>8, <1>10, <2>1, <2>2, ResumeIs
  <2>4. k # Done /\ k \in 0..Root /\ k \in 0..Done /\ k + 1 \in k..Done
    BY <2>3 DEF Root, Done
  <2>5. Shares(k + 1, la, b)
    BY <1>7, <2>1, <2>3, NextShares DEF Shares
  <2>6. Leads(T, p, k, la)
    <3>1. \A h \in k..Root : h \in l..Root
      BY <2>3 DEF Root
    <3>2. \A h \in k..(Root - 1) : h \in l..(Root - 1)
      BY <2>3 DEF Root
    <3> QED BY <1>3, <3>1, <3>2 DEF Leads
  <2>7. Leads(T, p, k, b)
    BY <2>4, <2>5, <2>6, LeadsShared
  <2>8. \A j \in 0..k : Fit(j, b, r)
    <3> SUFFICES ASSUME NEW j \in 0..k PROVE Fit(j, b, r)
      OBVIOUS
    <3>1. Aligned(j, b)
      BY <2>3, <2>4, AlignedBelow
    <3> QED BY <3>1 DEF Aligned, Fit
  <2>9. Reaching(T, k, p, b, r)
    <3>1. r > 0 /\ b + r <= PtabSize[Done]
      BY <1>2, <1>3, <1>10, <2>1
    <3> QED BY <2>7, <2>8, <3>1 DEF Reaching
  <2> QED BY <1>5, <1>6, <1>7, <1>8, <1>10, <1>11, <2>1, <2>3, <2>4, <2>9
<1> QED BY <1>9, <1>10

-----------------------------------------------------------------------------
(* Page tables: the invariant *)

WalkFields ==
  /\ DOMAIN walk = {"level", "path", "la", "size"} /\ DOMAIN walk.path = 0..Root
  /\ walk.level \in 0..Done /\ walk.la \in Nat /\ walk.size \in Nat

\* The loop that runs is at the entry of its address.
WalkReaches == walk.level # Done => Reaching(tabs, walk.level, walk.path, walk.la, walk.size)

\* What is not mapped yet is what the loop still has to do.
Pending(a) == walk.level # Done /\ walk.la <= a /\ a < walk.la + walk.size
Progress == asked \subseteq Nat /\ \A a \in asked : Mapped(tabs, a) \/ Pending(a)

\* What a step of MapLeaf does.
LEMMA LeafFacts ==
  ASSUME WalkFields, MapLeaf
  PROVE  LET l == walk.level
             t == walk.path[l]
             i == FindPtabe(l, walk.la)
         IN
         /\ l \in 0..Root /\ AllowLeaf(l)
         /\ walk'.level = Resume(l, walk.la + PtabSize[l], Rest(PtabSize[l], walk.size))
         /\ walk'.path = walk.path
         /\ walk'.la = walk.la + PtabSize[l] /\ walk'.size = Rest(PtabSize[l], walk.size)
         /\ DOMAIN walk' = DOMAIN walk
         /\ \/ tabs' = tabs /\ Leaf(tabs, t, i)
            \/ /\ ~tabs[t][i].valid /\ Aligned(l, walk.la) /\ walk.size >= PtabSize[l]
               /\ tabs' = [tabs EXCEPT ![t][i] = [valid |-> TRUE, leaf |-> TRUE, to |-> walk.la]]
         /\ UNCHANGED <<long, gig, asked, full>>
<1> DEFINE l == walk.level
           t == walk.path[l]
           i == FindPtabe(l, walk.la)
<1>1. l \in 0..Root
  BY DEF MapLeaf, WalkFields, Root, Done
<1>2. EndsHere(l, tabs[t][i])
  BY DEF MapLeaf
<1>3. tabs' = IF BecomesLeaf(l, tabs[t][i])
              THEN [tabs EXCEPT ![t][i] = [valid |-> TRUE, leaf |-> TRUE, to |-> walk.la]] ELSE tabs
  BY DEF MapLeaf
<1>4. walk' = [walk EXCEPT !.level = Resume(l, walk.la + PtabSize[l], Rest(PtabSize[l], walk.size)),
                           !.la = walk.la + PtabSize[l], !.size = Rest(PtabSize[l], walk.size)]
  BY DEF MapLeaf, Rest
<1>5. /\ walk'.level = Resume(l, walk.la + PtabSize[l], Rest(PtabSize[l], walk.size))
      /\ walk'.path = walk.path
      /\ walk'.la = walk.la + PtabSize[l] /\ walk'.size = Rest(PtabSize[l], walk.size)
      /\ DOMAIN walk' = DOMAIN walk
  BY <1>4 DEF WalkFields
<1>6. AllowLeaf(l)
  BY <1>2 DEF EndsHere
<1>7. \/ tabs' = tabs /\ Leaf(tabs, t, i)
      \/ /\ ~tabs[t][i].valid /\ Aligned(l, walk.la) /\ walk.size >= PtabSize[l]
         /\ tabs' = [tabs EXCEPT ![t][i] = [valid |-> TRUE, leaf |-> TRUE, to |-> walk.la]]
  BY <1>2, <1>3 DEF EndsHere, BecomesLeaf, Leaf
<1>8. UNCHANGED <<long, gig, asked, full>>
  BY DEF MapLeaf
<1> QED BY <1>1, <1>5, <1>6, <1>7, <1>8

\* The loop stays at its entry when the tables grow.
LEMMA ReachingStays ==
  ASSUME NEW T, NEW U, IsTabs(T), IsTabs(U), Grows(T, U), NEW p, NEW l \in 0..Root,
         NEW la \in Nat, NEW size \in Nat, Reaching(T, l, p, la, size)
  PROVE  Reaching(U, l, p, la, size)
BY LeadsStays DEF Reaching

LEMMA LeafStep ==
  ASSUME IsTabs(tabs), WalkFields, WalkReaches, Progress, NEW lev, NEW num, Shape(tabs, lev, num), MapLeaf
  PROVE  /\ IsTabs(tabs') /\ WalkFields' /\ WalkReaches' /\ Progress'
         /\ Shape(tabs', lev, num) /\ Len(tabs') = Len(tabs)
<1>1. PICK l : l = walk.level
  OBVIOUS
<1>2. PICK p : p = walk.path
  OBVIOUS
<1>3. PICK la \in Nat : la = walk.la
  BY DEF WalkFields
<1>4. PICK size \in Nat : size = walk.size
  BY DEF WalkFields
<1>5. PICK i : i = FindPtabe(l, la)
  OBVIOUS
<1>6. PICK n : n = PtabSize[l]
  OBVIOUS
<1>7. /\ l \in 0..Root /\ AllowLeaf(l)
      /\ walk'.level = Resume(l, la + n, Rest(n, size))
      /\ walk'.path = p
      /\ walk'.la = la + n /\ walk'.size = Rest(n, size)
      /\ DOMAIN walk' = DOMAIN walk
      /\ \/ tabs' = tabs /\ Leaf(tabs, p[l], i)
         \/ /\ ~tabs[p[l]][i].valid /\ Aligned(l, la)
            /\ tabs' = [tabs EXCEPT ![p[l]][i] = [valid |-> TRUE, leaf |-> TRUE, to |-> la]]
      /\ UNCHANGED <<long, gig, asked, full>>
  BY <1>1, <1>2, <1>3, <1>4, <1>5, <1>6, LeafFacts
<1>8. Reaching(tabs, l, p, la, size)
  BY <1>1, <1>2, <1>3, <1>4, <1>7 DEF WalkReaches, Root, Done
<1>9. Leads(tabs, p, l, la) /\ la < PtabSize[Done]
  <2>1. PtabSize[Done] \in Nat
    BY Powers DEF Done
  <2> QED BY <1>8, <2>1 DEF Reaching
<1>10. p[l] \in 1..Len(tabs) /\ i \in Index
  BY <1>5, <1>7, <1>9, PathEntry
<1>11. /\ IsTabs(tabs') /\ Len(tabs') = Len(tabs) /\ Grows(tabs, tabs')
       /\ Leaf(tabs', p[l], i) /\ Shape(tabs', lev, num)
  <2>1. CASE tabs' = tabs /\ Leaf(tabs, p[l], i)
    <3>1. Grows(tabs, tabs)
      BY TabsLen DEF Grows
    <3> QED BY <2>1, <3>1
  <2>2. CASE /\ ~tabs[p[l]][i].valid /\ Aligned(l, la)
             /\ tabs' = [tabs EXCEPT ![p[l]][i] = [valid |-> TRUE, leaf |-> TRUE, to |-> la]]
    <3> DEFINE e == [valid |-> TRUE, leaf |-> TRUE, to |-> la]
    <3>1. e \in Entry
      BY DEF Entry
    <3>2. /\ IsTabs(tabs') /\ Len(tabs') = Len(tabs) /\ Grows(tabs, tabs') /\ tabs'[p[l]][i] = e
          /\ OnlyAt(tabs, tabs', p[l], i)
      <4> HIDE DEF e
      <4>1. tabs' = SetTo(tabs, p[l], i, e)
        BY <2>2 DEF e, SetTo
      <4> QED BY <1>10, <2>2, <3>1, <4>1, SetEntry, Zenon
    <3>3. Shape(tabs', lev, num)
      BY <1>5, <1>7, <1>9, <2>2, <3>2, LeafShape
    <3> QED BY <3>2, <3>3 DEF Leaf
  <2> QED BY <1>7, <2>1, <2>2
<1>12. Reaching(tabs', l, p, la, size)
  BY <1>7, <1>8, <1>11, ReachingStays
<1>13. PICK k : k = Resume(l, la + n, Rest(n, size))
  OBVIOUS
<1>14. /\ la + n \in Nat /\ Rest(n, size) \in Nat
       /\ k # Done => k \in l..Root /\ Reaching(tabs', k, p, la + n, Rest(n, size))
  BY <1>6, <1>7, <1>12, <1>13, LeafAdvances
<1>15. ASSUME NEW a \in Nat, la <= a, a < la + size
       PROVE  a < la + n \/ (k # Done /\ la + n <= a /\ a < (la + n) + Rest(n, size))
  BY <1>6, <1>7, <1>12, <1>13, <1>15, LeafAdvances
<1>16. WalkFields'
  <2>1. k \in 0..Done
    BY <1>7, <1>14 DEF Root, Done
  <2> QED BY <1>2, <1>7, <1>13, <1>14, <2>1 DEF WalkFields
<1>17. WalkReaches'
  BY <1>7, <1>13, <1>14 DEF WalkReaches
<1>18. Progress'
  <2> SUFFICES ASSUME NEW a \in asked PROVE Mapped(tabs', a) \/ Pending(a)'
    BY <1>7 DEF Progress
  <2>1. a \in Nat /\ (Mapped(tabs, a) \/ Pending(a))
    BY DEF Progress
  <2>2. CASE Mapped(tabs, a)
    BY <1>11, <2>1, <2>2, MappedStays
  <2>3. CASE Pending(a)
    <3>1. la <= a /\ a < la + size
      BY <1>3, <1>4, <2>3 DEF Pending
    <3>2. CASE a < la + n
      BY <1>5, <1>6, <1>7, <1>11, <1>12, <2>1, <3>1, <3>2, LeafCovers
    <3>3. CASE k # Done /\ la + n <= a /\ a < (la + n) + Rest(n, size)
      BY <1>7, <1>13, <3>3 DEF Pending
    <3> QED BY <1>15, <2>1, <3>1, <3>2, <3>3
  <2> QED BY <2>1, <2>2, <2>3
<1> QED BY <1>11, <1>16, <1>17, <1>18

\* Paths with the same tables from level l on.
SameAbove(p, q, l) == \A k \in l..Root : q[k] = p[k]

\* A path is continued to the next level.
LEMMA PathGoesOn ==
  ASSUME NEW T, NEW p, NEW q, NEW l \in 1..Root, NEW a \in Nat, Leads(T, p, l, a), SameAbove(p, q, l),
         q[l - 1] \in 1..Len(T), T[p[l]][FindPtabe(l, a)].valid, ~T[p[l]][FindPtabe(l, a)].leaf,
         T[p[l]][FindPtabe(l, a)].to = q[l - 1]
  PROVE  Leads(T, q, l - 1, a)
<1>1. q[Root] = 1
  BY DEF Leads, SameAbove, Root
<1>2. \A k \in (l - 1)..Root : k = l - 1 \/ k \in l..Root
  BY DEF Root
<1>3. \A k \in (l - 1)..Root : q[k] \in 1..Len(T)
  BY <1>2 DEF Leads, SameAbove
<1>4. ASSUME NEW k \in (l - 1)..(Root - 1) PROVE Link(T, q, k, a)
  <2>1. CASE k = l - 1
    <3>1. k + 1 = l /\ l \in l..Root
      BY <2>1 DEF Root
    <3>2. q[l] = p[l]
      BY <3>1 DEF SameAbove
    <3> QED BY <2>1, <3>1, <3>2 DEF Link
  <2>2. CASE k # l - 1
    <3>1. k \in l..(Root - 1) /\ k \in l..Root /\ k + 1 \in l..Root
      BY <2>2 DEF Root
    <3>2. q[k] = p[k] /\ q[k + 1] = p[k + 1] /\ Link(T, p, k, a)
      BY <3>1 DEF SameAbove, Leads
    <3> QED BY <3>2 DEF Link
  <2> QED BY <2>1, <2>2
<1> QED BY <1>1, <1>3, <1>4 DEF Leads

\* What a step of Descend does.
LEMMA DescendFacts ==
  ASSUME WalkFields, Descend
  PROVE  LET l == walk.level
             t == walk.path[l]
             i == FindPtabe(l, walk.la)
         IN
         /\ l \in 1..Root /\ ~EndsHere(l, tabs[t][i])
         /\ \/ ~tabs[t][i].valid /\ AllocPanics /\ UNCHANGED <<tabs, walk>>
            \/ /\ full' = full /\ DOMAIN walk' = DOMAIN walk /\ DOMAIN walk'.path = DOMAIN walk.path
               /\ walk'.level = l - 1 /\ walk'.la = walk.la /\ walk'.size = walk.size
               /\ SameAbove(walk.path, walk'.path, l)
               /\ \/ tabs[t][i].valid /\ tabs' = tabs /\ walk'.path[l - 1] = tabs[t][i].to
                  \/ /\ ~tabs[t][i].valid /\ walk'.path[l - 1] = Len(tabs) + 1
                     /\ tabs' = Append([tabs EXCEPT ![t][i] =
                                  [valid |-> TRUE, leaf |-> FALSE, to |-> Len(tabs) + 1]], Empty)
         /\ UNCHANGED <<long, gig, asked>>
<1> DEFINE l == walk.level
           t == walk.path[l]
           i == FindPtabe(l, walk.la)
           e == tabs[t][i]
           to0 == IF NeedsTable(e) THEN Len(tabs) + 1 ELSE e.to
<1>1. l \in 1..Root
  BY DEF Descend, WalkFields, Root, Done
<1>2. ~EndsHere(l, tabs[t][i]) /\ UNCHANGED <<long, gig, asked>>
  BY DEF Descend
<1>3. IF NeedsTable(e) /\ AllocPanics
      THEN full' = TRUE /\ UNCHANGED <<tabs, walk>>
      ELSE /\ tabs' = IF NeedsTable(e)
                      THEN Append([tabs EXCEPT ![t][i] = [valid |-> TRUE, leaf |-> FALSE, to |-> to0]], Empty)
                      ELSE tabs
           /\ walk' = [walk EXCEPT !.level = l - 1, !.path[l - 1] = to0]
           /\ UNCHANGED full
  BY DEF Descend
<1>4. CASE NeedsTable(e) /\ AllocPanics
  BY <1>1, <1>2, <1>3, <1>4 DEF NeedsTable
<1>5. CASE ~(NeedsTable(e) /\ AllocPanics)
  <2>1. walk' = [walk EXCEPT !.level = l - 1, !.path[l - 1] = to0]
    BY <1>3, <1>5
  <2> HIDE DEF to0
  <2>2. /\ DOMAIN walk' = DOMAIN walk
        /\ walk'.level = l - 1 /\ walk'.la = walk.la /\ walk'.size = walk.size
        /\ walk'.path = [walk.path EXCEPT ![l - 1] = to0]
    BY <2>1 DEF WalkFields
  <2>3. l - 1 \in 0..Root /\ l - 1 \notin l..Root
    BY <1>1 DEF Root
  <2>4. PICK q : q = walk'.path
    OBVIOUS
  <2>5. PICK p : p = walk.path
    OBVIOUS
  <2>6. DOMAIN q = DOMAIN p /\ q[l - 1] = to0 /\ \A k \in l..Root : q[k] = p[k]
    <3>1. DOMAIN p = 0..Root /\ \A k \in l..Root : k \in 0..Root
      BY <1>1, <2>5 DEF WalkFields, Root
    <3> QED BY <2>2, <2>3, <2>4, <2>5, <3>1
  <2>7. SameAbove(walk.path, walk'.path, l) /\ walk'.path[l - 1] = to0 /\ DOMAIN walk'.path = DOMAIN walk.path
    BY <2>4, <2>5, <2>6 DEF SameAbove
  <2>8. \/ tabs[t][i].valid /\ tabs' = tabs /\ walk'.path[l - 1] = tabs[t][i].to
        \/ /\ ~tabs[t][i].valid /\ walk'.path[l - 1] = Len(tabs) + 1
           /\ tabs' = Append([tabs EXCEPT ![t][i] =
                        [valid |-> TRUE, leaf |-> FALSE, to |-> Len(tabs) + 1]], Empty)
    BY <1>3, <1>5, <2>7 DEF NeedsTable, to0
  <2> QED BY <1>1, <1>2, <1>3, <1>5, <2>2, <2>7, <2>8
<1> QED BY <1>4, <1>5

\* Tables of the levels lev, and at most one more of level l.
OneMore(T, U, lev, L, l) ==
  \A s \in 1..Len(U) : L[s] = l \/ (s \in 1..Len(T) /\ L[s] = lev[s])

\* An entry gets a table of its own.
LEMMA NewTable ==
  ASSUME NEW T, IsTabs(T), NEW lev, NEW num, Shape(T, lev, num), NEW p, NEW l \in 1..Root,
         NEW a \in Nat, a < PtabSize[Done], Leads(T, p, l, a), ~T[p[l]][FindPtabe(l, a)].valid,
         NEW U, U = WithTable(T, p[l], FindPtabe(l, a))
  PROVE  /\ IsTabs(U) /\ Grows(T, U) /\ Len(U) = Len(T) + 1 /\ Len(T) \in Nat
         /\ U[p[l]][FindPtabe(l, a)] = [valid |-> TRUE, leaf |-> FALSE, to |-> Len(T) + 1]
         /\ \E L, N : Shape(U, L, N) /\ OneMore(T, U, lev, L, l - 1)
<1>1. l \in 0..Root
  BY DEF Root
<1>2. PICK t \in 1..Len(T) : t = p[l]
  BY <1>1, PathEntry
<1>3. PICK i \in Index : i = FindPtabe(l, a)
  BY <1>1, PathEntry
<1>4. PICK e : e = [valid |-> TRUE, leaf |-> FALSE, to |-> Len(T) + 1]
  OBVIOUS
<1>5. e \in Entry /\ Len(T) \in Nat
  BY <1>4, TabsLen DEF Entry
<1>6. PICK M : M = SetTo(T, t, i, e)
  OBVIOUS
<1>7. IsTabs(M) /\ Len(M) = Len(T) /\ Grows(T, M) /\ M[t][i] = e /\ OnlyAt(T, M, t, i)
  <2>1. ~T[t][i].valid
    BY <1>2, <1>3
  <2> QED BY <1>5, <1>6, <2>1, SetEntry
<1>8. U = Append(M, Empty)
  BY <1>2, <1>3, <1>4, <1>6 DEF WithTable
<1>9. /\ IsTabs(U) /\ Len(U) = Len(M) + 1 /\ Grows(M, U)
      /\ \A s \in 1..Len(M) : U[s] = M[s]
      /\ \A j \in Index : ~U[Len(M) + 1][j].valid
  BY <1>7, <1>8, AddTable
<1>10. Grows(T, U)
  BY <1>5, <1>7, <1>9 DEF Grows
<1>11. U[t][i] = e /\ OnlyAt(T, U, t, i)
  BY <1>7, <1>9 DEF OnlyAt
<1>12. OnlyAt(T, U, p[l], FindPtabe(l, a))
  BY <1>2, <1>3, <1>11
<1>13. U[p[l]][FindPtabe(l, a)] = [valid |-> TRUE, leaf |-> FALSE, to |-> Len(T) + 1]
  BY <1>2, <1>3, <1>4, <1>11
<1>14. Len(U) = Len(T) + 1 /\ NoneValid(U, Len(T) + 1)
  BY <1>7, <1>9 DEF NoneValid
<1>15. PICK L : L = NewLevels(U, lev, l)
  OBVIOUS
<1>16. PICK N : N = NewNumbers(U, num, l, a)
  OBVIOUS
<1>17. Shape(U, L, N)
  <2>1. Shape(U, NewLevels(U, lev, l), NewNumbers(U, num, l, a))
    BY <1>5, <1>12, <1>13, <1>14, TableShape
  <2> QED BY <1>15, <1>16, <2>1
<1>18. OneMore(T, U, lev, L, l - 1)
  <2>1. PICK z \in Nat : z = Len(T)
    BY <1>5
  <2>2. \A s \in 1..(z + 1) : s = z + 1 \/ s \in 1..z
    OBVIOUS
  <2> QED BY <1>14, <1>15, <2>1, <2>2 DEF OneMore, NewLevels
<1> QED BY <1>5, <1>9, <1>10, <1>13, <1>14, <1>17, <1>18

LEMMA DescendStep ==
  ASSUME IsTabs(tabs), WalkFields, WalkReaches, Progress, NEW lev, NEW num, Shape(tabs, lev, num),
         Descend, ~AllocPanics
  PROVE  /\ IsTabs(tabs') /\ WalkFields' /\ WalkReaches' /\ Progress'
         /\ \E L, N : Shape(tabs', L, N) /\ OneMore(tabs, tabs', lev, L, walk.level - 1)
         /\ Len(tabs') <= Len(tabs) + 1
<1>1. PICK l : l = walk.level
  OBVIOUS
<1>2. PICK p : p = walk.path
  OBVIOUS
<1>3. PICK la \in Nat : la = walk.la
  BY DEF WalkFields
<1>4. PICK size \in Nat : size = walk.size
  BY DEF WalkFields
<1>5. PICK i : i = FindPtabe(l, la)
  OBVIOUS
<1>6. PICK q : q = walk'.path
  OBVIOUS
<1>7. /\ l \in 1..Root /\ ~EndsHere(l, tabs[p[l]][i])
      /\ full' = full /\ DOMAIN walk' = DOMAIN walk /\ DOMAIN q = DOMAIN p
      /\ walk'.level = l - 1 /\ walk'.la = la /\ walk'.size = size
      /\ SameAbove(p, q, l)
      /\ \/ tabs[p[l]][i].valid /\ tabs' = tabs /\ q[l - 1] = tabs[p[l]][i].to
         \/ /\ ~tabs[p[l]][i].valid /\ q[l - 1] = Len(tabs) + 1
            /\ tabs' = Append([tabs EXCEPT ![p[l]][i] =
                         [valid |-> TRUE, leaf |-> FALSE, to |-> Len(tabs) + 1]], Empty)
      /\ UNCHANGED <<long, gig, asked>>
  BY <1>1, <1>2, <1>3, <1>4, <1>5, <1>6, DescendFacts
<1>8. Reaching(tabs, l, p, la, size)
  BY <1>1, <1>2, <1>3, <1>4, <1>7 DEF WalkReaches, Root, Done
<1>9. Leads(tabs, p, l, la) /\ la < PtabSize[Done]
  <2>1. PtabSize[Done] \in Nat
    BY Powers DEF Done
  <2> QED BY <1>8, <2>1 DEF Reaching
<1>10. l \in 0..Root /\ l - 1 \in 0..Root /\ l # Done /\ l - 1 # Done
  BY <1>7 DEF Root, Done
<1>11. p[l] \in 1..Len(tabs) /\ i \in Index /\ lev[p[l]] = l
  BY <1>5, <1>9, <1>10, PathEntry
<1>12. Len(tabs) \in Nat
  BY TabsLen
<1>13. /\ IsTabs(tabs') /\ Grows(tabs, tabs') /\ Len(tabs') <= Len(tabs) + 1
       /\ tabs'[p[l]][i].valid /\ ~tabs'[p[l]][i].leaf /\ tabs'[p[l]][i].to = q[l - 1]
       /\ q[l - 1] \in 1..Len(tabs')
       /\ \E L, N : Shape(tabs', L, N) /\ OneMore(tabs, tabs', lev, L, l - 1)
  <2>1. CASE tabs[p[l]][i].valid /\ tabs' = tabs /\ q[l - 1] = tabs[p[l]][i].to
    <3>1. Grows(tabs, tabs)
      BY TabsLen DEF Grows
    <3>2. EntryRight(tabs, lev, num, p[l], i)
      BY <1>11 DEF Shape
    <3>3. ~tabs[p[l]][i].leaf
      BY <1>7, <1>11, <2>1, <3>2 DEF EntryRight, EndsHere
    <3>4. q[l - 1] \in 1..Len(tabs)
      BY <2>1, <3>2, <3>3 DEF EntryRight
    <3>5. OneMore(tabs, tabs, lev, lev, l - 1)
      BY DEF OneMore
    <3> QED BY <1>12, <2>1, <3>1, <3>3, <3>4, <3>5
  <2>2. CASE /\ ~tabs[p[l]][i].valid /\ q[l - 1] = Len(tabs) + 1
             /\ tabs' = Append([tabs EXCEPT ![p[l]][i] =
                          [valid |-> TRUE, leaf |-> FALSE, to |-> Len(tabs) + 1]], Empty)
    <3>1. /\ IsTabs(tabs') /\ Grows(tabs, tabs') /\ Len(tabs') = Len(tabs) + 1
          /\ tabs'[p[l]][FindPtabe(l, la)] = [valid |-> TRUE, leaf |-> FALSE, to |-> Len(tabs) + 1]
          /\ \E L, N : Shape(tabs', L, N) /\ OneMore(tabs, tabs', lev, L, l - 1)
      <4>1. ~tabs[p[l]][FindPtabe(l, la)].valid
        BY <1>5, <2>2
      <4>2. tabs' = WithTable(tabs, p[l], FindPtabe(l, la))
        BY <1>5, <2>2 DEF WithTable, SetTo
      <4> QED BY <1>7, <1>9, <4>1, <4>2, NewTable
    <3>2. q[l - 1] \in 1..Len(tabs')
      BY <1>12, <2>2, <3>1
    <3>3. q[l - 1] = Len(tabs) + 1
      BY <2>2
    <3>4. tabs'[p[l]][i].valid /\ ~tabs'[p[l]][i].leaf /\ tabs'[p[l]][i].to = q[l - 1]
      BY <1>5, <3>1, <3>3
    <3>5. Len(tabs') <= Len(tabs) + 1
      BY <1>12, <3>1
    <3> QED BY <3>1, <3>2, <3>4, <3>5, Zenon
  <2> QED BY <1>7, <2>1, <2>2
<1>14. Leads(tabs', p, l, la)
  BY <1>9, <1>10, <1>13, LeadsStays
<1>15. Leads(tabs', q, l - 1, la)
  BY <1>5, <1>7, <1>13, <1>14, PathGoesOn
<1>16. Reaching(tabs', l - 1, q, la, size)
  <2>1. \A j \in 0..(l - 1) : j \in 0..l
    BY <1>7 DEF Root
  <2> QED BY <1>8, <1>15, <2>1 DEF Reaching
<1>17. WalkFields'
  BY <1>2, <1>6, <1>7, <1>10 DEF WalkFields, Root, Done
<1>18. WalkReaches'
  BY <1>6, <1>7, <1>16 DEF WalkReaches
<1>19. Progress'
  <2> SUFFICES ASSUME NEW a \in asked PROVE Mapped(tabs', a) \/ Pending(a)'
    BY <1>7 DEF Progress
  <2>1. a \in Nat /\ (Mapped(tabs, a) \/ Pending(a))
    BY DEF Progress
  <2>2. CASE Mapped(tabs, a)
    BY <1>13, <2>1, <2>2, MappedStays
  <2>3. CASE Pending(a)
    BY <1>3, <1>4, <1>7, <1>10, <2>3 DEF Pending
  <2> QED BY <2>1, <2>2, <2>3
<1> QED BY <1>1, <1>13, <1>17, <1>18, <1>19

-----------------------------------------------------------------------------
(* Page tables: the pool *)

\* The stub maps whole superpages of 4 GiB from 0 on: a table for each GiB that
\* is left behind, and the ones the loop is in.
InPool(l, la, size, n) ==
  \/ l = Done /\ n <= 6
  \/ /\ la % PtabSize[1] = 0 /\ (la + size) % PtabSize[1] = 0 /\ la + size <= 4 * PtabSize[2]
     /\ \/ l = 3 /\ la = 0 /\ n = 1
        \/ l = 2 /\ la % PtabSize[2] = 0 /\ n <= 2 + (la \div PtabSize[2])
        \/ l = 1 /\ n <= 3 + (la \div PtabSize[2])

LEMMA BelowFour ==
  ASSUME NEW n \in Nat \ {0}, NEW a \in Nat, a < 4 * n
  PROVE  a \div n \in Nat /\ a \div n <= 3
<1>1. PICK q \in Nat : q = a \div n /\ q * n <= a
  <2>1. a \div n \in Nat /\ a % n \in Nat /\ a = (a \div n) * n + (a % n)
    BY Parts
  <2>2. PICK q \in Nat : q = a \div n
    BY <2>1
  <2>3. q * n \in Nat
    OBVIOUS
  <2> QED BY <2>1, <2>2, <2>3
<1>2. ASSUME q >= 4 PROVE FALSE
  <2>1. 4 * n <= q * n
    BY <1>2
  <2> QED BY <1>1, <2>1
<1> QED BY <1>1, <1>2

\* The last superpage before the end of a table.
LEMMA LastBefore ==
  ASSUME NEW p \in Nat \ {0}, NEW e \in Nat \ {0}, NEW b \in Nat, NEW y \in Nat,
         b + p = y * (e * p)
  PROVE  b \div (e * p) + 1 = y
<1>1. PICK m \in Nat : m = e * p /\ p <= m
  <2>1. e * p \in Nat /\ 1 * p <= e * p
    OBVIOUS
  <2> QED BY <2>1
<1>2. y # 0
  <2>1. y = 0 => y * m = 0
    OBVIOUS
  <2> QED BY <1>1, <2>1
<1>3. PICK x \in Nat : y = x + 1
  <2>1. y - 1 \in Nat /\ y = (y - 1) + 1
    BY <1>2
  <2> QED BY <2>1
<1>4. y * m = x * m + m
  BY <1>3
<1>5. PICK r \in Nat : r = m - p /\ r < m
  <2>1. m - p \in Nat /\ m - p < m
    BY <1>1
  <2> QED BY <2>1
<1>6. b = x * m + r
  <2>1. x * m \in Nat
    OBVIOUS
  <2> QED BY <1>1, <1>4, <1>5, <2>1
<1>7. b \div m = x
  BY <1>1, <1>5, <1>6, Quotient
<1> QED BY <1>1, <1>3, <1>7

\* A range that is aligned at both ends has room for a superpage.
LEMMA RoomForOne ==
  ASSUME NEW n \in Nat \ {0}, NEW a \in Nat, NEW size \in Nat \ {0}, a % n = 0, (a + size) % n = 0
  PROVE  size >= n
<1>1. PICK x \in Nat : a = x * n
  BY Multiples
<1>2. PICK y \in Nat : a + size = y * n
  <2>1. a + size \in Nat
    OBVIOUS
  <2> QED BY <2>1, Multiples
<1>3. y > x
  <2>1. ASSUME y <= x PROVE FALSE
    <3>1. y * n <= x * n
      BY <2>1
    <3> QED BY <1>1, <1>2, <3>1
  <2> QED BY <2>1
<1>4. (x + 1) * n <= y * n
  BY <1>3
<1>5. (x + 1) * n = x * n + n
  OBVIOUS
<1> QED BY <1>1, <1>2, <1>4, <1>5

LEMMA PoolLeaf ==
  ASSUME Entries >= 4, NEW T, NEW p, NEW l \in 0..Root, AllowLeaf(l), NEW la \in Nat, NEW size \in Nat,
         Reaching(T, l, p, la, size), NEW m \in Nat, InPool(l, la, size, m),
         NEW n, n = PtabSize[l], NEW k, k = Resume(l, la + n, Rest(n, size))
  PROVE  InPool(k, la + n, Rest(n, size), m)
<1>1. PICK p1 \in Nat \ {0} : p1 = PtabSize[1]
  BY SizeOf DEF Root
<1>2. PICK p2 \in Nat \ {0} : p2 = PtabSize[2] /\ p2 = Entries * p1
  <2>1. PtabSize[1 + 1] = Entries * PtabSize[1]
    BY Powers DEF Root
  <2>2. PtabSize[2] \in Nat \ {0}
    BY SizeOf DEF Root
  <2> QED BY <1>1, <2>1, <2>2
<1>3. PICK p3 \in Nat \ {0} : p3 = PtabSize[3] /\ 4 * p2 <= p3
  <2>1. PtabSize[2 + 1] = Entries * PtabSize[2] /\ Entries \in Nat
    BY Powers DEF Root
  <2>2. PtabSize[3] \in Nat \ {0}
    BY SizeOf DEF Root
  <2>3. 4 * p2 <= Entries * p2
    BY <2>1
  <2> QED BY <1>2, <2>1, <2>2, <2>3
<1>4. Entries \in Nat \ {0}
  BY Powers
<1>5. l = 1 \/ l = 2
  <2>1. l # 3
    BY DEF AllowLeaf
  <2> QED BY <2>1 DEF InPool, Root, Done
<1>6. n \in Nat \ {0} /\ size > 0
  BY SizeOf DEF Reaching
<1>7. la < 4 * p2 /\ la + size <= 4 * p2 /\ (la + size) % p1 = 0
  <2>1. la + size <= 4 * p2 /\ (la + size) % p1 = 0
    BY <1>1, <1>2, <1>5 DEF InPool, Done
  <2> QED BY <1>6, <2>1
<1>8. PICK q \in Nat : q = la \div p2 /\ q <= 3
  BY <1>7, BelowFour
<1>9. l = 1 => m <= 3 + q
  BY <1>2, <1>8 DEF InPool, Done
<1>10. l = 2 => m <= 2 + q
  BY <1>2, <1>8 DEF InPool, Done
<1>11. CASE k = Done
  <2>1. m <= 6
    BY <1>5, <1>8, <1>9, <1>10
  <2> QED BY <1>11, <2>1 DEF InPool
<1>12. CASE k # Done
  <2>1. /\ k \in l..Root /\ Reaching(T, k, p, la + n, Rest(n, size))
        /\ Aligned(l, la) /\ Aligned(k, la + n) /\ ~Aligned(k + 1, la + n)
        /\ (la + n) + Rest(n, size) = la + size
    BY <1>12, LeafAdvances
  <2>2. Rest(n, size) \in Nat /\ Rest(n, size) # 0
    BY <1>12, LeafAdvances
  <2>3. PICK b \in Nat \ {0} : b = la + n
    BY <1>6
  <2>4. PICK r \in Nat \ {0} : r = Rest(n, size)
    BY <2>2
  <2>5. b + r = la + size /\ b < 4 * p2
    BY <1>7, <2>1, <2>3, <2>4
  <2>6. k = 1 \/ k = 2 \/ k = 3
    BY <1>5, <2>1 DEF Root
  <2>7. k # 3
    <3>1. b % p3 = b
      <4>1. b = 0 * p3 + b
        OBVIOUS
      <4>2. b < p3
        BY <1>3, <2>5
      <4> QED BY <4>1, <4>2, Quotient
    <3>2. b % p3 # 0
      BY <3>1
    <3> QED BY <1>3, <2>1, <2>3, <3>2 DEF Aligned
  <2>8. b % p1 = 0
    <3>1. Aligned(1, b)
      <4>1. k \in 0..Done /\ 1 \in 0..k
        BY <2>6 DEF Done
      <4> QED BY <2>1, <2>3, <4>1, AlignedBelow
    <3> QED BY <1>1, <3>1 DEF Aligned
  <2>9. b % PtabSize[1] = 0 /\ (b + r) % PtabSize[1] = 0 /\ b + r <= 4 * PtabSize[2]
    BY <1>1, <1>2, <1>7, <2>5, <2>8
  <2>10. CASE l = 1 /\ k = 1
    <3>1. 1 \in 0..Root /\ 1 \in 1..Root
      BY DEF Root
    <3>2. Shares(1 + 1, b, la)
      BY <2>1, <2>3, <2>10, <3>1, NextShares
    <3>3. b \div p2 = q
      <4>1. Shares(2, b, la)
        BY <3>2
      <4> QED BY <1>2, <1>8, <4>1 DEF Shares
    <3> QED BY <1>2, <1>9, <2>3, <2>4, <2>9, <2>10, <3>3 DEF InPool
  <2>11. CASE l = 1 /\ k = 2
    <3>1. b % p2 = 0
      BY <1>2, <2>1, <2>3, <2>11 DEF Aligned
    <3>2. PICK y \in Nat : b = y * p2
      BY <3>1, Multiples
    <3>3. la + p1 = y * (Entries * p1)
      BY <1>1, <1>2, <2>3, <2>11, <3>2
    <3>4. q + 1 = y
      BY <1>2, <1>4, <1>8, <3>3, LastBefore
    <3>5. b \div p2 = y
      <4>1. b = y * p2 + 0
        BY <3>2
      <4> QED BY <4>1, Quotient
    <3>6. m <= 2 + (b \div p2)
      BY <1>9, <2>11, <3>4, <3>5
    <3> QED BY <1>2, <2>3, <2>4, <2>9, <2>11, <3>1, <3>6 DEF InPool
  <2>12. CASE l = 2 /\ k = 2
    <3>1. b % p2 = 0 /\ la % p2 = 0 /\ b = la + p2
      BY <1>2, <2>1, <2>3, <2>12 DEF Aligned
    <3>2. PICK x \in Nat : la = x * p2
      BY <3>1, Multiples
    <3>3. la = x * p2 + 0 /\ b = (x + 1) * p2 + 0
      BY <3>1, <3>2
    <3>4. q = x /\ b \div p2 = x + 1
      BY <1>8, <3>3, Quotient
    <3>5. m <= 2 + (b \div p2)
      BY <1>10, <2>12, <3>4
    <3> QED BY <1>2, <2>3, <2>4, <2>9, <2>12, <3>1, <3>5 DEF InPool
  <2> QED BY <1>5, <2>1, <2>6, <2>7, <2>10, <2>11, <2>12
<1> QED BY <1>11, <1>12

\* A table more, below an entry of the pool's tables.
LEMMA PoolDescend ==
  ASSUME NEW l \in 2..3, NEW la \in Nat, NEW size \in Nat \ {0}, NEW m \in Nat, InPool(l, la, size, m),
         NEW h \in Nat, h <= m + 1
  PROVE  m <= 5 /\ InPool(l - 1, la, size, h)
<1>1. PICK p2 \in Nat \ {0} : p2 = PtabSize[2]
  BY SizeOf DEF Root
<1>2. /\ la % PtabSize[1] = 0 /\ (la + size) % PtabSize[1] = 0 /\ la + size <= 4 * p2
      /\ \/ l = 3 /\ la = 0 /\ m = 1
         \/ l = 2 /\ la % p2 = 0 /\ m <= 2 + (la \div p2)
  BY <1>1 DEF InPool, Done
<1>3. PICK q \in Nat : q = la \div p2 /\ q <= 3
  <2>1. la < 4 * p2
    BY <1>2
  <2> QED BY <2>1, BelowFour
<1>4. CASE l = 3
  <2>1. la % p2 = 0
    <3>1. la = 0 * p2 + 0
      BY <1>2, <1>4
    <3> QED BY <3>1, Quotient
  <2>2. m <= 5 /\ h <= 2 + q /\ l - 1 = 2
    BY <1>2, <1>4
  <2> QED BY <1>1, <1>2, <1>3, <2>1, <2>2 DEF InPool
<1>5. CASE l = 2
  <2>1. m <= 5 /\ h <= 3 + q /\ l - 1 = 1
    BY <1>2, <1>3, <1>5
  <2> QED BY <1>1, <1>2, <1>3, <2>1 DEF InPool
<1> QED BY <1>4, <1>5

-----------------------------------------------------------------------------
(* Page tables: every step *)

\* The stub maps nothing smaller than superpages.
NoSmall(T, lev) == \A t \in 1..Len(T) : lev[t] # 0

Tree == tabs # <<>> => \E lev, num : Shape(tabs, lev, num) /\ (~long => NoSmall(tabs, lev))
PoolKept == ~long /\ tabs # <<>> => InPool(walk.level, walk.la, walk.size, Len(tabs))

TablesInv ==
  /\ IsTabs(tabs) /\ WalkFields /\ WalkReaches /\ Progress /\ Tree /\ PoolKept /\ (full => long)
  /\ tabs = <<>> => walk.level = Done

LEMMA ShapePrimed ==
  ASSUME NEW lev, NEW num, Shape(tabs', lev, num), gig' = gig
  PROVE  Shape(tabs, lev, num)'
<1>1. \A l : AllowLeaf(l)' <=> AllowLeaf(l)
  BY DEF AllowLeaf
<1>2. \A t \in 1..Len(tabs') : \A i \in Index : EntryRight(tabs, lev, num, t, i)'
  BY <1>1 DEF Shape, EntryRight
<1> QED BY <1>2 DEF Shape

LEMMA MapLeafKeeps ==
  ASSUME TablesInv, MapLeaf, Entries >= 4
  PROVE  TablesInv'
<1>1. walk.level # Done
  BY DEF MapLeaf, TablesInv, WalkFields, Done
<1>2. PICK lev : \E num : Shape(tabs, lev, num) /\ (~long => NoSmall(tabs, lev))
  BY <1>1 DEF TablesInv, Tree
<1>3. PICK num : Shape(tabs, lev, num) /\ (~long => NoSmall(tabs, lev))
  BY <1>2
<1>4. /\ IsTabs(tabs') /\ WalkFields' /\ WalkReaches' /\ Progress'
      /\ Shape(tabs', lev, num) /\ Len(tabs') = Len(tabs)
  BY <1>3, LeafStep DEF TablesInv
<1>5. UNCHANGED <<long, gig, asked, full>>
  BY DEF MapLeaf
<1>6. Tree'
  <2>1. Shape(tabs, lev, num)'
    BY <1>4, <1>5, ShapePrimed
  <2>2. ~long' => NoSmall(tabs, lev)'
    BY <1>3, <1>4, <1>5 DEF NoSmall
  <2> QED BY <2>1, <2>2 DEF Tree
<1>7. tabs' # <<>>
  <2>1. Len(tabs) > 0 /\ Len(tabs) \in Nat
    BY <1>3, TabsLen DEF Shape, TablesInv
  <2> QED BY <1>4, <2>1
<1>8. PoolKept'
  <2> SUFFICES ASSUME ~long PROVE InPool(walk.level, walk.la, walk.size, Len(tabs))'
    BY <1>5 DEF PoolKept
  <2>1. InPool(walk.level, walk.la, walk.size, Len(tabs))
    BY <1>1 DEF TablesInv, PoolKept
  <2>2. /\ walk.level \in 0..Root /\ AllowLeaf(walk.level)
        /\ walk'.level = Resume(walk.level, walk.la + PtabSize[walk.level], Rest(PtabSize[walk.level], walk.size))
        /\ walk'.la = walk.la + PtabSize[walk.level] /\ walk'.size = Rest(PtabSize[walk.level], walk.size)
    BY LeafFacts DEF TablesInv
  <2>3. walk.la \in Nat /\ walk.size \in Nat /\ Len(tabs) \in Nat
    BY TabsLen DEF TablesInv, WalkFields
  <2>4. Reaching(tabs, walk.level, walk.path, walk.la, walk.size)
    BY <1>1 DEF TablesInv, WalkReaches
  <2>5. InPool(walk'.level, walk'.la, walk'.size, Len(tabs))
    BY <2>1, <2>2, <2>3, <2>4, PoolLeaf
  <2> QED BY <1>4, <2>5 DEF InPool
<1> QED BY <1>4, <1>5, <1>6, <1>7, <1>8 DEF TablesInv

LEMMA DescendKeeps ==
  ASSUME TablesInv, Descend, PoolPages >= 6
  PROVE  TablesInv'
<1>1. walk.level # Done
  BY DEF Descend, TablesInv, WalkFields, Done
<1>2. PICK lev : \E num : Shape(tabs, lev, num) /\ (~long => NoSmall(tabs, lev))
  BY <1>1 DEF TablesInv, Tree
<1>3. PICK num : Shape(tabs, lev, num) /\ (~long => NoSmall(tabs, lev))
  BY <1>2
<1>4. PICK l \in 1..Root : l = walk.level
  BY DescendFacts DEF TablesInv
<1>5. walk.la \in Nat /\ walk.size \in Nat \ {0} /\ Len(tabs) \in Nat /\ Len(tabs) > 0
  <2>1. Reaching(tabs, walk.level, walk.path, walk.la, walk.size)
    BY <1>1 DEF TablesInv, WalkReaches
  <2> QED BY <1>3, <2>1, TabsLen DEF TablesInv, WalkFields, Reaching, Shape
<1>6. ASSUME ~long PROVE InPool(l, walk.la, walk.size, Len(tabs)) /\ l \in 2..3
  <2>1. InPool(l, walk.la, walk.size, Len(tabs))
    BY <1>1, <1>4, <1>6 DEF TablesInv, PoolKept
  <2>2. l # 1
    <3> SUFFICES ASSUME l = 1 PROVE FALSE
      OBVIOUS
    <3>1. PICK t : t = walk.path[l]
      OBVIOUS
    <3>2. PICK i : i = FindPtabe(l, walk.la)
      OBVIOUS
    <3>3. ~EndsHere(l, tabs[t][i])
      BY <1>4, <3>1, <3>2, DescendFacts DEF TablesInv
    <3>4. Reaching(tabs, l, walk.path, walk.la, walk.size)
      BY <1>1, <1>4 DEF TablesInv, WalkReaches
    <3>5. t \in 1..Len(tabs) /\ i \in Index /\ lev[t] = 1
      <4>1. Leads(tabs, walk.path, l, walk.la) /\ walk.la < PtabSize[Done] /\ l \in 0..Root
        <5>1. PtabSize[Done] \in Nat
          BY Powers DEF Done
        <5> QED BY <1>5, <3>4, <5>1 DEF Reaching, Root
      <4> QED BY <1>3, <1>5, <3>1, <3>2, <4>1, PathEntry DEF TablesInv
    <3>6. PICK n \in Nat \ {0} : n = PtabSize[1]
      BY SizeOf DEF Root
    <3>7. walk.la % n = 0 /\ (walk.la + walk.size) % n = 0
      BY <2>1, <3>6 DEF InPool, Done
    <3>8. walk.size >= n
      BY <1>5, <3>7, RoomForOne
    <3>9. AllowLeaf(1)
      BY DEF AllowLeaf
    <3>10. tabs[t][i].valid /\ ~tabs[t][i].leaf
      BY <3>3, <3>6, <3>7, <3>8, <3>9 DEF EndsHere, BecomesLeaf, Aligned
    <3>11. EntryRight(tabs, lev, num, t, i)
      BY <1>3, <3>5 DEF Shape
    <3>12. tabs[t][i].to \in 1..Len(tabs) /\ lev[tabs[t][i].to] = 0
      BY <3>5, <3>10, <3>11 DEF EntryRight
    <3> QED BY <1>3, <1>6, <3>12 DEF NoSmall
  <2> QED BY <2>1, <2>2 DEF Root
<1>7. ~AllocPanics
  <2>1. ASSUME ~long PROVE Len(tabs) <= 5
    <3>1. InPool(l, walk.la, walk.size, Len(tabs)) /\ l \in 2..3
      BY <1>6, <2>1
    <3>2. Len(tabs) \in Nat /\ Len(tabs) <= Len(tabs) + 1
      BY <1>5
    <3> QED BY <1>5, <3>1, <3>2, PoolDescend
  <2>2. PoolPages \in Nat
    BY TableAssumption
  <2> QED BY <1>5, <2>1, <2>2 DEF AllocPanics
<1>8. /\ IsTabs(tabs') /\ WalkFields' /\ WalkReaches' /\ Progress'
      /\ \E L, N : Shape(tabs', L, N) /\ OneMore(tabs, tabs', lev, L, l - 1)
      /\ Len(tabs') <= Len(tabs) + 1
  BY <1>3, <1>4, <1>7, DescendStep DEF TablesInv
<1>9. /\ UNCHANGED <<long, gig, asked>> /\ full' = full
      /\ walk'.level = l - 1 /\ walk'.la = walk.la /\ walk'.size = walk.size
  BY <1>4, <1>7, DescendFacts DEF TablesInv
<1>10. PICK L : \E N : Shape(tabs', L, N) /\ OneMore(tabs, tabs', lev, L, l - 1)
  BY <1>8
<1>11. PICK N : Shape(tabs', L, N) /\ OneMore(tabs, tabs', lev, L, l - 1)
  BY <1>10
<1>12. Tree'
  <2>1. Shape(tabs, L, N)'
    BY <1>9, <1>11, ShapePrimed
  <2>2. ASSUME ~long' PROVE NoSmall(tabs, L)'
    <3>1. l - 1 # 0 /\ NoSmall(tabs, lev)
      BY <1>3, <1>6, <1>9, <2>2
    <3> QED BY <1>11, <3>1 DEF NoSmall, OneMore
  <2> QED BY <2>1, <2>2 DEF Tree
<1>13. Len(tabs') \in Nat /\ tabs' # <<>>
  BY <1>8, <1>11, TabsLen DEF Shape
<1>14. PoolKept'
  <2> SUFFICES ASSUME ~long PROVE InPool(walk.level, walk.la, walk.size, Len(tabs))'
    BY <1>9 DEF PoolKept
  <2>1. InPool(l, walk.la, walk.size, Len(tabs)) /\ l \in 2..3
    BY <1>6
  <2>2. InPool(l - 1, walk.la, walk.size, Len(tabs'))
    BY <1>5, <1>8, <1>13, <2>1, PoolDescend
  <2> QED BY <1>9, <2>2 DEF InPool
<1> QED BY <1>8, <1>9, <1>12, <1>13, <1>14 DEF TablesInv

-----------------------------------------------------------------------------
(* Page tables: where ptab_map_range() is called *)

\* find_upper_mem() finds an end of memory.
LEMMA UpperFound ==
  ASSUME machine \in Machines, FindUpperMem
  PROVE  upper' \in Nat
<1>1. PICK map : map = machine.map
  OBVIOUS
<1>2. map \in Seq(MemRange) /\ map # <<>> /\ machine.upper \in Nat
  BY <1>1, MachineAssumption
<1>3. PICK n \in Nat \ {0} : n = Len(map) /\ DOMAIN map = 1..n
  BY <1>2
<1> DEFINE End(i) == map[i].addr + map[i].size
           J == { j \in DOMAIN map : map[j].memory }
           ends == { End(i) : i \in J }
<1>4. \A i \in 1..n : End(i) \in Nat
  <2>1. \A i \in 1..n : map[i] \in MemRange
    BY <1>2, <1>3
  <2> QED BY <2>1 DEF MemRange
<1>5. upper' = IF ends \subseteq {0} THEN machine.upper ELSE Max(ends)
  BY <1>1 DEF FindUpperMem
<1>6. CASE ends \subseteq {0}
  BY <1>2, <1>5, <1>6
<1>7. CASE ~(ends \subseteq {0})
  <2>1. PICK k \in J : TRUE
    BY <1>7
  <2>2. J \subseteq 1..n
    BY <1>3
  <2> DEFINE f == [i \in 1..n |-> IF i \in J THEN End(i) ELSE End(k)]
  <2> HIDE DEF J, End
  <2>3. f \in [1..n -> Nat]
    BY <1>4, <2>1, <2>2
  <2>4. { f[i] : i \in 1..n } = ends
    BY <2>1, <2>2
  <2> HIDE DEF f, ends
  <2>5. Max({ f[i] : i \in 1..n }) \in { f[i] : i \in 1..n }
    BY <2>3, GreatestIs
  <2>6. Max({ f[i] : i \in 1..n }) \in Nat
    BY <2>3, <2>5
  <2> QED BY <1>5, <1>7, <2>4, <2>6
<1> QED BY <1>6, <1>7

\* Rounding up stays below a multiple.
LEMMA RoundedUp ==
  ASSUME NEW n \in Nat \ {0}, NEW c \in Nat, NEW z \in Nat, c <= z * n
  PROVE  \E q \in 0..z : (c + n - 1) \div n = q
<1>1. PICK b \in Nat : b = c + n - 1
  <2>1. c + n - 1 \in Nat
    OBVIOUS
  <2> QED BY <2>1
<1>2. PICK q \in Nat : q = b \div n
  BY Parts
<1>3. q * n <= b
  <2>1. b % n \in Nat /\ b = q * n + (b % n)
    BY <1>2, Parts
  <2>2. q * n \in Nat
    OBVIOUS
  <2> QED BY <2>1, <2>2
<1>4. q <= z
  <2> SUFFICES ASSUME q >= z + 1 PROVE FALSE
    OBVIOUS
  <2>1. (z + 1) * n <= q * n
    OBVIOUS
  <2>2. (z + 1) * n = z * n + n
    OBVIOUS
  <2> QED BY <1>1, <1>3, <2>1, <2>2
<1> QED BY <1>1, <1>2, <1>4

\* Superpages, and the 4 GiB in them.
LEMMA Superpages ==
  /\ Superpage \in Nat \ {0} /\ PageSize \in Nat \ {0} /\ PtabSize[1] \in Nat \ {0} /\ PtabSize[2] \in Nat \ {0}
  /\ Superpage = PageSize * PtabSize[1]
  /\ \E z \in Nat : Limit = z * Superpage
  /\ Limit = PageSize * (4 * PtabSize[2])
<1>1. PICK g \in Nat \ {0} : g = PageSize
  BY MachineAssumption
<1>2. PICK p1 \in Nat \ {0} : p1 = PtabSize[1]
  BY SizeOf DEF Root
<1>3. PICK e \in Nat \ {0} : e = Entries
  BY Powers
<1>4. PtabSize[2] = e * p1
  <2>1. PtabSize[1 + 1] = Entries * PtabSize[1]
    BY Powers DEF Root
  <2> QED BY <1>2, <1>3, <2>1
<1>5. Superpage = g * p1
  BY <1>1, <1>2 DEF Superpage
<1>6. Limit = g * 4 * (e * p1)
  BY <1>1, <1>4, MachineAssumption
<1>7. g * 4 * (e * p1) = (4 * e) * (g * p1) /\ g * 4 * (e * p1) = g * (4 * (e * p1))
  OBVIOUS
<1>8. 4 * e \in Nat /\ g * p1 \in Nat \ {0} /\ e * p1 \in Nat \ {0}
  OBVIOUS
<1> QED BY <1>1, <1>2, <1>4, <1>5, <1>6, <1>7, <1>8

\* The end of memory as base_paging_init() gets it.
LEMMA MemEndIs ==
  ASSUME upper \in Nat
  PROVE  MemEnd \in Nat /\ MemEnd % Superpage = 0 /\ MemEnd <= Limit
<1>1. PICK s \in Nat \ {0} : s = Superpage
  BY Superpages
<1>2. PICK z \in Nat : Limit = z * s
  BY <1>1, Superpages
<1>3. PICK c \in Nat : c = Ceiling /\ c <= Limit
  <2>1. {upper, Limit} \in SUBSET Nat /\ {upper, Limit} # {}
    BY MachineAssumption
  <2>2. Min({upper, Limit}) \in {upper, Limit} /\ \A y \in {upper, Limit} : Min({upper, Limit}) <= y
    BY <2>1, MinIs
  <2> QED BY <2>1, <2>2 DEF Ceiling
<1>4. PICK q \in 0..z : (c + s - 1) \div s = q
  BY <1>2, <1>3, RoundedUp
<1>5. MemEnd = q * s
  BY <1>1, <1>3, <1>4 DEF MemEnd
<1>6. q * s \in Nat /\ q * s <= z * s
  OBVIOUS
<1>7. (q * s) % s = 0
  BY <1>6, Multiples
<1> QED BY <1>1, <1>2, <1>5, <1>6, <1>7

\* The pages up to the end of memory.
LEMMA EndInPages ==
  ASSUME NEW u \in Nat \ {0}, u % Superpage = 0, u <= Limit
  PROVE  /\ u \div PageSize \in Nat \ {0}
         /\ (u \div PageSize) % PtabSize[1] = 0
         /\ u \div PageSize <= 4 * PtabSize[2]
<1>1. PICK g \in Nat \ {0} : g = PageSize
  BY Superpages
<1>2. PICK p1 \in Nat \ {0} : p1 = PtabSize[1]
  BY Superpages
<1>3. PICK w \in Nat \ {0} : w = PtabSize[2]
  BY Superpages
<1>4. Superpage = g * p1 /\ Limit = g * (4 * w) /\ g * p1 \in Nat \ {0}
  BY <1>1, <1>2, <1>3, Superpages
<1>5. PICK x \in Nat : u = x * (g * p1)
  BY <1>4, Multiples
<1>6. u = (x * p1) * g + 0 /\ x * p1 \in Nat
  BY <1>5
<1>7. u \div g = x * p1
  BY <1>6, Quotient
<1>8. x * p1 # 0
  BY <1>6
<1>9. (x * p1) % p1 = 0
  BY <1>6, Multiples
<1>10. x * p1 <= 4 * w
  <2>1. PICK y \in Nat : y = x * p1 /\ y * g <= (4 * w) * g
    <3>1. g * (4 * w) = (4 * w) * g
      OBVIOUS
    <3> QED BY <1>4, <1>6, <3>1
  <2>2. ASSUME y >= 4 * w + 1 PROVE FALSE
    <3>1. (4 * w + 1) * g <= y * g
      BY <2>2
    <3>2. (4 * w + 1) * g = (4 * w) * g + g
      OBVIOUS
    <3> QED BY <2>1, <3>1, <3>2
  <2> QED BY <2>1, <2>2
<1> QED BY <1>1, <1>2, <1>3, <1>6, <1>7, <1>8, <1>9, <1>10

\* A new walk begins at the root.
RootPath == [l \in 0..Root |-> 1]
AllFit(la, size) == \A j \in 0..Root : Fit(j, la, size)

LEMMA RootReaches ==
  ASSUME NEW T, Len(T) \in Nat, Len(T) > 0,
         NEW la \in Nat, NEW size \in Nat \ {0}, la + size <= PtabSize[Done], AllFit(la, size)
  PROVE  Reaching(T, Root, RootPath, la, size)
<1>1. RootPath[Root] = 1 /\ \A k \in Root..Root : k = Root
  BY DEF Root, RootPath
<1>2. \A k \in Root..(Root - 1) : FALSE
  BY DEF Root
<1>3. Leads(T, RootPath, Root, la)
  BY <1>1, <1>2 DEF Leads
<1> QED BY <1>3 DEF Reaching, AllFit

\* base_paging_init() with an end of memory.
LEMMA FirstWalk ==
  ASSUME TablesInv, NEW end \in Nat \ {0}, BasePagingInit(end), ~long, Entries >= 4,
         end % PtabSize[1] = 0, end <= 4 * PtabSize[2]
  PROVE  TablesInv'
<1>1. /\ tabs' = <<Empty>> /\ asked' = 0..(end - 1) /\ UNCHANGED <<long, gig, full>>
      /\ walk' = [level |-> Root, path |-> [l \in 0..Root |-> 1], la |-> 0, size |-> end]
  BY DEF BasePagingInit
<1>2. IsTabs(tabs') /\ Len(tabs') = 1 /\ tabs'[1] = Empty
  <2>1. Empty \in [Index -> Entry]
    BY DEF Empty, NoEntry, Index, Entry
  <2> HIDE DEF Empty
  <2> QED BY <1>1, <2>1 DEF IsTabs
<1>3. WalkFields'
  <2>1. Root \in 0..Done
    BY DEF Root, Done
  <2> QED BY <1>1, <2>1 DEF WalkFields
<1>4. 4 * PtabSize[2] <= PtabSize[Done]
  <2>1. PICK e \in Nat : e = Entries /\ e >= 4
    BY Powers
  <2>2. PICK w \in Nat \ {0} : w = PtabSize[2]
    BY SizeOf DEF Root
  <2>3. PtabSize[2 + 1] = e * w /\ PtabSize[3 + 1] = e * PtabSize[3]
    BY <2>1, <2>2, Powers DEF Root
  <2>4. PICK v \in Nat : v = e * w /\ 4 * w <= v
    <3>1. e * w \in Nat /\ 4 * w <= e * w
      BY <2>1
    <3> QED BY <3>1
  <2>5. PtabSize[4] = e * v
    BY <2>3, <2>4
  <2>6. 1 * v <= e * v
    BY <2>1
  <2> QED BY <2>2, <2>4, <2>5, <2>6 DEF Done
<1>5. WalkReaches'
  <2>1. AllFit(0, end)
    <3> SUFFICES ASSUME NEW j \in 0..Root PROVE 0 % PtabSize[j] = 0
      BY DEF Fit, AllFit
    <3>1. PICK n \in Nat \ {0} : n = PtabSize[j]
      BY SizeOf
    <3>2. 0 = 0 * n + 0
      OBVIOUS
    <3>3. 0 % n = 0
      BY <3>2, Quotient
    <3> QED BY <3>1, <3>3
  <2>2. 0 + end <= PtabSize[Done]
    <3>1. PtabSize[2] \in Nat /\ PtabSize[Done] \in Nat
      BY SizeOf, Powers DEF Root, Done
    <3> QED BY <1>4, <3>1
  <2>3. Reaching(tabs', Root, RootPath, 0, end)
    <3>1. PICK z \in Nat : z = 0
      OBVIOUS
    <3>2. Len(tabs') \in Nat /\ Len(tabs') > 0
      BY <1>2
    <3>3. AllFit(z, end) /\ z + end <= PtabSize[Done]
      BY <2>1, <2>2, <3>1
    <3>4. Reaching(tabs', Root, RootPath, z, end)
      BY ONLY end \in Nat \ {0}, <3>1, <3>2, <3>3, RootReaches
    <3> QED BY <3>1, <3>4
  <2> QED BY <1>1, <2>3 DEF WalkReaches, RootPath
<1>6. Progress'
  BY <1>1 DEF Progress, Pending, Root, Done
<1>7. Tree'
  <2>1. PICK lev : lev = [t \in 1..1 |-> Root]
    OBVIOUS
  <2>2. PICK num : num = [t \in 1..1 |-> 0]
    OBVIOUS
  <2>3. lev \in [1..1 -> 0..Root] /\ num \in [1..1 -> Nat] /\ lev[1] = Root /\ num[1] = 0
    BY <2>1, <2>2 DEF Root
  <2>4. ASSUME NEW t \in 1..1, NEW i \in Index PROVE EntryRight(tabs', lev, num, t, i)
    <3>1. t = 1 /\ ~Empty[i].valid
      BY DEF Empty, NoEntry, Index
    <3> QED BY <1>2, <3>1 DEF EntryRight
  <2>5. Shape(tabs', lev, num)
    BY <1>2, <2>3, <2>4 DEF Shape
  <2>6. Shape(tabs, lev, num)'
    BY <1>1, <2>5, ShapePrimed
  <2>7. NoSmall(tabs, lev)'
    BY <1>2, <2>1 DEF NoSmall, Root
  <2> QED BY <2>6, <2>7 DEF Tree
<1>8. PoolKept'
  <2>1. PICK n \in Nat \ {0} : n = PtabSize[1]
    BY SizeOf DEF Root
  <2>2. 0 % n = 0
    <3>1. 0 = 0 * n + 0
      OBVIOUS
    <3> QED BY <3>1, Quotient
  <2>3. InPool(Root, 0, end, 1)
    <3>1. 0 + end = end
      OBVIOUS
    <3> QED BY <2>1, <2>2, <3>1 DEF InPool, Root
  <2>4. InPool(walk'.level, walk'.la, walk'.size, Len(tabs'))
    BY <1>1, <1>2, <2>3
  <2> QED BY <2>4 DEF PoolKept, InPool
<1>9. ~full' /\ tabs' # <<>>
  BY <1>1 DEF TablesInv
<1> QED BY <1>2, <1>3, <1>5, <1>6, <1>7, <1>8, <1>9 DEF TablesInv

\* ptab_map_range() for a BAR.
LEMMA NextWalk ==
  ASSUME TablesInv, long, tabs # <<>>, walk.level = Done, NEW la \in Nat, NEW size \in Nat \ {0},
         MapRange(la, size), la + size <= PtabSize[Done], AllFit(la, size)
  PROVE  TablesInv'
<1>1. /\ asked' = asked \cup la..(la + size - 1) /\ UNCHANGED <<tabs, long, gig, full>>
      /\ walk' = [level |-> Root, path |-> [l \in 0..Root |-> 1], la |-> la, size |-> size]
  BY DEF MapRange
<1>2. WalkFields'
  <2>1. Root \in 0..Done
    BY DEF Root, Done
  <2> QED BY <1>1, <2>1 DEF WalkFields
<1>3. Len(tabs) \in Nat /\ Len(tabs) > 0
  BY TabsLen DEF TablesInv, Tree, Shape
<1>4. WalkReaches'
  <2>1. Reaching(tabs, Root, RootPath, la, size)
    BY <1>3, RootReaches
  <2> QED BY <1>1, <2>1 DEF WalkReaches, RootPath
<1>5. Progress'
  <2>1. \A a \in asked : a \in Nat /\ Mapped(tabs, a)
    BY DEF TablesInv, Progress, Pending
  <2>2. asked' \subseteq Nat
    BY <1>1, <2>1
  <2>3. ASSUME NEW a \in la..(la + size - 1) PROVE Pending(a)'
    <3>1. la <= a /\ a < la + size
      OBVIOUS
    <3> QED BY <1>1, <3>1 DEF Pending, Root, Done
  <2> QED BY <1>1, <2>1, <2>2, <2>3 DEF Progress
<1>6. Tree'
  <2>1. PICK lev : \E num : Shape(tabs, lev, num)
    BY DEF TablesInv, Tree
  <2>2. PICK num : Shape(tabs, lev, num)
    BY <2>1
  <2>3. Shape(tabs', lev, num)
    BY <1>1, <2>2
  <2>4. Shape(tabs, lev, num)'
    BY <1>1, <2>3, ShapePrimed
  <2> QED BY <1>1, <2>4 DEF Tree
<1> QED BY <1>1, <1>2, <1>4, <1>5, <1>6 DEF TablesInv, PoolKept

\* Nothing of the page tables changes but the part of the boot loader that uses them.
LEMMA TablesKept ==
  ASSUME TablesInv, UNCHANGED <<tabs, gig, walk, asked>>, long' = long \/ long', full' = full \/ long'
  PROVE  TablesInv'
<1>1. WalkFields' /\ WalkReaches' /\ Progress'
  BY DEF TablesInv, WalkFields, WalkReaches, Progress, Pending
<1>2. Tree'
  <2> SUFFICES ASSUME tabs # <<>> PROVE Tree'
    BY DEF Tree
  <2>1. PICK lev : \E num : Shape(tabs, lev, num) /\ (~long => NoSmall(tabs, lev))
    BY DEF TablesInv, Tree
  <2>2. PICK num : Shape(tabs, lev, num) /\ (~long => NoSmall(tabs, lev))
    BY <2>1
  <2>3. Shape(tabs', lev, num)
    BY <2>2
  <2>4. Shape(tabs, lev, num)'
    BY <2>3, ShapePrimed
  <2>5. ~long' => NoSmall(tabs, lev)'
    BY <2>2 DEF NoSmall
  <2> QED BY <2>4, <2>5 DEF Tree
<1>3. PoolKept'
  BY DEF TablesInv, PoolKept, InPool
<1> QED BY <1>1, <1>2, <1>3 DEF TablesInv

\* Where the boot loader is when there are tables, and when a walk is over.
TablesControl ==
  /\ machine \in Machines /\ upper \in Nat
  /\ spc \in {"cpu", "upper", "reserve"} => tabs = <<>>
  /\ spc \in {"load", "alloc", "loaded"} => tabs # <<>>
  /\ spc = "paging" => upper % Superpage = 0 /\ upper <= Limit
  /\ spc # "paging" /\ ~long => walk.level = Done
  /\ long => tabs # <<>> /\ spc = "loaded" /\ (phase # "caps" => walk.level = Done)

\* The stub leaves the tables alone.
LEMMA StubControl ==
  ASSUME TablesControl, SStep, UNCHANGED <<tvars, pvars>>
  PROVE  TablesControl'
<1>1. UNCHANGED <<tabs, long, walk, phase>>
  BY DEF tvars, pvars
<1>2. ~long
  BY DEF TablesControl, SStep, BaseCpuSetup, FindUpperMem, Reserve32, StartPaging, LoadElf, AllocTry
<1>3. machine' = machine
  BY DEF SStep, BaseCpuSetup, FindUpperMem, Reserve32, StartPaging, LoadElf, AllocTry, SPanic
<1>4. CASE BaseCpuSetup
  BY <1>1, <1>2, <1>3, <1>4 DEF BaseCpuSetup, TablesControl
<1>5. CASE FindUpperMem
  <2>1. upper' \in Nat
    BY <1>5, UpperFound DEF TablesControl
  <2> QED BY <1>1, <1>2, <1>3, <1>5, <2>1 DEF FindUpperMem, TablesControl
<1>6. CASE Reserve32
  <2>1. upper' = upper /\ spc = "reserve" /\ spc' \in {"reserve", "panic"}
    BY <1>6 DEF Reserve32, SPanic
  <2> QED BY <1>1, <1>2, <1>3, <2>1 DEF TablesControl
<1>7. CASE StartPaging
  <2>1. upper' = MemEnd /\ spc = "reserve" /\ spc' = "paging"
    BY <1>7 DEF StartPaging
  <2>2. MemEnd \in Nat /\ MemEnd % Superpage = 0 /\ MemEnd <= Limit
    BY MemEndIs DEF TablesControl
  <2>3. Superpage' = Superpage
    BY DEF Superpage
  <2> QED BY <1>1, <1>2, <1>3, <2>1, <2>2, <2>3 DEF TablesControl
<1>8. CASE LoadElf
  <2>1. upper' = upper /\ spc = "load" /\ spc' \in {"alloc", "loaded", "panic"}
    BY <1>8 DEF LoadElf, LoadAt
  <2> QED BY <1>1, <1>2, <1>3, <2>1 DEF TablesControl
<1>9. CASE AllocTry
  <2>1. upper' = upper /\ spc = "alloc" /\ spc' \in {"alloc", "loaded", "panic"}
    BY <1>9 DEF AllocTry, LoadAt, SPanic
  <2> QED BY <1>1, <1>2, <1>3, <2>1 DEF TablesControl
<1> QED BY <1>4, <1>5, <1>6, <1>7, <1>8, <1>9 DEF SStep

\* The bus of the 64-bit part, which leaves the tables alone.
LEMMA BusControl ==
  ASSUME TablesControl, long, PciStep, UNCHANGED <<tvars, svars>>
  PROVE  TablesControl'
<1>1. UNCHANGED <<tabs, long, walk, machine, upper, spc>>
  BY DEF tvars, svars
<1>2. phase # "caps" \/ phase' = phase \/ walk.level = Done
  BY DEF PciStep, Advance, SetupUart, Search, SearchEnds, Scan, ScanCrashes, ScanEnds, InitUart, Masters,
         HandoffBegins, Ask, WaitBios, ForceOwnership, DisableSmi, Release, Visiting
<1> QED BY <1>1, <1>2 DEF TablesControl

\* The BAR that is mapped for a handoff.
LEMMA QuirkMaps ==
  ASSUME BarsAligned, BusInv, Quirk
  PROVE  \/ UNCHANGED tvars
         \/ /\ phase' = "caps"
            /\ \E la \in Nat : \E size \in Nat \ {0} :
                 MapRange(la, size) /\ la + size <= PtabSize[Done] /\ AllFit(la, size)
<1>1. setup \in Setups /\ DOMAIN fns = DOMAIN setup.fns
  BY DEF BusInv, BusType
<1>2. CASE UNCHANGED tvars
  BY <1>2
<1>3. CASE ~UNCHANGED tvars
  <2>1. /\ Skipped(it) /\ BarValid(it) /\ phase' = "caps"
        /\ MapRange(Fn(it).bars[0].base, Fn(it).bars[0].len)
    BY <1>3 DEF Quirk
  <2>2. it \in DOMAIN setup.fns /\ setup.fns[it].class = "xhci" /\ setup.fns[it].bars[0].type = "mem"
    BY <1>1, <2>1 DEF Skipped, Present, BarValid, Fn
  <2>3. PICK b : b = setup.fns[it].bars[0]
    OBVIOUS
  <2>4. b \in Bar
    <3>1. setup.fns[it].bars \in [0..(NumBars - 1) -> Bar] /\ NumBars \in Nat \ {0}
      BY <1>1, <2>2, PciAssumption
    <3> QED BY <2>3, <3>1
  <2>5. /\ b.len > 0 /\ b.base + b.len <= PtabSize[Done]
        /\ \A l \in 0..Root : Aligned(l, b.base) \/ (b.base % PtabSize[l]) + b.len <= PtabSize[l]
    BY <1>1, <2>2, <2>3 DEF BarsAligned
  <2>6. b.base \in Nat /\ b.len \in Nat \ {0}
    BY <2>4, <2>5 DEF Bar
  <2>7. AllFit(b.base, b.len)
    BY <2>5 DEF AllFit, Fit, Aligned
  <2>8. MapRange(b.base, b.len)
    BY <2>1, <2>3 DEF Fn
  <2> QED BY <2>1, <2>5, <2>6, <2>7, <2>8
<1> QED BY <1>2, <1>3

\* The invariant of the page tables holds in every state.
LEMMA TablesInvariant ==
  ASSUME Entries >= 4, PoolPages >= 6, BarsAligned
  PROVE  Spec => [](TablesInv /\ TablesControl)
<1>1. Init => TablesInv /\ TablesControl
  <2> SUFFICES ASSUME Init PROVE TablesInv /\ TablesControl
    OBVIOUS
  <2>1. /\ tabs = <<>> /\ long = FALSE /\ walk = NoWalk /\ asked = {} /\ full = FALSE
        /\ machine \in Machines /\ upper = 0 /\ spc = "cpu"
    BY DEF Init, TInit, SInit
  <2>2. IsTabs(tabs)
    BY <2>1 DEF IsTabs
  <2>3. WalkFields /\ walk.level = Done
    BY <2>1 DEF WalkFields, NoWalk, Root, Done
  <2> QED BY <2>1, <2>2, <2>3 DEF TablesInv, TablesControl, WalkReaches, Progress, Tree, PoolKept
<1>2. BusInv /\ TablesInv /\ TablesControl /\ [Next]_vars => TablesInv' /\ TablesControl'
  <2> SUFFICES ASSUME BusInv, TablesInv, TablesControl, [Next]_vars
               PROVE  TablesInv' /\ TablesControl'
    OBVIOUS
  <2>1. CASE Stub
    <3>1. TablesInv'
      BY <2>1, TablesKept DEF Stub, tvars
    <3> QED BY <2>1, <3>1, StubControl DEF Stub
  <2>2. CASE StubMaps
    <3>1. /\ spc = "paging" /\ tabs = <<>> /\ upper > 0 /\ BasePagingInit(upper \div PageSize)
          /\ UNCHANGED <<machine, upper, spc, phase>>
      BY <2>2 DEF StubMaps, svars, pvars
    <3>2. ~long /\ upper \in Nat \ {0}
      BY <3>1 DEF TablesControl
    <3>3. /\ upper \div PageSize \in Nat \ {0}
          /\ (upper \div PageSize) % PtabSize[1] = 0
          /\ upper \div PageSize <= 4 * PtabSize[2]
      BY <3>1, <3>2, EndInPages DEF TablesControl
    <3>4. TablesInv'
      BY <3>1, <3>2, <3>3, FirstWalk
    <3>5. tabs' # <<>> /\ long' = long
      BY <3>1 DEF BasePagingInit
    <3>6. Superpage' = Superpage
      BY DEF Superpage
    <3> QED BY <3>1, <3>2, <3>4, <3>5, <3>6 DEF TablesControl
  <2>3. CASE StubAsserts \/ StubMapped
    <3>1. /\ spc = "paging" /\ UNCHANGED <<tabs, long, gig, walk, asked, full, machine, upper, phase>>
          /\ \/ spc' = "panic" /\ tabs = <<>>
             \/ spc' = "load" /\ tabs # <<>> /\ walk.level = Done
      BY <2>3 DEF StubAsserts, StubMapped, SPanic, tvars, pvars
    <3>2. TablesInv'
      BY <3>1, TablesKept
    <3>3. ~long /\ walk.level = Done
      BY <3>1 DEF TablesControl, TablesInv
    <3> QED BY <3>1, <3>2, <3>3 DEF TablesControl
  <2>4. CASE EnterLong
    <3>1. /\ spc = "loaded" /\ ~long /\ long'
          /\ UNCHANGED <<tabs, gig, walk, asked, full, machine, upper, spc, phase>>
      BY <2>4 DEF EnterLong, svars, pvars
    <3>2. TablesInv'
      BY <3>1, TablesKept
    <3> QED BY <3>1, <3>2 DEF TablesControl
  <2>5. CASE Map
    <3>1. MapStep /\ UNCHANGED <<machine, upper, spc, phase>>
      BY <2>5 DEF Map, svars, pvars
    <3>2. TablesInv'
      BY <3>1, MapLeafKeeps, DescendKeeps, TablesKept DEF MapStep, OutOfRam
    <3>3. walk.level # Done /\ long' = long
      BY <3>1 DEF MapStep, MapLeaf, Descend, OutOfRam, TablesInv, WalkFields, Done
    <3>4. tabs # <<>>
      BY <3>3 DEF TablesInv
    <3>5. tabs' # <<>>
      <4>1. CASE MapLeaf
        <5>1. tabs' = tabs \/ \E t, i, e : tabs' = [tabs EXCEPT ![t][i] = e]
          BY <4>1 DEF MapLeaf
        <5>2. IsTabs(tabs') /\ IsTabs(tabs)
          BY <3>2 DEF TablesInv
        <5>3. DOMAIN tabs' = DOMAIN tabs
          BY <5>1, <5>2 DEF IsTabs
        <5> QED BY <3>4, <5>2, <5>3 DEF IsTabs
      <4>2. CASE Descend
        <5>1. tabs' = tabs \/ \E s : tabs' = Append(s, Empty)
          BY <4>2 DEF Descend
        <5> QED BY <3>2, <3>4, <5>1 DEF TablesInv, IsTabs
      <4> QED BY <3>1, <3>4, <4>1, <4>2 DEF MapStep, OutOfRam
    <3>6. Superpage' = Superpage
      BY DEF Superpage
    <3> QED BY <3>1, <3>2, <3>3, <3>4, <3>5, <3>6 DEF TablesControl
  <2>6. CASE Bus
    <3>1. TablesInv'
      BY <2>6, TablesKept DEF Bus, tvars
    <3> QED BY <2>6, <3>1, BusControl DEF Bus
  <2>7. CASE BusQuirk
    <3>1. long /\ Quirk /\ UNCHANGED <<machine, upper, spc>>
      BY <2>7 DEF BusQuirk, svars
    <3>2. phase = "quirks" /\ walk.level = Done /\ tabs # <<>> /\ spc = "loaded"
      BY <3>1 DEF Quirk, Visiting, TablesControl
    <3>3. CASE UNCHANGED tvars
      <4>1. TablesInv'
        BY <3>3, TablesKept DEF tvars
      <4> QED BY <3>1, <3>2, <3>3, <4>1 DEF TablesControl, tvars
    <3>4. CASE /\ phase' = "caps"
               /\ \E la \in Nat : \E size \in Nat \ {0} :
                    MapRange(la, size) /\ la + size <= PtabSize[Done] /\ AllFit(la, size)
      <4>1. TablesInv'
        BY <3>1, <3>2, <3>4, NextWalk
      <4>2. tabs' = tabs /\ long' = long
        BY <3>4 DEF MapRange
      <4> QED BY <3>1, <3>2, <3>4, <4>1, <4>2 DEF TablesControl
    <3> QED BY <3>1, <3>3, <3>4, QuirkMaps
  <2>8. CASE Bios \/ UNCHANGED vars
    <3>1. UNCHANGED <<tabs, long, gig, walk, asked, full, machine, upper, spc, phase>>
      BY <2>8 DEF Bios, BiosReleases, vars, tvars, svars, pvars
    <3>2. TablesInv'
      BY <3>1, TablesKept
    <3>3. Superpage' = Superpage
      BY DEF Superpage
    <3> QED BY <3>1, <3>2, <3>3 DEF TablesControl
  <2> QED BY <2>1, <2>2, <2>3, <2>4, <2>5, <2>6, <2>7, <2>8 DEF Next, BootLoader, Halted
<1> QED BY <1>1, <1>2, BusInvariant, PTL DEF Spec

\* TablesRight holds for tables of every size, every end of memory and all BARs
\* that are aligned to their size: when ptab_map_range() returns, all it was
\* asked for since the start is mapped one to one, and the stub's 4 GiB need no
\* more than the six pages of its pool, with and without 1 GiB pages.
THEOREM TablesAlwaysRight ==
  ASSUME Entries >= 4, PoolPages >= 6, BarsAligned
  PROVE  Spec => []TablesRight
<1>1. TablesInv => TablesRight
  <2> SUFFICES ASSUME TablesInv PROVE TablesRight
    OBVIOUS
  <2>1. ASSUME walk.level = Done, NEW a \in asked PROVE MapsTo(a, a)
    <3>1. a \in Nat /\ Mapped(tabs, a)
      BY <2>1 DEF TablesInv, Progress, Pending
    <3> QED BY <3>1, MappedIsMapped DEF TablesInv
  <2>2. ASSUME ~long PROVE Len(tabs) <= PoolPages
    <3>1. Len(tabs) \in Nat /\ PoolPages \in Nat
      BY TabsLen, TableAssumption DEF TablesInv
    <3>2. CASE tabs = <<>>
      BY <3>1, <3>2
    <3>3. CASE tabs # <<>>
      <4>1. InPool(walk.level, walk.la, walk.size, Len(tabs))
        BY <2>2, <3>3 DEF TablesInv, PoolKept
      <4>2. Len(tabs) <= 6
        <5>1. CASE walk.level = Done
          BY <4>1, <5>1 DEF InPool, Done
        <5>2. CASE walk.level # Done
          <6>1. Reaching(tabs, walk.level, walk.path, walk.la, walk.size)
            BY <5>2 DEF TablesInv, WalkReaches
          <6>2. walk.la \in Nat /\ walk.size \in Nat \ {0}
            BY <6>1 DEF TablesInv, WalkFields, Reaching
          <6>3. PICK w \in Nat \ {0} : w = PtabSize[2]
            BY SizeOf DEF Root
          <6>4. walk.la + walk.size <= 4 * w
            BY <4>1, <5>2, <6>3 DEF InPool
          <6>5. PICK q \in Nat : q = walk.la \div w /\ q <= 3
            <7>1. walk.la < 4 * w
              BY <6>2, <6>4
            <7> QED BY <6>2, <7>1, BelowFour
          <6>6. Len(tabs) = 1 \/ Len(tabs) <= 2 + q \/ Len(tabs) <= 3 + q
            BY <4>1, <5>2, <6>3, <6>5 DEF InPool
          <6>7. PICK n \in Nat : n = Len(tabs)
            BY <3>1
          <6>8. n = 1 \/ n <= 2 + q \/ n <= 3 + q
            BY <6>6, <6>7
          <6>9. n <= 6
            BY <6>5, <6>8
          <6> QED BY <6>7, <6>9
        <5> QED BY <5>1, <5>2
      <4> QED BY <3>1, <4>2
    <3> QED BY <3>2, <3>3
  <2> QED BY <2>1, <2>2 DEF TablesRight, IdentityMapped, TablesInPool, TablesInv
<1> QED BY <1>1, TablesInvariant, PTL

-----------------------------------------------------------------------------
(* Serial cards: the numbers of functions *)

Positions == Buses * Devs * Funcs
Num(p) == (p.bus * Devs + p.dev) * Funcs + p.func

\* Two-digit numbers are ordered by the first digit, then by the second.
LEMMA Digits ==
  ASSUME NEW k \in Nat \ {0}, NEW a \in Nat, NEW b \in 0..(k - 1), NEW c \in Nat, NEW d \in 0..(k - 1)
  PROVE  /\ a * k + b \in Nat
         /\ a * k + b < c * k + d <=> a < c \/ (a = c /\ b < d)
<1>1. PICK x \in Nat : x = a * k
  OBVIOUS
<1>2. PICK y \in Nat : y = c * k
  OBVIOUS
<1>3. ASSUME a < c PROVE x + k <= y
  <2>1. (a + 1) * k <= c * k
    BY <1>3
  <2>2. (a + 1) * k = a * k + k
    OBVIOUS
  <2> QED BY <1>1, <1>2, <2>1, <2>2
<1>4. ASSUME c < a PROVE y + k <= x
  <2>1. (c + 1) * k <= a * k
    BY <1>4
  <2>2. (c + 1) * k = c * k + k
    OBVIOUS
  <2> QED BY <1>1, <1>2, <2>1, <2>2
<1>5. a = c => x = y
  BY <1>1, <1>2
<1>6. x + b < y + d <=> a < c \/ (a = c /\ b < d)
  BY <1>3, <1>4, <1>5
<1> QED BY <1>1, <1>2, <1>6

LEMMA Sizes == Buses \in Nat \ {0} /\ Devs \in Nat \ {0} /\ Funcs \in Nat \ {0, 1} /\ Positions \in Nat
BY PciAssumption DEF Positions

\* The order of the bus is that of the numbers.
LEMMA NumOrder ==
  ASSUME NEW p \in Pos \cup {EndPos}, NEW q \in Pos \cup {EndPos}
  PROVE  /\ Num(p) \in Nat
         /\ Sooner(p, q) <=> Num(p) < Num(q)
<1>1. /\ p.bus \in Nat /\ p.dev \in 0..(Devs - 1) /\ p.func \in 0..(Funcs - 1)
      /\ q.bus \in Nat /\ q.dev \in 0..(Devs - 1) /\ q.func \in 0..(Funcs - 1)
  BY Sizes DEF Pos, EndPos
<1>2. PICK x \in Nat : x = p.bus * Devs + p.dev
  BY <1>1, Sizes
<1>3. PICK y \in Nat : y = q.bus * Devs + q.dev
  BY <1>1, Sizes
<1>4. x < y <=> p.bus < q.bus \/ (p.bus = q.bus /\ p.dev < q.dev)
  BY <1>1, <1>2, <1>3, Sizes, Digits
<1>5. y < x <=> q.bus < p.bus \/ (q.bus = p.bus /\ q.dev < p.dev)
  BY <1>1, <1>2, <1>3, Sizes, Digits
<1>6. x = y <=> p.bus = q.bus /\ p.dev = q.dev
  <2>1. x = y <=> ~(x < y) /\ ~(y < x)
    BY <1>2, <1>3
  <2> QED BY <1>1, <1>4, <1>5, <2>1
<1>7. /\ x * Funcs + p.func \in Nat
      /\ x * Funcs + p.func < y * Funcs + q.func <=> x < y \/ (x = y /\ p.func < q.func)
  BY <1>1, Sizes, Digits
<1>8. Num(p) = x * Funcs + p.func /\ Num(q) = y * Funcs + q.func
  BY <1>2, <1>3 DEF Num
<1>9. Sooner(p, q) <=> x < y \/ (x = y /\ p.func < q.func)
  BY <1>1, <1>4, <1>6 DEF Sooner
<1> QED BY <1>7, <1>8, <1>9

\* The numbers and the functions are one to one.
LEMMA PosOfNum ==
  ASSUME NEW p \in Pos
  PROVE  Num(p) \in 0..(Positions - 1) /\ PosOf(Num(p)) = p
<1>1. p.bus \in 0..(Buses - 1) /\ p.dev \in 0..(Devs - 1) /\ p.func \in 0..(Funcs - 1)
      /\ p = [bus |-> p.bus, dev |-> p.dev, func |-> p.func]
  BY DEF Pos
<1>2. PICK x \in Nat : x = p.bus * Devs + p.dev
  BY <1>1, Sizes
<1>3. PICK n \in Nat : n = x * Funcs + p.func /\ n = Num(p)
  BY <1>1, <1>2, Sizes DEF Num
<1>4. n \div Funcs = x /\ n % Funcs = p.func
  BY <1>1, <1>3, Sizes, Quotient
<1>5. x \div Devs = p.bus /\ x % Devs = p.dev
  BY <1>1, <1>2, Sizes, Quotient
<1>6. n \div (Devs * Funcs) = p.bus
  <2>1. Funcs \in Nat \ {0} /\ Devs \in Nat \ {0}
    BY Sizes
  <2>2. n \div (Devs * Funcs) = (n \div Funcs) \div Devs
    BY <1>3, <2>1, Nested, Zenon
  <2> QED BY <1>4, <1>5, <2>2, Zenon
<1>7. PosOf(n) = p
  BY <1>1, <1>4, <1>5, <1>6 DEF PosOf
<1>8. n < Positions
  <2>1. EndPos \in Pos \cup {EndPos} /\ Sooner(p, EndPos)
    BY <1>1, Sizes DEF Sooner, EndPos
  <2>2. Num(p) < Num(EndPos)
    BY <2>1, NumOrder
  <2>3. Num(EndPos) = Positions
    <3>1. Num(EndPos) = (Buses * Devs + 0) * Funcs + 0
      BY DEF Num, EndPos
    <3> QED BY <3>1, Sizes DEF Positions
  <2> QED BY <1>3, <2>2, <2>3
<1> QED BY <1>3, <1>7, <1>8, Sizes

LEMMA NumOfPos ==
  ASSUME NEW n \in 0..(Positions - 1)
  PROVE  PosOf(n) \in Pos /\ Num(PosOf(n)) = n
<1>0. n \in Nat
  BY Sizes
<1>1. PICK x \in Nat : x = n \div Funcs
  BY <1>0, Sizes, Parts
<1>2. PICK f \in Nat : f = n % Funcs /\ f < Funcs /\ n = x * Funcs + f
  BY <1>0, <1>1, Sizes, Parts
<1>3. PICK b \in Nat : b = x \div Devs
  BY <1>1, Sizes, Parts
<1>4. PICK d \in Nat : d = x % Devs /\ d < Devs /\ x = b * Devs + d
  BY <1>1, <1>3, Sizes, Parts
<1>5. n \div (Devs * Funcs) = b
  <2>1. Funcs \in Nat \ {0} /\ Devs \in Nat \ {0}
    BY Sizes
  <2>2. n \div (Devs * Funcs) = (n \div Funcs) \div Devs
    BY <1>0, <2>1, Nested, Zenon
  <2> QED BY <1>1, <1>3, <2>2, Zenon
<1>6. PosOf(n) = [bus |-> b, dev |-> d, func |-> f]
  BY <1>1, <1>2, <1>4, <1>5 DEF PosOf
<1>7. Num(PosOf(n)) = n
  BY <1>2, <1>4, <1>6 DEF Num
<1>8. b < Buses
  <2> SUFFICES ASSUME Buses <= b PROVE FALSE
    BY <1>3, Sizes
  <2>1. b * Devs >= Buses * Devs
    BY <1>3, Sizes
  <2>2. PICK y \in Nat : y = Buses * Devs
    BY Sizes
  <2>3. x >= y
    BY <1>3, <1>4, <2>1, <2>2, Sizes
  <2>4. x * Funcs >= y * Funcs
    BY <1>1, <2>2, <2>3, Sizes
  <2>5. x * Funcs \in Nat /\ y * Funcs = Positions
    BY <1>1, <2>2, Sizes DEF Positions
  <2> QED BY <1>2, <2>4, <2>5, Sizes
<1>9. PosOf(n) \in Pos
  BY <1>2, <1>4, <1>6, <1>8, <1>3, Sizes DEF Pos
<1> QED BY <1>7, <1>9

-----------------------------------------------------------------------------
(* Serial cards: the boards up to a function *)

\* The boards and cards of the functions with a number less than n
IsFold(f) ==
  f = [n \in 0..Positions |->
         IF n = 0 THEN [board |-> NewBoard, cards |-> <<>>] ELSE CardsAfter(f[n - 1], PosOf(n - 1))]

LEMMA FoldStep ==
  ASSUME NEW f, IsFold(f)
  PROVE  /\ f[0] = [board |-> NewBoard, cards |-> <<>>]
         /\ \A n \in 0..(Positions - 1) : f[n + 1] = CardsAfter(f[n], PosOf(n))
<1> DEFINE Body(g, n) == IF n = 0 THEN [board |-> NewBoard, cards |-> <<>>] ELSE CardsAfter(g[n - 1], PosOf(n - 1))
<1>1. f = [n \in 0..Positions |-> Body(f, n)]
  BY DEF IsFold
<1> HIDE DEF Body
<1>2. \A n \in 0..Positions : f[n] = Body(f, n)
  BY <1>1
<1>3. f[0] = Body(f, 0)
  BY <1>2, Sizes
<1>4. ASSUME NEW n \in 0..(Positions - 1) PROVE f[n + 1] = CardsAfter(f[n], PosOf(n))
  <2>1. n + 1 \in 0..Positions /\ n + 1 # 0 /\ (n + 1) - 1 = n
    BY Sizes
  <2>2. f[n + 1] = Body(f, n + 1)
    BY <1>2, <2>1
  <2> QED BY <2>1, <2>2 DEF Body
<1> QED BY <1>3, <1>4 DEF Body

LEMMA FoldUnique ==
  ASSUME NEW f, IsFold(f), NEW g, IsFold(g)
  PROVE  f = g
<1> DEFINE Bad == { n \in 0..Positions : f[n] # g[n] }
<1>1. Bad = {}
  <2> SUFFICES ASSUME Bad # {} PROVE FALSE
    OBVIOUS
  <2>1. Bad \in SUBSET Nat
    BY Sizes
  <2> HIDE DEF Bad
  <2>2. PICK k \in Bad : \A y \in Bad : k <= y
    BY <2>1, LeastElement
  <2>3. k \in 0..Positions /\ f[k] # g[k]
    BY <2>2 DEF Bad
  <2>4. k # 0
    BY <2>3, FoldStep
  <2>5. k - 1 \in 0..(Positions - 1) /\ k - 1 \in 0..Positions /\ (k - 1) + 1 = k /\ k - 1 < k
    BY <2>3, <2>4, Sizes
  <2>6. k - 1 \notin Bad
    BY <2>2, <2>3, <2>5
  <2>7. f[k - 1] = g[k - 1]
    BY <2>5, <2>6 DEF Bad
  <2>8. f[(k - 1) + 1] = CardsAfter(f[k - 1], PosOf(k - 1)) /\ g[(k - 1) + 1] = CardsAfter(g[k - 1], PosOf(k - 1))
    BY <2>5, FoldStep
  <2> QED BY <2>3, <2>5, <2>7, <2>8
<1>2. \A n \in 0..Positions : f[n] = g[n]
  BY <1>1
<1> DEFINE Body(h, n) == IF n = 0 THEN [board |-> NewBoard, cards |-> <<>>] ELSE CardsAfter(h[n - 1], PosOf(n - 1))
<1>3. f = [n \in 0..Positions |-> Body(f, n)] /\ g = [n \in 0..Positions |-> Body(g, n)]
  BY DEF IsFold
<1> HIDE DEF Body
<1> QED BY <1>2, <1>3

\* There are such boards, and Cards are those of the whole bus.
LEMMA FoldExists == \E f : IsFold(f) /\ Cards = f[Positions].cards
<1> DEFINE Body(g, n) == IF n = 0 THEN [board |-> NewBoard, cards |-> <<>>] ELSE CardsAfter(g[n - 1], PosOf(n - 1))
           Fun(k) == \E f : f = [n \in 0..k |-> Body(f, n)]
           Bad == { k \in Nat : ~Fun(k) }
<1>1. Bad = {}
  <2> SUFFICES ASSUME Bad # {} PROVE FALSE
    OBVIOUS
  <2>1. Bad \in SUBSET Nat
    OBVIOUS
  <2> HIDE DEF Bad
  <2>2. PICK k \in Bad : \A y \in Bad : k <= y
    BY <2>1, LeastElement
  <2>3. k \in Nat /\ ~Fun(k)
    BY <2>2 DEF Bad
  <2>4. k # 0
    <3> DEFINE g == [n \in 0..0 |-> Body(0, 0)]
    <3>1. \A h : Body(h, 0) = Body(0, 0)
      OBVIOUS
    <3>2. \A n \in 0..0 : n = 0
      OBVIOUS
    <3> HIDE DEF Body
    <3>3. g = [n \in 0..0 |-> Body(g, n)]
      <4> SUFFICES ASSUME NEW n \in 0..0 PROVE Body(0, 0) = Body(g, n)
        OBVIOUS
      <4> HIDE DEF g
      <4> QED BY <3>1, <3>2
    <3> HIDE DEF g
    <3>4. Fun(0)
      BY <3>3
    <3> QED BY <2>3, <3>4
  <2> HIDE DEF Body
  <2>5. k - 1 \in Nat /\ k - 1 \notin Bad
    BY <2>2, <2>3, <2>4
  <2>6. PICK f : f = [n \in 0..(k - 1) |-> Body(f, n)]
    BY <2>5 DEF Bad
  <2> DEFINE g == [n \in 0..k |-> IF n < k THEN f[n] ELSE Body(f, k)]
  <2>7. g = [n \in 0..k |-> Body(g, n)]
    <3> SUFFICES ASSUME NEW n \in 0..k PROVE g[n] = Body(g, n)
      OBVIOUS
    <3>1. n = 0 \/ g[n - 1] = f[n - 1]
      BY <2>3
    <3>2. Body(g, n) = Body(f, n)
      BY <3>1 DEF Body
    <3>3. n < k => f[n] = Body(f, n)
      <4>1. n < k => n \in 0..(k - 1)
        BY <2>3
      <4> QED BY <2>6, <4>1, Zenon
    <3>4. n = k \/ n < k
      BY <2>3
    <3> QED BY <3>2, <3>3, <3>4
  <2> HIDE DEF g
  <2>8. Fun(k)
    BY <2>7
  <2> QED BY <2>3, <2>8
<1>2. Fun(Positions)
  BY <1>1, Sizes
<1> DEFINE F == CHOOSE f : f = [n \in 0..Positions |-> Body(f, n)]
<1>3. F = [n \in 0..Positions |-> Body(F, n)]
  BY <1>2
<1>4. Cards = F[Positions].cards
  BY Zenon DEF Cards, Positions
<1>5. IsFold(F)
  BY <1>3 DEF IsFold
<1> QED BY <1>4, <1>5

\* What a function does to them.
LEMMA FoldShape ==
  ASSUME NEW f, IsFold(f), NEW n \in 0..(Positions - 1)
  PROVE  \/ ~Present(PosOf(n)) /\ PosOf(n) # Origin /\ f[n + 1] = f[n]
         \/ /\ Present(PosOf(n)) \/ PosOf(n) = Origin
            /\ f[n + 1].board = TryOn(f[n].board, PosOf(n)).board
            /\ f[n + 1].cards = IF TryOn(f[n].board, PosOf(n)).ok THEN Append(f[n].cards, f[n + 1].board)
                                ELSE f[n].cards
<1>1. f[n + 1] = CardsAfter(f[n], PosOf(n))
  BY FoldStep
<1> QED BY <1>1 DEF CardsAfter

Boards(f) == { f[n].board : n \in 0..Positions }

LEMMA FoldType ==
  ASSUME NEW f, IsFold(f)
  PROVE  \A n \in 0..Positions : f[n].cards \in Seq(Boards(f))
<1> DEFINE Bad == { n \in 0..Positions : f[n].cards \notin Seq(Boards(f)) }
<1> SUFFICES ASSUME Bad # {} PROVE FALSE
  OBVIOUS
<1>1. Bad \in SUBSET Nat
  BY Sizes
<1> HIDE DEF Bad
<1>2. PICK k \in Bad : \A y \in Bad : k <= y
  BY <1>1, LeastElement
<1>3. k \in 0..Positions /\ f[k].cards \notin Seq(Boards(f))
  BY <1>2 DEF Bad
<1>4. k # 0
  <2>1. f[0].cards = <<>>
    BY FoldStep
  <2>2. <<>> \in Seq(Boards(f))
    OBVIOUS
  <2> QED BY <1>3, <2>1, <2>2
<1>5. PICK m \in 0..(Positions - 1) : m \in 0..Positions /\ k = m + 1 /\ m < k
  BY <1>3, <1>4, Sizes
<1>6. f[m].cards \in Seq(Boards(f))
  BY <1>2, <1>3, <1>5 DEF Bad
<1>7. f[k].board \in Boards(f)
  BY <1>3 DEF Boards
<1>8. f[k].cards = f[m].cards \/ f[k].cards = Append(f[m].cards, f[k].board)
  BY <1>5, FoldShape
<1> DEFINE S == Boards(f)
<1> HIDE DEF S
<1>9. PICK c \in Seq(S), x \in S : c = f[m].cards /\ x = f[k].board
  BY <1>6, <1>7 DEF S
<1>10. Append(c, x) \in Seq(S)
  OBVIOUS
<1> QED BY <1>3, <1>8, <1>9, <1>10 DEF S

\* A card keeps its number.
LEMMA CardsGrow ==
  ASSUME NEW f, IsFold(f), NEW a \in 0..Positions, NEW b \in a..Positions
  PROVE  /\ Len(f[a].cards) <= Len(f[b].cards)
         /\ \A i \in 1..Len(f[a].cards) : f[b].cards[i] = f[a].cards[i]
<1> DEFINE Good(n) == /\ Len(f[a].cards) <= Len(f[n].cards)
                      /\ \A i \in 1..Len(f[a].cards) : f[n].cards[i] = f[a].cards[i]
           Bad == { n \in a..Positions : ~Good(n) }
<1> SUFFICES ASSUME Bad # {} PROVE FALSE
  OBVIOUS
<1>1. Bad \in SUBSET Nat
  BY Sizes
<1> HIDE DEF Bad
<1>2. PICK k \in Bad : \A y \in Bad : k <= y
  BY <1>1, LeastElement
<1>3. k \in a..Positions /\ ~Good(k)
  BY <1>2 DEF Bad
<1>4. f[a].cards \in Seq(Boards(f))
  BY FoldType
<1>5. k # a
  <2>1. Len(f[a].cards) \in Nat
    BY <1>4
  <2> QED BY <1>3, <2>1
<1>6. PICK m \in 0..(Positions - 1) : m \in a..Positions /\ k = m + 1 /\ m < k /\ k \in 0..Positions
  <2>1. k \in a..Positions
    BY <1>3
  <2>2. k - 1 \in 0..(Positions - 1) /\ k - 1 \in a..Positions /\ k = (k - 1) + 1 /\ k - 1 < k /\ k \in 0..Positions
    BY <1>5, <2>1, Sizes
  <2> QED BY <2>2
<1>7. Good(m)
  BY <1>2, <1>3, <1>6 DEF Bad
<1>8. f[m].cards \in Seq(Boards(f)) /\ f[k].board \in Boards(f)
  BY <1>6, FoldType, Sizes DEF Boards
<1>9. f[k].cards = f[m].cards \/ f[k].cards = Append(f[m].cards, f[k].board)
  BY <1>6, FoldShape
<1> DEFINE S == Boards(f)
<1> HIDE DEF S
<1>10. PICK d \in Seq(S), c \in Seq(S), x \in S : d = f[a].cards /\ c = f[m].cards /\ x = f[k].board
  BY <1>4, <1>8 DEF S
<1>11. Len(d) <= Len(c) /\ \A i \in 1..Len(d) : c[i] = d[i]
  BY <1>7, <1>10
<1>12. /\ Len(d) <= Len(Append(c, x))
       /\ \A i \in 1..Len(d) : Append(c, x)[i] = d[i]
  BY <1>11
<1>13. CASE f[k].cards = c
  BY <1>3, <1>10, <1>11, <1>13
<1>14. CASE f[k].cards = Append(c, x)
  BY <1>3, <1>10, <1>12, <1>14
<1> QED BY <1>9, <1>10, <1>13, <1>14

\* Where no function is, nothing changes.
LEMMA CardsSkip ==
  ASSUME NEW f, IsFold(f), NEW a \in 0..Positions, NEW b \in a..Positions,
         \A n \in a..(b - 1) : ~Present(PosOf(n)) /\ PosOf(n) # Origin
  PROVE  f[b] = f[a]
<1> DEFINE Bad == { n \in a..b : f[n] # f[a] }
<1> SUFFICES ASSUME Bad # {} PROVE FALSE
  OBVIOUS
<1>1. Bad \in SUBSET Nat
  BY Sizes
<1> HIDE DEF Bad
<1>2. PICK k \in Bad : \A y \in Bad : k <= y
  BY <1>1, LeastElement
<1>3. k \in a..b /\ f[k] # f[a]
  BY <1>2 DEF Bad
<1>4. k # a
  BY <1>3
<1>5. PICK m \in 0..(Positions - 1) : m \in a..(b - 1) /\ m \in a..b /\ k = m + 1 /\ m < k
  BY <1>3, <1>4, Sizes
<1>6. f[m] = f[a]
  BY <1>2, <1>3, <1>5 DEF Bad
<1>7. f[k] = f[m]
  BY <1>5, FoldShape
<1> QED BY <1>3, <1>6, <1>7

\* The boards depend on the machine alone.
LEMMA FoldKept ==
  ASSUME setup' = setup, DOMAIN fns' = DOMAIN fns, NEW f
  PROVE  /\ IsFold(f)' <=> IsFold(f)
         /\ \A p : Present(p)' <=> Present(p)
         /\ \A b, p : TryOn(b, p)' = TryOn(b, p)
<1>1. \A p : (Present(p)' <=> Present(p)) /\ DriverAt(p)' = DriverAt(p) /\ Fn(p)' = Fn(p)
  BY DEF Present, DriverAt, Fn
<1>2. \A b, p : TryOn(b, p)' = TryOn(b, p)
  <2> SUFFICES ASSUME NEW b, NEW p PROVE TryOn(b, p)' = TryOn(b, p)
    OBVIOUS
  <2>1. (IF Present(p) THEN Fn(p) ELSE Absent)' = IF Present(p) THEN Fn(p) ELSE Absent
    BY <1>1
  <2>2. DriverAt(p)' = DriverAt(p)
    BY <1>1
  <2> QED BY <2>1, <2>2 DEF TryOn
<1>3. \A c, p : CardsAfter(c, p)' = CardsAfter(c, p)
  BY <1>1, <1>2 DEF CardsAfter
<1>4. IsFold(f)' <=> IsFold(f)
  BY <1>3 DEF IsFold
<1> QED BY <1>1, <1>2, <1>4

LEMMA Ends ==
  /\ Origin \in Pos /\ Num(Origin) = 0
  /\ Num(EndPos) = Positions
<1>1. Origin \in Pos
  BY Sizes DEF Origin, Pos
<1>2. Num(Origin) = (0 * Devs + 0) * Funcs + 0
  BY DEF Num, Origin
<1>3. Num(EndPos) = (Buses * Devs + 0) * Funcs + 0
  BY DEF Num, EndPos
<1> QED BY <1>1, <1>2, <1>3, Sizes DEF Positions

\* The number of functions the iterator has left
Here == IF moving THEN Num(it) + 1 ELSE Num(it)

LEMMA HereType ==
  ASSUME BusType
  PROVE  /\ Here \in 0..Positions
         /\ ~Ended(it) => it \in Pos /\ Num(it) \in 0..(Positions - 1) /\ PosOf(Num(it)) = it
         /\ Ended(it) /\ ~moving => Here = Positions
<1>1. it \in Pos => Num(it) \in 0..(Positions - 1) /\ PosOf(Num(it)) = it /\ ~Ended(it)
  <2>1. it \in Pos => ~Ended(it)
    BY Sizes DEF Pos, Ended
  <2> QED BY <2>1, PosOfNum
<1>2. it \in Pos \/ (it = EndPos /\ Ended(it) /\ Num(it) = Positions /\ ~moving)
  BY <1>1, Ends DEF BusType, EndPos, Ended
<1> QED BY <1>1, <1>2, Sizes DEF Here

\* Neither operator ++ nor the functions it passes change the boards.
LEMMA AdvanceSkips ==
  ASSUME BusType, Advance, NEW f, IsFold(f)
  PROVE  f[Here'] = f[Here] /\ \A n \in 0..(Here' - 1) : Present(PosOf(n)) => n \in 0..(Here - 1)
<1>1. moving /\ it \in Pos /\ it' = Step(it)
  BY DEF Advance, BusType
<1>2. moving' = ~(Ended(it') \/ Present(it'))
  BY Zenon DEF Advance
<1>3. PICK q \in Pos \cup {EndPos} : q = it' /\ Sooner(it, q)
                                     /\ \A x \in DOMAIN fns : Sooner(x, q) <=> Sooner(x, it) \/ x = it
  BY <1>1, StepPassesNone
<1>4. PICK a \in 1..Positions : a = Num(it) + 1 /\ a = Here
  BY <1>1, PosOfNum, Sizes DEF Here
<1>5. q \in Pos \/ q = EndPos
  BY <1>3
<1>6. PICK b \in a..Positions : b = Num(q) /\ (q \in Pos => b \in 0..(Positions - 1) /\ PosOf(b) = q)
  <2>1. Num(it) < Num(q) /\ Num(it) \in Nat /\ Num(q) \in Nat
    BY <1>1, <1>3, NumOrder
  <2>2. Num(q) <= Positions /\ (q \in Pos => Num(q) \in 0..(Positions - 1) /\ PosOf(Num(q)) = q)
    BY <1>5, PosOfNum, Ends, Sizes
  <2> QED BY <1>4, <2>1, <2>2, Sizes
<1>7. ASSUME NEW n \in a..(b - 1) PROVE ~Present(PosOf(n)) /\ PosOf(n) # Origin
  <2>1. n \in 0..(Positions - 1) /\ n # 0 /\ n < b /\ ~(n < a - 1) /\ n # a - 1
    BY Sizes
  <2>2. PICK x \in Pos : x = PosOf(n) /\ Num(x) = n
    BY <2>1, NumOfPos
  <2>3. x # Origin
    BY <2>1, <2>2, Ends
  <2>4. Sooner(x, q)
    BY <1>6, <2>1, <2>2, NumOrder
  <2>5. ~Sooner(x, it) /\ x # it
    <3>1. Num(it) = a - 1
      BY <1>1, <1>4, PosOfNum, Sizes
    <3> QED BY <1>1, <2>1, <2>2, <3>1, NumOrder
  <2>6. x \notin DOMAIN fns
    BY <1>3, <2>4, <2>5
  <2> QED BY <2>2, <2>3, <2>6 DEF Present
<1>8. f[b] = f[a]
  BY <1>4, <1>6, <1>7, CardsSkip
<1>9. CASE moving'
  <2>1. ~Ended(it') /\ ~Present(it')
    BY <1>2, <1>9, Zenon
  <2>2. q # EndPos /\ ~Present(q)
    BY <1>3, <2>1 DEF Ended, EndPos
  <2>3. PICK m \in 0..(Positions - 1) : m = b /\ PosOf(m) = q
    BY <1>5, <1>6, <2>2
  <2>4. q # Origin
    BY <1>4, <1>6, Ends
  <2>5. f[m + 1] = f[m]
    BY <2>2, <2>3, <2>4, FoldShape
  <2>6. Here' = Num(q) + 1
    BY <1>3, <1>9 DEF Here
  <2>7. \A n \in 0..b : n \in 0..(a - 1) \/ n \in a..(b - 1) \/ n = m
    BY <1>4, <1>6, <2>3, Sizes
  <2> QED BY <1>4, <1>6, <1>7, <1>8, <2>2, <2>3, <2>5, <2>6, <2>7
<1>10. CASE ~moving'
  <2>1. Here' = Num(q)
    BY <1>3, <1>10 DEF Here
  <2>2. \A n \in 0..(b - 1) : n \in 0..(a - 1) \/ n \in a..(b - 1)
    BY <1>4, <1>6, Sizes
  <2> QED BY <1>4, <1>6, <1>7, <1>8, <2>1, <2>2
<1> QED BY <1>9, <1>10

-----------------------------------------------------------------------------
(* Serial cards: the invariant *)

\* What scan_pci_uarts() prints for a sequence of cards
Offered(c) ==
  UNION { { [card |-> i - 1, port |-> p, base |-> GetBase(c[i], p)] : p \in 0..(c[i].ports - 1) } :
          i \in DOMAIN c }

LEMMA OfferedGrows ==
  ASSUME NEW S, NEW c \in Seq(S), NEW x \in S
  PROVE  Offered(Append(c, x)) =
           Offered(c) \cup { [card |-> Len(c), port |-> p, base |-> GetBase(x, p)] : p \in 0..(x.ports - 1) }
<1> DEFINE d == Append(c, x)
           Of(e, i) == { [card |-> i - 1, port |-> p, base |-> GetBase(e[i], p)] : p \in 0..(e[i].ports - 1) }
           New == { [card |-> Len(c), port |-> p, base |-> GetBase(x, p)] : p \in 0..(x.ports - 1) }
<1>1. /\ Len(c) \in Nat /\ DOMAIN c = 1..Len(c) /\ DOMAIN d = 1..(Len(c) + 1)
      /\ d[Len(c) + 1] = x /\ \A i \in 1..Len(c) : d[i] = c[i]
  OBVIOUS
<1> HIDE DEF d
<1>2. Of(d, Len(c) + 1) = New
  <2>1. (Len(c) + 1) - 1 = Len(c)
    BY <1>1
  <2> QED BY <1>1, <2>1, Zenon
<1>3. \A i \in 1..Len(c) : Of(d, i) = Of(c, i)
  BY <1>1, Zenon
<1> HIDE DEF Of, New
<1>4. \A i : i \in DOMAIN d <=> i \in DOMAIN c \/ i = Len(c) + 1
  BY <1>1
<1>5. \A e, y : y \in Offered(e) <=> \E i \in DOMAIN e : y \in Of(e, i)
  BY Zenon DEF Offered, Of
<1>6. \A y : y \in Offered(d) <=> y \in Offered(c) \/ y \in New
  <2>1. ASSUME NEW y, NEW i \in DOMAIN d, y \in Of(d, i)
        PROVE  y \in New \/ \E j \in DOMAIN c : y \in Of(c, j)
    <3>1. CASE i = Len(c) + 1
      BY <1>2, <2>1, <3>1
    <3>2. CASE i \in DOMAIN c
      <4>1. Of(d, i) = Of(c, i)
        BY <1>1, <1>3, <3>2
      <4> QED BY <2>1, <3>2, <4>1
    <3> QED BY <1>4, <3>1, <3>2
  <2>2. ASSUME NEW y, NEW i \in DOMAIN c, y \in Of(c, i)
        PROVE  i \in DOMAIN d /\ y \in Of(d, i)
    <3>1. Of(d, i) = Of(c, i)
      BY <1>1, <1>3
    <3> QED BY <1>4, <2>2, <3>1
  <2>3. \A y \in New : Len(c) + 1 \in DOMAIN d /\ y \in Of(d, Len(c) + 1)
    BY <1>2, <1>4
  <2> QED BY <1>5, <2>1, <2>2, <2>3, Zenon
<1>7. Offered(d) = Offered(c) \cup New
  BY <1>6, Zenon
<1> QED BY <1>7 DEF d, New

\* No port is in use before init_uart().
UartDown ==
  /\ "state" \in DOMAIN uart
  /\ phase \in {"uart", "search", "probe", "init"} => uart.state # "up"

Untouched == phase = "uart" => board = NewBoard /\ card = 0 /\ printed = {}

\* The board and the number of the card are those of the functions before the
\* iterator, which stops at functions that are there and at the first one.
LookedAt(f) ==
  phase \in {"search", "probe"} =>
    /\ board = f[Here].board /\ card = Len(f[Here].cards)
    /\ moving \/ Ended(it) \/ Present(it) \/ it = Origin
    /\ phase = "search" => card <= setup.card
    /\ phase = "probe" => printed = Offered(f[Here].cards)

\* The ports of the whole bus, and the one that is chosen
Chosen(f) == setup.arg = "pci" /\ setup.card < Len(f[Positions].cards)

Outcome(f) ==
  /\ phase = "scanned" => printed = Offered(f[Positions].cards)
  /\ phase = "init" /\ Chosen(f) => board = f[Positions].cards[setup.card + 1]
  /\ uart.state = "up" /\ Chosen(f) => uart.base = GetBase(f[Positions].cards[setup.card + 1], setup.port)

\* The inductive strengthening of PortsAgree.
PortsInv == \E f : IsFold(f) /\ UartDown /\ Untouched /\ LookedAt(f) /\ Outcome(f)

\* Steps elsewhere in the machine, and of other loops.
LEMMA PortsKept ==
  ASSUME PortsInv, UNCHANGED <<setup, phase, board, card, printed, uart>>, DOMAIN fns' = DOMAIN fns,
         phase \in {"search", "probe"} => UNCHANGED <<it, moving>>
  PROVE  PortsInv'
<1>1. PICK f : IsFold(f) /\ UartDown /\ Untouched /\ LookedAt(f) /\ Outcome(f)
  BY DEF PortsInv
<1>2. IsFold(f)' /\ \A p : Present(p)' <=> Present(p)
  BY <1>1, FoldKept
<1>3. UartDown' /\ Untouched' /\ Outcome(f)'
  BY <1>1 DEF UartDown, Untouched, Outcome, Chosen
<1>4. LookedAt(f)'
  <2> SUFFICES ASSUME phase \in {"search", "probe"} PROVE LookedAt(f)'
    BY DEF LookedAt
  <2>1. it' = it /\ moving' = moving /\ Here' = Here
    BY DEF Here
  <2>2. Present(it)' <=> Present(it)
    BY <1>2, <2>1
  <2> QED BY <1>1, <2>1, <2>2 DEF LookedAt, Ended
<1> QED BY <1>2, <1>3, <1>4 DEF PortsInv

LEMMA PortsLeft ==
  ASSUME PortsInv, UNCHANGED <<setup, uart>>, DOMAIN fns' = DOMAIN fns,
         phase' \notin {"uart", "search", "probe", "init", "scanned"}
  PROVE  PortsInv'
<1>1. PICK f : IsFold(f) /\ UartDown /\ Outcome(f)
  BY DEF PortsInv
<1>2. IsFold(f)'
  BY <1>1, FoldKept
<1>3. UartDown' /\ Untouched' /\ LookedAt(f)' /\ Outcome(f)'
  BY <1>1 DEF UartDown, Untouched, LookedAt, Outcome, Chosen
<1> QED BY <1>2, <1>3 DEF PortsInv

\* A function the loops visit, and what becomes of board and card.
LEMMA VisitStep ==
  ASSUME BusType, ~moving, ~Ended(it), NEW f, IsFold(f),
         Present(it) \/ it = Origin, board = f[Here].board, card = Len(f[Here].cards)
  PROVE  LET n == Num(it)
             t == Try(it)
         IN /\ n \in 0..(Positions - 1) /\ n = Here /\ n + 1 \in 0..Positions
            /\ f[n + 1].board = t.board
            /\ f[n + 1].cards = IF t.ok THEN Append(f[n].cards, t.board) ELSE f[n].cards
            /\ f[n].cards \in Seq(Boards(f)) /\ t.board \in Boards(f)
            /\ Len(f[n + 1].cards) = IF t.ok THEN card + 1 ELSE card
<1>1. PICK n \in 0..(Positions - 1) : n = Num(it) /\ PosOf(n) = it /\ n = Here
  BY HereType DEF Here
<1>2. n + 1 \in 0..Positions /\ n \in 0..Positions
  BY Sizes
<1>3. TryOn(f[n].board, PosOf(n)) = Try(it)
  BY <1>1 DEF Try
<1>4. /\ f[n + 1].board = Try(it).board
      /\ f[n + 1].cards = IF Try(it).ok THEN Append(f[n].cards, Try(it).board) ELSE f[n].cards
  BY <1>1, <1>3, FoldShape
<1>5. f[n].cards \in Seq(Boards(f)) /\ f[n + 1].board \in Boards(f)
  BY <1>2, FoldType DEF Boards
<1>6. Len(f[n + 1].cards) = IF Try(it).ok THEN card + 1 ELSE card
  <2> DEFINE S == Boards(f)
  <2> HIDE DEF S
  <2>1. PICK c \in Seq(S), x \in S : c = f[n].cards /\ x = Try(it).board
    BY <1>4, <1>5 DEF S
  <2>2. Len(Append(c, x)) = Len(c) + 1
    OBVIOUS
  <2>3. card = Len(c)
    BY <1>1, <2>1
  <2> QED BY <1>4, <2>1, <2>2, <2>3
<1> QED BY <1>1, <1>2, <1>4, <1>5, <1>6

\* operator ++ in the two loops.
LEMMA PortsAdvance ==
  ASSUME BusType, BusType', PortsInv, Advance
  PROVE  PortsInv'
<1>1. PICK f : IsFold(f) /\ UartDown /\ Untouched /\ LookedAt(f) /\ Outcome(f)
  BY DEF PortsInv
<1>2. UNCHANGED <<setup, fns, phase, board, card, printed, uart>> /\ moving
  BY DEF Advance
<1>3. moving' = ~(Ended(it') \/ Present(it'))
  BY Zenon DEF Advance
<1>4. f[Here'] = f[Here]
  BY <1>1, AdvanceSkips
<1>5. IsFold(f)' /\ UartDown' /\ Untouched' /\ Outcome(f)'
  BY <1>1, <1>2, FoldKept DEF UartDown, Untouched, Outcome, Chosen
<1>6. moving' \/ Ended(it') \/ Present(it)'
  <2>1. Present(it)' <=> Present(it')
    BY <1>2 DEF Present
  <2> QED BY <1>3, <2>1, Zenon
<1>7. LookedAt(f)'
  BY <1>1, <1>2, <1>4, <1>6 DEF LookedAt, Ended
<1> QED BY <1>5, <1>7 DEF PortsInv

\* The beginning, where the loops have seen nothing.
LEMMA PortsSetup ==
  ASSUME BusType, BusType', PortsInv, SetupUart
  PROVE  PortsInv'
<1>1. PICK f : IsFold(f) /\ UartDown /\ Untouched /\ LookedAt(f) /\ Outcome(f)
  BY DEF PortsInv
<1>2. /\ UNCHANGED <<setup, fns, card, printed, uart>> /\ phase = "uart"
      /\ uart.state # "up" /\ board = NewBoard /\ card = 0 /\ printed = {}
  BY <1>1 DEF SetupUart, Visiting, UartDown, Untouched
<1>3. setup.arg \in {"none", "noserial", "com", "pci", "probe"} /\ setup.card \in Nat
  BY PciAssumption DEF BusType
<1>4. \/ setup.arg \in {"none", "com"} /\ phase' = "init"
      \/ phase' = "masters"
      \/ phase' \in {"search", "probe"} /\ it' = Origin /\ moving' = FALSE /\ board' = board
  BY <1>3 DEF SetupUart, Enter
<1>5. IsFold(f)' /\ UartDown' /\ Untouched' /\ Outcome(f)'
  BY <1>1, <1>2, <1>4, FoldKept DEF UartDown, Untouched, Outcome, Chosen
<1>6. LookedAt(f)'
  <2> SUFFICES ASSUME phase' \in {"search", "probe"} PROVE LookedAt(f)'
    BY DEF LookedAt
  <2>1. it' = Origin /\ moving' = FALSE /\ board' = NewBoard /\ card' = 0 /\ printed' = {}
    BY <1>2, <1>4
  <2>2. Here' = 0
    BY <2>1, Ends DEF Here
  <2>3. f[0].board = NewBoard /\ f[0].cards = <<>>
    BY <1>1, FoldStep
  <2>4. Offered(<<>>) = {}
    <3>1. DOMAIN <<>> = {}
      OBVIOUS
    <3> QED BY <3>1 DEF Offered
  <2> QED BY <1>2, <1>3, <2>1, <2>2, <2>3, <2>4 DEF LookedAt
<1> QED BY <1>5, <1>6 DEF PortsInv

\* The search for the card that is asked for.
LEMMA PortsSearch ==
  ASSUME BusType, BusType', PortsInv, Search
  PROVE  PortsInv'
<1>1. PICK f : IsFold(f) /\ UartDown /\ Untouched /\ LookedAt(f) /\ Outcome(f)
  BY DEF PortsInv
<1>2. /\ UNCHANGED <<setup, it, printed, uart>> /\ phase = "search" /\ ~moving /\ ~Ended(it)
      /\ uart.state # "up"
  BY <1>1 DEF Search, Visiting, UartDown
<1>3. /\ board = f[Here].board /\ card = Len(f[Here].cards) /\ card <= setup.card
      /\ Present(it) \/ it = Origin
  BY <1>1, <1>2 DEF LookedAt
<1>4. PICK n \in 0..(Positions - 1) :
        /\ n = Num(it) /\ n = Here /\ n + 1 \in 0..Positions
        /\ f[n + 1].board = Try(it).board
        /\ f[n + 1].cards = IF Try(it).ok THEN Append(f[n].cards, Try(it).board) ELSE f[n].cards
        /\ f[n].cards \in Seq(Boards(f)) /\ Try(it).board \in Boards(f)
        /\ Len(f[n + 1].cards) = IF Try(it).ok THEN card + 1 ELSE card
  BY <1>1, <1>2, <1>3, VisitStep
<1>5. IsFold(f)'
  <2>1. DOMAIN fns' = DOMAIN fns
    BY <1>2 DEF BusType
  <2> QED BY <1>1, <1>2, <2>1, FoldKept
<1>6. setup.card \in Nat /\ card \in Nat
  <2>1. Len(f[n].cards) \in Nat
    BY <1>4
  <2> QED BY <1>3, <1>4, <2>1, PciAssumption DEF BusType
<1>7. CASE moving' = TRUE /\ phase' = phase
  <2>1. board' = f[n + 1].board /\ card' = Len(f[n + 1].cards) /\ card' <= setup.card
    <3>1. CASE ~Try(it).ok
      BY <1>3, <1>4, <3>1 DEF Search
    <3>2. CASE Try(it).ok
      <4>1. board' = Try(it).board /\ card' = card + 1 /\ card # setup.card
        BY <1>2, <1>7, <3>2 DEF Search
      <4> QED BY <1>3, <1>4, <1>6, <3>2, <4>1
    <3> QED BY <3>1, <3>2
  <2>2. Here' = n + 1
    BY <1>2, <1>4, <1>7 DEF Here
  <2>3. LookedAt(f)'
    BY <1>2, <1>7, <2>1, <2>2 DEF LookedAt
  <2> QED BY <1>2, <1>1, <1>5, <1>7, <2>3 DEF PortsInv, UartDown, Untouched, Outcome
<1>8. CASE phase' = "init" /\ Try(it).ok /\ card = setup.card /\ board' = Try(it).board
  <2>1. Chosen(f)' => board' = f[Positions].cards[setup.card + 1]
    <3> DEFINE S == Boards(f)
    <3> HIDE DEF S
    <3>1. PICK c \in Seq(S), x \in S : c = f[n].cards /\ x = Try(it).board
      BY <1>4 DEF S
    <3>2. f[n + 1].cards = Append(c, x) /\ Len(c) = setup.card
      BY <1>3, <1>4, <1>8, <3>1
    <3>3. Append(c, x)[Len(c) + 1] = x /\ Len(c) + 1 \in 1..Len(Append(c, x))
      OBVIOUS
    <3>4. f[Positions].cards[Len(c) + 1] = Append(c, x)[Len(c) + 1]
      <4>1. Positions \in (n + 1)..Positions
        BY <1>4, Sizes
      <4>2. \A i \in 1..Len(f[n + 1].cards) : f[Positions].cards[i] = f[n + 1].cards[i]
        BY <1>1, <1>4, <4>1, CardsGrow
      <4> QED BY <3>2, <3>3, <4>2
    <3> QED BY <1>8, <3>1, <3>2, <3>3, <3>4
  <2> QED BY <1>1, <1>2, <1>5, <1>8, <2>1 DEF PortsInv, UartDown, Untouched, LookedAt, Outcome
<1>9. \/ moving' = TRUE /\ phase' = phase
      \/ phase' = "init" /\ Try(it).ok /\ card = setup.card /\ board' = Try(it).board
  BY <1>2 DEF Search
<1> QED BY <1>7, <1>8, <1>9

\* The end of the bus: the card does not exist.
LEMMA PortsSearchEnds ==
  ASSUME BusType, BusType', PortsInv, SearchEnds
  PROVE  PortsInv'
<1>1. PICK f : IsFold(f) /\ UartDown /\ Untouched /\ LookedAt(f) /\ Outcome(f)
  BY DEF PortsInv
<1>2. /\ UNCHANGED <<setup, fns, uart>> /\ phase = "search" /\ ~moving /\ Ended(it) /\ phase' = "init"
      /\ uart.state # "up"
  BY <1>1 DEF SearchEnds, Visiting, UartDown
<1>3. Len(f[Positions].cards) <= setup.card
  BY <1>1, <1>2, HereType DEF LookedAt
<1>4. ~Chosen(f)'
  <2>1. f[Positions].cards \in Seq(Boards(f))
    BY <1>1, FoldType, Sizes
  <2>2. Len(f[Positions].cards) \in Nat /\ setup.card \in Nat
    BY <2>1, PciAssumption DEF BusType
  <2> QED BY <1>2, <1>3, <2>2 DEF Chosen
<1>5. IsFold(f)'
  BY <1>1, <1>2, FoldKept
<1> QED BY <1>1, <1>2, <1>4, <1>5 DEF PortsInv, UartDown, Untouched, LookedAt, Outcome

\* The offer of the ports of a card.
LEMMA PortsScan ==
  ASSUME BusType, BusType', PortsInv, Scan
  PROVE  PortsInv'
<1>1. PICK f : IsFold(f) /\ UartDown /\ Untouched /\ LookedAt(f) /\ Outcome(f)
  BY DEF PortsInv
<1>2. /\ UNCHANGED <<setup, it, phase, uart>> /\ phase = "probe" /\ ~moving /\ ~Ended(it)
      /\ moving' = TRUE /\ board' = Try(it).board
  BY DEF Scan, Visiting
<1>3. /\ board = f[Here].board /\ card = Len(f[Here].cards) /\ printed = Offered(f[Here].cards)
      /\ Present(it) \/ it = Origin
  BY <1>1, <1>2 DEF LookedAt
<1>4. PICK n \in 0..(Positions - 1) :
        /\ n = Num(it) /\ n = Here /\ n + 1 \in 0..Positions
        /\ f[n + 1].board = Try(it).board
        /\ f[n + 1].cards = IF Try(it).ok THEN Append(f[n].cards, Try(it).board) ELSE f[n].cards
        /\ f[n].cards \in Seq(Boards(f)) /\ Try(it).board \in Boards(f)
        /\ Len(f[n + 1].cards) = IF Try(it).ok THEN card + 1 ELSE card
  BY <1>1, <1>2, <1>3, VisitStep
<1>5. IsFold(f)'
  <2>1. DOMAIN fns' = DOMAIN fns
    BY <1>2 DEF BusType
  <2> QED BY <1>1, <1>2, <2>1, FoldKept
<1>6. card' = Len(f[n + 1].cards) /\ printed' = Offered(f[n + 1].cards)
  <2>1. CASE ~Try(it).ok
    <3>1. UNCHANGED <<card, printed>>
      BY <2>1 DEF Scan
    <3> QED BY <1>3, <1>4, <2>1, <3>1
  <2>2. CASE Try(it).ok
    <3> DEFINE S == Boards(f)
               x == Try(it).board
    <3>1. /\ card' = card + 1
          /\ printed' = printed \cup { [card |-> card, port |-> p, base |-> GetBase(x, p)] : p \in 0..(x.ports - 1) }
      BY <2>2, Zenon DEF Scan
    <3> HIDE DEF S, x
    <3>2. PICK c \in Seq(S) : c = f[n].cards /\ x \in S /\ f[n + 1].cards = Append(c, x)
      BY <1>4, <2>2 DEF S, x
    <3>3. Offered(Append(c, x)) =
            Offered(c) \cup { [card |-> Len(c), port |-> p, base |-> GetBase(x, p)] : p \in 0..(x.ports - 1) }
      BY <3>2, OfferedGrows
    <3>4. card = Len(c) /\ printed = Offered(c)
      BY <1>3, <1>4, <3>2
    <3>5. printed' = Offered(Append(c, x))
      BY <3>1, <3>3, <3>4
    <3> QED BY <1>4, <2>2, <3>1, <3>2, <3>5
  <2> QED BY <2>1, <2>2
<1>7. Here' = n + 1
  BY <1>2, <1>4 DEF Here
<1>8. LookedAt(f)'
  BY <1>2, <1>4, <1>6, <1>7 DEF LookedAt
<1> QED BY <1>1, <1>2, <1>5, <1>8 DEF PortsInv, UartDown, Untouched, Outcome, Chosen

\* The end of scan_pci_uarts(), and init_uart().
LEMMA PortsEnds ==
  ASSUME BusType, BusType', PortsInv, ScanEnds \/ InitUart
  PROVE  PortsInv'
<1>1. PICK f : IsFold(f) /\ UartDown /\ Untouched /\ LookedAt(f) /\ Outcome(f)
  BY DEF PortsInv
<1>2. UNCHANGED <<setup, fns, printed, board>>
  BY DEF ScanEnds, InitUart
<1>3. IsFold(f)'
  BY <1>1, <1>2, FoldKept
<1>4. CASE ScanEnds
  <2>1. phase = "probe" /\ ~moving /\ Ended(it) /\ phase' = "scanned" /\ uart' = uart
    BY <1>4 DEF ScanEnds, Visiting
  <2>2. printed = Offered(f[Positions].cards)
    BY <1>1, <2>1, HereType DEF LookedAt
  <2> QED BY <1>1, <1>2, <1>3, <2>1, <2>2 DEF PortsInv, UartDown, Untouched, LookedAt, Outcome, Chosen
<1>5. CASE InitUart
  <2>1. /\ phase = "init" /\ phase' \in {"crashed", "masters"} /\ "state" \in DOMAIN uart /\ uart.state # "up"
        /\ \/ uart' = uart
           \/ uart' = [state |-> "up", base |-> GetBase(board, setup.port)]
           \/ uart' = [uart EXCEPT !.state = "noserial"]
    BY <1>1, <1>5 DEF InitUart, Visiting, Enter, UartDown
  <2>2. UartDown' /\ Untouched' /\ LookedAt(f)'
    BY <2>1 DEF UartDown, Untouched, LookedAt
  <2>3. Outcome(f)'
    <3>1. uart'.state = "up" => uart'.base = GetBase(board, setup.port)
      BY <2>1
    <3>2. Chosen(f)' => board = f[Positions].cards[setup.card + 1]
      BY <1>1, <1>2, <2>1 DEF Outcome, Chosen
    <3> QED BY <1>2, <2>1, <3>1, <3>2 DEF Outcome
  <2> QED BY <1>3, <2>2, <2>3 DEF PortsInv
<1> QED BY <1>4, <1>5

\* Every step of the boot loader and of the BIOS.
LEMMA PortsInvariant == Spec => []PortsInv
<1>1. Init => PortsInv
  <2> SUFFICES ASSUME Init PROVE PortsInv
    OBVIOUS
  <2>1. PICK f : IsFold(f)
    BY FoldExists
  <2>2. phase = "uart" /\ board = NewBoard /\ card = 0 /\ printed = {} /\ uart = [state |-> "none", base |-> 0]
    BY DEF Init, PInit
  <2> QED BY <2>1, <2>2 DEF PortsInv, UartDown, Untouched, LookedAt, Outcome
<1>2. BusInv /\ BusInv' /\ PortsInv /\ [Next]_vars => PortsInv'
  <2> SUFFICES ASSUME BusInv, BusInv', PortsInv, [Next]_vars
               PROVE  PortsInv'
    OBVIOUS
  <2>1. BusType /\ BusType'
    BY DEF BusInv
  <2>2. CASE UNCHANGED <<setup, fns, it, moving, phase, board, card, printed, uart>>
    BY <2>2, PortsKept
  <2>3. CASE Bus
    <3>1. CASE Advance
      BY <2>1, <3>1, PortsAdvance
    <3>2. CASE SetupUart \/ Search \/ SearchEnds \/ Scan \/ ScanEnds \/ InitUart
      BY <2>1, <3>2, PortsSetup, PortsSearch, PortsSearchEnds, PortsScan, PortsEnds
    <3>3. CASE ScanCrashes \/ Masters \/ HandoffBegins \/ Ask \/ WaitBios \/ ForceOwnership \/ DisableSmi \/ Release
      <4>1. UNCHANGED <<setup, uart>>
        BY <3>3 DEF ScanCrashes, Masters, HandoffBegins, Ask, WaitBios, ForceOwnership, DisableSmi, Release
      <4>2. phase' \notin {"uart", "search", "probe", "init", "scanned"}
        BY <3>3 DEF ScanCrashes, Masters, HandoffBegins, Ask, WaitBios, ForceOwnership, DisableSmi, Release, Visiting, Enter
      <4>3. DOMAIN fns' = DOMAIN fns
        BY <2>1, <4>1 DEF BusType
      <4> QED BY <4>1, <4>2, <4>3, PortsLeft
    <3> QED BY <2>3, <3>1, <3>2, <3>3 DEF Bus, PciStep
  <2>4. CASE BusQuirk
    <3>1. UNCHANGED <<setup, uart>> /\ phase' \in {"boot", "quirks", "caps"}
      BY <2>4 DEF BusQuirk, Quirk, Visiting
    <3>2. DOMAIN fns' = DOMAIN fns
      BY <2>1, <3>1 DEF BusType
    <3> QED BY <3>1, <3>2, PortsLeft
  <2>5. CASE Stub \/ StubMaps \/ StubAsserts \/ StubMapped \/ EnterLong \/ Map
    BY <2>2, <2>5 DEF Stub, StubMaps, StubAsserts, StubMapped, EnterLong, Map, pvars
  <2>6. CASE Bios
    BY <2>2, <2>6 DEF Bios, BiosReleases
  <2>7. CASE UNCHANGED vars
    BY <2>2, <2>7 DEF vars, pvars
  <2> QED BY <2>3, <2>4, <2>5, <2>6, <2>7 DEF Next, BootLoader, Halted
<1> QED BY <1>1, <1>2, BusInvariant, PTL DEF Spec

\* PortsAgree holds for every machine, bus and command line: the numbers
\* scan_pci_uarts() prints for -comport=pci:probe are those search_pci_serial_devs()
\* counts for -comport=pci:c:p, no card is left out or counted twice by operator ++,
\* and the port in use is the one that was offered.
THEOREM PortsAlwaysAgree == Spec => []PortsAgree
<1>1. PortsInv => PortsAgree
  <2> SUFFICES ASSUME PortsInv PROVE PortsAgree
    OBVIOUS
  <2>1. PICK f : IsFold(f) /\ Outcome(f)
    BY DEF PortsInv
  <2>2. Cards = f[Positions].cards
    BY <2>1, FoldExists, FoldUnique
  <2>3. Outcome(f) <=>
          /\ phase = "scanned" => printed = Offered(Cards)
          /\ phase = "init" /\ Chosen(f) => board = Cards[setup.card + 1]
          /\ uart.state = "up" /\ Chosen(f) => uart.base = GetBase(Cards[setup.card + 1], setup.port)
    BY <2>2 DEF Outcome
  <2>4. Chosen(f) <=> setup.arg = "pci" /\ setup.card < Len(Cards)
    BY <2>2 DEF Chosen
  <2> QED BY <2>1, <2>3, <2>4, Zenon DEF PortsAgree, Offered
<1> QED BY <1>1, PortsInvariant, PTL

-----------------------------------------------------------------------------
(* Serial cards: the BARs that are enabled *)

\* The function with number n is a card, and what its driver uses is enabled.
Accepted(f, n) == Present(PosOf(n)) /\ TryOn(f[n].board, PosOf(n)).ok
Opened(f, n) ==
  /\ TryOn(f[n].board, PosOf(n)).enable = "io" => fns[PosOf(n)].io
  /\ TryOn(f[n].board, PosOf(n)).enable = "mem" => fns[PosOf(n)].mem

\* Every card up to the one that is asked for is enabled, and stays so.
OpenTo(f) ==
  /\ \A p \in DOMAIN fns : {"io", "mem"} \subseteq DOMAIN fns[p]
  /\ phase = "search" => \A n \in 0..(Here - 1) : Accepted(f, n) => Opened(f, n)
  /\ setup.arg = "pci" /\ (phase = "init" \/ uart.state = "up") =>
       \A n \in 0..(Positions - 1) : Accepted(f, n) /\ Len(f[n].cards) <= setup.card => Opened(f, n)

OpenInv == \A f : IsFold(f) => OpenTo(f)

\* No access is disabled.
NoneClosed ==
  \A p \in DOMAIN fns :
    /\ {"io", "mem"} \subseteq DOMAIN fns'[p]
    /\ fns[p].io => fns'[p].io
    /\ fns[p].mem => fns'[p].mem

LEMMA MasterOffClosesNone ==
  ASSUME OpenInv, fns' = fns \/ fns' = MasterOff(it)
  PROVE  NoneClosed
<1>1. \A p \in DOMAIN fns : {"io", "mem"} \subseteq DOMAIN fns[p]
  BY FoldExists DEF OpenInv, OpenTo
<1>2. CASE Present(it) /\ fns' = MasterOff(it)
  <2>1. it \in DOMAIN fns /\ fns' = [fns EXCEPT ![it].master = FALSE]
    BY <1>2 DEF Present, MasterOff
  <2> QED BY <1>1, <2>1 DEF NoneClosed
<1>3. CASE fns' = fns
  BY <1>1, <1>3 DEF NoneClosed
<1> QED BY <1>2, <1>3 DEF MasterOff

LEMMA EnabledOpens ==
  ASSUME OpenInv, NEW what, fns' = Enabled(it, what)
  PROVE  /\ NoneClosed
         /\ Present(it) => (what = "io" => fns'[it].io) /\ (what = "mem" => fns'[it].mem)
<1>1. \A p \in DOMAIN fns : {"io", "mem"} \subseteq DOMAIN fns[p]
  BY FoldExists DEF OpenInv, OpenTo
<1>2. CASE Present(it)
  <2>1. it \in DOMAIN fns
    BY <1>2 DEF Present
  <2> DEFINE io == fns[it].io \/ what = "io"
             mem == fns[it].mem \/ what = "mem"
  <2>2. fns' = [fns EXCEPT ![it].io = io, ![it].mem = mem]
    BY <1>1, <1>2, <2>1, Zenon DEF Enabled
  <2>3. (fns[it].mem \/ what = "mem" => mem) /\ (fns[it].io \/ what = "io" => io)
    OBVIOUS
  <2> HIDE DEF io, mem
  <2>4. /\ \A p \in DOMAIN fns : p # it => fns'[p] = fns[p]
        /\ DOMAIN fns'[it] = DOMAIN fns[it]
        /\ fns'[it].io = io
        /\ fns'[it].mem = mem
    BY <1>1, <2>1, <2>2, ZenonT(30)
  <2>5. /\ {"io", "mem"} \subseteq DOMAIN fns'[it]
        /\ fns[it].io \/ what = "io" => fns'[it].io
        /\ fns[it].mem \/ what = "mem" => fns'[it].mem
    BY <1>1, <2>1, <2>3, <2>4
  <2> QED BY <1>1, <2>4, <2>5 DEF NoneClosed
<1>3. CASE ~Present(it)
  BY <1>1, <1>3 DEF Enabled, NoneClosed
<1> QED BY <1>2, <1>3

\* So a card that is enabled stays enabled.
LEMMA StaysOpen ==
  ASSUME setup' = setup, DOMAIN fns' = DOMAIN fns, NoneClosed, NEW f, NEW n
  PROVE  /\ Accepted(f, n)' <=> Accepted(f, n)
         /\ Accepted(f, n) /\ Opened(f, n) => Opened(f, n)'
<1>1. Accepted(f, n)' <=> Accepted(f, n)
  <2>1. Present(PosOf(n))' <=> Present(PosOf(n))
    BY FoldKept
  <2>2. TryOn(f[n].board, PosOf(n))' = TryOn(f[n].board, PosOf(n))
    BY FoldKept
  <2> QED BY <2>1, <2>2 DEF Accepted
<1>2. ASSUME Accepted(f, n), Opened(f, n) PROVE Opened(f, n)'
  <2>1. PosOf(n) \in DOMAIN fns
    BY <1>2 DEF Accepted, Present
  <2>2. TryOn(f[n].board, PosOf(n))' = TryOn(f[n].board, PosOf(n))
    BY FoldKept
  <2> QED BY <1>2, <2>1, <2>2 DEF Opened, NoneClosed
<1> QED BY <1>1, <1>2

\* Steps outside of search_pci_serial_devs().
LEMMA OpenKept ==
  ASSUME OpenInv, setup' = setup, DOMAIN fns' = DOMAIN fns, NoneClosed,
         phase' = "search" => phase = "search" /\ UNCHANGED <<it, moving>>,
         setup.arg = "pci" /\ (phase' = "init" \/ uart'.state = "up") => phase = "init" \/ uart.state = "up"
  PROVE  OpenInv'
<1> SUFFICES ASSUME NEW f, IsFold(f)' PROVE OpenTo(f)'
  BY DEF OpenInv
<1>1. OpenTo(f)
  BY FoldKept DEF OpenInv
<1>2. \A n : (Accepted(f, n)' <=> Accepted(f, n)) /\ (Accepted(f, n) /\ Opened(f, n) => Opened(f, n)')
  BY StaysOpen
<1>3. phase' = "search" => Here' = Here
  BY DEF Here
<1>4. \A p \in DOMAIN fns' : {"io", "mem"} \subseteq DOMAIN fns'[p]
  BY DEF NoneClosed
<1>5. phase' = "search" => \A n \in 0..(Here' - 1) : Accepted(f, n)' => Opened(f, n)'
  BY <1>1, <1>2, <1>3 DEF OpenTo
<1>6. setup'.arg = "pci" /\ (phase' = "init" \/ uart'.state = "up") =>
        \A n \in 0..(Positions - 1) : Accepted(f, n)' /\ Len(f[n].cards) <= setup'.card => Opened(f, n)'
  BY <1>1, <1>2 DEF OpenTo
<1> QED BY <1>4, <1>5, <1>6 DEF OpenTo

\* operator ++ in that search.
LEMMA OpenAdvance ==
  ASSUME BusType, PortsInv, OpenInv, Advance
  PROVE  OpenInv'
<1>1. UNCHANGED <<setup, fns, phase, uart>>
  BY DEF Advance
<1>2. NoneClosed
  BY <1>1, MasterOffClosesNone
<1>3. CASE phase # "search"
  BY <1>1, <1>2, <1>3, OpenKept
<1>4. CASE phase = "search"
  <2> SUFFICES ASSUME NEW f, IsFold(f)' PROVE OpenTo(f)'
    BY DEF OpenInv
  <2>1. IsFold(f) /\ OpenTo(f)
    BY <1>1, FoldKept DEF OpenInv
  <2>2. \A n : (Accepted(f, n)' <=> Accepted(f, n)) /\ (Accepted(f, n) /\ Opened(f, n) => Opened(f, n)')
    BY <1>1, <1>2, StaysOpen
  <2>3. ASSUME NEW n \in 0..(Here' - 1), Accepted(f, n)' PROVE Opened(f, n)'
    <3>1. n \in 0..(Here - 1)
      BY <2>1, <2>2, <2>3, AdvanceSkips DEF Accepted
    <3> QED BY <1>4, <2>1, <2>2, <2>3, <3>1 DEF OpenTo
  <2>4. uart.state # "up"
    BY <1>4 DEF PortsInv, UartDown
  <2> QED BY <1>1, <1>4, <2>1, <2>3, <2>4 DEF OpenTo
<1> QED BY <1>3, <1>4

\* The search begins.
LEMMA OpenSetup ==
  ASSUME BusType, PortsInv, OpenInv, SetupUart
  PROVE  OpenInv'
<1>1. UNCHANGED <<setup, fns, uart>> /\ phase = "uart" /\ uart.state # "up"
  BY DEF SetupUart, Visiting, PortsInv, UartDown
<1>2. setup.arg \in {"none", "noserial", "com", "pci", "probe"}
  BY PciAssumption DEF BusType
<1>3. /\ setup.arg = "pci" => phase' = "search" /\ it' = Origin /\ moving' = FALSE
      /\ setup.arg # "pci" => phase' # "search"
  BY <1>2 DEF SetupUart, Enter
<1>4. NoneClosed
  BY <1>1, MasterOffClosesNone
<1>5. CASE setup.arg # "pci"
  BY <1>1, <1>3, <1>4, <1>5, OpenKept
<1>6. CASE setup.arg = "pci"
  <2> SUFFICES ASSUME NEW f, IsFold(f)' PROVE OpenTo(f)'
    BY DEF OpenInv
  <2>1. OpenTo(f)
    BY <1>1, FoldKept DEF OpenInv
  <2>2. Here' = 0
    BY <1>3, <1>6, Ends DEF Here
  <2>3. 0..(0 - 1) = {}
    OBVIOUS
  <2> QED BY <1>1, <1>3, <1>6, <2>1, <2>2, <2>3 DEF OpenTo
<1> QED BY <1>5, <1>6

\* It enables each card it finds, and ends with the one that is asked for.
LEMMA OpenSearch ==
  ASSUME BusType, BusType', PortsInv, OpenInv, Search
  PROVE  OpenInv'
<1>1. PICK f : IsFold(f) /\ UartDown /\ LookedAt(f)
  BY DEF PortsInv
<1>2. /\ UNCHANGED <<setup, it, uart>> /\ phase = "search" /\ ~moving /\ ~Ended(it)
      /\ uart.state # "up"
  BY <1>1 DEF Search, Visiting, UartDown
<1>3. /\ board = f[Here].board /\ card = Len(f[Here].cards) /\ card <= setup.card
      /\ Present(it) \/ it = Origin
  BY <1>1, <1>2 DEF LookedAt
<1>4. PICK n \in 0..(Positions - 1) :
        /\ n = Num(it) /\ n = Here /\ n + 1 \in 0..Positions
        /\ Len(f[n + 1].cards) = IF Try(it).ok THEN card + 1 ELSE card
        /\ f[n].cards \in Seq(Boards(f))
  BY <1>1, <1>2, <1>3, VisitStep
<1>5. PosOf(n) = it /\ TryOn(f[n].board, PosOf(n)) = Try(it)
  BY <1>2, <1>3, <1>4, HereType DEF Try
<1>6. DOMAIN fns' = DOMAIN fns
  BY <1>2 DEF BusType
<1>7. OpenTo(f)
  BY <1>1 DEF OpenInv
<1>8. /\ NoneClosed
      /\ Accepted(f, n) => (Try(it).enable = "io" => fns'[it].io) /\ (Try(it).enable = "mem" => fns'[it].mem)
  <2>1. CASE Try(it).ok
    <3>1. fns' = Enabled(it, Try(it).enable)
      BY <2>1 DEF Search
    <3> QED BY <1>5, <3>1, EnabledOpens DEF Accepted
  <2>2. CASE ~Try(it).ok
    <3>1. fns' = fns
      BY <2>2 DEF Search
    <3> QED BY <1>5, <2>2, <3>1, MasterOffClosesNone DEF Accepted
  <2> QED BY <2>1, <2>2
<1>9. \A m : (Accepted(f, m)' <=> Accepted(f, m)) /\ (Accepted(f, m) /\ Opened(f, m) => Opened(f, m)')
  BY <1>2, <1>6, <1>8, StaysOpen
<1>10. Accepted(f, n)' => Opened(f, n)'
  <2>1. TryOn(f[n].board, PosOf(n))' = Try(it)
    BY <1>2, <1>5, <1>6, FoldKept
  <2> QED BY <1>5, <1>8, <1>9, <2>1 DEF Opened
<1>11. \A m \in 0..n : Accepted(f, m)' => Opened(f, m)'
  <2>1. \A m \in 0..n : m = n \/ m \in 0..(Here - 1)
    BY <1>4
  <2> QED BY <1>2, <1>7, <1>9, <1>10, <2>1 DEF OpenTo
<1>12. CASE moving' = TRUE /\ phase' = phase
  <2>1. Here' = n + 1 /\ (n + 1) - 1 = n
    BY <1>2, <1>4, <1>12 DEF Here
  <2>2. OpenTo(f)'
    BY <1>2, <1>6, <1>8, <1>11, <1>12, <2>1 DEF OpenTo, NoneClosed
  <2> QED BY <1>1, <1>2, <1>6, <2>2, FoldKept, FoldUnique DEF OpenInv
<1>13. CASE phase' = "init" /\ Try(it).ok /\ card = setup.card
  <2>1. ASSUME NEW m \in 0..(Positions - 1), Len(f[m].cards) <= setup.card PROVE m \in 0..n
    <3> SUFFICES ASSUME m > n PROVE FALSE
      BY <1>4
    <3>1. n + 1 \in 0..Positions /\ m \in (n + 1)..Positions /\ m \in 0..Positions
      BY <1>4, Sizes
    <3>2. Len(f[n + 1].cards) <= Len(f[m].cards)
      BY <1>1, <3>1, CardsGrow
    <3>3. Len(f[n].cards) \in Nat /\ Len(f[m].cards) \in Nat
      <4>1. f[m].cards \in Seq(Boards(f))
        BY <1>1, <3>1, FoldType
      <4> QED BY <1>4, <4>1
    <3>4. card = Len(f[n].cards) /\ Len(f[n + 1].cards) = card + 1
      BY <1>3, <1>4, <1>13
    <3>5. PICK x \in Nat, y \in Nat : x = Len(f[n].cards) /\ y = Len(f[m].cards)
      BY <3>3
    <3>6. y <= x
      BY <1>13, <2>1, <3>4, <3>5
    <3>7. x + 1 <= y
      BY <3>2, <3>4, <3>5
    <3> QED BY <3>6, <3>7
  <2>2. OpenTo(f)'
    BY <1>2, <1>6, <1>8, <1>11, <1>13, <2>1 DEF OpenTo, NoneClosed
  <2> QED BY <1>1, <1>2, <1>6, <2>2, FoldKept, FoldUnique DEF OpenInv
<1>14. \/ moving' = TRUE /\ phase' = phase
       \/ phase' = "init" /\ Try(it).ok /\ card = setup.card
  BY <1>2 DEF Search
<1> QED BY <1>12, <1>13, <1>14

LEMMA OpenSearchEnds ==
  ASSUME BusType, PortsInv, OpenInv, SearchEnds
  PROVE  OpenInv'
<1>1. /\ UNCHANGED <<setup, fns, uart>> /\ phase = "search" /\ phase' = "init" /\ ~moving /\ Ended(it)
  BY DEF SearchEnds, Visiting
<1> SUFFICES ASSUME NEW f, IsFold(f)' PROVE OpenTo(f)'
  BY DEF OpenInv
<1>2. OpenTo(f) /\ Here = Positions
  BY <1>1, FoldKept, HereType DEF OpenInv
<1>3. NoneClosed
  BY <1>1, MasterOffClosesNone
<1>4. \A n : (Accepted(f, n)' <=> Accepted(f, n)) /\ (Accepted(f, n) /\ Opened(f, n) => Opened(f, n)')
  BY <1>1, <1>3, StaysOpen
<1> QED BY <1>1, <1>2, <1>4 DEF OpenTo

LEMMA OpenInvariant == Spec => []OpenInv
<1>1. Init => OpenInv
  <2> SUFFICES ASSUME Init, NEW f PROVE OpenTo(f)
    BY DEF OpenInv
  <2>1. phase = "uart" /\ uart.state # "up" /\ \A p \in DOMAIN fns : {"io", "mem"} \subseteq DOMAIN fns[p]
    BY DEF Init, PInit
  <2> QED BY <2>1 DEF OpenTo
<1>2. BusInv /\ BusInv' /\ PortsInv /\ OpenInv /\ [Next]_vars => OpenInv'
  <2> SUFFICES ASSUME BusInv, BusInv', PortsInv, OpenInv, [Next]_vars
               PROVE  OpenInv'
    OBVIOUS
  <2>1. BusType /\ BusType'
    BY DEF BusInv
  <2>2. CASE UNCHANGED <<setup, fns, it, moving, phase, uart>>
    BY <2>2, MasterOffClosesNone, OpenKept
  <2>3. CASE Bus
    <3>1. CASE Advance
      BY <2>1, <3>1, OpenAdvance
    <3>2. CASE SetupUart \/ Search \/ SearchEnds
      BY <2>1, <3>2, OpenSetup, OpenSearch, OpenSearchEnds
    <3>3. CASE Scan \/ ScanCrashes
      <4>1. UNCHANGED <<setup, uart>> /\ phase = "probe" /\ phase' \in {"probe", "crashed"}
        BY <3>3 DEF Scan, ScanCrashes, Visiting
      <4>2. NoneClosed
        <5>1. fns' = fns \/ \E what : fns' = Enabled(it, what)
          BY <3>3 DEF Scan, ScanCrashes
        <5> QED BY <5>1, MasterOffClosesNone, EnabledOpens
      <4>3. DOMAIN fns' = DOMAIN fns
        BY <2>1, <4>1 DEF BusType
      <4> QED BY <4>1, <4>2, <4>3, OpenKept
    <3>4. CASE ScanEnds \/ InitUart
      <4>1. UNCHANGED <<setup, fns>> /\ phase' \notin {"search", "init"} /\ (uart' = uart \/ phase = "init")
        BY <3>4 DEF ScanEnds, InitUart, Visiting, Enter
      <4> QED BY <4>1, MasterOffClosesNone, OpenKept
    <3>5. CASE Masters \/ HandoffBegins \/ Ask \/ WaitBios \/ ForceOwnership \/ DisableSmi \/ Release
      <4>1. UNCHANGED <<setup, uart>> /\ (fns' = fns \/ fns' = MasterOff(it))
        BY <3>5 DEF Masters, HandoffBegins, Ask, WaitBios, ForceOwnership, DisableSmi, Release
      <4>2. phase' \notin {"search", "init"}
        BY <3>5 DEF Masters, HandoffBegins, Ask, WaitBios, ForceOwnership, DisableSmi, Release, Visiting, Enter
      <4>3. DOMAIN fns' = DOMAIN fns
        BY <2>1, <4>1 DEF BusType
      <4> QED BY <4>1, <4>2, <4>3, MasterOffClosesNone, OpenKept
    <3> QED BY <2>3, <3>1, <3>2, <3>3, <3>4, <3>5 DEF Bus, PciStep
  <2>4. CASE BusQuirk
    <3>1. UNCHANGED <<setup, uart>> /\ phase' \in {"boot", "quirks", "caps"} /\ (fns' = fns \/ fns' = MasterOff(it))
      BY <2>4 DEF BusQuirk, Quirk, Visiting
    <3>2. DOMAIN fns' = DOMAIN fns
      BY <2>1, <3>1 DEF BusType
    <3> QED BY <3>1, <3>2, MasterOffClosesNone, OpenKept
  <2>5. CASE Stub \/ StubMaps \/ StubAsserts \/ StubMapped \/ EnterLong \/ Map
    BY <2>2, <2>5 DEF Stub, StubMaps, StubAsserts, StubMapped, EnterLong, Map, pvars
  <2>6. CASE Bios
    BY <2>2, <2>6 DEF Bios, BiosReleases
  <2>7. CASE UNCHANGED vars
    BY <2>2, <2>7 DEF vars, pvars
  <2> QED BY <2>3, <2>4, <2>5, <2>6, <2>7 DEF Next, BootLoader, Halted
<1> QED BY <1>1, <1>2, BusInvariant, PortsInvariant, PTL DEF Spec

-----------------------------------------------------------------------------
(* Serial cards: the BARs of the first one *)

\* A BAR as read_bars() decodes it lies within the BAR.
LEMMA DecodedWithin ==
  ASSUME NEW b \in Bar
  PROVE  /\ b.base \in Nat /\ b.len \in Nat
         /\ Decoded(b).type = b.type /\ Decoded(b).base \in Nat /\ Decoded(b).len \in Nat
         /\ Decoded(b).base >= b.base /\ Decoded(b).base + Decoded(b).len <= b.base + b.len
<1>1. /\ b \in [type : BarType, base : Nat, len : Nat, flags : {0, 4, 8, 12}]
      /\ b.flags # 0 => b.len >= 16
  BY DEF Bar
<1>2. b.base \in Nat /\ b.len \in Nat /\ b.flags \in {0, 4, 8, 12}
  BY <1>1
<1> DEFINE n == CASE b.flags \in {4, 12} -> 4 [] b.flags = 8 -> 8 [] OTHER -> b.len
<1>3. Decoded(b).type = b.type /\ Decoded(b).base = b.base + b.flags /\ Decoded(b).len = n
  BY <1>1 DEF Decoded
<1>4. n \in Nat /\ b.flags + n <= b.len
  BY <1>1, <1>2
<1> HIDE DEF n
<1> QED BY <1>2, <1>3, <1>4

OwnBars(d) == [i \in 0..(NumBars - 1) |-> IF d.bars[i].type = "none" THEN NoBar ELSE Decoded(d.bars[i])]

IsBoard(b) == {"bars", "ports"} \subseteq DOMAIN b

\* A card that meets a new board leaves its own BARs there.
LEMMA ReadsOwn ==
  ASSUME NEW d, NEW b, IsBoard(b), b.bars \in {NewBoard.bars, OwnBars(d)}
  PROVE  IsBoard(ReadBars(b, d)) /\ ReadBars(b, d).bars = OwnBars(d)
<1>1. DOMAIN b.bars = 0..(NumBars - 1) /\ \A i \in 0..(NumBars - 1) : b.bars[i] = NoBar \/ b.bars[i] = OwnBars(d)[i]
  BY DEF NewBoard, OwnBars
<1>2. [i \in DOMAIN b.bars |-> IF d.bars[i].type = "none" THEN b.bars[i] ELSE Decoded(d.bars[i])] = OwnBars(d)
  BY <1>1 DEF OwnBars
<1>3. ReadBars(b, d) = [b EXCEPT !.bars = OwnBars(d)]
  BY <1>2 DEF ReadBars
<1> QED BY <1>3 DEF IsBoard

LEMMA KeepsBars ==
  ASSUME NEW r, IsBoard(r), NEW x, NEW c, c = [r EXCEPT !.portOffset = 8, !.baseBar = x]
  PROVE  IsBoard(c) /\ c.bars = r.bars
BY DEF IsBoard

LEMMA PortsCount ==
  ASSUME NEW d, d.bars \in [0..(NumBars - 1) -> Bar], NEW b, b.bars = OwnBars(d)
  PROVE  PortsInBar(b) \in Nat
<1>1. \A i \in 0..(NumBars - 1) : OwnBars(d)[i].len \in Nat
  BY DecodedWithin DEF OwnBars, NoBar
<1>2. DOMAIN b.bars = 0..(NumBars - 1)
  BY DEF OwnBars
<1>3. BarOf(b).len \in Nat
  BY <1>1, <1>2 DEF BarOf, NoBar
<1> QED BY <1>3 DEF PortsInBar

\* What a driver that is offered a card leaves behind.
LeftBy(t, d) ==
  /\ t.ok \in BOOLEAN /\ IsBoard(t.board)
  /\ ~t.ok => t.board.bars \in {NewBoard.bars, OwnBars(d)}
  /\ t.ok => t.enable \in {"io", "mem"} /\ t.board.bars = OwnBars(d) /\ t.board.ports \in Nat

LEMMA DefaultOwn ==
  ASSUME NEW d, d.bars \in [0..(NumBars - 1) -> Bar],
         NEW b, IsBoard(b), b.bars \in {NewBoard.bars, OwnBars(d)}
  PROVE  LeftBy(SetupDefault(b, d), d)
<1>1. PICK r : r = ReadBars(b, d) /\ IsBoard(r) /\ r.bars = OwnBars(d)
  BY ReadsOwn
<1>2. PICK c : c = [r EXCEPT !.portOffset = 8, !.baseBar = FirstIoBar(r)]
  BY Zenon
<1>3. IsBoard(c) /\ c.bars = OwnBars(d)
  BY <1>1, <1>2, KeepsBars, Zenon
<1>4. PICK n \in Nat : n = PortsInBar(c)
  BY <1>3, PortsCount
<1>5. SetupDefault(b, d) = IF Cardinality(IoBars(r)) # 1 THEN Reject(r) ELSE Accept([c EXCEPT !.ports = n], "io")
  BY <1>1, <1>2, <1>4 DEF SetupDefault
<1> QED BY <1>1, <1>3, <1>5 DEF LeftBy, Accept, Reject, IsBoard

LEMMA DriverOwn ==
  ASSUME NEW d, d.bars \in [0..(NumBars - 1) -> Bar], d.ports \in Nat, NEW driver \in Drivers
  PROVE  LeftBy(SetupBy(driver, NewBoard, d), d)
<1>1. IsBoard(NewBoard)
  BY DEF IsBoard, NewBoard
<1>2. PICK r : r = ReadBars(NewBoard, d) /\ IsBoard(r) /\ r.bars = OwnBars(d)
  BY <1>1, ReadsOwn
<1>3. CASE driver = "default"
  BY <1>1, <1>3, DefaultOwn DEF SetupBy
<1>4. CASE driver = "oxsemi"
  <2>1. PICK o : o = [r EXCEPT !.ports = 2, !.portOffset = 512, !.baseBar = 0, !.offset = 4096]
    OBVIOUS
  <2>2. DOMAIN o = DOMAIN r
    BY <2>1
  <2>3. o.bars = r.bars /\ o.ports = 2
    BY <1>2, <2>1 DEF IsBoard
  <2>4. SetupBy(driver, NewBoard, d) = Accept(o, "mem")
    BY <1>2, <1>4, <2>1 DEF SetupBy, SetupOxsemi
  <2> QED BY <1>2, <2>2, <2>3, <2>4 DEF LeftBy, Accept, IsBoard
<1>5. CASE driver = "exar"
  <2>1. PICK o : o = [r EXCEPT !.ports = 2, !.portOffset = 1024, !.baseBar = 0, !.offset = 0]
    OBVIOUS
  <2>2. DOMAIN o = DOMAIN r
    BY <2>1
  <2>3. o.bars = r.bars /\ o.ports = 2
    BY <1>2, <2>1 DEF IsBoard
  <2>4. SetupBy(driver, NewBoard, d) = Accept(o, "mem")
    BY <1>2, <1>5, <2>1 DEF SetupBy, SetupExar
  <2> QED BY <1>2, <2>2, <2>3, <2>4 DEF LeftBy, Accept, IsBoard
<1>6. CASE driver = "moschip"
  <2>1. PICK c : c = [r EXCEPT !.portOffset = 8, !.baseBar = FirstIoBar(r)]
    BY Zenon
  <2>2. IsBoard(c) /\ c.bars = OwnBars(d)
    BY <1>2, <2>1, KeepsBars, Zenon
  <2>3. PICK n \in Nat : n = PortsInBar(c)
    BY <2>2, PortsCount
  <2>4. SetupBy(driver, NewBoard, d) = IF d.subclass # 0 THEN Reject(NewBoard) ELSE Accept([c EXCEPT !.ports = n], "io")
    BY <1>2, <1>6, <2>1, <2>3 DEF SetupBy, SetupMoschip
  <2> QED BY <1>1, <2>2, <2>4 DEF LeftBy, Accept, Reject, IsBoard
<1>7. CASE driver = "agestar"
  BY <1>2, <1>7 DEF SetupBy, SetupAgestar, LeftBy, Accept, IsBoard
<1>8. CASE driver = "wch"
  BY <1>2, <1>8 DEF SetupBy, SetupWch, LeftBy, Accept, IsBoard
<1>9. CASE driver = "none"
  BY <1>1, <1>9 DEF SetupBy, LeftBy, Reject
<1> QED BY <1>3, <1>4, <1>5, <1>6, <1>7, <1>8, <1>9 DEF Drivers

LEMMA TryOwn ==
  ASSUME NEW d, d.bars \in [0..(NumBars - 1) -> Bar], d.ports \in Nat, NEW driver \in Drivers
  PROVE  LeftBy(TryDrivers(driver, NewBoard, d), d)
<1>1. PICK s : s = SetupBy(driver, NewBoard, d) /\ LeftBy(s, d)
  BY DriverOwn
<1>2. TryDrivers(driver, NewBoard, d) = IF s.ok THEN s ELSE SetupFallback(s.board, d)
  BY <1>1 DEF TryDrivers
<1>3. CASE s.ok
  BY <1>1, <1>2, <1>3
<1>4. CASE ~s.ok
  <2>1. IsBoard(s.board) /\ s.board.bars \in {NewBoard.bars, OwnBars(d)}
    BY <1>1, <1>4 DEF LeftBy
  <2>2. LeftBy(SetupFallback(s.board, d), d)
    <3>1. CASE d.class = "serial"
      BY <2>1, <3>1, DefaultOwn DEF SetupFallback
    <3>2. CASE d.class # "serial"
      BY <2>1, <3>2 DEF SetupFallback, LeftBy, Reject
    <3> QED BY <3>1, <3>2
  <2> QED BY <1>2, <1>4, <2>2
<1> QED BY <1>3, <1>4

\* A function that is no candidate leaves the board alone.
LEMMA NotCandidate ==
  ASSUME NEW b, NEW d, d.class # "serial"
  PROVE  ~TryDrivers("none", b, d).ok /\ TryDrivers("none", b, d).board = b
BY DEF TryDrivers, SetupBy, SetupFallback, Reject

\* So the first candidate meets a new board, and is the first card if its
\* driver accepts it.
LEMMA FirstCandidate ==
  ASSUME BusType, NEW f, IsFold(f), setup.stack = "none", NEW p \in Candidates,
         \A q \in Candidates \ {p} : Later(q, p)
  PROVE  f[Num(p)] = f[0]
<1>1. PICK k \in 0..(Positions - 1) : k = Num(p) /\ PosOf(k) = p
  <2>1. p \in Pos
    BY Functions DEF Candidates
  <2> QED BY <2>1, PosOfNum
<1>2. ASSUME NEW n \in 0..(k - 1), Present(PosOf(n)) \/ PosOf(n) = Origin
      PROVE  ~TryOn(NewBoard, PosOf(n)).ok /\ TryOn(NewBoard, PosOf(n)).board = NewBoard
  <2>1. n \in 0..(Positions - 1) /\ n < k
    BY Sizes
  <2>2. Num(PosOf(n)) = n
    BY <2>1, NumOfPos
  <2>3. PosOf(n) \notin Candidates
    <3> SUFFICES ASSUME PosOf(n) \in Candidates PROVE FALSE
      OBVIOUS
    <3>1. PosOf(n) # p
      BY <1>1, <2>1, <2>2
    <3>2. Later(PosOf(n), p)
      BY <3>1
    <3>3. PICK x \in 0..(Positions - 1) : \E y \in 0..(x - 1) : PosOf(n) = PosOf(x) /\ p = PosOf(y)
      BY <3>2 DEF Later, Positions
    <3>4. PICK y \in 0..(x - 1) : PosOf(n) = PosOf(x) /\ p = PosOf(y)
      BY <3>3
    <3>5. y \in 0..(Positions - 1) /\ y < x
      BY Sizes
    <3>6. x = n /\ y = k
      BY <1>1, <2>2, <3>4, <3>5, NumOfPos
    <3> QED BY <2>1, <3>5, <3>6
  <2>4. CASE Present(PosOf(n))
    <3>1. DriverAt(PosOf(n)) = "none" /\ Fn(PosOf(n)).class # "serial"
      BY <2>3, <2>4 DEF Candidates, Present
    <3>2. TryOn(NewBoard, PosOf(n)) = TryDrivers("none", NewBoard, Fn(PosOf(n)))
      BY <2>4, <3>1 DEF TryOn
    <3> QED BY <3>1, <3>2, NotCandidate
  <2>5. CASE ~Present(PosOf(n))
    <3>1. TryOn(NewBoard, PosOf(n)) = TryDrivers("none", NewBoard, Absent)
      BY <1>2, <2>5 DEF TryOn, DriverAt
    <3>2. Absent.class # "serial"
      BY DEF Absent
    <3> QED BY <3>1, <3>2, NotCandidate
  <2> QED BY <2>4, <2>5
<1> DEFINE Bad == { n \in 0..k : f[n] # f[0] }
<1> SUFFICES ASSUME Bad # {} PROVE FALSE
  BY <1>1
<1>3. Bad \in SUBSET Nat
  BY Sizes
<1> HIDE DEF Bad
<1>4. PICK m \in Bad : \A y \in Bad : m <= y
  BY <1>3, LeastElement
<1>5. m \in 0..k /\ f[m] # f[0]
  BY <1>4 DEF Bad
<1>6. PICK n \in 0..(k - 1) : m = n + 1 /\ n \in 0..k /\ n < m /\ n \in 0..(Positions - 1)
  BY <1>5, Sizes
<1>7. f[n] = f[0] /\ f[0] = [board |-> NewBoard, cards |-> <<>>]
  BY <1>4, <1>5, <1>6, FoldStep DEF Bad
<1>8. f[n + 1] = CardsAfter(f[n], PosOf(n))
  BY <1>6, FoldStep
<1>9. f[n + 1] = f[n]
  <2>1. CASE Present(PosOf(n)) \/ PosOf(n) = Origin
    <3>1. ~TryOn(NewBoard, PosOf(n)).ok /\ TryOn(NewBoard, PosOf(n)).board = NewBoard
      BY <1>2, <2>1
    <3>2. f[n].board = NewBoard
      BY <1>7
    <3> QED BY <1>7, <1>8, <2>1, <3>1, <3>2 DEF CardsAfter
  <2>2. CASE ~(Present(PosOf(n)) \/ PosOf(n) = Origin)
    BY <1>8, <2>2 DEF CardsAfter
  <2> QED BY <2>1, <2>2
<1> QED BY <1>5, <1>6, <1>7, <1>9

\* PortsRight holds for every machine whose cards are those the drivers are
\* written for: setup_uart() takes the port that was offered under the number,
\* and if no candidate was rejected before, it lies in a BAR of the card, which
\* is enabled and stays so until the kernel starts.
THEOREM PortsAlwaysRight == ASSUME CardsFit PROVE Spec => []PortsRight
<1>1. BusInv /\ PortsInv /\ PortsAgree /\ OpenInv => OwnPort
  <2> SUFFICES ASSUME BusInv, PortsInv, PortsAgree, OpenInv,
                      uart.state = "up", setup.arg = "pci", setup.card = 0, setup.stack = "none",
                      NEW p \in Candidates, \A q \in Candidates \ {p} : Later(q, p), TryOn(NewBoard, p).ok
               PROVE  \E i \in DOMAIN Fn(p).bars :
                        LET b == Fn(p).bars[i]
                        IN /\ uart.base \in b.base..(b.base + b.len - 1)
                           /\ \/ b.type = "io" /\ fns[p].io
                              \/ b.type = "mem" /\ fns[p].mem
    BY DEF OwnPort
  <2>1. PICK f : IsFold(f) /\ Cards = f[Positions].cards
    BY FoldExists
  <2>2. BusType /\ OpenTo(f)
    BY <2>1 DEF BusInv, OpenInv
  <2>3. p \in DOMAIN fns /\ p \in Pos /\ Present(p)
    <3>1. p \in DOMAIN fns /\ p \in Pos
      BY <2>2, Functions DEF Candidates
    <3> QED BY <3>1, Sizes DEF Present, Ended, Pos
  <2>4. PICK k \in 0..(Positions - 1) : k = Num(p) /\ PosOf(k) = p
    BY <2>3, PosOfNum
  <2>5. f[k].board = NewBoard /\ f[k].cards = <<>>
    <3>1. f[k] = f[0] /\ f[0] = [board |-> NewBoard, cards |-> <<>>]
      BY <2>1, <2>2, <2>4, FirstCandidate, FoldStep
    <3> QED BY <3>1
  <2>6. PICK t : t = TryOn(NewBoard, p) /\ t.ok /\ t = TryOn(f[k].board, PosOf(k))
    BY <2>4, <2>5
  <2>7. f[k + 1].cards = <<t.board>>
    <3>1. Present(PosOf(k))
      BY <2>3, <2>4
    <3>2. f[k + 1].board = t.board /\ f[k + 1].cards = Append(f[k].cards, f[k + 1].board)
      BY <2>1, <2>6, <3>1, FoldShape
    <3>3. f[k + 1].cards = Append(<<>>, t.board)
      BY <2>5, <3>2
    <3> QED BY <3>3
  <2>8. Len(Cards) >= 1 /\ Cards[1] = t.board
    <3>1. k + 1 \in 0..Positions /\ Positions \in (k + 1)..Positions
      BY Sizes
    <3>2. /\ Len(f[k + 1].cards) <= Len(f[Positions].cards)
          /\ \A i \in 1..Len(f[k + 1].cards) : f[Positions].cards[i] = f[k + 1].cards[i]
      BY <2>1, <3>1, CardsGrow
    <3>3. Len(<<t.board>>) = 1 /\ <<t.board>>[1] = t.board /\ 1 \in 1..1
      OBVIOUS
    <3> QED BY <2>1, <2>7, <3>2, <3>3
  <2>9. uart.base = GetBase(t.board, setup.port)
    <3>1. Len(Cards) \in Nat
      BY <2>1, FoldType, Sizes
    <3>2. setup.card < Len(Cards) /\ setup.card + 1 = 1
      BY <2>8, <3>1
    <3> QED BY <2>8, <3>2 DEF PortsAgree
  <2>10. PICK d, driver :
           /\ d = Fn(p) /\ driver \in Drivers /\ t = TryDrivers(driver, NewBoard, d) /\ driver \in {d.driver, "none"}
           /\ setup \in Setups /\ p \in DOMAIN setup.fns /\ d = setup.fns[p]
           /\ d.bars \in [0..(NumBars - 1) -> Bar] /\ d.ports \in Nat /\ setup.port \in Nat
    <3>1. t = TryDrivers(DriverAt(p), NewBoard, Fn(p))
      BY <2>3, <2>6 DEF TryOn
    <3>2. DriverAt(p) \in {Fn(p).driver, "none"} /\ DriverAt(p) \in Drivers
      BY <2>2, <2>3, PciAssumption DEF DriverAt, BusType, Fn
    <3>3. setup \in Setups /\ p \in DOMAIN setup.fns /\ Fn(p) = setup.fns[p]
      BY <2>2, <2>3 DEF BusType, Fn
    <3>4. setup.fns[p].bars \in [0..(NumBars - 1) -> Bar] /\ setup.fns[p].ports \in Nat /\ setup.port \in Nat
      BY <3>3, PciAssumption, Zenon
    <3>5. PICK d : d = Fn(p) /\ d = setup.fns[p]
      BY <3>3
    <3>6. PICK driver : driver = DriverAt(p) /\ driver \in Drivers /\ driver \in {d.driver, "none"}
      BY <3>2, <3>5
    <3>7. t = TryDrivers(driver, NewBoard, d)
      BY <3>1, <3>5, <3>6
    <3>8. d.bars \in [0..(NumBars - 1) -> Bar] /\ d.ports \in Nat /\ setup.port \in Nat
      BY <3>4, <3>5, Zenon
    <3> QED BY <3>3, <3>5, <3>6, <3>7, <3>8, Zenon
  <2>11. t.enable \in {"io", "mem"} /\ t.board.bars = OwnBars(d) /\ t.board.ports \in Nat
    BY <2>6, <2>10, TryOwn DEF LeftBy
  <2>12. PICK b : /\ b = BarOf(t.board) /\ b.type = t.enable
                  /\ \A port \in 0..t.board.ports : GetBase(t.board, port) \in b.base..(b.base + b.len - 1)
    <3>1. LET u == TryDrivers(driver, NewBoard, setup.fns[p])
              c == BarOf(u.board)
          IN u.ok => /\ c.type = u.enable
                     /\ \A port \in 0..u.board.ports : GetBase(u.board, port) \in c.base..(c.base + c.len - 1)
      <4>1. setup \in Setups /\ p \in DOMAIN setup.fns /\ driver \in {setup.fns[p].driver, "none"}
        BY <2>10
      <4> QED BY <4>1, ZenonT(30) DEF CardsFit
    <3>2. t = TryDrivers(driver, NewBoard, setup.fns[p])
      BY <2>10
    <3> QED BY <2>6, <3>1, <3>2, Zenon
  <2>13. PICK i \in DOMAIN d.bars : b = Decoded(d.bars[i]) /\ d.bars[i] \in Bar
    <3>1. t.board.baseBar \in 0..(NumBars - 1) /\ b = OwnBars(d)[t.board.baseBar]
      BY <2>11, <2>12 DEF BarOf, OwnBars, NoBar
    <3>2. b.type # "none"
      BY <2>11, <2>12
    <3>3. PICK i \in 0..(NumBars - 1) : b = OwnBars(d)[i]
      BY <3>1
    <3>4. b = IF d.bars[i].type = "none" THEN NoBar ELSE Decoded(d.bars[i])
      BY <3>3 DEF OwnBars
    <3>5. b = Decoded(d.bars[i])
      BY <3>2, <3>4 DEF NoBar
    <3>6. DOMAIN d.bars = 0..(NumBars - 1) /\ d.bars[i] \in Bar
      BY <2>10
    <3> QED BY <3>5, <3>6
  <2>14. uart.base \in b.base..(b.base + b.len - 1)
    <3>1. PICK port \in 0..t.board.ports : GetBase(t.board, setup.port) = GetBase(t.board, port)
      <4>1. CASE setup.port >= t.board.ports
        <5>1. t.board.ports \in 0..t.board.ports /\ t.board.ports >= t.board.ports
          BY <2>11
        <5>2. GetBase(t.board, setup.port) = GetBase(t.board, t.board.ports)
          BY <4>1, <5>1 DEF GetBase
        <5> QED BY <5>1, <5>2
      <4>2. CASE ~(setup.port >= t.board.ports)
        <5>1. setup.port \in 0..t.board.ports
          BY <2>10, <2>11, <4>2
        <5> QED BY <5>1
      <4> QED BY <4>1, <4>2
    <3> QED BY <2>9, <2>12, <3>1
  <2>15. Opened(f, k)
    <3>1. Accepted(f, k)
      BY <2>3, <2>4, <2>5, <2>6 DEF Accepted
    <3>2. Len(f[k].cards) <= setup.card
      <4>1. Len(<<>>) = 0
        OBVIOUS
      <4> QED BY <2>5, <4>1
    <3> QED BY <2>2, <3>1, <3>2 DEF OpenTo
  <2>16. (b.type = "io" /\ fns[p].io) \/ (b.type = "mem" /\ fns[p].mem)
    <3>1. (t.enable = "io" => fns[p].io) /\ (t.enable = "mem" => fns[p].mem)
      BY <2>4, <2>6, <2>15 DEF Opened
    <3>2. (b.type = "io" /\ t.enable = "io") \/ (b.type = "mem" /\ t.enable = "mem")
      BY <2>11, <2>12
    <3> QED BY <3>1, <3>2, Zenon
  <2>17. uart.base \in d.bars[i].base..(d.bars[i].base + d.bars[i].len - 1) /\ b.type = d.bars[i].type
    <3>1. PICK x \in Bar : x = d.bars[i] /\ b = Decoded(x)
      BY <2>13
    <3>2. /\ x.base \in Nat /\ x.len \in Nat /\ b.type = x.type /\ b.base \in Nat /\ b.len \in Nat
          /\ b.base >= x.base /\ b.base + b.len <= x.base + x.len
      BY <3>1, DecodedWithin
    <3>3. uart.base \in x.base..(x.base + x.len - 1)
      BY <2>14, <3>2
    <3> QED BY <3>1, <3>2, <3>3
  <2> QED BY <2>10, <2>13, <2>16, <2>17
<1>2. PortsAgree /\ OwnPort => PortsRight
  BY DEF PortsRight
<1> QED BY <1>1, <1>2, BusInvariant, PortsInvariant, PortsAlwaysAgree, OpenInvariant, PTL

=============================================================================
