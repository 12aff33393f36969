------------------------------ MODULE MCAmd64 ------------------------------
(***************************************************************************)
(* Page tables of four entries, 4 GiB of 64 pages, pages of two cells.     *)
(* Machines for the stub with a plain PCI bus, and buses with one machine. *)
(***************************************************************************)
EXTENDS Amd64Start

M(addr, size, mem) == [addr |-> addr, size |-> size, memory |-> mem]

Maps ==
  { << M(0, 20, TRUE), M(20, 12, FALSE), M(32, 60, TRUE), M(92, 36, FALSE), M(128, 60, TRUE) >>,
    << M(32, 40, TRUE), M(0, 20, TRUE), M(72, 5, FALSE) >> }

Mod(start, cmdline, segs) == [file |-> At(start, 5), cmdline |-> At(cmdline, 1), segs |-> segs]

\* The modules behind the boot loader's information, in the order of their
\* addresses or not, with more areas than there are reservations, and one that
\* ends where the one before it begins.
Modules ==
  { <<>>,
    << Mod(56, 52, <<At(8, 3)>>), Mod(64, 53, <<At(14, 2), At(71, 3)>>), Mod(78, 53, <<>>) >>,
    << Mod(78, 52, <<At(80, 30)>>), Mod(56, 53, <<>>), Mod(65, 53, <<At(33, 1)>>), Mod(86, 63, <<>>) >>,
    << Mod(71, 52, <<>>), Mod(65, 53, <<>>) >> }

Image(map, mods, s, a, rela) ==
  [map |-> map, upper |-> 70, behind |-> M(0, 128, FALSE), image |-> At(38, 5), mbi |-> << At(44, 1), At(46, 2), At(50, 1) >>,
   modules |-> mods, elf |-> TRUE, segs |-> << At(s, 5), At(s + 6, 3) >>, align |-> a, rela |-> rela]

StubMachines ==
  { Image(map, mods, s, a, "relative") : map \in Maps, mods \in Modules,
      s \in {2, 10, 17, 24, 33, 40, 54, 70, 83, 90, 122}, a \in {0, 2, 8} }
    \cup { Image(map, <<>>, 40, 2, "other") : map \in Maps }
    \cup { Image(<<M(0, 64, FALSE)>>, <<>>, s, 2, "relative") : s \in {20, 40} }
    \cup { [Image(<<M(0, 0, TRUE)>>, <<>>, 20, 2, "relative") EXCEPT !.upper = u] : u \in {0, 70} }
    \cup { [Image(map, <<Mod(56, 52, <<At(8, 3)>>)>>, 2, 2, "relative") EXCEPT !.elf = FALSE] : map \in Maps }

PlainMachine == Image(CHOOSE m \in Maps : Len(m) = 3, <<>>, 10, 2, "relative")
MCMachines == StubMachines \cup {PlainMachine}

\* Nothing behind a memory map looks like RAM.
ASSUME MachinesEnd == MapsEnd

\* Areas are reserved in an order in which none is lost, and in other orders.
ASSUME AllOrders == { InOrder(m) : m \in Machines } = BOOLEAN

-----------------------------------------------------------------------------

B(type, base, len) == [type |-> type, base |-> base, len |-> len, flags |-> 0]
B64(base, len) == [type |-> "mem", base |-> base, len |-> len, flags |-> 12]
Bars(b0, b1) == [i \in 0..1 |-> IF i = 0 THEN b0 ELSE b1]
P(b, d, f) == [bus |-> b, dev |-> d, func |-> f]

F(class, driver, bars) ==
  [class |-> class, driver |-> driver, subclass |-> 0, multi |-> TRUE, ports |-> 2, bars |-> bars,
   caps |-> <<>>, mem |-> FALSE]

Bridge == [F("other", "none", Bars(NoBar, NoBar)) EXCEPT !.multi = FALSE]
Com1 == F("serial", "none", Bars(B("io", 1024, 16), NoBar))
Com2 == F("serial", "none", Bars(NoBar, B("io", 2048, 8)))
TwoIo == F("serial", "default", Bars(B("io", 3072, 8), B("io", 4096, 8)))
Mos == F("other", "moschip", Bars(B64(9000, 16), B("io", 5120, 16)))
Par == [Mos EXCEPT !.subclass = 1]
Wch == F("serial", "wch", Bars(B("io", 6144, 256), NoBar))
Age == F("other", "agestar", Bars(NoBar, B("io", 7168, 16)))
Oxs == F("other", "oxsemi", Bars(B("mem", 65536, 8192), NoBar))
Exar == F("other", "exar", Bars(B("mem", 131072, 2048), NoBar))

Caps(l1, i1, l2, i2) == << [legacy |-> l1, inside |-> i1], [legacy |-> l2, inside |-> i2] >>
Xhci(base, len, caps) ==
  [F("xhci", "none", Bars(B("mem", base, len), NoBar)) EXCEPT !.mem = TRUE, !.caps = caps]

Fns(a, b, c, d) == P(0, 0, 0) :> a @@ P(0, 1, 0) :> b @@ P(0, 1, 2) :> c @@ P(1, 1, 1) :> d

SerialBuses ==
  { Fns(Bridge, b, c, d) : b \in {Com1, Par, Wch, Oxs, TwoIo}, c \in {Com2, Mos, Exar}, d \in {Age, Com1, Wch, Bridge} }

XhciBuses ==
  { Fns(Bridge, Xhci(base, len, Caps(FALSE, TRUE, TRUE, TRUE)), Com1, Xhci(130, 1, caps)) :
      base \in {8, 60, 96}, len \in {1, 4},
      caps \in {Caps(TRUE, TRUE, TRUE, TRUE), Caps(FALSE, TRUE, TRUE, FALSE), <<>>} }
    \cup { Fns(Bridge, [Xhci(128, 32, Caps(TRUE, TRUE, FALSE, TRUE)) EXCEPT !.mem = m], Age,
               [Xhci(64, 1, <<>>) EXCEPT !.bars[0] = b]) : m \in BOOLEAN, b \in {NoBar, B("io", 8, 1)} }

S(fs, arg, c, p) ==
  [fns |-> fs, stack |-> "none", arg |-> arg, card |-> c, port |-> p, osAsked |-> FALSE]

SerialSetups ==
  { S(b, "pci", c, p) : b \in SerialBuses, c \in 0..3, p \in 0..2 }
    \cup { S(b, "probe", 0, 0) : b \in SerialBuses }
    \cup { [S(b, "probe", 0, 0) EXCEPT !.stack = v] : b \in SerialBuses, v \in {"moschip", "agestar"} }
XhciSetups ==
  { [S(b, "com", 0, n) EXCEPT !.osAsked = o] : b \in XhciBuses, n \in {2, 5}, o \in BOOLEAN }
    \cup { S(CHOOSE b \in XhciBuses : TRUE, arg, 0, 0) : arg \in {"none", "noserial"} }

PlainSetup == S(P(0, 0, 0) :> Bridge, "noserial", 0, 0)
MCSetups == SerialSetups \cup XhciSetups \cup {PlainSetup}

\* Every BAR is one ptab_map_range() can map.
ASSUME BarsMappable == BarsAligned

\* Every serial card has the BARs its driver expects.
ASSUME CardsUsual == CardsFit

MCInit ==
  /\ Init
  /\ machine = PlainMachine \/ setup = PlainSetup
  /\ machine = PlainMachine /\ setup \in SerialSetups => gig

MCSpec == MCInit /\ [][Next]_vars /\ WF_vars(BootLoader)
=============================================================================
