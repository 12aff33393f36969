------------------------------- MODULE MCRiscv -------------------------------
(***************************************************************************)
(* Cells of 8 values, addresses of 64, three harts.  Trees are deeper than *)
(* the stack of the scan and have more nodes than the cache of parents.    *)
(* Machines with a few command lines, command lines with one machine.      *)
(***************************************************************************)
EXTENDS RiscvStart

C(x) == <<x \div CellBase, x % CellBase>>
R(a, n) == C(a) \o C(n)
N(depth, name, props) == [depth |-> depth, name |-> name, props |-> props, at |-> {}]
U(depth, name, props, at) == [depth |-> depth, name |-> name, props |-> props, at |-> at]

Cells == "address-cells" :> 2 @@ "size-cells" :> 2
OneCell == "address-cells" :> 1 @@ "size-cells" :> 1
Uart16550(r) == "compatible" :> "ns16550a" @@ "reg" :> r
Off == "status" :> "disabled"
NoIntc(h) == "compatible" :> "cpu-intc" @@ "phandle" :> h @@ "interrupt-cells" :> 1
Intc(h) == NoIntc(h) @@ "interrupt-controller" :> <<>>

Isa(str, has) == [prefix |-> "rv64", str |-> str, has |-> has]
Imac == Isa(<<"i", "m", "a", "c">>, {0, 2, 8, 12})
Versions == Isa(<<"i", "2", "p", "1", "m", "2", "a", "s", "u">>, {0, 8, 12})
Stimer == Isa(<<"i", "m", "a", "_", "s", "s", "t", "c", "_", "z", "b", "a", "1", "p", "2">>, {0, 8, 12, 26})
IsaD == Isa(<<"i", "1", "m", "d", "f", "1", "p", "1", "b">>, {1, 3, 5, 8, 12})

IsaE == Isa(<<"e">>, {4})

Cpu(id, isa) ==
  "device_type" :> "cpu" @@ "compatible" :> "riscv" @@ "reg" :> <<id>> @@ "isa" :> isa

-----------------------------------------------------------------------------
(* Trees *)

\* Nodes 2 and 3 of a tree, its reserved memory, the cpus and the devices
Tree1(chosen, memory, reserved, cpus, devices) ==
  << N(0, "root", Cells), N(1, "chosen", chosen) >> \o memory
    \o << N(1, "reserved-memory", Cells @@ "ranges" :> <<>>) >> \o reserved
    \o << N(1, "cpus", "address-cells" :> 1 @@ "size-cells" :> 0 @@ "timebase" :> 5) >> \o cpus \o devices

OneMemory == << N(1, "memory", "device_type" :> "memory" @@ "reg" :> R(8, 48)) >>
Banks == << N(1, "memory@20", "device_type" :> "memory" @@ "reg" :> R(32, 16) \o R(8, 20)),
            N(1, "memory@8", "device_type" :> "memory" @@ "reg" :> R(32, 16)),
            N(1, "memory@52", "device_type" :> "memory" @@ "reg" :> R(52, 4)),
            N(1, "memory@0", "device_type" :> "memory" @@ "reg" :> R(0, 8) @@ Off) >>
\* An area of no byte
Hollow == << N(1, "memory", "device_type" :> "memory" @@ "reg" :> R(8, 0)) >>

Secure == << N(2, "secure", "reg" :> R(48, 4)), N(2, "spare", "reg" :> R(24, 4) @@ Off),
             N(2, "pool", "reg" :> <<>>) >>

Cpus1(isa0, isa1) ==
  << N(2, "cpu@0", Cpu(0, isa0)), N(3, "intc", Intc(1)),
     N(2, "cpu@3", Cpu(3, isa1)), N(3, "intc", Intc(2)) >>
\* Nothing in common, at the end or before the last hart
Cpus3 == << N(2, "cpu@0", Cpu(0, Imac)), N(2, "cpu@1", Cpu(1, IsaE)) >>
Cpus4 == Cpus3 \o << N(2, "cpu@2", Cpu(2, Stimer)) >>
\* More harts than fit, one of them not to be used, one without a valid ISA,
\* one of an unknown width
ManyCpus ==
  << N(2, "cpu@0", Cpu(0, Imac) @@ Off), N(3, "intc", Intc(1)),
     N(2, "cpu@3", Cpu(3, Versions)), N(3, "intc", Intc(2)),
     N(2, "cpu@1", Cpu(1, [Imac EXCEPT !.prefix = "other"])),
     N(2, "cpu@2", Cpu(2, Stimer)), N(3, "intc", NoIntc(3)),
     N(2, "cpu@4", Cpu(4, [IsaE EXCEPT !.prefix = "rv"])),
     N(2, "cpu-map", Cells) >>

Targets == "compatible" :> "sifive,plic-1.0.0" @@ "reg" :> R(4, 2)

\* The devices of a bus whose addresses begin at 56 of the root's, and of a
\* bus below it with addresses of one cell, whose two windows are swapped
Devices(plic, uarts) ==
  << N(1, "soc", Cells @@ "ranges" :> C(0) \o C(56) \o C(8)), N(2, "plic", plic),
     N(2, "fw-cfg", "compatible" :> "fw-cfg" @@ "reg" :> R(6, 1)),
     N(2, "bus", OneCell @@ "ranges" :> <<4>> \o C(0) \o <<3, 0>> \o C(4) \o <<4>>) >> \o uarts

Ext(c) == "interrupts-extended" :> c
TwoUarts == << U(3, "serial@5", Uart16550(<<5, 1>>) @@ "interrupts" :> <<5>>, {57}),
               U(2, "serial@7", Uart16550(R(7, 1)) @@ "current-speed" :> 3, {63}) >>
OffUarts == << N(3, "serial@7", Uart16550(<<7, 1>>)), U(3, "serial@6", Uart16550(<<6, 1>>) @@ Off, {58}),
               U(3, "serial@1", Uart16550(<<1, 2>>) @@ "interrupts" :> <<>>, {61}) >>

\* Memory behind two buses
BusMemory == << N(3, "memory@4", "device_type" :> "memory" @@ "reg" :> <<4, 3>>) >>

Trees ==
  { Tree1(<<>>, OneMemory, <<>>, Cpus1(Imac, Imac), Devices(Targets @@ Ext(<<1, 7, 1, 3, 2, 7, 2, 3>>), TwoUarts)),
    Tree1("stdout-path" :> [path |-> "serial@1", baud |-> 4], OneMemory, Secure, Cpus1(Stimer, Stimer),
          Devices(Targets @@ Ext(<<2, 3, 1, 3, 1, 7>>), OffUarts)),
    Tree1("stdout-path" :> [path |-> "serial@5", baud |-> 4], Banks, Secure, Cpus1(IsaD, Imac),
          Devices(Targets @@ Ext(<<1, 3, 5, 3, 2, 3>>), TwoUarts)),
    Tree1("stdout-path" :> [path |-> "serial@9", baud |-> 4], Banks, <<>>, ManyCpus, Devices(Targets @@ Ext(<<1, 3, 2, 3, 3, 3, 2, 7>>), TwoUarts)),
    Tree1(<<>>, OneMemory, Secure, <<>>, Devices(Targets, BusMemory)),
    Tree1(<<>>, OneMemory, <<>>, Cpus3, <<>>), Tree1(<<>>, OneMemory, <<>>, Cpus4, <<>>),
    Tree1(<<>>, Hollow, <<>>, Cpus1(Imac, Imac), <<>>) }

-----------------------------------------------------------------------------
(* Machines *)

D(name, sel, size, valid) == [name |-> name, sel |-> sel, size |-> size, valid |-> valid]
NoFw == [signature |-> "other", version |-> "dma", dir |-> <<>>, res |-> [x |-> FALSE], faulty |-> FALSE]
QemuFw(dir, res, faulty) ==
  [signature |-> "QEMU", version |-> "dma", dir |-> dir, res |-> res, faulty |-> faulty]
Res(w, h) == [x |-> TRUE, width |-> w, height |-> h]

Firmwares ==
  { NoFw,
    QemuFw(<<>>, Res(1, 1), FALSE),
    QemuFw(<<D("other", 5, 3, TRUE), D("ramfb", 4, 1, TRUE)>>, Res(1, 1), FALSE),
    QemuFw(<<D("ramfb", 4, 1, FALSE)>>, Res(1, 1), TRUE),
    QemuFw(<<D("fb_res", 5, 2, TRUE), D("ramfb", 6, 1, TRUE)>>, Res(3, 2), TRUE),
    QemuFw(<<D("ramfb", 4, 1, TRUE), D("fb_res", 5, 2, TRUE)>>, [x |-> FALSE], FALSE),
    QemuFw(<<D("ramfb", 4, 1, TRUE), D("other", 5, 1, TRUE), D("fb_res", 6, 0, TRUE)>>, Res(3, 2), FALSE) }

Im(b, n) == StartSize(b, n, "image")
Rsv(a, n) == [addr |-> a, size |-> n]
K(o, whole, val) == [opt |-> o, whole |-> whole, val |-> val]

KLines == { <<>>, << K("esc", TRUE, 0), K("kmemsize", TRUE, 3), K("jdb_cmd", TRUE, 6), K("out_buf", FALSE, 1) >> }

PlainKernel == << K("esc", TRUE, 0), K("jdb_cmd", TRUE, 2) >>

Machine(nodes, rsv, at, fw1, kernel) ==
  [nodes |-> nodes, rsv |-> rsv, at |-> at, size |-> 6, good |-> TRUE, fw |-> fw1,
   image |-> << Im(8, 6), Im(16, 5) >>, kernel |-> kernel]

PlainTree == CHOOSE t \in Trees : Len(t) = 15
Ramfb == QemuFw(<<D("ramfb", 4, 1, TRUE)>>, Res(1, 1), FALSE)
PlainMachines == { Machine(PlainTree, <<Rsv(28, 4)>>, at, Ramfb, PlainKernel) : at \in {32, 56} }

MCMachines ==
  PlainMachines
    \cup { Machine(t, <<>>, 40, f, PlainKernel) : t \in Trees, f \in Firmwares }
    \cup { Machine(t, <<Rsv(28, 4)>>, 40, f, PlainKernel) : t \in Trees, f \in {NoFw, Ramfb} }
    \cup { Machine(t, <<Rsv(28, 4), Rsv(32, 6)>>, 32, NoFw, k) : t \in Trees, k \in KLines }
    \cup { [Machine(PlainTree, r, 32, NoFw, <<>>) EXCEPT !.good = g, !.image = i] :
             r \in {<<Rsv(28, 4), Rsv(30, 4)>>}, g \in BOOLEAN, i \in {<<Im(8, 6)>>} }
    \cup { [Machine(PlainTree, <<>>, 0, NoFw, <<>>) EXCEPT !.image = <<Im(8, 6), Im(12, 4)>>] }
    \cup { [Machine(PlainTree, <<>>, 40, NoFw, <<>>) EXCEPT !.image = <<Im(8, 6), Im(12, 4)>>] }

-----------------------------------------------------------------------------
(* Command lines *)

A(n, nu, a, au) == [size |-> n, sunit |-> nu, addr |-> a, aunit |-> au, at |-> TRUE, end |-> TRUE]
W(o, v) == [opt |-> o, start |-> TRUE, val |-> v, area |-> A(0, 0, 0, 0)]
WA(o, a) == [opt |-> o, start |-> TRUE, val |-> 0, area |-> a]
PlainLines == { <<>>, << W("maxmem", 5), WA("sysalloc", A(56, 0, 8, 0)) >> }

MCWords ==
  PlainLines \cup
  { << W("noserial", 0), WA("sysalloc", A(6, 2, 4, 3)) >>,
    << WA("sysalloc", A(12, 0, 32, 0)), W("wait", 0), WA("sysalloc", A(2, 2, 10, 1)) >>,
    << WA("sysalloc", A(4, 0, 0, 0)), WA("sysalloc", A(5, 1, 44, 0)) >>,
    << WA("sysalloc", A(4, 0, 0, 0)) >>, << WA("sysalloc", A(8, 0, 40, 0)), WA("sysalloc", A(8, 0, 44, 0)) >>,
    << WA("mem", A(3, 3, 1, 3)), W("presetmem", 1), WA("mem", A(4, 2, 10, 2)), W("modaddr", 12) >>,
    << WA("mem", A(3, 3, 1, 3)), W("maxmem", 7), WA("mem", A(4, 2, 10, 2)), WA("sysalloc", A(16, 0, 40, 0)) >>,
    << WA("mem", A(5, 3, 1, 3)), WA("sysalloc", A(8, 0, 16, 0)), WA("sysalloc", A(6, 2, 3, 3)) >>,
    << WA("mem", A(3, 3, 1, 3)), WA("mem", A(4, 0, 30, 0)) >>,
    << WA("mem", A(0, 1, 8, 0)) >>, << WA("mem", A(63, 0, 8, 0)) >>,
    << WA("mem", [A(8, 0, 8, 0) EXCEPT !.at = FALSE]) >>,
    << WA("sysalloc", [A(8, 0, 8, 0) EXCEPT !.end = FALSE]) >>,
    << W("noserial", 0), W("modaddr", 52), W("presetmem", 0) >>, << W("modaddr", 55), W("maxmem", 0) >>,
    << W("modaddr", 62) >> }

\* An argument inside a word
InsideWord == { << [W("wait", 0) EXCEPT !.start = FALSE], W("noserial", 0) >> }

MCInit ==
  /\ Init
  /\ dt \in PlainMachines \/ line \in PlainLines
  /\ stack[0] = 5 \/ (line = <<>> /\ stack[0] \in {0, 1})
MCSpec == MCInit /\ [][Next]_vars /\ Fairness
=============================================================================
