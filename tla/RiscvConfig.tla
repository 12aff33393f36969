----------------------------- MODULE RiscvConfig -----------------------------
(***************************************************************************)
(* What the RISC-V platform puts into the kernel info page                 *)
(* (ARCH-riscv/platform_riscv.cc): the instruction set extensions all      *)
(* harts have, read by Isa_parser (isa_parser.h) from the ISA strings of   *)
(* the device tree, the list of harts, the timebase, and the interrupt     *)
(* contexts of the PLIC.                                                   *)
(*                                                                         *)
(* An ISA string is a prefix, "rv64" for rv32 and rv64, "rv" for another    *)
(* width and "other" for anything else, with the characters behind it.     *)
(***************************************************************************)
EXTENDS DeviceTree

CONSTANTS
  MaxHarts,   \* the length of hart_ids[]
  Words32     \* the 32-bit words of isa_ext[]

ASSUME ConfigAssumption == MaxHarts \in Nat

VARIABLES
  kip,     \* platform_info.arch of the kernel info page
  ctx,     \* parse_interrupt_target_contexts(): the contexts looked at
  kpc      \* how far setup_kernel_config() is

kvars == <<kip, ctx, kpc>>

NoCtx == -1

KInit ==
  /\ kip = [isa |-> {}, harts |-> <<>>, timebase |-> 0, plic |-> 0,
            target |-> [h \in 1..MaxHarts |-> NoCtx]]
  /\ ctx = 0
  /\ kpc = "isa"

-----------------------------------------------------------------------------
(* Isa_parser *)

Digits == {"1", "2"}
Letters == {"a", "b", "c", "d", "e", "f", "i", "m", "p", "s", "t", "u", "z"}

\* L4_riscv_isa_ext: the letters come first, Sstc behind them.
Bit(ext) ==
  CASE ext = <<"a">> -> {0} [] ext = <<"b">> -> {1} [] ext = <<"c">> -> {2} [] ext = <<"d">> -> {3}
    [] ext = <<"e">> -> {4} [] ext = <<"f">> -> {5} [] ext = <<"i">> -> {8} [] ext = <<"m">> -> {12} [] ext = <<"p">> -> {15}
    [] ext = <<"s">> -> {18} [] ext = <<"t">> -> {19} [] ext = <<"u">> -> {20} [] ext = <<"z">> -> {25}
    [] ext = <<"s", "s", "t", "c">> -> {26}
    [] OTHER -> {}

\* skip_version() behind the major version
Minor(str, j) ==
  LET At(k) == IF k \in DOMAIN str THEN str[k] ELSE "end"
      end[k \in 1..(Len(str) + 1)] == IF At(k) \in Digits THEN end[k + 1] ELSE k
  IN IF At(j) = "p" THEN end[j + 1] ELSE j

\* next_ext(), until it returns false
Extensions(str) ==
  LET At(k) == IF k \in DOMAIN str THEN str[k] ELSE "end"
      digits[k \in 1..(Len(str) + 1)] == IF At(k) \in Digits THEN digits[k + 1] ELSE k
      name[k \in 1..(Len(str) + 1)] == IF At(k) \in Letters THEN name[k + 1] ELSE k
      Version(k) == IF At(k) \in Digits THEN Minor(str, digits[k]) ELSE k
      \* The invalid extensions s and u of old QEMU versions
      Su(k) == At(k) = "s" /\ k > 1 /\ At(k - 1) # "_" /\ At(k + 1) = "u"
      exts[k \in 1..(Len(str) + 1)] ==
        CASE k > Len(str) -> {}
          [] k <= Len(str) /\ Su(k) -> exts[k + 2]
          [] At(k) \in {"s", "z"} /\ ~Su(k) -> {SubSeq(str, k, name[k + 1] - 1)} \cup exts[Version(name[k + 1])]
          [] At(k) \in Letters \ {"s", "z"} -> {<<At(k)>>} \cup exts[Version(k + 1)]
          [] OTHER -> exts[k + 1]
  IN exts[1]

Bits(str) == UNION { Bit(e) : e \in Extensions(str) }

-----------------------------------------------------------------------------
(* The harts *)

Cpus == LET n == ByPath("cpus")
        IN IF n = 0 THEN <<>>
           ELSE SelectSeq([m \in Nodes |-> m], LAMBDA m : Depth(m) > 0 /\ FdtParent(m) = n)

\* riscv_cpu_isa()
HasIsa(n) ==
  /\ PropIs(n, "device_type", "cpu") /\ PropIs(n, "compatible", "riscv")
  /\ IsEnabled(n) /\ HasProp(n, "isa")

\* riscv_cpu_hartid()
HasHartid(n) == HasIsa(n) /\ Prop(n, "isa").prefix # "other" /\ HasProp(n, "reg")
Hartid(n) == ReadValue(Prop(n, "reg")) % CellBase

\* The CPUs with a valid ISA string
ValidIsa(n) == HasIsa(n) /\ Prop(n, "isa").prefix = "rv64"

\* The common subset; the first hart finds the bitmap empty, and so does one
\* after harts that have nothing in common.
Merged(all, one) == IF all = {} THEN one ELSE all \cap one

\* parse_isa_ext(): memcpy() takes as many bytes as there are words.
ParseIsaExt ==
  /\ dpc = "config" /\ kpc = "isa"
  /\ LET all == FoldLeft(LAMBDA b, n : Merged(b, Bits(Prop(n, "isa").str)), {}, SelectSeq(Cpus, ValidIsa))
     IN kip' = [kip EXCEPT !.isa = { b \in all : b < 8 * Words32 }]
  /\ kpc' = "harts"
  /\ UNCHANGED <<ctx, dvars>>

HartNum(n) == IF n > MaxHarts THEN MaxHarts ELSE n

\* parse_harts() and get_timebase_frequency()
ParseHarts ==
  /\ dpc = "config" /\ kpc = "harts"
  /\ LET ids == SelectSeq(Cpus, HasHartid)
         n == HartNum(Len(ids))
         cpus == ByPath("cpus")
     IN kip' = [kip EXCEPT !.harts = [i \in 1..n |-> Hartid(ids[i])],
                           !.timebase = IF cpus # 0 /\ HasProp(cpus, "timebase")
                                        THEN Prop(cpus, "timebase") ELSE 0]
  /\ kpc' = "plic"
  /\ UNCHANGED <<ctx, dvars>>

-----------------------------------------------------------------------------
(* parse_interrupt_target_contexts() *)

Plic == LET n == ByCompatible("riscv,plic0")
        IN IF n # 0 THEN n ELSE ByCompatible("sifive,plic-1.0.0")

ExtSizes == <<1, 1>>
Contexts == Elements(Plic, "interrupts-extended", ExtSizes)
Handle(c) == Field(Plic, "interrupts-extended", ExtSizes, c, 1)
Irq(c) == Field(Plic, "interrupts-extended", ExtSizes, c, 2)

PlicFound(at) ==
  /\ kip' = IF at = {} THEN kip ELSE [kip EXCEPT !.plic = Min(at)]
  /\ kpc' = IF at # {} /\ IsValid(Plic, "interrupts-extended", ExtSizes) THEN "contexts" ELSE "done"

ParsePlic ==
  /\ dpc = "config" /\ kpc = "plic"
  /\ PlicFound(IF Plic = 0 THEN {} ELSE GetReg(Plic))
  /\ UNCHANGED <<ctx, dvars>>

\* The interrupt controller of a context, if it can be resolved
Resolves(c) ==
  LET ic == ByPhandle(Handle(c))
  IN ic # 0 /\ HasProp(ic, "interrupt-controller") /\ PropIs(ic, "interrupt-cells", 1)

\* Mutant: contexts without an interrupt are entered as well.
HartOf_AnyIrq(c) ==
  { h \in DOMAIN kip.harts : kip.harts[h] = Hartid(ParentNode(ByPhandle(Handle(c)))) }

\* The place of the hart of a context in the list, empty if it has none
HartOf(c) ==
  LET ic == ByPhandle(Handle(c))
      hart == ParentNode(ic)
  IN IF Irq(c) = CellBase - 1 \/ ~PropIs(ic, "compatible", "cpu-intc") \/ hart = 0 THEN {}
     ELSE IF ~HasHartid(hart) THEN {}
     ELSE LET at == { h \in DOMAIN kip.harts : kip.harts[h] = Hartid(hart) }
          IN IF at = {} THEN {} ELSE {Min(at)}

\* A context that cannot be resolved ends the iteration.
ParseContext ==
  /\ dpc = "config" /\ kpc = "contexts"
  /\ IF ctx < Contexts /\ Resolves(ctx + 1)
     THEN /\ kip' = [kip EXCEPT !.target = [h \in 1..MaxHarts |->
                                   IF h \in HartOf(ctx + 1) THEN ctx ELSE kip.target[h]]]
          /\ ctx' = ctx + 1
          /\ UNCHANGED kpc
     ELSE kpc' = "done" /\ UNCHANGED <<kip, ctx>>
  /\ UNCHANGED dvars

KStep == ParseIsaExt \/ ParseHarts \/ ParsePlic \/ ParseContext

-----------------------------------------------------------------------------
(* Properties *)

\* The kernel is told exactly the extensions all harts with a valid ISA string
\* have, every single letter and Sstc among them, provided isa_ext[] has four
\* words (memcpy() takes a byte per word) and no harts with nothing in common
\* are followed by another one: the bitmap is empty then as it is at first, and
\* starts again with that hart.  The extensions a hart has are given with the
\* machine, the string is what Isa_parser reads.
IsaSound ==
  LET harts == SelectSeq(Cpus, ValidIsa)
      Has(i) == Prop(harts[i], "isa").has
      Common(k) == { b \in 0..31 : \A i \in 1..k : b \in Has(i) }
  IN kpc # "isa" /\ harts # <<>> /\ (\A k \in 1..(Len(harts) - 1) : Common(k) # {}) =>
       kip.isa = Common(Len(harts))

\* The context of a hart in the list is one whose interrupt controller sits
\* below this very hart and that has an interrupt; if every context can be
\* resolved, no hart of the list with such a context is left without.
TargetsRight ==
  LET Owner(c) == FdtParent(ByPhandle(Handle(c)))
      Serves(c, h) == /\ Irq(c) # CellBase - 1
                      /\ PropIs(ByPhandle(Handle(c)), "compatible", "cpu-intc")
                      /\ Owner(c) # 0 /\ HasHartid(Owner(c)) /\ Hartid(Owner(c)) = kip.harts[h]
  IN kpc = "done" =>
       \A h \in DOMAIN kip.harts :
         /\ kip.target[h] # NoCtx => Resolves(kip.target[h] + 1) /\ Serves(kip.target[h] + 1, h)
         /\ Plic # 0 /\ ctx > 0 /\ ctx = Contexts =>
              \A c \in 1..Contexts : Serves(c, h) => kip.target[h] >= c - 1

=============================================================================
