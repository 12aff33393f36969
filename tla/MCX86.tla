------------------------------- MODULE MCX86 -------------------------------
(***************************************************************************)
(* Multiboot 1 and 2 boots and EFI boots with small maps.  The structures  *)
(* for a framebuffer are larger than its tag, which comes last, before     *)
(* tags that are skipped, or before tags that are converted.               *)
(***************************************************************************)
EXTENDS X86Boot

MCTags == {RamTag, ArchTag, NoMemTag, DontUseTag, FwBootTag, KernelTag, VbeTag,
           OldTag, NewTag, ModTag, CpuFwTag}

T(type, n) == [type |-> type, cells |-> n, rgb |-> TRUE]
Fb == T("fb", 2)
Text == [type |-> "fb", cells |-> 2, rgb |-> FALSE]
End == <<T("end", 1)>>

MCTagLists ==
  { x \o <<T("other", n)>> \o y \o End :
      n \in {3, 14},
      x \in { <<T("cmdline", 4), T("module", 3), T("module", 5), T("memmap", 5)>>,
              <<T("memmap", 5), T("rsdp", 3), T("cmdline", 2), T("module", 4), T("module", 2), T("module", 3)>>,
              <<T("module", 6), T("other", 1), T("memmap", 5)>>,
              <<T("rsdp", 2), Text, T("memmap", 5), T("cmdline", 7)>> },
      y \in { <<>>, <<Fb>>, <<T("other", 2), T("rsdp", 4), Fb>>, <<T("rsdp", 5)>>,
              <<Fb, T("other", 2), T("other", 1)>>, <<T("rsdp", 3), Fb, T("other", 4)>>,
              <<Fb, T("rsdp", 3)>>, <<Fb, T("rsdp", 2), T("other", 3)>> } }

R(p, n) == StartSize(p * PageSize, n * PageSize, RamTag)
E(p, n, t) == [r |-> R(p, n), type |-> t]

MCE820 == << E(4, 4, "memory"), E(5, 1, "acpi"), E(1, 2, "memory") >>

E820Maps ==
  { << E(1, 3, "memory"), E(4, 1, "reserved"), E(5, 3, "memory") >>,
    << E(4, 2, "nvs"), E(3, 5, "memory"), E(1, 1, "unusable"), E(2, 1, "unknown") >>,
    << E(0, 2, "reserved"), E(2, 3, "memory") >>,
    << E(2, 3, "memory"), E(4, 2, "memory") >>,
    << E(6, 2, "pmem"), E(1, 5, "memory") >> }

EfiMaps ==
  { << E(1, 2, "conventional"), E(3, 1, "bs"), E(4, 1, "acpi"), E(5, 3, "conventional") >>,
    << E(5, 3, "conventional"), E(1, 1, "bs"), E(2, 2, "loader"), E(4, 1, "runtime") >>,
    << E(1, 3, "bs"), E(4, 3, "conventional"), E(7, 1, "nvs") >>,
    << E(4, 3, "conventional"), E(1, 5, "conventional"), E(2, 1, "bs") >>,
    << E(1, 2, "acpi"), E(2, 2, "nvs"), E(5, 2, "conventional") >> }

Mode(o, c, g) == [ok |-> o, current |-> c, rgb |-> g]
MCModes == { <<>>, <<Mode(TRUE, FALSE, TRUE), Mode(TRUE, TRUE, TRUE)>>,
             <<Mode(FALSE, TRUE, TRUE)>>, <<Mode(TRUE, TRUE, FALSE)>> }

\* Modules in the image of bootstrap
InImage == [image |-> TRUE, at |-> 0, flag |-> FALSE, cmdline |-> 0, len |-> 0, modsAt |-> 0,
            video |-> FALSE, mode |-> 0, ctrl |-> 0, mods |-> <<>>, modaddr |-> 0]

B(o, v, m) == [origin |-> o, arm |-> FALSE, version |-> v, map |-> m, hasMap |-> TRUE, lower |-> 0,
               upper |-> 0, ebda |-> 0, low |-> 3 * PageSize, modes |-> <<>>, mbi |-> InImage,
               own |-> <<StartSize(2 * PageSize, 2, FwBootTag)>>]

Sizes ==
  { [B("multiboot", 1, <<>>) EXCEPT !.hasMap = FALSE, !.lower = l, !.upper = u, !.ebda = e] :
      l \in {0, 7, 8, 9}, u \in {0, 3 * PageSize}, e \in {0, 5, 6} }

\* Modules of the boot loader: n modules on pages in one of several orders,
\* the information in front of, between or behind them, and the place for
\* the modules given.
Mod(p, n, s, f) == [start |-> p * PageSize, end |-> p * PageSize + n, str |-> s, len |-> 3, fw |-> f]

ModLists(p, s) ==
  { << Mod(p + 1, 5, s, FALSE), Mod(p + 3, 4, s + 3, FALSE), Mod(p + 5, 2, s + 6, FALSE), Mod(p, 3, s + 9, TRUE) >>,
    << Mod(p + 5, 7, s, FALSE), Mod(p, 4, s + 3, FALSE), Mod(p + 2, 6, s + 6, TRUE) >>,
    << Mod(p, 6, s, FALSE), Mod(p + 2, 3, s + 3, FALSE), Mod(p + 3, 8, s + 6, FALSE), Mod(p + 6, 1, s + 9, FALSE) >>,
    << Mod(p, 0, s, FALSE) >>, <<>> }

Infos ==
  { [image |-> FALSE, at |-> x[1], flag |-> c, cmdline |-> IF c THEN x[1] + 18 ELSE 0, len |-> 2,
     modsAt |-> x[1] + 2, video |-> v, mode |-> x[1] + 20, ctrl |-> x[1] + 22,
     mods |-> x[2], modaddr |-> PageSize * d] :
      x \in UNION { {y[2]} \X ModLists(y[1], y[2] + 6) : y \in {<<5, 48>>, <<5, 54>>, <<11, 20>>} },
      c \in BOOLEAN, v \in BOOLEAN, d \in {2, 5, 6, 7, 12} }

Loaded == { [B("multiboot", 1, << E(1, 20, "memory") >>) EXCEPT !.mbi = i] : i \in Infos }

MCBoots ==
  Loaded \cup
  { B("multiboot", 1, m) : m \in E820Maps } \cup { B("multiboot", 2, <<>>) } \cup Sizes
    \cup { [B("efi", 1, m) EXCEPT !.modes = g, !.arm = a] : m \in EfiMaps, g \in MCModes, a \in BOOLEAN }

\* Multiboot 1 and EFI boots have no tags.
MCInit == Init /\ (Version2 \/ tags = CHOOSE t \in TagLists : TRUE)
MCSpec == MCInit /\ [][Next]_vars
=============================================================================
