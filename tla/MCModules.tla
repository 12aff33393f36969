----------------------------- MODULE MCModules -----------------------------
(***************************************************************************)
(* Three modules, in any order, in eight pages of four bytes; the first    *)
(* page is in use.                                                         *)
(***************************************************************************)
EXTENDS ModuleMove

CONSTANTS busy, root,
  Grain,     \* the alignment of the modules in memory
  Sizes      \* the sizes of the modules

MCTags == {busy, root}
Busy == <<[begin |-> 0, end |-> PageSize - 1, tag |-> busy]>>
Ram == <<[begin |-> 0, end |-> MaxAddr, tag |-> busy]>>
Aligned(g) == { a \in PageSize..MaxAddr : a % g = 0 }

Apart(s, z, x, y) == s[x] + z[x] <= s[y] \/ s[y] + z[y] <= s[x]

Total(z) == RoundPage(z[1]) + RoundPage(z[2]) + RoundPage(z[3])

MCLayouts ==
  { l \in [start : Aligned(Grain) \X Aligned(Grain) \X Aligned(Grain),
           size : Sizes \X Sizes \X Sizes,
           to : Aligned(PageSize), ram : {Ram}, busy : {Busy}] :
      /\ \A x \in 1..3 : l.start[x] + l.size[x] - 1 <= MaxAddr
      /\ \A x, y \in 1..3 : x # y => Apart(l.start, l.size, x, y)
      /\ l.to + Total(l.size) - 1 <= MaxAddr }

\* Every area is one find_free_ram() would answer with.
ASSUME AreasFree == \A l \in Layouts : FreeArea(l)

=============================================================================
