----------------------------- MODULE ModuleMove -----------------------------
(***************************************************************************)
(* Boot_modules::move_modules() of boot_modules.cc: the boot modules are   *)
(* compacted, in the order of their addresses, into one contiguous area,   *)
(* which may overlap the memory they lie in.  Modules that go up are moved *)
(* first, the last one first; then the modules that go down, in order.     *)
(*                                                                         *)
(* Memory is modelled byte by byte: a byte holds the k-th byte of module m *)
(* (<<m, k>>), zero, or something else.  The area was found by             *)
(* find_free_ram(): as its lower bound is a parameter, any range of free   *)
(* pages in RAM may be the answer.                                         *)
(***************************************************************************)
EXTENDS Regions

CONSTANTS
  ModTag,     \* Mod_reg, type Root
  MaxMods,    \* Max_mods, the size of the table mod_sorter
  Layouts     \* the inputs: records [start, size, to, ram, busy], where start
              \* and size are sequences with an entry for every module, `to'
              \* is the area found, ram lists the RAM, busy the regions in use

Zero == <<0, 0>>
Other == <<0, 1>>

\* The modules are loaded to pages of their own, as boot loaders do; a module
\* of one byte is not reserved by the code, and is left out.
ASSUME LayoutAssumption ==
  /\ ModTag \in Tags
  /\ MaxMods \in Nat
  /\ Layouts \subseteq [start : Seq(Addr), size : Seq(Addr \ {0}), to : Addr,
                       ram : Seq(Region), busy : Seq(Region)]
  /\ \A l \in Layouts :
       /\ Len(l.start) = Len(l.size) /\ Len(l.size) <= MaxMods
       /\ l.to % PageSize = 0
       /\ \A m \in 1..Len(l.size) :
            /\ l.start[m] % PageSize = 0
            /\ l.size[m] >= 2 /\ l.size[m] + PageSize - 1 <= MaxAddr
            /\ l.start[m] + l.size[m] - 1 <= MaxAddr
       /\ \A m, n \in 1..Len(l.size) :
            m # n => \/ l.start[m] + l.size[m] <= l.start[n]
                     \/ l.start[n] + l.size[n] <= l.start[m]
       /\ Ascending(l.busy)

VARIABLES
  in,        \* the input
  start,     \* where each module lies now
  data,      \* the contents of memory
  list,      \* the list regions
  sorter,    \* mod_sorter, the indices of the modules by address
  i,         \* the loop variable of the running loop
  endFwd,    \* end_fwd
  cursor,    \* cursor, the target of the first module that goes down
  fwdAddr,   \* end_fwd_addr, behind the target of the next module to go up
  pc

vars == <<in, start, data, list, sorter, i, endFwd, cursor, fwdAddr, pc>>

Count == Len(in.size)
Mods == 1..Count

Pages(m) == RoundPage(in.size[m])

\* calc_modules_size(): the sizes in whole pages are added up.
CalcModulesSize(l) ==
  LET sum[n \in 0..Len(l.size)] == IF n = 0 THEN 0 ELSE sum[n - 1] + RoundPage(l.size[n])
  IN sum[Len(l.size)]

\* The memory the boot loader was handed
Loaded(l) ==
  [a \in Addr |->
     LET inside == { m \in DOMAIN l.size : a \in l.start[m]..(l.start[m] + l.size[m] - 1) }
     IN IF inside = {} THEN Other
        ELSE LET m == CHOOSE x \in inside : TRUE IN <<m, a - l.start[m]>>]

Init ==
  /\ in \in Layouts
  /\ start = in.start
  /\ data = Loaded(in)
  /\ list = in.busy            \* the regions of the modules have been removed
  /\ sorter = <<>>
  /\ i = 1
  /\ endFwd = 0
  /\ cursor = in.to
  /\ fwdAddr = in.to
  /\ pc = "sort"

-----------------------------------------------------------------------------
(* mod_insert_sorted() *)

\* The place in front of the first module that starts at a higher address
SortPlace(m) ==
  LET higher == { k \in DOMAIN sorter : start[m] < start[sorter[k]] }
  IN IF higher = {} THEN Len(sorter) + 1
     ELSE CHOOSE k \in higher : \A j \in higher : k <= j

Sort ==
  /\ pc = "sort"
  /\ IF i > Count
     THEN /\ i' = 1
          /\ pc' = "split"
          /\ UNCHANGED sorter
     ELSE IF Len(sorter) >= MaxMods     \* "Too many modules for module sorter"
     THEN /\ pc' = "panic"
          /\ UNCHANGED <<i, sorter>>
     ELSE /\ sorter' = InsertAt(sorter, SortPlace(i), i)
          /\ i' = i + 1
          /\ UNCHANGED pc
  /\ UNCHANGED <<in, start, data, list, endFwd, cursor, fwdAddr>>

-----------------------------------------------------------------------------
(* The search for the first module that has to go down *)

\* Mutant: all modules are moved in one order.
GoesUp_Never(m) == FALSE

GoesUp(m) == cursor >= start[m]

Split ==
  /\ pc = "split"
  /\ IF i <= Count /\ GoesUp(sorter[i])
     THEN /\ cursor' = cursor + Pages(sorter[i])
          /\ i' = i + 1
          /\ UNCHANGED <<endFwd, fwdAddr, pc>>
     ELSE /\ endFwd' = i - 1
          /\ fwdAddr' = cursor
          /\ i' = i - 1
          /\ pc' = "up"
          /\ UNCHANGED cursor
  /\ UNCHANGED <<in, start, data, list, sorter>>

-----------------------------------------------------------------------------
(* move_module() and _move_module() *)

\* l4_round_page(x) - x, the rest of the last page
Rest(x) == Word(RoundPage(x) - x)

\* Mutant: a whole page is cleared behind a module that fills its last one.
Written_OnePageMore(src, dest, size) ==
  [a \in Addr |->
     IF a \in dest..(dest + size - 1) THEN data[src + (a - dest)]
     ELSE IF a \in (dest + size)..(TruncPage(dest + size) + PageSize - 1) THEN Zero
     ELSE data[a]]

\* memmove() of a module, and memset() of the rest of its last page
Written(src, dest, size) ==
  [a \in Addr |->
     IF a \in dest..(dest + size - 1) THEN data[src + (a - dest)]
     ELSE IF a \in (dest + size)..(dest + size + Rest(dest + size) - 1) THEN Zero
     ELSE data[a]]

\* The module's region; modules of one byte do not get one.
Reserved(r) == IF TooSmall(r) THEN list ELSE Placed(list, r)

Move(m, dest, next) ==
  LET r == [begin |-> dest, end |-> dest + in.size[m] - 1, tag |-> ModTag]
      first == [r EXCEPT !.end = dest]
      noRam == FindContaining(in.ram, first) = 0   \* "Would move module outside of RAM"
      inUse == Find(list, first) # 0               \* "Cannot move module"
      panics == \/ dest # start[m] /\ (noRam \/ inUse)
                \/ ~TooSmall(r) /\ Collides(list, r)
  IN IF panics
     THEN pc' = "panic" /\ UNCHANGED <<start, data, list>>
     ELSE /\ data' = IF dest = start[m] THEN data ELSE Written(start[m], dest, in.size[m])
          /\ list' = Reserved(r)
          /\ start' = [start EXCEPT ![m] = dest]
          /\ pc' = next

\* One module goes up, the highest of those left first.
MoveUp ==
  /\ pc = "up"
  /\ i > 0
  /\ LET m == sorter[i] IN
     /\ fwdAddr' = fwdAddr - Pages(m)
     /\ Move(m, fwdAddr - Pages(m), "up")
  /\ i' = i - 1
  /\ UNCHANGED <<in, sorter, endFwd, cursor>>

Turn ==
  /\ pc = "up"
  /\ i = 0
  /\ i' = endFwd + 1
  /\ pc' = "down"
  /\ UNCHANGED <<in, start, data, list, sorter, endFwd, cursor, fwdAddr>>

\* One module goes down, the lowest of those left first.
MoveDown ==
  /\ pc = "down"
  /\ i <= Count
  /\ LET m == sorter[i] IN
     /\ Move(m, cursor, "down")
     /\ cursor' = cursor + Pages(m)
  /\ i' = i + 1
  /\ UNCHANGED <<in, sorter, endFwd, fwdAddr>>

Finish ==
  /\ pc = "down"
  /\ i > Count
  /\ pc' = "done"
  /\ UNCHANGED <<in, start, data, list, sorter, i, endFwd, cursor, fwdAddr>>

Done == pc \in {"done", "panic"} /\ UNCHANGED vars

Next == Sort \/ Split \/ MoveUp \/ Turn \/ MoveDown \/ Finish \/ Done
Spec == Init /\ [][Next]_vars

-----------------------------------------------------------------------------
(* Properties *)

Ends(m) == start[m] + in.size[m]

\* Type invariant.
TypeOK ==
  /\ in \in Layouts
  /\ start \in [Mods -> Addr]
  /\ data \in [Addr -> {Zero, Other} \cup (Mods \X Addr)]
  /\ list \in Seq(Region)
  /\ sorter \in Seq(Mods)
  /\ i \in 0..(Count + 1) /\ endFwd \in 0..Count /\ cursor \in Nat /\ fwdAddr \in Nat
  /\ pc \in {"sort", "split", "up", "down", "done", "panic"}

\* move_modules(): "Source and destination regions may overlap."  At every
\* moment each module, moved or not yet moved, is intact where it lies: no
\* move and no zero fill overwrites a module.
ModulesIntact ==
  \A m \in Mods : \A k \in 0..(in.size[m] - 1) : data[start[m] + k] = <<m, k>>

\* What find_free_ram() promised of the area holds for the part of it that is
\* laid out: it lies in one RAM region, and no region in use lies in it.
AreaFound ==
  /\ \E x \in DOMAIN in.ram : in.ram[x].begin <= in.to /\ cursor - 1 <= in.ram[x].end
  /\ \A x \in DOMAIN in.busy : in.busy[x].end < in.to \/ cursor <= in.busy[x].begin

\* Nothing outside of the part that is laid out is written to.
WrittenInArea == \A a \in Addr \ (in.to..(cursor - 1)) : data[a] = Loaded(in)[a]

\* Only the area found for the modules is written to: what is laid out never
\* grows beyond the size calc_modules_size() computed, which adds the modules
\* up in another order.
OnlyTargetWritten == cursor <= in.to + CalcModulesSize(in) /\ AreaFound /\ WrittenInArea

\* The answer of find_free_ram(): an area of the computed size in one RAM
\* region, with no region in use in it.
FreeArea(l) ==
  /\ \E x \in DOMAIN l.ram :
       l.ram[x].begin <= l.to /\ l.to + CalcModulesSize(l) - 1 <= l.ram[x].end
  /\ \A x \in DOMAIN l.busy :
       l.busy[x].end < l.to \/ l.to + CalcModulesSize(l) <= l.busy[x].begin

\* No move is refused, and in the end the modules are reserved, byte for byte
\* and in place of the regions removed before ("add new reserved regions in
\* move_modules() afterwards").
ModulesReserved ==
  /\ pc # "panic"
  /\ pc = "done" => \A m \in Mods : start[m]..(Ends(m) - 1) \subseteq Covered(list)

\* The rest of the last page of a module that was moved is zero in the end; a
\* later move does not spoil it.
TailsZero ==
  pc = "done" => \A m \in Mods : start[m] # in.start[m] =>
    \A a \in Ends(m)..(Ends(m) + Rest(Ends(m)) - 1) : data[a] = Zero

\* move_modules() as its callers see it: modules are intact at every moment, in
\* the end they are reserved, and followed by zeros up to the next page.
ModulesMoved == TypeOK /\ ModulesIntact /\ ModulesReserved /\ TailsZero

=============================================================================
