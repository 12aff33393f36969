----------------------------- MODULE RegionList -----------------------------
(***************************************************************************)
(* Class Region_list (region.h, region.cc): a sorted array of regions in   *)
(* a store of fixed size, and the calls startup() makes on the list        *)
(* `regions', in the order of its phases:                                  *)
(*                                                                         *)
(*   map   memory map and module regions are added, overlaps panic;        *)
(*   elf   the segments of kernel, sigma0 and roottask are added; they may *)
(*         lie on top of temporary regions (module images, the multiboot   *)
(*         info), which are removed at the end of the phase;               *)
(*   run   modules, kernel memory, ... are added, loaded images are        *)
(*         subtracted, neighbours are merged.                              *)
(*                                                                         *)
(* One call is a sequence of steps: the loops of optimize() and            *)
(* remove_if() take one step per iteration.  A panic or a failed assertion *)
(* halts the machine.                                                      *)
(***************************************************************************)
EXTENDS Regions

CONSTANTS
  Capacity,      \* number of entries of the backing store
  AddrLimit,     \* _address_limit
  MaxCombined,   \* _max_combined_size, or Unlimited
  TempTags,      \* Mod_reg (type Boot) and Boot_temporary regions
  ModTags,       \* Mod_reg regions of moved modules
  MergedTag,     \* Mod_reg regions after merge_mod_regions()
  Sysalloc,      \* the list sysalloc, fixed after setup_sysalloc_map()
  Requests       \* the calls: records [op, r]

Unlimited == -1
Ops == {"add", "add_free", "add_elf", "sub", "optimize", "merge", "remove_if"}
PermTags == Tags \ TempTags

ASSUME ListAssumption ==
  /\ Capacity \in Nat \ {0}
  /\ AddrLimit \in Addr \ {0}
  /\ MaxCombined \in Nat \cup {Unlimited}
  /\ TempTags \subseteq Tags
  /\ ModTags \subseteq PermTags
  /\ MergedTag \in PermTags
  /\ Sysalloc \in Seq(Region)
  /\ Requests \subseteq [op : Ops, r : Region]

VARIABLES
  list,       \* the array [_reg, _end)
  combined,   \* _combined_size (only of a list with a size limit)
  phase,      \* the phase of startup()
  pc,         \* the step the running call is at
  cur,        \* the loop variable of optimize() and remove_if()
  mem,        \* the region add() is about to insert
  overlap,    \* the argument may_overlap of that insertion
  call,       \* history: the call that is running
  snap,       \* history: the list when the call began
  squeezed    \* history: the list was full when a call of the phase
              \* `elf' had to insert a region

vars == <<list, combined, phase, pc, cur, mem, overlap, call, snap, squeezed>>

Phases == {"map", "elf", "run"}
Control == {"idle", "insert", "optimize", "halted"} \cup Ops
NoRegion == [begin |-> 0, end |-> 0, tag |-> MergedTag]
NoCall == [op |-> "add", r |-> NoRegion]

Perm(r) == r.tag \notin TempTags
Limited == MaxCombined # Unlimited

\* Mutant: the check comes one entry too late.
Full_Late == Len(list) > Capacity

Full == Len(list) >= Capacity

Init ==
  /\ list = <<>>
  /\ combined = 0
  /\ phase = "map"
  /\ pc = "idle"
  /\ cur = 1
  /\ mem = NoRegion
  /\ overlap = FALSE
  /\ call = NoCall
  /\ snap = <<>>
  /\ squeezed = FALSE

-----------------------------------------------------------------------------
(* Calls, and how they end *)

\* The calls startup() makes in each phase.  In phase `elf' plain additions
\* are of memory that find_free_ram() has just returned.
Admissible(q) ==
  CASE phase = "map" -> q.op = "add"
    [] phase = "elf" -> \/ q.op = "add_elf" /\ Perm(q.r)
                        \/ q.op = "add_free" /\ Perm(q.r) /\ Find(list, q.r) = 0
                        \/ q.op = "remove_if"
    [] phase = "run" -> \/ q.op = "add" /\ Perm(q.r)
                        \/ q.op \in {"sub", "optimize", "merge"}

Call(q) ==
  /\ pc = "idle"
  /\ Admissible(q)
  /\ pc' = q.op
  /\ call' = q
  /\ snap' = list
  /\ cur' = 1
  /\ UNCHANGED <<list, combined, phase, mem, overlap, squeezed>>

\* startup() turns to the ELF images.
BeginElf ==
  /\ pc = "idle"
  /\ phase = "map"
  /\ phase' = "elf"
  /\ UNCHANGED <<list, combined, pc, cur, mem, overlap, call, snap, squeezed>>

Return ==
  /\ pc' = "idle"
  /\ call' = NoCall
  /\ snap' = <<>>
  /\ mem' = NoRegion
  /\ overlap' = FALSE
  /\ cur' = 1

\* panic() and a failed assert() do not return.
Halt ==
  /\ pc' = "halted"
  /\ UNCHANGED <<list, combined, phase, cur, mem, overlap, call, snap, squeezed>>

-----------------------------------------------------------------------------
(* add() and add_nolimitcheck() *)

\* The region that remains of r below the address limit, and then within the
\* size limit.
Clip(r) == IF r.end > AddrLimit THEN [r EXCEPT !.end = AddrLimit - 1] ELSE r

\* Mutant: one byte more than is left.
Cap_OffByOne(r) ==
  IF Limited /\ Word(combined + Size(r)) > MaxCombined
  THEN [r EXCEPT !.end = r.begin + MaxCombined - combined]
  ELSE r

Cap(r) ==
  IF Limited /\ Word(combined + Size(r)) > MaxCombined
  THEN [r EXCEPT !.end = r.begin + MaxCombined - combined - 1]
  ELSE r

\* The setter end() asserts begin <= end.
ClipAsserts(r) == ~Invalid(r) /\ r.begin = AddrLimit /\ r.end > AddrLimit

Drops(r) ==
  \/ Invalid(r)
  \/ r.begin > AddrLimit
  \/ Limited /\ combined >= MaxCombined

\* The body of add(r, ov) up to the search for the insertion point, when the
\* array has become l.
StartAdd(l, r, ov) ==
  LET m == Cap(Clip(r)) IN
  IF ClipAsserts(r) THEN Halt
  ELSE
    /\ list' = l
    /\ \/ /\ Drops(r) \/ TooSmall(m)
          /\ Return
          /\ UNCHANGED squeezed
       \/ /\ ~Drops(r) /\ ~TooSmall(m)
          /\ mem' = m
          /\ overlap' = ov
          /\ pc' = IF Len(l) >= Capacity THEN "optimize" ELSE "insert"
          /\ squeezed' = (squeezed \/ (phase = "elf" /\ Len(l) >= Capacity))
          /\ UNCHANGED <<cur, call, snap>>
    /\ UNCHANGED <<combined, phase>>

Add ==
  /\ pc \in {"add", "add_free"}
  /\ StartAdd(list, call.r, FALSE)

\* l4_exec_add_region(): overlaps with temporary regions are tolerated, and
\* the segment must lie within sysalloc.
AddElf ==
  /\ pc = "add_elf"
  /\ LET clash == \E i \in DOMAIN list : Overlaps(list[i], call.r) /\ Perm(list[i])
         k == Find(Sysalloc, call.r)
         inside == k # 0 /\ Encloses(Sysalloc[k], call.r)
     IN IF clash \/ ~inside THEN Halt ELSE StartAdd(list, call.r, TRUE)

\* "Region overflow" and "Region overlap"
InsertPanics == Full \/ (~overlap /\ Collides(list, mem))

Insert ==
  /\ pc = "insert"
  /\ IF InsertPanics THEN Halt
     ELSE /\ list' = Placed(list, mem)
          /\ combined' = IF Limited THEN Word(combined + Size(mem)) ELSE combined
          /\ Return
          /\ UNCHANGED <<phase, squeezed>>

-----------------------------------------------------------------------------
(* optimize(), merge_mod_regions(), remove_if(), sub() *)

\* Mutant: regions of different kinds are merged.
Mergeable_AnyTag(c, n) == RoundPage(c.end) >= TruncPage(n.begin)

Mergeable(c, n) == n.tag = c.tag /\ RoundPage(c.end) >= TruncPage(n.begin)

\* Mutant: the iterator stays where it is.
Advance_Not == UNCHANGED cur

Advance == cur' = cur + 1

\* One iteration of optimize().  When add() called it for lack of space, the
\* insertion follows.
Optimize ==
  /\ pc = "optimize"
  /\ LET c == list[cur]
         n == list[cur + 1] IN
     \/ /\ cur >= Len(list)
        /\ IF mem # NoRegion
           THEN /\ pc' = "insert"
                /\ UNCHANGED <<list, combined, phase, cur, mem, overlap, call, snap, squeezed>>
           ELSE Return /\ UNCHANGED <<list, combined, phase, squeezed>>
     \/ /\ cur < Len(list)
        /\ Mergeable(c, n)
        /\ IF n.end < c.begin THEN Halt
           ELSE /\ list' = RemoveAt([list EXCEPT ![cur] = [c EXCEPT !.end = n.end]], cur + 1)
                /\ UNCHANGED <<combined, phase, pc, cur, mem, overlap, call, snap, squeezed>>
     \/ /\ cur < Len(list)
        /\ ~Mergeable(c, n)
        /\ Advance
        /\ UNCHANGED <<list, combined, phase, pc, mem, overlap, call, snap, squeezed>>

Merge ==
  /\ pc = "merge"
  /\ list' = [i \in DOMAIN list |-> IF list[i].tag \in ModTags
                                    THEN [list[i] EXCEPT !.tag = MergedTag]
                                    ELSE list[i]]
  /\ pc' = "optimize"
  /\ UNCHANGED <<combined, phase, cur, mem, overlap, call, snap, squeezed>>

\* One iteration of remove_if() with the conditions that construct_mbi() and
\* move_modules() pass; afterwards no temporary region is left.
RemoveIf ==
  /\ pc = "remove_if"
  /\ \/ /\ cur > Len(list)
        /\ Return
        /\ phase' = "run"
        /\ UNCHANGED <<list, combined, squeezed>>
     \/ /\ cur <= Len(list)
        /\ IF Perm(list[cur])
           THEN Advance /\ UNCHANGED list
           ELSE list' = RemoveAt(list, cur) /\ UNCHANGED cur
        /\ UNCHANGED <<combined, phase, pc, mem, overlap, call, snap, squeezed>>

\* What remains of entry c below and above region r.
LowPart(c, r) == [c EXCEPT !.end = r.begin - 1]

\* Mutant: the byte behind the region is lost.
HighPart_OffByOne(c, r) == [c EXCEPT !.begin = r.end + 2]

HighPart(c, r) == [c EXCEPT !.begin = r.end + 1]

\* sub(): the first entry that contains the region shrinks, vanishes, or is
\* split; the upper part of a split goes through add() again.
Sub ==
  /\ pc = "sub"
  /\ LET r == call.r
         k == FindContaining(list, r)
         c == list[k]
         Becomes(l) == list' = l /\ Return /\ UNCHANGED <<combined, phase, squeezed>>
     IN \/ k = 0 /\ Becomes(list)
        \/ k # 0 /\ c.begin = r.begin /\ c.end = r.end /\ Becomes(RemoveAt(list, k))
        \/ k # 0 /\ c.begin = r.begin /\ c.end # r.end /\ Becomes([list EXCEPT ![k] = HighPart(c, r)])
        \/ k # 0 /\ c.begin # r.begin /\ c.end = r.end /\ Becomes([list EXCEPT ![k] = LowPart(c, r)])
        \/ /\ k # 0 /\ c.begin # r.begin /\ c.end # r.end
           /\ StartAdd([list EXCEPT ![k] = LowPart(c, r)], HighPart(c, r), FALSE)

Halted == pc = "halted" /\ UNCHANGED vars

Step == Add \/ AddElf \/ Insert \/ Optimize \/ Merge \/ RemoveIf \/ Sub

Next ==
  \/ \E q \in Requests : Call(q)
  \/ BeginElf
  \/ Step
  \/ Halted

\* A running call takes its next step: nothing preempts the boot loader.
Spec == Init /\ [][Next]_vars /\ WF_vars(Step)

-----------------------------------------------------------------------------
(* Properties *)

SumSizes(l) == FoldLeft(LAMBDA n, r : n + Size(r), 0, l)

\* Type invariant of the list machine.
TypeOK ==
  /\ list \in Seq(Region)
  /\ snap \in Seq(Region)
  /\ combined \in Nat
  /\ phase \in Phases
  /\ pc \in Control
  /\ cur \in Nat \ {0}
  /\ mem \in Region
  /\ overlap \in BOOLEAN
  /\ call \in [op : Ops, r : Region]
  /\ squeezed \in BOOLEAN

\* The array never outgrows its store: add_nolimitcheck() is the only writer
\* that extends it, also when optimize() ran in between.
StoreBound == Len(list) <= Capacity

\* While the ELF images are laid out an entry may precede a temporary region
\* it overlaps; every other pair is disjoint and in ascending order.
SortedUpToTemps(l) ==
  \A i, j \in DOMAIN l : i < j =>
    \/ Before(l[i], l[j])
    \/ Perm(l[i]) /\ ~Perm(l[j]) /\ Overlaps(l[i], l[j])

\* add_nolimitcheck(): "The resulting list is sorted in ascending order", in
\* every phase and between any two steps of a call, and the entries are
\* disjoint but for images laid over temporary regions.  It relies on the
\* list not being full while ELF images are laid out.
RegionsSorted ==
  ~squeezed => IF phase = "elf" THEN SortedUpToTemps(list) ELSE Ascending(list)

\* The phase each step belongs to.  In phase `elf' optimize() runs only on
\* behalf of an insertion into a full list, and only there overlaps are
\* tolerated.
StepsInPhase ==
  /\ pc \in {"add_free", "add_elf", "remove_if"} => phase = "elf"
  /\ pc \in {"sub", "merge"} => phase = "run"
  /\ pc = "add" => phase # "elf"
  /\ pc = "optimize" => phase # "elf" \/ squeezed
  /\ overlap => phase = "elf"

NoPermOverlap(r) ==
  \A i \in DOMAIN list : Perm(list[i]) => ~Overlaps(list[i], r)

\* What the callers checked still holds when the region is inserted.
CheckedClear ==
  /\ pc = "add_elf" => Perm(call.r)
  /\ pc = "add_free" => Perm(call.r) /\ NoPermOverlap(call.r)
  /\ pc = "insert" /\ phase = "elf" /\ ~squeezed => Perm(mem) /\ NoPermOverlap(mem)

\* The entries remove_if() has passed are permanent.
PassedPerm ==
  pc = "remove_if" => \A j \in DOMAIN list : j < cur => Perm(list[j])

\* The inductive strengthening of RegionsSorted.
SortedInv == RegionsSorted /\ StepsInPhase /\ CheckedClear /\ PassedPerm

\* Every call implements the abstract effect of MemoryClaims when it returns,
\* as long as the list has room while ELF images are laid out.
Owner(l) == [a \in Addr |-> { l[i].tag : i \in { j \in DOMAIN l : a \in Bytes(l[j]) } }]
Claims == INSTANCE MemoryClaims WITH
  owner <- Owner(IF pc = "idle" THEN list ELSE snap),
  request <- call
ImplementsClaims ==
  /\ Claims!Init
  /\ [][squeezed' \/ Claims!Next]_<<Owner(IF pc = "idle" THEN list ELSE snap), call>>

\* Every call returns or panics: optimize() and remove_if() terminate.
CallsEnd == pc # "idle" ~> pc \in {"idle", "halted"}

\* No entry reaches above _address_limit, however it was added, clipped, split
\* and merged.
AddressesKept == \A i \in DOMAIN list : list[i].end <= AddrLimit

\* A list with limits (the list ram) holds no address above _address_limit and
\* no more than _max_combined_size bytes, however its entries were added,
\* clipped and merged.
LimitsKept ==
  /\ AddressesKept
  /\ Limited => SumSizes(list) <= MaxCombined

=============================================================================
