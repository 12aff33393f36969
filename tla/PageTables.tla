----------------------------- MODULE PageTables -----------------------------
(***************************************************************************)
(* The page tables of the amd64 boot loader: ptab_map_range() of paging.c  *)
(* with the two ptab_alloc() it is linked with, the static pool of the     *)
(* 32-bit stub and the free RAM of the 64-bit part.                        *)
(*                                                                         *)
(* Addresses are counted in pages.  The linear and the physical address    *)
(* are the same in every call.  The recursion of ptab_map_level() is a     *)
(* walk that goes down a level in a step, and back up to the first level   *)
(* whose loop goes on.                                                     *)
(***************************************************************************)
EXTENDS Naturals, Sequences, FiniteSetsExt

CONSTANTS
  Entries,     \* PTAB_ENTRY_NUM
  PoolPages    \* the pages of ptab_alloc()'s pool

ASSUME TableAssumption ==
  /\ Entries \in Nat \ {0, 1}
  /\ PoolPages \in Nat \ {0}

VARIABLES
  tabs,       \* the tables in the order of their allocation; the first is the root
  long,       \* the code runs in the 64-bit part
  gig,        \* the CPU has 1 GiB pages (CPUFEXT_PDPE1GB)
  walk,       \* ptab_map_level(): level, table of each level, address, rest of the size
  asked,      \* history: the pages ptab_map_range() was asked to map
  full        \* ptab_alloc() panics

tvars == <<tabs, long, gig, walk, asked, full>>

Root == 3
Done == 4      \* the level of a walk that is over

NoEntry == [valid |-> FALSE, leaf |-> FALSE, to |-> 0]
Empty == [i \in 0..(Entries - 1) |-> NoEntry]

\* ptab_size() in pages
PtabSize[level \in 0..Done] == IF level = 0 THEN 1 ELSE Entries * PtabSize[level - 1]
FindPtabe(level, la) == (la \div PtabSize[level]) % Entries
Aligned(level, a) == a % PtabSize[level] = 0

\* Every amd64 CPU has CPUF_PSE.
AllowLeaf(level) == level \in {0, 1} \/ (level = 2 /\ gig)

NoWalk == [level |-> Done, path |-> [l \in 0..Root |-> 0], la |-> 0, size |-> 0]

TInit ==
  /\ tabs = <<>>
  /\ long = FALSE
  /\ gig \in BOOLEAN
  /\ walk = NoWalk
  /\ asked = {}
  /\ full = FALSE

\* ptab_alloc(): the stub compares the next page with the end of the pool, and
\* gives out one page behind it; the 64-bit part takes a page of free RAM, if
\* there is one (OutOfRam).
AllocPanics == ~long /\ Len(tabs) > PoolPages

\* base_paging_init(): the root table and the mapping of memory up to `end'
BasePagingInit(end) ==
  /\ tabs' = <<Empty>>
  /\ walk' = [level |-> Root, path |-> [l \in 0..Root |-> 1], la |-> 0, size |-> end]
  /\ asked' = 0..(end - 1)
  /\ UNCHANGED <<long, gig, full>>

\* ptab_map_range()
MapRange(la, size) ==
  /\ walk' = [level |-> Root, path |-> [l \in 0..Root |-> 1], la |-> la, size |-> size]
  /\ asked' = asked \cup la..(la + size - 1)
  /\ UNCHANGED <<tabs, long, gig, full>>

\* Mutant: the loop of a level does not end with its table.
Resume_NoEnd(level, la, size) == IF size = 0 THEN Done ELSE level

\* The level whose loop goes on: while ((*size > 0) && !is_ptab_aligned(level + 1, *la))
Resume(level, la, size) ==
  IF size = 0 THEN Done
  ELSE Min({ k \in level..Root : ~Aligned(k + 1, la) } \cup {Done})

\* Entry e becomes a leaf: nothing is mapped there, and a whole page fits.
BecomesLeaf(l, e) == ~e.valid /\ Aligned(l, walk.la) /\ walk.size >= PtabSize[l]

EndsHere(l, e) == AllowLeaf(l) /\ ((e.valid /\ e.leaf) \/ BecomesLeaf(l, e))

\* An entry that is a leaf, or becomes one, is done.
MapLeaf ==
  /\ walk.level < Done /\ ~full
  /\ LET l == walk.level
         t == walk.path[l]
         i == FindPtabe(l, walk.la)
         e == tabs[t][i]
         new == BecomesLeaf(l, e)
         la == walk.la + PtabSize[l]
         size == IF PtabSize[l] <= walk.size THEN walk.size - PtabSize[l] ELSE 0
     IN /\ EndsHere(l, e)
        /\ tabs' = IF new THEN [tabs EXCEPT ![t][i] = [valid |-> TRUE, leaf |-> TRUE, to |-> walk.la]]
                          ELSE tabs
        /\ walk' = [walk EXCEPT !.level = Resume(l, la, size), !.la = la, !.size = size]
  /\ UNCHANGED <<long, gig, asked, full>>

NeedsTable(e) == ~e.valid

\* Any other entry leads to the table of the next level.
Descend ==
  /\ walk.level < Done /\ ~full
  /\ LET l == walk.level
         t == walk.path[l]
         i == FindPtabe(l, walk.la)
         e == tabs[t][i]
         to == IF NeedsTable(e) THEN Len(tabs) + 1 ELSE e.to
     IN /\ l > 0
        /\ ~EndsHere(l, e)
        /\ IF NeedsTable(e) /\ AllocPanics
           THEN full' = TRUE /\ UNCHANGED <<tabs, walk>>
           ELSE /\ tabs' = IF NeedsTable(e)
                           THEN Append([tabs EXCEPT ![t][i] = [valid |-> TRUE, leaf |-> FALSE, to |-> to]], Empty)
                           ELSE tabs
                /\ walk' = [walk EXCEPT !.level = l - 1, !.path[l - 1] = to]
                /\ UNCHANGED full
  /\ UNCHANGED <<long, gig, asked>>

\* The 64-bit part needs a table, and there is no free page for it.
OutOfRam ==
  /\ long /\ walk.level < Done /\ ~full
  /\ LET l == walk.level
         e == tabs[walk.path[l]][FindPtabe(l, walk.la)]
     IN l > 0 /\ ~EndsHere(l, e) /\ NeedsTable(e)
  /\ full' = TRUE
  /\ UNCHANGED <<tabs, long, gig, walk, asked>>

MapStep == MapLeaf \/ Descend \/ OutOfRam

\* What the CPU finds for linear page a: a function of the tables alone.
TableAt(a) ==
  LET at[l \in 0..Root] ==
        IF l = Root THEN 1
        ELSE LET up == at[l + 1]
                 e == tabs[up][FindPtabe(l + 1, a)]
             IN IF up # 0 /\ e.valid /\ ~e.leaf THEN e.to ELSE 0
  IN at

MapsTo(a, p) ==
  LET at == TableAt(a) IN
  \E l \in 0..Root :
    /\ at[l] # 0
    /\ LET e == tabs[at[l]][FindPtabe(l, a)]
       IN e.valid /\ e.leaf /\ e.to + (a % PtabSize[l]) = p

-----------------------------------------------------------------------------
(* Properties *)

\* All memory ptab_map_range() was asked for is mapped one to one when it
\* returns, whatever was mapped before and wherever tables had to be added.
\* The page tables are where the code runs: a hole is a fault without handler.
IdentityMapped == walk.level = Done => \A a \in asked : MapsTo(a, a)

\* The pool of the stub is enough for the 4 GiB it maps: no table lies behind
\* it, where ptab_alloc() would still hand out a page.
TablesInPool == ~long => Len(tabs) <= PoolPages /\ ~full

=============================================================================
