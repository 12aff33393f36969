------------------------------ MODULE KmemArea ------------------------------
(***************************************************************************)
(* Memory set aside for the kernel: setup_kmem_areas() and                 *)
(* add_kmem_area_on_ram() of startup.cc.  For every -kmemarea parameter    *)
(* and every RAM region it meets, the list `regions' is scanned from its   *)
(* beginning, and the holes of the list within the area become kernel      *)
(* memory.  The scan restarts whenever it has added a region.              *)
(*                                                                         *)
(* `regions' is taken to have room for the new entries, and to be sorted   *)
(* and without kernel memory before: no other code makes such regions.     *)
(***************************************************************************)
EXTENDS Regions

CONSTANTS
  Kmem,     \* the tag of the new regions
  Cases     \* the inputs: records [ram, list, areas] of sequences of regions

ASSUME KmemAssumption ==
  /\ Kmem \in Tags
  /\ Cases \subseteq [ram : Seq(Region), list : Seq(Region), areas : Seq(Region)]
  /\ \A c \in Cases : Ascending(c.list) /\ \A i \in DOMAIN c.list : c.list[i].tag # Kmem

VARIABLES
  in,        \* the input
  list,      \* the list regions
  area,      \* index of the -kmemarea parameter
  ri,        \* index of the RAM region
  add,       \* r_add, what is left of the area to add
  reg,       \* index of r_reg, the region looked at
  hit,       \* this_reg_in_ram
  new,       \* this_reg_added (and added, within one scan)
  any,       \* added: the result of setup_kmem_areas()
  pc

vars == <<in, list, area, ri, add, reg, hit, new, any, pc>>

Init ==
  /\ in \in Cases
  /\ list = in.list
  /\ area = 1
  /\ ri = 1
  /\ add = [begin |-> 0, end |-> 0, tag |-> Kmem]
  /\ reg = 1
  /\ hit = FALSE
  /\ new = FALSE
  /\ any = FALSE
  /\ pc = "ram"

\* regions.add(Region(b, e, ".kmemarea", Region::Kmem)); where it collides the
\* boot loader panics.
AddKmem(b, e, next) ==
  LET k == [begin |-> b, end |-> e, tag |-> Kmem]
      panics == ~TooSmall(k) /\ Collides(list, k)
  IN /\ list' = IF TooSmall(k) \/ panics THEN list ELSE Placed(list, k)
     /\ pc' = IF panics THEN "panic" ELSE next

-----------------------------------------------------------------------------
(* setup_kmem_areas() *)

\* The next RAM region for the current parameter
Ram ==
  /\ pc = "ram"
  /\ area <= Len(in.areas)
  /\ ri <= Len(in.ram)
  /\ LET k == in.areas[area]
         m == Overlaps(k, in.ram[ri])
     IN /\ pc' = IF m THEN "scan" ELSE "ram"
        /\ hit' = (hit \/ m)
        /\ add' = IF m THEN Intersect(k, in.ram[ri]) ELSE add
        /\ ri' = IF m THEN ri ELSE ri + 1
  /\ reg' = 1
  /\ UNCHANGED <<in, list, area, new, any>>

\* The next parameter
Area ==
  /\ pc = "ram"
  /\ area <= Len(in.areas)
  /\ ri > Len(in.ram)
  /\ area' = area + 1
  /\ ri' = 1
  /\ any' = (any \/ (hit /\ new))
  /\ hit' = FALSE
  /\ new' = FALSE
  /\ UNCHANGED <<in, list, add, reg, pc>>

Finish ==
  /\ pc = "ram"
  /\ area > Len(in.areas)
  /\ pc' = "done"
  /\ UNCHANGED <<in, list, area, ri, add, reg, hit, new, any>>

-----------------------------------------------------------------------------
(* add_kmem_area_on_ram() *)

\* Nothing of the area remains behind region r.
CoversRest(r) == add.end <= r.end

\* One iteration of the scan: region r_reg is passed, or memory in front of
\* it is added, or it covers the rest of the area, or the start of the rest.
Scan ==
  /\ pc = "scan"
  /\ reg <= Len(list)
  /\ LET r == list[reg] IN
     \/ /\ ~Overlaps(add, r)
        /\ reg' = reg + 1
        /\ UNCHANGED <<list, ri, add, new, pc>>
     \/ /\ Overlaps(add, r) /\ add.begin < r.begin
        /\ AddKmem(add.begin, r.begin - 1, "scan")
        /\ new' = TRUE
        /\ reg' = 1
        /\ UNCHANGED <<ri, add>>
     \/ /\ Overlaps(add, r) /\ add.begin >= r.begin /\ CoversRest(r)
        /\ ri' = ri + 1
        /\ pc' = "ram"
        /\ UNCHANGED <<list, add, reg, new>>
     \/ /\ Overlaps(add, r) /\ add.begin >= r.begin /\ ~CoversRest(r)
        /\ add' = [add EXCEPT !.begin = r.end + 1]
        /\ reg' = reg + 1
        /\ UNCHANGED <<list, ri, new, pc>>
  /\ UNCHANGED <<in, area, hit, any>>

\* What remains behind the last region
AddRest ==
  /\ pc = "scan"
  /\ reg > Len(list)
  /\ AddKmem(add.begin, add.end, "ram")
  /\ new' = TRUE
  /\ ri' = ri + 1
  /\ UNCHANGED <<in, area, add, reg, hit, any>>

Done == pc \in {"done", "panic"} /\ UNCHANGED vars

Step == Ram \/ Area \/ Finish \/ Scan \/ AddRest
Next == Step \/ Done
Spec == Init /\ [][Next]_vars /\ WF_vars(Step)

-----------------------------------------------------------------------------
(* Properties *)

\* Type invariant.
TypeOK ==
  /\ in \in Cases
  /\ list \in Seq(Region)
  /\ area \in Nat /\ ri \in Nat /\ reg \in Nat
  /\ add \in Region
  /\ {hit, new, any} \subseteq BOOLEAN
  /\ pc \in {"ram", "scan", "done", "panic"}

KmemBytes(l) == UNION { Bytes(l[i]) : i \in { j \in DOMAIN l : l[j].tag = Kmem } }

\* The parameters that have been worked off claim exactly the RAM within them
\* that no region had: the restarted scans miss no hole, claim none twice,
\* and never touch memory in use.
KmemIsFreeRam ==
  pc = "ram" /\ ri = 1 =>
    KmemBytes(list) =
      ((UNION { Bytes(in.areas[i]) : i \in 1..(area - 1) }) \cap Covered(in.ram))
        \ Covered(in.list)

\* "overlap with any region from the list of 'ram' regions, but not with any
\* existing region in the 'regions' list": the additions never panic, and the
\* list stays sorted and free of overlaps throughout.
KmemKeepsOrder ==
  /\ pc # "panic"
  /\ Ascending(list)

\* The result (it makes the kernel look for memory descriptors of this type)
\* tells whether there is kernel memory.
KmemReported == pc = "done" => (any <=> KmemBytes(list) # {})

\* The scan ends although it starts over with every region it adds.
KmemEnds == <>(pc = "done")

\* setup_kmem_areas() as its callers see it: exactly the free RAM of the areas
\* becomes kernel memory, the list keeps its order through all restarts of the
\* scan, and the result says whether there is any.
KmemRight == TypeOK /\ KmemIsFreeRam /\ KmemKeepsOrder /\ KmemReported

=============================================================================
