----------------------------- MODULE KmemProofs -----------------------------
(***************************************************************************)
(* Proofs about the scan for kernel memory, for every memory map, list of  *)
(* regions in use and sequence of -kmemarea parameters.                    *)
(***************************************************************************)
EXTENDS KmemArea, RegionLemmas

USE WordAssumption

-----------------------------------------------------------------------------
(* The invariants *)

\* The scan has passed only regions that do not meet what is left of the area.
Passed == \A j \in 1..(reg - 1) : ~Overlaps(add, list[j])

\* The list is sorted, and the scan within its bounds.
OrderInv ==
  /\ Ascending(list) /\ pc # "panic"
  /\ area \in 1..(Len(in.areas) + 1) /\ ri >= 1 /\ reg >= 1
  /\ pc = "scan" => /\ area <= Len(in.areas) /\ ri <= Len(in.ram) /\ reg <= Len(list) + 1
                    /\ Passed

\* The addresses at which a region of the list l begins, and those behind one
Edges(l) == { l[i].begin : i \in DOMAIN l } \cup { l[i].end + 1 : i \in DOMAIN l }
Cuts(c) == Edges(c.ram) \cup Edges(c.list) \cup Edges(c.areas)

\* No two bounds of the regions of an input lie one byte apart, as when all of
\* them are bounds of pages: the scan takes a hole of one byte for an empty one.
Coarse == \A c \in Cases : \A x \in Cuts(c) : x + 1 \notin Cuts(c)

\* All bounds are bounds of the input.
BoundsKept ==
  /\ Edges(list) \subseteq Cuts(in)
  /\ pc = "scan" => add.begin \in Cuts(in) /\ add.end + 1 \in Cuts(in)

\* The RAM of the area that a scan works on
Meet == Intersect(in.areas[area], in.ram[ri])

\* The scan is in an area on RAM, of which it has left behind no free address.
Scanned ==
  pc = "scan" =>
    /\ hit /\ Overlaps(in.areas[area], in.ram[ri])
    /\ add.end = Meet.end /\ Meet.begin <= add.begin
    /\ \A a \in Addr : Meet.begin <= a /\ a < add.begin => a \in Covered(list)

\* The regions in use are left alone.
UsedKept ==
  /\ \A i \in 1..Len(in.list) : \E j \in 1..Len(list) : list[j] = in.list[i]
  /\ \A j \in 1..Len(list) :
       list[j].tag # Kmem => \E i \in 1..Len(in.list) : list[j] = in.list[i]

\* Parameter k has been begun.
Begun(k) == k < area \/ (k = area /\ (ri > 1 \/ pc = "scan"))

\* Kernel memory lies in RAM and in an area already worked on.
KmemInArea ==
  \A j \in 1..Len(list) :
    list[j].tag = Kmem =>
      \E k \in 1..Len(in.areas) : \E m \in 1..Len(in.ram) :
        Begun(k) /\ Encloses(in.areas[k], list[j]) /\ Encloses(in.ram[m], list[j])

\* RAM region m has been searched for parameter k.
Searched(k, m) == k < area \/ (k = area /\ m < ri)

\* No free address has been left behind.
NoneMissed ==
  \A k \in 1..Len(in.areas) : \A m \in 1..Len(in.ram) :
    Searched(k, m) =>
      \A a \in Addr : a \in Bytes(in.areas[k]) /\ a \in Bytes(in.ram[m]) => a \in Covered(list)

\* The flags tell whether there is kernel memory.
Flagged ==
  /\ (\E j \in 1..Len(list) : list[j].tag = Kmem) <=> (any \/ new)
  /\ new => hit /\ area <= Len(in.areas)
  /\ pc = "done" => area > Len(in.areas)

ExactInv == BoundsKept /\ Scanned /\ UsedKept /\ KmemInArea /\ NoneMissed /\ Flagged

-----------------------------------------------------------------------------
(* The order of the list *)

\* The input consists of lists of regions.
LEMMA Input ==
  ASSUME TypeOK
  PROVE  /\ in \in Cases /\ in.ram \in Seq(Region) /\ in.list \in Seq(Region) /\ in.areas \in Seq(Region)
         /\ Len(in.ram) \in Nat /\ Len(in.list) \in Nat /\ Len(in.areas) \in Nat /\ Len(list) \in Nat
         /\ \A i \in 1..Len(in.ram) : in.ram[i] \in Region
         /\ \A i \in 1..Len(in.areas) : in.areas[i] \in Region
         /\ \A i \in 1..Len(list) : list[i] \in Region
<1>1. in \in [ram : Seq(Region), list : Seq(Region), areas : Seq(Region)] /\ list \in Seq(Region) /\ in \in Cases
  BY KmemAssumption DEF TypeOK
<1>2. in.ram \in Seq(Region) /\ in.list \in Seq(Region) /\ in.areas \in Seq(Region)
  BY <1>1
<1> QED BY <1>1, <1>2, Entries

\* What overlapping regions have in common is a region, in both of them.
LEMMA Common ==
  ASSUME NEW r \in Region, NEW o \in Region, Overlaps(r, o)
  PROVE  /\ Intersect(r, o) \in Region
         /\ Intersect(r, o).begin = IF r.begin > o.begin THEN r.begin ELSE o.begin
         /\ Intersect(r, o).end = IF r.end < o.end THEN r.end ELSE o.end
<1> DEFINE b == IF r.begin > o.begin THEN r.begin ELSE o.begin
           e == IF r.end < o.end THEN r.end ELSE o.end
<1>1. b \in Addr /\ e \in Addr /\ b <= e
  BY DEF Region, Addr, Overlaps, Before
<1>2. Intersect(r, o) = [r EXCEPT !.begin = b, !.end = e]
  BY DEF Intersect
<1> HIDE DEF b, e
<1>3. [r EXCEPT !.begin = b, !.end = e] \in Region
  BY <1>1 DEF Region
<1>4. [r EXCEPT !.begin = b, !.end = e].begin = b /\ [r EXCEPT !.begin = b, !.end = e].end = e
  BY DEF Region
<1> QED BY <1>2, <1>3, <1>4 DEF b, e

\* Where no region is, one can be added.
LEMMA AddedHole ==
  ASSUME TypeOK, Ascending(list), NEW b \in Addr, NEW e \in Addr, b <= e, NEW p,
         \A x \in 1..Len(list) : list[x].end < b \/ e < list[x].begin, AddKmem(b, e, p)
  PROVE  LET k == [begin |-> b, end |-> e, tag |-> Kmem] IN
         /\ k \in Region /\ pc' = p
         /\ list' = IF b = e THEN list ELSE Placed(list, k)
         /\ list' \in Seq(Region) /\ Ascending(list')
<1> DEFINE k == [begin |-> b, end |-> e, tag |-> Kmem]
<1>1. k \in Region /\ k.begin = b /\ k.end = e
  BY KmemAssumption DEF Region
<1>2. list \in Seq(Region)
  BY DEF TypeOK
<1> HIDE DEF k
<1>3. ~Collides(list, k)
  BY <1>1, <1>2, ApartNoCollision
<1>4. pc' = p /\ list' = IF b = e THEN list ELSE Placed(list, k)
  BY <1>1, <1>3 DEF AddKmem, TooSmall, k
<1>5. Placed(list, k) \in Seq(Region) /\ Ascending(Placed(list, k))
  BY <1>1, <1>2, <1>3, PlacedShape, PlacedSorted
<1> QED BY <1>1, <1>2, <1>4, <1>5 DEF k

\* The hole in front of a region that overlaps what is left of the area
LEMMA HoleInFront ==
  ASSUME TypeOK, OrderInv, pc = "scan", reg <= Len(list),
         Overlaps(add, list[reg]), add.begin < list[reg].begin
  PROVE  /\ add.begin \in Addr /\ list[reg].begin - 1 \in Addr
         /\ add.begin <= list[reg].begin - 1 /\ list[reg].begin - 1 < add.end
         /\ \A x \in 1..Len(list) : list[x].end < add.begin \/ list[reg].begin - 1 < list[x].begin
<1> DEFINE r == list[reg]
<1>0. list \in Seq(Region) /\ add \in Region /\ reg \in Nat /\ reg >= 1
  BY DEF TypeOK, OrderInv
<1>1. /\ reg \in 1..Len(list) /\ Len(list) \in Nat /\ reg \in Nat /\ DOMAIN list = 1..Len(list)
      /\ r \in Region /\ add \in Region /\ r.begin <= add.end
      /\ \A x \in 1..Len(list) : list[x] \in Region /\ list[x].begin \in Nat /\ list[x].end \in Nat
                                   /\ list[x].begin <= list[x].end
  <2>1. reg \in 1..Len(list)
    BY <1>0, Entries
  <2>2. r.begin <= add.end
    BY <1>0, <2>1, Entries, RegionBounds DEF Overlaps, Before
  <2> QED BY <1>0, <2>1, <2>2, Entries
<1>2. add.begin \in Addr /\ r.begin - 1 \in Addr /\ add.begin \in Nat /\ r.begin \in Nat /\ add.end \in Nat
  BY <1>1 DEF Region, Addr
<1>3. ASSUME NEW x \in 1..Len(list) PROVE list[x].end < add.begin \/ r.begin - 1 < list[x].begin
  <2>1. CASE x < reg
    <3>1. ~Overlaps(add, list[x])
      BY <1>1, <2>1 DEF OrderInv, Passed
    <3> QED BY <1>1, <1>2, <3>1 DEF Overlaps, Before
  <2>2. CASE x = reg
    BY <1>1, <1>2, <2>2
  <2>3. CASE x > reg
    <3>1. Before(r, list[x])
      BY <1>1, <2>3 DEF OrderInv, Ascending
    <3> QED BY <1>1, <1>2, <3>1 DEF Before
  <2> QED BY <1>1, <2>1, <2>2, <2>3
<1> HIDE DEF r
<1>4. add.begin <= r.begin - 1 /\ r.begin - 1 < add.end
  BY <1>1, <1>2 DEF r
<1> QED BY <1>2, <1>3, <1>4 DEF r

\* The hole behind the last region
LEMMA HoleBehind ==
  ASSUME TypeOK, OrderInv, pc = "scan", reg > Len(list)
  PROVE  /\ add.begin \in Addr /\ add.end \in Addr /\ add.begin <= add.end
         /\ \A x \in 1..Len(list) : list[x].end < add.begin \/ add.end < list[x].begin
<1>1. reg = Len(list) + 1 /\ Len(list) \in Nat /\ add \in Region
  BY Input DEF TypeOK, OrderInv
<1>2. \A x \in 1..Len(list) : ~Overlaps(add, list[x])
  BY <1>1 DEF OrderInv, Passed
<1>3. \A x \in 1..Len(list) : list[x].begin \in Nat /\ list[x].end \in Nat
  BY Entries DEF TypeOK
<1> QED BY <1>1, <1>2, <1>3 DEF Overlaps, Before, Region, Addr

\* The four ways on from region r_reg
ScanPass ==
  /\ ~Overlaps(add, list[reg])
  /\ reg' = reg + 1
  /\ UNCHANGED <<list, ri, add, new, pc>>
ScanAdd ==
  /\ Overlaps(add, list[reg]) /\ add.begin < list[reg].begin
  /\ AddKmem(add.begin, list[reg].begin - 1, "scan")
  /\ new' = TRUE
  /\ reg' = 1
  /\ UNCHANGED <<ri, add>>
ScanEnd ==
  /\ Overlaps(add, list[reg]) /\ add.begin >= list[reg].begin /\ CoversRest(list[reg])
  /\ ri' = ri + 1
  /\ pc' = "ram"
  /\ UNCHANGED <<list, add, reg, new>>
ScanCut ==
  /\ Overlaps(add, list[reg]) /\ add.begin >= list[reg].begin /\ ~CoversRest(list[reg])
  /\ add' = [add EXCEPT !.begin = list[reg].end + 1]
  /\ reg' = reg + 1
  /\ UNCHANGED <<list, ri, new, pc>>

\* See above.
LEMMA ScanCases ==
  ASSUME TypeOK, OrderInv, Scan
  PROVE  /\ pc = "scan" /\ reg \in 1..Len(list) /\ reg \in Nat /\ list[reg] \in Region
         /\ area \in 1..Len(in.areas) /\ ri \in 1..Len(in.ram)
         /\ UNCHANGED <<in, area, hit, any>>
         /\ ScanPass \/ ScanAdd \/ ScanEnd \/ ScanCut
<1>1. ScanPass \/ ScanAdd \/ ScanEnd \/ ScanCut
  BY DEF Scan, ScanPass, ScanAdd, ScanEnd, ScanCut
<1>2. pc = "scan" /\ reg \in 1..Len(list) /\ reg \in Nat
  BY Input DEF Scan, OrderInv, TypeOK
<1>3. area \in 1..Len(in.areas) /\ ri \in 1..Len(in.ram)
  BY <1>2, Input DEF OrderInv, TypeOK
<1>4. UNCHANGED <<in, area, hit, any>>
  BY DEF Scan
<1> QED BY <1>1, <1>2, <1>3, <1>4, Input

\* A region that covers the start of the rest leaves the part behind it.
LEMMA RestBehind ==
  ASSUME TypeOK, OrderInv, pc = "scan", reg \in 1..Len(list), ScanCut
  PROVE  /\ add' \in Region /\ add'.begin = list[reg].end + 1 /\ add'.end = add.end
         /\ add.begin <= add'.begin
         /\ \A a \in Addr : add.begin <= a /\ a < add'.begin => a \in Bytes(list[reg])
<1>1. list[reg] \in Region /\ add \in Region
  BY Input DEF TypeOK
<1>2. list[reg].end + 1 \in Addr /\ list[reg].end + 1 <= add.end /\ add.begin <= list[reg].end + 1
  BY <1>1 DEF ScanCut, CoversRest, Region, Addr, Overlaps, Before
<1>3. add' \in Region /\ add'.begin = list[reg].end + 1 /\ add'.end = add.end
  BY <1>1, <1>2, WithBegin DEF ScanCut
<1>4. \A a \in Addr : add.begin <= a /\ a < list[reg].end + 1 => a \in Bytes(list[reg])
  BY <1>1 DEF ScanCut, Region, Addr, Bytes
<1> QED BY <1>2, <1>3, <1>4

\* Every step keeps the type invariant and the order, whatever the input.
LEMMA OrderStep ==
  ASSUME TypeOK, OrderInv, [Next]_vars
  PROVE  TypeOK' /\ OrderInv'
<1>0. /\ list \in Seq(Region) /\ area \in Nat /\ ri \in Nat /\ reg \in Nat /\ add \in Region
      /\ hit \in BOOLEAN /\ new \in BOOLEAN /\ any \in BOOLEAN /\ in \in Cases
      /\ Len(in.areas) \in Nat /\ Len(in.ram) \in Nat /\ Len(list) \in Nat
  BY Input DEF TypeOK
<1>1. CASE Ram
  <2> DEFINE k == in.areas[area]
             o == in.ram[ri]
  <2>1. /\ pc = "ram" /\ area \in 1..Len(in.areas) /\ ri \in 1..Len(in.ram)
        /\ UNCHANGED <<in, list, area, new, any>> /\ reg' = 1
        /\ hit' = (hit \/ Overlaps(k, o))
    BY <1>0, <1>1 DEF Ram, OrderInv
  <2>2. CASE Overlaps(k, o)
    <3>1. pc' = "scan" /\ add' = Intersect(k, o) /\ ri' = ri
      BY <1>1, <2>2 DEF Ram
    <3>2. add' \in Region
      BY <2>1, <2>2, <3>1, Input, Common
    <3>3. hit' \in BOOLEAN
      BY <2>1 DEF Overlaps
    <3>4. TypeOK'
      BY <1>0, <2>1, <3>1, <3>2, <3>3 DEF TypeOK
    <3> QED BY <1>0, <2>1, <3>1, <3>4 DEF OrderInv, Passed
  <2>3. CASE ~Overlaps(k, o)
    <3>1. pc' = "ram" /\ add' = add /\ ri' = ri + 1
      BY <1>1, <2>3 DEF Ram
    <3>2. hit' \in BOOLEAN
      BY <2>1 DEF Overlaps
    <3>3. TypeOK'
      BY <1>0, <2>1, <3>1, <3>2 DEF TypeOK
    <3> QED BY <1>0, <2>1, <3>1, <3>3 DEF OrderInv
  <2> QED BY <2>2, <2>3
<1>2. CASE Area
  <2>1. TypeOK'
    <3>1. any' \in BOOLEAN
      BY <1>0, <1>2 DEF Area
    <3>2. hit' \in BOOLEAN /\ new' \in BOOLEAN
      BY <1>2, Zenon DEF Area
    <3>3. area' = area + 1 /\ ri' = 1
      BY <1>2, Zenon DEF Area
    <3>4. UNCHANGED <<in, list, add, reg, pc>>
      BY <1>2, Zenon DEF Area
    <3> QED BY <1>0, <3>1, <3>2, <3>3, <3>4 DEF TypeOK
  <2> QED BY <1>0, <1>2, <2>1 DEF Area, OrderInv
<1>3. CASE Finish
  <2>1. TypeOK'
    BY <1>0, <1>3 DEF Finish, TypeOK
  <2> QED BY <1>0, <1>3, <2>1 DEF Finish, OrderInv
<1>4. CASE Scan
  <2>1. /\ pc = "scan" /\ reg \in 1..Len(list) /\ list[reg] \in Region
        /\ area \in 1..Len(in.areas) /\ ri \in 1..Len(in.ram)
        /\ UNCHANGED <<in, area, hit, any>>
        /\ ScanPass \/ ScanAdd \/ ScanEnd \/ ScanCut
    BY <1>4, ScanCases
  <2>2. CASE ScanPass
    <3>1. TypeOK'
      BY <1>0, <2>1, <2>2 DEF ScanPass, TypeOK
    <3>2. Passed'
      <4>1. \A j \in 1..(reg - 1) : ~Overlaps(add, list[j])
        BY <2>1 DEF OrderInv, Passed
      <4>2. \A j \in 1..reg : ~Overlaps(add, list[j])
        BY <1>0, <2>2, <4>1 DEF ScanPass
      <4> QED BY <1>0, <2>2, <4>2 DEF ScanPass, Passed
    <3> QED BY <1>0, <2>1, <2>2, <3>1, <3>2 DEF ScanPass, OrderInv
  <2>3. CASE ScanAdd
    <3>1. list' \in Seq(Region) /\ Ascending(list') /\ pc' = "scan"
      <4> DEFINE e == list[reg].begin - 1
      <4>1. /\ add.begin \in Addr /\ e \in Addr /\ add.begin <= e
            /\ \A x \in 1..Len(list) : list[x].end < add.begin \/ e < list[x].begin
        BY <1>0, <2>1, <2>3, HoleInFront DEF ScanAdd
      <4>2. AddKmem(add.begin, e, "scan") /\ Ascending(list)
        BY <2>3 DEF ScanAdd, OrderInv
      <4> HIDE DEF e
      <4> QED BY <4>1, <4>2, AddedHole
    <3>2. TypeOK'
      BY <1>0, <2>1, <2>3, <3>1 DEF ScanAdd, TypeOK
    <3>3. reg' <= Len(list') + 1
      BY <2>3, <3>1, Entries DEF ScanAdd
    <3> QED BY <1>0, <2>1, <2>3, <3>1, <3>2, <3>3 DEF ScanAdd, OrderInv, Passed
  <2>4. CASE ScanEnd
    <3>1. TypeOK'
      BY <1>0, <2>1, <2>4 DEF ScanEnd, TypeOK
    <3> QED BY <1>0, <2>1, <2>4, <3>1 DEF ScanEnd, OrderInv
  <2>5. CASE ScanCut
    <3>1. add' \in Region /\ add'.begin = list[reg].end + 1 /\ add'.end = add.end /\ add.begin <= add'.begin
      BY <2>1, <2>5, RestBehind
    <3>2. TypeOK'
      BY <1>0, <2>1, <2>5, <3>1 DEF ScanCut, TypeOK
    <3>3. \A j \in 1..reg : ~Overlaps(add', list[j])
      <4>1. ASSUME NEW j \in 1..reg PROVE ~Overlaps(add', list[j])
        <5>1. /\ list[j].begin \in Nat /\ list[j].end \in Nat /\ add.begin \in Nat /\ add.end \in Nat
              /\ add'.begin \in Nat
          BY <1>0, <2>1, <3>1, Entries, RegionBounds
        <5>2. CASE j = reg
          BY <3>1, <5>1, <5>2 DEF Overlaps, Before
        <5>3. CASE j # reg
          <6>1. ~Overlaps(add, list[j])
            BY <1>0, <2>1, <5>3 DEF OrderInv, Passed
          <6> QED BY <3>1, <5>1, <6>1 DEF Overlaps, Before
        <5> QED BY <5>2, <5>3
      <4> QED BY <4>1
    <3>4. Passed'
      <4>1. reg' - 1 = reg /\ list' = list
        BY <1>0, <2>5 DEF ScanCut
      <4> QED BY <3>3, <4>1 DEF Passed
    <3> QED BY <1>0, <2>1, <2>5, <3>2, <3>4 DEF ScanCut, OrderInv
  <2> QED BY <2>1, <2>2, <2>3, <2>4, <2>5
<1>5. CASE AddRest
  <2>1. /\ pc = "scan" /\ reg > Len(list) /\ AddKmem(add.begin, add.end, "ram") /\ new' = TRUE
        /\ ri' = ri + 1 /\ UNCHANGED <<in, area, add, reg, hit, any>>
    BY <1>5 DEF AddRest
  <2>2. list' \in Seq(Region) /\ Ascending(list') /\ pc' = "ram"
    BY <2>1, HoleBehind, AddedHole DEF OrderInv
  <2>3. TypeOK'
    BY <1>0, <2>1, <2>2 DEF TypeOK
  <2> QED BY <1>0, <2>1, <2>2, <2>3 DEF OrderInv
<1>6. CASE UNCHANGED vars
  BY <1>6 DEF vars, TypeOK, OrderInv, Passed
<1> QED BY <1>1, <1>2, <1>3, <1>4, <1>5, <1>6 DEF Next, Step, Done

\* The scan starts in order.
LEMMA OrderInit ==
  ASSUME Init
  PROVE  TypeOK /\ OrderInv
<1>1. in \in [ram : Seq(Region), list : Seq(Region), areas : Seq(Region)] /\ in \in Cases
  BY KmemAssumption DEF Init
<1>2. in.list \in Seq(Region) /\ Len(in.areas) \in Nat
  BY <1>1, Entries
<1>3. [begin |-> 0, end |-> 0, tag |-> Kmem] \in Region
  BY KmemAssumption DEF Region, Addr
<1>4. TypeOK
  BY <1>1, <1>2, <1>3 DEF Init, TypeOK
<1> QED BY <1>1, <1>2, <1>4, KmemAssumption DEF Init, OrderInv

\* setup_kmem_areas() never makes regions.add() panic, whatever the memory
\* map, the regions in use and the parameters: what add_kmem_area_on_ram()
\* adds lies clear of all regions, although it changes the list it walks.
THEOREM KmemNeverPanics == Spec => [](TypeOK /\ KmemKeepsOrder)
<1>1. Init => TypeOK /\ OrderInv
  BY OrderInit
<1>2. TypeOK /\ OrderInv /\ [Next]_vars => TypeOK' /\ OrderInv'
  BY OrderStep
<1>3. OrderInv => KmemKeepsOrder
  BY DEF OrderInv, KmemKeepsOrder
<1> QED BY <1>1, <1>2, <1>3, PTL DEF Spec

-----------------------------------------------------------------------------
(* The memory that becomes kernel memory *)

\* The bounds of the regions of a list
LEMMA EdgesAt ==
  ASSUME NEW l \in Seq(Region)
  PROVE  \A x : x \in Edges(l) <=> \E i \in 1..Len(l) : x = l[i].begin \/ x = l[i].end + 1
BY Entries DEF Edges

\* The addresses of the regions of a list
LEMMA CoveredAt ==
  ASSUME NEW l \in Seq(Region)
  PROVE  /\ \A a : a \in Covered(l) <=> \E i \in 1..Len(l) : a \in Bytes(l[i])
         /\ \A i \in 1..Len(l) : Bytes(l[i]) \subseteq Addr
         /\ \A i \in 1..Len(l) : \A a \in Addr : a \in Bytes(l[i]) <=> l[i].begin <= a /\ a <= l[i].end
<1>1. DOMAIN l = 1..Len(l) /\ \A i \in 1..Len(l) : l[i] \in Region
  BY Entries
<1>2. \A a : a \in Covered(l) <=> \E i \in 1..Len(l) : a \in Bytes(l[i])
  BY <1>1 DEF Covered
<1>3. \A i \in 1..Len(l) : Bytes(l[i]) \subseteq Addr
  BY <1>1 DEF Bytes, Region, Addr
<1>4. \A i \in 1..Len(l) : \A a \in Addr : a \in Bytes(l[i]) <=> l[i].begin <= a /\ a <= l[i].end
  BY <1>1 DEF Bytes, Region, Addr
<1> QED BY <1>2, <1>3, <1>4

\* The addresses of an enclosed region
LEMMA EnclosedBytes ==
  ASSUME NEW o \in Region, NEW r \in Region, Encloses(o, r)
  PROVE  Bytes(r) \subseteq Bytes(o)
BY RegionBounds DEF Encloses, Bytes

\* What area and RAM region have in common
LEMMA MeetBounds ==
  ASSUME TypeOK, area \in 1..Len(in.areas), ri \in 1..Len(in.ram), Overlaps(in.areas[area], in.ram[ri])
  PROVE  /\ Meet \in Region
         /\ Meet.begin \in Cuts(in) /\ Meet.end + 1 \in Cuts(in)
         /\ in.areas[area].begin <= Meet.begin /\ Meet.end <= in.areas[area].end
         /\ in.ram[ri].begin <= Meet.begin /\ Meet.end <= in.ram[ri].end
         /\ \A a \in Addr : a \in Bytes(in.areas[area]) /\ a \in Bytes(in.ram[ri])
                              => Meet.begin <= a /\ a <= Meet.end
<1> DEFINE r == in.areas[area]
           o == in.ram[ri]
<1>1. r \in Region /\ o \in Region
  BY Input
<1>2. /\ Meet \in Region
      /\ Meet.begin = IF r.begin > o.begin THEN r.begin ELSE o.begin
      /\ Meet.end = IF r.end < o.end THEN r.end ELSE o.end
  BY <1>1, Common DEF Meet
<1>3. {r.begin, o.begin, r.end + 1, o.end + 1} \subseteq Cuts(in)
  <2>1. r.begin \in Edges(in.areas) /\ r.end + 1 \in Edges(in.areas)
    BY Input, EdgesAt
  <2>2. o.begin \in Edges(in.ram) /\ o.end + 1 \in Edges(in.ram)
    BY Input, EdgesAt
  <2> QED BY <2>1, <2>2 DEF Cuts
<1>4. r.begin \in Nat /\ r.end \in Nat /\ o.begin \in Nat /\ o.end \in Nat
  BY <1>1, RegionBounds
<1> HIDE DEF r, o
<1>5. r.begin <= Meet.begin /\ Meet.end <= r.end /\ o.begin <= Meet.begin /\ Meet.end <= o.end
  BY <1>2, <1>4
<1>6. Meet.begin \in Cuts(in) /\ Meet.end + 1 \in Cuts(in)
  BY <1>2, <1>3
<1>7. \A a \in Addr : a \in Bytes(r) /\ a \in Bytes(o) => Meet.begin <= a /\ a <= Meet.end
  BY <1>2, <1>4 DEF Bytes, Addr
<1> QED BY <1>2, <1>5, <1>6, <1>7 DEF r, o

\* A hole of the rest of the area is added.
LEMMA Grows ==
  ASSUME TypeOK, OrderInv, ExactInv, pc = "scan", NEW k \in Region, k.tag = Kmem,
         k.begin \in Cuts(in), k.end + 1 \in Cuts(in), add.begin <= k.begin, k.end <= add.end,
         list' = Placed(list, k), UNCHANGED <<in, area, hit, any>>, new' = TRUE,
         (ri' = ri /\ pc' = "scan") \/ (ri' = ri + 1 /\ pc' = "ram")
  PROVE  /\ Edges(list') \subseteq Cuts(in) /\ UsedKept' /\ KmemInArea' /\ Flagged'
         /\ \A a : a \in Covered(list) \/ a \in Bytes(k) => a \in Covered(list')
<1>1. /\ list \in Seq(Region) /\ list' \in Seq(Region) /\ Len(list) \in Nat /\ Len(list') = Len(list) + 1
      /\ \A x \in 1..Len(list') : list'[x] = k \/ \E y \in 1..Len(list) : list'[x] = list[y]
      /\ \E x \in 1..Len(list') : list'[x] = k
      /\ \A y \in 1..Len(list) : \E x \in 1..Len(list') : list'[x] = list[y]
  <2>1. list \in Seq(Region)
    BY DEF TypeOK
  <2>2. Len(list) \in Nat /\ Placed(list, k) \in Seq(Region) /\ Len(Placed(list, k)) = Len(list) + 1
    BY <2>1, Entries, PlacedShape
  <2>3. /\ \A x \in 1..(Len(list) + 1) :
             Placed(list, k)[x] = k \/ \E y \in 1..Len(list) : Placed(list, k)[x] = list[y]
        /\ \E x \in 1..(Len(list) + 1) : Placed(list, k)[x] = k
        /\ \A y \in 1..Len(list) : \E x \in 1..(Len(list) + 1) : Placed(list, k)[x] = list[y]
    BY <2>1, PlacedEntries
  <2> QED BY <2>1, <2>2, <2>3
<1>2. Edges(list') \subseteq Cuts(in)
  <2>1. Edges(list) \subseteq Cuts(in)
    BY DEF ExactInv, BoundsKept
  <2> QED BY <1>1, <2>1, EdgesAt
<1>3. UsedKept'
  <2>1. \A i \in 1..Len(in.list) : \E j \in 1..Len(list') : list'[j] = in.list[i]
    BY <1>1 DEF ExactInv, UsedKept
  <2>2. \A j \in 1..Len(list') : list'[j].tag # Kmem => \E i \in 1..Len(in.list) : list'[j] = in.list[i]
    <3>1. \A j \in 1..Len(list) : list[j].tag # Kmem => \E i \in 1..Len(in.list) : list[j] = in.list[i]
      BY DEF ExactInv, UsedKept
    <3>2. ASSUME NEW j \in 1..Len(list'), list'[j].tag # Kmem PROVE \E i \in 1..Len(in.list) : list'[j] = in.list[i]
      <4>1. PICK y \in 1..Len(list) : list'[j] = list[y]
        BY <1>1, <3>2
      <4> QED BY <3>1, <3>2, <4>1
    <3> QED BY <3>2
  <2> QED BY <2>1, <2>2 DEF UsedKept
<1>4. KmemInArea'
  <2>1. /\ area \in 1..Len(in.areas) /\ ri \in 1..Len(in.ram) /\ ri \in Nat /\ area \in Nat
        /\ Overlaps(in.areas[area], in.ram[ri]) /\ add.end = Meet.end /\ Meet.begin <= add.begin
    BY Input DEF TypeOK, OrderInv, ExactInv, Scanned
  <2>2. Encloses(in.areas[area], k) /\ Encloses(in.ram[ri], k)
    <3>1. /\ Meet \in Region
          /\ in.areas[area].begin <= Meet.begin /\ Meet.end <= in.areas[area].end
          /\ in.ram[ri].begin <= Meet.begin /\ Meet.end <= in.ram[ri].end
      BY <2>1, MeetBounds
    <3>2. /\ in.areas[area].begin \in Nat /\ in.areas[area].end \in Nat
          /\ in.ram[ri].begin \in Nat /\ in.ram[ri].end \in Nat
          /\ k.begin \in Nat /\ k.end \in Nat /\ add.begin \in Nat /\ add.end \in Nat
          /\ Meet.begin \in Nat /\ Meet.end \in Nat
      BY <2>1, <3>1, Input, RegionBounds DEF TypeOK
    <3>3. Meet.begin <= k.begin /\ k.end <= Meet.end
      BY <2>1, <3>2
    <3>4. in.areas[area].begin <= k.begin /\ k.end <= in.areas[area].end
      BY <3>1, <3>2, <3>3
    <3>5. in.ram[ri].begin <= k.begin /\ k.end <= in.ram[ri].end
      BY <3>1, <3>2, <3>3
    <3> QED BY <3>2, <3>4, <3>5 DEF Encloses
  <2>3. Begun(area)' /\ \A i \in 1..Len(in.areas) : Begun(i) => Begun(i)'
    BY <2>1 DEF Begun
  <2>4. ASSUME NEW x \in 1..Len(list'), list'[x].tag = Kmem
        PROVE  \E i \in 1..Len(in.areas) : \E m \in 1..Len(in.ram) :
                 Begun(i)' /\ Encloses(in.areas[i], list'[x]) /\ Encloses(in.ram[m], list'[x])
    <3>1. CASE list'[x] = k
      BY <2>1, <2>2, <2>3, <3>1
    <3>2. CASE \E y \in 1..Len(list) : list'[x] = list[y]
      BY <2>3, <2>4, <3>2 DEF ExactInv, KmemInArea
    <3> QED BY <1>1, <3>1, <3>2
  <2> QED BY <2>4 DEF KmemInArea, Begun
<1>5. Flagged'
  <2>1. \E x \in 1..Len(list') : list'[x].tag = Kmem
    BY <1>1
  <2>2. hit /\ area <= Len(in.areas)
    BY DEF OrderInv, ExactInv, Scanned
  <2>3. hit' /\ new' /\ area' <= Len(in'.areas) /\ pc' # "done"
    BY <2>2
  <2> QED BY <2>1, <2>3, Zenon DEF Flagged
<1>6. \A a : a \in Covered(list) \/ a \in Bytes(k) => a \in Covered(list')
  BY <1>1, CoveredAt
<1> QED BY <1>2, <1>3, <1>4, <1>5, <1>6

\* The next RAM region: the one left behind has no free address in the area.
LEMMA NextRam ==
  ASSUME TypeOK, NoneMissed, area \in 1..Len(in.areas), ri \in 1..Len(in.ram),
         UNCHANGED <<in, area>>, ri' = ri + 1,
         \A a : a \in Covered(list) => a \in Covered(list'),
         \A a \in Addr : a \in Bytes(in.areas[area]) /\ a \in Bytes(in.ram[ri]) => a \in Covered(list')
  PROVE  NoneMissed'
<1>1. ASSUME NEW k \in 1..Len(in.areas), NEW m \in 1..Len(in.ram), k < area \/ (k = area /\ m < ri + 1),
             NEW a \in Addr, a \in Bytes(in.areas[k]), a \in Bytes(in.ram[m])
      PROVE  a \in Covered(list')
  <2>1. CASE Searched(k, m)
    BY <1>1, <2>1 DEF NoneMissed
  <2>2. CASE ~Searched(k, m)
    <3>1. k = area /\ m = ri
      BY <1>1, <2>2, Input DEF Searched
    <3> QED BY <1>1, <3>1
  <2> QED BY <2>1, <2>2
<1> QED BY <1>1 DEF NoneMissed, Searched

\* As long as the list is unchanged, its entries only need the order of areas.
LEMMA SameEntries ==
  ASSUME UsedKept, KmemInArea, UNCHANGED <<in, list>>,
         \A k \in 1..Len(in.areas) : Begun(k) => Begun(k)'
  PROVE  UsedKept' /\ KmemInArea'
<1>1. UsedKept'
  BY DEF UsedKept
<1>2. ASSUME NEW j \in 1..Len(list), list[j].tag = Kmem
      PROVE  \E k \in 1..Len(in.areas) : \E m \in 1..Len(in.ram) :
               Begun(k)' /\ Encloses(in.areas[k], list[j]) /\ Encloses(in.ram[m], list[j])
  BY <1>2 DEF KmemInArea
<1>3. KmemInArea'
  BY <1>2 DEF KmemInArea, Begun
<1> QED BY <1>1, <1>3

\* A RAM region begins to be searched, or lies off the area.
LEMMA RamExact ==
  ASSUME TypeOK, OrderInv, ExactInv, Ram
  PROVE  ExactInv'
<1> DEFINE k == in.areas[area]
           o == in.ram[ri]
<1>1. /\ pc = "ram" /\ area \in 1..Len(in.areas) /\ ri \in 1..Len(in.ram) /\ ri \in Nat /\ area \in Nat
      /\ UNCHANGED <<in, list, area, new, any>> /\ k \in Region /\ o \in Region
  BY Input DEF Ram, OrderInv, TypeOK
<1>2. BoundsKept /\ UsedKept /\ KmemInArea /\ NoneMissed /\ Flagged
  BY DEF ExactInv
<1>3. CASE Overlaps(k, o)
  <2>1. pc' = "scan" /\ add' = Meet /\ ri' = ri /\ hit'
    BY <1>3 DEF Ram, Meet
  <2>2. Meet' = Meet
    BY <1>1, <2>1 DEF Meet
  <2>3. BoundsKept'
    BY <1>1, <1>2, <1>3, <2>1, MeetBounds DEF BoundsKept, Edges
  <2>4. Scanned'
    <3>1. Meet \in Region
      BY <1>1, <1>3, MeetBounds
    <3>2. Meet.begin <= Meet.begin /\ \A a \in Addr : ~(Meet.begin <= a /\ a < Meet.begin)
      BY <3>1, RegionBounds DEF Addr
    <3> QED BY <1>1, <1>3, <2>1, <2>2, <3>2 DEF Scanned
  <2>5. UsedKept' /\ KmemInArea'
    BY <1>1, <1>2, <2>1, SameEntries DEF Begun
  <2>6. NoneMissed'
    BY <1>1, <1>2, <2>1 DEF NoneMissed, Searched
  <2>7. Flagged'
    BY <1>1, <1>2, <2>1 DEF Flagged
  <2> QED BY <2>3, <2>4, <2>5, <2>6, <2>7 DEF ExactInv
<1>4. CASE ~Overlaps(k, o)
  <2>1. pc' = "ram" /\ add' = add /\ ri' = ri + 1 /\ (hit => hit')
    BY <1>4 DEF Ram
  <2>2. BoundsKept' /\ Scanned'
    BY <1>1, <1>2, <2>1 DEF BoundsKept, Scanned
  <2>3. UsedKept' /\ KmemInArea'
    BY <1>1, <1>2, <2>1, SameEntries DEF Begun
  <2>4. NoneMissed'
    <3>1. \A a \in Addr : ~(a \in Bytes(k) /\ a \in Bytes(o))
      <4>1. k.begin \in Nat /\ k.end \in Nat /\ o.begin \in Nat /\ o.end \in Nat
        BY <1>1, RegionBounds
      <4>2. k.end < o.begin \/ o.end < k.begin
        BY <1>4 DEF Overlaps, Before
      <4> HIDE DEF k, o
      <4> QED BY <4>1, <4>2 DEF Bytes
    <3> QED BY <1>1, <1>2, <2>1, <3>1, NextRam
  <2>5. Flagged'
    BY <1>1, <1>2, <2>1 DEF Flagged
  <2> QED BY <2>2, <2>3, <2>4, <2>5 DEF ExactInv
<1> QED BY <1>3, <1>4

\* A parameter has been worked off.
LEMMA AreaExact ==
  ASSUME TypeOK, OrderInv, ExactInv, Area
  PROVE  ExactInv'
<1>1. /\ pc = "ram" /\ area \in Nat /\ ri \in Nat /\ area <= Len(in.areas) /\ ri > Len(in.ram)
      /\ area' = area + 1 /\ ri' = 1 /\ UNCHANGED <<in, list, add, reg, pc>>
      /\ Len(in.areas) \in Nat /\ Len(in.ram) \in Nat
  BY Input DEF Area, TypeOK
<1>2. (any' <=> any \/ (hit /\ new)) /\ ~hit' /\ ~new'
  BY Zenon DEF Area
<1>3. BoundsKept /\ UsedKept /\ KmemInArea /\ NoneMissed /\ Flagged
  BY DEF ExactInv
<1>4. BoundsKept' /\ Scanned'
  BY <1>1, <1>3 DEF BoundsKept, Scanned
<1>5. UsedKept' /\ KmemInArea'
  <2>1. \A k \in 1..Len(in.areas) : Begun(k) => Begun(k)'
    BY <1>1 DEF Begun
  <2> QED BY <1>1, <1>3, <2>1, SameEntries
<1>6. NoneMissed'
  <2>1. \A k \in 1..Len(in.areas) : \A m \in 1..Len(in.ram) : Searched(k, m)' => Searched(k, m)
    BY <1>1 DEF Searched
  <2>2. \A k \in 1..Len(in.areas) : \A m \in 1..Len(in.ram) :
          Searched(k, m)' =>
            \A a \in Addr : a \in Bytes(in.areas[k]) /\ a \in Bytes(in.ram[m]) => a \in Covered(list)
    BY <1>3, <2>1 DEF NoneMissed
  <2> QED BY <1>1, <2>2 DEF NoneMissed, Searched
<1>7. Flagged'
  <2>1. new => hit
    BY <1>3 DEF Flagged
  <2>2. (any' \/ new') <=> (any \/ new)
    BY <1>2, <2>1
  <2>3. (\E j \in 1..Len(list) : list[j].tag = Kmem) <=> (any \/ new)
    BY <1>3 DEF Flagged
  <2>4. (\E j \in 1..Len(list') : list'[j].tag = Kmem) <=> (any' \/ new')
    BY <1>1, <2>2, <2>3
  <2> QED BY <1>1, <1>2, <2>4 DEF Flagged
<1> QED BY <1>4, <1>5, <1>6, <1>7 DEF ExactInv

\* The list is searched for one RAM region.
LEMMA ScanExact ==
  ASSUME Coarse, TypeOK, OrderInv, ExactInv, Scan
  PROVE  ExactInv'
<1> DEFINE r == list[reg]
<1>1. /\ pc = "scan" /\ reg \in 1..Len(list) /\ r \in Region /\ reg \in Nat /\ in \in Cases
      /\ area \in 1..Len(in.areas) /\ ri \in 1..Len(in.ram) /\ ri \in Nat /\ area \in Nat
      /\ UNCHANGED <<in, area, hit, any>> /\ list \in Seq(Region) /\ add \in Region
      /\ ScanPass \/ ScanAdd \/ ScanEnd \/ ScanCut
  BY ScanCases DEF TypeOK
<1>2. BoundsKept /\ Scanned /\ UsedKept /\ KmemInArea /\ NoneMissed /\ Flagged
  BY DEF ExactInv
<1>3. /\ hit /\ Overlaps(in.areas[area], in.ram[ri])
      /\ add.end = Meet.end /\ Meet.begin <= add.begin
      /\ \A a \in Addr : Meet.begin <= a /\ a < add.begin => a \in Covered(list)
  BY <1>1, <1>2 DEF Scanned
<1>4. /\ r.begin \in Cuts(in) /\ r.end + 1 \in Cuts(in)
      /\ add.begin \in Cuts(in) /\ add.end + 1 \in Cuts(in) /\ Edges(list) \subseteq Cuts(in)
  BY <1>1, <1>2, EdgesAt DEF BoundsKept
<1>5. Bytes(r) \subseteq Covered(list) /\ \A a \in Addr : a \in Bytes(r) <=> r.begin <= a /\ a <= r.end
  BY <1>1, CoveredAt
<1>6. r.begin \in Nat /\ r.end \in Nat /\ add.begin \in Nat /\ add.end \in Nat
  BY <1>1, RegionBounds
<1> HIDE DEF r
<1>7. CASE ScanPass
  <2>1. UNCHANGED <<in, list, area, ri, add, hit, new, any, pc>>
    BY <1>1, <1>7 DEF ScanPass
  <2> QED BY <1>2, <2>1 DEF ExactInv, BoundsKept, Scanned, Meet, UsedKept, KmemInArea, Begun,
                            NoneMissed, Searched, Flagged
<1>8. CASE ScanAdd
  <2> DEFINE e == r.begin - 1
             h == [begin |-> add.begin, end |-> e, tag |-> Kmem]
  <2>1. /\ add.begin \in Addr /\ e \in Addr /\ add.begin <= e /\ e < add.end
        /\ \A x \in 1..Len(list) : list[x].end < add.begin \/ e < list[x].begin
    BY <1>1, <1>8, HoleInFront DEF ScanAdd, r
  <2>2. AddKmem(add.begin, e, "scan") /\ Ascending(list) /\ new' = TRUE /\ UNCHANGED <<ri, add>>
    BY <1>8 DEF ScanAdd, OrderInv, r
  <2>3. e + 1 = r.begin /\ add.begin # e
    <3>1. r.begin # add.begin + 1
      BY <1>1, <1>4 DEF Coarse
    <3> QED BY <1>6, <3>1
  <2> HIDE DEF e
  <2>4. h \in Region /\ pc' = "scan" /\ list' = Placed(list, h)
    BY <2>1, <2>2, <2>3, AddedHole
  <2>5. h.begin = add.begin /\ h.end = e /\ h.tag = Kmem
    OBVIOUS
  <2> HIDE DEF h
  <2>6. add.begin <= h.begin /\ h.end <= add.end /\ h.begin \in Cuts(in) /\ h.end + 1 \in Cuts(in)
    BY <1>4, <1>6, <2>1, <2>3, <2>5 DEF Addr
  <2>7. /\ Edges(list') \subseteq Cuts(in) /\ UsedKept' /\ KmemInArea' /\ Flagged'
        /\ \A a : a \in Covered(list) \/ a \in Bytes(h) => a \in Covered(list')
    BY <1>1, <2>2, <2>4, <2>5, <2>6, Grows
  <2>8. BoundsKept'
    BY <1>1, <1>4, <2>2, <2>7 DEF BoundsKept
  <2>9. Scanned'
    BY <1>1, <1>3, <2>2, <2>7 DEF Scanned, Meet
  <2>10. NoneMissed'
    BY <1>1, <1>2, <2>2, <2>7 DEF NoneMissed, Searched
  <2> QED BY <2>7, <2>8, <2>9, <2>10 DEF ExactInv
<1>9. CASE ScanEnd
  <2>1. /\ Overlaps(add, r) /\ add.begin >= r.begin /\ add.end <= r.end
        /\ ri' = ri + 1 /\ pc' = "ram" /\ UNCHANGED <<in, area, list, add, new, any, hit>>
    BY <1>1, <1>9 DEF ScanEnd, CoversRest, r
  <2>2. BoundsKept' /\ Scanned'
    BY <1>2, <2>1 DEF BoundsKept, Scanned
  <2>3. UsedKept' /\ KmemInArea'
    <3>1. \A k \in 1..Len(in.areas) : Begun(k) => Begun(k)'
      BY <1>1, <2>1 DEF Begun
    <3> QED BY <1>2, <2>1, <3>1, SameEntries
  <2>4. \A a \in Addr : a \in Bytes(in.areas[area]) /\ a \in Bytes(in.ram[ri]) => a \in Covered(list)
    <3>1. ASSUME NEW a \in Addr, a \in Bytes(in.areas[area]), a \in Bytes(in.ram[ri])
          PROVE  a \in Covered(list)
      <4>1. Meet.begin <= a /\ a <= add.end
        BY <1>1, <1>3, <3>1, MeetBounds
      <4>2. CASE a < add.begin
        BY <1>3, <4>1, <4>2
      <4>3. CASE ~(a < add.begin)
        BY <1>5, <1>6, <2>1, <4>1, <4>3 DEF Addr
      <4> QED BY <4>2, <4>3
    <3> QED BY <3>1
  <2>5. NoneMissed'
    BY <1>1, <1>2, <2>1, <2>4, NextRam
  <2>6. Flagged'
    BY <1>1, <1>2, <2>1 DEF Flagged
  <2> QED BY <2>2, <2>3, <2>5, <2>6 DEF ExactInv
<1>10. CASE ScanCut
  <2>1. /\ add' \in Region /\ add'.begin = r.end + 1 /\ add'.end = add.end /\ add.begin <= add'.begin
        /\ \A a \in Addr : add.begin <= a /\ a < add'.begin => a \in Bytes(r)
    BY <1>1, <1>10, RestBehind DEF r
  <2>2. UNCHANGED <<in, area, list, ri, new, any, hit, pc>>
    BY <1>1, <1>10 DEF ScanCut
  <2>3. BoundsKept'
    BY <1>4, <2>1, <2>2 DEF BoundsKept
  <2>4. Scanned'
    <3>1. Meet' = Meet
      BY <2>2 DEF Meet
    <3>2. Meet \in Region
      BY <1>1, <1>3, MeetBounds
    <3>3. Meet.begin \in Nat /\ add'.begin \in Nat
      BY <2>1, <3>2, RegionBounds
    <3>4. Meet.begin <= add'.begin
      BY <1>3, <1>6, <2>1, <3>3
    <3>5. \A a \in Addr : Meet.begin <= a /\ a < add'.begin => a \in Covered(list)
      BY <1>3, <1>5, <1>6, <2>1 DEF Addr
    <3> QED BY <1>3, <2>1, <2>2, <3>1, <3>4, <3>5 DEF Scanned
  <2>5. UsedKept' /\ KmemInArea' /\ NoneMissed' /\ Flagged'
    BY <1>2, <2>2 DEF UsedKept, KmemInArea, Begun, NoneMissed, Searched, Flagged
  <2> QED BY <2>3, <2>4, <2>5 DEF ExactInv
<1> QED BY <1>1, <1>7, <1>8, <1>9, <1>10

\* What remains behind the last region is added.
LEMMA AddRestExact ==
  ASSUME Coarse, TypeOK, OrderInv, ExactInv, AddRest
  PROVE  ExactInv'
<1> DEFINE h == [begin |-> add.begin, end |-> add.end, tag |-> Kmem]
<1>1. /\ pc = "scan" /\ reg > Len(list) /\ AddKmem(add.begin, add.end, "ram") /\ new' = TRUE
      /\ ri' = ri + 1 /\ UNCHANGED <<in, area, add, hit, any>>
      /\ area \in 1..Len(in.areas) /\ ri \in 1..Len(in.ram) /\ in \in Cases /\ Ascending(list)
  BY Input DEF AddRest, OrderInv, TypeOK
<1>2. BoundsKept /\ Scanned /\ NoneMissed
  BY DEF ExactInv
<1>3. /\ hit /\ Overlaps(in.areas[area], in.ram[ri])
      /\ add.end = Meet.end /\ Meet.begin <= add.begin
      /\ \A a \in Addr : Meet.begin <= a /\ a < add.begin => a \in Covered(list)
  BY <1>1, <1>2 DEF Scanned
<1>4. add.begin \in Cuts(in) /\ add.end + 1 \in Cuts(in)
  BY <1>1, <1>2 DEF BoundsKept
<1>5. /\ add.begin \in Addr /\ add.end \in Addr /\ add.begin <= add.end
      /\ \A x \in 1..Len(list) : list[x].end < add.begin \/ add.end < list[x].begin
  BY <1>1, HoleBehind
<1>6. add.begin # add.end
  BY <1>1, <1>4 DEF Coarse
<1>7. h \in Region /\ pc' = "ram" /\ list' = Placed(list, h)
  BY <1>1, <1>5, <1>6, AddedHole
<1>8. h.begin = add.begin /\ h.end = add.end /\ h.tag = Kmem
  OBVIOUS
<1> HIDE DEF h
<1>9. add.begin <= h.begin /\ h.end <= add.end /\ h.begin \in Cuts(in) /\ h.end + 1 \in Cuts(in)
  BY <1>4, <1>5, <1>8 DEF Addr
<1>10. /\ Edges(list') \subseteq Cuts(in) /\ UsedKept' /\ KmemInArea' /\ Flagged'
       /\ \A a : a \in Covered(list) \/ a \in Bytes(h) => a \in Covered(list')
  BY <1>1, <1>7, <1>8, <1>9, Grows
<1>11. BoundsKept' /\ Scanned'
  BY <1>1, <1>7, <1>10 DEF BoundsKept, Scanned
<1>12. \A a \in Addr : a \in Bytes(in.areas[area]) /\ a \in Bytes(in.ram[ri]) => a \in Covered(list')
  <2>1. ASSUME NEW a \in Addr, a \in Bytes(in.areas[area]), a \in Bytes(in.ram[ri])
        PROVE  a \in Covered(list')
    <3>1. Meet.begin <= a /\ a <= add.end
      BY <1>1, <1>3, <2>1, MeetBounds
    <3>2. CASE a < add.begin
      BY <1>3, <1>10, <3>1, <3>2
    <3>3. CASE ~(a < add.begin)
      <4>1. a \in Bytes(h)
        BY <1>5, <1>8, <3>1, <3>3 DEF Addr, Bytes
      <4> QED BY <1>10, <4>1
    <3> QED BY <3>2, <3>3
  <2> QED BY <2>1
<1>13. NoneMissed'
  BY <1>1, <1>2, <1>10, <1>12, NextRam
<1> QED BY <1>10, <1>11, <1>13 DEF ExactInv

\* Every step keeps the account of kernel memory.
LEMMA ExactStep ==
  ASSUME Coarse, TypeOK, OrderInv, ExactInv, [Next]_vars
  PROVE  ExactInv'
<1>1. CASE Finish
  <2>1. /\ pc = "ram" /\ area > Len(in.areas) /\ pc' = "done"
        /\ UNCHANGED <<in, list, area, ri, add, reg, hit, new, any>>
    BY <1>1 DEF Finish
  <2>2. BoundsKept /\ UsedKept /\ KmemInArea /\ NoneMissed /\ Flagged
    BY DEF ExactInv
  <2>3. BoundsKept' /\ Scanned' /\ NoneMissed' /\ Flagged'
    BY <2>1, <2>2 DEF BoundsKept, Scanned, NoneMissed, Searched, Flagged
  <2>4. UsedKept' /\ KmemInArea'
    BY <2>1, <2>2, SameEntries DEF Begun
  <2> QED BY <2>3, <2>4 DEF ExactInv
<1>2. CASE UNCHANGED vars
  BY <1>2 DEF vars, ExactInv, BoundsKept, Scanned, Meet, UsedKept, KmemInArea, Begun,
              NoneMissed, Searched, Flagged
<1> QED BY <1>1, <1>2, RamExact, AreaExact, ScanExact, AddRestExact DEF Next, Step, Done

\* The scan starts with an exact account.
LEMMA ExactInit ==
  ASSUME Init
  PROVE  ExactInv
<1>1. /\ list = in.list /\ area = 1 /\ ri = 1 /\ pc = "ram" /\ ~hit /\ ~new /\ ~any /\ in \in Cases
  BY DEF Init
<1>2. TypeOK
  BY OrderInit
<1>3. in.list \in Seq(Region) /\ DOMAIN in.list = 1..Len(in.list) /\ \A i \in DOMAIN in.list : in.list[i].tag # Kmem
  BY <1>1, <1>2, Input, Entries, KmemAssumption
<1>4. BoundsKept /\ Scanned
  BY <1>1 DEF BoundsKept, Scanned, Cuts
<1>5. UsedKept /\ KmemInArea /\ Flagged
  BY <1>1, <1>3 DEF UsedKept, KmemInArea, Flagged
<1>6. NoneMissed
  BY <1>1 DEF NoneMissed, Searched
<1> QED BY <1>4, <1>5, <1>6 DEF ExactInv

\* The invariants say what setup_kmem_areas() promises.
LEMMA ExactRight ==
  ASSUME TypeOK, OrderInv, ExactInv
  PROVE  KmemIsFreeRam /\ KmemReported
<1>1. /\ list \in Seq(Region) /\ in \in Cases /\ in.list \in Seq(Region)
      /\ in.ram \in Seq(Region) /\ in.areas \in Seq(Region)
      /\ DOMAIN list = 1..Len(list) /\ DOMAIN in.list = 1..Len(in.list)
      /\ Len(list) \in Nat /\ Len(in.areas) \in Nat /\ area \in Nat /\ ri \in Nat
      /\ Ascending(list) /\ area <= Len(in.areas) + 1
  BY Input, Entries DEF TypeOK, OrderInv
<1>2. /\ \A i \in 1..Len(in.list) : \E j \in 1..Len(list) : list[j] = in.list[i]
      /\ \A j \in 1..Len(list) : list[j].tag # Kmem => \E i \in 1..Len(in.list) : list[j] = in.list[i]
  BY DEF ExactInv, UsedKept
<1>3. \A i \in 1..Len(in.list) : in.list[i].tag # Kmem
  BY <1>1, KmemAssumption
<1>4. \A a : a \in KmemBytes(list) <=> \E j \in 1..Len(list) : list[j].tag = Kmem /\ a \in Bytes(list[j])
  BY <1>1 DEF KmemBytes
<1>5. ASSUME NEW i \in 1..Len(list), NEW j \in 1..Len(list), NEW a, a \in Bytes(list[i]), a \in Bytes(list[j])
      PROVE  i = j
  <2>1. a \in Addr /\ list[i].begin <= a /\ a <= list[i].end /\ list[j].begin <= a /\ a <= list[j].end
    BY <1>1, <1>5, CoveredAt
  <2>2. list[i].begin \in Nat /\ list[i].end \in Nat /\ list[j].begin \in Nat /\ list[j].end \in Nat
    BY <1>1, Entries
  <2>3. ~Before(list[i], list[j]) /\ ~Before(list[j], list[i])
    BY <2>1, <2>2 DEF Before, Addr
  <2>4. ~(i < j) /\ ~(j < i)
    BY <1>1, <2>3 DEF Ascending
  <2> QED BY <1>1, <2>4
<1>6. KmemIsFreeRam
  <2> SUFFICES ASSUME pc = "ram", ri = 1
               PROVE  KmemBytes(list) =
                        ((UNION { Bytes(in.areas[i]) : i \in 1..(area - 1) }) \cap Covered(in.ram))
                          \ Covered(in.list)
    BY DEF KmemIsFreeRam
  <2>1. ASSUME NEW a, a \in KmemBytes(list)
        PROVE  /\ \E i \in 1..(area - 1) : a \in Bytes(in.areas[i])
               /\ a \in Covered(in.ram) /\ a \notin Covered(in.list)
    <3>1. PICK j \in 1..Len(list) : list[j].tag = Kmem /\ a \in Bytes(list[j])
      BY <1>4, <2>1
    <3>2. PICK k \in 1..Len(in.areas), m \in 1..Len(in.ram) :
            Begun(k) /\ Encloses(in.areas[k], list[j]) /\ Encloses(in.ram[m], list[j])
      BY <3>1 DEF ExactInv, KmemInArea
    <3>3. k \in 1..(area - 1)
      BY <1>1, <3>2 DEF Begun
    <3>4. a \in Bytes(in.areas[k]) /\ a \in Bytes(in.ram[m])
      BY <1>1, <3>1, <3>2, Entries, EnclosedBytes
    <3>5. a \in Covered(in.ram)
      BY <1>1, <3>4, CoveredAt
    <3>6. ASSUME a \in Covered(in.list) PROVE FALSE
      <4>1. PICK i \in 1..Len(in.list) : a \in Bytes(in.list[i])
        BY <1>1, <3>6, CoveredAt
      <4>2. PICK x \in 1..Len(list) : list[x] = in.list[i]
        BY <1>2
      <4>3. x = j
        BY <1>5, <3>1, <4>1, <4>2
      <4> QED BY <1>3, <3>1, <4>2, <4>3
    <3> QED BY <3>3, <3>4, <3>5, <3>6
  <2>2. ASSUME NEW a, NEW i \in 1..(area - 1), a \in Bytes(in.areas[i]),
               a \in Covered(in.ram), a \notin Covered(in.list)
        PROVE  a \in KmemBytes(list)
    <3>1. i \in 1..Len(in.areas) /\ i < area
      BY <1>1
    <3>2. PICK m \in 1..Len(in.ram) : a \in Bytes(in.ram[m])
      BY <1>1, <2>2, CoveredAt
    <3>3. a \in Addr
      BY <1>1, <3>2, CoveredAt
    <3>4. a \in Covered(list)
      BY <2>2, <3>1, <3>2, <3>3 DEF ExactInv, NoneMissed, Searched
    <3>5. PICK j \in 1..Len(list) : a \in Bytes(list[j])
      BY <1>1, <3>4, CoveredAt
    <3>6. list[j].tag = Kmem
      <4>1. ASSUME list[j].tag # Kmem PROVE FALSE
        <5>1. PICK y \in 1..Len(in.list) : list[j] = in.list[y]
          BY <1>2, <4>1
        <5> QED BY <1>1, <2>2, <3>5, <5>1, CoveredAt
      <4> QED BY <4>1
    <3> QED BY <1>4, <3>5, <3>6
  <2> QED BY <2>1, <2>2
<1>7. KmemReported
  <2> SUFFICES ASSUME pc = "done" PROVE any <=> KmemBytes(list) # {}
    BY DEF KmemReported
  <2>1. ~new /\ ((\E j \in 1..Len(list) : list[j].tag = Kmem) <=> any)
    BY <1>1 DEF ExactInv, Flagged
  <2>2. \A j \in 1..Len(list) : list[j].begin \in Bytes(list[j])
    BY <1>1, Entries DEF Bytes
  <2>3. KmemBytes(list) # {} <=> \E j \in 1..Len(list) : list[j].tag = Kmem
    BY <1>4, <2>2
  <2> QED BY <2>1, <2>3
<1> QED BY <1>6, <1>7

\* setup_kmem_areas() makes exactly the free RAM of the areas kernel memory,
\* and reports it: neither the restarts of add_kmem_area_on_ram() nor areas
\* that overlap each other, RAM borders and regions in use make it miss a hole
\* or take one twice; for inputs without holes of one byte.
THEOREM KmemExact == Coarse /\ Spec => []KmemRight
<1>1. Init => TypeOK /\ OrderInv /\ ExactInv
  BY OrderInit, ExactInit
<1>2. Coarse /\ TypeOK /\ OrderInv /\ ExactInv /\ [Next]_vars => TypeOK' /\ OrderInv' /\ ExactInv'
  BY OrderStep, ExactStep
<1>3. TypeOK /\ OrderInv /\ ExactInv => KmemRight
  BY ExactRight DEF KmemRight, KmemKeepsOrder, OrderInv
<1>4. Coarse => Coarse'
  BY DEF Coarse, Cuts, Edges
<1> QED BY <1>1, <1>2, <1>3, <1>4, PTL DEF Spec

=============================================================================
