----------------------------- MODULE MoveProofs -----------------------------
(***************************************************************************)
(* move_modules() never damages a module, for any number of modules of any *)
(* size and anywhere in memory, and whatever the area found for them       *)
(* overlaps.                                                               *)
(***************************************************************************)
EXTENDS ModuleMove, RegionLemmas

\* The k-th module by address: where it was loaded, its size, and its pages.
Src(k) == in.start[sorter[k]]
Length(k) == in.size[sorter[k]]
Span(k) == Pages(sorter[k])

\* The first n modules are sorted by address.
SortedBelow(n) ==
  /\ Len(sorter) = n
  /\ \A k \in 1..n : sorter[k] \in 1..n
  /\ \A m \in 1..n : \E k \in 1..n : sorter[k] = m
  /\ \A j, k \in 1..n : j < k => in.start[sorter[j]] < in.start[sorter[k]]

\* The loops after sorting; the k-th module has been moved.
Ranges ==
  /\ pc = "split" => i \in 1..(Count + 1)
  /\ pc = "up" => i \in 0..endFwd
  /\ pc = "down" => i \in (endFwd + 1)..(Count + 1)
  /\ pc = "done" => i = Count + 1

Moved(k) == IF pc = "up" THEN i < k /\ k <= endFwd ELSE pc \in {"down", "done"} /\ k < i

\* C[k] is the target of the k-th module, as far as cursor has got.
Top == IF pc = "up" THEN endFwd + 1 ELSE i

Targets(C) ==
  /\ C \in [1..(Count + 1) -> Nat]
  /\ C[1] = in.to /\ C[Top] = cursor
  /\ \A k \in 1..Top : C[k] >= in.to /\ C[k] % PageSize = 0
  /\ \A k \in 1..(Top - 1) : C[k + 1] = C[k] + Span(k)
  /\ \A j, k \in 1..Top : j < k => C[j] + Span(j) <= C[k]

\* Modules go up as far as end_fwd, and down behind it.
Directions(C) ==
  /\ pc = "split" => \A k \in 1..(i - 1) : Src(k) <= C[k]
  /\ pc = "up" => /\ \A k \in 1..endFwd : Src(k) <= C[k]
                  /\ fwdAddr = C[i + 1]
                  /\ endFwd < Count => cursor < Src(endFwd + 1)
  /\ pc = "down" => (i <= Count => cursor < Src(i))

\* Where the modules lie, and what memory holds there.
Placement(C) ==
  \A k \in 1..Count : start[sorter[k]] = IF Moved(k) THEN C[k] ELSE Src(k)

Whole ==
  \A k \in 1..Count : \A x \in 0..(Length(k) - 1) :
    data[start[sorter[k]] + x] = <<sorter[k], x>>

Tails ==
  \A k \in 1..Count : Moved(k) /\ start[sorter[k]] # Src(k) =>
    \A a \in (start[sorter[k]] + Length(k))..(start[sorter[k]] + Span(k) - 1) : data[a] = Zero

\* The list holds the regions in use and those of the moved modules.
IsFor(r, C, k) == r.begin = C[k] /\ r.end = C[k] + Length(k) - 1

Listed(C) ==
  /\ \A x \in 1..Len(list) : \/ \E y \in 1..Len(in.busy) : list[x] = in.busy[y]
                             \/ \E k \in 1..Count : Moved(k) /\ IsFor(list[x], C, k)
  /\ \A k \in 1..Count : Moved(k) => \E x \in 1..Len(list) : IsFor(list[x], C, k)

Laid(C) == Targets(C) /\ Directions(C) /\ Placement(C) /\ Listed(C)

\* The inductive strengthening of ModulesMoved and WrittenInArea.
MoveInv ==
  /\ TypeOK /\ pc # "panic"
  /\ WrittenInArea
  /\ pc = "sort" => /\ i \in 1..(Count + 1) /\ SortedBelow(i - 1)
                    /\ start = in.start /\ data = Loaded(in) /\ list = in.busy
                    /\ cursor = in.to
  /\ pc # "sort" => /\ SortedBelow(Count) /\ Ranges
                    /\ Whole /\ Tails /\ Ascending(list)
                    /\ \E C \in [1..(Count + 1) -> Nat] : Laid(C)

-----------------------------------------------------------------------------
(* The modules and their pages *)

\* The modules as they were loaded.
LEMMA LayoutFacts ==
  ASSUME in \in Layouts
  PROVE  /\ Count \in Nat /\ Count <= MaxMods /\ Mods = 1..Count /\ MaxAddr \in Nat
         /\ Len(in.start) = Count /\ in.start \in [Mods -> Addr]
         /\ PageSize \in Nat \ {0} /\ Addr = 0..MaxAddr
         /\ in.to \in Nat /\ in.to % PageSize = 0
         /\ in.ram \in Seq(Region) /\ in.busy \in Seq(Region) /\ Ascending(in.busy)
         /\ \A m \in 1..Count :
              /\ in.start[m] \in Nat /\ in.start[m] % PageSize = 0
              /\ in.size[m] \in Nat /\ in.size[m] >= 2
              /\ in.start[m] + in.size[m] - 1 <= MaxAddr
              /\ Pages(m) \in Nat /\ Pages(m) % PageSize = 0
              /\ in.size[m] <= Pages(m) /\ Pages(m) < in.size[m] + PageSize
         /\ \A m, n \in 1..Count :
              m # n => \/ in.start[m] + in.size[m] <= in.start[n]
                       \/ in.start[n] + in.size[n] <= in.start[m]
<1>1. in \in [start : Seq(Addr), size : Seq(Addr \ {0}), to : Addr,
              ram : Seq(Region), busy : Seq(Region)]
  BY LayoutAssumption
<1>2. /\ in.start \in Seq(Addr) /\ in.size \in Seq(Addr \ {0}) /\ in.to \in Addr
      /\ in.ram \in Seq(Region) /\ in.busy \in Seq(Region)
  BY <1>1
<1>3. /\ PageSize \in Nat \ {0} /\ MaxAddr \in Nat /\ Addr = 0..MaxAddr
  BY WordAssumption DEF Addr
<1>4. /\ Count \in Nat /\ Mods = 1..Count /\ Len(in.start) = Count /\ Count <= MaxMods
      /\ in.to % PageSize = 0 /\ Ascending(in.busy)
  BY <1>2, LayoutAssumption, LenProperties DEF Count, Mods
<1>5. in.start \in [Mods -> Addr] /\ in.size \in [Mods -> Addr \ {0}]
  BY <1>2, <1>4, LenProperties DEF Count
<1>6. ASSUME NEW m \in 1..Count
      PROVE  /\ in.start[m] \in Nat /\ in.start[m] % PageSize = 0
             /\ in.size[m] \in Nat /\ in.size[m] >= 2
             /\ in.start[m] + in.size[m] - 1 <= MaxAddr
             /\ Pages(m) \in Nat /\ Pages(m) % PageSize = 0
             /\ in.size[m] <= Pages(m) /\ Pages(m) < in.size[m] + PageSize
  <2>1. in.start[m] \in Nat /\ in.size[m] \in Nat
    BY <1>3, <1>4, <1>5
  <2>2. /\ in.start[m] % PageSize = 0
        /\ in.size[m] >= 2 /\ in.size[m] + PageSize - 1 <= MaxAddr
        /\ in.start[m] + in.size[m] - 1 <= MaxAddr
    BY LayoutAssumption DEF Count
  <2> QED BY <1>3, <2>1, <2>2, RoundBounds DEF Pages, RoundPage
<1>7. \A m, n \in 1..Count :
        m # n => \/ in.start[m] + in.size[m] <= in.start[n]
                 \/ in.start[n] + in.size[n] <= in.start[m]
  BY LayoutAssumption DEF Count
<1> QED BY <1>2, <1>3, <1>4, <1>5, <1>6, <1>7, SMTT(30)

\* memset() clears exactly what remains of the pages of a module, also in the
\* last page of the address space, where l4_round_page() wraps.
LEMMA RestOfPages ==
  ASSUME NEW d \in Nat, NEW z \in Nat, NEW p \in Nat, d % PageSize = 0, p % PageSize = 0,
         z >= 1, z <= p, p < z + PageSize, d + p <= MaxAddr + 1
  PROVE  Rest(d + z) = p - z
<1> DEFINE x == d + z
           e == d + p
           y == x + PageSize - 1
<1>1. /\ PageSize \in Nat \ {0} /\ MaxAddr \in Nat /\ (MaxAddr + 1) % PageSize = 0
      /\ MaxAddr + 1 \in Nat
  BY WordAssumption
<1>2. x \in Nat /\ e \in Nat /\ x >= 1 /\ x <= e /\ e < x + PageSize /\ e <= MaxAddr + 1
  BY <1>1
<1>3. e % PageSize = 0
  BY <1>1, MultipleSum
<1>4. p - z = e - x
  OBVIOUS
<1>5. y \in Nat /\ RoundPage(x) = TruncSize(Word(y), PageSize)
  BY <1>1, <1>2 DEF RoundPage, RoundSize
<1> HIDE DEF e, x
<1>6. CASE y <= MaxAddr
  <2>1. /\ RoundPage(x) \in Nat /\ RoundPage(x) >= x /\ RoundPage(x) < x + PageSize
        /\ RoundPage(x) % PageSize = 0
    BY <1>1, <1>2, <1>6, RoundBounds DEF RoundPage
  <2>2. RoundPage(x) <= e
    <3>1. RoundPage(x) < e + PageSize
      BY <1>1, <1>2, <2>1
    <3> QED BY <1>1, <1>2, <1>3, <2>1, <3>1, MultiplesApart
  <2>3. e <= RoundPage(x)
    <3>1. e < RoundPage(x) + PageSize
      BY <1>1, <1>2, <2>1
    <3> QED BY <1>1, <1>2, <1>3, <2>1, <3>1, MultiplesApart
  <2>4. RoundPage(x) = e /\ e - x \in Nat /\ e - x <= MaxAddr
    BY <1>1, <1>2, <2>1, <2>2, <2>3
  <2> QED BY <1>4, <2>4, WordSame DEF Rest, x
<1>7. CASE y > MaxAddr
  <2>1. e = MaxAddr + 1
    <3>1. MaxAddr + 1 < e + PageSize
      BY <1>1, <1>2, <1>7
    <3>2. MaxAddr + 1 <= e
      BY <1>1, <1>2, <1>3, <3>1, MultiplesApart
    <3> QED BY <1>1, <1>2, <3>2
  <2>2. y - (MaxAddr + 1) \in Nat /\ y - (MaxAddr + 1) < PageSize
    BY <1>1, <1>2, <1>7, <2>1
  <2>3. PageSize <= MaxAddr + 1
    BY WordAssumption
  <2>4. Word(y) = y - (MaxAddr + 1)
    <3> DEFINE n == MaxAddr + 1
    <3>1. n \in Nat \ {0} /\ y - n \in Nat /\ y - n < n
      BY <1>1, <2>2, <2>3
    <3> HIDE DEF y, n
    <3>2. y % n = y - n
      BY <1>5, <3>1
    <3> QED BY <3>2 DEF Word, n
  <2>5. RoundPage(x) = 0
    <3> DEFINE w == y - (MaxAddr + 1)
    <3>1. w \in Nat /\ w < PageSize
      BY <2>2
    <3> HIDE DEF w
    <3>2. w \div PageSize = 0
      BY <1>1, <3>1
    <3> QED BY <1>1, <1>5, <2>4, <3>2 DEF TruncSize, w
  <2>6. Word(0 - x) = e - x
    <3> DEFINE n == MaxAddr + 1
    <3>1. n \in Nat \ {0} /\ x \in Nat /\ x >= 1 /\ x <= n /\ e = n
      BY <1>1, <1>2, <2>1
    <3> HIDE DEF n
    <3>2. (0 - x) % n = n - x
      BY <3>1
    <3> QED BY <3>1, <3>2 DEF Word, n
  <2> QED BY <1>4, <2>5, <2>6 DEF Rest, x
<1> QED BY <1>1, <1>5, <1>6, <1>7

\* Sorted modules lie in pages of their own, one after the other.
LEMMA SortedApart ==
  ASSUME TypeOK, SortedBelow(Count), NEW j \in 1..Count, NEW k \in 1..Count, j < k
  PROVE  Src(j) + Span(j) <= Src(k)
<1>1. sorter[j] \in 1..Count /\ sorter[k] \in 1..Count /\ Src(j) < Src(k)
  BY DEF SortedBelow, Src
<1>2. /\ Src(j) \in Nat /\ Src(k) \in Nat /\ Span(j) \in Nat /\ Length(k) \in Nat
      /\ Length(j) \in Nat /\ PageSize \in Nat \ {0}
      /\ Src(j) % PageSize = 0 /\ Src(k) % PageSize = 0 /\ Span(j) % PageSize = 0
      /\ Span(j) < Length(j) + PageSize
  BY <1>1, LayoutFacts DEF TypeOK, Src, Span, Length
<1>3. Src(j) + Length(j) <= Src(k)
  <2>1. \/ Src(j) + Length(j) <= Src(k) \/ Src(k) + Length(k) <= Src(j)
    <3>1. sorter[j] # sorter[k]
      BY <1>1, <1>2 DEF Src
    <3> QED BY <1>1, <3>1, LayoutFacts DEF TypeOK, Src, Length
  <2> QED BY <1>1, <1>2, <2>1
<1>4. (Src(j) + Span(j)) % PageSize = 0
  BY <1>2, MultipleSum
<1>5. Src(j) + Span(j) \in Nat /\ Src(j) + Span(j) < Src(k) + PageSize
  BY <1>2, <1>3
<1> QED BY <1>2, <1>4, <1>5, MultiplesApart

\* The numbers of the k-th module.
LEMMA ModuleFacts ==
  ASSUME TypeOK, SortedBelow(Count), NEW k \in 1..Count
  PROVE  /\ sorter[k] \in 1..Count /\ sorter[k] \in Mods
         /\ Src(k) \in Nat /\ Src(k) % PageSize = 0
         /\ Length(k) \in Nat /\ Length(k) >= 2
         /\ Span(k) \in Nat /\ Span(k) % PageSize = 0
         /\ Length(k) <= Span(k) /\ Span(k) < Length(k) + PageSize
         /\ Src(k) + Span(k) <= MaxAddr + 1
<1>1. sorter[k] \in 1..Count /\ sorter[k] \in Mods
  BY DEF SortedBelow, Mods
<1>2. /\ Src(k) \in Nat /\ Src(k) % PageSize = 0
      /\ Length(k) \in Nat /\ Length(k) >= 2
      /\ Span(k) \in Nat /\ Span(k) % PageSize = 0
      /\ Length(k) <= Span(k) /\ Span(k) < Length(k) + PageSize
      /\ Src(k) + Length(k) - 1 <= MaxAddr /\ MaxAddr \in Nat /\ PageSize \in Nat \ {0}
  BY <1>1, LayoutFacts DEF TypeOK, Src, Span, Length
<1>3. Src(k) + Span(k) <= MaxAddr + 1
  <2>1. (Src(k) + Span(k)) % PageSize = 0 /\ (MaxAddr + 1) % PageSize = 0
    BY <1>2, MultipleSum, WordAssumption
  <2>2. /\ Src(k) + Span(k) \in Nat /\ MaxAddr + 1 \in Nat
        /\ Src(k) + Span(k) < (MaxAddr + 1) + PageSize
    BY <1>2
  <2> QED BY <1>2, <2>1, <2>2, MultiplesApart
<1> QED BY <1>1, <1>2, <1>3

\* No two places of the sorter hold the same module.
LEMMA SorterInjective ==
  ASSUME TypeOK, SortedBelow(Count), NEW j \in 1..Count, NEW k \in 1..Count, j # k
  PROVE  sorter[j] # sorter[k]
<1>1. Count \in Nat /\ Src(j) \in Nat /\ Src(k) \in Nat
  BY ModuleFacts, LayoutFacts DEF TypeOK
<1>2. Src(j) < Src(k) \/ Src(k) < Src(j)
  BY <1>1 DEF SortedBelow, Src
<1> QED BY <1>1, <1>2 DEF Src

-----------------------------------------------------------------------------
(* One move *)

\* Module k is moved to d, into pages in RAM where nothing else lies.
ClearFor(k, d) ==
  /\ d \in Nat /\ d % PageSize = 0 /\ d + Span(k) <= MaxAddr + 1
  /\ \E x \in 1..Len(in.ram) : in.ram[x].begin <= d /\ d <= in.ram[x].end
  /\ \A x \in 1..Len(list) : list[x].end < d \/ d + Span(k) <= list[x].begin
  /\ \A j \in 1..Count :
       j # k => start[sorter[j]] + Span(j) <= d \/ d + Span(k) <= start[sorter[j]]

ModRegion(k, d) == [begin |-> d, end |-> d + Length(k) - 1, tag |-> ModTag]

\* The list after a move: no check of _move_module() or of the list panics.
LEMMA MoveLists ==
  ASSUME TypeOK, SortedBelow(Count), Ascending(list),
         NEW k \in 1..Count, NEW d, NEW nx, ClearFor(k, d), Move(sorter[k], d, nx)
  PROVE  /\ pc' = nx
         /\ start' = [start EXCEPT ![sorter[k]] = d]
         /\ data' = IF d = start[sorter[k]] THEN data
                    ELSE Written(start[sorter[k]], d, Length(k))
         /\ d \in Addr /\ ModRegion(k, d) \in Region
         /\ list' = Placed(list, ModRegion(k, d))
         /\ list' \in Seq(Region) /\ Ascending(list')
<1> DEFINE r == ModRegion(k, d)
           first == [r EXCEPT !.end = d]
<1>1. /\ d \in Nat /\ Length(k) \in Nat /\ Length(k) >= 2 /\ Span(k) \in Nat
      /\ Length(k) <= Span(k) /\ d + Span(k) <= MaxAddr + 1
      /\ MaxAddr \in Nat /\ Addr = 0..MaxAddr /\ ModTag \in Tags
  BY ModuleFacts, LayoutFacts, LayoutAssumption DEF ClearFor, TypeOK
<1>2. /\ r \in Region /\ r.begin = d /\ r.end = d + Length(k) - 1
      /\ first \in Region /\ first.begin = d /\ first.end = d /\ d \in Addr
  <2>1. d \in Addr /\ d + Length(k) - 1 \in Addr /\ d <= d + Length(k) - 1 /\ d <= d
    BY <1>1
  <2>2. r = [begin |-> d, end |-> d + Length(k) - 1, tag |-> ModTag]
        /\ first = [begin |-> d, end |-> d, tag |-> ModTag]
    BY DEF ModRegion
  <2> QED BY <1>1, <2>1, <2>2 DEF Region
<1>3. list \in Seq(Region) /\ in.ram \in Seq(Region)
  BY LayoutFacts DEF TypeOK
<1>4. \A x \in 1..Len(list) : list[x].begin \in Nat /\ list[x].end \in Nat
  BY <1>3, Entries
<1>5. \A x \in 1..Len(list) : list[x].end < d \/ d + Span(k) <= list[x].begin
  BY DEF ClearFor
<1> HIDE DEF r, first
<1>6. FindContaining(in.ram, first) # 0
  <2>1. PICK x \in 1..Len(in.ram) : in.ram[x].begin <= d /\ d <= in.ram[x].end
    BY DEF ClearFor
  <2>2. in.ram[x].end \in Nat
    BY <1>3, Entries
  <2>3. Encloses(in.ram[x], first)
    BY <1>1, <1>2, <2>1, <2>2 DEF Encloses
  <2>4. Len(in.ram) \in Nat
    BY <1>3, LenProperties
  <2> QED BY <1>2, <1>3, <2>3, <2>4, FindContainingFinds
<1>7. Find(list, first) = 0
  <2>1. ASSUME NEW x \in 1..Len(list) PROVE ~Overlaps(list[x], first)
    BY <1>1, <1>2, <1>4, <1>5 DEF Overlaps, Before
  <2> QED BY <1>2, <1>3, <2>1, FindFinds
<1>8. ~Collides(list, r)
  <2>1. ASSUME NEW x \in 1..Len(list) PROVE list[x].end < r.begin \/ r.end < list[x].begin
    BY <1>1, <1>2, <1>4, <1>5
  <2> QED BY <1>2, <1>3, <2>1, ApartNoCollision
<1>9. ~TooSmall(r)
  BY <1>1, <1>2 DEF TooSmall
<1>10. /\ data' = IF d = start[sorter[k]] THEN data
                  ELSE Written(start[sorter[k]], d, in.size[sorter[k]])
       /\ list' = Reserved(r)
       /\ start' = [start EXCEPT ![sorter[k]] = d]
       /\ pc' = nx
  BY <1>6, <1>7, <1>8 DEF Move, r, first, ModRegion, Length
<1>11. list' = Placed(list, r)
  BY <1>9, <1>10 DEF Reserved
<1>12. list' \in Seq(Region) /\ Ascending(list')
  BY <1>2, <1>3, <1>8, <1>11, PlacedShape, PlacedSorted
<1> QED BY <1>2, <1>10, <1>11, <1>12 DEF Length, r

\* What a move writes: the module, zeros to the end of its last page, and
\* nothing else.
LEMMA MoveWrites ==
  ASSUME TypeOK, SortedBelow(Count), Ascending(list), Whole,
         NEW k \in 1..Count, NEW d, NEW nx, ClearFor(k, d), Move(sorter[k], d, nx),
         start[sorter[k]] = Src(k)
  PROVE  /\ data' \in [Addr -> {Zero, Other} \cup (Mods \X Addr)]
         /\ \A a \in Addr : a < d \/ a >= d + Span(k) => data'[a] = data[a]
         /\ \A x \in 0..(Length(k) - 1) : data'[d + x] = <<sorter[k], x>>
         /\ d # Src(k) => \A a \in (d + Length(k))..(d + Span(k) - 1) : data'[a] = Zero
<1> DEFINE src == Src(k)
           z == Length(k)
           p == Span(k)
<1>1. /\ d \in Nat /\ z \in Nat /\ z >= 2 /\ p \in Nat /\ z <= p /\ p < z + PageSize
      /\ d + p <= MaxAddr + 1 /\ MaxAddr \in Nat /\ Addr = 0..MaxAddr
      /\ src \in Nat /\ src + p <= MaxAddr + 1 /\ d % PageSize = 0 /\ p % PageSize = 0
  BY ModuleFacts, LayoutFacts DEF ClearFor, TypeOK
<1>2. data' = IF d = src THEN data ELSE Written(src, d, z)
  BY MoveLists
<1>3. data \in [Addr -> {Zero, Other} \cup (Mods \X Addr)]
  BY DEF TypeOK
<1>4. \A x \in 0..(z - 1) : data[src + x] = <<sorter[k], x>>
  BY DEF Whole
<1> HIDE DEF src, z, p
<1>5. CASE d = src
  <2>1. data' = data
    BY <1>2, <1>5
  <2> QED BY <1>3, <1>4, <1>5, <2>1 DEF src, z, p
<1>6. CASE d # src
  <2>1. Rest(d + z) = p - z
    BY <1>1, RestOfPages
  <2>2. (d + z) + Rest(d + z) - 1 = d + p - 1
    BY <1>1, <2>1
  <2>3. data' = [a \in Addr |-> IF a \in d..(d + z - 1) THEN data[src + (a - d)]
                                ELSE IF a \in (d + z)..(d + p - 1) THEN Zero
                                ELSE data[a]]
    BY <1>2, <1>6, <2>2 DEF Written
  <2>4. ASSUME NEW x \in 0..(z - 1) PROVE data'[d + x] = <<sorter[k], x>>
    <3>1. d + x \in Addr /\ d + x \in d..(d + z - 1) /\ src + ((d + x) - d) = src + x
      BY <1>1
    <3> QED BY <1>4, <2>3, <3>1
  <2>5. ASSUME NEW a \in (d + z)..(d + p - 1) PROVE data'[a] = Zero
    <3>1. a \in Addr /\ a \notin d..(d + z - 1)
      BY <1>1
    <3> QED BY <2>3, <3>1
  <2>6. ASSUME NEW a \in Addr, a < d \/ a >= d + p PROVE data'[a] = data[a]
    <3>1. a \notin d..(d + z - 1) /\ a \notin (d + z)..(d + p - 1)
      BY <1>1, <2>6
    <3> QED BY <2>3, <3>1
  <2>7. ASSUME NEW a \in Addr
        PROVE  data'[a] \in {Zero, Other} \cup (Mods \X Addr)
    <3>1. CASE a \in d..(d + z - 1)
      <4>1. src + (a - d) \in Addr
        BY <1>1, <3>1
      <4> QED BY <1>3, <2>3, <3>1, <4>1
    <3>2. CASE a \notin d..(d + z - 1)
      BY <1>3, <2>3, <3>2
    <3> QED BY <3>1, <3>2
  <2>8. data' \in [Addr -> {Zero, Other} \cup (Mods \X Addr)]
    BY <2>3, <2>7
  <2> QED BY <2>4, <2>5, <2>6, <2>8 DEF src, z, p
<1> QED BY <1>5, <1>6

\* A move keeps every module whole, and what is known of the others.
LEMMA MoveKeeps ==
  ASSUME TypeOK, SortedBelow(Count), Ascending(list), Whole, Tails,
         NEW C, NEW D, Placement(C), Listed(C),
         NEW k \in 1..Count, NEW nx, ClearFor(k, D[k]), Move(sorter[k], D[k], nx),
         ~Moved(k), \A j \in 1..Count : Moved(j) => D[j] = C[j],
         \A j \in 1..Count : start[sorter[j]] + Span(j) <= MaxAddr + 1,
         in' = in, sorter' = sorter,
         \A j \in 1..Count : Moved(j)' <=> Moved(j) \/ j = k
  PROVE  Placement(D)' /\ Whole' /\ Tails' /\ Listed(D)'
<1> DEFINE d == D[k]
<1>1. /\ start' = [start EXCEPT ![sorter[k]] = d]
      /\ ModRegion(k, d) \in Region /\ list' = Placed(list, ModRegion(k, d))
  BY MoveLists
<1>2. start[sorter[k]] = Src(k)
  BY DEF Placement
<1>3. /\ \A a \in Addr : a < d \/ a >= d + Span(k) => data'[a] = data[a]
      /\ \A x \in 0..(Length(k) - 1) : data'[d + x] = <<sorter[k], x>>
      /\ d # Src(k) => \A a \in (d + Length(k))..(d + Span(k) - 1) : data'[a] = Zero
  BY <1>2, MoveWrites
<1>4. /\ Count' = Count
      /\ \A j \in 1..Count :
           Src(j)' = Src(j) /\ Length(j)' = Length(j) /\ Span(j)' = Span(j)
  BY DEF Count, Src, Length, Span, Pages
<1>5. \A j \in 1..Count : start'[sorter[j]] = IF j = k THEN d ELSE start[sorter[j]]
  <2> TAKE j \in 1..Count
  <2>1. sorter[j] \in Mods /\ sorter[k] \in Mods /\ start \in [Mods -> Addr]
    BY ModuleFacts DEF TypeOK
  <2>2. j # k => sorter[j] # sorter[k]
    BY SorterInjective
  <2> QED BY <1>1, <2>1, <2>2
<1>0. \A j \in 1..Count :
        /\ start[sorter[j]] \in Nat /\ Length(j) \in Nat /\ Span(j) \in Nat
        /\ Length(j) <= Span(j)
  <2> TAKE j \in 1..Count
  <2>1. sorter[j] \in Mods /\ start \in [Mods -> Addr] /\ Addr = 0..MaxAddr /\ MaxAddr \in Nat
    BY ModuleFacts, LayoutFacts DEF TypeOK
  <2>2. start[sorter[j]] \in Nat
    BY <2>1
  <2> QED BY <2>2, ModuleFacts
<1>6. \A j \in 1..Count : j # k =>
        \A a \in start[sorter[j]]..(start[sorter[j]] + Span(j) - 1) :
          a \in Addr /\ data'[a] = data[a]
  <2> SUFFICES ASSUME NEW j \in 1..Count, j # k,
                      NEW a \in start[sorter[j]]..(start[sorter[j]] + Span(j) - 1)
               PROVE  a \in Addr /\ data'[a] = data[a]
    OBVIOUS
  <2> DEFINE s == start[sorter[j]]
  <2>1. /\ s \in Nat /\ Span(j) \in Nat /\ Span(k) \in Nat /\ d \in Nat
        /\ MaxAddr \in Nat /\ Addr = 0..MaxAddr /\ s + Span(j) <= MaxAddr + 1
        /\ s + Span(j) <= d \/ d + Span(k) <= s
    <3>1. d \in Nat /\ (s + Span(j) <= d \/ d + Span(k) <= s)
      BY DEF ClearFor
    <3> QED BY <1>0, <3>1, LayoutFacts DEF TypeOK
  <2> HIDE DEF s, d
  <2>2. a \in s..(s + Span(j) - 1)
    BY DEF s
  <2>3. a \in Addr /\ (a < d \/ a >= d + Span(k))
    BY <2>1, <2>2
  <2> QED BY <1>3, <2>3 DEF d
<1>7. Placement(D)'
  <2> SUFFICES ASSUME NEW j \in 1..Count
               PROVE  start'[sorter[j]] = IF Moved(j)' THEN D[j] ELSE Src(j)
    BY <1>4 DEF Placement
  <2>1. start[sorter[j]] = IF Moved(j) THEN C[j] ELSE Src(j)
    BY DEF Placement
  <2>2. CASE j = k
    BY <1>5, <2>2
  <2>3. CASE j # k
    BY <1>5, <2>1, <2>3
  <2> QED BY <2>2, <2>3
<1>8. Whole'
  <2> SUFFICES ASSUME NEW j \in 1..Count, NEW x \in 0..(Length(j) - 1)
               PROVE  data'[start'[sorter[j]] + x] = <<sorter[j], x>>
    BY <1>4 DEF Whole
  <2>1. CASE j = k
    BY <1>3, <1>5, <2>1
  <2>2. CASE j # k
    <3> DEFINE s == start[sorter[j]]
    <3>1. /\ s \in Nat /\ Length(j) \in Nat /\ Span(j) \in Nat /\ Length(j) <= Span(j)
          /\ start'[sorter[j]] = s
      BY <1>0, <1>5, <2>2
    <3>2. data[s + x] = <<sorter[j], x>>
      BY DEF Whole
    <3> HIDE DEF s
    <3>3. s + x \in s..(s + Span(j) - 1)
      BY <3>1
    <3> QED BY <1>6, <2>2, <3>1, <3>2, <3>3 DEF s
  <2> QED BY <2>1, <2>2
<1>9. Tails'
  <2> SUFFICES ASSUME NEW j \in 1..Count, Moved(j)', start'[sorter[j]] # Src(j),
                      NEW a \in (start'[sorter[j]] + Length(j))..(start'[sorter[j]] + Span(j) - 1)
               PROVE  data'[a] = Zero
    BY <1>4 DEF Tails
  <2>1. CASE j = k
    BY <1>3, <1>5, <2>1
  <2>2. CASE j # k
    <3> DEFINE s == start[sorter[j]]
    <3>1. /\ s \in Nat /\ Length(j) \in Nat /\ Span(j) \in Nat /\ Length(j) <= Span(j)
          /\ start'[sorter[j]] = s /\ Moved(j)
      BY <1>0, <1>5, <2>2
    <3>2. a \in (s + Length(j))..(s + Span(j) - 1)
      BY <3>1
    <3>3. data[a] = Zero
      BY <3>1, <3>2 DEF Tails
    <3> HIDE DEF s
    <3>4. a \in s..(s + Span(j) - 1)
      BY <3>1, <3>2
    <3> QED BY <1>6, <2>2, <3>3, <3>4 DEF s
  <2> QED BY <2>1, <2>2
<1>10. Listed(D)'
  <2> DEFINE r == ModRegion(k, d)
  <2>1. /\ list \in Seq(Region) /\ Len(list) \in Nat /\ Len(list') = Len(list) + 1
    BY <1>1, PlacedShape, LenProperties DEF TypeOK
  <2>2. /\ \A x \in 1..Len(list') : list'[x] = r \/ \E y \in 1..Len(list) : list'[x] = list[y]
        /\ \E x \in 1..Len(list') : list'[x] = r
        /\ \A y \in 1..Len(list) : \E x \in 1..Len(list') : list'[x] = list[y]
    <3>1. /\ \A x \in 1..(Len(list) + 1) :
               list'[x] = r \/ \E y \in 1..Len(list) : list'[x] = list[y]
          /\ \E x \in 1..(Len(list) + 1) : list'[x] = r
          /\ \A y \in 1..Len(list) : \E x \in 1..(Len(list) + 1) : list'[x] = list[y]
      BY <1>1, <2>1, PlacedEntries
    <3> QED BY <2>1, <3>1
  <2>3. IsFor(r, D, k)
    BY DEF IsFor, ModRegion
  <2> HIDE DEF r
  <2>4. \A e, j : j \in 1..Count => (IsFor(e, D, j)' <=> IsFor(e, D, j))
    BY <1>4 DEF IsFor
  <2>5. \A e : \A j \in 1..Count : Moved(j) => (IsFor(e, D, j) <=> IsFor(e, C, j))
    BY DEF IsFor
  <2>6. ASSUME NEW x \in 1..Len(list')
        PROVE  \/ \E y \in 1..Len(in.busy) : list'[x] = in.busy[y]
               \/ \E j \in 1..Count : Moved(j)' /\ IsFor(list'[x], D, j)
    <3>1. CASE list'[x] = r
      BY <2>3, <3>1
    <3>2. CASE list'[x] # r
      <4>1. PICK y \in 1..Len(list) : list'[x] = list[y]
        BY <2>2, <3>2
      <4>2. \/ \E b \in 1..Len(in.busy) : list[y] = in.busy[b]
            \/ \E j \in 1..Count : Moved(j) /\ IsFor(list[y], C, j)
        BY DEF Listed
      <4> QED BY <2>5, <4>1, <4>2
    <3> QED BY <3>1, <3>2
  <2>7. ASSUME NEW j \in 1..Count, Moved(j)'
        PROVE  \E x \in 1..Len(list') : IsFor(list'[x], D, j)
    <3>1. CASE j = k
      BY <2>2, <2>3, <3>1
    <3>2. CASE j # k
      <4>1. Moved(j)
        BY <2>7, <3>2
      <4>2. PICK y \in 1..Len(list) : IsFor(list[y], C, j)
        BY <4>1 DEF Listed
      <4>3. PICK x \in 1..Len(list') : list'[x] = list[y]
        BY <2>2
      <4> QED BY <2>5, <4>1, <4>2, <4>3
    <3> QED BY <3>1, <3>2
  <2> QED
    <3>1. \A x \in 1..Len(list') :
            \/ \E y \in 1..Len(in.busy) : list'[x] = in.busy[y]
            \/ \E j \in 1..Count : Moved(j)' /\ (list'[x].begin = D[j] /\ list'[x].end = D[j] + Length(j) - 1)
      BY <2>6 DEF IsFor
    <3>2. \A j \in 1..Count : Moved(j)' =>
            \E x \in 1..Len(list') : list'[x].begin = D[j] /\ list'[x].end = D[j] + Length(j) - 1
      BY <2>7 DEF IsFor
    <3> QED BY <1>4, <3>1, <3>2 DEF Listed, IsFor
<1> QED BY <1>7, <1>8, <1>9, <1>10

-----------------------------------------------------------------------------
(* Where the next module goes *)

\* AreaFound for a given end of the area.
AreaUpTo(c) ==
  /\ \E x \in DOMAIN in.ram : in.ram[x].begin <= in.to /\ c - 1 <= in.ram[x].end
  /\ \A x \in DOMAIN in.busy : in.busy[x].end < in.to \/ c <= in.busy[x].begin

\* The area lies in RAM.
LEMMA AreaFacts ==
  ASSUME in \in Layouts, NEW c \in Nat, AreaUpTo(c)
  PROVE  /\ c <= MaxAddr + 1
         /\ \A d \in Nat : in.to <= d /\ d < c =>
              \E x \in 1..Len(in.ram) : in.ram[x].begin <= d /\ d <= in.ram[x].end
         /\ \A x \in 1..Len(in.busy) : in.busy[x].end < in.to \/ c <= in.busy[x].begin
<1>1. /\ in.ram \in Seq(Region) /\ in.busy \in Seq(Region) /\ in.to \in Nat
      /\ MaxAddr \in Nat /\ Addr = 0..MaxAddr
  BY LayoutFacts
<1>2. DOMAIN in.ram = 1..Len(in.ram) /\ DOMAIN in.busy = 1..Len(in.busy)
  BY <1>1, Entries
<1>3. PICK x \in 1..Len(in.ram) : in.ram[x].begin <= in.to /\ c - 1 <= in.ram[x].end
  BY <1>2 DEF AreaUpTo
<1>4. in.ram[x].begin \in Nat /\ in.ram[x].end \in Nat /\ in.ram[x].end <= MaxAddr
  <2>1. in.ram[x] \in Region
    BY <1>1, Entries
  <2> QED BY <1>1, <2>1 DEF Region
<1> DEFINE b == in.ram[x].begin
           e == in.ram[x].end
<1>5. b \in Nat /\ e \in Nat /\ e <= MaxAddr /\ b <= in.to /\ c - 1 <= e
  BY <1>3, <1>4
<1> HIDE DEF b, e
<1>6. c <= MaxAddr + 1
  BY <1>1, <1>5
<1>7. \A d \in Nat : in.to <= d /\ d < c => b <= d /\ d <= e
  BY <1>1, <1>5
<1>8. \A y \in 1..Len(in.busy) : in.busy[y].end < in.to \/ c <= in.busy[y].begin
  BY <1>2 DEF AreaUpTo
<1> QED BY <1>6, <1>7, <1>8 DEF b, e

\* While modules are laid out, the places of the sorter are valid.
LEMMA TopFacts ==
  ASSUME TypeOK, Ranges, pc \in {"split", "up", "down", "done"}
  PROVE  /\ Count \in Nat /\ Top \in 1..(Count + 1) /\ i \in Nat /\ endFwd \in 0..Count
         /\ \A j \in 1..Count : Moved(j) => j < Top
<1>1. Count \in Nat /\ i \in Nat /\ endFwd \in 0..Count
  BY LayoutFacts DEF TypeOK
<1> QED BY <1>1 DEF Ranges, Top, Moved

\* Every module ends within the address space.
LEMMA AllInside ==
  ASSUME TypeOK, SortedBelow(Count), Ranges, pc \in {"split", "up", "down", "done"},
         NEW C, Laid(C), AreaUpTo(cursor), NEW j \in 1..Count
  PROVE  start[sorter[j]] + Span(j) <= MaxAddr + 1
<1>1. start[sorter[j]] = IF Moved(j) THEN C[j] ELSE Src(j)
  BY DEF Laid, Placement
<1>2. CASE ~Moved(j)
  BY <1>1, <1>2, ModuleFacts
<1>3. CASE Moved(j)
  <2>1. j \in 1..Top /\ Top \in 1..Top /\ j < Top
    BY <1>3, TopFacts
  <2>2. C[j] + Span(j) <= cursor
    BY <2>1 DEF Laid, Targets
  <2>3. C[j] \in Nat /\ Span(j) \in Nat /\ cursor \in Nat /\ cursor <= MaxAddr + 1
    <3>1. j \in 1..(Count + 1) /\ C \in [1..(Count + 1) -> Nat]
      BY TopFacts DEF Laid, Targets
    <3> QED BY <3>1, ModuleFacts, AreaFacts DEF TypeOK
  <2> QED BY <1>1, <1>3, <2>2, <2>3, LayoutFacts, SMTT(30) DEF TypeOK
<1> QED BY <1>2, <1>3

\* The target of the next module that goes up is clear.
LEMMA ClearUp ==
  ASSUME TypeOK, SortedBelow(Count), Ranges, pc = "up", i > 0, NEW C, Laid(C),
         AreaUpTo(cursor)
  PROVE  /\ i \in 1..Count /\ ~Moved(i) /\ C[i] \in Nat
         /\ fwdAddr - Span(i) = C[i] /\ ClearFor(i, C[i])
         /\ in.to <= C[i] /\ C[i] + Span(i) <= cursor
<1>1. /\ i \in 1..endFwd /\ endFwd \in 0..Count /\ Count \in Nat /\ Top = endFwd + 1
  BY LayoutFacts DEF TypeOK, Ranges, Top
<1>2. /\ i \in 1..Count /\ ~Moved(i) /\ i \in 1..(Top - 1) /\ i \in 1..Top /\ Top \in 1..Top
      /\ i < Top /\ i \in 1..(Count + 1) /\ Top \in 1..(Count + 1) /\ i \in Nat
  BY <1>1 DEF Moved
<1>3. /\ C \in [1..(Count + 1) -> Nat] /\ C[Top] = cursor /\ fwdAddr = C[i + 1]
      /\ C[i] >= in.to /\ C[i] % PageSize = 0
      /\ C[i + 1] = C[i] + Span(i) /\ C[i] + Span(i) <= C[Top]
      /\ Src(i) <= C[i]
      /\ endFwd < Count => cursor < Src(endFwd + 1)
  BY <1>1, <1>2 DEF Laid, Targets, Directions
<1>4. /\ C[i] \in Nat /\ Span(i) \in Nat /\ Span(i) >= 2 /\ Src(i) \in Nat /\ cursor \in Nat
      /\ in.to \in Nat /\ MaxAddr \in Nat
  <2>1. /\ Length(i) \in Nat /\ Length(i) >= 2 /\ Length(i) <= Span(i)
        /\ Span(i) \in Nat /\ Src(i) \in Nat
    BY <1>2, ModuleFacts
  <2>2. cursor \in Nat /\ in.to \in Nat /\ MaxAddr \in Nat
    BY LayoutFacts DEF TypeOK
  <2>3. C[i] \in Nat
    BY <1>2, <1>3
  <2>4. Span(i) >= 2
    BY <2>1
  <2> QED BY <2>1, <2>2, <2>3, <2>4
<1>5. C[i] + Span(i) <= cursor /\ cursor <= MaxAddr + 1 /\ C[i] + Span(i) <= MaxAddr + 1
      /\ fwdAddr - Span(i) = C[i]
  <2>1. cursor <= MaxAddr + 1
    BY <1>4, AreaFacts DEF TypeOK
  <2> QED BY <1>3, <1>4, <2>1
<1>6. \E x \in 1..Len(in.ram) : in.ram[x].begin <= C[i] /\ C[i] <= in.ram[x].end
  <2>1. in.to <= C[i] /\ C[i] < cursor
    BY <1>3, <1>4, <1>5
  <2> QED BY <1>4, <2>1, AreaFacts DEF TypeOK
<1>7. ASSUME NEW x \in 1..Len(list) PROVE list[x].end < C[i] \/ C[i] + Span(i) <= list[x].begin
  <2>1. CASE \E y \in 1..Len(in.busy) : list[x] = in.busy[y]
    <3>1. PICK y \in 1..Len(in.busy) : list[x] = in.busy[y]
      BY <2>1
    <3>2. list[x].begin \in Nat /\ list[x].end \in Nat
      BY Entries DEF TypeOK
    <3>3. list[x].end < in.to \/ cursor <= list[x].begin
      BY <1>4, <3>1, AreaFacts DEF TypeOK
    <3> QED BY <1>3, <1>4, <1>5, <3>2, <3>3, SMTT(30)
  <2>2. CASE \E j \in 1..Count : Moved(j) /\ IsFor(list[x], C, j)
    <3>1. PICK j \in 1..Count : Moved(j) /\ list[x].begin = C[j]
      BY <2>2 DEF IsFor
    <3>2. i < j /\ j \in 1..Top
      BY <1>1, <3>1 DEF Moved
    <3> QED BY <1>2, <3>1, <3>2 DEF Laid, Targets
  <2> QED BY <2>1, <2>2 DEF Laid, Listed
<1>8. ASSUME NEW j \in 1..Count, j # i
      PROVE  start[sorter[j]] + Span(j) <= C[i] \/ C[i] + Span(i) <= start[sorter[j]]
  <2>0. /\ start[sorter[j]] = IF Moved(j) THEN C[j] ELSE Src(j)
        /\ Src(j) \in Nat /\ Span(j) \in Nat /\ j \in Nat
    BY <1>1, ModuleFacts DEF Laid, Placement
  <2>1. CASE j < i
    <3>1. ~Moved(j)
      BY <1>1, <2>1 DEF Moved
    <3>2. Src(j) + Span(j) <= Src(i)
      BY <1>2, <2>1, SortedApart
    <3> QED BY <1>3, <1>4, <2>0, <3>1, <3>2
  <2>2. CASE i < j /\ j <= endFwd
    <3>1. Moved(j) /\ j \in 1..Top
      BY <1>1, <2>2 DEF Moved
    <3>2. C[i] + Span(i) <= C[j]
      BY <1>2, <2>2, <3>1 DEF Laid, Targets
    <3> QED BY <2>0, <3>1, <3>2
  <2>3. CASE endFwd < j
    <3>1. ~Moved(j) /\ endFwd < Count /\ endFwd + 1 \in 1..Count
      BY <1>1, <2>0, <2>3 DEF Moved
    <3>2. cursor < Src(endFwd + 1) /\ Src(endFwd + 1) \in Nat
      BY <1>3, <3>1, ModuleFacts
    <3>3. Src(endFwd + 1) <= Src(j)
      <4>1. CASE j = endFwd + 1
        BY <3>2, <4>1
      <4>2. CASE endFwd + 1 < j
        <5>1. Src(endFwd + 1) + Span(endFwd + 1) <= Src(j) /\ Span(endFwd + 1) \in Nat
          BY <3>1, <4>2, SortedApart, ModuleFacts
        <5> QED BY <2>0, <3>2, <5>1
      <4> QED BY <1>1, <2>0, <2>3, <4>1, <4>2
    <3> QED BY <1>4, <1>5, <2>0, <3>1, <3>2, <3>3
  <2> QED BY <1>1, <1>2, <1>8, <2>0, <2>1, <2>2, <2>3
<1>9. ClearFor(i, C[i])
  BY <1>3, <1>4, <1>5, <1>6, <1>7, <1>8 DEF ClearFor
<1> QED BY <1>2, <1>3, <1>4, <1>5, <1>9

\* So is the target of the next module that goes down.
LEMMA ClearDown ==
  ASSUME TypeOK, SortedBelow(Count), Ranges, pc = "down", i <= Count, NEW C, Laid(C),
         AreaUpTo(cursor + Span(i))
  PROVE  /\ i \in 1..Count /\ ~Moved(i) /\ C[i] = cursor /\ ClearFor(i, cursor)
         /\ in.to <= cursor /\ Src(i) > cursor
<1>1. i \in 1..Count /\ i \in Nat /\ Count \in Nat /\ Top = i
  BY LayoutFacts DEF TypeOK, Ranges, Top
<1>2. ~Moved(i) /\ i \in 1..Top /\ i \in 1..(Count + 1)
  BY <1>1 DEF Moved
<1>3. /\ C \in [1..(Count + 1) -> Nat] /\ C[i] = cursor
      /\ C[i] >= in.to /\ C[i] % PageSize = 0 /\ cursor < Src(i)
  BY <1>1, <1>2 DEF Laid, Targets, Directions
<1>4. /\ Span(i) \in Nat /\ Span(i) >= 2 /\ Src(i) \in Nat /\ cursor \in Nat
      /\ in.to \in Nat /\ MaxAddr \in Nat /\ cursor + Span(i) \in Nat
  <2>1. /\ Length(i) \in Nat /\ Length(i) >= 2 /\ Length(i) <= Span(i)
        /\ Span(i) \in Nat /\ Src(i) \in Nat
    BY <1>1, ModuleFacts
  <2>2. cursor \in Nat /\ in.to \in Nat /\ MaxAddr \in Nat
    BY LayoutFacts DEF TypeOK
  <2>3. Span(i) >= 2
    BY <2>1
  <2> QED BY <2>1, <2>2, <2>3
<1>5. cursor + Span(i) <= MaxAddr + 1
  BY <1>4, AreaFacts DEF TypeOK
<1>6. \E x \in 1..Len(in.ram) : in.ram[x].begin <= cursor /\ cursor <= in.ram[x].end
  <2>1. in.to <= cursor /\ cursor < cursor + Span(i)
    BY <1>3, <1>4
  <2> QED BY <1>4, <2>1, AreaFacts DEF TypeOK
<1>7. ASSUME NEW x \in 1..Len(list) PROVE list[x].end < cursor \/ cursor + Span(i) <= list[x].begin
  <2>0. list[x].begin \in Nat /\ list[x].end \in Nat
    BY Entries DEF TypeOK
  <2>1. CASE \E y \in 1..Len(in.busy) : list[x] = in.busy[y]
    <3>1. PICK y \in 1..Len(in.busy) : list[x] = in.busy[y]
      BY <2>1
    <3>2. list[x].end < in.to \/ cursor + Span(i) <= list[x].begin
      BY <1>4, <3>1, AreaFacts DEF TypeOK
    <3> QED BY <1>3, <1>4, <2>0, <3>2
  <2>2. CASE \E j \in 1..Count : Moved(j) /\ IsFor(list[x], C, j)
    <3>1. PICK j \in 1..Count : Moved(j) /\ list[x].end = C[j] + Length(j) - 1
      BY <2>2 DEF IsFor
    <3>2. j < i /\ j \in 1..Top /\ j \in 1..(Count + 1)
      BY <1>1, <3>1 DEF Moved
    <3>3. C[j] + Span(j) <= cursor
      BY <1>1, <1>2, <1>3, <3>2 DEF Laid, Targets
    <3>4. C[j] \in Nat /\ Length(j) \in Nat /\ Span(j) \in Nat /\ Length(j) <= Span(j)
      BY <1>3, <3>2, ModuleFacts
    <3> QED BY <1>4, <2>0, <3>1, <3>3, <3>4, SMTT(30)
  <2> QED BY <2>1, <2>2 DEF Laid, Listed
<1>8. ASSUME NEW j \in 1..Count, j # i
      PROVE  start[sorter[j]] + Span(j) <= cursor \/ cursor + Span(i) <= start[sorter[j]]
  <2>0. /\ start[sorter[j]] = IF Moved(j) THEN C[j] ELSE Src(j)
        /\ Src(j) \in Nat /\ Span(j) \in Nat /\ j \in Nat
    BY <1>1, ModuleFacts DEF Laid, Placement
  <2>1. CASE j < i
    <3>1. Moved(j) /\ j \in 1..Top
      BY <1>1, <2>0, <2>1 DEF Moved
    <3>2. C[j] + Span(j) <= C[i]
      BY <1>2, <2>1, <3>1 DEF Laid, Targets
    <3> QED BY <1>3, <2>0, <3>1, <3>2
  <2>2. CASE i < j
    <3>1. ~Moved(j)
      BY <1>1, <2>0, <2>2 DEF Moved
    <3>2. Src(i) + Span(i) <= Src(j)
      BY <1>1, <2>2, SortedApart
    <3> QED BY <1>3, <1>4, <2>0, <3>1, <3>2
  <2> QED BY <1>1, <1>8, <2>0, <2>1, <2>2
<1>9. ClearFor(i, cursor)
  BY <1>3, <1>4, <1>5, <1>6, <1>7, <1>8 DEF ClearFor
<1> QED BY <1>1, <1>2, <1>3, <1>4, <1>9

-----------------------------------------------------------------------------
(* What a step leaves alone *)

\* Nothing changes the modules once they are sorted.
LEMMA Frame ==
  ASSUME in' = in, sorter' = sorter
  PROVE  /\ Count' = Count /\ Mods' = Mods
         /\ \A j : Src(j)' = Src(j) /\ Length(j)' = Length(j) /\ Span(j)' = Span(j)
         /\ SortedBelow(Count) => SortedBelow(Count)'
<1>1. Count' = Count /\ Mods' = Mods
  BY DEF Count, Mods
<1>2. \A j : Src(j)' = Src(j) /\ Length(j)' = Length(j) /\ Span(j)' = Span(j)
  BY DEF Src, Length, Span, Pages
<1>3. SortedBelow(Count) => SortedBelow(Count)'
  BY <1>1 DEF SortedBelow
<1> QED BY <1>1, <1>2, <1>3

\* A step that moves no module.
LEMMA Still ==
  ASSUME in' = in, sorter' = sorter, start' = start, data' = data, list' = list,
         NEW C, NEW D, Placement(C), Whole, Tails, Listed(C),
         \A j \in 1..Count : Moved(j)' <=> Moved(j),
         \A j \in 1..Count : Moved(j) => D[j] = C[j]
  PROVE  Placement(D)' /\ Whole' /\ Tails' /\ Listed(D)'
<1>1. /\ Count' = Count
      /\ \A j : Src(j)' = Src(j) /\ Length(j)' = Length(j) /\ Span(j)' = Span(j)
  BY Frame
<1>2. Placement(D)'
  BY <1>1 DEF Placement
<1>3. Whole'
  BY <1>1 DEF Whole
<1>4. Tails'
  BY <1>1 DEF Tails
<1>5. Listed(D)'
  <2>1. ASSUME NEW x \in 1..Len(list)
        PROVE  \/ \E y \in 1..Len(in.busy) : list[x] = in.busy[y]
               \/ \E j \in 1..Count :
                    Moved(j)' /\ list[x].begin = D[j] /\ list[x].end = D[j] + Length(j) - 1
    BY DEF Listed, IsFor
  <2>2. ASSUME NEW j \in 1..Count, Moved(j)'
        PROVE  \E x \in 1..Len(list) :
                 list[x].begin = D[j] /\ list[x].end = D[j] + Length(j) - 1
    BY <2>2 DEF Listed, IsFor
  <2> QED BY <1>1, <2>1, <2>2 DEF Listed, IsFor
<1> QED BY <1>2, <1>3, <1>4, <1>5

\* A step that lays out nothing.
LEMMA TargetsStay ==
  ASSUME in' = in, sorter' = sorter, cursor' = cursor, Top' = Top, NEW C, Targets(C)
  PROVE  Targets(C)'
BY Frame DEF Targets

\* A step that lays out one module.
LEMMA TargetsExtend ==
  ASSUME TypeOK, SortedBelow(Count), Ranges, pc \in {"split", "down"}, i <= Count,
         NEW C, Targets(C), NEW D, D = [C EXCEPT ![i + 1] = cursor + Span(i)],
         in' = in, sorter' = sorter, Top' = i + 1, cursor' = cursor + Span(i)
  PROVE  /\ Targets(D)' /\ \A j \in 1..i : D[j] = C[j]
         /\ cursor' \in Nat /\ cursor <= cursor' /\ C[i] = cursor
<1>1. i \in 1..Count /\ Count \in Nat /\ Top = i /\ Top \in 1..(Count + 1) /\ endFwd \in 0..Count
  BY TopFacts DEF Top, Ranges
<1>2. /\ C \in [1..(Count + 1) -> Nat] /\ C[1] = in.to /\ C[i] = cursor
      /\ \A k \in 1..i : C[k] >= in.to /\ C[k] % PageSize = 0
      /\ \A k \in 1..(i - 1) : C[k + 1] = C[k] + Span(k)
      /\ \A j, k \in 1..i : j < k => C[j] + Span(j) <= C[k]
  BY <1>1 DEF Targets
<1>3. /\ \A k \in 1..Count : Span(k) \in Nat /\ Span(k) % PageSize = 0
      /\ cursor \in Nat /\ in.to \in Nat /\ PageSize \in Nat \ {0}
  BY ModuleFacts, LayoutFacts DEF TypeOK
<1>4. /\ i + 1 \in 1..(Count + 1) /\ i \in 1..i /\ i \in 1..(Count + 1)
      /\ cursor + Span(i) \in Nat /\ cursor <= cursor + Span(i)
  BY <1>1, <1>3
<1>5. /\ D \in [1..(Count + 1) -> Nat] /\ D[i + 1] = cursor + Span(i)
      /\ \A j \in 1..i : D[j] = C[j]
  BY <1>1, <1>2, <1>4
<1>6. cursor >= in.to /\ cursor % PageSize = 0
  BY <1>2, <1>4
<1>7. ASSUME NEW k \in 1..(i + 1) PROVE D[k] >= in.to /\ D[k] % PageSize = 0
  <2>1. CASE k = i + 1
    <3>1. (cursor + Span(i)) % PageSize = 0
      BY <1>1, <1>3, <1>6, MultipleSum
    <3> QED BY <1>3, <1>4, <1>5, <1>6, <2>1, <3>1
  <2>2. CASE k # i + 1
    <3>1. k \in 1..i
      BY <1>1, <2>2
    <3> QED BY <1>2, <1>5, <3>1
  <2> QED BY <2>1, <2>2
<1>8. ASSUME NEW k \in 1..i PROVE D[k + 1] = D[k] + Span(k)
  <2>1. CASE k = i
    BY <1>2, <1>4, <1>5, <2>1
  <2>2. CASE k # i
    <3>1. k \in 1..(i - 1) /\ k + 1 \in 1..i
      BY <1>1, <2>2
    <3> QED BY <1>2, <1>5, <3>1
  <2> QED BY <2>1, <2>2
<1>9. ASSUME NEW j \in 1..(i + 1), NEW k \in 1..(i + 1), j < k
      PROVE  D[j] + Span(j) <= D[k]
  <2>1. j \in 1..i /\ j \in 1..Count /\ j \in 1..(Count + 1)
    BY <1>1, <1>9
  <2>2. D[j] = C[j] /\ C[j] \in Nat /\ Span(j) \in Nat
    BY <1>2, <1>3, <1>5, <2>1
  <2>3. CASE k = i + 1
    <3>1. CASE j = i
      BY <1>2, <1>4, <1>5, <2>3, <3>1
    <3>2. CASE j # i
      <4>1. C[j] + Span(j) <= cursor
        BY <1>1, <1>2, <1>4, <2>1, <3>2
      <4>2. cursor <= D[k] /\ D[k] \in Nat
        BY <1>4, <1>5, <2>3
      <4> QED BY <1>3, <2>2, <4>1, <4>2
    <3> QED BY <3>1, <3>2
  <2>4. CASE k # i + 1
    <3>1. k \in 1..i
      BY <1>1, <2>4
    <3> QED BY <1>2, <1>5, <1>9, <2>1, <2>2, <3>1
  <2> QED BY <2>3, <2>4
<1>10. D[1] = in.to
  BY <1>1, <1>2, <1>5
<1>11. Targets(D)'
  <2>1. Count' = Count /\ \A k : Span(k)' = Span(k)
    BY Frame
  <2>2. Top' - 1 = i
    BY <1>1
  <2> QED BY <1>5, <1>7, <1>8, <1>9, <1>10, <2>1, <2>2 DEF Targets
<1> QED BY <1>2, <1>4, <1>5, <1>11

\* The part laid out only grows.
LEMMA AreaGrows ==
  ASSUME TypeOK, WrittenInArea, in' = in, data' = data, cursor' \in Nat, cursor <= cursor'
  PROVE  WrittenInArea'
<1>1. cursor \in Nat /\ in.to \in Nat
  BY LayoutFacts DEF TypeOK
<1>2. ASSUME NEW a \in Addr \ (in.to..(cursor' - 1)) PROVE a \in Addr \ (in.to..(cursor - 1))
  <2>1. a \in Addr /\ a \in Nat /\ a \notin in.to..(cursor' - 1)
    BY LayoutFacts DEF TypeOK
  <2>2. a < in.to \/ a >= cursor'
    <3> DEFINE c == cursor'
               t == in.to
    <3>1. c \in Nat /\ t \in Nat /\ a \in Nat /\ a \notin t..(c - 1)
      BY <1>1, <2>1
    <3> HIDE DEF c, t
    <3>2. a < t \/ a >= c
      BY <3>1
    <3> QED BY <3>2 DEF c, t
  <2>3. a < in.to \/ a >= cursor
    BY <1>1, <2>1, <2>2
  <2>4. a \notin in.to..(cursor - 1)
    BY <1>1, <2>1, <2>3
  <2> QED BY <2>1, <2>4
<1>3. \A a \in Addr \ (in.to..(cursor' - 1)) : data[a] = Loaded(in)[a]
  BY <1>2 DEF WrittenInArea
<1>4. Loaded(in)' = Loaded(in)
  BY DEF Loaded
<1> QED BY <1>3, <1>4 DEF WrittenInArea

-----------------------------------------------------------------------------
(* Sorting *)

\* Loaded, byte by byte.
LEMMA LoadedShape ==
  ASSUME in \in Layouts
  PROVE  /\ Loaded(in) \in [Addr -> {Zero, Other} \cup (Mods \X Addr)]
         /\ \A m \in 1..Count : \A x \in 0..(in.size[m] - 1) :
              Loaded(in)[in.start[m] + x] = <<m, x>>
<1> DEFINE Inside(a) ==
             { m \in DOMAIN in.size : a \in in.start[m]..(in.start[m] + in.size[m] - 1) }
           Value(a) == IF Inside(a) = {} THEN Other
                       ELSE LET m == CHOOSE x \in Inside(a) : TRUE IN <<m, a - in.start[m]>>
<1>1. Loaded(in) = [a \in Addr |-> Value(a)]
  BY DEF Loaded
<1>2. /\ Count \in Nat /\ Mods = 1..Count /\ MaxAddr \in Nat /\ Addr = 0..MaxAddr
      /\ \A m \in 1..Count : /\ in.start[m] \in Nat /\ in.size[m] \in Nat /\ in.size[m] >= 2
                             /\ in.start[m] + in.size[m] - 1 <= MaxAddr
      /\ \A m, n \in 1..Count :
           m # n => \/ in.start[m] + in.size[m] <= in.start[n]
                    \/ in.start[n] + in.size[n] <= in.start[m]
  BY LayoutFacts
<1>3. DOMAIN in.size = 1..Count
  <2>1. in.size \in Seq(Addr \ {0})
    BY LayoutAssumption
  <2> QED BY <2>1, LenProperties DEF Count
<1>4. \A a : \A m : m \in Inside(a) <=>
        m \in 1..Count /\ a \in in.start[m]..(in.start[m] + in.size[m] - 1)
  BY <1>3
<1> HIDE DEF Inside
<1>5. ASSUME NEW a \in Addr PROVE Value(a) \in {Zero, Other} \cup (Mods \X Addr)
  <2>1. CASE Inside(a) = {}
    BY <2>1
  <2>2. CASE Inside(a) # {}
    <3> DEFINE m == CHOOSE x \in Inside(a) : TRUE
    <3>1. m \in Inside(a)
      BY <2>2
    <3>2. Value(a) = <<m, a - in.start[m]>>
      BY <2>2
    <3> HIDE DEF m, Value
    <3>3. m \in 1..Count /\ a \in in.start[m]..(in.start[m] + in.size[m] - 1)
      BY <1>4, <3>1
    <3>4. in.start[m] \in Nat /\ in.start[m] <= a
      BY <1>2, <3>3
    <3>5. a - in.start[m] \in Addr
      <4> DEFINE s == in.start[m]
      <4>1. s \in Nat /\ s <= a /\ a \in 0..MaxAddr
        BY <1>2, <3>4
      <4> HIDE DEF s
      <4>2. a - s \in 0..MaxAddr
        BY <1>2, <4>1
      <4> QED BY <1>2, <4>2 DEF s
    <3> QED BY <1>2, <3>2, <3>3, <3>5
  <2> QED BY <2>1, <2>2
<1>6. ASSUME NEW m \in 1..Count, NEW x \in 0..(in.size[m] - 1)
      PROVE  Loaded(in)[in.start[m] + x] = <<m, x>>
  <2> DEFINE s == in.start[m]
             z == in.size[m]
             a == s + x
  <2>1. s \in Nat /\ z \in Nat /\ z >= 2 /\ s + z - 1 <= MaxAddr /\ x \in 0..(z - 1)
    BY <1>2
  <2>2. a \in Addr /\ a \in s..(s + z - 1) /\ a - s = x
    <3> HIDE DEF s, z
    <3> QED BY <1>2, <2>1
  <2>3. m \in Inside(a)
    BY <1>4, <2>2
  <2>4. ASSUME NEW n \in Inside(a) PROVE n = m
    <3>1. n \in 1..Count /\ a \in in.start[n]..(in.start[n] + in.size[n] - 1)
      BY <1>4
    <3> DEFINE t == in.start[n]
               y == in.size[n]
    <3>2. /\ t \in Nat /\ y \in Nat /\ a \in t..(t + y - 1)
          /\ n # m => t + y <= s \/ s + z <= t
      BY <1>2, <3>1
    <3> HIDE DEF s, z, a, t, y
    <3> QED BY <2>1, <2>2, <3>2
  <2>5. (CHOOSE n \in Inside(a) : TRUE) = m
    BY <2>3, <2>4
  <2>6. Value(a) = <<m, a - s>>
    BY <2>3, <2>5
  <2>7. Loaded(in)[a] = Value(a)
    BY <1>1, <2>2
  <2> QED BY <2>2, <2>6, <2>7
<1>7. Loaded(in) \in [Addr -> {Zero, Other} \cup (Mods \X Addr)]
  <2> HIDE DEF Value
  <2> QED BY <1>1, <1>5
<1> QED BY <1>6, <1>7

\* The initial state satisfies the invariant.
LEMMA InitInv == Init => MoveInv
<1> SUFFICES ASSUME Init PROVE MoveInv
  OBVIOUS
<1>1. /\ in \in Layouts /\ Count \in Nat /\ in.to \in Nat
      /\ start \in [Mods -> Addr] /\ list \in Seq(Region)
  BY LayoutFacts DEF Init
<1>2. data \in [Addr -> {Zero, Other} \cup (Mods \X Addr)]
  BY LoadedShape DEF Init
<1>3. TypeOK
  <2>1. sorter \in Seq(Mods) /\ cursor \in Nat /\ fwdAddr \in Nat
        /\ i \in 0..(Count + 1) /\ endFwd \in 0..Count
        /\ pc \in {"sort", "split", "up", "down", "done", "panic"}
    BY <1>1 DEF Init
  <2> QED BY <1>1, <1>2, <2>1 DEF TypeOK
<1>4. WrittenInArea
  BY DEF Init, WrittenInArea
<1>5. SortedBelow(i - 1)
  <2>1. i - 1 = 0 /\ Len(sorter) = 0
    BY DEF Init
  <2> QED BY <2>1 DEF SortedBelow
<1>6. i \in 1..(Count + 1)
  BY <1>1 DEF Init
<1> QED BY <1>3, <1>4, <1>5, <1>6 DEF MoveInv, Init

\* mod_insert_sorted() finds the place of the next module.
LEMMA PlaceFound ==
  ASSUME TypeOK, i \in 1..Count, SortedBelow(i - 1), start = in.start
  PROVE  /\ SortPlace(i) \in 1..i
         /\ \A k \in 1..(i - 1) : k < SortPlace(i) => in.start[sorter[k]] < in.start[i]
         /\ \A k \in 1..(i - 1) : k >= SortPlace(i) => in.start[i] < in.start[sorter[k]]
<1>1. /\ Count \in Nat /\ i \in Nat /\ sorter \in Seq(Mods)
      /\ \A m \in 1..Count : in.start[m] \in Nat /\ in.size[m] \in Nat /\ in.size[m] >= 2
      /\ \A m, n \in 1..Count :
           m # n => \/ in.start[m] + in.size[m] <= in.start[n]
                    \/ in.start[n] + in.size[n] <= in.start[m]
  <2>1. in \in Layouts /\ sorter \in Seq(Mods) /\ i \in Nat
    BY DEF TypeOK
  <2> QED BY <2>1, LayoutFacts
<1>2. /\ Len(sorter) = i - 1 /\ DOMAIN sorter = 1..(i - 1) /\ Len(sorter) + 1 = i
      /\ \A k \in 1..(i - 1) : sorter[k] \in 1..(i - 1) /\ sorter[k] \in 1..Count /\ sorter[k] # i
      /\ \A j, k \in 1..(i - 1) : j < k => in.start[sorter[j]] < in.start[sorter[k]]
  <2>1. /\ Len(sorter) = i - 1 /\ DOMAIN sorter = 1..Len(sorter)
        /\ \A k \in 1..(i - 1) : sorter[k] \in 1..(i - 1)
        /\ \A j, k \in 1..(i - 1) : j < k => in.start[sorter[j]] < in.start[sorter[k]]
    BY <1>1, LenProperties DEF SortedBelow
  <2>2. \A m \in 1..(i - 1) : m \in 1..Count /\ m # i
    BY <1>1
  <2> QED BY <1>1, <2>1, <2>2, SMTT(30)
<1>3. \A k \in 1..(i - 1) : in.start[sorter[k]] # in.start[i] /\ in.start[sorter[k]] \in Nat
  <2> TAKE k \in 1..(i - 1)
  <2> DEFINE m == sorter[k]
             s == in.start[m]
             t == in.start[i]
  <2>1. /\ s \in Nat /\ in.size[m] \in Nat /\ in.size[m] >= 2
        /\ t \in Nat /\ in.size[i] \in Nat /\ in.size[i] >= 2
        /\ s + in.size[m] <= t \/ t + in.size[i] <= s
    BY <1>1, <1>2
  <2> DEFINE y == in.size[m]
             z == in.size[i]
  <2>2. s \in Nat /\ y \in Nat /\ y >= 2 /\ t \in Nat /\ z \in Nat /\ z >= 2
        /\ (s + y <= t \/ t + z <= s)
    BY <2>1
  <2> HIDE DEF s, t, y, z
  <2>3. s # t
    BY <2>2
  <2> QED BY <2>2, <2>3 DEF s, t
<1> DEFINE higher == { k \in DOMAIN sorter : start[i] < start[sorter[k]] }
<1>4. \A k : k \in higher <=> k \in 1..(i - 1) /\ in.start[i] < in.start[sorter[k]]
  BY <1>2
<1>5. SortPlace(i) = IF higher = {} THEN i ELSE CHOOSE k \in higher : \A j \in higher : k <= j
  BY <1>2 DEF SortPlace
<1> HIDE DEF higher
<1>6. \A k \in 1..(i - 1) : k \notin higher => in.start[sorter[k]] < in.start[i]
  <2> SUFFICES ASSUME NEW k \in 1..(i - 1), k \notin higher
               PROVE  in.start[sorter[k]] < in.start[i]
    OBVIOUS
  <2> DEFINE s == in.start[sorter[k]]
             t == in.start[i]
  <2>1. s \in Nat /\ t \in Nat /\ s # t /\ ~(t < s)
    BY <1>1, <1>3, <1>4
  <2> HIDE DEF s, t
  <2>2. s < t
    BY <2>1
  <2> QED BY <2>2 DEF s, t
<1>7. CASE higher = {}
  <2>1. SortPlace(i) = i
    BY <1>5, <1>7
  <2>2. \A k \in 1..(i - 1) : k \notin higher /\ ~(k >= i)
    BY <1>1, <1>7
  <2>3. i \in 1..i
    BY <1>1
  <2> QED BY <1>6, <2>1, <2>2, <2>3
<1>8. CASE higher # {}
  <2>1. \A k \in higher : k \in Nat
    BY <1>1, <1>4
  <2>2. higher \in SUBSET Nat
    BY <2>1
  <2>3. \E k \in higher : \A j \in higher : k <= j
    BY <1>8, <2>2, LeastElement
  <2> DEFINE p == SortPlace(i)
  <2>4. p \in higher /\ \A j \in higher : p <= j
    BY <1>5, <1>8, <2>3
  <2>5. p \in 1..(i - 1) /\ in.start[i] < in.start[sorter[p]]
    BY <1>4, <2>4
  <2> HIDE DEF p
  <2>6. ASSUME NEW k \in 1..(i - 1), k < p PROVE in.start[sorter[k]] < in.start[i]
    <3>1. k \notin higher
      BY <1>1, <2>4, <2>5, <2>6
    <3> QED BY <1>6, <3>1
  <2>7. ASSUME NEW k \in 1..(i - 1), k >= p PROVE in.start[i] < in.start[sorter[k]]
    <3>1. CASE k = p
      BY <2>5, <3>1
    <3>2. CASE k # p
      <4> DEFINE a == in.start[i]
                 b == in.start[sorter[p]]
                 c == in.start[sorter[k]]
      <4>1. a \in Nat /\ b \in Nat /\ c \in Nat /\ a < b /\ b < c
        BY <1>1, <1>2, <1>3, <2>5, <2>7, <3>2, SMTT(30)
      <4> HIDE DEF a, b, c
      <4>2. a < c
        BY <4>1
      <4> QED BY <4>2 DEF a, c
    <3> QED BY <3>1, <3>2
  <2>8. p \in 1..i
    BY <1>1, <2>5
  <2> QED BY <2>6, <2>7, <2>8 DEF p
<1> QED BY <1>7, <1>8

\* Sort keeps the invariant: the sorter stays sorted, and is never too small.
LEMMA InsertKept ==
  ASSUME MoveInv, Sort, i <= Count
  PROVE  MoveInv'
<1>1. /\ TypeOK /\ pc = "sort" /\ i \in 1..(Count + 1) /\ SortedBelow(i - 1) /\ WrittenInArea
      /\ start = in.start /\ data = Loaded(in) /\ list = in.busy /\ cursor = in.to
  BY DEF MoveInv, Sort
<1>2. /\ Count \in Nat /\ MaxMods \in Nat /\ Count <= MaxMods /\ i \in 1..Count /\ i \in Nat
      /\ Mods = 1..Count /\ cursor \in Nat /\ sorter \in Seq(Mods)
  BY <1>1, LayoutFacts, LayoutAssumption DEF TypeOK
<1>3. Len(sorter) = i - 1 /\ Len(sorter) + 1 = i
  BY <1>1, <1>2 DEF SortedBelow
<1>4. ~(i > Count) /\ ~(Len(sorter) >= MaxMods)
  BY <1>2, <1>3
<1> DEFINE p == SortPlace(i)
           t == InsertAt(sorter, p, i)
<1>5. /\ sorter' = t /\ i' = i + 1 /\ pc' = pc
      /\ UNCHANGED <<in, start, data, list, endFwd, cursor, fwdAddr>>
  BY <1>4 DEF Sort
<1>6. /\ p \in 1..i
      /\ \A k \in 1..(i - 1) : k < p => in.start[sorter[k]] < in.start[i]
      /\ \A k \in 1..(i - 1) : k >= p => in.start[i] < in.start[sorter[k]]
  BY <1>1, <1>2, PlaceFound
<1> HIDE DEF p
<1>7. /\ t \in Seq(Mods) /\ Len(t) = i
      /\ \A j \in 1..i : t[j] = IF j < p THEN sorter[j] ELSE IF j = p THEN i ELSE sorter[j - 1]
  <2>1. i \in Mods /\ p \in 1..(Len(sorter) + 1)
    BY <1>2, <1>3, <1>6
  <2>2. /\ t \in Seq(Mods) /\ Len(t) = Len(sorter) + 1
        /\ \A j \in 1..(Len(sorter) + 1) :
             t[j] = IF j < p THEN sorter[j] ELSE IF j = p THEN i ELSE sorter[j - 1]
    <3>1. sorter \in Seq(Mods)
      BY <1>2
    <3> QED BY <2>1, <3>1, InsertAtShape
  <2> HIDE DEF t
  <2> QED BY <1>3, <2>2
<1> HIDE DEF t
<1>8. /\ \A k \in 1..(i - 1) : sorter[k] \in 1..(i - 1)
      /\ \A m \in 1..(i - 1) : \E k \in 1..(i - 1) : sorter[k] = m
      /\ \A j, k \in 1..(i - 1) : j < k => in.start[sorter[j]] < in.start[sorter[k]]
  BY <1>1 DEF SortedBelow
<1>9. ASSUME NEW k \in 1..i
      PROVE  /\ k < p => k \in 1..(i - 1) /\ t[k] = sorter[k]
             /\ k = p => t[k] = i
             /\ k > p => k - 1 \in 1..(i - 1) /\ k - 1 >= p /\ t[k] = sorter[k - 1]
  BY <1>2, <1>6, <1>7
<1>10. ASSUME NEW k \in 1..i PROVE t[k] \in 1..i
  <2>1. \A m \in 1..(i - 1) : m \in 1..i
    BY <1>2
  <2>2. i \in 1..i /\ (k < p \/ k = p \/ k > p)
    BY <1>2, <1>6
  <2> QED BY <1>8, <1>9, <2>1, <2>2
<1>11. ASSUME NEW m \in 1..i PROVE \E k \in 1..i : t[k] = m
  <2>1. CASE m = i
    BY <1>6, <1>9, <2>1
  <2>2. CASE m # i
    <3>1. m \in 1..(i - 1)
      BY <1>2, <2>2
    <3>2. PICK k \in 1..(i - 1) : sorter[k] = m
      BY <1>8, <3>1
    <3>3. CASE k < p
      <4>1. k \in 1..i
        BY <1>2
      <4> QED BY <1>9, <3>2, <3>3, <4>1
    <3>4. CASE k >= p
      <4>1. k + 1 \in 1..i /\ k + 1 > p /\ (k + 1) - 1 = k
        BY <1>2, <1>6, <3>4
      <4>2. t[k + 1] = sorter[k]
        BY <1>9, <4>1
      <4> QED BY <3>2, <4>1, <4>2
    <3> QED BY <1>2, <1>6, <3>3, <3>4
  <2> QED BY <2>1, <2>2
<1>12. ASSUME NEW j \in 1..i, NEW k \in 1..i, j < k PROVE in.start[t[j]] < in.start[t[k]]
  <2>0. j \in Nat /\ k \in Nat /\ p \in Nat
    BY <1>2, <1>6
  <2>1. CASE k < p
    <3>1. j < p
      BY <1>12, <2>0, <2>1
    <3> QED BY <1>8, <1>9, <1>12, <2>1, <3>1
  <2>2. CASE k = p
    <3>1. j < p
      BY <1>12, <2>0, <2>2
    <3> QED BY <1>6, <1>9, <2>2, <3>1
  <2>3. CASE k > p /\ j = p
    BY <1>6, <1>9, <2>3
  <2>4. CASE k > p /\ j < p
    <3>1. /\ j \in 1..(i - 1) /\ t[j] = sorter[j]
          /\ k - 1 \in 1..(i - 1) /\ t[k] = sorter[k - 1]
      BY <1>9, <2>4
    <3>2. j < k - 1
      BY <1>9, <2>0, <2>4
    <3> QED BY <1>8, <3>1, <3>2
  <2>5. CASE k > p /\ j > p
    <3>1. /\ j - 1 \in 1..(i - 1) /\ t[j] = sorter[j - 1]
          /\ k - 1 \in 1..(i - 1) /\ t[k] = sorter[k - 1]
      BY <1>9, <2>5
    <3>2. j - 1 < k - 1
      BY <1>12, <2>0
    <3> QED BY <1>8, <3>1, <3>2
  <2> QED BY <2>0, <2>1, <2>2, <2>3, <2>4, <2>5
<1>13. SortedBelow(i - 1)'
  <2>1. i' - 1 = i
    BY <1>2, <1>5
  <2>2. in' = in
    BY <1>5
  <2> QED BY <1>5, <1>7, <1>10, <1>11, <1>12, <2>1, <2>2 DEF SortedBelow
<1>14. Count' = Count /\ Mods' = Mods /\ i' \in 1..(Count + 1) /\ i' \in 0..(Count + 1)
  BY <1>2, <1>5 DEF Count, Mods
<1>15. TypeOK'
  <2>1. in' \in Layouts /\ start' \in [Mods' -> Addr] /\ list' \in Seq(Region)
        /\ data' \in [Addr -> {Zero, Other} \cup (Mods' \X Addr)] /\ sorter' \in Seq(Mods')
    BY <1>1, <1>5, <1>7, <1>14 DEF TypeOK
  <2>2. endFwd' \in 0..Count' /\ cursor' \in Nat /\ fwdAddr' \in Nat
        /\ pc' \in {"sort", "split", "up", "down", "done", "panic"}
    BY <1>1, <1>5, <1>14 DEF TypeOK
  <2> QED BY <1>14, <2>1, <2>2 DEF TypeOK
<1>16. WrittenInArea'
  <2>1. in' = in /\ data' = data /\ cursor' \in Nat /\ cursor <= cursor'
    BY <1>2, <1>5
  <2> QED BY <1>1, <2>1, AreaGrows
<1>17. pc' = "sort" /\ start' = in'.start /\ list' = in'.busy /\ cursor' = in'.to
  BY <1>1, <1>5
<1>18. data' = Loaded(in)'
  BY <1>1, <1>5
<1> QED BY <1>13, <1>14, <1>15, <1>16, <1>17, <1>18 DEF MoveInv

\* All modules are sorted, and none is moved yet.
LEMMA SortedKept ==
  ASSUME MoveInv, Sort, i > Count
  PROVE  MoveInv'
<1>1. /\ TypeOK /\ pc = "sort" /\ i \in 1..(Count + 1) /\ SortedBelow(i - 1) /\ WrittenInArea
      /\ start = in.start /\ data = Loaded(in) /\ list = in.busy /\ cursor = in.to
  BY DEF MoveInv, Sort
<1>2. /\ Count \in Nat /\ cursor \in Nat /\ in.to \in Nat /\ in.to % PageSize = 0
      /\ in \in Layouts /\ Ascending(in.busy) /\ Count + 1 \in Nat
  BY <1>1, LayoutFacts DEF TypeOK
<1>3. i - 1 = Count
  BY <1>1, <1>2
<1>4. SortedBelow(Count)
  BY <1>1, <1>3
<1>5. /\ i' = 1 /\ pc' = "split" /\ sorter' = sorter /\ in' = in /\ start' = start
      /\ data' = data /\ list' = list /\ endFwd' = endFwd /\ cursor' = cursor
      /\ fwdAddr' = fwdAddr
  BY DEF Sort
<1>6. /\ Count' = Count /\ Mods' = Mods /\ SortedBelow(Count)'
      /\ \A j : Src(j)' = Src(j) /\ Length(j)' = Length(j) /\ Span(j)' = Span(j)
  BY <1>4, <1>5, Frame
<1>7. TypeOK'
  <2>1. in' \in Layouts /\ start' \in [Mods' -> Addr] /\ list' \in Seq(Region)
        /\ data' \in [Addr -> {Zero, Other} \cup (Mods' \X Addr)] /\ sorter' \in Seq(Mods')
    BY <1>1, <1>5, <1>6 DEF TypeOK
  <2>2. endFwd' \in 0..Count' /\ cursor' \in Nat /\ fwdAddr' \in Nat /\ i' \in 0..(Count' + 1)
        /\ pc' \in {"sort", "split", "up", "down", "done", "panic"}
    BY <1>1, <1>2, <1>5, <1>6 DEF TypeOK
  <2> QED BY <2>1, <2>2 DEF TypeOK
<1>8. WrittenInArea'
  <2>1. cursor' \in Nat /\ cursor <= cursor'
    BY <1>2, <1>5
  <2> QED BY <1>1, <1>5, <2>1, AreaGrows
<1>9. \A k : ~Moved(k)'
  BY <1>5 DEF Moved
<1>10. Whole'
  <2> SUFFICES ASSUME NEW k \in 1..Count, NEW x \in 0..(Length(k) - 1)
               PROVE  data'[start'[sorter[k]] + x] = <<sorter[k], x>>
    BY <1>5, <1>6 DEF Whole
  <2>1. sorter[k] \in 1..Count
    BY <1>4 DEF SortedBelow
  <2> QED BY <1>1, <1>2, <1>5, <2>1, LoadedShape DEF Length
<1>11. Tails' /\ Ascending(list)'
  BY <1>1, <1>2, <1>5, <1>9 DEF Tails, Ascending
<1>12. PICK C : C = [k \in 1..(Count + 1) |-> in.to]
  OBVIOUS
<1>13. C \in [1..(Count + 1) -> Nat] /\ C[1] = in.to
  <2>1. 1 \in 1..(Count + 1)
    BY <1>2
  <2> QED BY <1>2, <1>12, <2>1
<1>14. Top' = 1 /\ Ranges'
  BY <1>2, <1>5, <1>6 DEF Top, Ranges
<1>15. Targets(C)'
  <2>1. \A k \in 1..1 : C[k] >= in.to /\ C[k] % PageSize = 0
    BY <1>2, <1>13
  <2>2. \A k \in 1..(1 - 1) : FALSE
    OBVIOUS
  <2>3. \A j, k \in 1..1 : ~(j < k)
    OBVIOUS
  <2> QED BY <1>1, <1>5, <1>6, <1>13, <1>14, <2>1, <2>2, <2>3 DEF Targets
<1>16. Directions(C)'
  <2>1. \A k \in 1..(i' - 1) : FALSE
    BY <1>5
  <2> QED BY <1>5, <2>1 DEF Directions
<1>17. Placement(C)'
  BY <1>1, <1>5, <1>6, <1>9 DEF Placement, Src
<1>18. Listed(C)'
  BY <1>1, <1>5, <1>9 DEF Listed
<1>19. Laid(C)'
  BY <1>15, <1>16, <1>17, <1>18 DEF Laid
<1>20. \E E \in [1..(Count' + 1) -> Nat] : Laid(E)'
  BY <1>6, <1>13, <1>19
<1> QED BY <1>5, <1>6, <1>7, <1>8, <1>10, <1>11, <1>14, <1>20 DEF MoveInv

-----------------------------------------------------------------------------
(* The steps that move nothing *)

\* What the invariant says once the modules are sorted.
LEMMA SortedState ==
  ASSUME MoveInv, pc \in {"split", "up", "down", "done"}
  PROVE  /\ TypeOK /\ WrittenInArea /\ SortedBelow(Count) /\ Ranges
         /\ Whole /\ Tails /\ Ascending(list)
         /\ \E C \in [1..(Count + 1) -> Nat] : Laid(C)
BY DEF MoveInv

\* The types after a step that moves nothing.
LEMMA TypeStill ==
  ASSUME TypeOK, UNCHANGED <<in, start, data, list, sorter>>,
         i' \in 0..(Count + 1), endFwd' \in 0..Count, cursor' \in Nat, fwdAddr' \in Nat,
         pc' \in {"split", "up", "down", "done"}
  PROVE  TypeOK'
<1>1. Count' = Count /\ Mods' = Mods
  BY DEF Count, Mods
<1> QED BY <1>1 DEF TypeOK

\* The search for end_fwd: the next module goes up.
LEMMA SplitOnKept ==
  ASSUME MoveInv, Split, i <= Count, GoesUp(sorter[i])
  PROVE  MoveInv'
<1>1. /\ pc = "split" /\ cursor' = cursor + Span(i) /\ i' = i + 1 /\ pc' = pc
      /\ endFwd' = endFwd /\ fwdAddr' = fwdAddr
      /\ in' = in /\ start' = start /\ data' = data /\ list' = list /\ sorter' = sorter
  BY DEF Split, Span
<1>2. /\ TypeOK /\ WrittenInArea /\ SortedBelow(Count) /\ Ranges /\ Whole /\ Tails
      /\ Ascending(list) /\ \E C \in [1..(Count + 1) -> Nat] : Laid(C)
  BY <1>1, SortedState
<1>3. PICK C \in [1..(Count + 1) -> Nat] : Laid(C)
  BY <1>2
<1>4. Targets(C) /\ Directions(C) /\ Placement(C) /\ Listed(C)
  BY <1>3 DEF Laid
<1>5. PICK D : D = [C EXCEPT ![i + 1] = cursor + Span(i)]
  OBVIOUS
<1>6. /\ Count \in Nat /\ i \in 1..Count /\ i \in Nat /\ i' \in 1..(Count + 1)
      /\ i' \in 0..(Count + 1) /\ endFwd \in 0..Count
  BY <1>1, <1>2, LayoutFacts DEF TypeOK, Ranges
<1>7. Top' = i + 1
  BY <1>1 DEF Top
<1>8. /\ Targets(D)' /\ \A j \in 1..i : D[j] = C[j]
      /\ cursor' \in Nat /\ cursor <= cursor' /\ C[i] = cursor
  BY <1>1, <1>2, <1>4, <1>5, <1>7, TargetsExtend
<1>9. \A j : ~Moved(j) /\ ~Moved(j)'
  BY <1>1 DEF Moved
<1>10. Placement(D)' /\ Whole' /\ Tails' /\ Listed(D)'
  BY <1>1, <1>2, <1>4, <1>9, Still
<1>11. /\ Count' = Count /\ SortedBelow(Count)' /\ \A j : Src(j)' = Src(j)
  BY <1>1, <1>2, Frame
<1>12. Directions(D)'
  <2>1. ASSUME NEW k \in 1..i PROVE Src(k) <= D[k]
    <3>1. CASE k = i
      <4>1. Src(i) = start[sorter[i]]
        BY <1>4, <1>6, <1>9 DEF Placement
      <4>2. start[sorter[i]] <= cursor
        <5>1. start[sorter[i]] \in Nat /\ cursor \in Nat
          BY <1>2, <1>6, <4>1, ModuleFacts DEF TypeOK
        <5> QED BY <5>1 DEF GoesUp
      <4> QED BY <1>8, <3>1, <4>1, <4>2
    <3>2. CASE k # i
      <4>1. k \in 1..(i - 1)
        BY <1>6, <3>2
      <4> QED BY <1>1, <1>4, <1>8, <4>1 DEF Directions
    <3> QED BY <3>1, <3>2
  <2>2. i' - 1 = i
    BY <1>1, <1>6
  <2> QED BY <1>1, <1>11, <2>1, <2>2 DEF Directions
<1>13. Laid(D)' /\ D \in [1..(Count' + 1) -> Nat]
  BY <1>8, <1>10, <1>12 DEF Laid, Targets
<1>14. TypeOK'
  <2>1. fwdAddr' \in Nat
    BY <1>1, <1>2 DEF TypeOK
  <2> QED BY <1>1, <1>2, <1>6, <1>8, <2>1, TypeStill
<1>15. WrittenInArea'
  BY <1>1, <1>2, <1>8, AreaGrows
<1>16. Ranges' /\ Ascending(list)'
  BY <1>1, <1>2, <1>6, <1>11 DEF Ranges, Ascending
<1> QED BY <1>1, <1>10, <1>11, <1>13, <1>14, <1>15, <1>16 DEF MoveInv

\* A step that moves nothing and lays out nothing keeps the invariant if the
\* loops still agree with it.
LEMMA StillKept ==
  ASSUME MoveInv, NEW C, Laid(C), pc \in {"split", "up", "down", "done"},
         pc' \in {"split", "up", "down", "done"},
         in' = in, start' = start, data' = data, list' = list, sorter' = sorter,
         cursor' = cursor, fwdAddr' \in Nat, Top' = Top, i' \in 0..(Count + 1),
         endFwd' \in 0..Count, \A j \in 1..Count : Moved(j)' <=> Moved(j),
         Ranges', Directions(C)'
  PROVE  MoveInv'
<1>1. /\ TypeOK /\ WrittenInArea /\ SortedBelow(Count) /\ Whole /\ Tails /\ Ascending(list)
  BY SortedState
<1>2. Targets(C) /\ Placement(C) /\ Listed(C)
  BY DEF Laid
<1>3. Placement(C)' /\ Whole' /\ Tails' /\ Listed(C)'
  BY <1>1, <1>2, Still
<1>4. Targets(C)'
  BY <1>2, TargetsStay
<1>5. Laid(C)' /\ C \in [1..(Count' + 1) -> Nat]
  BY <1>3, <1>4 DEF Laid, Targets
<1>6. cursor \in Nat /\ cursor' \in Nat /\ cursor <= cursor'
  BY <1>1 DEF TypeOK
<1>7. TypeOK'
  BY <1>1, <1>6, TypeStill
<1>8. WrittenInArea'
  BY <1>1, <1>6, AreaGrows
<1>9. SortedBelow(Count)' /\ Ascending(list)'
  BY <1>1, Frame DEF Ascending
<1> QED BY <1>3, <1>5, <1>7, <1>8, <1>9 DEF MoveInv

\* The search for end_fwd ends: the next module goes down, or there is none.
LEMMA SplitEndKept ==
  ASSUME MoveInv, Split, ~(i <= Count /\ GoesUp(sorter[i]))
  PROVE  MoveInv'
<1>1. /\ pc = "split" /\ cursor' = cursor /\ i' = i - 1 /\ pc' = "up"
      /\ endFwd' = i - 1 /\ fwdAddr' = cursor
      /\ in' = in /\ start' = start /\ data' = data /\ list' = list /\ sorter' = sorter
  BY DEF Split
<1>2. TypeOK /\ SortedBelow(Count) /\ Ranges /\ \E C \in [1..(Count + 1) -> Nat] : Laid(C)
  BY <1>1, SortedState
<1>3. PICK C \in [1..(Count + 1) -> Nat] : Laid(C)
  BY <1>2
<1>4. Targets(C) /\ Directions(C) /\ Placement(C)
  BY <1>3 DEF Laid
<1>5. /\ Count \in Nat /\ i \in 1..(Count + 1) /\ i \in Nat /\ i' \in 0..(Count + 1)
      /\ endFwd' \in 0..Count /\ cursor \in Nat /\ fwdAddr' \in Nat
  BY <1>1, <1>2, LayoutFacts DEF TypeOK, Ranges
<1>6. Top = i /\ Top' = i
  BY <1>1, <1>5 DEF Top
<1>7. \A j \in 1..Count : ~Moved(j) /\ ~Moved(j)'
  BY <1>1, <1>5 DEF Moved
<1>8. /\ Count' = Count /\ \A j : Src(j)' = Src(j)
  BY <1>1, Frame
<1>9. Ranges'
  BY <1>1, <1>5, <1>8 DEF Ranges
<1>10. Directions(C)'
  <2>1. \A k \in 1..endFwd' : Src(k) <= C[k]
    BY <1>1, <1>4 DEF Directions
  <2>2. fwdAddr' = C[i' + 1]
    <3>1. i' + 1 = i
      BY <1>1, <1>5
    <3> QED BY <1>1, <1>4, <1>6, <3>1 DEF Targets
  <2>3. ASSUME endFwd' < Count PROVE cursor < Src(endFwd' + 1)
    <3>1. i \in 1..Count /\ endFwd' + 1 = i
      BY <1>1, <1>5, <2>3
    <3>2. start[sorter[i]] = Src(i) /\ Src(i) \in Nat
      BY <1>2, <1>4, <1>7, <3>1, ModuleFacts DEF Placement
    <3>3. ~(cursor >= start[sorter[i]])
      BY <3>1 DEF GoesUp
    <3>4. cursor < Src(i)
      BY <1>5, <3>2, <3>3
    <3> QED BY <3>1, <3>4
  <2>4. Src(endFwd' + 1) = Src(endFwd + 1)'
    BY <1>1 DEF Src
  <2> QED BY <1>1, <1>8, <2>1, <2>2, <2>3, <2>4 DEF Directions
<1> QED BY <1>1, <1>3, <1>5, <1>6, <1>7, <1>9, <1>10, StillKept

\* The loop upwards has ended, and the loop downwards begins.
LEMMA TurnKept ==
  ASSUME MoveInv, Turn
  PROVE  MoveInv'
<1>1. /\ pc = "up" /\ i = 0 /\ i' = endFwd + 1 /\ pc' = "down" /\ endFwd' = endFwd
      /\ cursor' = cursor /\ fwdAddr' = fwdAddr
      /\ in' = in /\ start' = start /\ data' = data /\ list' = list /\ sorter' = sorter
  BY DEF Turn
<1>2. TypeOK /\ \E C \in [1..(Count + 1) -> Nat] : Laid(C)
  BY <1>1, SortedState
<1>3. PICK C \in [1..(Count + 1) -> Nat] : Laid(C)
  BY <1>2
<1>4. /\ Count \in Nat /\ i' \in 1..(Count + 1) /\ i' \in 0..(Count + 1)
      /\ endFwd \in 0..Count /\ fwdAddr' \in Nat
  BY <1>1, <1>2, LayoutFacts DEF TypeOK
<1>5. Top = endFwd + 1 /\ Top' = endFwd + 1
  BY <1>1 DEF Top
<1>6. \A j \in 1..Count : Moved(j)' <=> Moved(j)
  BY <1>1, <1>4 DEF Moved
<1>7. /\ Count' = Count /\ \A j : Src(j)' = Src(j)
  BY <1>1, Frame
<1>8. Ranges'
  BY <1>1, <1>4, <1>7 DEF Ranges
<1>9. Directions(C)'
  <2>1. ASSUME i' <= Count PROVE cursor < Src(endFwd + 1)
    <3>1. endFwd < Count
      BY <1>1, <1>4, <2>1
    <3> QED BY <1>1, <1>3, <3>1 DEF Laid, Directions
  <2>2. Src(i)' = Src(endFwd + 1)
    BY <1>1 DEF Src
  <2> QED BY <1>1, <1>7, <2>1, <2>2 DEF Directions
<1> QED BY <1>1, <1>3, <1>4, <1>5, <1>6, <1>8, <1>9, StillKept

\* All modules are moved.
LEMMA FinishKept ==
  ASSUME MoveInv, Finish
  PROVE  MoveInv'
<1>1. /\ pc = "down" /\ i > Count /\ i' = i /\ pc' = "done" /\ endFwd' = endFwd
      /\ cursor' = cursor /\ fwdAddr' = fwdAddr
      /\ in' = in /\ start' = start /\ data' = data /\ list' = list /\ sorter' = sorter
  BY DEF Finish
<1>2. TypeOK /\ Ranges /\ \E C \in [1..(Count + 1) -> Nat] : Laid(C)
  BY <1>1, SortedState
<1>3. PICK C \in [1..(Count + 1) -> Nat] : Laid(C)
  BY <1>2
<1>4. /\ Count \in Nat /\ i = Count + 1 /\ i' \in 0..(Count + 1)
      /\ endFwd' \in 0..Count /\ fwdAddr' \in Nat
  BY <1>1, <1>2, LayoutFacts DEF TypeOK, Ranges
<1>5. Top = i /\ Top' = i
  BY <1>1 DEF Top
<1>6. \A j \in 1..Count : Moved(j)' <=> Moved(j)
  BY <1>1 DEF Moved
<1>7. Ranges'
  <2>1. Count' = Count
    BY <1>1, Frame
  <2> QED BY <1>1, <1>4, <2>1 DEF Ranges
<1>8. Directions(C)'
  BY <1>1 DEF Directions
<1> QED BY <1>1, <1>3, <1>4, <1>5, <1>6, <1>7, <1>8, StillKept

-----------------------------------------------------------------------------
(* The steps that move a module *)

\* What a move leaves of the types, and of the memory outside of the area.
LEMMA MoveStays ==
  ASSUME TypeOK, SortedBelow(Count), Ascending(list), Whole, WrittenInArea,
         NEW k \in 1..Count, NEW d, NEW nx, ClearFor(k, d), Move(sorter[k], d, nx),
         start[sorter[k]] = Src(k), in' = in, sorter' = sorter,
         i' \in 0..(Count + 1), endFwd' = endFwd, fwdAddr' \in Nat,
         nx \in {"up", "down"},
         cursor' \in Nat, cursor <= cursor', in.to <= d, d + Span(k) <= cursor'
  PROVE  TypeOK' /\ WrittenInArea' /\ Ascending(list)'
<1>1. /\ start' = [start EXCEPT ![sorter[k]] = d] /\ d \in Addr /\ pc' = nx
      /\ list' \in Seq(Region) /\ Ascending(list')
  BY MoveLists
<1>2. /\ data' \in [Addr -> {Zero, Other} \cup (Mods \X Addr)]
      /\ \A a \in Addr : a < d \/ a >= d + Span(k) => data'[a] = data[a]
  BY MoveWrites
<1>3. Count' = Count /\ Mods' = Mods
  BY Frame
<1>4. TypeOK'
  <2>1. start' \in [Mods' -> Addr]
    BY <1>1, <1>3 DEF TypeOK
  <2>2. in' \in Layouts /\ sorter' \in Seq(Mods') /\ endFwd' \in 0..Count'
    BY <1>3 DEF TypeOK
  <2> QED BY <1>1, <1>2, <1>3, <2>1, <2>2 DEF TypeOK
<1>5. ASSUME NEW a \in Addr \ (in.to..(cursor' - 1)) PROVE data'[a] = Loaded(in)[a]
  <2> DEFINE t == in.to
             c == cursor'
             p == Span(k)
  <2>1. t \in Nat /\ c \in Nat /\ p \in Nat /\ d \in Nat /\ cursor \in Nat /\ cursor <= c
        /\ t <= d /\ d + p <= c /\ a \in Addr /\ a \in Nat /\ a \notin t..(c - 1)
    <3>1. t \in Nat /\ cursor \in Nat /\ a \in Addr /\ a \in Nat /\ a \notin t..(c - 1)
      BY LayoutFacts DEF TypeOK
    <3>2. p \in Nat
      BY ModuleFacts
    <3>3. d \in Nat
      BY DEF ClearFor
    <3> QED BY <3>1, <3>2, <3>3
  <2> HIDE DEF t, c, p
  <2>2. (a < d \/ a >= d + p) /\ a \notin t..(cursor - 1)
    BY <2>1
  <2>3. data'[a] = data[a]
    BY <1>2, <2>1, <2>2 DEF p
  <2> QED BY <2>1, <2>2, <2>3 DEF t, WrittenInArea
<1>6. WrittenInArea'
  <2>1. Loaded(in)' = Loaded(in)
    BY DEF Loaded
  <2> QED BY <1>5, <2>1 DEF WrittenInArea
<1>7. Ascending(list)'
  BY <1>1 DEF Ascending
<1> QED BY <1>4, <1>6, <1>7

\* AreaFound, restated.
LEMMA AreaIs ==
  ASSUME AreaFound
  PROVE  AreaUpTo(cursor)
BY DEF AreaFound, AreaUpTo

\* A module goes up.
LEMMA MoveUpKept ==
  ASSUME MoveInv, AreaFound, MoveUp
  PROVE  MoveInv'
<1>1. /\ pc = "up" /\ i > 0 /\ fwdAddr' = fwdAddr - Span(i)
      /\ Move(sorter[i], fwdAddr - Span(i), "up")
      /\ i' = i - 1 /\ in' = in /\ sorter' = sorter /\ endFwd' = endFwd /\ cursor' = cursor
  BY DEF MoveUp, Span
<1>2. /\ TypeOK /\ WrittenInArea /\ SortedBelow(Count) /\ Ranges /\ Whole /\ Tails
      /\ Ascending(list) /\ \E C \in [1..(Count + 1) -> Nat] : Laid(C)
  BY <1>1, SortedState
<1>3. PICK C \in [1..(Count + 1) -> Nat] : Laid(C)
  BY <1>2
<1>4. AreaUpTo(cursor)
  BY AreaIs
<1>5. PICK k : k = i
  OBVIOUS
<1>6. /\ k \in 1..Count /\ ~Moved(k) /\ C[k] \in Nat
      /\ fwdAddr - Span(k) = C[k] /\ ClearFor(k, C[k])
      /\ in.to <= C[k] /\ C[k] + Span(k) <= cursor
  BY <1>1, <1>2, <1>3, <1>4, <1>5, ClearUp
<1>7. Move(sorter[k], C[k], "up")
  BY <1>1, <1>5, <1>6
<1>8. pc' = "up"
  BY <1>2, <1>6, <1>7, MoveLists
<1>9. Targets(C) /\ Directions(C) /\ Placement(C) /\ Listed(C)
  BY <1>3 DEF Laid
<1>10. /\ Count \in Nat /\ i \in 1..endFwd /\ endFwd \in 0..Count /\ cursor \in Nat
       /\ i' \in 0..endFwd /\ i' \in 0..(Count + 1) /\ i' + 1 = i
  BY <1>1, <1>2, LayoutFacts DEF TypeOK, Ranges
<1>11. \A j \in 1..Count : Moved(j)' <=> Moved(j) \/ j = k
  BY <1>1, <1>5, <1>8, <1>10 DEF Moved
<1>12. Placement(C)' /\ Whole' /\ Tails' /\ Listed(C)'
  <2>1. \A j \in 1..Count : start[sorter[j]] + Span(j) <= MaxAddr + 1
    BY <1>1, <1>2, <1>3, <1>4, AllInside
  <2> QED BY <1>1, <1>2, <1>6, <1>7, <1>9, <1>11, <2>1, MoveKeeps
<1>13. TypeOK' /\ WrittenInArea' /\ Ascending(list)'
  <2>1. start[sorter[k]] = Src(k)
    BY <1>6, <1>9 DEF Placement
  <2>2. fwdAddr' \in Nat
    BY <1>1, <1>5, <1>6
  <2>3. cursor' \in Nat /\ cursor <= cursor' /\ C[k] + Span(k) <= cursor'
    BY <1>1, <1>6, <1>10
  <2> QED BY <1>1, <1>2, <1>6, <1>7, <1>10, <2>1, <2>2, <2>3, MoveStays
<1>14. /\ Count' = Count /\ SortedBelow(Count)' /\ \A j : Src(j)' = Src(j)
  BY <1>1, <1>2, Frame
<1>15. Ranges'
  BY <1>1, <1>8, <1>10, <1>14 DEF Ranges
<1>16. Targets(C)'
  <2>1. Top' = Top
    BY <1>1, <1>8 DEF Top
  <2> QED BY <1>1, <1>9, <2>1, TargetsStay
<1>17. Directions(C)'
  <2>1. /\ \A j \in 1..endFwd : Src(j) <= C[j]
        /\ endFwd < Count => cursor < Src(endFwd + 1)
    BY <1>1, <1>9 DEF Directions
  <2>2. fwdAddr' = C[i' + 1]
    BY <1>1, <1>5, <1>6, <1>10
  <2> QED BY <1>1, <1>8, <1>14, <2>1, <2>2 DEF Directions
<1>18. Laid(C)' /\ C \in [1..(Count' + 1) -> Nat]
  BY <1>12, <1>14, <1>16, <1>17 DEF Laid
<1> QED BY <1>8, <1>12, <1>13, <1>14, <1>15, <1>18 DEF MoveInv

\* A module goes down.
LEMMA MoveDownKept ==
  ASSUME MoveInv, AreaFound, AreaFound', MoveDown
  PROVE  MoveInv'
<1>1. /\ pc = "down" /\ i <= Count /\ Move(sorter[i], cursor, "down")
      /\ cursor' = cursor + Span(i)
      /\ i' = i + 1 /\ in' = in /\ sorter' = sorter /\ endFwd' = endFwd /\ fwdAddr' = fwdAddr
  BY DEF MoveDown, Span
<1>2. /\ TypeOK /\ WrittenInArea /\ SortedBelow(Count) /\ Ranges /\ Whole /\ Tails
      /\ Ascending(list) /\ \E C \in [1..(Count + 1) -> Nat] : Laid(C)
  BY <1>1, SortedState
<1>3. PICK C \in [1..(Count + 1) -> Nat] : Laid(C)
  BY <1>2
<1>4. AreaUpTo(cursor) /\ AreaUpTo(cursor + Span(i))
  <2>1. AreaUpTo(cursor + Span(i))
    BY <1>1 DEF AreaFound, AreaUpTo
  <2> QED BY <2>1, AreaIs
<1>5. PICK k : k = i
  OBVIOUS
<1>6. /\ k \in 1..Count /\ ~Moved(k) /\ C[k] = cursor /\ ClearFor(k, cursor)
      /\ in.to <= cursor /\ Src(k) > cursor
  BY <1>1, <1>2, <1>3, <1>4, <1>5, ClearDown
<1>7. Targets(C) /\ Directions(C) /\ Placement(C) /\ Listed(C)
  BY <1>3 DEF Laid
<1>8. PICK D : D = [C EXCEPT ![i + 1] = cursor + Span(i)]
  OBVIOUS
<1>9. /\ Count \in Nat /\ i \in 1..Count /\ i \in (endFwd + 1)..Count /\ endFwd \in 0..Count
      /\ cursor \in Nat /\ i' \in 0..(Count + 1) /\ i' \in (endFwd + 1)..(Count + 1)
      /\ fwdAddr' \in Nat
  BY <1>1, <1>2, LayoutFacts, SMTT(30) DEF TypeOK, Ranges
<1>10. pc' = "down"
  <2>1. Move(sorter[k], cursor, "down")
    BY <1>1, <1>5
  <2>2. PICK d : d = cursor
    OBVIOUS
  <2>3. Move(sorter[k], d, "down") /\ ClearFor(k, d)
    BY <1>6, <2>1, <2>2
  <2> QED BY <1>2, <1>6, <2>3, MoveLists
<1>11. Top' = i + 1
  BY <1>1, <1>10 DEF Top
<1>12. /\ Targets(D)' /\ \A j \in 1..i : D[j] = C[j]
       /\ cursor' \in Nat /\ cursor <= cursor'
  BY <1>1, <1>2, <1>7, <1>8, <1>11, TargetsExtend
<1>13. D[k] = cursor
  BY <1>5, <1>6, <1>9, <1>12
<1>14. Move(sorter[k], D[k], "down") /\ ClearFor(k, D[k])
  BY <1>1, <1>5, <1>6, <1>13
<1>15. \A j \in 1..Count : Moved(j)' <=> Moved(j) \/ j = k
  BY <1>1, <1>5, <1>9, <1>10 DEF Moved
<1>16. Placement(D)' /\ Whole' /\ Tails' /\ Listed(D)'
  <2>1. \A j \in 1..Count : start[sorter[j]] + Span(j) <= MaxAddr + 1
    BY <1>1, <1>2, <1>3, <1>4, AllInside
  <2>2. \A j \in 1..Count : Moved(j) => D[j] = C[j]
    <3>1. \A j \in 1..Count : Moved(j) => j \in 1..i
      BY <1>1, <1>9 DEF Moved
    <3> QED BY <1>12, <3>1
  <2> QED BY <1>1, <1>2, <1>6, <1>7, <1>14, <1>15, <2>1, <2>2, MoveKeeps
<1>17. TypeOK' /\ WrittenInArea' /\ Ascending(list)'
  <2>1. start[sorter[k]] = Src(k)
    BY <1>6, <1>7 DEF Placement
  <2>2. Span(k) \in Nat
    BY <1>2, <1>6, ModuleFacts
  <2>3. in.to <= D[k] /\ D[k] + Span(k) <= cursor'
    <3>1. D[k] + Span(k) = cursor'
      BY <1>1, <1>5, <1>13
    <3> QED BY <1>6, <1>12, <1>13, <3>1
  <2> QED BY <1>1, <1>2, <1>6, <1>9, <1>12, <1>14, <2>1, <2>3, MoveStays
<1>18. /\ Count' = Count /\ SortedBelow(Count)' /\ \A j : Src(j)' = Src(j)
  BY <1>1, <1>2, Frame
<1>19. Ranges'
  BY <1>1, <1>9, <1>10, <1>18 DEF Ranges
<1>20. Directions(D)'
  <2>1. ASSUME i' <= Count PROVE cursor' < Src(i + 1)
    <3>1. i + 1 \in 1..Count /\ i < i + 1
      BY <1>1, <1>9, <2>1
    <3>2. Src(i) + Span(i) <= Src(i + 1)
      BY <1>2, <1>9, <3>1, SortedApart
    <3>3. Src(i) \in Nat /\ Span(i) \in Nat /\ Src(i + 1) \in Nat
      BY <1>2, <1>9, <3>1, ModuleFacts
    <3> QED BY <1>1, <1>5, <1>6, <1>9, <3>2, <3>3
  <2>2. Src(i)' = Src(i + 1)
    BY <1>1 DEF Src
  <2> QED BY <1>10, <1>18, <2>1, <2>2 DEF Directions
<1>21. Laid(D)' /\ D \in [1..(Count' + 1) -> Nat]
  BY <1>12, <1>16, <1>20 DEF Laid, Targets
<1> QED BY <1>10, <1>16, <1>17, <1>18, <1>19, <1>21 DEF MoveInv

-----------------------------------------------------------------------------
(* The invariant *)

\* Every step keeps the invariant, as long as the area is what find_free_ram()
\* promised.
LEMMA StepInv ==
  ASSUME MoveInv, AreaFound, AreaFound', [Next]_vars
  PROVE  MoveInv'
<1>1. CASE Sort
  <2>1. i \in Nat /\ Count \in Nat
    BY LayoutFacts DEF MoveInv, TypeOK
  <2>2. i <= Count \/ i > Count
    BY <2>1
  <2> QED BY <1>1, <2>2, InsertKept, SortedKept
<1>2. CASE Split
  BY <1>2, SplitOnKept, SplitEndKept
<1>3. CASE MoveUp
  BY <1>3, MoveUpKept
<1>4. CASE Turn
  BY <1>4, TurnKept
<1>5. CASE MoveDown
  BY <1>5, MoveDownKept
<1>6. CASE Finish
  BY <1>6, FinishKept
<1>7. CASE UNCHANGED vars
  <2>1. /\ in' = in /\ start' = start /\ data' = data /\ list' = list /\ sorter' = sorter
        /\ i' = i /\ endFwd' = endFwd /\ cursor' = cursor /\ fwdAddr' = fwdAddr /\ pc' = pc
    BY <1>7 DEF vars
  <2>2. Count' = Count /\ TypeOK /\ pc # "panic"
    BY <2>1, Frame DEF MoveInv
  <2>3. CASE pc = "sort"
    <3>1. TypeOK' /\ WrittenInArea'
      <4>1. TypeOK'
        BY <2>1, <2>2, Frame DEF TypeOK
      <4>2. cursor' \in Nat /\ cursor <= cursor' /\ WrittenInArea
        BY <2>1, <2>2 DEF TypeOK, MoveInv
      <4> QED BY <2>1, <2>2, <4>1, <4>2, AreaGrows
    <3>2. /\ i \in 1..(Count + 1) /\ SortedBelow(i - 1) /\ start = in.start
          /\ data = Loaded(in) /\ list = in.busy /\ cursor = in.to
      BY <2>3 DEF MoveInv
    <3>3. SortedBelow(i - 1)' /\ Loaded(in)' = Loaded(in)
      <4>1. Loaded(in)' = Loaded(in)
        BY <2>1 DEF Loaded
      <4>2. i' - 1 = i - 1
        BY <2>1
      <4>3. SortedBelow(i - 1)'
        BY <2>1, <3>2, <4>2 DEF SortedBelow
      <4> QED BY <4>1, <4>3
    <3> QED BY <2>1, <2>2, <2>3, <3>1, <3>2, <3>3 DEF MoveInv
  <2>4. CASE pc # "sort"
    <3>1. pc \in {"split", "up", "down", "done"} /\ fwdAddr \in Nat /\ i \in 0..(Count + 1)
          /\ endFwd \in 0..Count
      BY <2>2, <2>4 DEF TypeOK
    <3>2. Ranges /\ \E C \in [1..(Count + 1) -> Nat] : Laid(C)
      BY <3>1, SortedState
    <3>3. PICK C \in [1..(Count + 1) -> Nat] : Laid(C)
      BY <3>2
    <3>4. Ranges' /\ Top' = Top /\ \A j \in 1..Count : Moved(j)' <=> Moved(j)
      BY <2>1, <2>2, <3>2 DEF Ranges, Top, Moved
    <3>5. Directions(C)'
      BY <2>1, <2>2, <3>3 DEF Laid, Directions, Src
    <3> QED BY <2>1, <3>1, <3>3, <3>4, <3>5, StillKept
  <2> QED BY <2>3, <2>4
<1> QED BY <1>1, <1>2, <1>3, <1>4, <1>5, <1>6, <1>7 DEF Next, Done

\* The invariant and the promise imply what the callers rely on.
LEMMA InvMoved ==
  ASSUME MoveInv, AreaFound
  PROVE  ModulesMoved
<1>1. TypeOK /\ pc # "panic" /\ in \in Layouts /\ Count \in Nat /\ Mods = 1..Count
  BY LayoutFacts DEF MoveInv, TypeOK
<1>2. CASE pc = "sort"
  <2>1. start = in.start /\ data = Loaded(in)
    BY <1>2 DEF MoveInv
  <2>2. ModulesIntact
    BY <1>1, <2>1, LoadedShape DEF ModulesIntact
  <2> QED BY <1>1, <1>2, <2>2 DEF ModulesMoved, ModulesReserved, TailsZero
<1>3. CASE pc # "sort"
  <2>1. pc \in {"split", "up", "down", "done"}
    BY <1>1, <1>3 DEF TypeOK
  <2>2. /\ SortedBelow(Count) /\ Ranges /\ Whole /\ Tails
        /\ \E C \in [1..(Count + 1) -> Nat] : Laid(C)
    BY <2>1, SortedState
  <2>3. PICK C \in [1..(Count + 1) -> Nat] : Laid(C)
    BY <2>2
  <2>4. ASSUME NEW m \in Mods PROVE \E k \in 1..Count : sorter[k] = m
    BY <1>1, <2>2 DEF SortedBelow
  <2>5. ModulesIntact
    <3> SUFFICES ASSUME NEW m \in Mods, NEW x \in 0..(in.size[m] - 1)
                 PROVE  data[start[m] + x] = <<m, x>>
      BY DEF ModulesIntact
    <3>1. PICK k \in 1..Count : sorter[k] = m
      BY <2>4
    <3>2. x \in 0..(Length(k) - 1)
      BY <3>1 DEF Length
    <3> QED BY <2>2, <3>1, <3>2 DEF Whole
  <2>6. ASSUME pc = "done", NEW k \in 1..Count
        PROVE  Moved(k) /\ start[sorter[k]] = C[k] /\ k \in 1..(Count + 1)
    <3>1. i = Count + 1 /\ k < i /\ k \in 1..(Count + 1)
      BY <1>1, <2>2, <2>6 DEF Ranges
    <3>2. Moved(k)
      BY <2>6, <3>1 DEF Moved
    <3> QED BY <2>3, <3>1, <3>2 DEF Laid, Placement
  <2>7. ModulesReserved
    <3> SUFFICES ASSUME pc = "done", NEW m \in Mods, NEW a \in start[m]..(Ends(m) - 1)
                 PROVE  a \in Covered(list)
      BY <1>1 DEF ModulesReserved
    <3>1. PICK k \in 1..Count : sorter[k] = m
      BY <2>4
    <3>2. PICK x \in 1..Len(list) : IsFor(list[x], C, k)
      BY <2>3, <2>6 DEF Laid, Listed
    <3>3. list[x].begin = start[m] /\ list[x].end = Ends(m) - 1
      <4>1. C[k] = start[m] /\ Length(k) = in.size[m]
        BY <2>6, <3>1 DEF Length
      <4>2. list[x].begin = C[k] /\ list[x].end = C[k] + Length(k) - 1
        BY <3>2 DEF IsFor
      <4>3. Ends(m) = C[k] + Length(k)
        BY <4>1 DEF Ends
      <4>4. C[k] \in Nat /\ Length(k) \in Nat
        BY <1>1, <2>2, <2>6, ModuleFacts
      <4>5. Ends(m) - 1 = C[k] + Length(k) - 1
        BY <4>3, <4>4
      <4> QED BY <4>1, <4>2, <4>5
    <3>4. x \in DOMAIN list
      BY <1>1, Entries DEF TypeOK
    <3>5. a \in Bytes(list[x])
      BY <3>3 DEF Bytes
    <3> QED BY <3>4, <3>5 DEF Covered
  <2>8. TailsZero
    <3> SUFFICES ASSUME pc = "done", NEW m \in Mods, start[m] # in.start[m],
                        NEW a \in Ends(m)..(Ends(m) + Rest(Ends(m)) - 1)
                 PROVE  data[a] = Zero
      BY DEF TailsZero
    <3>1. PICK k \in 1..Count : sorter[k] = m
      BY <2>4
    <3> DEFINE d == C[k]
               z == Length(k)
               p == Span(k)
    <3>2. /\ d \in Nat /\ z \in Nat /\ z >= 2 /\ p \in Nat /\ p % PageSize = 0
          /\ z <= p /\ p < z + PageSize /\ PageSize \in Nat
      BY <1>1, <2>2, <2>6, ModuleFacts, WordAssumption
    <3>3. start[m] = d /\ Ends(m) = d + z /\ Moved(k)
      BY <2>6, <3>1 DEF Ends, Length
    <3>4. d % PageSize = 0
      <4>1. k \in 1..Top
        BY <1>1, <2>1, <2>2, <3>3, TopFacts
      <4> QED BY <2>3, <4>1 DEF Laid, Targets
    <3>5. d + p <= MaxAddr + 1
      <4>1. start[sorter[k]] + Span(k) <= MaxAddr + 1
        BY <1>1, <2>1, <2>2, <2>3, AreaIs, AllInside
      <4> QED BY <3>1, <3>3, <4>1
    <3>6. \A b \in (d + z)..(d + p - 1) : data[b] = Zero
      <4>1. Src(k) = in.start[m] /\ start[sorter[k]] = d /\ start[sorter[k]] # Src(k)
        BY <3>1, <3>3 DEF Src
      <4>2. \A b \in (start[sorter[k]] + z)..(start[sorter[k]] + p - 1) : data[b] = Zero
        BY <2>2, <3>3, <4>1 DEF Tails
      <4> QED BY <4>1, <4>2
    <3> HIDE DEF d, z, p
    <3>7. Rest(d + z) = p - z
      <4>1. z >= 1
        BY <3>2
      <4> QED BY <3>2, <3>4, <3>5, <4>1, RestOfPages
    <3>8. (d + z) + Rest(d + z) - 1 = d + p - 1
      BY <3>2, <3>7
    <3> QED BY <3>3, <3>6, <3>8
  <2> QED BY <1>1, <2>5, <2>7, <2>8 DEF ModulesMoved
<1> QED BY <1>2, <1>3

-----------------------------------------------------------------------------
(* The size of the area *)

\* The recursive function of calc_modules_size() is one: it adds up the first
\* n values of P.
AddsAll(T, P, n) == T = [k \in 0..n |-> IF k = 0 THEN 0 ELSE T[k - 1] + P[k]]

LEMMA SumExists ==
  ASSUME NEW n \in Nat, NEW P
  PROVE  \E T : AddsAll(T, P, n)
<1> DEFINE Body(T, k) == IF k = 0 THEN 0 ELSE T[k - 1] + P[k]
           Fun(m) == \E T : T = [k \in 0..m |-> Body(T, k)]
           Bad == { m \in Nat : ~Fun(m) }
<1>1. Bad = {}
  <2> SUFFICES ASSUME Bad # {} PROVE FALSE
    OBVIOUS
  <2>1. Bad \in SUBSET Nat
    OBVIOUS
  <2> HIDE DEF Bad
  <2>2. PICK m \in Bad : \A y \in Bad : m <= y
    BY <2>1, LeastElement
  <2>3. m \in Nat /\ ~Fun(m)
    BY <2>2 DEF Bad
  <2>4. m # 0
    <3>1. [k \in 0..0 |-> 0] = [k \in 0..0 |-> Body([j \in 0..0 |-> 0], k)]
      OBVIOUS
    <3> HIDE DEF Body
    <3> QED BY <2>3, <3>1
  <2>5. m - 1 \in Nat /\ m - 1 \notin Bad
    BY <2>2, <2>3, <2>4
  <2> HIDE DEF Body
  <2>6. PICK T : T = [k \in 0..(m - 1) |-> Body(T, k)]
    BY <2>5 DEF Bad
  <2> DEFINE U == [k \in 0..m |-> IF k < m THEN T[k] ELSE Body(T, m)]
  <2>7. U = [k \in 0..m |-> Body(U, k)]
    <3> SUFFICES ASSUME NEW k \in 0..m PROVE U[k] = Body(U, k)
      OBVIOUS
    <3>1. k = 0 \/ U[k - 1] = T[k - 1]
      BY <2>3
    <3>2. Body(U, k) = Body(T, k)
      BY <3>1 DEF Body
    <3>3. k < m => T[k] = Body(T, k)
      <4>1. k < m => k \in 0..(m - 1)
        BY <2>3
      <4> QED BY <2>6, <4>1, Zenon
    <3>4. k = m \/ k < m
      BY <2>3
    <3> QED BY <3>2, <3>3, <3>4
  <2> HIDE DEF U
  <2> QED BY <2>3, <2>7
<1> HIDE DEF Fun
<1>2. Fun(n)
  BY <1>1
<1> QED BY <1>2 DEF Fun, AddsAll

\* The first k places of s are different.
Distinct(s, k) == \A x, y \in 1..k : x # y => s[x] # s[y]

\* C adds up the values P at the first k places of s.
AddsUp(C, P, s, k) == \A x \in 1..k : C[x + 1] = C[x] + P[s[x]]

\* Adding up values at places up to m leads from a to b.
Reaches(P, m, a, b) ==
  \E k \in Nat : \E s \in [1..k -> 1..m] : \E C \in [1..(k + 1) -> Int] :
    /\ Distinct(s, k) /\ AddsUp(C, P, s, k)
    /\ C[1] = a /\ C[k + 1] = b

LEMMA LeaveOut ==
  /\ \A a, b, c \in Int : (a + b + c) - b = a + c
  /\ \A a, b, c, p \in Int : (a + b + c) - p = ((a + b) - p) + c
  /\ \A n \in Nat : \A m \in 1..n : \A y \in 1..m : y \in 1..n
  /\ \A n \in Nat : \A m \in 1..n : \A y \in 1..m : y # m => y \in 1..(m - 1)
OBVIOUS

\* The place that the x-th value had before the one at place j was left out.
OldPlace(j, x) == IF x < j THEN x ELSE x + 1

LEMMA OldPlaces ==
  ASSUME NEW l \in Nat, NEW j \in 1..l, NEW x \in 1..(l - 1)
  PROVE  /\ OldPlace(j, x) \in 1..l /\ OldPlace(j, x) # j
         /\ \A y \in 1..(l - 1) : x # y => OldPlace(j, x) # OldPlace(j, y)
BY DEF OldPlace

\* One of the values added up is left out: the others are added up without it.
LEMMA OneLess ==
  ASSUME NEW n \in Nat, NEW P \in [1..n -> Nat], NEW m \in 1..n, NEW l \in Nat,
         NEW t \in [1..l -> 1..m], NEW D \in [1..(l + 1) -> Int], NEW j \in 1..l,
         t[j] = m,
         Distinct(t, l), AddsUp(D, P, t, l)
  PROVE  Reaches(P, m - 1, D[1], D[l + 1] - P[m])
<1> DEFINE k == l - 1
           Old(x) == OldPlace(j, x)
           u == [x \in 1..k |-> t[Old(x)]]
           E == [x \in 1..(k + 1) |-> IF x <= j THEN D[x] ELSE D[x + 1] - P[m]]
<1>1. k \in Nat /\ k + 1 = l
  OBVIOUS
<1>2. \A x \in 1..k : Old(x) \in 1..l /\ Old(x) # j
  BY OldPlaces
<1>3. \A x, y \in 1..k : x # y => Old(x) # Old(y)
  BY OldPlaces
<1>4. P[m] \in Nat
  OBVIOUS
<1> HIDE DEF Old, OldPlace
<1>5. u \in [1..k -> 1..(m - 1)]
  <2> SUFFICES ASSUME NEW x \in 1..k PROVE t[Old(x)] \in 1..(m - 1)
    OBVIOUS
  <2>1. t[Old(x)] # m /\ t[Old(x)] \in 1..m
    BY <1>2 DEF Distinct
  <2> QED BY <2>1, LeaveOut, Zenon
<1>6. Distinct(u, k)
  BY <1>2, <1>3 DEF Distinct
<1>7. E \in [1..(k + 1) -> Int]
  <2> SUFFICES ASSUME NEW x \in 1..(k + 1) PROVE (IF x <= j THEN D[x] ELSE D[x + 1] - P[m]) \in Int
    OBVIOUS
  <2>1. x \in 1..(l + 1) /\ x + 1 \in 1..(l + 1)
    BY <1>1
  <2>2. D[x] \in Int /\ D[x + 1] \in Int
    BY <2>1
  <2> QED BY <1>4, <2>2
<1>8. ASSUME NEW x \in 1..k PROVE E[x + 1] = E[x] + P[u[x]]
  <2>1. /\ x \in 1..l /\ x + 1 \in 1..l /\ x \in 1..(l + 1)
        /\ x + 1 \in 1..(l + 1) /\ (x + 1) + 1 \in 1..(l + 1)
        /\ x \in 1..(k + 1) /\ x + 1 \in 1..(k + 1)
    BY <1>1
  <2>2. /\ E[x] = IF x <= j THEN D[x] ELSE D[x + 1] - P[m]
        /\ E[x + 1] = IF x + 1 <= j THEN D[x + 1] ELSE D[(x + 1) + 1] - P[m]
        /\ u[x] = t[Old(x)]
    BY <2>1
  <2>3. D[x + 1] = D[x] + P[t[x]] /\ D[(x + 1) + 1] = D[x + 1] + P[t[x + 1]]
    BY <2>1 DEF AddsUp
  <2>4. PICK a \in Int : a = D[x]
    BY <2>1
  <2>5. t[x] \in 1..n /\ t[x + 1] \in 1..n
    <3>1. t[x] \in 1..m /\ t[x + 1] \in 1..m
      BY <2>1
    <3> QED BY <3>1, LeaveOut, Zenon
  <2>6. PICK b \in Nat : b = P[t[x]]
    BY <2>5
  <2>7. PICK c \in Nat : c = P[t[x + 1]]
    BY <2>5
  <2>8. D[x + 1] = a + b /\ D[(x + 1) + 1] = a + b + c
    BY <2>3, <2>4, <2>6, <2>7
  <2> HIDE DEF u, E, k
  <2>9. CASE x < j
    <3>1. x <= j /\ x + 1 <= j /\ Old(x) = x
      BY <2>1, <2>9 DEF Old, OldPlace
    <3> QED BY <2>2, <2>4, <2>6, <2>8, <3>1
  <2>10. CASE x = j
    <3>1. x <= j /\ ~(x + 1 <= j) /\ Old(x) = x + 1 /\ P[m] = b
      BY <2>1, <2>6, <2>10 DEF Old, OldPlace
    <3>2. E[x] = a /\ E[x + 1] = (a + b + c) - b /\ P[u[x]] = c
      BY <2>2, <2>4, <2>7, <2>8, <3>1
    <3>3. (a + b + c) - b = a + c
      <4>1. a \in Int /\ b \in Int /\ c \in Int
        OBVIOUS
      <4> QED BY <4>1, LeaveOut, Zenon
    <3> QED BY <3>2, <3>3
  <2>11. CASE x > j
    <3>1. ~(x <= j) /\ ~(x + 1 <= j) /\ Old(x) = x + 1
      BY <2>1, <2>11 DEF Old, OldPlace
    <3>2. PICK p \in Nat : p = P[m]
      BY <1>4
    <3>3. E[x] = (a + b) - p /\ E[x + 1] = (a + b + c) - p /\ P[u[x]] = c
      BY <2>2, <2>7, <2>8, <3>1, <3>2
    <3>4. (a + b + c) - p = ((a + b) - p) + c
      <4>1. a \in Int /\ b \in Int /\ c \in Int /\ p \in Int
        OBVIOUS
      <4> QED BY <4>1, LeaveOut
    <3> QED BY <3>3, <3>4
  <2> QED BY <2>1, <2>9, <2>10, <2>11
<1>9. E[1] = D[1] /\ E[k + 1] = D[l + 1] - P[m]
  <2>1. 1 \in 1..(k + 1) /\ l \in 1..(k + 1) /\ 1 <= j /\ l \in 1..l /\ l \in 1..(l + 1)
    BY <1>1
  <2>2. E[1] = D[1]
    BY <2>1
  <2>3. E[l] = IF l <= j THEN D[l] ELSE D[l + 1] - P[m]
    BY <2>1
  <2>4. D[l + 1] = D[l] + P[t[l]] /\ D[l] \in Int
    BY <2>1 DEF AddsUp
  <2> HIDE DEF E
  <2>5. l <= j => D[l] = D[l + 1] - P[m]
    <3> SUFFICES ASSUME l <= j PROVE D[l] = D[l + 1] - P[m]
      OBVIOUS
    <3>1. t[l] = m
      <4>1. l = j
        OBVIOUS
      <4> QED BY <4>1
    <3> QED BY <1>4, <2>4, <3>1
  <2>6. E[l] = D[l + 1] - P[m]
    BY <2>3, <2>5
  <2> QED BY <1>1, <2>2, <2>6
<1> HIDE DEF u, E
<1>10. AddsUp(E, P, u, k)
  BY <1>8 DEF AddsUp
<1>11. \E F \in [1..(k + 1) -> Int] :
         /\ Distinct(u, k) /\ AddsUp(F, P, u, k)
         /\ F[1] = D[1] /\ F[k + 1] = D[l + 1] - P[m]
  BY <1>6, <1>7, <1>9, <1>10, Zenon
<1> HIDE DEF k
<1> QED BY <1>1, <1>5, <1>11, Zenon DEF Reaches

\* The first value of T is zero, the others add up the values P.
SumsOf(T, P, n) == T[0] = 0 /\ \A m \in 1..n : T[m] = T[m - 1] + P[m]

LEMMA SumsNatural ==
  ASSUME NEW n \in Nat, NEW P \in [1..n -> Nat], NEW T, SumsOf(T, P, n), NEW m \in 0..n
  PROVE  T[m] \in Nat
<1> DEFINE Odd == { x \in 0..n : T[x] \notin Nat }
<1> SUFFICES ASSUME Odd # {} PROVE FALSE
  OBVIOUS
<1>1. Odd \in SUBSET Nat
  OBVIOUS
<1> HIDE DEF Odd
<1>2. PICK x \in Odd : \A y \in Odd : x <= y
  BY <1>1, LeastElement
<1>3. x \in 0..n /\ T[x] \notin Nat
  BY <1>2 DEF Odd
<1>4. x # 0
  BY <1>3 DEF SumsOf
<1>5. x \in 1..n /\ x - 1 \in 0..n /\ x - 1 \notin Odd
  BY <1>2, <1>3, <1>4
<1>6. T[x - 1] \in Nat /\ P[x] \in Nat
  BY <1>5 DEF Odd
<1>7. T[x] = T[x - 1] + P[x]
  BY <1>5 DEF SumsOf
<1> QED BY <1>3, <1>6, <1>7

\* What is added up of values at places up to m is at most T[m].
BoundedBy(T, P, m) ==
  \A k \in Nat : \A s \in [1..k -> 1..m] : \A C \in [1..(k + 1) -> Int] :
    Distinct(s, k) /\ AddsUp(C, P, s, k) => C[k + 1] <= C[1] + T[m]

LEMMA BoundStep ==
  ASSUME NEW n \in Nat, NEW P \in [1..n -> Nat], NEW T, SumsOf(T, P, n),
         NEW m \in 1..n, BoundedBy(T, P, m - 1)
  PROVE  BoundedBy(T, P, m)
<1> SUFFICES ASSUME NEW l \in Nat, NEW t \in [1..l -> 1..m], NEW D \in [1..(l + 1) -> Int],
                    Distinct(t, l), AddsUp(D, P, t, l)
             PROVE  D[l + 1] <= D[1] + T[m]
  BY DEF BoundedBy
<1>1. PICK w \in Nat : w = T[m - 1]
  <2>1. m - 1 \in 0..n
    OBVIOUS
  <2> QED BY <2>1, SumsNatural
<1>2. PICK p \in Nat : p = P[m]
  OBVIOUS
<1>3. T[m] = w + p
  BY <1>1, <1>2 DEF SumsOf
<1>4. PICK a \in Int : a = D[1]
  OBVIOUS
<1>5. PICK b \in Int : b = D[l + 1]
  OBVIOUS
<1>6. CASE \A x \in 1..l : t[x] # m
  <2>1. t \in [1..l -> 1..(m - 1)]
    BY <1>6
  <2>2. D[l + 1] <= D[1] + T[m - 1]
    BY <2>1 DEF BoundedBy
  <2>3. b <= a + w
    BY <1>1, <1>4, <1>5, <2>2
  <2>4. b <= a + (w + p)
    BY <2>3
  <2> QED BY <1>3, <1>4, <1>5, <2>4
<1>7. CASE \E x \in 1..l : t[x] = m
  <2>1. PICK j \in 1..l : t[j] = m
    BY <1>7
  <2>2. Reaches(P, m - 1, D[1], D[l + 1] - P[m])
    BY <2>1, OneLess
  <2>3. PICK k \in Nat : \E u \in [1..k -> 1..(m - 1)] : \E E \in [1..(k + 1) -> Int] :
          /\ Distinct(u, k) /\ AddsUp(E, P, u, k)
          /\ E[1] = D[1] /\ E[k + 1] = D[l + 1] - P[m]
    BY <2>2, Zenon DEF Reaches
  <2>4. PICK u \in [1..k -> 1..(m - 1)] : \E E \in [1..(k + 1) -> Int] :
          /\ Distinct(u, k) /\ AddsUp(E, P, u, k)
          /\ E[1] = D[1] /\ E[k + 1] = D[l + 1] - P[m]
    BY <2>3, Zenon
  <2>5. PICK E \in [1..(k + 1) -> Int] :
          /\ Distinct(u, k) /\ AddsUp(E, P, u, k)
          /\ E[1] = D[1] /\ E[k + 1] = D[l + 1] - P[m]
    BY <2>4, Zenon
  <2>6. E[k + 1] <= E[1] + T[m - 1]
    BY <2>5, Zenon DEF BoundedBy
  <2>7. b - p <= a + w
    BY <1>1, <1>2, <1>4, <1>5, <2>5, <2>6
  <2>8. b <= a + (w + p)
    BY <2>7
  <2> QED BY <1>3, <1>4, <1>5, <2>8
<1> QED BY <1>6, <1>7

\* The sum of some of n values, in any order, is not larger than the sum of
\* all of them.
LEMMA SomeBelowAll ==
  ASSUME NEW n \in Nat, NEW P \in [1..n -> Nat], NEW T, SumsOf(T, P, n)
  PROVE  BoundedBy(T, P, n)
<1> DEFINE Bad == { m \in 0..n : ~BoundedBy(T, P, m) }
<1> SUFFICES ASSUME Bad # {} PROVE FALSE
  <2>1. n \in 0..n
    OBVIOUS
  <2> QED BY <2>1
<1>1. Bad \in SUBSET Nat
  OBVIOUS
<1> HIDE DEF Bad
<1>2. PICK m \in Bad : \A y \in Bad : m <= y
  BY <1>1, LeastElement
<1>3. m \in 0..n /\ ~BoundedBy(T, P, m)
  BY <1>2 DEF Bad
<1>4. BoundedBy(T, P, 0)
  <2> SUFFICES ASSUME NEW l \in Nat, NEW t \in [1..l -> 1..0], NEW D \in [1..(l + 1) -> Int]
               PROVE  D[l + 1] <= D[1] + T[0]
    BY DEF BoundedBy
  <2>1. l = 0
    <3>1. ASSUME NEW x \in 1..l PROVE FALSE
      <4>1. t[x] \in 1..0
        OBVIOUS
      <4> QED BY <4>1
    <3> QED BY <3>1
  <2>2. D[1] \in Int /\ T[0] = 0
    BY DEF SumsOf
  <2> QED BY <2>1, <2>2
<1>5. m # 0
  BY <1>3, <1>4
<1>6. m \in 1..n /\ m - 1 \in 0..n /\ m - 1 \notin Bad
  BY <1>2, <1>3, <1>5
<1>7. BoundedBy(T, P, m - 1)
  BY <1>6 DEF Bad
<1> QED BY <1>3, <1>6, <1>7, BoundStep

\* calc_modules_size() adds up the pages of all modules.
LEMMA SizeIsSum ==
  ASSUME in \in Layouts, NEW P, P = [m \in 1..Count |-> Pages(m)]
  PROVE  \E T : SumsOf(T, P, Count) /\ T[Count] = CalcModulesSize(in)
<1>1. Count \in Nat /\ Count = Len(in.size)
  BY LayoutFacts DEF Count
<1> DEFINE Body(T, k) == IF k = 0 THEN 0 ELSE T[k - 1] + RoundPage(in.size[k])
<1>2. \E T : T = [k \in 0..Count |-> Body(T, k)]
  <2>1. PICK T : AddsAll(T, P, Count)
    BY <1>1, SumExists
  <2>2. ASSUME NEW k \in 0..Count
        PROVE  (IF k = 0 THEN 0 ELSE T[k - 1] + P[k]) = Body(T, k)
    <3>1. k = 0 \/ k \in 1..Count
      BY <1>1
    <3>2. k \in 1..Count => P[k] = RoundPage(in.size[k])
      BY DEF Pages
    <3> QED BY <3>1, <3>2, Zenon
  <2>3. [k \in 0..Count |-> IF k = 0 THEN 0 ELSE T[k - 1] + P[k]] = [k \in 0..Count |-> Body(T, k)]
    BY <2>2, Zenon
  <2> QED BY <2>1, <2>3, Zenon DEF AddsAll
<1> DEFINE F == CHOOSE T : T = [k \in 0..Count |-> Body(T, k)]
<1>3. F = [k \in 0..Count |-> Body(F, k)]
  BY <1>2, Zenon
<1>4. CalcModulesSize(in) = F[Count]
  BY <1>1, Zenon DEF CalcModulesSize
<1> HIDE DEF F
<1>5. \A k \in 0..Count : F[k] = Body(F, k)
  BY <1>3, Zenon
<1>6. F[0] = 0
  <2>1. 0 \in 0..Count
    BY <1>1
  <2> QED BY <1>5, <2>1, Zenon
<1>7. ASSUME NEW m \in 1..Count PROVE F[m] = F[m - 1] + P[m]
  <2>1. m \in 0..Count /\ m # 0
    BY <1>1
  <2>2. P[m] = RoundPage(in.size[m])
    BY DEF Pages
  <2> QED BY <1>5, <2>1, <2>2, Zenon
<1> QED BY <1>4, <1>6, <1>7 DEF SumsOf

\* The modules laid out first, sorted by address, need no more than the
\* computed size.
LEMMA LaidOut ==
  ASSUME TypeOK, SortedBelow(Count), NEW k \in 0..Count, NEW C \in [1..(Count + 1) -> Nat],
         C[1] = in.to, \A x \in 1..k : C[x + 1] = C[x] + Span(x)
  PROVE  C[k + 1] <= in.to + CalcModulesSize(in) /\ CalcModulesSize(in) \in Nat
<1> DEFINE n == Count
           P == [m \in 1..n |-> Pages(m)]
           s == [x \in 1..k |-> sorter[x]]
           D == [x \in 1..(k + 1) |-> C[x]]
<1>1. n \in Nat /\ in.to \in Nat /\ P \in [1..n -> Nat]
  BY LayoutFacts DEF TypeOK
<1>2. k \in Nat /\ s \in [1..k -> 1..n] /\ \A x \in 1..k : x \in 1..n
  <2>1. k \in Nat /\ \A x \in 1..k : x \in 1..n
    BY <1>1
  <2>2. \A x \in 1..n : sorter[x] \in 1..n
    BY DEF SortedBelow
  <2> QED BY <2>1, <2>2
<1>3. D \in [1..(k + 1) -> Int] /\ D[1] = C[1] /\ D[k + 1] = C[k + 1]
  BY <1>1, <1>2
<1>4. Distinct(s, k)
  <2> SUFFICES ASSUME NEW x \in 1..k, NEW y \in 1..k, x # y PROVE sorter[x] # sorter[y]
    BY DEF Distinct
  <2> QED BY <1>2, SorterInjective
<1>5. AddsUp(D, P, s, k)
  <2> SUFFICES ASSUME NEW x \in 1..k PROVE D[x + 1] = D[x] + P[s[x]]
    BY DEF AddsUp
  <2>1. x \in 1..(k + 1) /\ x + 1 \in 1..(k + 1)
    BY <1>2
  <2>2. sorter[x] \in 1..n
    BY <1>2 DEF SortedBelow
  <2>3. D[x] = C[x] /\ D[x + 1] = C[x + 1] /\ P[s[x]] = Pages(sorter[x])
    BY <2>1, <2>2
  <2> QED BY <2>3 DEF Span
<1>6. \E T : SumsOf(T, P, n) /\ T[n] = CalcModulesSize(in)
  BY SizeIsSum DEF TypeOK
<1> HIDE DEF P, s, D, n
<1>7. PICK T : SumsOf(T, P, n) /\ T[n] = CalcModulesSize(in)
  BY <1>6
<1>8. n \in 0..n
  BY <1>1
<1>9. T[n] \in Nat
  BY <1>1, <1>7, <1>8, SumsNatural
<1>10. BoundedBy(T, P, n)
  BY <1>1, <1>7, SomeBelowAll
<1>11. D[k + 1] <= D[1] + T[n]
  BY <1>2, <1>3, <1>4, <1>5, <1>10, Zenon DEF BoundedBy
<1> QED BY <1>3, <1>7, <1>9, <1>11

\* Where cursor stands, and where the next module takes it.
LEMMA CursorBound ==
  ASSUME MoveInv
  PROVE  cursor \in Nat /\ cursor <= in.to + CalcModulesSize(in) /\ CalcModulesSize(in) \in Nat
<1>1. TypeOK /\ Count \in Nat /\ pc # "panic" /\ cursor \in Nat /\ in.to \in Nat
  BY LayoutFacts DEF MoveInv, TypeOK
<1>2. CASE pc = "sort"
  <2> DEFINE P == [m \in 1..Count |-> Pages(m)]
  <2>1. PICK T : SumsOf(T, P, Count) /\ T[Count] = CalcModulesSize(in)
    BY <1>1, SizeIsSum DEF TypeOK
  <2>2. P \in [1..Count -> Nat] /\ Count \in 0..Count
    BY <1>1, LayoutFacts DEF TypeOK
  <2> HIDE DEF P
  <2>3. T[Count] \in Nat
    BY <1>1, <2>1, <2>2, SumsNatural
  <2>4. cursor = in.to
    BY <1>2 DEF MoveInv
  <2>5. CalcModulesSize(in) \in Nat
    BY <2>1, <2>3
  <2> QED BY <1>1, <2>4, <2>5
<1>3. CASE pc # "sort"
  <2>1. pc \in {"split", "up", "down", "done"}
    BY <1>1, <1>3 DEF TypeOK
  <2>2. SortedBelow(Count) /\ Ranges /\ \E C \in [1..(Count + 1) -> Nat] : Laid(C)
    BY <2>1, SortedState
  <2>3. PICK C \in [1..(Count + 1) -> Nat] : Laid(C)
    BY <2>2
  <2>4. PICK k \in 0..Count : k = Top - 1 /\ k + 1 = Top
    <3>1. Top \in 1..(Count + 1)
      BY <1>1, <2>1, <2>2, TopFacts
    <3>2. Top - 1 \in 0..Count /\ (Top - 1) + 1 = Top
      BY <1>1, <3>1
    <3> QED BY <3>2
  <2>5. C[1] = in.to /\ C[k + 1] = cursor /\ \A x \in 1..k : C[x + 1] = C[x] + Span(x)
    BY <2>3, <2>4 DEF Laid, Targets
  <2>6. C[k + 1] <= in.to + CalcModulesSize(in) /\ CalcModulesSize(in) \in Nat
    BY <1>1, <2>2, <2>5, LaidOut
  <2> QED BY <1>1, <2>5, <2>6
<1> QED BY <1>2, <1>3

\* One more module is laid out.
LEMMA NextBound ==
  ASSUME MoveInv, pc \in {"split", "down"}, i <= Count
  PROVE  cursor + Span(i) \in Nat /\ cursor + Span(i) <= in.to + CalcModulesSize(in)
<1>1. TypeOK /\ SortedBelow(Count) /\ Ranges /\ \E C \in [1..(Count + 1) -> Nat] : Laid(C)
  BY SortedState
<1>2. PICK C \in [1..(Count + 1) -> Nat] : Laid(C)
  BY <1>1
<1>3. Count \in Nat /\ i \in 1..Count /\ Top = i /\ cursor \in Nat /\ endFwd \in 0..Count
  BY <1>1, LayoutFacts DEF TypeOK, Ranges, Top
<1>4. Span(i) \in Nat /\ cursor + Span(i) \in Nat
  <2>1. Span(i) \in Nat
    BY <1>1, <1>3, ModuleFacts
  <2> QED BY <1>3, <2>1
<1>5. C[1] = in.to /\ C[i] = cursor /\ \A x \in 1..(i - 1) : C[x + 1] = C[x] + Span(x)
  BY <1>2, <1>3 DEF Laid, Targets
<1>6. PICK D : D = [C EXCEPT ![i + 1] = cursor + Span(i)]
  OBVIOUS
<1>7. D \in [1..(Count + 1) -> Nat] /\ D[i + 1] = cursor + Span(i) /\ \A j \in 1..i : D[j] = C[j]
  BY <1>3, <1>4, <1>6
<1>8. D[1] = in.to
  BY <1>3, <1>5, <1>7
<1>9. ASSUME NEW x \in 1..i PROVE D[x + 1] = D[x] + Span(x)
  <2>1. CASE x = i
    BY <1>5, <1>7, <2>1
  <2>2. CASE x # i
    <3>1. x \in 1..(i - 1) /\ x + 1 \in 1..i
      BY <1>3, <2>2
    <3> QED BY <1>5, <1>7, <3>1
  <2> QED BY <2>1, <2>2
<1>10. i \in 0..Count
  BY <1>3
<1>11. D[i + 1] <= in.to + CalcModulesSize(in)
  BY <1>1, <1>7, <1>8, <1>9, <1>10, LaidOut
<1> QED BY <1>4, <1>7, <1>11

\* An area of the computed size is large enough for what is laid out.
LEMMA AreaLarge ==
  ASSUME in \in Layouts, FreeArea(in), CalcModulesSize(in) \in Nat,
         NEW c \in Nat, c <= in.to + CalcModulesSize(in)
  PROVE  AreaUpTo(c)
<1>1. PICK z \in Nat : z = CalcModulesSize(in)
  OBVIOUS
<1>2. in.to \in Nat /\ in.ram \in Seq(Region) /\ in.busy \in Seq(Region)
      /\ DOMAIN in.ram = 1..Len(in.ram) /\ DOMAIN in.busy = 1..Len(in.busy)
      /\ MaxAddr \in Nat /\ Addr = 0..MaxAddr
  BY LayoutFacts, Entries
<1>3. \A e \in Nat : in.to + z - 1 <= e => c - 1 <= e
  BY <1>1, <1>2
<1>4. \A b \in Nat : in.to + z <= b => c <= b
  BY <1>1, <1>2
<1>5. \E x \in DOMAIN in.ram : in.ram[x].begin <= in.to /\ c - 1 <= in.ram[x].end
  <2>1. PICK x \in DOMAIN in.ram : in.ram[x].begin <= in.to /\ in.to + z - 1 <= in.ram[x].end
    BY <1>1 DEF FreeArea
  <2>2. in.ram[x].end \in Nat
    <3>1. in.ram[x] \in Region
      BY <1>2, Entries
    <3> QED BY <1>2, <3>1 DEF Region
  <2> QED BY <1>3, <2>1, <2>2
<1>6. ASSUME NEW x \in DOMAIN in.busy
      PROVE  in.busy[x].end < in.to \/ c <= in.busy[x].begin
  <2>1. in.busy[x].end < in.to \/ in.to + z <= in.busy[x].begin
    BY <1>1 DEF FreeArea
  <2>2. in.busy[x].begin \in Nat
    <3>1. in.busy[x] \in Region
      BY <1>2, Entries
    <3> QED BY <1>2, <3>1 DEF Region
  <2> QED BY <1>4, <2>1, <2>2
<1> QED BY <1>5, <1>6 DEF AreaUpTo

\* So the area is right before and after every step.
LEMMA AreaKept ==
  ASSUME MoveInv, FreeArea(in)
  PROVE  /\ AreaFound
         /\ [Next]_vars => AreaFound'
<1>1. in \in Layouts /\ cursor \in Nat /\ TypeOK /\ i \in Nat /\ Count \in Nat
  BY LayoutFacts DEF MoveInv, TypeOK
<1>2. cursor <= in.to + CalcModulesSize(in) /\ CalcModulesSize(in) \in Nat
  BY CursorBound
<1>3. AreaUpTo(cursor)
  BY <1>1, <1>2, AreaLarge
<1>4. ASSUME [Next]_vars PROVE AreaFound'
  <2>1. in' = in
    BY <1>4 DEF Next, vars, Sort, Split, MoveUp, Turn, MoveDown, Finish, Done
  <2>2. \/ cursor' = cursor
        \/ pc \in {"split", "down"} /\ i <= Count /\ cursor' = cursor + Span(i)
    BY <1>4 DEF Next, vars, Sort, Split, MoveUp, Turn, MoveDown, Finish, Done, Span
  <2>3. CASE cursor' = cursor
    BY <1>3, <2>1, <2>3 DEF AreaFound, AreaUpTo
  <2>4. CASE pc \in {"split", "down"} /\ i <= Count /\ cursor' = cursor + Span(i)
    <3>1. PICK c : c = cursor + Span(i)
      OBVIOUS
    <3>2. c \in Nat /\ c <= in.to + CalcModulesSize(in)
      BY <2>4, <3>1, NextBound
    <3>3. AreaUpTo(c)
      BY <1>1, <1>2, <3>2, AreaLarge
    <3>4. cursor' = c
      BY <2>4, <3>1
    <3> QED BY <2>1, <3>3, <3>4 DEF AreaFound, AreaUpTo
  <2> QED BY <2>2, <2>3, <2>4
<1> QED BY <1>3, <1>4 DEF AreaFound, AreaUpTo

-----------------------------------------------------------------------------
(* The theorems *)

\* The invariant holds throughout.
LEMMA MoveInvariant ==
  ASSUME \A l \in Layouts : FreeArea(l)
  PROVE  Spec => []MoveInv
<1>1. Init => MoveInv
  BY InitInv
<1>2. MoveInv /\ [Next]_vars => MoveInv'
  <2> SUFFICES ASSUME MoveInv, [Next]_vars PROVE MoveInv'
    OBVIOUS
  <2>1. FreeArea(in)
    BY DEF MoveInv, TypeOK
  <2>2. AreaFound /\ AreaFound'
    BY <2>1, AreaKept
  <2> QED BY <2>2, StepInv
<1> QED BY <1>1, <1>2, PTL DEF Spec

\* move_modules(): whatever the modules' number, sizes and places, and whatever
\* the new area overlaps, every module is intact at every moment, no move is
\* refused, and in the end the modules are reserved and followed by zeros,
\* provided find_free_ram() answered with a free area of the size that
\* calc_modules_size() computed.
THEOREM ModulesStayWhole ==
  ASSUME \A l \in Layouts : FreeArea(l)
  PROVE  Spec => []ModulesMoved
<1>1. Spec => []MoveInv
  BY MoveInvariant
<1>2. MoveInv => ModulesMoved
  <2> SUFFICES ASSUME MoveInv PROVE ModulesMoved
    OBVIOUS
  <2>1. FreeArea(in)
    BY DEF MoveInv, TypeOK
  <2> QED BY <2>1, AreaKept, InvMoved
<1> QED BY <1>1, <1>2, PTL

\* move_modules(): on the same promise, what is laid out never grows beyond
\* the computed size, although the modules are taken in another order than
\* that of calc_modules_size(), and no byte outside of it is ever written.
THEOREM WritesStayInArea ==
  ASSUME \A l \in Layouts : FreeArea(l)
  PROVE  Spec => []OnlyTargetWritten
<1>1. Spec => []MoveInv
  BY MoveInvariant
<1>2. MoveInv => OnlyTargetWritten
  <2> SUFFICES ASSUME MoveInv PROVE OnlyTargetWritten
    OBVIOUS
  <2>1. FreeArea(in)
    BY DEF MoveInv, TypeOK
  <2>2. AreaFound
    BY <2>1, AreaKept
  <2>3. cursor <= in.to + CalcModulesSize(in)
    BY CursorBound
  <2> QED BY <2>2, <2>3 DEF OnlyTargetWritten, MoveInv
<1> QED BY <1>1, <1>2, PTL

=============================================================================
