---------------------------- MODULE SearchProofs ----------------------------
(***************************************************************************)
(* The searches for free RAM return the best hole there is, for every      *)
(* size, alignment and range, and for all lists of RAM, sysalloc regions   *)
(* and regions in use.                                                     *)
(***************************************************************************)
EXTENDS FreeRam, RegionLemmas

\* A piece of the size looked for that starts at h lies within region r.
Fits(r, h) == r.begin <= h /\ h + Need - 1 <= r.end

InLoops == pc \in {"sysalloc", "try"}
Passed(i) == IF Up THEN i < rr ELSE i > rr

\* The loop over RAM stays within the list, and inside of it with a region.
Indexed ==
  /\ IF Up THEN rr \in 1..(Len(q.ram) + 1) ELSE rr \in 0..Len(q.ram)
  /\ InLoops => rr \in 1..Len(q.ram)

\* The search area lies in the RAM region, the window and the range of the
\* call.  Downwards, it or what sysalloc has in it ends high enough.
AreaInside ==
  /\ MinAddr <= area.begin /\ area.end <= q.max
  /\ q.window.begin <= area.begin /\ area.end <= q.window.end
  /\ q.ram[rr].begin <= area.begin /\ area.end <= q.ram[rr].end
  /\ ~Up => \/ area.end >= Need - 1
            \/ \A j \in 1..Len(q.sysalloc) :
                 Overlaps(q.sysalloc[j], area) => q.sysalloc[j].end <= area.end

\* The part of the search area that is tried, and how far that has got.
Found == IF Up THEN Find(q.sysalloc, area) ELSE FindRev(q.sysalloc, area)
PartInside ==
  /\ Found # 0 /\ part = Intersect(q.sysalloc[Found], area)
  /\ IF Up THEN part.begin <= at /\ at + q.align + Need <= MaxAddr + 1
           ELSE at <= part.end /\ at >= Need - 1

Frame ==
  /\ MinAddr <= bound /\ bound <= q.max
  /\ ~Up => bound >= Need - 1
  /\ InLoops => AreaInside
  /\ pc = "try" => PartInside

\* No hole is behind the search: neither in a RAM region that was passed, nor
\* in what was cut off of the one the search is in.
Reached(h, i) ==
  /\ ~Passed(i)
  /\ IF Up THEN bound <= h ELSE h + Need - 1 <= bound
  /\ InLoops /\ i = rr => Fits(area, h)
  /\ pc = "try" /\ i = rr /\ Fits(part, h) => IF Up THEN at <= h ELSE h + Need - 1 <= at

NothingMissed ==
  \A h \in Holes : \A i \in 1..Len(q.ram) : Fits(q.ram[i], h) => Reached(h, i)

\* The inductive strengthening of SearchRight.
SearchInv ==
  /\ TypeOK /\ Indexed
  /\ Roomy => /\ pc # "failed"
              /\ pc # "done" => Frame /\ NothingMissed
              /\ FindsBestHole

-----------------------------------------------------------------------------
(* Types *)

\* Rounding stays within the address space, as it wraps.
LEMMA TruncInAddr ==
  ASSUME NEW x \in Int, NEW n \in Nat \ {0}
  PROVE  TruncSize(Word(x), n) \in Addr
<1>1. Word(x) \in Addr /\ MaxAddr \in Nat /\ Addr = 0..MaxAddr
  BY WordInAddr, WordAssumption DEF Addr
<1>2. TruncSize(Word(x), n) \in Nat /\ TruncSize(Word(x), n) <= Word(x)
  BY <1>1, TruncBounds
<1> QED BY <1>1, <1>2

\* The call and what it looks for.
LEMMA CallFacts ==
  ASSUME q \in Searches
  PROVE  /\ q.ram \in Seq(Region) /\ q.sysalloc \in Seq(Region) /\ q.regions \in Seq(Region)
         /\ Ascending(q.ram) /\ Ascending(q.sysalloc)
         /\ q.window \in Region
         /\ q.align \in Nat \ {0} /\ q.max \in Nat /\ q.max <= MaxAddr
         /\ MaxAddr \in Nat /\ Addr = 0..MaxAddr
         /\ MinAddr \in Nat /\ MinAddr >= 1 /\ MinAddr <= q.max
         /\ Need \in Addr
<1>1. q \in Search /\ Ascending(q.ram) /\ Ascending(q.sysalloc) /\ MinAddr <= q.max
  BY SearchAssumption DEF MinAddr
<1>2. /\ q.ram \in Seq(Region) /\ q.sysalloc \in Seq(Region) /\ q.regions \in Seq(Region)
      /\ q.window \in Region /\ q.align \in Addr \ {0} /\ q.max \in Addr /\ q.min \in Addr
      /\ q.size \in Addr
  BY <1>1 DEF Search
<1>3. MaxAddr \in Nat /\ MinRam \in Addr \ {0} /\ Addr = 0..MaxAddr
  BY WordAssumption, SearchAssumption DEF Addr
<1>4. MinAddr \in Nat /\ MinAddr >= 1
  BY <1>2, <1>3 DEF MinAddr, Larger
<1>5. Need \in Addr
  <2>1. q.size + q.align - 1 \in Nat /\ q.align \in Nat \ {0}
    BY <1>2, <1>3
  <2> QED BY <2>1, TruncInAddr DEF Need, RoundSize
<1> QED BY <1>1, <1>2, <1>3, <1>4, <1>5

\* The common part of overlapping regions.
LEMMA IntersectShape ==
  ASSUME NEW r \in Region, NEW o \in Region, Overlaps(r, o)
  PROVE  LET p == Intersect(r, o) IN
         /\ p \in Region
         /\ p.begin = Larger(r.begin, o.begin) /\ p.end = Smaller(r.end, o.end)
<1>1. /\ r.begin \in Nat /\ r.end \in Nat /\ r.begin <= r.end
      /\ o.begin \in Nat /\ o.end \in Nat /\ o.begin <= o.end
  BY RegionBounds
<1>2. r.begin <= o.end /\ o.begin <= r.end
  BY <1>1 DEF Overlaps, Before
<1> DEFINE b == IF r.begin > o.begin THEN r.begin ELSE o.begin
           e == IF r.end < o.end THEN r.end ELSE o.end
<1>3. b \in Addr /\ e \in Addr /\ b <= e
  BY <1>1, <1>2 DEF Region
<1>4. Intersect(r, o) = [r EXCEPT !.begin = b, !.end = e]
  BY DEF Intersect
<1>5. b = Larger(r.begin, o.begin) /\ e = Smaller(r.end, o.end)
  BY DEF Larger, Smaller
<1> HIDE DEF b, e
<1> QED BY <1>3, <1>4, <1>5 DEF Region

\* What is searched of a RAM region.
LEMMA CutShape ==
  ASSUME TypeOK, NEW r \in Region
  PROVE  /\ Up => Cut(r).begin = Larger(r.begin, bound) /\ Cut(r).end = Smaller(r.end, q.max)
         /\ ~Up => Cut(r).begin = Larger(r.begin, MinAddr) /\ Cut(r).end = Smaller(r.end, bound)
         /\ Cut(r).begin \in Addr /\ Cut(r).end \in Addr
         /\ Cut(r).begin <= Cut(r).end => Cut(r) \in Region
<1>1. r.begin \in Addr /\ r.end \in Addr /\ bound \in Addr /\ q.max \in Addr /\ MinAddr \in Addr
  BY CallFacts DEF TypeOK, Region
<1>2. CASE Up
  <2> DEFINE b == Larger(r.begin, bound)
             e == Smaller(r.end, q.max)
  <2>1. b \in Addr /\ e \in Addr
    BY <1>1 DEF Larger, Smaller
  <2>2. Cut(r) = [r EXCEPT !.begin = b, !.end = e]
    BY <1>2 DEF Cut
  <2> HIDE DEF b, e
  <2>3. Cut(r).begin = b /\ Cut(r).end = e /\ (b <= e => Cut(r) \in Region)
    BY <2>1, <2>2 DEF Region
  <2> QED BY <1>2, <2>1, <2>3 DEF b, e
<1>3. CASE ~Up
  <2> DEFINE b == Larger(r.begin, MinAddr)
             e == Smaller(r.end, bound)
  <2>1. b \in Addr /\ e \in Addr
    BY <1>1 DEF Larger, Smaller
  <2>2. Cut(r) = [r EXCEPT !.begin = b, !.end = e]
    BY <1>3 DEF Cut
  <2> HIDE DEF b, e
  <2>3. Cut(r).begin = b /\ Cut(r).end = e /\ (b <= e => Cut(r) \in Region)
    BY <2>1, <2>2 DEF Region
  <2> QED BY <1>3, <2>1, <2>3 DEF b, e
<1> QED BY <1>2, <1>3

\* The piece that is tried starts at an address.
LEMMA CandidateInAddr ==
  ASSUME TypeOK
  PROVE  Candidate \in Addr
<1>1. at \in Int /\ q.align \in Nat \ {0} /\ Need \in Int
  BY CallFacts DEF TypeOK, Addr
<1>2. at + q.align - 1 \in Int /\ at - (Need - 1) \in Int
  BY <1>1
<1> QED BY <1>1, <1>2, TruncInAddr DEF Candidate, RoundSize

\* The next RAM region, when the search was in one.
LEMMA NextRamIndexed ==
  ASSUME TypeOK, Indexed, rr \in 1..Len(q.ram), NextRam, q' = q, pc' = "ram"
  PROVE  rr' \in Nat /\ Indexed'
<1>1. Len(q.ram) \in Nat
  BY CallFacts, Entries DEF TypeOK
<1>2. Up' = Up
  BY DEF Up
<1> QED BY <1>1, <1>2 DEF NextRam, Indexed, InLoops

\* The part of the search area to be tried.
LEMMA FoundShape ==
  ASSUME TypeOK
  PROVE  \/ Found = 0 /\ \A i \in 1..Len(q.sysalloc) : ~Overlaps(q.sysalloc[i], area)
         \/ /\ Found \in 1..Len(q.sysalloc) /\ q.sysalloc[Found] \in Region
            /\ Overlaps(q.sysalloc[Found], area)
            /\ \A i \in 1..Len(q.sysalloc) :
                 Overlaps(q.sysalloc[i], area) => IF Up THEN Found <= i ELSE i <= Found
            /\ LET p == Intersect(q.sysalloc[Found], area) IN
               /\ p \in Region
               /\ p.begin = Larger(q.sysalloc[Found].begin, area.begin)
               /\ p.end = Smaller(q.sysalloc[Found].end, area.end)
<1>1. q.sysalloc \in Seq(Region) /\ area \in Region
  BY CallFacts DEF TypeOK
<1>2. \/ Found = 0 /\ \A i \in 1..Len(q.sysalloc) : ~Overlaps(q.sysalloc[i], area)
      \/ /\ Found \in 1..Len(q.sysalloc) /\ Overlaps(q.sysalloc[Found], area)
         /\ \A i \in 1..Len(q.sysalloc) :
              Overlaps(q.sysalloc[i], area) => IF Up THEN Found <= i ELSE i <= Found
  <2>1. CASE Up
    BY <1>1, <2>1, FindFinds DEF Found
  <2>2. CASE ~Up
    BY <1>1, <2>2, FindRevFinds DEF Found
  <2> QED BY <2>1, <2>2
<1>3. CASE Found = 0
  BY <1>2, <1>3, Entries, <1>1
<1>4. CASE Found # 0
  <2>1. q.sysalloc[Found] \in Region
    BY <1>1, <1>2, <1>4, Entries
  <2> QED BY <1>1, <1>2, <1>4, <2>1, IntersectShape
<1> QED BY <1>3, <1>4

\* The types of the rest of the search area.
LEMMA NextPartTypes ==
  ASSUME TypeOK, Indexed, rr \in 1..Len(q.ram), NextPart
  PROVE  TypeOK' /\ Indexed'
<1> DEFINE next == IF Up THEN Word(part.end + 1) ELSE Word(part.begin - 1)
           last == IF Up THEN next > area.end \/ next < part.end ELSE next < area.begin
<1>1. next \in Addr /\ next \in Nat
  <2>1. part.end \in Int /\ part.begin \in Int
    BY RegionBounds DEF TypeOK
  <2>2. part.end + 1 \in Int /\ part.begin - 1 \in Int
    BY <2>1
  <2>3. Word(part.end + 1) \in Addr /\ Word(part.begin - 1) \in Addr
    BY <2>2, WordInAddr
  <2> QED BY <2>3, WordAssumption DEF Addr
<1> HIDE DEF next
<1>2. CASE last
  <2>1. NextRam /\ pc' = "ram" /\ UNCHANGED <<q, bound, area, part, at, result>>
    BY <1>2 DEF NextPart, next
  <2> QED BY <2>1, NextRamIndexed DEF TypeOK
<1>3. CASE ~last
  <2>1. /\ area' = IF Up THEN [area EXCEPT !.begin = next] ELSE [area EXCEPT !.end = next]
        /\ pc' = "sysalloc" /\ UNCHANGED <<q, rr, bound, part, at, result>>
    BY <1>3 DEF NextPart, next
  <2>2. area \in Region /\ area.begin \in Nat /\ area.end \in Nat
    BY RegionBounds DEF TypeOK
  <2>3. IF Up THEN next <= area.end ELSE area.begin <= next
    BY <1>1, <1>3, <2>2
  <2>4. area' \in Region
    BY <1>1, <2>1, <2>2, <2>3, WithBegin, WithEnd
  <2> QED BY <2>1, <2>4 DEF TypeOK, Indexed, InLoops, Up
<1> QED BY <1>2, <1>3

\* Every step keeps the types and the index in range, also where addresses
\* wrap.
LEMMA TypesKept ==
  ASSUME TypeOK, Indexed, [Next]_vars
  PROVE  TypeOK' /\ Indexed'
<1>1. /\ q.ram \in Seq(Region) /\ Len(q.ram) \in Nat /\ DOMAIN q.ram = 1..Len(q.ram)
      /\ \A i \in 1..Len(q.ram) : q.ram[i] \in Region
      /\ q.regions \in Seq(Region)
  BY CallFacts, Entries DEF TypeOK
<1>2. ASSUME NEW x \in Addr, Answer(x) PROVE TypeOK' /\ Indexed'
  BY <1>2 DEF Answer, TypeOK, Indexed, InLoops, Up
<1>3. CASE Fail
  BY <1>3 DEF Fail, TypeOK, Indexed, InLoops, Up
<1>4. CASE Ram
  <2>1. CASE rr \notin DOMAIN q.ram
    BY <1>2, <1>4, <2>1, WordAssumption DEF Ram, Addr
  <2>2. CASE rr \in DOMAIN q.ram
    <3> DEFINE r == q.ram[rr]
               c == Cut(r)
    <3>0. r \in Region /\ rr \in 1..Len(q.ram) /\ q.window \in Region
      BY <1>1, <2>2, CallFacts DEF TypeOK
    <3>1. CASE SkipRam(r)
      <4>1. NextRam /\ UNCHANGED <<q, bound, area, part, at, pc, result>> /\ pc = "ram"
        BY <1>4, <2>2, <3>1 DEF Ram
      <4> QED BY <3>0, <4>1, NextRamIndexed DEF TypeOK
    <3>2. CASE ~SkipRam(r) /\ c.end < c.begin
      BY <1>3, <1>4, <2>2, <3>2 DEF Ram
    <3>3. CASE ~SkipRam(r) /\ ~(c.end < c.begin)
      <4>1. /\ bound' = IF Up THEN c.begin ELSE c.end
            /\ IF Overlaps(c, q.window)
               THEN area' = Intersect(c, q.window) /\ pc' = "sysalloc" /\ UNCHANGED rr
               ELSE NextRam /\ UNCHANGED <<area, pc>>
            /\ UNCHANGED <<q, part, at, result>> /\ pc = "ram"
        BY <1>4, <2>2, <3>3 DEF Ram
      <4>2. c \in Region /\ c.begin \in Addr /\ c.end \in Addr
        <5>1. c.begin \in Nat /\ c.end \in Nat /\ c.begin \in Addr /\ c.end \in Addr
          BY <3>0, CutShape DEF Addr
        <5> QED BY <3>0, <3>3, <5>1, CutShape
      <4> HIDE DEF c
      <4>3. bound' \in Addr
        BY <4>1, <4>2
      <4>4. CASE Overlaps(c, q.window)
        <5>1. area' \in Region
          BY <3>0, <4>1, <4>2, <4>4, IntersectShape
        <5> QED BY <3>0, <4>1, <4>3, <4>4, <5>1 DEF TypeOK, Indexed, InLoops, Up
      <4>5. CASE ~Overlaps(c, q.window)
        BY <3>0, <4>1, <4>3, <4>5, NextRamIndexed DEF TypeOK
      <4> QED BY <4>4, <4>5
    <3> QED BY <3>1, <3>2, <3>3
  <2> QED BY <2>1, <2>2
<1>5. CASE Sysalloc
  <2>1. rr \in 1..Len(q.ram) /\ pc = "sysalloc"
    BY <1>5 DEF Sysalloc, Indexed, InLoops
  <2> DEFINE p == Intersect(q.sysalloc[Found], area)
  <2>2. CASE Found = 0
    <3>1. NextRam /\ pc' = "ram" /\ UNCHANGED <<q, bound, area, part, at, result>>
      BY <1>5, <2>2 DEF Sysalloc, Found
    <3> QED BY <2>1, <3>1, NextRamIndexed DEF TypeOK
  <2>3. CASE Found # 0
    <3>1. /\ part' = p /\ at' = IF Up THEN p.begin ELSE p.end
          /\ pc' = "try" /\ UNCHANGED <<q, rr, bound, area, result>>
      BY <1>5, <2>3 DEF Sysalloc, Found
    <3>2. p \in Region
      BY <2>3, FoundShape
    <3> HIDE DEF p
    <3>3. at' \in Addr
      BY <3>1, <3>2 DEF Region
    <3> QED BY <2>1, <3>1, <3>2, <3>3 DEF TypeOK, Indexed, InLoops, Up
  <2> QED BY <2>2, <2>3
<1>6. CASE Try
  <2> DEFINE a == Candidate
             hole == [part EXCEPT !.begin = a, !.end = Word(a + Need - 1)]
             z == Find(q.regions, hole)
  <2>1. rr \in 1..Len(q.ram) /\ pc = "try" /\ a \in Addr
    BY <1>6, CandidateInAddr DEF Try, Indexed, InLoops
  <2>2. CASE NextPart
    BY <2>1, <2>2, NextPartTypes
  <2>3. CASE Answer(a)
    BY <1>2, <2>1, <2>3
  <2>4. CASE /\ a <= hole.end /\ z # 0 /\ at' = Beyond(q.regions[z])
             /\ UNCHANGED <<q, rr, bound, area, part, pc, result>>
    <3>1. a + Need - 1 \in Int
      BY <2>1, CallFacts DEF TypeOK, Addr
    <3>2. hole \in Region
      <4>1. Word(a + Need - 1) \in Addr
        BY <3>1, WordInAddr
      <4> QED BY <2>1, <2>4, <4>1 DEF TypeOK, Region
    <3> HIDE DEF hole
    <3>3. q.regions[z] \in Region
      BY <1>1, <2>4, <3>2, FindFinds, Entries
    <3> HIDE DEF z
    <3>4. at' \in Addr
      <4>1. q.regions[z].end + 1 \in Int /\ q.regions[z].begin - 1 \in Int
        BY <3>3, RegionBounds
      <4> QED BY <2>4, <4>1, WordInAddr DEF Beyond
    <3> QED BY <2>1, <2>4, <3>4 DEF TypeOK, Indexed, InLoops, Up
  <2> QED BY <1>3, <1>6, <2>2, <2>3, <2>4 DEF Try
<1>7. CASE UNCHANGED vars
  BY <1>7 DEF vars, TypeOK, Indexed, InLoops, Up
<1> QED BY <1>4, <1>5, <1>6, <1>7 DEF Next, Step, Done

-----------------------------------------------------------------------------
(* Holes *)

\* The room at both ends of the address space, entry by entry.
LEMMA RoomFacts ==
  ASSUME TypeOK, Roomy
  PROVE  /\ Need \in Nat /\ Need >= 2 /\ Need <= MaxAddr
         /\ q.max >= Need - 1 /\ q.window.end >= Need - 1
         /\ \A i \in 1..Len(q.ram) :
              q.ram[i].end >= Need - 1 /\ q.ram[i].end + q.align + Need <= MaxAddr
         /\ \A i \in 1..Len(q.sysalloc) : q.sysalloc[i].end >= Need - 1
         /\ \A i \in 1..Len(q.regions) :
              /\ q.regions[i].end + q.align + Need <= MaxAddr
              /\ q.regions[i].begin >= Need \/ q.regions[i].end < q.align
<1>1. /\ DOMAIN q.ram = 1..Len(q.ram) /\ DOMAIN q.sysalloc = 1..Len(q.sysalloc)
      /\ DOMAIN q.regions = 1..Len(q.regions)
  BY CallFacts, Entries DEF TypeOK
<1>2. Need \in 2..MaxAddr /\ MaxAddr \in Nat
  BY WordAssumption DEF Roomy
<1>3. Need \in Nat /\ Need >= 2 /\ Need <= MaxAddr
  BY <1>2
<1>4. q.max >= Need - 1 /\ q.window.end >= Need - 1
  BY DEF Roomy
<1>5. \A i \in 1..Len(q.sysalloc) : q.sysalloc[i].end >= Need - 1
  BY <1>1 DEF Roomy
<1>6. \A i \in 1..Len(q.ram) :
        q.ram[i].end >= Need - 1 /\ q.ram[i].end + q.align + Need <= MaxAddr
  BY <1>1 DEF Roomy
<1>7. \A i \in 1..Len(q.regions) :
        /\ q.regions[i].end + q.align + Need <= MaxAddr
        /\ q.regions[i].begin >= Need \/ q.regions[i].end < q.align
  BY <1>1 DEF Roomy
<1> QED BY <1>3, <1>4, <1>5, <1>6, <1>7

\* The bytes of a piece lie in a region if and only if its ends do.
LEMMA InsideMeansFits ==
  ASSUME TypeOK, Roomy, NEW r \in Region, NEW h \in Nat
  PROVE  h..(h + Need - 1) \subseteq Bytes(r) <=> Fits(r, h)
<1>1. Need \in Nat /\ Need >= 2 /\ r.begin \in Nat /\ r.end \in Nat
  BY RoomFacts, RegionBounds
<1>2. h \in h..(h + Need - 1) /\ h + Need - 1 \in h..(h + Need - 1)
  BY <1>1
<1> QED BY <1>1, <1>2 DEF Bytes, Fits

\* The bytes of a piece are free if and only if it lies before or after every
\* region in use.
LEMMA FreeMeansApart ==
  ASSUME TypeOK, Roomy, NEW h \in Nat
  PROVE  h..(h + Need - 1) \cap Covered(q.regions) = {}
         <=> \A i \in 1..Len(q.regions) :
               q.regions[i].end < h \/ q.regions[i].begin > h + Need - 1
<1>1. /\ Need \in Nat /\ Need >= 2 /\ DOMAIN q.regions = 1..Len(q.regions)
      /\ \A i \in 1..Len(q.regions) :
           /\ q.regions[i].begin \in Nat /\ q.regions[i].end \in Nat
           /\ q.regions[i].begin <= q.regions[i].end
  BY RoomFacts, CallFacts, Entries DEF TypeOK
<1>2. ASSUME NEW i \in 1..Len(q.regions), q.regions[i].end >= h,
             q.regions[i].begin <= h + Need - 1
      PROVE  h..(h + Need - 1) \cap Covered(q.regions) # {}
  <2> DEFINE x == IF h > q.regions[i].begin THEN h ELSE q.regions[i].begin
  <2>1. x \in h..(h + Need - 1) /\ x \in Bytes(q.regions[i])
    BY <1>1, <1>2 DEF Bytes
  <2> QED BY <1>1, <2>1 DEF Covered
<1>3. ASSUME NEW x \in h..(h + Need - 1), x \in Covered(q.regions)
      PROVE  \E i \in 1..Len(q.regions) :
               q.regions[i].end >= h /\ q.regions[i].begin <= h + Need - 1
  <2>1. PICK i \in 1..Len(q.regions) : x \in Bytes(q.regions[i])
    BY <1>1, <1>3 DEF Covered
  <2>2. x \in Int /\ x >= h /\ x <= h + Need - 1
    BY <1>1, <1>3
  <2>3. q.regions[i].begin <= x /\ x <= q.regions[i].end
    BY <2>1 DEF Bytes
  <2> QED BY <1>1, <2>2, <2>3
<1> QED BY <1>1, <1>2, <1>3, SMTT(30)

\* A hole in terms of the bounds of the regions.
LEMMA HoleMeans ==
  ASSUME TypeOK, Roomy, NEW h \in Nat
  PROVE  h \in Holes <=>
           /\ h >= 1 /\ h >= MinAddr /\ h + Need - 1 <= q.max /\ h % q.align = 0
           /\ \E i \in 1..Len(q.ram) : Fits(q.ram[i], h)
           /\ \E i \in 1..Len(q.sysalloc) : Fits(q.sysalloc[i], h)
           /\ Fits(q.window, h)
           /\ \A i \in 1..Len(q.regions) :
                q.regions[i].end < h \/ q.regions[i].begin > h + Need - 1
<1>1. /\ DOMAIN q.ram = 1..Len(q.ram) /\ DOMAIN q.sysalloc = 1..Len(q.sysalloc)
      /\ \A i \in 1..Len(q.ram) : q.ram[i] \in Region
      /\ \A i \in 1..Len(q.sysalloc) : q.sysalloc[i] \in Region
      /\ q.window \in Region /\ Addr = 0..MaxAddr /\ MaxAddr \in Nat
      /\ q.max \in Nat /\ q.max <= MaxAddr
      /\ Need \in Nat /\ Need >= 2
  BY CallFacts, Entries, RoomFacts DEF TypeOK
<1>2. Hole(h) <=>
        /\ h >= MinAddr /\ h + Need - 1 <= q.max /\ h % q.align = 0
        /\ \E i \in DOMAIN q.ram : h..(h + Need - 1) \subseteq Bytes(q.ram[i])
        /\ \E i \in DOMAIN q.sysalloc : h..(h + Need - 1) \subseteq Bytes(q.sysalloc[i])
        /\ h..(h + Need - 1) \subseteq Bytes(q.window)
        /\ h..(h + Need - 1) \cap Covered(q.regions) = {}
  BY DEF Hole
<1>3. /\ \A i \in 1..Len(q.ram) :
           h..(h + Need - 1) \subseteq Bytes(q.ram[i]) <=> Fits(q.ram[i], h)
      /\ \A i \in 1..Len(q.sysalloc) :
           h..(h + Need - 1) \subseteq Bytes(q.sysalloc[i]) <=> Fits(q.sysalloc[i], h)
      /\ h..(h + Need - 1) \subseteq Bytes(q.window) <=> Fits(q.window, h)
  BY <1>1, InsideMeansFits
<1>4. h \in Holes <=> h >= 1 /\ h <= MaxAddr /\ Hole(h)
  BY <1>1 DEF Holes
<1>5. h + Need - 1 <= q.max => h <= MaxAddr
  BY <1>1
<1>6. (\E i \in DOMAIN q.ram : h..(h + Need - 1) \subseteq Bytes(q.ram[i]))
      <=> \E i \in 1..Len(q.ram) : Fits(q.ram[i], h)
  BY <1>1, <1>3
<1>7. (\E i \in DOMAIN q.sysalloc : h..(h + Need - 1) \subseteq Bytes(q.sysalloc[i]))
      <=> \E i \in 1..Len(q.sysalloc) : Fits(q.sysalloc[i], h)
  BY <1>1, <1>3
<1> QED BY <1>2, <1>3, <1>4, <1>5, <1>6, <1>7, FreeMeansApart

\* What is known of a hole wherever the search is.
LEMMA HoleFacts ==
  ASSUME TypeOK, Roomy, NEW h \in Holes
  PROVE  /\ h \in Nat /\ h >= MinAddr /\ h + Need - 1 <= q.max /\ h % q.align = 0
         /\ \E i \in 1..Len(q.ram) : Fits(q.ram[i], h)
         /\ \E i \in 1..Len(q.sysalloc) : Fits(q.sysalloc[i], h)
         /\ q.window.begin <= h /\ h + Need - 1 <= q.window.end
         /\ \A i \in 1..Len(q.regions) :
              q.regions[i].end < h \/ q.regions[i].begin > h + Need - 1
<1>1. h \in Nat
  BY WordAssumption DEF Holes, Addr
<1> QED BY <1>1, HoleMeans DEF Fits

\* A step of the search leaves the call alone, and so the holes.
LEMMA SameCall ==
  ASSUME q' = q
  PROVE  /\ Up' = Up /\ Need' = Need /\ MinAddr' = MinAddr /\ Roomy' = Roomy
         /\ Holes' = Holes
<1>1. Up' = Up /\ Need' = Need /\ MinAddr' = MinAddr
  BY DEF Up, Need, MinAddr
<1>2. Roomy' = Roomy
  BY <1>1 DEF Roomy
<1>3. Holes' = Holes
  BY <1>1 DEF Holes, Hole
<1> QED BY <1>1, <1>2, <1>3

\* Nothing is missed after a step if every hole is still ahead.
LEMMA StillAhead ==
  ASSUME q' = q,
         ASSUME NEW h \in Holes, NEW i \in 1..Len(q.ram), Fits(q.ram[i], h)
         PROVE  Reached(h, i)'
  PROVE  NothingMissed'
<1>1. Need' = Need /\ Holes' = Holes
  BY SameCall
<1>2. SUFFICES ASSUME NEW h \in Holes, NEW i \in 1..Len(q.ram), Fits(q.ram[i], h)'
               PROVE  Reached(h, i)'
  BY <1>1 DEF NothingMissed
<1>3. Fits(q.ram[i], h)
  BY <1>1, <1>2 DEF Fits
<1> QED BY <1>3

-----------------------------------------------------------------------------
(* The loop over RAM *)

\* The numbers a step compares.
LEMMA Numbers ==
  ASSUME TypeOK
  PROVE  /\ bound \in Nat /\ at \in Nat /\ rr \in Nat
         /\ area.begin \in Nat /\ area.end \in Nat /\ area.begin <= area.end
         /\ part.begin \in Nat /\ part.end \in Nat /\ part.begin <= part.end
         /\ q.window.begin \in Nat /\ q.window.end \in Nat
         /\ q.window.begin <= q.window.end
         /\ Len(q.ram) \in Nat /\ Len(q.sysalloc) \in Nat
         /\ \A i \in 1..Len(q.ram) : /\ q.ram[i] \in Region
                                     /\ q.ram[i].begin \in Nat /\ q.ram[i].end \in Nat
                                     /\ q.ram[i].begin <= q.ram[i].end
         /\ \A i \in 1..Len(q.sysalloc) : /\ q.sysalloc[i].begin \in Nat
                                          /\ q.sysalloc[i].end \in Nat
                                          /\ q.sysalloc[i].begin <= q.sysalloc[i].end
         /\ \A i, j \in 1..Len(q.ram) : i < j => q.ram[i].end < q.ram[j].begin
         /\ \A i, j \in 1..Len(q.sysalloc) :
              i < j => q.sysalloc[i].end < q.sysalloc[j].begin
<1>1. bound \in Nat /\ at \in Nat /\ rr \in Nat
  BY WordAssumption DEF TypeOK, Addr
<1>2. /\ area.begin \in Nat /\ area.end \in Nat /\ area.begin <= area.end
      /\ part.begin \in Nat /\ part.end \in Nat /\ part.begin <= part.end
      /\ q.window.begin \in Nat /\ q.window.end \in Nat /\ q.window.begin <= q.window.end
  BY CallFacts, RegionBounds DEF TypeOK
<1>3. /\ q.ram \in Seq(Region) /\ q.sysalloc \in Seq(Region)
      /\ Ascending(q.ram) /\ Ascending(q.sysalloc)
  BY CallFacts DEF TypeOK
<1>4. /\ DOMAIN q.ram = 1..Len(q.ram) /\ DOMAIN q.sysalloc = 1..Len(q.sysalloc)
      /\ Len(q.ram) \in Nat /\ Len(q.sysalloc) \in Nat
      /\ \A i \in 1..Len(q.ram) : /\ q.ram[i] \in Region
                                  /\ q.ram[i].begin \in Nat /\ q.ram[i].end \in Nat
                                  /\ q.ram[i].begin <= q.ram[i].end
      /\ \A i \in 1..Len(q.sysalloc) : /\ q.sysalloc[i].begin \in Nat
                                       /\ q.sysalloc[i].end \in Nat
                                       /\ q.sysalloc[i].begin <= q.sysalloc[i].end
  BY <1>3, Entries
<1>5. /\ \A i, j \in 1..Len(q.ram) : i < j => q.ram[i].end < q.ram[j].begin
      /\ \A i, j \in 1..Len(q.sysalloc) :
           i < j => q.sysalloc[i].end < q.sysalloc[j].begin
  BY <1>3, <1>4 DEF Ascending, Before
<1> QED BY <1>1, <1>2, <1>4, <1>5

\* A RAM region is left behind when it holds no hole.
LEMMA NextRamKept ==
  ASSUME TypeOK, Indexed, Roomy, NothingMissed, rr \in 1..Len(q.ram),
         NextRam, q' = q, pc' = "ram",
         MinAddr <= bound', bound' <= q.max, ~Up => bound' >= Need - 1,
         ASSUME NEW h \in Holes PROVE ~Fits(q.ram[rr], h),
         ASSUME NEW h \in Holes, NEW i \in 1..Len(q.ram), Fits(q.ram[i], h), ~Passed(i)
         PROVE  IF Up THEN bound' <= h ELSE h + Need - 1 <= bound'
  PROVE  Frame' /\ NothingMissed'
<1>1. Up' = Up /\ Need' = Need /\ MinAddr' = MinAddr
  BY SameCall
<1>2. Frame'
  BY <1>1 DEF Frame, InLoops
<1>3. ASSUME NEW h \in Holes, NEW i \in 1..Len(q.ram), Fits(q.ram[i], h)
      PROVE  Reached(h, i)'
  <2>1. ~Passed(i)
    BY <1>3 DEF NothingMissed, Reached
  <2>2. i # rr /\ i \in Nat /\ rr \in Nat
    BY <1>3, Numbers
  <2>3. ~Passed(i)'
    BY <1>1, <2>1, <2>2 DEF Passed, NextRam
  <2>4. IF Up THEN bound' <= h ELSE h + Need - 1 <= bound'
    BY <1>3, <2>1
  <2> QED BY <1>1, <2>3, <2>4 DEF Reached, InLoops
<1> QED BY <1>2, <1>3, StillAhead

\* The range of the call and the RAM region have something in common when the
\* region is not skipped: no assertion fails, and what is searched has room.
LEMMA CutRoom ==
  ASSUME TypeOK, Roomy, Frame, rr \in 1..Len(q.ram), ~SkipRam(q.ram[rr])
  PROVE  LET r == q.ram[rr]
             c == Cut(r)
         IN /\ c \in Region /\ c.begin \in Nat /\ c.end \in Nat /\ c.begin <= c.end
            /\ MinAddr <= c.begin /\ c.end <= q.max
            /\ r.begin <= c.begin /\ c.end <= r.end
            /\ Up => c.begin = Larger(r.begin, bound) /\ c.end = Smaller(r.end, q.max)
            /\ ~Up => /\ c.begin = Larger(r.begin, MinAddr) /\ c.end = Smaller(r.end, bound)
                      /\ c.end >= Need - 1
<1> DEFINE r == q.ram[rr]
           c == Cut(r)
<1>1. /\ r \in Region /\ r.begin \in Nat /\ r.end \in Nat /\ r.begin <= r.end
      /\ bound \in Nat /\ q.max \in Nat /\ MinAddr \in Nat /\ MinAddr <= q.max
      /\ r.end >= Need - 1 /\ Need \in Nat
  BY Numbers, CallFacts, RoomFacts DEF TypeOK
<1>2. /\ Up => c.begin = Larger(r.begin, bound) /\ c.end = Smaller(r.end, q.max)
      /\ ~Up => c.begin = Larger(r.begin, MinAddr) /\ c.end = Smaller(r.end, bound)
      /\ c.begin <= c.end => c \in Region
  BY <1>1, CutShape
<1>3. MinAddr <= bound /\ bound <= q.max /\ (~Up => bound >= Need - 1)
  BY DEF Frame
<1> HIDE DEF c, r
<1>4. ~SkipRam(r)
  BY DEF r
<1>5. /\ c.begin \in Nat /\ c.end \in Nat /\ c.begin <= c.end
      /\ MinAddr <= c.begin /\ c.end <= q.max
      /\ r.begin <= c.begin /\ c.end <= r.end
      /\ ~Up => c.end >= Need - 1
  <2>1. CASE Up
    BY <1>1, <1>2, <1>3, <1>4, <2>1 DEF SkipRam, Larger, Smaller
  <2>2. CASE ~Up
    BY <1>1, <1>2, <1>3, <1>4, <2>2 DEF SkipRam, Larger, Smaller
  <2> QED BY <2>1, <2>2
<1> QED BY <1>2, <1>5 DEF c, r

\* The loop over RAM goes on without an assertion, and passes no hole.
LEMMA RamKept ==
  ASSUME TypeOK, Indexed, Roomy, Frame, NothingMissed, Ram
  PROVE  /\ pc' # "failed"
         /\ pc' # "done" => Frame' /\ NothingMissed'
         /\ FindsBestHole'
<1>0. pc = "ram" /\ Len(q.ram) \in Nat /\ rr \in Nat /\ DOMAIN q.ram = 1..Len(q.ram)
  BY Numbers, CallFacts, Entries DEF Ram, TypeOK
<1>1. CASE rr \notin DOMAIN q.ram
  <2>1. Answer(0)
    BY <1>1 DEF Ram
  <2>2. Holes = {}
    <3> SUFFICES ASSUME NEW h \in Holes PROVE FALSE
      OBVIOUS
    <3>1. PICK i \in 1..Len(q.ram) : Fits(q.ram[i], h)
      BY HoleFacts
    <3>2. ~Passed(i)
      BY <3>1 DEF NothingMissed, Reached
    <3> QED BY <1>0, <1>1, <3>2 DEF Passed, Indexed
  <2>3. Holes' = {}
    BY <2>1, <2>2, SameCall DEF Answer
  <2> QED BY <2>1, <2>3 DEF Answer, FindsBestHole
<1>2. CASE rr \in DOMAIN q.ram
  <2> DEFINE r == q.ram[rr]
             c == Cut(r)
  <2>0. /\ rr \in 1..Len(q.ram) /\ r.begin \in Nat /\ r.end \in Nat /\ r.begin <= r.end
        /\ bound \in Nat /\ MinAddr \in Nat /\ q.max \in Nat /\ Need \in Nat /\ Need >= 2
        /\ MinAddr <= bound /\ bound <= q.max /\ (~Up => bound >= Need - 1)
    BY <1>0, <1>2, Numbers, CallFacts, RoomFacts DEF TypeOK, Frame
  <2>1. ASSUME NEW h \in Holes, NEW i \in 1..Len(q.ram), Fits(q.ram[i], h)
        PROVE  /\ h \in Nat /\ h >= MinAddr /\ h + Need - 1 <= q.max /\ ~Passed(i)
               /\ IF Up THEN bound <= h ELSE h + Need - 1 <= bound
    BY <2>1, HoleFacts DEF NothingMissed, Reached
  <2>2. CASE SkipRam(r)
    <3>1. NextRam /\ UNCHANGED <<q, bound, area, part, at, pc, result>>
      BY <1>2, <2>2 DEF Ram
    <3>2. ASSUME NEW h \in Holes PROVE ~Fits(q.ram[rr], h)
      <4> SUFFICES ASSUME r.begin <= h, h + Need - 1 <= r.end PROVE FALSE
        BY DEF Fits
      <4>1. /\ h \in Nat /\ h >= MinAddr /\ h + Need - 1 <= q.max
            /\ IF Up THEN bound <= h ELSE h + Need - 1 <= bound
        BY <2>0, <2>1 DEF Fits
      <4> HIDE DEF r
      <4> QED BY <2>0, <2>2, <4>1 DEF SkipRam
    <3>3. Frame' /\ NothingMissed'
      BY <1>0, <2>0, <2>1, <3>1, <3>2, NextRamKept
    <3> QED BY <1>0, <3>1, <3>3 DEF FindsBestHole
  <2>3. CASE ~SkipRam(r)
    <3>1. /\ c \in Region /\ c.begin \in Nat /\ c.end \in Nat /\ c.begin <= c.end
          /\ MinAddr <= c.begin /\ c.end <= q.max
          /\ r.begin <= c.begin /\ c.end <= r.end
          /\ Up => c.begin = Larger(r.begin, bound) /\ c.end = Smaller(r.end, q.max)
          /\ ~Up => /\ c.begin = Larger(r.begin, MinAddr) /\ c.end = Smaller(r.end, bound)
                    /\ c.end >= Need - 1
      BY <2>0, <2>3, CutRoom
    <3>2. /\ bound' = IF Up THEN c.begin ELSE c.end
          /\ IF Overlaps(c, q.window)
             THEN area' = Intersect(c, q.window) /\ pc' = "sysalloc" /\ UNCHANGED rr
             ELSE NextRam /\ UNCHANGED <<area, pc>>
          /\ UNCHANGED <<q, part, at, result>>
      <4>1. ~(c.end < c.begin)
        BY <3>1
      <4> QED BY <1>2, <2>3, <4>1 DEF Ram
    <3>3. MinAddr <= bound' /\ bound' <= q.max /\ (~Up => bound' >= Need - 1)
      <4> HIDE DEF c
      <4> QED BY <2>0, <3>1, <3>2
    <3>4. ASSUME NEW h \in Holes, NEW i \in 1..Len(q.ram), Fits(q.ram[i], h)
          PROVE  IF Up THEN bound' <= h ELSE h + Need - 1 <= bound'
      <4>1. /\ h \in Nat /\ ~Passed(i)
            /\ IF Up THEN bound <= h ELSE h + Need - 1 <= bound
        BY <2>1, <3>4
      <4>2. /\ q.ram[i].begin \in Nat /\ q.ram[i].end \in Nat /\ i \in Nat
            /\ q.ram[i].begin <= q.ram[i].end
            /\ i > rr => r.end < q.ram[i].begin
            /\ i < rr => q.ram[i].end < r.begin
        BY <2>0, Numbers
      <4>3. q.ram[i].begin <= h /\ h + Need - 1 <= q.ram[i].end
        BY <3>4 DEF Fits
      <4>4. CASE Up
        <5>1. r.begin <= h
          <6>1. i = rr \/ i > rr
            BY <1>0, <4>1, <4>2, <4>4 DEF Passed
          <6> QED BY <2>0, <4>1, <4>2, <4>3, <6>1
        <5> HIDE DEF c, r
        <5> QED BY <3>1, <3>2, <4>1, <4>4, <5>1 DEF Larger
      <4>5. CASE ~Up
        <5>1. h + Need - 1 <= r.end
          <6>1. i = rr \/ i < rr
            BY <1>0, <4>1, <4>2, <4>5 DEF Passed
          <6> QED BY <2>0, <4>1, <4>2, <4>3, <6>1
        <5> HIDE DEF c, r
        <5> QED BY <3>1, <3>2, <4>1, <4>5, <5>1 DEF Smaller
      <4> QED BY <4>4, <4>5
    <3>5. ASSUME NEW h \in Holes, Fits(r, h)
          PROVE  /\ h \in Nat /\ c.begin <= h /\ h + Need - 1 <= c.end
                 /\ q.window.begin <= h /\ h + Need - 1 <= q.window.end
      <4>1. /\ h \in Nat /\ h >= MinAddr /\ h + Need - 1 <= q.max
            /\ IF Up THEN bound <= h ELSE h + Need - 1 <= bound
        BY <2>0, <2>1, <3>5
      <4>2. r.begin <= h /\ h + Need - 1 <= r.end
        BY <3>5 DEF Fits
      <4>3. q.window.begin <= h /\ h + Need - 1 <= q.window.end
        BY HoleFacts
      <4> HIDE DEF c, r
      <4> QED BY <2>0, <3>1, <4>1, <4>2, <4>3 DEF Larger, Smaller
    <3>6. CASE ~Overlaps(c, q.window)
      <4>1. ASSUME NEW h \in Holes PROVE ~Fits(q.ram[rr], h)
        <5> SUFFICES ASSUME Fits(r, h) PROVE FALSE
          OBVIOUS
        <5>1. q.window.begin \in Nat /\ q.window.end \in Nat
          BY Numbers
        <5> HIDE DEF c
        <5> QED BY <2>0, <3>1, <3>5, <3>6, <5>1, SMTT(30) DEF Overlaps, Before
      <4>2. NextRam /\ UNCHANGED <<area, pc>>
        BY <3>2, <3>6
      <4>3. Frame' /\ NothingMissed'
        BY <1>0, <2>0, <3>2, <3>3, <3>4, <4>1, <4>2, NextRamKept
      <4> QED BY <1>0, <4>2, <4>3 DEF FindsBestHole
    <3>7. CASE Overlaps(c, q.window)
      <4>1. area' = Intersect(c, q.window) /\ pc' = "sysalloc" /\ rr' = rr /\ q' = q
        BY <3>2, <3>7
      <4>2. /\ area' \in Region /\ area'.begin = Larger(c.begin, q.window.begin)
            /\ area'.end = Smaller(c.end, q.window.end)
        BY <3>1, <3>7, <4>1, CallFacts, IntersectShape DEF TypeOK
      <4>3. Up' = Up /\ Need' = Need /\ MinAddr' = MinAddr
        BY <4>1, SameCall
      <4>4. q.window.begin \in Nat /\ q.window.end \in Nat /\ q.window.end >= Need - 1
        BY Numbers, RoomFacts
      <4>5. AreaInside'
        <5>1. /\ MinAddr <= area'.begin /\ area'.end <= q.max
              /\ q.window.begin <= area'.begin /\ area'.end <= q.window.end
              /\ r.begin <= area'.begin /\ area'.end <= r.end
              /\ ~Up => area'.end >= Need - 1
          <6> HIDE DEF c, r
          <6> QED BY <2>0, <3>1, <4>2, <4>4, SMTT(30) DEF Larger, Smaller
        <5> QED BY <4>1, <4>3, <5>1 DEF AreaInside
      <4>6. Frame'
        BY <3>3, <4>1, <4>3, <4>5 DEF Frame
      <4>7. ASSUME NEW h \in Holes, NEW i \in 1..Len(q.ram), Fits(q.ram[i], h)
            PROVE  Reached(h, i)'
        <5>1. ~Passed(i)'
          BY <2>1, <4>1, <4>3, <4>7 DEF Passed
        <5>2. IF Up THEN bound' <= h ELSE h + Need - 1 <= bound'
          BY <3>4, <4>7
        <5>3. i = rr => area'.begin <= h /\ h + Need - 1 <= area'.end
          <6> SUFFICES ASSUME i = rr PROVE area'.begin <= h /\ h + Need - 1 <= area'.end
            OBVIOUS
          <6>1. /\ h \in Nat /\ c.begin <= h /\ h + Need - 1 <= c.end
                /\ q.window.begin <= h /\ h + Need - 1 <= q.window.end
            BY <3>5, <4>7
          <6> HIDE DEF c
          <6> QED BY <4>2, <6>1 DEF Larger, Smaller
        <5> QED BY <4>1, <4>3, <5>1, <5>2, <5>3 DEF Reached, Fits
      <4>8. NothingMissed'
        BY <4>1, <4>7, StillAhead
      <4> QED BY <4>1, <4>6, <4>8 DEF FindsBestHole
    <3> QED BY <3>6, <3>7
  <2> QED BY <2>2, <2>3
<1> QED BY <1>1, <1>2

-----------------------------------------------------------------------------
(* The loop over sysalloc *)

\* A hole of the search area lies in the part that is looked at or, in the
\* direction of the search, behind it.
LEMMA PartFirst ==
  ASSUME TypeOK, Roomy, NEW h \in Holes, Fits(area, h)
  PROVE  /\ Found \in 1..Len(q.sysalloc)
         /\ \/ Fits(Intersect(q.sysalloc[Found], area), h)
            \/ IF Up THEN q.sysalloc[Found].end < h
                     ELSE h + Need - 1 < q.sysalloc[Found].begin
<1> DEFINE y == q.sysalloc[Found]
           p == Intersect(y, area)
<1>1. /\ h \in Nat /\ Need \in Nat /\ Need >= 2
      /\ area.begin \in Nat /\ area.end \in Nat
      /\ area.begin <= h /\ h + Need - 1 <= area.end
  BY HoleFacts, RoomFacts, Numbers DEF Fits
<1>2. PICK j \in 1..Len(q.sysalloc) : Fits(q.sysalloc[j], h)
  BY HoleFacts
<1>3. /\ q.sysalloc[j].begin \in Nat /\ q.sysalloc[j].end \in Nat
      /\ q.sysalloc[j].begin <= h /\ h + Need - 1 <= q.sysalloc[j].end
  BY <1>2, Numbers DEF Fits
<1>4. Overlaps(q.sysalloc[j], area)
  BY <1>1, <1>3, SMTT(30) DEF Overlaps, Before
<1>5. /\ Found \in 1..Len(q.sysalloc)
      /\ IF Up THEN Found <= j ELSE j <= Found
      /\ p.begin = Larger(y.begin, area.begin) /\ p.end = Smaller(y.end, area.end)
  BY <1>4, FoundShape
<1> HIDE DEF p
<1>6. CASE j = Found
  <2>1. p.begin <= h /\ h + Need - 1 <= p.end
    BY <1>1, <1>3, <1>5, <1>6 DEF Larger, Smaller
  <2> QED BY <1>5, <2>1 DEF Fits, p
<1>7. CASE j # Found
  <2>1. /\ y.begin \in Nat /\ y.end \in Nat
        /\ Up => y.end < q.sysalloc[j].begin
        /\ ~Up => q.sysalloc[j].end < y.begin
    BY <1>5, <1>7, Numbers
  <2> HIDE DEF y
  <2>2. IF Up THEN y.end < h ELSE h + Need - 1 < y.begin
    BY <1>1, <1>3, <2>1
  <2> QED BY <1>5, <2>2 DEF y
<1> QED BY <1>6, <1>7

\* The bound of the search keeps to its range while another RAM region is
\* taken up.
LEMMA BoundKept ==
  ASSUME TypeOK, Frame, NothingMissed, q' = q, bound' = bound
  PROVE  /\ MinAddr <= bound' /\ bound' <= q.max /\ (~Up => bound' >= Need - 1)
         /\ \A h \in Holes : \A i \in 1..Len(q.ram) :
              Fits(q.ram[i], h) => IF Up THEN bound' <= h ELSE h + Need - 1 <= bound'
BY DEF Frame, NothingMissed, Reached

\* The loop over sysalloc goes on with a part of the search area, or leaves
\* an area without holes.
LEMMA SysallocKept ==
  ASSUME TypeOK, Indexed, Roomy, Frame, NothingMissed, Sysalloc
  PROVE  pc' \notin {"failed", "done"} /\ Frame' /\ NothingMissed'
<1>0. pc = "sysalloc" /\ rr \in 1..Len(q.ram) /\ AreaInside
  BY DEF Sysalloc, Indexed, InLoops, Frame
<1>1. ASSUME NEW h \in Holes, Fits(q.ram[rr], h) PROVE Fits(area, h)
  BY <1>0, <1>1 DEF NothingMissed, Reached, InLoops
<1>2. CASE Found = 0
  <2>1. NextRam /\ pc' = "ram" /\ UNCHANGED <<q, bound, area, part, at, result>>
    BY <1>2 DEF Sysalloc, Found
  <2>2. ASSUME NEW h \in Holes PROVE ~Fits(q.ram[rr], h)
    <3>1. Len(q.sysalloc) \in Nat
      BY Numbers
    <3> QED BY <1>1, <1>2, <3>1, PartFirst
  <2> QED BY <1>0, <2>1, <2>2, BoundKept, NextRamKept
<1>3. CASE Found # 0
  <2> DEFINE y == q.sysalloc[Found]
             p == Intersect(y, area)
  <2>1. /\ part' = p /\ at' = IF Up THEN p.begin ELSE p.end
        /\ pc' = "try" /\ UNCHANGED <<q, rr, bound, area, result>>
    BY <1>3 DEF Sysalloc, Found
  <2>2. /\ Found \in 1..Len(q.sysalloc) /\ Overlaps(y, area) /\ p \in Region
        /\ p.begin = Larger(y.begin, area.begin) /\ p.end = Smaller(y.end, area.end)
    BY <1>3, FoundShape
  <2>3. Up' = Up /\ Need' = Need /\ MinAddr' = MinAddr /\ Found' = Found
    BY <2>1, SameCall DEF Found
  <2>4. AreaInside'
    BY <1>0, <2>1, <2>3 DEF AreaInside
  <2>5. PartInside'
    <3>1. /\ area.begin \in Nat /\ area.end \in Nat /\ p.begin \in Nat /\ p.end \in Nat
          /\ y.begin \in Nat /\ y.end \in Nat /\ y.end >= Need - 1 /\ Need \in Nat
          /\ q.align \in Nat /\ MaxAddr \in Nat /\ q.ram[rr].end \in Nat
          /\ q.ram[rr].end + q.align + Need <= MaxAddr
          /\ area.end <= q.ram[rr].end /\ p.begin <= p.end
      BY <1>0, <2>2, Numbers, RegionBounds, RoomFacts, CallFacts DEF TypeOK, AreaInside
    <3>2. ~Up => area.end >= Need - 1 \/ y.end <= area.end
      BY <1>0, <2>2 DEF AreaInside
    <3> HIDE DEF y, p
    <3>3. IF Up THEN p.begin <= at' /\ at' + q.align + Need <= MaxAddr + 1
                ELSE at' <= p.end /\ at' >= Need - 1
      <4>1. CASE Up
        <5>1. p.end <= area.end /\ at' = p.begin
          BY <2>1, <2>2, <3>1, <4>1 DEF Smaller
        <5>2. p.begin + q.align + Need <= q.ram[rr].end + q.align + Need
          BY <3>1, <5>1
        <5> QED BY <3>1, <4>1, <5>1, <5>2
      <4>2. CASE ~Up
        BY <2>1, <2>2, <3>1, <3>2, <4>2 DEF Larger, Smaller
      <4> QED BY <4>1, <4>2
    <3>4. Found' # 0 /\ part' = Intersect(q.sysalloc[Found], area)'
      <4>1. q' = q /\ area' = area
        BY <2>1
      <4> QED BY <1>3, <2>1, <2>3, <4>1 DEF p, y
    <3> QED BY <2>1, <2>3, <3>3, <3>4 DEF PartInside
  <2>6. Frame'
    BY <2>1, <2>3, <2>4, <2>5 DEF Frame
  <2>7. ASSUME NEW h \in Holes, NEW i \in 1..Len(q.ram), Fits(q.ram[i], h)
        PROVE  Reached(h, i)'
    <3>1. Reached(h, i)
      BY <2>7 DEF NothingMissed
    <3>2. ~Passed(i)'
      BY <2>1, <2>3, <3>1 DEF Passed, Reached
    <3>3. i = rr => Fits(area, h)'
      BY <1>0, <2>1, <2>3, <3>1 DEF Reached, Fits, InLoops
    <3>4. Fits(part, h)' => IF Up THEN at' <= h ELSE h + Need - 1 <= at'
      BY <2>1, <2>3 DEF Fits
    <3> QED BY <2>1, <2>3, <3>1, <3>2, <3>3, <3>4 DEF Reached
  <2>8. NothingMissed'
    BY <2>1, <2>7, StillAhead
  <2> QED BY <2>1, <2>6, <2>8
<1> QED BY <1>2, <1>3

-----------------------------------------------------------------------------
(* One iteration of find_free() and find_free_rev() *)

\* Where the part that is tried lies, and what may still be in it.
LEMMA PartFacts ==
  ASSUME TypeOK, Indexed, Roomy, Frame, NothingMissed, pc = "try"
  PROVE  /\ rr \in 1..Len(q.ram) /\ AreaInside /\ PartInside
         /\ Found \in 1..Len(q.sysalloc)
         /\ part.begin = Larger(q.sysalloc[Found].begin, area.begin)
         /\ part.end = Smaller(q.sysalloc[Found].end, area.end)
         /\ MinAddr >= 1 /\ MinAddr <= part.begin /\ part.end <= q.ram[rr].end
         /\ \A h \in Holes : Fits(q.ram[rr], h) => Fits(area, h)
         /\ \A h \in Holes : Fits(q.ram[rr], h) /\ Fits(part, h) =>
              IF Up THEN at <= h ELSE h + Need - 1 <= at
<1>1. rr \in 1..Len(q.ram) /\ AreaInside /\ PartInside
  BY DEF Indexed, InLoops, Frame
<1>2. /\ Found \in 1..Len(q.sysalloc)
      /\ part.begin = Larger(q.sysalloc[Found].begin, area.begin)
      /\ part.end = Smaller(q.sysalloc[Found].end, area.end)
  BY <1>1, FoundShape DEF PartInside
<1>3. MinAddr >= 1 /\ MinAddr <= part.begin /\ part.end <= q.ram[rr].end
  <2> DEFINE e == q.ram[rr].end
  <2>1. /\ MinAddr >= 1 /\ MinAddr \in Nat /\ MinAddr <= area.begin
        /\ area.end <= e /\ e \in Nat
        /\ area.begin \in Nat /\ area.end \in Nat
        /\ part.begin \in Nat /\ part.end \in Nat
        /\ q.sysalloc[Found].begin \in Nat /\ q.sysalloc[Found].end \in Nat
    BY <1>1, <1>2, CallFacts, Numbers DEF TypeOK, AreaInside
  <2>2. area.begin <= part.begin /\ part.end <= area.end
    BY <1>2, <2>1 DEF Larger, Smaller
  <2> HIDE DEF e
  <2>3. MinAddr >= 1 /\ MinAddr <= part.begin /\ part.end <= e
    BY <2>1, <2>2
  <2> QED BY <2>3 DEF e
<1>4. ASSUME NEW h \in Holes, Fits(q.ram[rr], h)
      PROVE  Fits(area, h) /\ (Fits(part, h) => IF Up THEN at <= h ELSE h + Need - 1 <= at)
  <2>1. Reached(h, rr)
    BY <1>1, <1>4 DEF NothingMissed
  <2> QED BY <2>1 DEF Reached, InLoops
<1> QED BY <1>1, <1>2, <1>3, <1>4

\* The piece that is tried neither wraps nor passes a hole: it is the nearest
\* aligned one in the direction of the search.
LEMMA CandidateFacts ==
  ASSUME TypeOK, Indexed, Roomy, Frame, NothingMissed, pc = "try"
  PROVE  LET a == Candidate IN
         /\ a \in Nat /\ a % q.align = 0
         /\ a + Need - 1 <= MaxAddr /\ Word(a + Need - 1) = a + Need - 1
         /\ IF Up THEN at <= a ELSE a + Need - 1 <= at
         /\ ~Exhausted <=> Fits(part, a)
         /\ \A h \in Holes : Fits(q.ram[rr], h) /\ Fits(part, h) =>
              IF Up THEN a <= h ELSE h <= a
<1> DEFINE a == Candidate
<1>1. /\ at \in Nat /\ at <= MaxAddr /\ MaxAddr \in Nat /\ q.align \in Nat \ {0}
      /\ Need \in Nat /\ Need >= 2 /\ Need <= MaxAddr
      /\ part.begin \in Nat /\ part.end \in Nat
  BY Numbers, CallFacts, RoomFacts DEF TypeOK, Addr
<1>2. IF Up THEN part.begin <= at /\ at + q.align + Need <= MaxAddr + 1
            ELSE at <= part.end /\ at >= Need - 1
  BY PartFacts DEF PartInside
<1>3. /\ a \in Nat /\ a % q.align = 0
      /\ IF Up THEN at <= a /\ a < at + q.align
               ELSE a <= at - (Need - 1) /\ at - (Need - 1) < a + q.align
  <2>1. CASE Up
    <3>1. at + q.align - 1 <= MaxAddr
      BY <1>1, <1>2, <2>1
    <3> QED BY <1>1, <2>1, <3>1, RoundBounds DEF Candidate
  <2>2. CASE ~Up
    <3> DEFINE x == at - (Need - 1)
    <3>1. x \in Nat /\ x <= MaxAddr
      BY <1>1, <1>2, <2>2
    <3>2. Word(x) = x
      BY <1>1, <3>1 DEF Word
    <3>3. a = TruncSize(x, q.align)
      BY <2>2, <3>2 DEF Candidate
    <3> HIDE DEF x, a
    <3>4. a \in Nat /\ a <= x /\ x < a + q.align /\ a % q.align = 0
      BY <1>1, <3>1, <3>3, TruncBounds
    <3> QED BY <2>2, <3>4 DEF x
  <2> QED BY <2>1, <2>2
<1> HIDE DEF a
<1>4. a + Need - 1 \in Nat /\ a + Need - 1 <= MaxAddr
  BY <1>1, <1>2, <1>3
<1>5. Word(a + Need - 1) = a + Need - 1
  BY <1>1, <1>4 DEF Word
<1>6. IF Up THEN at <= a ELSE a + Need - 1 <= at
  BY <1>1, <1>3
<1>7. ~Exhausted <=> Fits(part, a)
  <2>1. Exhausted <=> IF Up THEN a + Need - 1 > part.end ELSE a < part.begin
    BY <1>5 DEF Exhausted, a
  <2> QED BY <1>1, <1>2, <1>3, <1>6, <2>1 DEF Fits
<1>8. ASSUME NEW h \in Holes, Fits(q.ram[rr], h), Fits(part, h)
      PROVE  IF Up THEN a <= h ELSE h <= a
  <2>1. h \in Nat /\ h % q.align = 0 /\ IF Up THEN at <= h ELSE h + Need - 1 <= at
    BY <1>8, HoleFacts, PartFacts
  <2>2. CASE Up
    <3>1. a < h + q.align
      BY <1>1, <1>3, <2>1, <2>2
    <3> QED BY <1>1, <1>3, <2>1, <2>2, <3>1, MultiplesApart
  <2>3. CASE ~Up
    <3>1. h < a + q.align
      BY <1>1, <1>3, <2>1, <2>3
    <3> QED BY <1>1, <1>3, <2>1, <2>3, <3>1, MultiplesApart
  <2> QED BY <2>2, <2>3
<1> QED BY <1>3, <1>4, <1>5, <1>6, <1>7, <1>8 DEF a

\* The rest of the search area is looked at when the part has no hole.
LEMMA NextPartKept ==
  ASSUME TypeOK, Indexed, Roomy, Frame, NothingMissed, pc = "try", NextPart,
         ASSUME NEW h \in Holes, Fits(q.ram[rr], h) PROVE ~Fits(part, h)
  PROVE  pc' \notin {"failed", "done"} /\ Frame' /\ NothingMissed'
<1> DEFINE y == q.sysalloc[Found]
           next == IF Up THEN Word(part.end + 1) ELSE Word(part.begin - 1)
           last == IF Up THEN next > area.end \/ next < part.end ELSE next < area.begin
<1>1. /\ rr \in 1..Len(q.ram) /\ Found \in 1..Len(q.sysalloc)
      /\ part = Intersect(y, area)
      /\ part.begin = Larger(y.begin, area.begin) /\ part.end = Smaller(y.end, area.end)
      /\ MinAddr >= 1 /\ MinAddr <= part.begin /\ part.end <= q.ram[rr].end
      /\ y.begin \in Nat /\ y.end \in Nat /\ y.begin <= y.end
      /\ area.begin \in Nat /\ area.end \in Nat /\ area.begin <= area.end
      /\ part.begin \in Nat /\ part.end \in Nat /\ part.begin <= part.end
      /\ MinAddr \in Nat /\ MaxAddr \in Nat /\ Need \in Nat /\ Need >= 2
  BY PartFacts, Numbers, CallFacts, RoomFacts DEF TypeOK, PartInside
<1>2. next = IF Up THEN part.end + 1 ELSE part.begin - 1
  <2>1. part.end + 1 \in Nat /\ part.end + 1 <= MaxAddr
    <3> DEFINE e == q.ram[rr].end
    <3>1. /\ e \in Nat /\ q.align \in Nat \ {0} /\ part.end <= e
          /\ e + q.align + Need <= MaxAddr
      BY <1>1, Numbers, CallFacts, RoomFacts DEF TypeOK
    <3> HIDE DEF e
    <3> QED BY <1>1, <3>1, SMTT(30)
  <2>2. part.begin - 1 \in Nat /\ part.begin - 1 <= MaxAddr
    BY <1>1, <2>1, SMTT(30)
  <2> QED BY <2>1, <2>2, WordSame
<1> HIDE DEF next
<1>3. ASSUME NEW h \in Holes, Fits(q.ram[rr], h)
      PROVE  /\ h \in Nat /\ Fits(area, h)
             /\ IF Up THEN y.end < h ELSE h + Need - 1 < y.begin
  <2>1. Fits(area, h) /\ ~Fits(part, h) /\ h \in Nat
    BY <1>3, PartFacts, HoleFacts
  <2> QED BY <1>1, <2>1, PartFirst
<1>4. CASE last
  <2>1. NextRam /\ pc' = "ram" /\ UNCHANGED <<q, bound, area, part, at, result>>
    BY <1>4 DEF NextPart, next
  <2>2. ASSUME NEW h \in Holes PROVE ~Fits(q.ram[rr], h)
    <3> SUFFICES ASSUME Fits(q.ram[rr], h) PROVE FALSE
      OBVIOUS
    <3>1. /\ h \in Nat /\ area.begin <= h /\ h + Need - 1 <= area.end
          /\ IF Up THEN y.end < h ELSE h + Need - 1 < y.begin
      BY <1>3 DEF Fits
    <3> HIDE DEF y
    <3> QED BY <1>1, <1>2, <1>4, <3>1 DEF Larger, Smaller
  <2> QED BY <1>1, <2>1, <2>2, BoundKept, NextRamKept
<1>5. CASE ~last
  <2>1. /\ area' = IF Up THEN [area EXCEPT !.begin = next] ELSE [area EXCEPT !.end = next]
        /\ pc' = "sysalloc" /\ UNCHANGED <<q, rr, bound, part, at, result>>
    BY <1>5 DEF NextPart, next
  <2>2. /\ area'.begin = IF Up THEN part.end + 1 ELSE area.begin
        /\ area'.end = IF Up THEN area.end ELSE part.begin - 1
    BY <1>2, <2>1 DEF TypeOK, Region
  <2>3. Up' = Up /\ Need' = Need /\ MinAddr' = MinAddr
    BY <2>1, SameCall
  <2>4. area.begin <= area'.begin /\ area'.end <= area.end
    <3> HIDE DEF y
    <3> QED BY <1>1, <1>2, <1>5, <2>2 DEF Larger, Smaller
  <2>5. AreaInside'
    <3>1. /\ MinAddr <= area'.begin /\ area'.end <= q.max
          /\ q.window.begin <= area'.begin /\ area'.end <= q.window.end
          /\ q.ram[rr].begin <= area'.begin /\ area'.end <= q.ram[rr].end
      <4> DEFINE r == q.ram[rr]
      <4>1. /\ q.max \in Nat /\ q.window.begin \in Nat /\ q.window.end \in Nat
            /\ r.begin \in Nat /\ r.end \in Nat
            /\ MinAddr \in Nat /\ area.begin \in Nat /\ area.end \in Nat
        BY <1>1, Numbers, CallFacts DEF TypeOK
      <4>2. /\ MinAddr <= area.begin /\ area.end <= q.max
            /\ q.window.begin <= area.begin /\ area.end <= q.window.end
            /\ r.begin <= area.begin /\ area.end <= r.end
        BY PartFacts DEF AreaInside
      <4>3. area'.begin \in Nat /\ area'.end \in Int
        BY <1>1, <2>2
      <4> HIDE DEF r
      <4>4. /\ MinAddr <= area'.begin /\ area'.end <= q.max
            /\ q.window.begin <= area'.begin /\ area'.end <= q.window.end
            /\ r.begin <= area'.begin /\ area'.end <= r.end
        BY <2>4, <4>1, <4>2, <4>3
      <4> QED BY <4>4 DEF r
    <3>2. ASSUME ~Up, NEW j \in 1..Len(q.sysalloc), Overlaps(q.sysalloc[j], area')
          PROVE  q.sysalloc[j].end <= area'.end
      <4>1. /\ q.sysalloc[j].begin \in Nat /\ q.sysalloc[j].end \in Nat
            /\ q.sysalloc[j].begin <= q.sysalloc[j].end /\ j \in Nat /\ Found \in Nat
        BY <1>1, Numbers
      <4>2. area'.end = part.begin - 1 /\ area'.begin = area.begin
        BY <2>2, <3>2
      <4>3. q.sysalloc[j].begin <= area'.end /\ area'.begin <= q.sysalloc[j].end
        BY <1>1, <3>2, <4>1, <4>2, SMTT(30) DEF Overlaps, Before
      <4>4. Overlaps(q.sysalloc[j], area)
        BY <1>1, <2>4, <4>1, <4>2, <4>3, SMTT(30) DEF Overlaps, Before
      <4>5. j <= Found
        BY <1>1, <3>2, <4>4, FoundShape
      <4>6. part.begin = y.begin
        <5> HIDE DEF y
        <5> QED BY <1>1, <1>2, <1>5, <3>2 DEF Larger
      <4>7. j # Found
        BY <1>1, <4>1, <4>2, <4>3, <4>6
      <4>8. q.sysalloc[j].end < y.begin
        BY <1>1, <4>1, <4>5, <4>7, Numbers
      <4> HIDE DEF y
      <4>9. area'.end = y.begin - 1
        BY <4>2, <4>6
      <4> QED BY <1>1, <4>1, <4>8, <4>9, SMTT(30)
    <3> QED BY <2>1, <2>3, <3>1, <3>2 DEF AreaInside
  <2>6. Frame'
    BY <2>1, <2>3, <2>5, BoundKept DEF Frame
  <2>7. ASSUME NEW h \in Holes, NEW i \in 1..Len(q.ram), Fits(q.ram[i], h)
        PROVE  Reached(h, i)'
    <3>1. Reached(h, i)
      BY <2>7 DEF NothingMissed
    <3>2. ~Passed(i)'
      BY <2>1, <2>3, <3>1 DEF Passed, Reached
    <3>3. i = rr => area'.begin <= h /\ h + Need - 1 <= area'.end
      <4> SUFFICES ASSUME i = rr PROVE area'.begin <= h /\ h + Need - 1 <= area'.end
        OBVIOUS
      <4>1. /\ h \in Nat /\ area.begin <= h /\ h + Need - 1 <= area.end
            /\ IF Up THEN y.end < h ELSE h + Need - 1 < y.begin
        BY <1>3, <2>7 DEF Fits
      <4> HIDE DEF y
      <4> QED BY <1>1, <2>2, <4>1 DEF Larger, Smaller
    <3> QED BY <2>1, <2>3, <3>1, <3>2, <3>3 DEF Reached, Fits
  <2>8. NothingMissed'
    BY <2>1, <2>7, StillAhead
  <2> QED BY <2>1, <2>6, <2>8
<1> QED BY <1>4, <1>5

\* A piece that fits and runs into no region is the best hole.
LEMMA AnswerBest ==
  ASSUME TypeOK, Indexed, Roomy, Frame, NothingMissed, pc = "try",
         Fits(part, Candidate),
         \A i \in 1..Len(q.regions) :
           q.regions[i].end < Candidate \/ q.regions[i].begin > Candidate + Need - 1
  PROVE  /\ Candidate \in Holes
         /\ \A h \in Holes : IF Up THEN Candidate <= h ELSE Candidate >= h
<1> DEFINE a == Candidate
           y == q.sysalloc[Found]
           r == q.ram[rr]
<1>1. /\ a \in Nat /\ a % q.align = 0
      /\ \A h \in Holes : Fits(r, h) /\ Fits(part, h) => IF Up THEN a <= h ELSE h <= a
  BY CandidateFacts
<1>2. /\ rr \in 1..Len(q.ram) /\ Found \in 1..Len(q.sysalloc)
      /\ part = Intersect(y, area)
      /\ part.begin = Larger(y.begin, area.begin) /\ part.end = Smaller(y.end, area.end)
      /\ MinAddr >= 1 /\ MinAddr <= area.begin /\ area.end <= q.max
      /\ q.window.begin <= area.begin /\ area.end <= q.window.end
      /\ r.begin <= area.begin /\ area.end <= r.end
      /\ \A h \in Holes : Fits(r, h) => Fits(area, h)
  BY PartFacts DEF PartInside, AreaInside
<1>3. /\ y.begin \in Nat /\ y.end \in Nat /\ r.begin \in Nat /\ r.end \in Nat
      /\ area.begin \in Nat /\ area.end \in Nat /\ part.begin \in Nat /\ part.end \in Nat
      /\ MinAddr \in Nat /\ Need \in Nat /\ Need >= 2 /\ q.max \in Nat
      /\ q.window.begin \in Nat /\ q.window.end \in Nat
  BY <1>2, Numbers, CallFacts, RoomFacts DEF TypeOK
<1>4. part.begin <= a /\ a + Need - 1 <= part.end
  BY DEF Fits
<1> HIDE DEF a, y, r
<1>5. area.begin <= a /\ a + Need - 1 <= area.end /\ y.begin <= a /\ a + Need - 1 <= y.end
  BY <1>1, <1>2, <1>3, <1>4, SMTT(30) DEF Larger, Smaller
<1>6. /\ a >= 1 /\ a >= MinAddr /\ a + Need - 1 <= q.max
      /\ q.window.begin <= a /\ a + Need - 1 <= q.window.end
      /\ r.begin <= a /\ a + Need - 1 <= r.end
  <2>1. a \in Nat
    BY <1>1
  <2>2. /\ MinAddr >= 1 /\ MinAddr <= area.begin /\ area.end <= q.max
        /\ q.window.begin <= area.begin /\ area.end <= q.window.end
        /\ r.begin <= area.begin /\ area.end <= r.end
    BY <1>2
  <2>3. a >= 1 /\ a >= MinAddr /\ a + Need - 1 <= q.max
    BY <1>3, <1>5, <2>1, <2>2, SMTT(30)
  <2>4. q.window.begin <= a /\ a + Need - 1 <= q.window.end
    BY <1>3, <1>5, <2>1, <2>2, SMTT(30)
  <2>5. r.begin <= a /\ a + Need - 1 <= r.end
    BY <1>3, <1>5, <2>1, <2>2
  <2> QED BY <2>3, <2>4, <2>5
<1>7. a \in Holes
  <2>1. Fits(q.ram[rr], a) /\ Fits(q.sysalloc[Found], a) /\ Fits(q.window, a)
    BY <1>5, <1>6 DEF Fits, y, r
  <2>2. \A i \in 1..Len(q.regions) :
          q.regions[i].end < a \/ q.regions[i].begin > a + Need - 1
    BY DEF a
  <2> QED BY <1>1, <1>2, <1>6, <2>1, <2>2, HoleMeans
<1>8. ASSUME NEW h \in Holes PROVE IF Up THEN a <= h ELSE a >= h
  <2>1. h \in Nat
    BY HoleFacts
  <2>2. PICK i \in 1..Len(q.ram) : Fits(q.ram[i], h)
    BY HoleFacts
  <2>3. ~Passed(i)
    BY <2>2 DEF NothingMissed, Reached
  <2>4. CASE i = rr
    <3>1. Fits(r, h) /\ Fits(area, h)
      BY <1>2, <2>2, <2>4 DEF r
    <3>2. CASE Fits(part, h)
      BY <1>1, <2>1, <3>1, <3>2
    <3>3. CASE ~Fits(part, h)
      <4>1. IF Up THEN y.end < h ELSE h + Need - 1 < y.begin
        BY <1>2, <3>1, <3>3, PartFirst DEF y
      <4> QED BY <1>1, <1>3, <1>5, <2>1, <4>1
    <3> QED BY <3>2, <3>3
  <2>5. CASE i # rr
    <3> DEFINE w == q.ram[i]
    <3>1. /\ w.begin \in Nat /\ w.end \in Nat /\ w.begin <= h /\ h + Need - 1 <= w.end
      BY <2>2, Numbers DEF Fits
    <3>2. IF Up THEN r.end < w.begin ELSE w.end < r.begin
      <4>1. IF Up THEN rr < i ELSE i < rr
        BY <2>3, <2>5, Numbers DEF Passed
      <4> QED BY <1>2, <4>1, Numbers DEF r
    <3> HIDE DEF w
    <3>3. a \in Nat /\ r.begin <= a /\ a + Need - 1 <= r.end
      BY <1>1, <1>6
    <3> QED BY <1>3, <2>1, <3>1, <3>2, <3>3, SMTT(30)
  <2> QED BY <2>4, <2>5
<1> QED BY <1>7, <1>8 DEF a

\* A piece that runs into a region in use sends the search to that region's
\* other side, and no hole lies in between.
LEMMA BeyondKept ==
  ASSUME TypeOK, Indexed, Roomy, Frame, NothingMissed, pc = "try",
         Fits(part, Candidate),
         NEW k \in 1..Len(q.regions),
         q.regions[k].begin <= Candidate + Need - 1, Candidate <= q.regions[k].end,
         at' = Beyond(q.regions[k]),
         UNCHANGED <<q, rr, bound, area, part, pc, result>>
  PROVE  Frame' /\ NothingMissed'
<1> DEFINE a == Candidate
           z == q.regions[k]
<1>1. /\ a \in Nat /\ a % q.align = 0
      /\ IF Up THEN at <= a ELSE a + Need - 1 <= at
      /\ \A h \in Holes :
           Fits(q.ram[rr], h) /\ Fits(part, h) => IF Up THEN a <= h ELSE h <= a
  BY CandidateFacts
<1>2. /\ z.begin \in Nat /\ z.end \in Nat /\ z.begin <= z.end
      /\ z.end + q.align + Need <= MaxAddr /\ (z.begin >= Need \/ z.end < q.align)
      /\ z.begin <= a + Need - 1 /\ a <= z.end
      /\ q.align \in Nat \ {0} /\ MaxAddr \in Nat /\ Need \in Nat /\ Need >= 2
      /\ at \in Nat /\ part.begin \in Nat /\ part.end \in Nat
      /\ MinAddr \in Nat
  BY CallFacts, Entries, RoomFacts, Numbers DEF TypeOK
<1>3. /\ rr \in 1..Len(q.ram) /\ AreaInside /\ PartInside
      /\ MinAddr >= 1 /\ MinAddr <= part.begin
  BY PartFacts
<1>4. part.begin <= a /\ a + Need - 1 <= part.end
  BY DEF Fits
<1>5. /\ Up' = Up /\ Need' = Need /\ MinAddr' = MinAddr
      /\ q' = q /\ rr' = rr /\ bound' = bound /\ area' = area /\ part' = part /\ pc' = pc
  BY SameCall
<1>6. at' = IF Up THEN Word(z.end + 1) ELSE Word(z.begin - 1)
  BY DEF Beyond
<1> HIDE DEF a, z
<1>7. z.end + 1 \in Nat /\ z.end + 1 <= MaxAddr
  BY <1>2
<1>8. CASE Up
  <2>1. at' = z.end + 1
    BY <1>6, <1>7, <1>8, WordSame
  <2>2. part.begin <= at' /\ at' + q.align + Need <= MaxAddr + 1
    <3>1. a \in Nat
      BY <1>1
    <3>2. part.begin <= at'
      BY <1>2, <1>4, <2>1, <3>1
    <3>3. at' + q.align + Need <= MaxAddr + 1
      BY <1>2, <2>1
    <3> QED BY <3>2, <3>3
  <2>3. ASSUME NEW h \in Holes, Fits(q.ram[rr], h), Fits(part, h) PROVE at' <= h
    <3>1. h \in Nat /\ a <= h
      BY <1>1, <1>8, <2>3, HoleFacts
    <3>2. z.end < h \/ z.begin > h + Need - 1
      BY HoleFacts DEF z
    <3> QED BY <1>1, <1>2, <2>1, <3>1, <3>2, SMTT(30)
  <2> QED
    <3>1. PartInside'
      BY <1>3, <1>5, <1>8, <2>2 DEF PartInside, Found
    <3>2. AreaInside'
      BY <1>3, <1>5 DEF AreaInside
    <3>3. Frame'
      BY <1>5, <3>1, <3>2 DEF Frame
    <3>4. ASSUME NEW h \in Holes, NEW i \in 1..Len(q.ram), Fits(q.ram[i], h)
          PROVE  Reached(h, i)'
      <4>1. Reached(h, i)
        BY <3>4 DEF NothingMissed
      <4>2. i = rr /\ Fits(part, h)' => at' <= h
        BY <1>5, <2>3, <3>4 DEF Fits
      <4> QED BY <1>5, <1>8, <4>1, <4>2 DEF Reached, Passed, InLoops, Fits
    <3> QED BY <1>5, <3>3, <3>4, StillAhead
<1>9. CASE ~Up
  <2>1. z.begin >= Need
    <3> SUFFICES ASSUME z.end < q.align PROVE FALSE
      BY <1>2
    <3>1. a < 0 + q.align /\ 0 \in Nat /\ 0 % q.align = 0
      BY <1>1, <1>2, SMTT(30)
    <3>2. a <= 0
      BY <1>1, <1>2, <3>1, MultiplesApart
    <3> QED BY <1>1, <1>2, <1>3, <1>4, <3>2
  <2>2. z.begin - 1 \in Nat /\ z.begin - 1 <= MaxAddr
    BY <1>2, <1>7, <2>1
  <2>3. at' = z.begin - 1
    BY <1>6, <1>9, <2>2, WordSame
  <2>4. at' <= part.end /\ at' >= Need - 1
    BY <1>1, <1>2, <1>4, <2>1, <2>3, SMTT(30)
  <2>5. ASSUME NEW h \in Holes, Fits(q.ram[rr], h), Fits(part, h)
        PROVE  h + Need - 1 <= at'
    <3>1. h \in Nat /\ h <= a
      BY <1>1, <1>9, <2>5, HoleFacts
    <3>2. z.end < h \/ z.begin > h + Need - 1
      BY HoleFacts DEF z
    <3> QED BY <1>1, <1>2, <2>3, <3>1, <3>2
  <2> QED
    <3>1. PartInside'
      BY <1>3, <1>5, <1>9, <2>4 DEF PartInside, Found
    <3>2. AreaInside'
      BY <1>3, <1>5 DEF AreaInside
    <3>3. Frame'
      BY <1>5, <3>1, <3>2 DEF Frame
    <3>4. ASSUME NEW h \in Holes, NEW i \in 1..Len(q.ram), Fits(q.ram[i], h)
          PROVE  Reached(h, i)'
      <4>1. Reached(h, i)
        BY <3>4 DEF NothingMissed
      <4>2. i = rr /\ Fits(part, h)' => h + Need - 1 <= at'
        BY <1>5, <2>5, <3>4 DEF Fits
      <4> QED BY <1>5, <1>9, <4>1, <4>2 DEF Reached, Passed, InLoops, Fits
    <3> QED BY <1>5, <3>3, <3>4, StillAhead
<1> QED BY <1>8, <1>9

\* One iteration answers with the best hole, or goes on and passes none.
LEMMA TryKept ==
  ASSUME TypeOK, Indexed, Roomy, Frame, NothingMissed, Try
  PROVE  /\ pc' # "failed"
         /\ pc' # "done" => Frame' /\ NothingMissed'
         /\ FindsBestHole'
<1> DEFINE a == Candidate
           hole == [part EXCEPT !.begin = a, !.end = Word(a + Need - 1)]
           z == Find(q.regions, hole)
<1>0. pc = "try"
  BY DEF Try
<1>1. /\ a \in Nat /\ a + Need - 1 <= MaxAddr /\ Word(a + Need - 1) = a + Need - 1
      /\ ~Exhausted <=> Fits(part, a)
      /\ \A h \in Holes : Fits(q.ram[rr], h) /\ Fits(part, h) =>
           IF Up THEN a <= h ELSE h <= a
  BY <1>0, CandidateFacts
<1>2. /\ Need \in Nat /\ Need >= 2 /\ MaxAddr \in Nat /\ Addr = 0..MaxAddr
      /\ MinAddr \in Nat /\ MinAddr >= 1 /\ MinAddr <= part.begin
      /\ part.begin \in Nat /\ part.end \in Nat /\ part \in Region
      /\ q.regions \in Seq(Region)
  BY <1>0, RoomFacts, CallFacts, PartFacts, Numbers DEF TypeOK
<1>3. hole.begin = a /\ hole.end = a + Need - 1 /\ hole \in Region
  <2>1. a \in Addr /\ a + Need - 1 \in Addr /\ a <= a + Need - 1
    BY <1>1, <1>2
  <2> HIDE DEF a
  <2> QED BY <1>1, <1>2, <2>1 DEF Region
<1>4. CASE Exhausted
  <2>1. NextPart
    BY <1>4 DEF Try
  <2>2. ASSUME NEW h \in Holes, Fits(q.ram[rr], h) PROVE ~Fits(part, h)
    <3> SUFFICES ASSUME part.begin <= h, h + Need - 1 <= part.end PROVE FALSE
      BY DEF Fits
    <3>1. h \in Nat /\ IF Up THEN a <= h ELSE h <= a
      BY <1>1, <2>2, HoleFacts DEF Fits
    <3>2. IF Up THEN a + Need - 1 > part.end ELSE a < part.begin
      BY <1>1, <1>4 DEF Exhausted
    <3> HIDE DEF a
    <3> QED BY <1>1, <1>2, <3>1, <3>2
  <2>3. pc' \notin {"failed", "done"} /\ Frame' /\ NothingMissed'
    BY <1>0, <2>1, <2>2, NextPartKept
  <2> QED BY <2>3 DEF FindsBestHole
<1>5. CASE ~Exhausted
  <2>1. Fits(part, a) /\ a # 0 /\ Need # 0 /\ a <= hole.end
    <3>1. Fits(part, a)
      BY <1>1, <1>5
    <3>2. part.begin <= a
      BY <3>1 DEF Fits
    <3> HIDE DEF a, hole
    <3> QED BY <1>1, <1>2, <1>3, <3>1, <3>2
  <2>2. ~(hole.end < a)
    <3> HIDE DEF a, hole
    <3> QED BY <1>1, <1>2, <1>3, <2>1
  <2>3. /\ z = 0 => Answer(a)
        /\ z # 0 => /\ at' = Beyond(q.regions[z])
                    /\ UNCHANGED <<q, rr, bound, area, part, pc, result>>
    BY <1>5, <2>1, <2>2 DEF Try
  <2>4. \/ z = 0 /\ \A i \in 1..Len(q.regions) : ~Overlaps(q.regions[i], hole)
        \/ z \in 1..Len(q.regions) /\ Overlaps(q.regions[z], hole)
    BY <1>2, <1>3, FindFinds
  <2>5. \A i \in 1..Len(q.regions) : q.regions[i].begin \in Nat /\ q.regions[i].end \in Nat
    BY <1>2, Entries
  <2> HIDE DEF hole, z
  <2>6. CASE z = 0
    <3>1. z \notin 1..Len(q.regions)
      BY <1>2, <2>6, Entries
    <3>2. \A i \in 1..Len(q.regions) : ~Overlaps(q.regions[i], hole)
      BY <2>4, <3>1
    <3>3. \A i \in 1..Len(q.regions) :
            q.regions[i].end < a \/ q.regions[i].begin > a + Need - 1
      <4> TAKE i \in 1..Len(q.regions)
      <4>1. ~Overlaps(q.regions[i], hole)
        BY <3>2
      <4> HIDE DEF a
      <4> QED BY <1>1, <1>2, <1>3, <2>5, <4>1 DEF Overlaps, Before
    <3>4. a \in Holes /\ \A h \in Holes : IF Up THEN a <= h ELSE a >= h
      BY <1>0, <2>1, <3>3, AnswerBest
    <3>5. result' = a /\ pc' = "done" /\ q' = q
      BY <2>3, <2>6 DEF Answer
    <3>6. Holes' = Holes /\ Up' = Up
      BY <3>5, SameCall
    <3> HIDE DEF a
    <3> QED BY <3>4, <3>5, <3>6 DEF FindsBestHole
  <2>7. CASE z # 0
    <3>1. z \in 1..Len(q.regions) /\ Overlaps(q.regions[z], hole)
      BY <2>4, <2>7
    <3>2. q.regions[z].begin <= a + Need - 1 /\ a <= q.regions[z].end
      <4> HIDE DEF a
      <4> QED BY <1>1, <1>2, <1>3, <2>5, <3>1 DEF Overlaps, Before
    <3>3. Frame' /\ NothingMissed'
      BY <1>0, <2>1, <2>3, <2>7, <3>1, <3>2, BeyondKept
    <3> QED BY <1>0, <2>3, <2>7, <3>3 DEF FindsBestHole
  <2> QED BY <2>6, <2>7
<1> QED BY <1>4, <1>5

-----------------------------------------------------------------------------
(* The theorem *)

\* A search starts with every hole ahead.
LEMMA SearchInvInit ==
  ASSUME Init
  PROVE  SearchInv
<1>1. q \in Searches /\ pc = "ram" /\ result = 0
  BY DEF Init
<1>2. /\ q.ram \in Seq(Region) /\ q.window \in Region /\ MinAddr \in Nat /\ q.max \in Nat
      /\ MinAddr <= q.max /\ q.max <= MaxAddr /\ Addr = 0..MaxAddr /\ MaxAddr \in Nat
      /\ Len(q.ram) \in Nat
  BY <1>1, CallFacts, Entries
<1>3. bound \in Addr /\ bound = IF Up THEN MinAddr ELSE q.max
  BY <1>2 DEF Init
<1>4. rr \in Nat /\ Indexed
  BY <1>1, <1>2 DEF Init, Indexed, InLoops
<1>5. TypeOK
  BY <1>1, <1>2, <1>3, <1>4 DEF Init, TypeOK
<1>6. ASSUME Roomy PROVE Frame /\ NothingMissed
  <2>1. Need \in Nat /\ q.max >= Need - 1
    BY <1>5, <1>6, RoomFacts
  <2>2. Frame
    BY <1>1, <1>2, <1>3, <2>1 DEF Frame, InLoops
  <2>3. ASSUME NEW h \in Holes, NEW i \in 1..Len(q.ram) PROVE Reached(h, i)
    <3>1. ~Passed(i)
      BY <1>2 DEF Passed, Init
    <3>2. IF Up THEN bound <= h ELSE h + Need - 1 <= bound
      BY <1>2, <1>3, <1>5, <1>6, HoleFacts
    <3> QED BY <1>1, <3>1, <3>2 DEF Reached, InLoops
  <2> QED BY <2>2, <2>3 DEF NothingMissed
<1> QED BY <1>1, <1>4, <1>5, <1>6 DEF SearchInv, FindsBestHole

\* Every step keeps the inductive invariant.
LEMMA SearchInvNext ==
  ASSUME SearchInv, [Next]_vars
  PROVE  SearchInv'
<1>1. TypeOK' /\ Indexed'
  BY TypesKept DEF SearchInv
<1>2. ASSUME Ram \/ Sysalloc \/ Try PROVE q' = q /\ pc \notin {"done", "failed"}
  BY <1>2 DEF Ram, Sysalloc, Try, Answer, Fail, NextRam, NextPart
<1>3. CASE Ram \/ Sysalloc \/ Try
  <2>1. Roomy' = Roomy
    BY <1>2, <1>3, SameCall
  <2>2. ASSUME Roomy
        PROVE  /\ pc' # "failed"
               /\ pc' # "done" => Frame' /\ NothingMissed'
               /\ FindsBestHole'
    <3>1. TypeOK /\ Indexed /\ Frame /\ NothingMissed
      BY <1>2, <1>3, <2>2 DEF SearchInv
    <3>2. CASE Ram
      BY <2>2, <3>1, <3>2, RamKept
    <3>3. CASE Sysalloc
      <4>1. pc' \notin {"failed", "done"} /\ Frame' /\ NothingMissed'
        BY <2>2, <3>1, <3>3, SysallocKept
      <4> QED BY <4>1 DEF FindsBestHole
    <3>4. CASE Try
      BY <2>2, <3>1, <3>4, TryKept
    <3> QED BY <1>3, <3>2, <3>3, <3>4
  <2> QED BY <1>1, <2>1, <2>2 DEF SearchInv
<1>4. CASE UNCHANGED vars
  <2>1. /\ q' = q /\ rr' = rr /\ bound' = bound /\ area' = area /\ part' = part
        /\ at' = at /\ pc' = pc /\ result' = result
    BY <1>4 DEF vars
  <2>2. /\ Up' = Up /\ Need' = Need /\ MinAddr' = MinAddr /\ Roomy' = Roomy
        /\ Holes' = Holes
    BY <2>1, SameCall
  <2>3. Frame' = Frame
    BY <2>1, <2>2 DEF Frame, InLoops, AreaInside, PartInside, Found
  <2>4. NothingMissed' = NothingMissed
    BY <2>1, <2>2 DEF NothingMissed, Reached, Passed, InLoops, Fits
  <2>5. FindsBestHole' = FindsBestHole
    BY <2>1, <2>2 DEF FindsBestHole
  <2> QED BY <1>1, <2>1, <2>2, <2>3, <2>4, <2>5 DEF SearchInv
<1> QED BY <1>3, <1>4 DEF Next, Step, Done

\* find_free_ram() and find_free_ram_rev() are sound whatever the lists, the
\* range, the size and the alignment: the types hold, no assertion of class
\* Region fails on the way, and the answer is the lowest, or the highest, hole
\* that there is, or 0 if there is none.
THEOREM SearchesRight == Spec => []SearchRight
<1>1. Init => SearchInv
  BY SearchInvInit
<1>2. SearchInv /\ [Next]_vars => SearchInv'
  BY SearchInvNext
<1>3. SearchInv => SearchRight
  BY DEF SearchInv, SearchRight, NeverAsserts, FindsBestHole
<1> QED BY <1>1, <1>2, <1>3, PTL DEF Spec

=============================================================================
