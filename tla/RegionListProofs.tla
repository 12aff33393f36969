-------------------------- MODULE RegionListProofs --------------------------
(***************************************************************************)
(* Proofs about the list machine of RegionList, for every capacity, word   *)
(* and page size, set of requests and pair of limits.                      *)
(***************************************************************************)
EXTENDS RegionList, RegionLemmas

\* The size of a region is a natural number below the word size.
LEMMA SizeBounds ==
  ASSUME NEW r \in Region
  PROVE  /\ Size(r) \in Nat
         /\ Size(r) <= r.end - r.begin + 1
<1>1. r.begin \in Nat /\ r.end \in Nat /\ r.begin <= r.end /\ r.end <= MaxAddr
  BY DEF Region, Addr
<1>2. r.end - r.begin + 1 \in Nat
  BY <1>1
<1> QED BY <1>2, WordInAddr DEF Size, Addr

\* What add() inserts of a region it does not drop is the region or a proper
\* initial part of it.
LEMMA FitsWithin ==
  ASSUME TypeOK, NEW r \in Region, ~ClipAsserts(r), ~Drops(r)
  PROVE  LET m == Cap(Clip(r)) IN
         m \in Region /\ m.begin = r.begin /\ m.end <= r.end /\ m.end <= AddrLimit /\ m.tag = r.tag
<1> DEFINE c == Clip(r)
           m == Cap(c)
<1> SUFFICES m \in Region /\ m.begin = r.begin /\ m.end <= r.end /\ m.end <= AddrLimit /\ m.tag = r.tag
  OBVIOUS
<1>1. /\ r \in [begin : Addr, end : Addr, tag : Tags]
      /\ r.begin \in Nat /\ r.end \in Nat /\ r.begin <= r.end /\ r.end <= MaxAddr
  BY DEF Region, Addr
<1>2. AddrLimit \in Nat /\ AddrLimit <= MaxAddr /\ r.begin <= AddrLimit
  BY WordAssumption, ListAssumption, <1>1 DEF Addr, Drops
<1>3. r.end > AddrLimit => r.begin < AddrLimit
  BY <1>1, <1>2 DEF ClipAsserts, Drops
<1>4. c \in Region /\ c.begin = r.begin /\ c.end <= r.end /\ c.end <= AddrLimit /\ c.tag = r.tag
  <2>1. CASE r.end > AddrLimit
    <3>1. c = [r EXCEPT !.end = AddrLimit - 1]
      BY <2>1 DEF Clip
    <3>2. AddrLimit - 1 \in Addr /\ r.begin <= AddrLimit - 1 /\ AddrLimit - 1 <= r.end
      BY WordAssumption, <1>1, <1>2, <1>3, <2>1 DEF Addr
    <3> QED BY <1>2, <3>1, <3>2, WithEnd
  <2>2. CASE ~(r.end > AddrLimit)
    BY <1>1, <1>2, <2>2 DEF Clip
  <2> QED BY <2>1, <2>2
<1> HIDE DEF c
<1>5. CASE Limited /\ Word(combined + Size(c)) > MaxCombined
  <2>1. combined \in Nat /\ MaxCombined \in Nat /\ combined < MaxCombined
    BY ListAssumption, <1>5 DEF TypeOK, Drops, Limited, Unlimited
  <2>2. Size(c) \in Nat /\ Size(c) <= c.end - c.begin + 1
    BY <1>4, SizeBounds
  <2>3. combined + Size(c) > MaxCombined
    <3>1. Word(combined + Size(c)) <= combined + Size(c)
      BY <2>1, <2>2, WordInAddr
    <3>2. Word(combined + Size(c)) \in Nat
      <4>1. combined + Size(c) \in Int
        BY <2>1, <2>2
      <4>2. Word(combined + Size(c)) \in Addr
        BY <4>1, WordInAddr
      <4> QED BY <4>2, WordAssumption DEF Addr
    <3> QED BY <1>5, <2>1, <2>2, <3>1, <3>2
  <2>4. c.begin \in Nat /\ c.end \in Nat /\ c.end <= MaxAddr
    BY <1>4 DEF Region, Addr
  <2>5. m = [c EXCEPT !.end = c.begin + MaxCombined - combined - 1]
    BY <1>5 DEF Cap
  <2>6. /\ c.begin + MaxCombined - combined - 1 \in Nat
        /\ c.begin <= c.begin + MaxCombined - combined - 1
        /\ c.begin + MaxCombined - combined - 1 <= c.end
    BY <2>1, <2>2, <2>3, <2>4
  <2>7. m \in Region /\ m.begin = c.begin /\ m.end <= c.end /\ m.tag = c.tag
    <3>1. c.begin + MaxCombined - combined - 1 \in Addr
      BY WordAssumption, <2>4, <2>6 DEF Addr
    <3> HIDE DEF m
    <3> QED BY <1>4, <2>5, <2>6, <3>1, WithEnd
  <2> QED BY <1>1, <1>2, <1>4, <2>4, <2>7 DEF Region, Addr
<1>6. CASE ~(Limited /\ Word(combined + Size(c)) > MaxCombined)
  BY <1>4, <1>6 DEF Cap
<1> QED BY <1>5, <1>6

-----------------------------------------------------------------------------
(* Type correctness *)

\* The values of mem and call between two calls have their types.
LEMMA Defaults == NoRegion \in Region /\ NoCall \in [op : Ops, r : Region]
BY WordAssumption, ListAssumption DEF NoRegion, NoCall, Region, Addr, PermTags, Ops

\* The pieces that sub() leaves of an entry are regions.
LEMMA SubParts ==
  ASSUME NEW c \in Region, NEW r \in Region, Encloses(c, r)
  PROVE  /\ c.begin # r.begin => /\ LowPart(c, r) \in Region
                                 /\ LowPart(c, r).begin = c.begin
                                 /\ LowPart(c, r).end = r.begin - 1
                                 /\ LowPart(c, r).tag = c.tag
         /\ c.end # r.end => /\ HighPart(c, r) \in Region
                             /\ HighPart(c, r).begin = r.end + 1
                             /\ HighPart(c, r).end = c.end
                             /\ HighPart(c, r).tag = c.tag
<1>1. /\ c.begin \in Nat /\ c.end \in Nat /\ c.end <= MaxAddr
      /\ r.begin \in Nat /\ r.end \in Nat /\ r.begin <= r.end
      /\ c.begin <= r.begin /\ r.end <= c.end
  BY DEF Region, Addr, Encloses
<1>2. ASSUME c.begin # r.begin
      PROVE  r.begin - 1 \in Addr /\ c.begin <= r.begin - 1
  BY WordAssumption, <1>1, <1>2 DEF Addr
<1>3. ASSUME c.end # r.end
      PROVE  r.end + 1 \in Addr /\ r.end + 1 <= c.end
  BY WordAssumption, <1>1, <1>3 DEF Addr
<1> QED BY <1>2, <1>3, WithEnd, WithBegin DEF LowPart, HighPart

\* A call that returns leaves the types in order.
LEMMA ReturnTypeOK ==
  ASSUME TypeOK, list' \in Seq(Region), combined' \in Nat, phase' \in Phases,
         squeezed' = squeezed, Return
  PROVE  TypeOK'
<1>1. <<>> \in Seq(Region)
  OBVIOUS
<1>2. snap' \in Seq(Region) /\ mem' \in Region /\ call' \in [op : Ops, r : Region]
  BY <1>1, Defaults DEF Return
<1>3. overlap' \in BOOLEAN
  BY Zenon DEF Return
<1>4. pc' \in Control /\ cur' \in Nat \ {0}
  BY DEF Return, Control
<1> QED BY <1>2, <1>3, <1>4 DEF TypeOK

\* The common part of all insertions keeps the types.
LEMMA StartAddTypeOK ==
  ASSUME TypeOK, NEW l \in Seq(Region), NEW r \in Region, NEW ov \in BOOLEAN,
         StartAdd(l, r, ov)
  PROVE  TypeOK'
<1> DEFINE m == Cap(Clip(r))
<1>1. CASE ClipAsserts(r)
  BY <1>1 DEF StartAdd, Halt, TypeOK, Control
<1>2. CASE ~ClipAsserts(r) /\ (Drops(r) \/ TooSmall(m))
  <2>1. list' = l /\ Return /\ UNCHANGED <<combined, phase, squeezed>>
    BY <1>2 DEF StartAdd
  <2> QED BY <2>1, ReturnTypeOK DEF TypeOK
<1>3. CASE ~ClipAsserts(r) /\ ~Drops(r) /\ ~TooSmall(m)
  <2>1. m \in Region
    BY <1>3, FitsWithin
  <2>2. /\ list' = l /\ mem' = m /\ overlap' = ov
        /\ pc' = IF Len(l) >= Capacity THEN "optimize" ELSE "insert"
        /\ squeezed' = (squeezed \/ (phase = "elf" /\ Len(l) >= Capacity))
        /\ UNCHANGED <<cur, call, snap, combined, phase>>
    BY <1>3 DEF StartAdd
  <2> HIDE DEF m
  <2>3. squeezed' \in BOOLEAN
    BY <2>2, Zenon DEF TypeOK
  <2>4. pc' \in Control
    BY <2>2 DEF Control
  <2> QED BY <2>1, <2>2, <2>3, <2>4 DEF TypeOK
<1> QED BY <1>1, <1>2, <1>3

\* The entry that optimize() extends over its successor is a region.
LEMMA MergedEntry ==
  ASSUME NEW c \in Region, NEW n \in Region, ~(n.end < c.begin)
  PROVE  /\ [c EXCEPT !.end = n.end] \in Region
         /\ [c EXCEPT !.end = n.end].begin = c.begin
         /\ [c EXCEPT !.end = n.end].end = n.end
         /\ [c EXCEPT !.end = n.end].tag = c.tag
<1>1. n.end \in Addr /\ c.begin <= n.end
  BY DEF Region, Addr
<1> QED BY <1>1, WithEnd

\* sub() keeps the types, whichever part of the entry remains.
LEMMA SubTypeOK ==
  ASSUME TypeOK, Sub
  PROVE  TypeOK'
<1> DEFINE r == call.r
           k == FindContaining(list, r)
           c == list[k]
           Becomes(l) == list' = l /\ Return /\ UNCHANGED <<combined, phase, squeezed>>
<1>1. r \in Region /\ list \in Seq(Region)
  BY DEF TypeOK
<1>2. ASSUME NEW l \in Seq(Region), Becomes(l)
      PROVE  TypeOK'
  BY <1>2, ReturnTypeOK DEF TypeOK
<1>3. CASE k = 0
  <2>1. Becomes(list)
    BY <1>3 DEF Sub
  <2> QED BY <1>1, <1>2, <2>1
<1>4. CASE k # 0
  <2>1. k \in 1..Len(list) /\ Encloses(c, r)
    BY <1>1, <1>4, FindContainingFinds
  <2>2. c \in Region
    BY <1>1, <2>1, ElementOfSeq
  <2>3. \/ Becomes(RemoveAt(list, k))
        \/ c.end # r.end /\ Becomes([list EXCEPT ![k] = HighPart(c, r)])
        \/ c.begin # r.begin /\ Becomes([list EXCEPT ![k] = LowPart(c, r)])
        \/ /\ c.begin # r.begin /\ c.end # r.end
           /\ StartAdd([list EXCEPT ![k] = LowPart(c, r)], HighPart(c, r), FALSE)
    BY <1>4 DEF Sub
  <2> HIDE DEF Becomes, c, k, r
  <2>4. CASE Becomes(RemoveAt(list, k))
    BY <1>1, <1>2, <2>1, <2>4, RemoveAtShape
  <2>5. c.end # r.end => HighPart(c, r) \in Region /\ [list EXCEPT ![k] = HighPart(c, r)] \in Seq(Region)
    BY <1>1, <2>1, <2>2, SubParts, ExceptSeq
  <2>6. c.begin # r.begin => [list EXCEPT ![k] = LowPart(c, r)] \in Seq(Region)
    BY <1>1, <2>1, <2>2, SubParts, ExceptSeq
  <2>7. FALSE \in BOOLEAN
    BY Zenon
  <2> QED BY <1>2, <2>3, <2>4, <2>5, <2>6, <2>7, StartAddTypeOK
<1> QED BY <1>3, <1>4

\* Every step of the list machine keeps the types: in particular every entry
\* that sub() shrinks or splits, that optimize() extends or that add() clips to
\* the limits remains a region with begin <= end.
LEMMA TypeOKStep == TypeOK /\ [Next]_vars => TypeOK'
<1> SUFFICES ASSUME TypeOK, [Next]_vars
             PROVE  TypeOK'
  OBVIOUS
<1>0. Len(list) \in Nat /\ DOMAIN list = 1..Len(list)
  BY LenProperties DEF TypeOK
<1>1. ASSUME NEW q \in Requests, Call(q) PROVE TypeOK'
  BY ListAssumption, <1>1 DEF Call, TypeOK, Control
<1>2. CASE BeginElf
  BY <1>2 DEF BeginElf, TypeOK, Phases
<1>3. CASE Add
  <2>1. StartAdd(list, call.r, FALSE) /\ call.r \in Region
    BY <1>3 DEF Add, TypeOK
  <2> QED BY <2>1, StartAddTypeOK, Zenon DEF TypeOK
<1>4. CASE AddElf
  <2>1. Halt \/ StartAdd(list, call.r, TRUE)
    BY <1>4 DEF AddElf
  <2>2. call.r \in Region
    BY DEF TypeOK
  <2>3. CASE Halt
    BY <2>3 DEF Halt, TypeOK, Control
  <2> QED BY <2>1, <2>2, <2>3, StartAddTypeOK, Zenon DEF TypeOK
<1>5. CASE Insert
  <2>1. CASE Halt
    BY <2>1 DEF Halt, TypeOK, Control
  <2>2. CASE ~InsertPanics
    <3>1. /\ list' = Placed(list, mem)
          /\ combined' = IF Limited THEN Word(combined + Size(mem)) ELSE combined
          /\ Return
          /\ UNCHANGED <<phase, squeezed>>
      BY <1>5, <2>2 DEF Insert
    <3>2. Placed(list, mem) \in Seq(Region)
      BY PlaceOfPlaces, InsertAtShape DEF TypeOK, Placed
    <3>3. combined' \in Nat
      <4>1. Size(mem) \in Nat /\ combined \in Nat
        BY SizeBounds DEF TypeOK
      <4> QED BY <3>1, <4>1, WordInAddr DEF Addr
    <3> QED BY <3>1, <3>2, <3>3, ReturnTypeOK DEF TypeOK
  <2> QED BY <1>5, <2>1, <2>2 DEF Insert
<1>6. CASE Optimize
  <2> DEFINE c == list[cur]
             n == list[cur + 1]
             l == [list EXCEPT ![cur] = [c EXCEPT !.end = n.end]]
  <2>1. CASE cur >= Len(list)
    <3>1. CASE mem # NoRegion
      BY <1>6, <2>1, <3>1, <1>0 DEF Optimize, TypeOK, Control
    <3>2. CASE mem = NoRegion
      <4>1. Return /\ UNCHANGED <<list, combined, phase, squeezed>>
        BY <1>0, <1>6, <2>1, <3>2 DEF Optimize, TypeOK
      <4> QED BY <4>1, ReturnTypeOK DEF TypeOK
    <3> QED BY <3>1, <3>2
  <2>2. CASE cur < Len(list) /\ Mergeable(c, n) /\ ~(n.end < c.begin)
    <3>1. /\ list' = RemoveAt(l, cur + 1)
          /\ UNCHANGED <<combined, phase, pc, cur, mem, overlap, call, snap, squeezed>>
      BY <1>0, <1>6, <2>2 DEF Optimize, TypeOK
    <3>2. /\ cur \in 1..Len(list) /\ cur + 1 \in 1..Len(list)
          /\ c \in Region /\ n \in Region
      BY <1>0, <2>2, ElementOfSeq DEF TypeOK
    <3>3. l \in Seq(Region) /\ Len(l) = Len(list)
      BY <2>2, <3>2, MergedEntry, ExceptSeq DEF TypeOK
    <3> HIDE DEF l
    <3>4. RemoveAt(l, cur + 1) \in Seq(Region)
      BY <3>2, <3>3, RemoveAtShape
    <3> QED BY <3>1, <3>4 DEF TypeOK
  <2>3. CASE cur < Len(list) /\ Mergeable(c, n) /\ n.end < c.begin
    <3>1. Halt
      BY <1>0, <1>6, <2>3 DEF Optimize, TypeOK
    <3> QED BY <3>1 DEF Halt, TypeOK, Control
  <2>4. CASE cur < Len(list) /\ ~Mergeable(c, n)
    BY <1>0, <1>6, <2>4 DEF Optimize, Advance, TypeOK
  <2>5. cur >= Len(list) \/ cur < Len(list)
    BY <1>0 DEF TypeOK
  <2> QED BY <2>1, <2>2, <2>3, <2>4, <2>5
<1>7. CASE Merge
  <2>1. /\ list' = [i \in DOMAIN list |-> IF list[i].tag \in ModTags
                                          THEN [list[i] EXCEPT !.tag = MergedTag]
                                          ELSE list[i]]
        /\ pc' = "optimize"
        /\ UNCHANGED <<combined, phase, cur, mem, overlap, call, snap, squeezed>>
    BY <1>7 DEF Merge
  <2>2. ASSUME NEW i \in DOMAIN list
        PROVE  [list[i] EXCEPT !.tag = MergedTag] \in Region /\ list[i] \in Region
    BY ListAssumption, <1>0, WithTag, ElementOfSeq DEF PermTags, TypeOK
  <2>3. list' \in Seq(Region)
    BY <1>0, <2>1, <2>2 DEF TypeOK
  <2> QED BY <2>1, <2>3 DEF TypeOK, Control
<1>8. CASE RemoveIf
  <2>1. CASE cur > Len(list)
    <3>1. Return /\ phase' = "run" /\ UNCHANGED <<list, combined, squeezed>>
      BY <1>0, <1>8, <2>1 DEF RemoveIf, TypeOK
    <3> QED BY <3>1, ReturnTypeOK DEF TypeOK, Phases
  <2>2. CASE cur <= Len(list)
    <3>1. \/ cur' = cur + 1 /\ list' = list
          \/ list' = RemoveAt(list, cur) /\ cur' = cur
      BY <1>0, <1>8, <2>2 DEF RemoveIf, Advance, TypeOK
    <3>2. cur \in 1..Len(list)
      BY <1>0, <2>2 DEF TypeOK
    <3>3. list' \in Seq(Region) /\ cur' \in Nat \ {0}
      BY <3>1, <3>2, RemoveAtShape DEF TypeOK
    <3>4. UNCHANGED <<combined, phase, pc, mem, overlap, call, snap, squeezed>>
      BY <1>0, <1>8, <2>2 DEF RemoveIf, TypeOK
    <3> QED BY <3>3, <3>4 DEF TypeOK
  <2> QED BY <1>0, <2>1, <2>2 DEF TypeOK
<1>9. CASE Sub
  BY <1>9, SubTypeOK
<1>10. CASE Halted
  BY <1>10 DEF Halted, vars, TypeOK
<1>11. CASE UNCHANGED vars
  BY <1>11 DEF vars, TypeOK
<1> QED BY <1>1, <1>2, <1>3, <1>4, <1>5, <1>6, <1>7, <1>8, <1>9, <1>10, <1>11 DEF Next, Step

\* The list machine begins with values of their types.
LEMMA InitTypeOK == Init => TypeOK
<1> SUFFICES ASSUME Init PROVE TypeOK
  OBVIOUS
<1>1. <<>> \in Seq(Region)
  OBVIOUS
<1>2. list \in Seq(Region) /\ snap \in Seq(Region) /\ mem \in Region
      /\ call \in [op : Ops, r : Region]
  BY <1>1, Defaults DEF Init
<1>3. overlap \in BOOLEAN /\ squeezed \in BOOLEAN
  BY Zenon DEF Init
<1>4. phase \in Phases /\ pc \in Control
  BY DEF Init, Phases, Control
<1>5. combined \in Nat /\ cur \in Nat \ {0}
  BY DEF Init
<1> QED BY <1>2, <1>3, <1>4, <1>5 DEF TypeOK

\* The list machine is type correct.
THEOREM TypeCorrect == Spec => []TypeOK
BY InitTypeOK, TypeOKStep, PTL DEF Spec

-----------------------------------------------------------------------------
(* The store is never overrun *)

\* The list is as long as before, or shorter, unless a step inserts a region;
\* and it inserts one only where there is room.
LEMMA LengthStep ==
  ASSUME TypeOK, [Next]_vars
  PROVE  Len(list') <= Len(list) \/ (~Full /\ Len(list') = Len(list) + 1)
<1> USE DEF Halt, Return
<1>0. /\ list \in Seq(Region) /\ Len(list) \in Nat /\ DOMAIN list = 1..Len(list)
      /\ call.r \in Region /\ mem \in Region /\ cur \in Nat \ {0}
  BY LenProperties DEF TypeOK
<1>1. ASSUME NEW l \in Seq(Region), Len(l) = Len(list), NEW r, NEW ov, StartAdd(l, r, ov)
      PROVE  Len(list') <= Len(list)
  BY <1>0, <1>1 DEF StartAdd
<1>2. CASE Add
  BY <1>0, <1>1, <1>2 DEF Add
<1>3. CASE AddElf
  <2>1. Halt \/ StartAdd(list, call.r, TRUE)
    BY <1>3, Zenon DEF AddElf
  <2>2. CASE StartAdd(list, call.r, TRUE)
    BY <1>0, <1>1, <2>2
  <2>3. CASE Halt
    BY <1>0, <2>3
  <2> QED BY <2>1, <2>2, <2>3
<1>4. CASE Insert
  <2>1. CASE ~InsertPanics
    <3>1. list' = InsertAt(list, PlaceOf(list, mem), mem) /\ ~Full
      BY <1>4, <2>1 DEF Insert, Placed, InsertPanics
    <3> QED BY <1>0, <3>1, PlaceOfPlaces, InsertAtShape
  <2> QED BY <1>0, <1>4, <2>1 DEF Insert
<1>5. CASE Optimize
  <2> DEFINE c == list[cur]
             n == list[cur + 1]
             l == [list EXCEPT ![cur] = [c EXCEPT !.end = n.end]]
  <2>1. \/ list' = list
        \/ cur < Len(list) /\ ~(n.end < c.begin) /\ list' = RemoveAt(l, cur + 1)
    BY <1>5 DEF Optimize
  <2>2. CASE cur < Len(list) /\ ~(n.end < c.begin) /\ list' = RemoveAt(l, cur + 1)
    <3>1. /\ cur \in 1..Len(list) /\ cur + 1 \in 1..Len(list)
          /\ c \in Region /\ n \in Region
      BY <1>0, <2>2, ElementOfSeq
    <3>2. l \in Seq(Region) /\ Len(l) = Len(list)
      BY <1>0, <2>2, <3>1, MergedEntry, ExceptSeq, SMTT(30)
    <3> HIDE DEF l
    <3>3. Len(RemoveAt(l, cur + 1)) = Len(l) - 1
      BY <3>1, <3>2, RemoveAtShape
    <3> QED BY <1>0, <2>2, <3>2, <3>3
  <2> QED BY <1>0, <2>1, <2>2
<1>6. CASE Merge
  <2>1. DOMAIN list' = DOMAIN list /\ list' \in Seq(Region)
    BY <1>6, TypeOKStep DEF Merge, TypeOK
  <2>2. Len(list') \in Nat /\ 1..Len(list') = 1..Len(list)
    BY <1>0, <2>1, LenProperties
  <2>3. CASE Len(list') > Len(list)
    <3>1. Len(list') \in 1..Len(list')
      BY <1>0, <2>2, <2>3
    <3> QED BY <1>0, <2>2, <2>3, <3>1
  <2> QED BY <1>0, <2>2, <2>3
<1>7. CASE RemoveIf
  <2>1. \/ list' = list
        \/ cur <= Len(list) /\ list' = RemoveAt(list, cur)
    BY <1>7 DEF RemoveIf
  <2>2. CASE cur <= Len(list) /\ list' = RemoveAt(list, cur)
    <3>1. cur \in 1..Len(list)
      BY <1>0, <2>2
    <3> QED BY <1>0, <2>2, <3>1, RemoveAtShape
  <2> QED BY <1>0, <2>1, <2>2
<1>8. CASE Sub
  <2> DEFINE r == call.r
             k == FindContaining(list, r)
             c == list[k]
  <2>1. CASE k = 0
    BY <1>0, <1>8, <2>1 DEF Sub
  <2>2. CASE k # 0
    <3>1. k \in 1..Len(list) /\ Encloses(c, r)
      BY <1>0, <2>2, FindContainingFinds
    <3>2. c \in Region
      BY <1>0, <3>1, ElementOfSeq
    <3>3. \/ list' = RemoveAt(list, k)
          \/ c.end # r.end /\ list' = [list EXCEPT ![k] = HighPart(c, r)]
          \/ c.begin # r.begin /\ list' = [list EXCEPT ![k] = LowPart(c, r)]
          \/ /\ c.begin # r.begin /\ c.end # r.end
             /\ StartAdd([list EXCEPT ![k] = LowPart(c, r)], HighPart(c, r), FALSE)
      BY <1>8, <2>2 DEF Sub
    <3> HIDE DEF c, k, r
    <3>4. c.end # r.end => Len([list EXCEPT ![k] = HighPart(c, r)]) = Len(list)
      <4>1. c.end # r.end => HighPart(c, r) \in Region
        BY <1>0, <3>1, <3>2, SubParts DEF r
      <4> QED BY <1>0, <3>1, <4>1, ExceptSeq
    <3>5. c.begin # r.begin => /\ [list EXCEPT ![k] = LowPart(c, r)] \in Seq(Region)
                               /\ Len([list EXCEPT ![k] = LowPart(c, r)]) = Len(list)
      <4>1. c.begin # r.begin => LowPart(c, r) \in Region
        BY <1>0, <3>1, <3>2, SubParts DEF r
      <4> QED BY <1>0, <3>1, <4>1, ExceptSeq
    <3>6. Len(RemoveAt(list, k)) = Len(list) - 1
      BY <1>0, <3>1, RemoveAtShape
    <3>7. CASE c.begin # r.begin /\ StartAdd([list EXCEPT ![k] = LowPart(c, r)], HighPart(c, r), FALSE)
      BY <1>1, <3>5, <3>7
    <3>8. CASE list' = RemoveAt(list, k)
      BY <1>0, <3>6, <3>8
    <3>9. CASE c.end # r.end /\ list' = [list EXCEPT ![k] = HighPart(c, r)]
      BY <1>0, <3>4, <3>9
    <3>10. CASE c.begin # r.begin /\ list' = [list EXCEPT ![k] = LowPart(c, r)]
      BY <1>0, <3>5, <3>10
    <3> QED BY <3>3, <3>7, <3>8, <3>9, <3>10
  <2> QED BY <2>1, <2>2
<1>9. CASE list' = list
  BY <1>0, <1>9
<1>10. (\E q \in Requests : Call(q)) \/ BeginElf \/ Halted \/ UNCHANGED vars => list' = list
  BY DEF Call, BeginElf, Halted, vars
<1> QED BY <1>2, <1>3, <1>4, <1>5, <1>6, <1>7, <1>8, <1>9, <1>10 DEF Next, Step

\* The store of the list is never overrun, whatever calls are made.
THEOREM StoreNeverOverrun == Spec => []StoreBound
<1>1. Init => StoreBound
  BY ListAssumption DEF Init, StoreBound
<1>2. TypeOK /\ TypeOK' /\ StoreBound /\ [Next]_vars => StoreBound'
  <2> SUFFICES ASSUME TypeOK, TypeOK', StoreBound, [Next]_vars
               PROVE  StoreBound'
    OBVIOUS
  <2>1. Len(list) \in Nat /\ Len(list') \in Nat
    BY LenProperties DEF TypeOK
  <2> QED BY ListAssumption, <2>1, LengthStep DEF StoreBound, Full
<1> QED BY <1>1, <1>2, TypeCorrect, PTL DEF Spec

-----------------------------------------------------------------------------
(* The address limit *)

Below(l) == \A i \in DOMAIN l : l[i].end <= AddrLimit

\* The inductive strengthening of AddressesKept.
LimitInv == Below(list) /\ mem.end <= AddrLimit

\* Removing, inserting and replacing entries that lie below the limit
LEMMA BelowKept ==
  ASSUME NEW l \in Seq(Region), Below(l)
  PROVE  /\ \A i \in 1..Len(l) : Below(RemoveAt(l, i))
         /\ \A r \in Region : r.end <= AddrLimit => Below(Placed(l, r))
         /\ \A i \in 1..Len(l), r \in Region : r.end <= AddrLimit => Below([l EXCEPT ![i] = r])
<1>1. Len(l) \in Nat /\ DOMAIN l = 1..Len(l)
  BY LenProperties
<1>2. ASSUME NEW i \in 1..Len(l) PROVE Below(RemoveAt(l, i))
  <2>1. /\ RemoveAt(l, i) \in Seq(Region) /\ Len(RemoveAt(l, i)) = Len(l) - 1
        /\ \A j \in 1..Len(l) - 1 : RemoveAt(l, i)[j] = IF j < i THEN l[j] ELSE l[j + 1]
    BY RemoveAtShape
  <2>2. DOMAIN RemoveAt(l, i) = 1..(Len(l) - 1)
    BY <2>1, LenProperties
  <2>3. \A j \in 1..(Len(l) - 1) : j \in DOMAIN l /\ j + 1 \in DOMAIN l
    BY <1>1
  <2> QED BY <2>1, <2>2, <2>3 DEF Below
<1>3. ASSUME NEW r \in Region, r.end <= AddrLimit PROVE Below(Placed(l, r))
  <2> DEFINE p == PlaceOf(l, r)
             n == Len(l)
  <2>1. /\ DOMAIN Placed(l, r) = 1..(n + 1)
        /\ \A j \in 1..(n + 1) : Placed(l, r)[j] = IF j < p THEN l[j] ELSE IF j = p THEN r ELSE l[j - 1]
    BY PlacedShape
  <2>2. p \in 1..(n + 1)
    BY PlaceOfPlaces
  <2> HIDE DEF p, n
  <2>3. n \in Nat /\ DOMAIN l = 1..n
    BY <1>1 DEF n
  <2>4. \A j \in 1..(n + 1) : (j < p => j \in 1..n) /\ (j > p => j - 1 \in 1..n)
    BY <2>2, <2>3
  <2>5. ASSUME NEW j \in 1..(n + 1) PROVE Placed(l, r)[j].end <= AddrLimit
    <3>1. CASE j < p
      BY <2>1, <2>3, <2>4, <3>1 DEF Below
    <3>2. CASE j = p
      BY <1>3, <2>1, <2>2, <3>2
    <3>3. CASE j > p
      BY <2>1, <2>2, <2>3, <2>4, <3>3 DEF Below
    <3> QED BY <2>2, <3>1, <3>2, <3>3
  <2> QED BY <2>1, <2>5 DEF Below
<1>4. ASSUME NEW i \in 1..Len(l), NEW r \in Region, r.end <= AddrLimit
      PROVE  Below([l EXCEPT ![i] = r])
  BY <1>1, <1>4 DEF Below
<1> QED BY <1>2, <1>3, <1>4

\* Calls begin and end with no region at hand.
LEMMA NoRegionBelow == NoRegion.end <= AddrLimit
BY WordAssumption, ListAssumption DEF NoRegion, Addr

LEMMA StartAddBelow ==
  ASSUME TypeOK, LimitInv, NEW l \in Seq(Region), Below(l), NEW r \in Region, NEW ov,
         StartAdd(l, r, ov)
  PROVE  LimitInv'
<1> DEFINE m == Cap(Clip(r))
<1>1. CASE ClipAsserts(r)
  BY <1>1 DEF StartAdd, Halt, LimitInv, Below
<1>2. CASE ~ClipAsserts(r) /\ (Drops(r) \/ TooSmall(m))
  <2>1. list' = l /\ mem' = NoRegion
    BY <1>2 DEF StartAdd, Return
  <2> QED BY <2>1, NoRegionBelow DEF LimitInv, Below
<1>3. CASE ~ClipAsserts(r) /\ ~Drops(r) /\ ~TooSmall(m)
  <2>1. m.end <= AddrLimit
    BY <1>3, FitsWithin
  <2>2. list' = l /\ mem' = m
    BY <1>3 DEF StartAdd
  <2> HIDE DEF m
  <2> QED BY <2>1, <2>2 DEF LimitInv, Below
<1> QED BY <1>1, <1>2, <1>3

\* Every step keeps the entries below the limit: only add() brings addresses
\* in, and what optimize() and sub() write are ends of entries.
LEMMA LimitStep ==
  ASSUME TypeOK, LimitInv, [Next]_vars
  PROVE  LimitInv'
<1>0. /\ list \in Seq(Region) /\ Len(list) \in Nat /\ DOMAIN list = 1..Len(list)
      /\ call.r \in Region /\ mem \in Region /\ cur \in Nat \ {0} /\ Below(list)
      /\ mem.end <= AddrLimit
  BY LenProperties DEF TypeOK, LimitInv
<1>1. ASSUME Below(list'), mem' \in {mem, NoRegion} PROVE LimitInv'
  BY <1>0, <1>1, NoRegionBelow DEF LimitInv, Below
<1>2. CASE UNCHANGED <<list, mem>>
  BY <1>0, <1>2 DEF LimitInv, Below
<1>3. CASE Add
  BY <1>0, <1>3, StartAddBelow DEF Add
<1>4. CASE AddElf
  <2>1. Halt \/ StartAdd(list, call.r, TRUE)
    BY <1>4, Zenon DEF AddElf
  <2> QED BY <1>0, <1>2, <2>1, StartAddBelow DEF Halt
<1>5. CASE Insert
  <2>1. Halt \/ (list' = Placed(list, mem) /\ Return)
    BY <1>5, Zenon DEF Insert
  <2>2. Below(Placed(list, mem))
    BY <1>0, BelowKept
  <2> QED BY <1>1, <1>2, <2>1, <2>2 DEF Halt, Return
<1>6. CASE Optimize
  <2> DEFINE c == list[cur]
             n == list[cur + 1]
             m == [c EXCEPT !.end = n.end]
             l == [list EXCEPT ![cur] = m]
  <2>1. \/ list' = list
        \/ cur < Len(list) /\ ~(n.end < c.begin) /\ list' = RemoveAt(l, cur + 1)
    BY <1>6 DEF Optimize, Halt
  <2>2. mem' \in {mem, NoRegion}
    BY <1>6 DEF Optimize, Halt, Return
  <2>3. CASE cur < Len(list) /\ ~(n.end < c.begin) /\ list' = RemoveAt(l, cur + 1)
    <3>1. /\ cur \in 1..Len(list) /\ cur + 1 \in 1..Len(list)
          /\ c \in Region /\ n \in Region
      BY <1>0, <2>3, ElementOfSeq
    <3>2. m \in Region /\ m.end = n.end
      BY <2>3, <3>1, MergedEntry
    <3>3. n.end <= AddrLimit
      BY <1>0, <3>1 DEF Below
    <3> HIDE DEF m
    <3>4. l \in Seq(Region) /\ Len(l) = Len(list) /\ Below(l)
      BY <1>0, <3>1, <3>2, <3>3, ExceptSeq, BelowKept
    <3> HIDE DEF l
    <3>5. Below(RemoveAt(l, cur + 1))
      BY <3>1, <3>4, BelowKept
    <3> QED BY <1>1, <2>2, <2>3, <3>5
  <2> QED BY <1>0, <1>1, <2>1, <2>2, <2>3
<1>7. CASE Merge
  <2>1. /\ list' = [i \in DOMAIN list |-> IF list[i].tag \in ModTags
                                          THEN [list[i] EXCEPT !.tag = MergedTag]
                                          ELSE list[i]]
        /\ mem' = mem
    BY <1>7 DEF Merge
  <2>2. \A i \in DOMAIN list : [list[i] EXCEPT !.tag = MergedTag].end = list[i].end
    <3>1. \A i \in DOMAIN list : list[i] \in [begin : Addr, end : Addr, tag : Tags]
      BY <1>0, ElementOfSeq DEF Region
    <3> QED BY <3>1
  <2>3. Below(list')
    BY <1>0, <2>1, <2>2 DEF Below
  <2> QED BY <1>1, <2>1, <2>3
<1>8. CASE RemoveIf
  <2>1. \/ list' = list
        \/ cur <= Len(list) /\ list' = RemoveAt(list, cur)
    BY <1>8 DEF RemoveIf
  <2>2. mem' \in {mem, NoRegion}
    BY <1>8 DEF RemoveIf, Return
  <2>3. cur <= Len(list) => Below(RemoveAt(list, cur))
    BY <1>0, BelowKept
  <2> QED BY <1>0, <1>1, <2>1, <2>2, <2>3
<1>9. CASE Sub
  <2> DEFINE r == call.r
             k == FindContaining(list, r)
             c == list[k]
  <2>1. CASE k = 0
    BY <1>0, <1>1, <1>9, <2>1 DEF Sub, Return
  <2>2. CASE k # 0
    <3>1. k \in 1..Len(list) /\ Encloses(c, r)
      BY <1>0, <2>2, FindContainingFinds
    <3>2. c \in Region /\ c.end <= AddrLimit
      BY <1>0, <3>1, ElementOfSeq DEF Below
    <3>3. \/ list' = RemoveAt(list, k) /\ mem' = NoRegion
          \/ c.end # r.end /\ list' = [list EXCEPT ![k] = HighPart(c, r)] /\ mem' = NoRegion
          \/ c.begin # r.begin /\ list' = [list EXCEPT ![k] = LowPart(c, r)] /\ mem' = NoRegion
          \/ /\ c.begin # r.begin /\ c.end # r.end
             /\ StartAdd([list EXCEPT ![k] = LowPart(c, r)], HighPart(c, r), FALSE)
      BY <1>9, <2>2 DEF Sub, Return
    <3>4. /\ r.begin \in Nat /\ r.end \in Nat /\ r.begin <= r.end /\ r.end <= c.end
          /\ c.begin \in Nat /\ c.end \in Nat /\ AddrLimit \in Nat
      BY <1>0, <3>1, <3>2, ListAssumption, WordAssumption, RegionBounds DEF Encloses, Addr
    <3> HIDE DEF k, r
    <3>5. c.end # r.end => HighPart(c, r) \in Region /\ Below([list EXCEPT ![k] = HighPart(c, r)])
      <4>1. c.end # r.end => HighPart(c, r) \in Region /\ HighPart(c, r).end = c.end
        BY <1>0, <3>1, <3>2, SubParts DEF r
      <4> QED BY <1>0, <3>1, <3>2, <4>1, BelowKept
    <3>6. c.begin # r.begin => /\ [list EXCEPT ![k] = LowPart(c, r)] \in Seq(Region)
                               /\ Below([list EXCEPT ![k] = LowPart(c, r)])
      <4>1. c.begin # r.begin => LowPart(c, r) \in Region /\ LowPart(c, r).end = r.begin - 1
        BY <1>0, <3>1, <3>2, SubParts DEF r
      <4>2. c.begin # r.begin => LowPart(c, r).end <= AddrLimit
        BY <3>2, <3>4, <4>1
      <4> QED BY <1>0, <3>1, <4>1, <4>2, ExceptSeq, BelowKept
    <3>7. Below(RemoveAt(list, k))
      BY <1>0, <3>1, BelowKept
    <3> QED BY <1>1, <3>3, <3>5, <3>6, <3>7, StartAddBelow
  <2> QED BY <2>1, <2>2
<1>10. (\E q \in Requests : Call(q)) \/ BeginElf \/ Halted \/ UNCHANGED vars => UNCHANGED <<list, mem>>
  BY DEF Call, BeginElf, Halted, vars
<1> QED BY <1>2, <1>3, <1>4, <1>5, <1>6, <1>7, <1>8, <1>9, <1>10 DEF Next, Step

\* No entry ever reaches above the address limit of its list, whatever calls
\* are made and however small the store is: the list of RAM tells no one of
\* memory beyond the limit of the architecture.
THEOREM AddressLimitKept == Spec => []AddressesKept
<1>1. Init => LimitInv
  BY NoRegionBelow DEF Init, LimitInv, Below
<1>2. TypeOK /\ LimitInv /\ [Next]_vars => LimitInv'
  BY LimitStep
<1>3. LimitInv => AddressesKept
  BY DEF LimitInv, Below, AddressesKept
<1> QED BY <1>1, <1>2, <1>3, TypeCorrect, PTL DEF Spec

-----------------------------------------------------------------------------
(* Order and disjointness *)

\* Inserting keeps the order while ELF images are laid out: no collision check
\* is needed if the region overlaps no permanent entry.
LEMMA PlacedUpToTemps ==
  ASSUME NEW l \in Seq(Region), NEW r \in Region, SortedUpToTemps(l), Perm(r),
         \A i \in DOMAIN l : Perm(l[i]) => ~Overlaps(l[i], r)
  PROVE  SortedUpToTemps(Placed(l, r))
<1> DEFINE p == PlaceOf(l, r)
           k == Placed(l, r)
           n == Len(l)
           Ok(a, b) == \/ a.end < b.begin
                       \/ Perm(a) /\ ~Perm(b) /\ Overlaps(a, b)
<1>1. /\ n \in Nat /\ DOMAIN l = 1..n
      /\ \A i \in 1..n : l[i].begin \in Nat /\ l[i].end \in Nat /\ l[i].begin <= l[i].end
      /\ r.begin \in Nat /\ r.end \in Nat /\ r.begin <= r.end
  BY Entries, RegionBounds
<1>2. /\ p \in 1..(n + 1)
      /\ AppendsTo(l, r) => p = n + 1
      /\ ~AppendsTo(l, r) => /\ p \in 1..n
                             /\ ~Before(l[p], r)
                             /\ \A j \in 1..(p - 1) : Before(l[j], r)
  BY PlaceOfPlaces
<1>3. /\ DOMAIN k = 1..(n + 1)
      /\ \A j \in 1..(n + 1) : k[j] = IF j < p THEN l[j] ELSE IF j = p THEN r ELSE l[j - 1]
  BY PlacedShape
<1>4. \A i, j \in 1..n : i < j => Ok(l[i], l[j])
  BY <1>1 DEF SortedUpToTemps, Before
<1>5. \A i \in 1..n : Perm(l[i]) => l[i].end < r.begin \/ r.end < l[i].begin
  BY <1>1 DEF Overlaps, Before
<1>6. \A j \in 1..n : j < p => l[j].end < r.begin
  <2>1. CASE AppendsTo(l, r)
    <3>1. n # 0 => l[n].end < r.begin
      BY <1>1, <2>1 DEF AppendsTo, Before
    <3> HIDE DEF p, n
    <3>2. ASSUME NEW j \in 1..n, j < n
          PROVE  l[j].end < r.begin
      <4>1. Ok(l[j], l[n]) /\ n # 0
        BY <1>1, <1>4, <3>2
      <4>2. CASE l[j].end < l[n].begin
        BY <1>1, <3>1, <4>1, <4>2
      <4>3. CASE Perm(l[j]) /\ Overlaps(l[j], l[n])
        BY <1>1, <1>5, <3>1, <4>1, <4>3 DEF Overlaps, Before
      <4> QED BY <4>1, <4>2, <4>3
    <3> QED BY <1>1, <3>1, <3>2
  <2>2. CASE ~AppendsTo(l, r)
    BY <1>1, <1>2, <2>2 DEF Before
  <2> QED BY <2>1, <2>2
<1>7. \A j \in 1..n : j >= p => Ok(r, l[j])
  <2>1. CASE AppendsTo(l, r)
    BY <1>1, <1>2, <2>1
  <2>2. CASE ~AppendsTo(l, r)
    <3>1. p \in 1..n /\ ~(l[p].end < r.begin)
      BY <1>2, <2>2 DEF Before
    <3> HIDE DEF p, n
    <3>2. ASSUME NEW j \in 1..n, j >= p
          PROVE  ~(l[j].end < r.begin)
      <4>1. CASE j = p
        BY <3>1, <4>1
      <4>2. CASE j > p
        <5>1. Ok(l[p], l[j])
          BY <1>1, <1>4, <3>1, <4>2
        <5>2. CASE l[p].end < l[j].begin
          BY <1>1, <3>1, <5>2
        <5>3. CASE Perm(l[p]) /\ Overlaps(l[p], l[j])
          BY <1>1, <1>5, <3>1, <5>3 DEF Overlaps, Before
        <5> QED BY <5>1, <5>2, <5>3
      <4> QED BY <1>1, <3>1, <3>2, <4>1, <4>2
    <3>3. ASSUME NEW j \in 1..n, j >= p
          PROVE  Ok(r, l[j])
      BY <1>1, <1>5, <3>2, <3>3 DEF Overlaps, Before
    <3> QED BY <3>3
  <2> QED BY <2>1, <2>2
<1>8. \A i \in 1..n : i < p => Ok(l[i], r)
  BY <1>6
<1> HIDE DEF p, k, n, Ok
<1>9. ASSUME NEW i \in 1..(n + 1), NEW j \in 1..(n + 1), i < j
      PROVE  Ok(k[i], k[j])
  <2>1. CASE j < p
    <3>1. k[i] = l[i] /\ k[j] = l[j] /\ i \in 1..n /\ j \in 1..n
      BY <1>1, <1>2, <1>3, <1>9, <2>1
    <3> QED BY <1>4, <1>9, <3>1
  <2>2. CASE j = p
    <3>1. k[i] = l[i] /\ k[j] = r /\ i \in 1..n /\ i < p
      BY <1>1, <1>2, <1>3, <1>9, <2>2
    <3> QED BY <1>8, <3>1
  <2>3. CASE j > p
    <3>1. k[j] = l[j - 1] /\ j - 1 \in 1..n
      BY <1>1, <1>2, <1>3, <2>3
    <3>2. CASE i < p
      <4>1. k[i] = l[i] /\ i \in 1..n /\ i < j - 1
        BY <1>1, <1>2, <1>3, <2>3, <3>2
      <4> QED BY <1>4, <3>1, <4>1
    <3>3. CASE i = p
      <4>1. k[i] = r /\ j - 1 >= p
        BY <1>1, <1>2, <1>3, <2>3, <3>3
      <4> QED BY <1>7, <3>1, <4>1
    <3>4. CASE i > p
      <4>1. k[i] = l[i - 1] /\ i - 1 \in 1..n /\ i - 1 < j - 1
        BY <1>1, <1>2, <1>3, <1>9, <3>4
      <4> QED BY <1>4, <3>1, <4>1
    <3> QED BY <1>2, <3>2, <3>3, <3>4
  <2> QED BY <1>2, <2>1, <2>2, <2>3
<1> QED BY <1>3, <1>9 DEF SortedUpToTemps, Before, k, Ok

\* Removing an entry disturbs no order.
LEMMA RemovedSorted ==
  ASSUME NEW l \in Seq(Region), NEW i \in 1..Len(l)
  PROVE  /\ Ascending(l) => Ascending(RemoveAt(l, i))
         /\ SortedUpToTemps(l) => SortedUpToTemps(RemoveAt(l, i))
<1> DEFINE k == RemoveAt(l, i)
           At(j) == IF j < i THEN j ELSE j + 1
<1>1. Len(l) \in Nat /\ DOMAIN l = 1..Len(l)
  BY LenProperties
<1>2. /\ k \in Seq(Region) /\ Len(k) = Len(l) - 1
      /\ \A j \in 1..Len(l) - 1 : k[j] = IF j < i THEN l[j] ELSE l[j + 1]
  BY RemoveAtShape
<1>3. DOMAIN k = 1..(Len(l) - 1)
  BY <1>2, LenProperties
<1> HIDE DEF k
<1>4. \A j \in DOMAIN k : At(j) \in DOMAIN l /\ k[j] = l[At(j)]
  BY <1>1, <1>2, <1>3
<1>5. \A a, b \in DOMAIN k : a < b => At(a) < At(b)
  BY <1>1, <1>3
<1> HIDE DEF At
<1>6. Ascending(l) => Ascending(k)
  BY <1>4, <1>5 DEF Ascending
<1>7. SortedUpToTemps(l) => SortedUpToTemps(k)
  BY <1>4, <1>5 DEF SortedUpToTemps
<1> QED BY <1>6, <1>7 DEF k

\* Shrinking an entry keeps the list sorted.
LEMMA ShrunkSorted ==
  ASSUME NEW l \in Seq(Region), NEW i \in 1..Len(l), NEW r \in Region, Ascending(l),
         l[i].begin <= r.begin, r.end <= l[i].end
  PROVE  Ascending([l EXCEPT ![i] = r])
<1> DEFINE k == [l EXCEPT ![i] = r]
<1>1. /\ Len(l) \in Nat /\ DOMAIN l = 1..Len(l)
      /\ \A j \in 1..Len(l) : l[j].begin \in Nat /\ l[j].end \in Nat
      /\ r.begin \in Nat /\ r.end \in Nat
  BY Entries, RegionBounds
<1>2. DOMAIN k = DOMAIN l /\ \A j \in DOMAIN l : k[j] = IF j = i THEN r ELSE l[j]
  BY <1>1
<1> HIDE DEF k
<1>3. \A j \in DOMAIN l : /\ k[j].begin \in Nat /\ k[j].end \in Nat
                          /\ l[j].begin <= k[j].begin /\ k[j].end <= l[j].end
  BY <1>1, <1>2
<1>4. \A a, b \in DOMAIN l : a < b => l[a].end < l[b].begin
  BY DEF Ascending, Before
<1>5. \A a, b \in DOMAIN l : a < b => k[a].end < k[b].begin
  <2>1. ASSUME NEW a \in DOMAIN l, NEW b \in DOMAIN l, a < b PROVE k[a].end < k[b].begin
    <3>1. l[a].end < l[b].begin
      BY <1>4, <2>1
    <3>2. k[a].end <= l[a].end /\ l[b].begin <= k[b].begin /\ k[a].end \in Nat /\ k[b].begin \in Nat
      BY <1>3
    <3>3. l[a].end \in Nat /\ l[b].begin \in Nat
      BY <1>1
    <3> QED BY <3>1, <3>2, <3>3
  <2> QED BY <2>1
<1> QED BY <1>2, <1>5 DEF Ascending, Before, k

\* An iteration of optimize() that merges two neighbours keeps the list sorted.
LEMMA MergedSorted ==
  ASSUME NEW l \in Seq(Region), NEW i \in 1..Len(l), i + 1 \in 1..Len(l), Ascending(l),
         ~(l[i + 1].end < l[i].begin)
  PROVE  Ascending(RemoveAt([l EXCEPT ![i] = [l[i] EXCEPT !.end = l[i + 1].end]], i + 1))
<1> DEFINE m == [l[i] EXCEPT !.end = l[i + 1].end]
           e == [l EXCEPT ![i] = m]
           k == RemoveAt(e, i + 1)
           n == Len(l)
<1>1. /\ n \in Nat /\ DOMAIN l = 1..n
      /\ \A j \in 1..n : /\ l[j] \in Region /\ l[j].begin \in Nat /\ l[j].end \in Nat
                         /\ l[j].begin <= l[j].end
  BY Entries
<1>2. m \in Region /\ m.begin = l[i].begin /\ m.end = l[i + 1].end
  BY <1>1, MergedEntry
<1> HIDE DEF m
<1>3. e \in Seq(Region) /\ Len(e) = n /\ \A j \in 1..n : e[j] = IF j = i THEN m ELSE l[j]
  BY <1>2, ExceptSeq
<1> HIDE DEF e
<1>4. /\ k \in Seq(Region) /\ Len(k) = n - 1
      /\ \A j \in 1..n - 1 : k[j] = IF j < i + 1 THEN e[j] ELSE e[j + 1]
  BY <1>3, RemoveAtShape
<1>5. DOMAIN k = 1..(n - 1)
  BY <1>4, LenProperties
<1> HIDE DEF k, n
<1>6. \A a, b \in 1..n : a < b => l[a].end < l[b].begin
  BY <1>1 DEF Ascending, Before
<1>7. ASSUME NEW a \in 1..(n - 1), NEW b \in 1..(n - 1), a < b
      PROVE  k[a].end < k[b].begin
  <2>0. i \in Int /\ i >= 1 /\ i <= n
    BY DEF n
  <2>1. k[a].end = IF a < i THEN l[a].end ELSE l[a + 1].end
    <3>1. CASE a < i
      BY <1>1, <1>3, <1>4, <2>0, <3>1
    <3>2. CASE a = i
      BY <1>1, <1>2, <1>3, <1>4, <2>0, <3>2
    <3>3. CASE a > i
      <4>1. a + 1 \in 1..n /\ a + 1 # i /\ ~(a < i + 1)
        BY <1>1, <2>0, <3>3
      <4>2. k[a] = e[a + 1] /\ e[a + 1] = l[a + 1]
        BY <1>3, <1>4, <4>1
      <4> QED BY <2>0, <3>3, <4>2
    <3> QED BY <2>0, <3>1, <3>2, <3>3
  <2>2. k[b].begin = IF b <= i THEN l[b].begin ELSE l[b + 1].begin
    <3>1. CASE b < i
      BY <1>1, <1>3, <1>4, <2>0, <3>1
    <3>2. CASE b = i
      BY <1>1, <1>2, <1>3, <1>4, <2>0, <3>2
    <3>3. CASE b > i
      <4>1. b + 1 \in 1..n /\ b + 1 # i /\ ~(b < i + 1)
        BY <1>1, <2>0, <3>3
      <4>2. k[b] = e[b + 1] /\ e[b + 1] = l[b + 1]
        BY <1>3, <1>4, <4>1
      <4> QED BY <2>0, <3>3, <4>2
    <3> QED BY <2>0, <3>1, <3>2, <3>3
  <2>3. (a < i => a \in 1..n) /\ a + 1 \in 1..n /\ b \in 1..n /\ b + 1 \in 1..n
    BY <1>1
  <2> QED BY <1>1, <1>6, <1>7, <2>1, <2>2, <2>3
<1> QED BY <1>5, <1>7 DEF Ascending, Before, k, e, m

\* Between calls only the order of the list is at stake.
LEMMA AtRest ==
  ASSUME RegionsSorted', pc' \in {"idle", "halted"}, overlap' => phase' = "elf"
  PROVE  SortedInv'
BY DEF SortedInv, StepsInPhase, CheckedClear, PassedPerm

\* A panic changes nothing.
LEMMA HaltSorted ==
  ASSUME SortedInv, Halt
  PROVE  SortedInv'
<1>1. RegionsSorted' /\ pc' = "halted" /\ (overlap' => phase' = "elf")
  BY DEF RegionsSorted, Halt, SortedInv, StepsInPhase
<1> QED BY <1>1, AtRest

\* A region within r overlaps no more than r does.
LEMMA WithinClear ==
  ASSUME NEW c \in Region, NEW r \in Region, NEW m \in Region, ~Overlaps(c, r),
         m.begin = r.begin, m.end <= r.end
  PROVE  ~Overlaps(c, m)
BY RegionBounds DEF Overlaps, Before

\* What add() does up to the insertion keeps the invariant, provided that the
\* region was checked against the permanent entries in phase `elf'.
LEMMA StartAddSorted ==
  ASSUME TypeOK, SortedInv, NEW l \in Seq(Region), NEW r \in Region,
         NEW ov \in BOOLEAN, StartAdd(l, r, ov), ov => phase = "elf",
         ~squeezed => IF phase = "elf" THEN SortedUpToTemps(l) ELSE Ascending(l),
         phase = "elf" => Perm(r) /\ \A i \in DOMAIN l : Perm(l[i]) => ~Overlaps(l[i], r)
  PROVE  SortedInv'
<1> DEFINE m == Cap(Clip(r))
<1>1. CASE ClipAsserts(r)
  BY <1>1, HaltSorted DEF StartAdd
<1>2. CASE ~ClipAsserts(r) /\ (Drops(r) \/ TooSmall(m))
  <2>1. list' = l /\ Return /\ UNCHANGED <<combined, phase, squeezed>>
    BY <1>2 DEF StartAdd
  <2>2. RegionsSorted' /\ pc' = "idle" /\ ~overlap'
    BY <2>1 DEF RegionsSorted, Return
  <2> QED BY <2>2, AtRest
<1>3. CASE ~ClipAsserts(r) /\ ~Drops(r) /\ ~TooSmall(m)
  <2>1. m \in Region /\ m.begin = r.begin /\ m.end <= r.end /\ m.tag = r.tag
    BY <1>3, FitsWithin
  <2>2. /\ list' = l /\ mem' = m /\ phase' = phase /\ overlap' = ov
        /\ pc' = IF Len(l) >= Capacity THEN "optimize" ELSE "insert"
        /\ squeezed' = (squeezed \/ (phase = "elf" /\ Len(l) >= Capacity))
    BY <1>3 DEF StartAdd
  <2> HIDE DEF m
  <2>3. RegionsSorted'
    BY <2>2, Zenon DEF RegionsSorted
  <2>4. pc' = "optimize" => phase' # "elf" \/ squeezed'
    BY <2>2
  <2>5. pc' \in {"optimize", "insert"}
    BY <2>2
  <2>6. phase = "elf" => Perm(m) /\ \A i \in DOMAIN l : Perm(l[i]) => ~Overlaps(l[i], m)
    <3>1. \A i \in DOMAIN l : l[i] \in Region
      BY Entries
    <3> QED BY <2>1, <3>1, WithinClear DEF Perm
  <2>7. StepsInPhase'
    BY <2>2, <2>4, <2>5 DEF StepsInPhase
  <2>8. CheckedClear'
    BY <2>2, <2>5, <2>6 DEF CheckedClear, NoPermOverlap
  <2> QED BY <2>3, <2>5, <2>7, <2>8 DEF SortedInv, PassedPerm
<1> QED BY <1>1, <1>2, <1>3

\* sub() keeps the list sorted: the entry it finds only shrinks.
LEMMA SubSorted ==
  ASSUME TypeOK, SortedInv, Sub
  PROVE  SortedInv'
<1> DEFINE r == call.r
           k == FindContaining(list, r)
           c == list[k]
           Becomes(l) == list' = l /\ Return /\ UNCHANGED <<combined, phase, squeezed>>
<1>1. /\ r \in Region /\ list \in Seq(Region)
      /\ phase = "run" /\ RegionsSorted
  BY DEF TypeOK, SortedInv, StepsInPhase, Sub
<1>2. ASSUME NEW l, ~squeezed => Ascending(l), Becomes(l)
      PROVE  SortedInv'
  <2>1. RegionsSorted' /\ pc' = "idle" /\ ~overlap'
    BY <1>1, <1>2 DEF RegionsSorted, Return
  <2> QED BY <2>1, AtRest
<1>3. ~squeezed => Ascending(list)
  BY <1>1 DEF RegionsSorted
<1>4. CASE k = 0
  <2>1. Becomes(list)
    BY <1>4 DEF Sub
  <2> QED BY <1>2, <1>3, <2>1
<1>5. CASE k # 0
  <2>1. k \in 1..Len(list) /\ Encloses(c, r)
    BY <1>1, <1>5, FindContainingFinds
  <2>2. c \in Region
    BY <1>1, <2>1, ElementOfSeq
  <2>3. \/ Becomes(RemoveAt(list, k))
        \/ c.end # r.end /\ Becomes([list EXCEPT ![k] = HighPart(c, r)])
        \/ c.begin # r.begin /\ Becomes([list EXCEPT ![k] = LowPart(c, r)])
        \/ /\ c.begin # r.begin /\ c.end # r.end
           /\ StartAdd([list EXCEPT ![k] = LowPart(c, r)], HighPart(c, r), FALSE)
    BY <1>5 DEF Sub
  <2> HIDE DEF Becomes, k, r
  <2>4. CASE Becomes(RemoveAt(list, k))
    BY <1>1, <1>2, <1>3, <2>1, <2>4, RemovedSorted
  <2>5. /\ c.begin \in Nat /\ c.end \in Nat /\ r.begin \in Nat /\ r.end \in Nat
        /\ r.begin <= r.end /\ c.begin <= r.begin /\ r.end <= c.end
    BY <1>1, <2>1, <2>2, RegionBounds DEF Encloses
  <2>6. ASSUME c.end # r.end
        PROVE  /\ HighPart(c, r) \in Region
               /\ ~squeezed => Ascending([list EXCEPT ![k] = HighPart(c, r)])
    <3>1. /\ HighPart(c, r) \in Region /\ c.begin <= HighPart(c, r).begin
          /\ HighPart(c, r).end <= c.end
      BY <1>1, <2>1, <2>2, <2>5, <2>6, SubParts
    <3> QED BY <1>1, <1>3, <2>1, <3>1, ShrunkSorted
  <2>7. ASSUME c.begin # r.begin
        PROVE  /\ [list EXCEPT ![k] = LowPart(c, r)] \in Seq(Region)
               /\ ~squeezed => Ascending([list EXCEPT ![k] = LowPart(c, r)])
    <3>1. /\ LowPart(c, r) \in Region /\ c.begin <= LowPart(c, r).begin
          /\ LowPart(c, r).end <= c.end
      BY <1>1, <2>1, <2>2, <2>5, <2>7, SubParts
    <3> QED BY <1>1, <1>3, <2>1, <3>1, ShrunkSorted, ExceptSeq
  <2>8. CASE /\ c.begin # r.begin /\ c.end # r.end
             /\ StartAdd([list EXCEPT ![k] = LowPart(c, r)], HighPart(c, r), FALSE)
    <3>1. FALSE \in BOOLEAN
      BY Zenon
    <3> QED BY <1>1, <2>6, <2>7, <2>8, <3>1, StartAddSorted
  <2> QED BY <1>2, <2>3, <2>4, <2>6, <2>7, <2>8
<1> QED BY <1>4, <1>5

\* Every step keeps the strengthened invariant.
LEMMA SortedInvStep ==
  ASSUME TypeOK, SortedInv, [Next]_vars
  PROVE  SortedInv'
<1>0. /\ list \in Seq(Region) /\ Len(list) \in Nat /\ DOMAIN list = 1..Len(list)
      /\ \A i \in 1..Len(list) : list[i] \in Region
      /\ call.r \in Region /\ mem \in Region /\ cur \in Nat \ {0}
      /\ RegionsSorted
  BY Entries DEF TypeOK, SortedInv
<1>1. ASSUME NEW q \in Requests, Call(q) PROVE SortedInv'
  <2>1. /\ pc' = q.op /\ call' = q /\ cur' = 1
        /\ UNCHANGED <<list, phase, squeezed, overlap>>
        /\ Admissible(q)
    BY <1>1 DEF Call
  <2>2. q.op \in Ops /\ q.r \in Region /\ phase \in Phases
    BY ListAssumption DEF TypeOK
  <2>3. RegionsSorted'
    BY <1>0, <2>1 DEF RegionsSorted
  <2>4. StepsInPhase'
    BY <2>1, <2>2 DEF SortedInv, StepsInPhase, Admissible, Ops, Phases
  <2>5. CheckedClear'
    <3>1. q.op \in {"add_elf", "add_free"} => Perm(q.r)
      BY <2>1, <2>2 DEF Admissible, Phases
    <3>2. q.op = "add_free" => NoPermOverlap(q.r)
      <4>1. q.op = "add_free" => Find(list, q.r) = 0
        BY <2>1, <2>2 DEF Admissible, Phases
      <4>2. Find(list, q.r) = 0 => \A i \in 1..Len(list) : ~Overlaps(list[i], q.r)
        <5>1. LET k == Find(list, q.r) IN
              \/ k = 0 /\ \A i \in 1..Len(list) : ~Overlaps(list[i], q.r)
              \/ k \in 1..Len(list)
          BY <1>0, <2>2, FindFinds
        <5> QED BY <1>0, <5>1
      <4> QED BY <1>0, <4>1, <4>2 DEF NoPermOverlap
    <3>3. pc' # "insert"
      BY <2>1, <2>2 DEF Ops
    <3>4. q.op = "add_free" => NoPermOverlap(call.r)'
      BY <2>1, <3>2 DEF NoPermOverlap
    <3> QED BY <2>1, <3>1, <3>3, <3>4 DEF CheckedClear, Perm
  <2>6. PassedPerm'
    BY <1>0, <2>1 DEF PassedPerm
  <2> QED BY <2>3, <2>4, <2>5, <2>6 DEF SortedInv
<1>2. CASE BeginElf
  <2>1. RegionsSorted' /\ pc' = "idle" /\ phase' = "elf"
    BY <1>0, <1>2 DEF BeginElf, RegionsSorted, Ascending, SortedUpToTemps
  <2> QED BY <2>1, AtRest
<1>3. CASE Add
  <2>1. StartAdd(list, call.r, FALSE)
    BY <1>3 DEF Add
  <2>2. phase = "elf" => Perm(call.r) /\ NoPermOverlap(call.r)
    BY <1>3 DEF Add, SortedInv, StepsInPhase, CheckedClear
  <2>3. FALSE \in BOOLEAN
    BY Zenon
  <2> QED BY <1>0, <2>1, <2>2, <2>3, StartAddSorted DEF RegionsSorted, NoPermOverlap
<1>4. CASE AddElf
  <2> DEFINE clash == \E i \in DOMAIN list : Overlaps(list[i], call.r) /\ Perm(list[i])
  <2>1. Halt \/ (~clash /\ StartAdd(list, call.r, TRUE))
    BY <1>4, Zenon DEF AddElf
  <2>2. CASE Halt
    BY <1>0, <2>2, HaltSorted
  <2>3. CASE ~clash /\ StartAdd(list, call.r, TRUE)
    <3>1. Perm(call.r) /\ \A i \in DOMAIN list : Perm(list[i]) => ~Overlaps(list[i], call.r)
      BY <1>4, <2>3 DEF AddElf, SortedInv, CheckedClear
    <3>2. StartAdd(list, call.r, TRUE)
      BY <2>3
    <3>3. ~squeezed => IF phase = "elf" THEN SortedUpToTemps(list) ELSE Ascending(list)
      BY <1>0 DEF RegionsSorted
    <3>4. TRUE \in BOOLEAN /\ phase = "elf"
      BY <1>4, Zenon DEF AddElf, SortedInv, StepsInPhase
    <3> HIDE DEF clash
    <3> QED BY <1>0, <3>1, <3>2, <3>3, <3>4, StartAddSorted
  <2> QED BY <2>1, <2>2, <2>3
<1>5. CASE Insert
  <2>1. CASE InsertPanics
    BY <1>0, <1>5, <2>1, HaltSorted DEF Insert
  <2>2. CASE ~InsertPanics
    <3>1. /\ list' = Placed(list, mem) /\ Return /\ UNCHANGED <<phase, squeezed>>
          /\ pc = "insert"
      BY <1>5, <2>2 DEF Insert
    <3>2. CASE phase = "elf" /\ ~squeezed
      <4>1. Perm(mem) /\ NoPermOverlap(mem) /\ SortedUpToTemps(list)
        BY <1>0, <3>1, <3>2 DEF SortedInv, CheckedClear, RegionsSorted
      <4>2. SortedUpToTemps(Placed(list, mem))
        BY <1>0, <4>1, PlacedUpToTemps DEF NoPermOverlap
      <4> QED BY <3>1, <3>2, <4>2, AtRest DEF RegionsSorted, Return
    <3>3. CASE phase # "elf" /\ ~squeezed
      <4>1. ~Collides(list, mem)
        BY <2>2, <3>3 DEF InsertPanics, SortedInv, StepsInPhase
      <4>2. Ascending(Placed(list, mem))
        BY <1>0, <3>3, <4>1, PlacedSorted DEF RegionsSorted
      <4> QED BY <3>1, <3>3, <4>2, AtRest DEF RegionsSorted, Return
    <3>4. CASE squeezed
      BY <3>1, <3>4, AtRest DEF RegionsSorted, Return
    <3> QED BY <3>2, <3>3, <3>4
  <2> QED BY <2>1, <2>2
<1>6. CASE Optimize
  <2> DEFINE c == list[cur]
             n == list[cur + 1]
  <2>0. /\ pc = "optimize" /\ (phase # "elf" \/ squeezed)
        /\ ~squeezed => Ascending(list)
    BY <1>0, <1>6 DEF Optimize, SortedInv, StepsInPhase, RegionsSorted
  <2>1. CASE cur >= Len(list) /\ mem = NoRegion
    <3>1. Return /\ UNCHANGED <<list, combined, phase, squeezed>>
      BY <1>0, <1>6, <2>1 DEF Optimize
    <3> QED BY <1>0, <3>1, AtRest DEF RegionsSorted, Return
  <2>2. CASE cur >= Len(list) /\ mem # NoRegion
    <3>1. pc' = "insert" /\ UNCHANGED <<list, phase, squeezed, overlap>>
      BY <1>0, <1>6, <2>2 DEF Optimize
    <3> QED BY <1>0, <2>0, <3>1 DEF SortedInv, RegionsSorted, StepsInPhase, CheckedClear, PassedPerm
  <2>3. CASE cur < Len(list) /\ Mergeable(c, n) /\ n.end < c.begin
    <3>1. Halt
      BY <1>0, <1>6, <2>3 DEF Optimize
    <3> QED BY <1>0, <3>1, HaltSorted
  <2>4. CASE cur < Len(list) /\ Mergeable(c, n) /\ ~(n.end < c.begin)
    <3>1. /\ list' = RemoveAt([list EXCEPT ![cur] = [c EXCEPT !.end = n.end]], cur + 1)
          /\ UNCHANGED <<phase, pc, squeezed, overlap>>
      BY <1>0, <1>6, <2>4 DEF Optimize
    <3>2. cur \in 1..Len(list) /\ cur + 1 \in 1..Len(list)
      BY <1>0, <2>4
    <3>3. ~squeezed => Ascending(list')
      BY <1>0, <2>0, <2>4, <3>1, <3>2, MergedSorted
    <3>4. RegionsSorted'
      BY <2>0, <3>1, <3>3 DEF RegionsSorted
    <3> QED BY <2>0, <3>1, <3>4 DEF SortedInv, StepsInPhase, CheckedClear, PassedPerm
  <2>5. CASE cur < Len(list) /\ ~Mergeable(c, n)
    <3>1. UNCHANGED <<list, phase, pc, squeezed, overlap>>
      BY <1>0, <1>6, <2>5 DEF Optimize
    <3> QED BY <1>0, <2>0, <3>1 DEF SortedInv, RegionsSorted, StepsInPhase, CheckedClear, PassedPerm
  <2>6. cur >= Len(list) \/ cur < Len(list)
    BY <1>0
  <2> QED BY <2>1, <2>2, <2>3, <2>4, <2>5, <2>6
<1>7. CASE Merge
  <2>1. /\ list' = [i \in DOMAIN list |-> IF list[i].tag \in ModTags
                                          THEN [list[i] EXCEPT !.tag = MergedTag]
                                          ELSE list[i]]
        /\ pc' = "optimize" /\ UNCHANGED <<phase, squeezed, overlap>>
        /\ phase = "run"
    BY <1>7 DEF Merge, SortedInv, StepsInPhase
  <2>2. MergedTag \in Tags
    BY ListAssumption DEF PermTags
  <2>3. \A i \in DOMAIN list : list'[i].begin = list[i].begin /\ list'[i].end = list[i].end
    BY <1>0, <2>1, <2>2, WithTag
  <2>4. DOMAIN list' = DOMAIN list
    BY <2>1
  <2>5. Ascending(list) => Ascending(list')
    BY <2>3, <2>4 DEF Ascending, Before
  <2>6. RegionsSorted'
    BY <1>0, <2>1, <2>5 DEF RegionsSorted
  <2> QED BY <2>1, <2>6 DEF SortedInv, StepsInPhase, CheckedClear, PassedPerm
<1>8. CASE RemoveIf
  <2>0. /\ pc = "remove_if" /\ phase = "elf"
        /\ \A j \in 1..Len(list) : j < cur => Perm(list[j])
        /\ ~squeezed => SortedUpToTemps(list)
    BY <1>0, <1>8 DEF RemoveIf, SortedInv, StepsInPhase, PassedPerm, RegionsSorted
  <2>1. CASE cur > Len(list)
    <3>1. Return /\ phase' = "run" /\ UNCHANGED <<list, combined, squeezed>>
      BY <1>0, <1>8, <2>1 DEF RemoveIf
    <3>2. \A j \in DOMAIN list : Perm(list[j])
      BY <1>0, <2>0, <2>1
    <3>3. SortedUpToTemps(list) => Ascending(list)
      BY <3>2 DEF SortedUpToTemps, Ascending
    <3> QED BY <2>0, <3>1, <3>3, AtRest DEF RegionsSorted, Return
  <2>2. CASE cur <= Len(list) /\ Perm(list[cur])
    <3>1. cur' = cur + 1 /\ UNCHANGED <<list, phase, pc, squeezed, overlap>>
      BY <1>0, <1>8, <2>2 DEF RemoveIf, Advance
    <3>2. \A j \in 1..Len(list) : j < cur + 1 => Perm(list[j])
      BY <1>0, <2>0, <2>2
    <3>3. PassedPerm'
      BY <1>0, <3>1, <3>2 DEF PassedPerm
    <3> QED BY <1>0, <2>0, <3>1, <3>3 DEF SortedInv, RegionsSorted, StepsInPhase, CheckedClear
  <2>3. CASE cur <= Len(list) /\ ~Perm(list[cur])
    <3>1. list' = RemoveAt(list, cur) /\ UNCHANGED <<cur, phase, pc, squeezed, overlap>>
      BY <1>0, <1>8, <2>3 DEF RemoveIf
    <3>2. cur \in 1..Len(list)
      BY <1>0, <2>3
    <3>3. /\ RemoveAt(list, cur) \in Seq(Region) /\ Len(RemoveAt(list, cur)) = Len(list) - 1
          /\ \A j \in 1..Len(list) - 1 : RemoveAt(list, cur)[j] = IF j < cur THEN list[j] ELSE list[j + 1]
      BY <1>0, <3>2, RemoveAtShape
    <3>4. PassedPerm'
      <4>1. DOMAIN list' = 1..(Len(list) - 1)
        BY <3>1, <3>3, LenProperties
      <4>2. \A j \in 1..(Len(list) - 1) : j < cur => Perm(list'[j])
        BY <1>0, <2>0, <3>1, <3>3
      <4> QED BY <3>1, <4>1, <4>2 DEF PassedPerm
    <3>5. ~squeezed => SortedUpToTemps(list')
      BY <1>0, <2>0, <3>1, <3>2, RemovedSorted
    <3>6. RegionsSorted'
      BY <2>0, <3>1, <3>5 DEF RegionsSorted
    <3> QED BY <2>0, <3>1, <3>4, <3>6 DEF SortedInv, StepsInPhase, CheckedClear
  <2> QED BY <1>0, <2>1, <2>2, <2>3
<1>9. CASE Sub
  BY <1>9, SubSorted
<1>10. CASE UNCHANGED vars
  BY <1>10 DEF vars, SortedInv, RegionsSorted, StepsInPhase, CheckedClear, PassedPerm, NoPermOverlap
<1> QED BY <1>1, <1>2, <1>3, <1>4, <1>5, <1>6, <1>7, <1>8, <1>9, <1>10 DEF Next, Step, Halted

\* The list is sorted, and its entries are disjoint but for images laid over
\* temporary regions, in every phase and between any two steps of a call, for
\* every sequence of calls that does not run out of entries while the ELF
\* images are laid out.
THEOREM ListSorted == Spec => []RegionsSorted
<1>1. Init => SortedInv
  BY EmptySeq DEF Init, SortedInv, RegionsSorted, Ascending, StepsInPhase, CheckedClear, PassedPerm
<1>2. TypeOK /\ SortedInv /\ [Next]_vars => SortedInv'
  BY SortedInvStep
<1>3. SortedInv => RegionsSorted
  BY DEF SortedInv
<1> QED BY <1>1, <1>2, <1>3, TypeCorrect, PTL DEF Spec

-----------------------------------------------------------------------------
(* The claims a list stands for.  The list machine implements              *)
(* MemoryClaims: what a call on the list has done to the claims on every   *)
(* address when it returns.                                                *)

\* An address is claimed under the tags of the entries that contain it.
LEMMA OwnerAt ==
  ASSUME NEW l \in Seq(Region)
  PROVE  /\ Owner(l) = [a \in Addr |-> Owner(l)[a]]
         /\ \A a \in Addr : \A t :
              t \in Owner(l)[a] <=>
                \E i \in 1..Len(l) : l[i].tag = t /\ l[i].begin <= a /\ a <= l[i].end
<1>1. DOMAIN l = 1..Len(l) /\ \A i \in 1..Len(l) : l[i].begin \in Nat /\ l[i].end \in Nat
  BY Entries
<1>2. Owner(l) = [a \in Addr |-> { l[i].tag : i \in { j \in 1..Len(l) : a \in Bytes(l[j]) } }]
  BY <1>1 DEF Owner
<1>3. \A a \in Addr : \A i \in 1..Len(l) : a \in Bytes(l[i]) <=> l[i].begin <= a /\ a <= l[i].end
  BY <1>1 DEF Bytes, Addr
<1> QED BY <1>2, <1>3

\* A list stands for what any list with the same claims stands for.
LEMMA SameOwner ==
  ASSUME NEW l \in Seq(Region), NEW o,
         o = [a \in Addr |-> o[a]],
         \A a \in Addr : \A t : t \in Owner(l)[a] <=> t \in o[a]
  PROVE  Owner(l) = o
<1>1. Owner(l) = [a \in Addr |-> Owner(l)[a]]
  BY OwnerAt
<1>2. \A a \in Addr : Owner(l)[a] = o[a]
  OBVIOUS
<1> QED BY <1>1, <1>2

\* The tags of a list's claims are tags.
LEMMA OwnerTags ==
  ASSUME NEW l \in Seq(Region), NEW a \in Addr, NEW t \in Owner(l)[a]
  PROVE  t \in Tags
<1>1. PICK i \in 1..Len(l) : l[i].tag = t
  BY OwnerAt
<1> QED BY <1>1, Entries DEF Region

\* In a sorted list an entry is alone in its bytes.
LEMMA AloneEntry ==
  ASSUME NEW l \in Seq(Region), Ascending(l), NEW i \in 1..Len(l), NEW a \in Addr,
         l[i].begin <= a, a <= l[i].end,
         NEW j \in 1..Len(l), l[j].begin <= a, a <= l[j].end
  PROVE  j = i
<1>1. /\ DOMAIN l = 1..Len(l) /\ Len(l) \in Nat /\ a \in Int
      /\ \A m \in 1..Len(l) : l[m].begin \in Nat /\ l[m].end \in Nat
  BY Entries DEF Addr
<1>2. ~(j < i)
  <2>1. j < i => l[j].end < l[i].begin
    BY <1>1 DEF Ascending, Before
  <2> QED BY <1>1, <2>1
<1>3. ~(i < j)
  <2>1. i < j => l[i].end < l[j].begin
    BY <1>1 DEF Ascending, Before
  <2> QED BY <1>1, <2>1
<1> QED BY <1>1, <1>2, <1>3

\* The bytes of an entry of a sorted list are claimed under its tag alone.
LEMMA AloneInSorted ==
  ASSUME NEW l \in Seq(Region), Ascending(l), NEW i \in 1..Len(l), NEW a \in Addr,
         l[i].begin <= a, a <= l[i].end
  PROVE  \A t : t \in Owner(l)[a] <=> t = l[i].tag
<1>1. \A j \in 1..Len(l) : l[j].begin <= a /\ a <= l[j].end => j = i
  BY AloneEntry
<1> QED BY <1>1, OwnerAt

\* Nothing is claimed where no entry overlaps.
LEMMA ClearBytes ==
  ASSUME NEW l \in Seq(Region), NEW r \in Region, NEW a \in Addr,
         r.begin <= a, a <= r.end, NEW t \in Owner(l)[a]
  PROVE  \E i \in 1..Len(l) : l[i].tag = t /\ Overlaps(l[i], r)
<1>1. PICK i \in 1..Len(l) : l[i].tag = t /\ l[i].begin <= a /\ a <= l[i].end
  BY OwnerAt
<1>2. l[i].begin \in Nat /\ l[i].end \in Nat /\ r.begin \in Nat /\ r.end \in Nat /\ a \in Nat
  BY Entries, RegionBounds DEF Addr
<1> QED BY <1>1, <1>2 DEF Overlaps, Before

\* An insertion claims the bytes of the new entry, and no others.
LEMMA PlacedOwner ==
  ASSUME NEW l \in Seq(Region), NEW r \in Region, NEW a \in Addr, NEW t
  PROVE  t \in Owner(Placed(l, r))[a] <=>
           t \in Owner(l)[a] \/ (t = r.tag /\ r.begin <= a /\ a <= r.end)
<1> DEFINE p == PlaceOf(l, r)
           m == Placed(l, r)
<1>1. /\ m \in Seq(Region) /\ Len(m) = Len(l) + 1 /\ Len(l) \in Nat
      /\ \A j \in 1..(Len(l) + 1) :
           m[j] = IF j < p THEN l[j] ELSE IF j = p THEN r ELSE l[j - 1]
      /\ p \in 1..(Len(l) + 1)
  BY PlacedShape, PlaceOfPlaces, Entries
<1> HIDE DEF m, p
<1>2. \A i \in 1..Len(l) : (IF i < p THEN i ELSE i + 1) \in 1..Len(m) /\ m[IF i < p THEN i ELSE i + 1] = l[i]
  BY <1>1
<1>3. p \in 1..Len(m) /\ m[p] = r
  BY <1>1
<1>4. \A j \in 1..Len(m) : m[j] = r \/ \E i \in 1..Len(l) : m[j] = l[i]
  BY <1>1
<1>5. ASSUME t \in Owner(m)[a] PROVE t \in Owner(l)[a] \/ (t = r.tag /\ r.begin <= a /\ a <= r.end)
  BY <1>1, <1>4, <1>5, OwnerAt
<1>6. ASSUME t \in Owner(l)[a] PROVE t \in Owner(m)[a]
  BY <1>1, <1>2, <1>6, OwnerAt
<1>7. ASSUME t = r.tag /\ r.begin <= a /\ a <= r.end PROVE t \in Owner(m)[a]
  BY <1>1, <1>3, <1>7, OwnerAt
<1> QED BY <1>5, <1>6, <1>7 DEF m

\* Removing an entry gives up its bytes, unless others contain them.
LEMMA RemovedOwner ==
  ASSUME NEW l \in Seq(Region), NEW k \in 1..Len(l), NEW a \in Addr, NEW t
  PROVE  t \in Owner(RemoveAt(l, k))[a] <=>
           \E i \in 1..Len(l) : i # k /\ l[i].tag = t /\ l[i].begin <= a /\ a <= l[i].end
<1> DEFINE m == RemoveAt(l, k)
<1>1. /\ m \in Seq(Region) /\ Len(m) = Len(l) - 1 /\ Len(l) \in Nat
      /\ \A j \in 1..(Len(l) - 1) : m[j] = IF j < k THEN l[j] ELSE l[j + 1]
  BY RemoveAtShape, Entries
<1> HIDE DEF m
<1>2. \A i \in 1..Len(l) : i # k =>
        (IF i < k THEN i ELSE i - 1) \in 1..Len(m) /\ m[IF i < k THEN i ELSE i - 1] = l[i]
  BY <1>1
<1>3. \A j \in 1..Len(m) : \E i \in 1..Len(l) : i # k /\ m[j] = l[i]
  <2> TAKE j \in 1..Len(m)
  <2>1. CASE j < k
    BY <1>1, <2>1
  <2>2. CASE ~(j < k)
    <3>1. j + 1 \in 1..Len(l) /\ j + 1 # k /\ m[j] = l[j + 1]
      BY <1>1, <2>2
    <3> QED BY <3>1
  <2> QED BY <2>1, <2>2
<1>4. ASSUME t \in Owner(m)[a]
      PROVE  \E i \in 1..Len(l) : i # k /\ l[i].tag = t /\ l[i].begin <= a /\ a <= l[i].end
  BY <1>1, <1>3, <1>4, OwnerAt
<1>5. ASSUME NEW i \in 1..Len(l), i # k, l[i].tag = t, l[i].begin <= a, a <= l[i].end
      PROVE  t \in Owner(m)[a]
  BY <1>1, <1>2, <1>5, OwnerAt
<1> QED BY <1>4, <1>5 DEF m

\* Replacing an entry.
LEMMA ReplacedOwner ==
  ASSUME NEW l \in Seq(Region), NEW k \in 1..Len(l), NEW x \in Region, NEW a \in Addr, NEW t
  PROVE  t \in Owner([l EXCEPT ![k] = x])[a] <=>
           \/ t = x.tag /\ x.begin <= a /\ a <= x.end
           \/ \E i \in 1..Len(l) : i # k /\ l[i].tag = t /\ l[i].begin <= a /\ a <= l[i].end
<1> DEFINE m == [l EXCEPT ![k] = x]
<1>1. /\ m \in Seq(Region) /\ Len(m) = Len(l) /\ Len(l) \in Nat
      /\ \A j \in 1..Len(l) : m[j] = IF j = k THEN x ELSE l[j]
  BY ExceptSeq, Entries
<1> HIDE DEF m
<1>2. t \in Owner(m)[a] <=> \E i \in 1..Len(m) : m[i].tag = t /\ m[i].begin <= a /\ a <= m[i].end
  BY <1>1, OwnerAt
<1> QED BY <1>1, <1>2 DEF m

-----------------------------------------------------------------------------
(* Compaction *)

\* Compaction in several steps extends no claim beyond its pages.
LEMMA CompactedTwice ==
  ASSUME NEW o, NEW p, NEW q, Claims!Compacted(o, p), Claims!Compacted(p, q)
  PROVE  Claims!Compacted(o, q)
BY DEF Claims!Compacted, Claims!Page

\* Claims that stay as they are.
LEMMA CompactedNot ==
  ASSUME NEW o
  PROVE  Claims!Compacted(o, o)
BY DEF Claims!Compacted

\* A larger multiple of n is larger by n at least.
LEMMA PageApart ==
  ASSUME NEW p \in Nat, NEW q \in Nat, NEW n \in Nat \ {0}, p < q
  PROVE  p * n + n <= q * n
<1>1. p + 1 <= q
  OBVIOUS
<1>2. (p + 1) * n <= q * n
  BY <1>1, Z3
<1>3. (p + 1) * n = p * n + n
  OBVIOUS
<1> QED BY <1>2, <1>3

\* The test of optimize(): no page lies between the two regions.
LEMMA GapPages ==
  ASSUME NEW x \in Addr, NEW y \in Addr, NEW a \in Addr, x < a, a < y,
         RoundPage(x) >= TruncPage(y)
  PROVE  Claims!Page(x) = Claims!Page(a) \/ Claims!Page(y) = Claims!Page(a)
<1> DEFINE n == PageSize
           px == x \div n
           py == y \div n
           pa == a \div n
           w == Word(x + n - 1)
<1>1. /\ n \in Nat \ {0} /\ x \in Nat /\ y \in Nat /\ a \in Nat /\ x + n - 1 \in Nat
  BY WordAssumption DEF Addr
<1>2. /\ px \in Nat /\ px * n \in Nat /\ px * n <= x /\ x < px * n + n
      /\ py \in Nat /\ py * n \in Nat /\ py * n <= y /\ y < py * n + n
      /\ pa \in Nat /\ pa * n \in Nat /\ pa * n <= a /\ a < pa * n + n
  BY <1>1, Division
<1>3. w \in Nat /\ w <= x + n - 1
  BY <1>1, WordInAddr DEF Addr
<1>4. TruncSize(w, n) \in Nat /\ TruncSize(w, n) <= w
  BY <1>1, <1>3, TruncBounds
<1>5. py * n <= TruncSize(w, n)
  BY DEF RoundPage, RoundSize, TruncPage, TruncSize
<1> HIDE DEF n, px, py, pa, w
<1>6. py * n < px * n + n + n
  BY <1>1, <1>2, <1>3, <1>4, <1>5
<1>7. ~(px + 1 < py)
  <2>1. px + 1 < py => (px + 1) * n + n <= py * n
    BY <1>1, <1>2, PageApart
  <2>2. (px + 1) * n = px * n + n
    BY <1>1, <1>2
  <2> QED BY <1>1, <1>2, <1>6, <2>1, <2>2
<1>8. ~(pa < px)
  <2>1. pa < px => pa * n + n <= px * n
    BY <1>1, <1>2, PageApart
  <2> QED BY <1>1, <1>2, <2>1
<1>9. ~(py < pa)
  <2>1. py < pa => py * n + n <= pa * n
    BY <1>1, <1>2, PageApart
  <2> QED BY <1>1, <1>2, <2>1
<1>10. px = pa \/ py = pa
  BY <1>2, <1>7, <1>8, <1>9
<1> QED BY <1>10 DEF Claims!Page, px, py, pa, n

\* Two neighbours become one: their claims remain, and the gap between them
\* is claimed, which lies in the pages they end and begin in.
LEMMA JoinCompacts ==
  ASSUME NEW l \in Seq(Region), NEW k \in 1..Len(l), k + 1 \in 1..Len(l), Ascending(l),
         Mergeable(l[k], l[k + 1])
  PROVE  Claims!Compacted(Owner(l),
           Owner(RemoveAt([l EXCEPT ![k] = [l[k] EXCEPT !.end = l[k + 1].end]], k + 1)))
<1> DEFINE c == l[k]
           n == l[k + 1]
           x == [c EXCEPT !.end = n.end]
           e == [l EXCEPT ![k] = x]
           m == RemoveAt(e, k + 1)
<1>1. /\ c \in Region /\ n \in Region /\ DOMAIN l = 1..Len(l)
      /\ c.begin \in Nat /\ c.end \in Nat /\ c.begin <= c.end
      /\ n.begin \in Nat /\ n.end \in Nat /\ n.begin <= n.end
      /\ c.end \in Addr /\ n.begin \in Addr
  BY Entries DEF Region
<1>2. c.end < n.begin
  BY <1>1 DEF Ascending, Before
<1>3. x \in Region /\ x.begin = c.begin /\ x.end = n.end /\ x.tag = c.tag /\ n.tag = c.tag
  BY <1>1, <1>2, MergedEntry DEF Mergeable
<1>4. e \in Seq(Region) /\ Len(e) = Len(l) /\ \A j \in 1..Len(l) : e[j] = IF j = k THEN x ELSE l[j]
  BY <1>3, ExceptSeq
<1> HIDE DEF x, e
<1>5. ASSUME NEW a \in Addr, NEW t
      PROVE  t \in Owner(m)[a] <=>
               \/ t = c.tag /\ c.begin <= a /\ a <= n.end
               \/ \E i \in 1..Len(l) : i # k /\ i # k + 1 /\ l[i].tag = t /\ l[i].begin <= a /\ a <= l[i].end
  <2>1. t \in Owner(m)[a] <=>
          \E i \in 1..Len(e) : i # k + 1 /\ e[i].tag = t /\ e[i].begin <= a /\ a <= e[i].end
    BY <1>4, RemovedOwner
  <2>2. k # k + 1
    BY Entries
  <2> QED BY <1>3, <1>4, <2>1, <2>2
<1> HIDE DEF m
<1>6. ASSUME NEW a \in Addr, NEW t \in Owner(l)[a]
      PROVE  t \in Owner(m)[a]
  <2>1. PICK i \in 1..Len(l) : l[i].tag = t /\ l[i].begin <= a /\ a <= l[i].end
    BY <1>6, OwnerAt
  <2>2. a \in Nat
    BY DEF Addr
  <2>3. CASE i = k
    <3>1. t = c.tag /\ c.begin <= a /\ a <= n.end
      BY <1>1, <1>2, <2>1, <2>2, <2>3
    <3> QED BY <1>5, <3>1
  <2>4. CASE i = k + 1
    <3>1. t = c.tag /\ c.begin <= a /\ a <= n.end
      BY <1>1, <1>2, <1>3, <2>1, <2>2, <2>4
    <3> QED BY <1>5, <3>1
  <2>5. CASE i # k /\ i # k + 1
    BY <1>5, <2>1, <2>5
  <2> QED BY <2>3, <2>4, <2>5
<1>7. ASSUME NEW a \in Addr, NEW t \in Owner(m)[a], t \notin Owner(l)[a]
      PROVE  \E b \in Addr : Claims!Page(b) = Claims!Page(a) /\ t \in Owner(l)[b]
  <2>1. t = c.tag /\ c.begin <= a /\ a <= n.end
    BY <1>5, <1>7, OwnerAt
  <2>2. a \in Nat
    BY DEF Addr
  <2>3. ~(a <= c.end) /\ ~(n.begin <= a)
    BY <1>3, <1>7, <2>1, OwnerAt
  <2>4. Claims!Page(c.end) = Claims!Page(a) \/ Claims!Page(n.begin) = Claims!Page(a)
    BY <1>1, <2>2, <2>3, GapPages DEF Mergeable
  <2>5. t \in Owner(l)[c.end] /\ t \in Owner(l)[n.begin]
    <3>1. c.tag = t /\ c.begin <= c.end /\ c.end <= c.end /\ n.tag = t /\ n.begin <= n.begin /\ n.begin <= n.end
      BY <1>1, <1>3, <2>1
    <3> QED BY <1>1, <3>1, OwnerAt
  <2> QED BY <1>1, <2>4, <2>5
<1>8. Addr = 0..MaxAddr
  BY DEF Addr
<1>9. Claims!Compacted(Owner(l), Owner(m))
  BY <1>6, <1>7, <1>8 DEF Claims!Compacted
<1> QED BY <1>9 DEF m, e, x

-----------------------------------------------------------------------------
(* What a running call has done so far *)

\* Nothing yet, but for what the callers of add() have checked.
Begun ==
  /\ pc \in {"add", "add_free", "add_elf", "sub", "merge"} =>
       pc = call.op /\ list = snap /\ mem = NoRegion
  /\ pc = "add_free" => \A i \in 1..Len(list) : ~Overlaps(list[i], call.r)

\* remove_if() has removed temporary entries only.
Removing ==
  pc = "remove_if" =>
    /\ call.op = "remove_if"
    /\ \A a \in Addr : \A t \in Tags :
         /\ t \in Owner(list)[a] => t \in Owner(snap)[a]
         /\ t \in Owner(snap)[a] => t \in Owner(list)[a] \/ t \in TempTags

\* The claims that a call of optimize() or merge_mod_regions() starts from.
Retagged(t) == IF t \in ModTags THEN MergedTag ELSE t
JoinBase ==
  IF call.op = "merge" THEN [a \in Addr |-> { Retagged(t) : t \in Owner(snap)[a] }] ELSE Owner(snap)

\* optimize() on its own has compacted them.
Joining ==
  /\ pc = "optimize" /\ mem = NoRegion
  /\ call.op \in {"optimize", "merge"}
  /\ Claims!Compacted(JoinBase, Owner(list))

\* add() has a region to insert, and may have compacted the list to get room.
Adding ==
  /\ mem = call.r /\ ~TooSmall(mem)
  /\ Claims!Compacted(Owner(snap), Owner(list))
  /\ \/ call.op = "add" /\ phase # "elf"
     \/ call.op = "add_free" /\ \A a \in Addr : mem.begin <= a /\ a <= mem.end => Owner(snap)[a] = {}
     \/ call.op = "add_elf" /\ \A a \in Addr : mem.begin <= a /\ a <= mem.end => Owner(snap)[a] \subseteq TempTags

\* sub() has split an entry whose upper part is yet to be inserted, and may
\* have compacted the rest to get room.
Without(lo, hi) == [a \in Addr |-> IF lo <= a /\ a <= hi THEN {} ELSE Owner(snap)[a]]
Splitting ==
  /\ call.op = "sub" /\ ~TooSmall(mem) /\ phase = "run"
  /\ mem.begin = call.r.end + 1
  /\ \A a \in Addr : call.r.begin <= a /\ a <= mem.end => Owner(snap)[a] = {mem.tag}
  /\ Claims!Compacted(Without(call.r.begin, mem.end), Owner(list))

\* Without a list that was full while the ELF images were laid out, the list
\* and the claims at the beginning of the call are in step all the time.
ClaimsInv ==
  /\ pc = "idle" => call = NoCall /\ mem = NoRegion
  /\ ~squeezed =>
       /\ Begun /\ Removing
       /\ pc \in {"optimize", "insert"} => Joining \/ Adding \/ Splitting

\* The list `regions': its limits do not matter.
NoLimits == AddrLimit = MaxAddr /\ ~Limited

\* A step of the list machine is one of MemoryClaims, or changes none of it.
Now == Owner(IF pc = "idle" THEN list ELSE snap)
Implemented == UNCHANGED <<Now, call>> \/ Claims!Next

-----------------------------------------------------------------------------
(* The steps of a call *)

\* A call that goes on has no effect yet.
LEMMA GoesOn ==
  ASSUME pc # "idle", pc' # "idle", UNCHANGED <<snap, call>>
  PROVE  Implemented
BY DEF Implemented, Now

\* A panic has none at all.
LEMMA HaltClaims ==
  ASSUME Halt, pc # "idle"
  PROVE  ClaimsInv' /\ Implemented
<1>1. pc' = "halted" /\ UNCHANGED <<snap, call>>
  BY DEF Halt
<1>2. ClaimsInv'
  BY <1>1 DEF ClaimsInv, Begun, Removing
<1> QED BY <1>1, <1>2, GoesOn

\* A call returns with its effect.
LEMMA ReturnClaims ==
  ASSUME Return, pc # "idle", squeezed' \/ Claims!Effect(call, Owner(list'))
  PROVE  ClaimsInv' /\ (squeezed' \/ Implemented)
<1>1. pc' = "idle" /\ call' = NoCall /\ mem' = NoRegion
  BY DEF Return
<1>2. ClaimsInv'
  BY <1>1 DEF ClaimsInv, Begun, Removing
<1>3. Now' = Owner(list') /\ Now = Owner(snap)
  BY <1>1 DEF Now
<1>4. ASSUME Claims!Effect(call, Owner(list')) PROVE Implemented
  <2>1. CASE call = NoCall
    <3>1. NoCall.op = "add" /\ NoCall.r.begin = NoCall.r.end
      BY DEF NoCall, NoRegion
    <3>2. Owner(list') = Owner(snap)
      BY <1>4, <2>1, <3>1 DEF Claims!Effect, Claims!ClaimEffect, Claims!Unchanged
    <3> QED BY <1>1, <1>3, <2>1, <3>2 DEF Implemented
  <2>2. CASE call # NoCall
    BY <1>1, <1>3, <1>4, <2>2 DEF Implemented, Now, Claims!Next, Claims!Return
  <2> QED BY <2>1, <2>2
<1> QED BY <1>2, <1>4

\* Without limits, add() inserts the whole region or leaves out a single byte.
LEMMA WholeRegion ==
  ASSUME NoLimits, NEW r \in Region
  PROVE  /\ ~ClipAsserts(r) /\ Cap(Clip(r)) = r
         /\ Drops(r) => r.begin = r.end
<1>1. r.begin \in Nat /\ r.end \in Nat /\ r.end <= MaxAddr /\ r.begin <= MaxAddr /\ MaxAddr \in Nat
  BY WordAssumption DEF Region, Addr
<1>2. ~(r.end > AddrLimit) /\ ~(r.begin > AddrLimit)
  BY <1>1 DEF NoLimits
<1>3. Clip(r) = r /\ Cap(r) = r
  BY <1>2 DEF Clip, Cap, NoLimits
<1>4. Drops(r) => Invalid(r)
  BY <1>2 DEF Drops, NoLimits
<1> QED BY <1>2, <1>3, <1>4 DEF ClipAsserts, Invalid

\* The body of add() up to the insertion, for all callers but sub().
LEMMA StartAddClaims ==
  ASSUME NoLimits, TypeOK, ClaimsInv, NEW ov, StartAdd(list, call.r, ov),
         pc \in {"add", "add_free", "add_elf"},
         pc = "add" => phase # "elf",
         pc = "add_elf" => \A i \in DOMAIN list : Overlaps(list[i], call.r) => ~Perm(list[i])
  PROVE  ClaimsInv' /\ (squeezed' \/ Implemented)
<1> DEFINE r == call.r
<1>1. r \in Region /\ list \in Seq(Region) /\ snap \in Seq(Region) /\ squeezed \in BOOLEAN
  BY DEF TypeOK
<1>2. ~ClipAsserts(r) /\ Cap(Clip(r)) = r /\ (Drops(r) => r.begin = r.end)
  BY <1>1, WholeRegion
<1>3. ~squeezed => /\ pc = call.op /\ list = snap
                   /\ pc = "add_free" => \A i \in 1..Len(list) : ~Overlaps(list[i], r)
  BY DEF ClaimsInv, Begun
<1>4. CASE Drops(r) \/ TooSmall(r)
  <2>1. list' = list /\ Return /\ squeezed' = squeezed /\ r.begin = r.end
    BY <1>2, <1>4 DEF StartAdd, TooSmall
  <2>2. ~squeezed => Claims!Effect(call, Owner(list'))
    BY <1>3, <2>1 DEF Claims!Effect, Claims!ClaimEffect, Claims!Unchanged
  <2> QED BY <2>1, <2>2, ReturnClaims
<1>5. CASE ~Drops(r) /\ ~TooSmall(r)
  <2>1. /\ list' = list /\ mem' = r /\ pc' \in {"optimize", "insert"}
        /\ UNCHANGED <<call, snap, phase>> /\ (~squeezed' => ~squeezed)
    BY <1>1, <1>2, <1>5 DEF StartAdd
  <2>2. ~squeezed => Adding'
    <3> SUFFICES ASSUME ~squeezed PROVE Adding'
      OBVIOUS
    <3>1. Claims!Compacted(Owner(snap), Owner(list))
      BY <1>3, CompactedNot
    <3>2. ASSUME pc = "add_free", NEW a \in Addr, r.begin <= a, a <= r.end
          PROVE  Owner(snap)[a] = {}
      BY <1>1, <1>3, <3>2, ClearBytes
    <3>3. ASSUME pc = "add_elf", NEW a \in Addr, r.begin <= a, a <= r.end
          PROVE  Owner(snap)[a] \subseteq TempTags
      <4> SUFFICES ASSUME NEW t \in Owner(snap)[a] PROVE t \in TempTags
        OBVIOUS
      <4>1. PICK i \in 1..Len(list) : list[i].tag = t /\ Overlaps(list[i], r)
        BY <1>1, <1>3, <3>3, ClearBytes
      <4> QED BY <1>1, <3>3, <4>1, Entries DEF Perm
    <3> QED BY <1>3, <1>5, <2>1, <3>1, <3>2, <3>3 DEF Adding, TooSmall
  <2>3. ClaimsInv'
    BY <2>1, <2>2 DEF ClaimsInv, Begun, Removing
  <2> QED BY <2>1, <2>3, GoesOn
<1> QED BY <1>4, <1>5

\* A region that leaves the list sorted overlaps none of the entries.
LEMMA PlacedClear ==
  ASSUME NEW l \in Seq(Region), NEW r \in Region, Ascending(Placed(l, r)), NEW i \in 1..Len(l)
  PROVE  ~Overlaps(l[i], r)
<1> DEFINE p == PlaceOf(l, r)
           m == Placed(l, r)
<1>1. /\ Len(l) \in Nat /\ p \in 1..(Len(l) + 1) /\ DOMAIN m = 1..(Len(l) + 1)
      /\ \A j \in 1..(Len(l) + 1) :
           m[j] = IF j < p THEN l[j] ELSE IF j = p THEN r ELSE l[j - 1]
  BY PlacedShape, PlaceOfPlaces, Entries
<1>2. Ascending(m)
  OBVIOUS
<1> HIDE DEF m, p
<1>3. CASE i < p
  <2>1. i \in DOMAIN m /\ p \in DOMAIN m /\ m[i] = l[i] /\ m[p] = r
    BY <1>1, <1>3
  <2> QED BY <1>2, <1>3, <2>1 DEF Ascending, Overlaps
<1>4. CASE ~(i < p)
  <2>1. i + 1 \in DOMAIN m /\ p \in DOMAIN m /\ m[i + 1] = l[i] /\ m[p] = r /\ p < i + 1
    BY <1>1, <1>4
  <2> QED BY <1>2, <2>1 DEF Ascending, Overlaps
<1> QED BY <1>3, <1>4

\* The insertion completes add(), and the split of an entry by sub().
LEMMA InsertClaims ==
  ASSUME TypeOK, SortedInv, ClaimsInv, Insert
  PROVE  ClaimsInv' /\ (squeezed' \/ Implemented)
<1>1. /\ list \in Seq(Region) /\ snap \in Seq(Region) /\ mem \in Region /\ pc = "insert"
      /\ call.r \in Region /\ squeezed \in BOOLEAN
      /\ call.r.begin \in Nat /\ call.r.end \in Nat /\ call.r.begin <= call.r.end /\ call.r.end <= MaxAddr
      /\ MaxAddr \in Nat /\ Addr = 0..MaxAddr
  BY WordAssumption DEF TypeOK, Insert, Region, Addr
<1>2. CASE InsertPanics
  BY <1>1, <1>2, HaltClaims DEF Insert
<1>3. CASE ~InsertPanics
  <2>1. list' = Placed(list, mem) /\ Return /\ UNCHANGED squeezed
    BY <1>3 DEF Insert
  <2>2. ASSUME ~squeezed, Adding
        PROVE  Claims!Effect(call, Owner(list'))
    <3> DEFINE o == Owner(list')
    <3>1. call.r = mem /\ call.r.begin # call.r.end /\ Claims!Compacted(Owner(snap), Owner(list))
      BY <2>2 DEF Adding, TooSmall
    <3>2. \A a \in call.r.begin..call.r.end : a \in Addr /\ call.r.begin <= a /\ a <= call.r.end
      BY <1>1
    <3>3. ASSUME call.op = "add", phase # "elf", NEW a \in call.r.begin..call.r.end
          PROVE  Owner(snap)[a] = {}
      <4>1. ~Collides(list, mem) /\ Ascending(list)
        BY <1>3, <2>2, <3>3 DEF InsertPanics, SortedInv, StepsInPhase, RegionsSorted
      <4>2. \A i \in 1..Len(list) : ~Overlaps(list[i], mem)
        BY <1>1, <4>1, PlacedSorted, PlacedClear
      <4>3. Owner(list)[a] = {}
        BY <1>1, <3>1, <3>2, <4>2, ClearBytes
      <4> QED BY <1>1, <3>1, <3>2, <4>3 DEF Claims!Compacted
    <3>4. Claims!Compacted(Claims!Claimed(call.r), o)
      <4>1. \A a \in Addr : \A t : t \in o[a] <=>
              t \in Owner(list)[a] \/ (t = mem.tag /\ mem.begin <= a /\ a <= mem.end)
        BY <1>1, <2>1, PlacedOwner
      <4>2. \A a \in Addr : \A t : t \in Claims!Claimed(call.r)[a] <=>
              t \in Owner(snap)[a] \/ (t = mem.tag /\ mem.begin <= a /\ a <= mem.end)
        BY <1>1, <3>1 DEF Claims!Claimed
      <4> HIDE DEF o
      <4> QED BY <1>1, <3>1, <4>1, <4>2 DEF Claims!Compacted
    <3>5. CASE call.op = "add" /\ phase # "elf"
      BY <1>1, <3>1, <3>3, <3>4, <3>5 DEF Claims!Effect, Claims!ClaimEffect
    <3>6. CASE call.op = "add_free" /\ \A a \in Addr : mem.begin <= a /\ a <= mem.end => Owner(snap)[a] = {}
      <4>1. \A a \in call.r.begin..call.r.end : Owner(snap)[a] = {}
        BY <3>1, <3>2, <3>6
      <4> QED BY <1>1, <3>1, <4>1, <3>4, <3>6 DEF Claims!Effect, Claims!ClaimEffect
    <3>7. CASE /\ call.op = "add_elf"
               /\ \A a \in Addr : mem.begin <= a /\ a <= mem.end => Owner(snap)[a] \subseteq TempTags
      <4>1. \A a \in call.r.begin..call.r.end : Owner(snap)[a] \cap (Tags \ TempTags) = {}
        BY <3>1, <3>2, <3>7
      <4> QED BY <1>1, <3>1, <4>1, <3>4, <3>7 DEF Claims!Effect, Claims!ClaimEffect
    <3> QED BY <2>2, <3>5, <3>6, <3>7 DEF Adding
  <2>3. ASSUME ~squeezed, Splitting
        PROVE  Claims!Effect(call, Owner(list'))
    <3> DEFINE o == Owner(list')
               lo == call.r.begin
               hi == call.r.end
    <3>1. /\ call.op = "sub" /\ mem.begin = hi + 1 /\ mem.begin \in Nat /\ mem.end \in Nat
          /\ mem.begin <= mem.end /\ mem.end <= MaxAddr /\ mem.tag \in Tags
          /\ \A a \in Addr : lo <= a /\ a <= mem.end => Owner(snap)[a] = {mem.tag}
          /\ Claims!Compacted(Without(lo, mem.end), Owner(list))
      BY <1>1, <2>3 DEF Splitting, Region, Addr
    <3>2. \A a \in lo..hi : mem.tag \in Owner(snap)[a]
      BY <1>1, <3>1
    <3>3. \A a \in Addr : \A t : t \in o[a] <=>
            t \in Owner(list)[a] \/ (t = mem.tag /\ mem.begin <= a /\ a <= mem.end)
      BY <1>1, <2>1, PlacedOwner
    <3>4. \A a \in Addr : \A t : t \in Claims!Released(lo, hi)[a] <=>
            t \in Owner(snap)[a] /\ ~(lo <= a /\ a <= hi)
      BY <1>1 DEF Claims!Released
    <3>5. \A a \in Addr : \A t : t \in Without(lo, mem.end)[a] <=>
            t \in Owner(snap)[a] /\ ~(lo <= a /\ a <= mem.end)
      BY <1>1 DEF Without
    <3> HIDE DEF o
    <3>6. \A a \in Addr : \A t : t \in Claims!Released(lo, hi)[a] <=>
            t \in Without(lo, mem.end)[a] \/ (t = mem.tag /\ mem.begin <= a /\ a <= mem.end)
      BY <1>1, <3>1, <3>4, <3>5
    <3>7. Claims!Compacted(Claims!Released(lo, hi), o)
      BY <1>1, <3>1, <3>3, <3>6 DEF Claims!Compacted
    <3> QED BY <1>1, <3>1, <3>2, <3>7 DEF Claims!Effect, Claims!ReleaseEffect, o
  <2>4. ~squeezed => Adding \/ Splitting
    BY <1>1 DEF ClaimsInv, Joining
  <2> QED BY <1>1, <2>1, <2>2, <2>3, <2>4, ReturnClaims
<1> QED BY <1>2, <1>3

\* An iteration of optimize() compacts the claims further.
LEMMA OptimizeClaims ==
  ASSUME TypeOK, SortedInv, ClaimsInv, Optimize
  PROVE  ClaimsInv' /\ (squeezed' \/ Implemented)
<1> DEFINE c == list[cur]
           n == list[cur + 1]
           rest == UNCHANGED <<combined, phase, pc, mem, overlap, call, snap, squeezed>>
<1>1. /\ list \in Seq(Region) /\ snap \in Seq(Region) /\ Len(list) \in Nat
      /\ pc = "optimize" /\ cur \in Nat \ {0} /\ mem \in Region /\ squeezed \in BOOLEAN
  BY Entries DEF TypeOK, Optimize
<1>2. ~squeezed => Ascending(list) /\ (Joining \/ Adding \/ Splitting)
  BY <1>1 DEF ClaimsInv, SortedInv, StepsInPhase, RegionsSorted
<1>3. CASE cur >= Len(list) /\ mem # NoRegion
  <2>1. pc' = "insert" /\ UNCHANGED <<list, phase, mem, call, snap, squeezed>>
    BY <1>1, <1>3 DEF Optimize
  <2>2. ~squeezed => Adding \/ Splitting
    BY <1>2, <1>3 DEF Joining
  <2>3. ~squeezed => Adding' \/ Splitting'
    BY <2>1, <2>2 DEF Adding, Splitting, Without
  <2>4. ClaimsInv'
    BY <2>1, <2>3 DEF ClaimsInv, Begun, Removing
  <2> QED BY <1>1, <2>1, <2>4, GoesOn
<1>4. CASE cur >= Len(list) /\ mem = NoRegion
  <2>1. Return /\ UNCHANGED <<list, squeezed>>
    BY <1>1, <1>4 DEF Optimize
  <2>2. TooSmall(NoRegion)
    BY DEF TooSmall, NoRegion
  <2>3. ~squeezed => Joining
    BY <1>2, <1>4, <2>2 DEF Adding, Splitting
  <2>4. JoinBase = IF call.op = "merge" THEN Claims!Retagged ELSE Owner(snap)
    BY <1>1 DEF JoinBase, Retagged, Claims!Retagged, Addr
  <2>5. ~squeezed => Claims!Effect(call, Owner(list'))
    BY <1>1, <2>1, <2>3, <2>4 DEF Joining, Claims!Effect
  <2> QED BY <1>1, <2>1, <2>5, ReturnClaims
<1>5. CASE cur < Len(list) /\ Mergeable(c, n) /\ n.end < c.begin
  <2>1. Halt
    BY <1>1, <1>5 DEF Optimize
  <2> QED BY <1>1, <2>1, HaltClaims
<1>6. CASE cur < Len(list) /\ ((Mergeable(c, n) /\ ~(n.end < c.begin)) \/ ~Mergeable(c, n))
  <2>1. /\ rest
        /\ Mergeable(c, n) => list' = RemoveAt([list EXCEPT ![cur] = [c EXCEPT !.end = n.end]], cur + 1)
        /\ ~Mergeable(c, n) => list' = list
    BY <1>1, <1>6 DEF Optimize
  <2>2. cur \in 1..Len(list) /\ cur + 1 \in 1..Len(list)
    BY <1>1, <1>6
  <2>3. ~squeezed => Claims!Compacted(Owner(list), Owner(list'))
    BY <1>1, <1>2, <2>1, <2>2, JoinCompacts, CompactedNot
  <2>4. ~squeezed => Joining' \/ Adding' \/ Splitting'
    <3> SUFFICES ASSUME ~squeezed PROVE Joining' \/ Adding' \/ Splitting'
      OBVIOUS
    <3>1. CASE Joining
      <4>1. Claims!Compacted(JoinBase, Owner(list'))
        BY <2>3, <3>1, CompactedTwice DEF Joining
      <4> QED BY <2>1, <3>1, <4>1 DEF Joining, JoinBase, Retagged
    <3>2. CASE Adding
      <4>1. Claims!Compacted(Owner(snap), Owner(list'))
        BY <2>3, <3>2, CompactedTwice DEF Adding
      <4> QED BY <2>1, <3>2, <4>1 DEF Adding
    <3>3. CASE Splitting
      <4>1. Claims!Compacted(Without(call.r.begin, mem.end), Owner(list'))
        BY <2>3, <3>3, CompactedTwice DEF Splitting
      <4> QED BY <2>1, <3>3, <4>1 DEF Splitting, Without
    <3> QED BY <1>2, <3>1, <3>2, <3>3
  <2>5. ClaimsInv'
    BY <1>1, <2>1, <2>4 DEF ClaimsInv, Begun, Removing
  <2> QED BY <1>1, <2>1, <2>5, GoesOn
<1>7. cur >= Len(list) \/ cur < Len(list)
  BY <1>1
<1> QED BY <1>3, <1>4, <1>5, <1>6, <1>7

\* merge_mod_regions() gives the regions of modules one tag.
LEMMA MergeClaims ==
  ASSUME TypeOK, ClaimsInv, Merge
  PROVE  ClaimsInv' /\ (squeezed' \/ Implemented)
<1>1. /\ list \in Seq(Region) /\ DOMAIN list = 1..Len(list) /\ pc = "merge"
      /\ Len(list) \in Nat /\ \A i \in 1..Len(list) : list[i] \in Region
  BY Entries DEF TypeOK, Merge
<1>2. /\ list' = [i \in 1..Len(list) |-> IF list[i].tag \in ModTags
                                         THEN [list[i] EXCEPT !.tag = MergedTag]
                                         ELSE list[i]]
      /\ pc' = "optimize" /\ UNCHANGED <<mem, call, snap, squeezed>>
  BY <1>1 DEF Merge
<1>3. MergedTag \in Tags
  BY ListAssumption DEF PermTags
<1>4. \A i \in 1..Len(list) : /\ list'[i] \in Region
                              /\ list'[i].begin = list[i].begin /\ list'[i].end = list[i].end
                              /\ list'[i].tag = Retagged(list[i].tag)
  BY <1>1, <1>2, <1>3, WithTag DEF Retagged
<1>5. list' \in Seq(Region) /\ Len(list') = Len(list)
  BY <1>1, <1>2, <1>4
<1>6. ~squeezed => call.op = "merge" /\ list = snap /\ mem = NoRegion
  BY <1>1 DEF ClaimsInv, Begun
<1>7. ~squeezed => Owner(list') = JoinBase
  <2> SUFFICES ASSUME ~squeezed PROVE Owner(list') = JoinBase
    OBVIOUS
  <2>1. JoinBase = [a \in Addr |-> { Retagged(t) : t \in Owner(list)[a] }]
    BY <1>6 DEF JoinBase
  <2>2. ASSUME NEW a \in Addr, NEW t
        PROVE  t \in Owner(list')[a] <=> t \in JoinBase[a]
    <3>1. t \in Owner(list')[a] <=>
            \E i \in 1..Len(list) : Retagged(list[i].tag) = t /\ list[i].begin <= a /\ a <= list[i].end
      BY <1>4, <1>5, OwnerAt, SMTT(30)
    <3>2. t \in JoinBase[a] <=> \E u \in Owner(list)[a] : t = Retagged(u)
      BY <2>1
    <3>3. \A u : u \in Owner(list)[a] <=>
            \E i \in 1..Len(list) : list[i].tag = u /\ list[i].begin <= a /\ a <= list[i].end
      BY <1>1, OwnerAt
    <3> QED BY <3>1, <3>2, <3>3
  <2> QED BY <1>5, <2>1, <2>2, SameOwner
<1>8. ~squeezed => Joining'
  BY <1>2, <1>6, <1>7, CompactedNot DEF Joining, JoinBase, Retagged
<1>9. ClaimsInv'
  BY <1>2, <1>8 DEF ClaimsInv, Begun, Removing
<1> QED BY <1>1, <1>2, <1>9, GoesOn

\* remove_if() removes the claims of temporary regions, and no others.
LEMMA RemoveIfClaims ==
  ASSUME TypeOK, SortedInv, ClaimsInv, RemoveIf
  PROVE  ClaimsInv' /\ (squeezed' \/ Implemented)
<1>1. /\ list \in Seq(Region) /\ snap \in Seq(Region) /\ DOMAIN list = 1..Len(list)
      /\ Len(list) \in Nat /\ cur \in Nat \ {0} /\ pc = "remove_if"
      /\ \A j \in 1..Len(list) : j < cur => Perm(list[j])
      /\ ~squeezed => Removing
  BY Entries DEF TypeOK, RemoveIf, SortedInv, PassedPerm, ClaimsInv
<1>2. CASE cur > Len(list)
  <2>1. Return /\ UNCHANGED <<list, squeezed>>
    BY <1>1, <1>2 DEF RemoveIf
  <2>2. \A a \in Addr : \A t \in TempTags : t \notin Owner(list)[a]
    BY <1>1, <1>2, OwnerAt DEF Perm
  <2>3. ASSUME ~squeezed PROVE Claims!Effect(call, Owner(list'))
    <3> DEFINE o == [a \in Addr |-> Owner(snap)[a] \ TempTags]
    <3>1. \A a \in Addr : \A t : t \in Owner(list)[a] <=> t \in o[a]
      BY <1>1, <2>2, <2>3, OwnerTags DEF Removing
    <3>2. Owner(list) = o
      BY <1>1, <3>1, SameOwner
    <3> QED BY <1>1, <2>1, <2>3, <3>2 DEF Removing, Claims!Effect, Addr
  <2> QED BY <1>1, <2>1, <2>3, ReturnClaims
<1>3. CASE cur <= Len(list)
  <2>1. /\ \/ Perm(list[cur]) /\ list' = list
           \/ ~Perm(list[cur]) /\ list' = RemoveAt(list, cur)
        /\ UNCHANGED <<pc, mem, call, snap, squeezed>>
    BY <1>1, <1>3 DEF RemoveIf
  <2>2. cur \in 1..Len(list)
    BY <1>1, <1>3
  <2>3. \A a \in Addr : \A t :
          /\ t \in Owner(list')[a] => t \in Owner(list)[a]
          /\ t \in Owner(list)[a] => t \in Owner(list')[a] \/ t \in TempTags
    <3>1. CASE list' = list
      BY <3>1
    <3>2. CASE ~Perm(list[cur]) /\ list' = RemoveAt(list, cur)
      BY <1>1, <2>2, <3>2, RemovedOwner, OwnerAt DEF Perm
    <3> QED BY <2>1, <3>1, <3>2
  <2>4. ~squeezed => Removing'
    <3>1. ASSUME ~squeezed
          PROVE  \A a \in Addr : \A t \in Tags :
                   /\ t \in Owner(list')[a] => t \in Owner(snap)[a]
                   /\ t \in Owner(snap)[a] => t \in Owner(list')[a] \/ t \in TempTags
      <4>1. \A a \in Addr : \A t \in Tags :
              /\ t \in Owner(list)[a] => t \in Owner(snap)[a]
              /\ t \in Owner(snap)[a] => t \in Owner(list)[a] \/ t \in TempTags
        BY <1>1, <3>1 DEF Removing
      <4> QED BY <2>3, <4>1
    <3>2. ~squeezed => call.op = "remove_if"
      BY <1>1 DEF Removing
    <3> QED BY <1>1, <2>1, <3>1, <3>2 DEF Removing
  <2>5. ~squeezed' => Begun' /\ Removing'
    BY <1>1, <2>1, <2>4 DEF Begun
  <2>6. ClaimsInv'
    BY <1>1, <2>1, <2>5 DEF ClaimsInv
  <2> QED BY <1>1, <2>1, <2>6, GoesOn
<1> QED BY <1>1, <1>2, <1>3

\* An entry of a sorted list that shrinks gives up what it has lost.
LEMMA CutOwner ==
  ASSUME NEW l \in Seq(Region), Ascending(l), NEW k \in 1..Len(l), NEW x \in Region,
         l[k].begin <= x.begin, x.end <= l[k].end, x.tag = l[k].tag, NEW a \in Addr, NEW t
  PROVE  t \in Owner([l EXCEPT ![k] = x])[a] <=>
           /\ t \in Owner(l)[a]
           /\ l[k].begin <= a /\ a <= l[k].end => x.begin <= a /\ a <= x.end
<1>1. /\ l[k].begin \in Nat /\ l[k].end \in Nat /\ x.begin \in Nat /\ x.end \in Nat /\ a \in Nat
  BY Entries, RegionBounds DEF Addr
<1>2. t \in Owner([l EXCEPT ![k] = x])[a] <=>
           \/ t = x.tag /\ x.begin <= a /\ a <= x.end
           \/ \E i \in 1..Len(l) : i # k /\ l[i].tag = t /\ l[i].begin <= a /\ a <= l[i].end
  BY ReplacedOwner
<1>3. CASE l[k].begin <= a /\ a <= l[k].end
  <2>1. \A i \in 1..Len(l) : l[i].begin <= a /\ a <= l[i].end => i = k
    BY <1>3, AloneEntry
  <2>2. t \in Owner(l)[a] <=> t = l[k].tag
    BY <1>3, AloneInSorted
  <2> QED BY <1>2, <1>3, <2>1, <2>2
<1>4. CASE ~(l[k].begin <= a /\ a <= l[k].end)
  <2>1. ~(x.begin <= a /\ a <= x.end)
    BY <1>1, <1>4
  <2> QED BY <1>2, <1>4, <2>1, OwnerAt
<1> QED BY <1>3, <1>4

\* sub() releases the region, or leaves the claims alone.
LEMMA SubClaims ==
  ASSUME NoLimits, TypeOK, SortedInv, ClaimsInv, Sub
  PROVE  ClaimsInv' /\ (squeezed' \/ Implemented)
<1> DEFINE r == call.r
           k == FindContaining(list, r)
           c == list[k]
           low == LowPart(c, r)
           high == HighPart(c, r)
           Becomes(l) == list' = l /\ Return /\ UNCHANGED squeezed
<1>1. /\ r \in Region /\ list \in Seq(Region) /\ snap \in Seq(Region) /\ squeezed \in BOOLEAN
      /\ Len(list) \in Nat /\ pc = "sub" /\ phase = "run" /\ MaxAddr \in Nat /\ Addr = 0..MaxAddr
      /\ r.begin \in Nat /\ r.end \in Nat /\ r.begin <= r.end /\ r.end <= MaxAddr
  BY WordAssumption, Entries DEF TypeOK, Sub, SortedInv, StepsInPhase, Region, Addr
<1>2. ~squeezed => call.op = "sub" /\ list = snap /\ Ascending(list)
  BY <1>1 DEF ClaimsInv, Begun, SortedInv, RegionsSorted
<1>3. CASE k = 0
  <2>1. Becomes(list)
    BY <1>3 DEF Sub
  <2>2. ~squeezed => Claims!Effect(call, Owner(list'))
    BY <1>1, <1>2, <2>1 DEF Claims!Effect, Claims!ReleaseEffect, Claims!Unchanged
  <2> QED BY <1>1, <2>1, <2>2, ReturnClaims
<1>4. CASE k # 0
  <2>1. /\ k \in 1..Len(list) /\ c \in Region
        /\ c.begin \in Nat /\ c.end \in Nat /\ c.begin <= r.begin /\ r.end <= c.end /\ c.end <= MaxAddr
        /\ c.tag \in Tags
    <3>1. k \in 1..Len(list) /\ Encloses(c, r)
      BY <1>1, <1>4, FindContainingFinds
    <3> QED BY <1>1, <3>1, Entries DEF Encloses, Region, Addr
  <2>2. /\ c.begin # r.begin => /\ low \in Region /\ low.begin = c.begin
                                /\ low.end = r.begin - 1 /\ low.tag = c.tag
        /\ c.end # r.end => /\ high \in Region /\ high.begin = r.end + 1
                            /\ high.end = c.end /\ high.tag = c.tag
    BY <1>1, <2>1, SubParts DEF Encloses
  <2>3. \/ c.begin = r.begin /\ c.end = r.end /\ Becomes(RemoveAt(list, k))
        \/ c.begin = r.begin /\ c.end # r.end /\ Becomes([list EXCEPT ![k] = high])
        \/ c.begin # r.begin /\ c.end = r.end /\ Becomes([list EXCEPT ![k] = low])
        \/ /\ c.begin # r.begin /\ c.end # r.end
           /\ StartAdd([list EXCEPT ![k] = low], high, FALSE)
    BY <1>4 DEF Sub
  <2> HIDE DEF low, high, c, k
  <2>4. ASSUME ~squeezed, NEW a \in Addr, c.begin <= a, a <= c.end
        PROVE  Owner(snap)[a] = {c.tag}
    BY <1>1, <1>2, <2>1, <2>4, AloneInSorted DEF c
  <2>5. ASSUME NEW l \in Seq(Region), Becomes(l),
               NEW e \in {r.end, r.end + 1}, e <= c.end,
               ~squeezed => \A a \in Addr : \A t :
                              t \in Owner(l)[a] <=> t \in Owner(snap)[a] /\ ~(r.begin <= a /\ a <= e)
        PROVE  ClaimsInv' /\ (squeezed' \/ Implemented)
    <3>1. ASSUME ~squeezed PROVE Claims!Effect(call, Owner(list'))
      <4>1. \A a \in Addr : \A t : t \in Claims!Released(r.begin, e)[a] <=>
              t \in Owner(snap)[a] /\ ~(r.begin <= a /\ a <= e)
        BY <1>1, <2>1, <2>5 DEF Claims!Released
      <4>2. Claims!Compacted(Claims!Released(r.begin, e), Owner(list'))
        BY <1>1, <2>5, <3>1, <4>1 DEF Claims!Compacted
      <4>3. \A a \in r.begin..r.end : c.tag \in Owner(snap)[a]
        BY <1>1, <2>1, <2>4, <3>1
      <4> QED BY <1>1, <1>2, <2>1, <2>5, <3>1, <4>2, <4>3 DEF Claims!Effect, Claims!ReleaseEffect
    <3> QED BY <1>1, <2>5, <3>1, ReturnClaims
  <2>6. CASE c.begin = r.begin /\ c.end = r.end /\ Becomes(RemoveAt(list, k))
    <3>0. list \in Seq(Region) /\ k \in 1..Len(list)
      BY <1>1, <2>1
    <3>1. RemoveAt(list, k) \in Seq(Region)
      BY <1>1, <2>1, RemoveAtShape
    <3>2. ASSUME ~squeezed, NEW a \in Addr, NEW t
          PROVE  t \in Owner(RemoveAt(list, k))[a] <=> t \in Owner(snap)[a] /\ ~(r.begin <= a /\ a <= r.end)
      <4>1. CASE r.begin <= a /\ a <= r.end
        <5>1. \A i \in 1..Len(list) : list[i].begin <= a /\ a <= list[i].end => i = k
          BY <1>1, <1>2, <2>1, <2>6, <3>2, <4>1, AloneEntry DEF c
        <5>2. t \in Owner(RemoveAt(list, k))[a] <=>
                \E i \in 1..Len(list) : i # k /\ list[i].tag = t /\ list[i].begin <= a /\ a <= list[i].end
          BY <3>0, RemovedOwner
        <5> QED BY <4>1, <5>1, <5>2
      <4>2. CASE ~(r.begin <= a /\ a <= r.end)
        <5>1. t \in Owner(RemoveAt(list, k))[a] <=>
                \E i \in 1..Len(list) : i # k /\ list[i].tag = t /\ list[i].begin <= a /\ a <= list[i].end
          BY <3>0, RemovedOwner
        <5>2. t \in Owner(list)[a] <=>
                \E i \in 1..Len(list) : list[i].tag = t /\ list[i].begin <= a /\ a <= list[i].end
          BY <1>1, OwnerAt
        <5>3. ~(list[k].begin <= a /\ a <= list[k].end)
          BY <2>6, <4>2 DEF c
        <5>4. list = snap
          BY <1>2, <3>2
        <5> QED BY <4>2, <5>1, <5>2, <5>3, <5>4
      <4> QED BY <4>1, <4>2
    <3> QED BY <1>1, <2>1, <2>5, <2>6, <3>1, <3>2
  <2>7. CASE c.begin = r.begin /\ c.end # r.end /\ Becomes([list EXCEPT ![k] = high])
    <3>1. [list EXCEPT ![k] = high] \in Seq(Region)
      BY <1>1, <2>1, <2>2, <2>7, ExceptSeq
    <3>2. ASSUME ~squeezed, NEW a \in Addr, NEW t
          PROVE  t \in Owner([list EXCEPT ![k] = high])[a] <=>
                   t \in Owner(snap)[a] /\ ~(r.begin <= a /\ a <= r.end)
      <4>1. c.begin <= high.begin /\ high.end <= c.end /\ a \in Nat
        BY <1>1, <2>1, <2>2, <2>7
      <4>2. t \in Owner([list EXCEPT ![k] = high])[a] <=>
              t \in Owner(list)[a] /\ (c.begin <= a /\ a <= c.end => high.begin <= a /\ a <= high.end)
        BY <1>1, <1>2, <2>1, <2>2, <2>7, <3>2, <4>1, CutOwner DEF c
      <4> QED BY <1>1, <1>2, <2>1, <2>2, <2>7, <3>2, <4>1, <4>2
    <3> QED BY <1>1, <2>1, <2>5, <2>7, <3>1, <3>2
  <2>8. ASSUME ~squeezed, c.begin # r.begin, NEW a \in Addr, NEW t
        PROVE  t \in Owner([list EXCEPT ![k] = low])[a] <=>
                 t \in Owner(snap)[a] /\ ~(r.begin <= a /\ a <= c.end)
    <3>1. c.begin <= low.begin /\ low.end <= c.end /\ a \in Nat
      BY <1>1, <2>1, <2>2, <2>8
    <3>2. t \in Owner([list EXCEPT ![k] = low])[a] <=>
            t \in Owner(list)[a] /\ (c.begin <= a /\ a <= c.end => low.begin <= a /\ a <= low.end)
      BY <1>1, <1>2, <2>1, <2>2, <2>8, <3>1, CutOwner DEF c
    <3> QED BY <1>1, <1>2, <2>1, <2>2, <2>8, <3>1, <3>2
  <2>9. c.begin # r.begin => [list EXCEPT ![k] = low] \in Seq(Region)
    BY <1>1, <2>1, <2>2, ExceptSeq
  <2>10. CASE c.begin # r.begin /\ c.end = r.end /\ Becomes([list EXCEPT ![k] = low])
    BY <1>1, <2>1, <2>5, <2>8, <2>9, <2>10
  <2>11. CASE c.begin # r.begin /\ c.end # r.end /\ StartAdd([list EXCEPT ![k] = low], high, FALSE)
    <3> DEFINE l == [list EXCEPT ![k] = low]
    <3>1. /\ ~ClipAsserts(high) /\ Cap(Clip(high)) = high /\ (Drops(high) => high.begin = high.end)
      BY <2>2, <2>11, WholeRegion
    <3>2. CASE high.begin = high.end
      <4>1. Becomes(l)
        BY <2>11, <3>1, <3>2 DEF StartAdd, TooSmall
      <4>2. c.end = r.end + 1
        BY <2>2, <2>11, <3>2
      <4> HIDE DEF Becomes
      <4> QED BY <1>1, <2>1, <2>5, <2>8, <2>9, <2>11, <4>1, <4>2
    <3>3. CASE high.begin # high.end
      <4>1. /\ list' = l /\ mem' = high /\ pc' \in {"optimize", "insert"}
            /\ UNCHANGED <<call, snap, phase>> /\ (~squeezed' => ~squeezed)
        BY <1>1, <2>11, <3>1, <3>3 DEF StartAdd, TooSmall
      <4>2. ASSUME ~squeezed PROVE Splitting'
        <5>1. \A a \in Addr : \A t : t \in Without(r.begin, c.end)[a] <=>
                t \in Owner(snap)[a] /\ ~(r.begin <= a /\ a <= c.end)
          BY <1>1 DEF Without
        <5>2. Claims!Compacted(Without(r.begin, c.end), Owner(l))
          BY <1>1, <2>8, <2>11, <4>2, <5>1 DEF Claims!Compacted
        <5>3. \A a \in Addr : r.begin <= a /\ a <= c.end => Owner(snap)[a] = {c.tag}
          BY <1>1, <2>1, <2>4, <4>2
        <5> QED BY <1>1, <1>2, <2>2, <2>11, <3>3, <4>1, <4>2, <5>2, <5>3 DEF Splitting, TooSmall, Without
      <4>3. ClaimsInv'
        BY <4>1, <4>2 DEF ClaimsInv, Begun, Removing
      <4> QED BY <1>1, <4>1, <4>3, GoesOn
    <3> QED BY <3>2, <3>3
  <2> QED BY <2>3, <2>6, <2>7, <2>10, <2>11
<1> QED BY <1>3, <1>4

-----------------------------------------------------------------------------
(* The refinement *)

\* A call begins, without an effect; it is requested in MemoryClaims.
LEMMA CallClaims ==
  ASSUME TypeOK, SortedInv, ClaimsInv, NEW q \in Requests, Call(q)
  PROVE  ClaimsInv' /\ Implemented
<1>1. /\ list \in Seq(Region) /\ q.op \in Ops /\ q.r \in Region /\ phase \in Phases
      /\ pc = "idle" /\ call = NoCall /\ mem = NoRegion
  BY ListAssumption DEF TypeOK, ClaimsInv, Call
<1>2. /\ pc' = q.op /\ call' = q /\ snap' = list /\ Admissible(q)
      /\ UNCHANGED <<list, phase, mem, squeezed>>
  BY DEF Call
<1>3. pc' # "idle" /\ pc' # "insert"
  BY <1>1, <1>2 DEF Ops
<1>4. Now' = Now
  BY <1>1, <1>2, <1>3 DEF Now
<1>5. Implemented
  BY <1>1, <1>2, <1>4 DEF Implemented, Now, Claims!Next, Claims!Request
<1>6. q.op = "add_free" => \A i \in 1..Len(list) : ~Overlaps(list[i], q.r)
  <2>1. q.op = "add_free" => Find(list, q.r) = 0
    BY <1>1, <1>2 DEF Admissible, Phases
  <2> QED BY <1>1, <2>1, FindFinds
<1>7. Begun'
  BY <1>1, <1>2, <1>6 DEF Begun
<1>8. Removing'
  BY <1>2 DEF Removing
<1>9. pc' = "optimize" => Joining'
  BY <1>1, <1>2, CompactedNot DEF Joining, JoinBase
<1> QED BY <1>3, <1>5, <1>7, <1>8, <1>9 DEF ClaimsInv

\* Every step of the list machine keeps the invariant, and is one of
\* MemoryClaims.
LEMMA ClaimsStep ==
  ASSUME NoLimits, TypeOK, SortedInv, ClaimsInv, [Next]_vars
  PROVE  ClaimsInv' /\ (squeezed' \/ Implemented)
<1>1. ASSUME NEW q \in Requests, Call(q) PROVE ClaimsInv' /\ Implemented
  BY <1>1, CallClaims
<1>2. CASE BeginElf
  <2>1. pc = "idle" /\ UNCHANGED <<pc, list, snap, mem, call>>
    BY <1>2 DEF BeginElf
  <2>2. ClaimsInv'
    BY <2>1 DEF ClaimsInv, Begun, Removing
  <2> QED BY <2>1, <2>2 DEF Implemented, Now
<1>3. CASE Add
  <2>1. pc \in {"add", "add_free"} /\ StartAdd(list, call.r, FALSE) /\ (pc = "add" => phase # "elf")
    BY <1>3 DEF Add, SortedInv, StepsInPhase
  <2> QED BY <2>1, StartAddClaims
<1>4. CASE AddElf
  <2> DEFINE clash == \E i \in DOMAIN list : Overlaps(list[i], call.r) /\ Perm(list[i])
  <2>1. pc = "add_elf" /\ (Halt \/ (~clash /\ StartAdd(list, call.r, TRUE)))
    BY <1>4, Zenon DEF AddElf
  <2>2. CASE Halt
    BY <2>1, <2>2, HaltClaims
  <2>3. CASE ~clash /\ StartAdd(list, call.r, TRUE)
    <3>1. \A i \in DOMAIN list : Overlaps(list[i], call.r) => ~Perm(list[i])
      BY <2>3
    <3>2. StartAdd(list, call.r, TRUE)
      BY <2>3
    <3> HIDE DEF clash
    <3> QED BY <2>1, <3>1, <3>2, StartAddClaims
  <2> QED BY <2>1, <2>2, <2>3
<1>5. CASE UNCHANGED vars
  <2>1. UNCHANGED <<pc, list, snap, mem, call, phase, squeezed>>
    BY <1>5 DEF vars
  <2>2. UNCHANGED <<Begun, Removing, Joining, Adding, Splitting>>
    BY <2>1 DEF Begun, Removing, Joining, JoinBase, Adding, Splitting, Without
  <2>3. ClaimsInv'
    BY <2>1, <2>2 DEF ClaimsInv
  <2> QED BY <2>1, <2>3 DEF Implemented, Now
<1> QED BY <1>1, <1>2, <1>3, <1>4, <1>5, InsertClaims, OptimizeClaims, MergeClaims,
           RemoveIfClaims, SubClaims DEF Next, Step, Halted

\* The list `regions' implements MemoryClaims: whatever calls startup() makes
\* in whatever order, and however often add() has to compact a full list to
\* get room, a call returns with exactly the claims its caller may expect, or
\* panics without an effect; with room in the list while the ELF images are
\* laid out.
THEOREM ListImplementsClaims == NoLimits /\ Spec => ImplementsClaims
<1>1. Init => TypeOK /\ SortedInv /\ ClaimsInv /\ Claims!Init
  <2> SUFFICES ASSUME Init PROVE TypeOK /\ SortedInv /\ ClaimsInv /\ Claims!Init
    OBVIOUS
  <2>1. SortedInv
    BY EmptySeq DEF Init, SortedInv, RegionsSorted, Ascending, StepsInPhase, CheckedClear, PassedPerm
  <2>2. ClaimsInv
    BY DEF Init, ClaimsInv, Begun, Removing
  <2>3. Claims!Init
    <3>1. Owner(<<>>) = [a \in Addr |-> {}]
      BY EmptySeq DEF Owner
    <3> QED BY <3>1 DEF Init, Claims!Init, Addr
  <2> QED BY <2>1, <2>2, <2>3, InitTypeOK
<1>2. TypeOK /\ SortedInv /\ [Next]_vars => TypeOK' /\ SortedInv'
  BY TypeOKStep, SortedInvStep
<1>3. NoLimits /\ TypeOK /\ SortedInv /\ ClaimsInv /\ [Next]_vars =>
        /\ ClaimsInv'
        /\ [squeezed' \/ Claims!Next]_<<Owner(IF pc = "idle" THEN list ELSE snap), call>>
  BY ClaimsStep DEF Implemented, Now
<1>4. NoLimits => NoLimits'
  BY DEF NoLimits, Limited
<1> QED BY <1>1, <1>2, <1>3, <1>4, PTL DEF Spec, ImplementsClaims

=============================================================================
