----------------------------- MODULE RegionOps -----------------------------
(***************************************************************************)
(* What the calls on region lists return, for the components that use the  *)
(* lists: the results of Region_list::add(), optimize() and sub() and of   *)
(* Memory::find_free_ram().  RegionList and FreeRam model the same calls   *)
(* step by step; here each one is an operator, and the list is taken to    *)
(* have room for another entry.                                            *)
(***************************************************************************)
EXTENDS Regions

Interval(b, e, t) == [begin |-> b, end |-> e, tag |-> t]

\* Region::start_size()
StartSize(b, n, t) == Interval(b, b + n - 1, t)

\* add(r): "Region overlap" is a panic.
AddPanics(list, r) == ~TooSmall(r) /\ Collides(list, r)
Added(list, r) == IF TooSmall(r) \/ Collides(list, r) THEN list ELSE Placed(list, r)

\* add() of a sequence of regions, one after the other
AddAll(list, new) == FoldLeft(Added, list, new)
AddAllPanics(list, new) ==
  \E i \in DOMAIN new : AddPanics(AddAll(list, SubSeq(new, 1, i - 1)), new[i])

\* add(r, true)
AddedOver(list, r) == IF TooSmall(r) THEN list ELSE Placed(list, r)

TotalSize(list) == FoldLeft(LAMBDA n, r : n + Size(r), 0, list)

\* add(r) to a list of at most `max' bytes
AddedUpTo(list, r, max) ==
  LET left == max - TotalSize(list)
  IN IF left <= 0 THEN list
     ELSE Added(list, IF Size(r) > left THEN StartSize(r.begin, left, r.tag) ELSE r)

AddUpToPanics(list, r, max) ==
  LET left == max - TotalSize(list)
  IN left > 0 /\ AddPanics(list, IF Size(r) > left THEN StartSize(r.begin, left, r.tag) ELSE r)

\* Two neighbours optimize() turns into one.
Joins(c, n) == n.tag = c.tag /\ RoundPage(c.end) >= TruncPage(n.begin)

Optimized(list) ==
  FoldLeft(LAMBDA done, n :
             IF done # <<>> /\ Joins(Last(done), n)
             THEN [done EXCEPT ![Len(done)].end = n.end]
             ELSE Append(done, n),
           <<>>, list)

\* sub(r): the first entry that contains r loses it.
SubFinds(list, r) == FindContaining(list, r) # 0

Subtracted(list, r) ==
  LET k == FindContaining(list, r)
      c == list[k]
      low  == IF c.begin = r.begin THEN <<>> ELSE <<[c EXCEPT !.end = r.begin - 1]>>
      high == IF c.end = r.end THEN <<>> ELSE <<[c EXCEPT !.begin = r.end + 1]>>
  IN IF k = 0 THEN list
     ELSE SubSeq(list, 1, k - 1) \o low \o high \o SubSeq(list, k + 1, Len(list))

\* find_free_ram(size, min, ~0, align): the aligned pieces of RAM that
\* `sysalloc' allows and no region of `list' uses; the lowest one is returned,
\* by find_free_ram_rev() the highest one, and 0 if there is none.
Holes(ram, sysalloc, list, size, min, align) ==
  LET n == RoundSize(size, align)
      In(l, h) == \E i \in DOMAIN l : Encloses(l[i], h)
      Free(a) ==
        LET h == [begin |-> a, end |-> a + n - 1]
        IN /\ a + n - 1 <= MaxAddr
           /\ In(ram, h) /\ In(sysalloc, h)
           /\ Find(list, h) = 0
  IN { a \in Addr \ {0} : a >= min /\ a % align = 0 /\ Free(a) }

LowestHole(ram, sysalloc, list, size, min, align) ==
  LET holes == Holes(ram, sysalloc, list, size, min, align)
  IN IF holes = {} THEN 0 ELSE CHOOSE a \in holes : \A b \in holes : a <= b

HighestHole(ram, sysalloc, list, size, min, align) ==
  LET holes == Holes(ram, sysalloc, list, size, min, align)
  IN IF holes = {} THEN 0 ELSE CHOOSE a \in holes : \A b \in holes : a >= b

=============================================================================
