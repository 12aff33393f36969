------------------------------- MODULE Regions -------------------------------
(***************************************************************************)
(* Memory regions of the boot loader: class Region of region.h and the     *)
(* read-only searches of class Region_list (find, find_rev, contains).     *)
(*                                                                         *)
(* A region is an inclusive interval [begin, end] of machine addresses     *)
(* with a tag.  The tag stands for the (name, type, sub_type, eager)       *)
(* attributes, which the list code only ever compares for equality.        *)
(* Address arithmetic is unsigned arithmetic modulo the word size.         *)
(***************************************************************************)
EXTENDS Integers, SequencesExt

CONSTANTS
  MaxAddr,    \* the largest machine address, ~0UL
  PageSize,   \* L4_PAGESIZE
  Tags        \* the attribute combinations regions may carry

ASSUME WordAssumption ==
  /\ MaxAddr \in Nat
  /\ PageSize \in Nat \ {0}
  /\ PageSize <= MaxAddr + 1
  /\ (MaxAddr + 1) % PageSize = 0

Addr == 0..MaxAddr

\* Unsigned long arithmetic: the result modulo the word size.
Word(x) == x % (MaxAddr + 1)

\* l4_trunc_size / l4_round_size for an alignment of `a' bytes; rounding up
\* wraps to 0 within the last `a' bytes of the address space.
TruncSize(x, a) == (x \div a) * a
RoundSize(x, a) == TruncSize(Word(x + a - 1), a)

TruncPage(x) == TruncSize(x, PageSize)
RoundPage(x) == RoundSize(x, PageSize)

-----------------------------------------------------------------------------
(* Class Region *)

Region == { r \in [begin : Addr, end : Addr, tag : Tags] : r.begin <= r.end }

Size(r) == Word(r.end - r.begin + 1)

\* operator <
Before(r, o) == r.end < o.begin

Overlaps(r, o) == ~Before(r, o) /\ ~Before(o, r)

\* contains(): o is a sub-region of r.
Encloses(r, o) == r.begin <= o.begin /\ r.end >= o.end

\* Mutant: the other region's bounds are ignored.
Intersect_Whole(r, o) == r

\* intersect() of overlapping regions; it keeps the attributes of r.
Intersect(r, o) ==
  [r EXCEPT !.begin = IF r.begin > o.begin THEN r.begin ELSE o.begin,
            !.end   = IF r.end < o.end THEN r.end ELSE o.end]

\* invalid(): the region that Region(No_mem) creates.
Invalid(r) == r.begin = 0 /\ r.end = 0

\* The addresses of a region and of a list of regions.
Bytes(r) == r.begin..r.end
Covered(list) == UNION { Bytes(list[i]) : i \in DOMAIN list }

\* The order of the entries of a region list
Ascending(l) == \A i, j \in DOMAIN l : i < j => Before(l[i], l[j])

-----------------------------------------------------------------------------
(* Searches of class Region_list; 0 stands for the null pointer. *)

Find(list, o) == SelectInSeq(list, LAMBDA c : Overlaps(c, o))

FindRev(list, o) == SelectLastInSeq(list, LAMBDA c : Overlaps(c, o))

FindContaining(list, o) == SelectInSeq(list, LAMBDA c : Encloses(c, o))

-----------------------------------------------------------------------------
(* The place of a new entry in a sorted list, add_nolimitcheck() *)

\* Append if the last entry lies before the region, else insert in front of
\* the first entry that does not.
AppendsTo(list, r) == list = <<>> \/ Before(list[Len(list)], r)

PlaceOf(list, r) ==
  IF AppendsTo(list, r) THEN Len(list) + 1
  ELSE CHOOSE i \in 1..Len(list) :
         /\ ~Before(list[i], r)
         /\ \A j \in 1..(i - 1) : Before(list[j], r)

\* Mutant: a common last byte goes unnoticed.
Collides_OffByOne(list, r) ==
  ~AppendsTo(list, r) /\ r.end > list[PlaceOf(list, r)].begin

\* The new entry collides with the one at its place ("Region overlap").
Collides(list, r) == ~AppendsTo(list, r) /\ ~Before(r, list[PlaceOf(list, r)])

Placed(list, r) == InsertAt(list, PlaceOf(list, r), r)

\* Mutant: regions of two bytes are left out as well.
TooSmall_TwoBytes(r) == r.end - r.begin <= 1

\* Regions of one byte are taken for empty ones and left out.
TooSmall(r) == r.begin = r.end

=============================================================================
