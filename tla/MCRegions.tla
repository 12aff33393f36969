------------------------------ MODULE MCRegions ------------------------------
(***************************************************************************)
(* The list `regions' in small: two pages of four bytes and room for three *)
(* entries.  Two module images, an arbitrary range that is claimed under   *)
(* one tag and short ranges under another, an arbitrary range to subtract. *)
(***************************************************************************)
EXTENDS RegionList

CONSTANTS mod, moved, merged

MCTags == {mod, moved, merged}
MCSysalloc == << [begin |-> 0, end |-> MaxAddr - 1, tag |-> merged] >>

Span(b, e, t) == [begin |-> b, end |-> e, tag |-> t]
Images == { Span(1, 4, mod), Span(6, 7, mod) }
Short == { Span(0, 1, moved), Span(2, 3, moved), Span(4, 5, moved) }
Long == { r \in Region : r.tag = merged /\ r.begin \in {0, 3, 5} }

MCRequests ==
  [op : {"add"}, r : Images \cup Short \cup Long]
    \cup [op : {"add_free", "add_elf"}, r : Short \cup Long]
    \cup [op : {"sub"}, r : Long]
    \cup [op : {"optimize", "merge", "remove_if"}, r : {Span(0, 1, merged)}]
=============================================================================
