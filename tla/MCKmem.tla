------------------------------- MODULE MCKmem -------------------------------
(***************************************************************************)
(* Two -kmemarea parameters on two RAM regions with up to two regions in   *)
(* use, which begin at the addresses Starts and end at Ends.               *)
(***************************************************************************)
EXTENDS KmemArea

CONSTANTS used, kmem, Starts, Ends

MCTags == {used, kmem}
Span(b, e, t) == [begin |-> b, end |-> e, tag |-> t]

Spans(t) == { Span(p[1], p[2], t) : p \in { x \in Starts \X Ends : x[1] < x[2] } }

Lists ==
  {<<>>} \cup { <<r>> : r \in Spans(used) }
    \cup { p \in Spans(used) \X Spans(used) : p[1].end < p[2].begin }

MCCases ==
  [ram : {<<Span(0, 5, used), Span(8, 13, used)>>, <<Span(2, 15, used)>>},
   list : Lists,
   areas : { <<Span(0, 15, kmem)>> } \cup ({Span(2, 9, kmem)} \X Spans(kmem))]
=============================================================================
