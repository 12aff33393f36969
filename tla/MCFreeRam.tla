----------------------------- MODULE MCFreeRam -----------------------------
(***************************************************************************)
(* Searches in an address space of 24 bytes with two RAM regions, one or   *)
(* two sysalloc regions and up to two regions in use at arbitrary places.  *)
(***************************************************************************)
EXTENDS FreeRam

CONSTANTS t
MCTags == {t}
Span(b, e) == [begin |-> b, end |-> e, tag |-> t]

CONSTANTS Used   \* the addresses where regions in use begin and end

Singles == { r \in Region : r.begin \in Used /\ r.end \in Used /\ r.begin < r.end }
RegionMaps ==
  {<<>>} \cup { <<r>> : r \in Singles }
    \cup { p \in Singles \X Singles : p[1].end < p[2].begin }

All == Span(0, MaxAddr)

\* Memory at the bottom of the address space, as on most platforms.
LowSearches ==
  [dir : {"up", "down"}, size : {2, 4}, align : {2}, min : {0}, max : {MaxAddr},
   window : {All}, ram : {<<Span(0, 7)>>}, sysalloc : {<<All>>},
   regions : RegionMaps]

MCSearches ==
  LowSearches \cup
  [dir : {"up", "down"}, size : {2, 3}, align : {2, 4},
   min : {0, 6, 10}, max : {14, MaxAddr},
   window : {All, Span(10, 13)},
   ram : {<<Span(4, 9), Span(11, 15)>>, <<Span(5, 15)>>},
   sysalloc : {<<All>>, <<Span(3, 8), Span(10, 15)>>},
   regions : RegionMaps]
=============================================================================
