------------------------------- MODULE MCRam -------------------------------
(***************************************************************************)
(* The list `ram' in small: memory limited in size and address, regions of *)
(* whole pages of two kinds, added in any order, and room for two entries. *)
(***************************************************************************)
EXTENDS RegionList

CONSTANTS ram, tcm

MCTags == {ram, tcm}
PageRegions ==
  { r \in Region : TruncPage(r.begin) = r.begin /\ TruncPage(r.end + 1) = r.end + 1 }

Empty == <<>>

MCRequests == [op : {"add"}, r : PageRegions]
=============================================================================
