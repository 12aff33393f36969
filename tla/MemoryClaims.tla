---------------------------- MODULE MemoryClaims ----------------------------
(***************************************************************************)
(* What a list of memory regions promises its callers: it records, for     *)
(* every address, the tags under which the address is claimed.  A call is  *)
(* requested, and either returns with its effect or never returns (the     *)
(* boot loader panics).  A call has no effect on addresses it does not     *)
(* name, except that compaction may extend a claim within pages that the   *)
(* tag already has a claim in.                                             *)
(***************************************************************************)
EXTENDS Integers

CONSTANTS MaxAddr, PageSize, Tags, TempTags, ModTags, MergedTag, Requests, NoCall

VARIABLES
  owner,    \* the tags each address is claimed under
  request   \* the call in progress, or NoCall

Page(a) == a \div PageSize
Unchanged(o) == o = owner

\* p extends the claims of o within the pages each tag already touches.
Compacted(o, p) ==
  \A a \in 0..MaxAddr :
    /\ o[a] \subseteq p[a]
    /\ \A t \in p[a] \ o[a] : \E b \in 0..MaxAddr : Page(b) = Page(a) /\ t \in o[b]

Claimed(r) ==
  [a \in 0..MaxAddr |-> IF a \in r.begin..r.end THEN owner[a] \cup {r.tag} ELSE owner[a]]

Released(lo, hi) == [a \in 0..MaxAddr |-> IF a \in lo..hi THEN {} ELSE owner[a]]

Retagged ==
  [a \in 0..MaxAddr |-> { IF t \in ModTags THEN MergedTag ELSE t : t \in owner[a] }]

\* Addresses are claimed only where no claim, or only a temporary one, exists;
\* a single byte is not worth a claim.
ClaimEffect(r, blocking, o) ==
  IF r.begin = r.end THEN Unchanged(o)
  ELSE /\ \A a \in r.begin..r.end : owner[a] \cap blocking = {}
       /\ Compacted(Claimed(r), o)

\* Exactly the named range is released, if one claim covers it.  A last
\* single byte of the claim behind the range may be given up with it.
ReleaseEffect(r, o) ==
  \/ Unchanged(o)
  \/ /\ \E t \in Tags : \A a \in r.begin..r.end : t \in owner[a]
     /\ \/ Compacted(Released(r.begin, r.end), o)
        \/ Compacted(Released(r.begin, r.end + 1), o)

Effect(q, o) ==
  CASE q.op \in {"add", "add_free"} -> ClaimEffect(q.r, Tags, o)
    [] q.op = "add_elf" -> ClaimEffect(q.r, Tags \ TempTags, o)
    [] q.op = "sub" -> ReleaseEffect(q.r, o)
    [] q.op = "optimize" -> Compacted(owner, o)
    [] q.op = "merge" -> Compacted(Retagged, o)
    [] q.op = "remove_if" -> o = [a \in 0..MaxAddr |-> owner[a] \ TempTags]

Init == owner = [a \in 0..MaxAddr |-> {}] /\ request = NoCall

Request(q) ==
  /\ request = NoCall
  /\ request' = q
  /\ UNCHANGED owner

Return ==
  /\ request # NoCall
  /\ request' = NoCall
  /\ Effect(request, owner')

Next == Return \/ \E q \in Requests : Request(q)

Spec == Init /\ [][Next]_<<owner, request>>

=============================================================================
