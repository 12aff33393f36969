------------------------------ MODULE FreeRam ------------------------------
(***************************************************************************)
(* The search for free RAM: Memory::find_free_ram() and                    *)
(* find_free_ram_rev() of memory.cc with the loops of                      *)
(* Region_list::find_free() and find_free_rev() (region.cc) they run.      *)
(*                                                                         *)
(* A search walks the RAM regions, cuts each down to the range of          *)
(* addresses asked for, to the window of the platform's validate() hook    *)
(* and to the regions of `sysalloc', and looks for a hole in `regions' in  *)
(* what remains.  One iteration of a loop is one step.  An address is an   *)
(* unsigned long: it wraps, and a failed assertion of class Region halts   *)
(* the machine.                                                            *)
(***************************************************************************)
EXTENDS Regions

CONSTANTS
  MinRam,     \* sizeof(unsigned long), the lowest address handed out
  Searches    \* the calls: records of type Search

\* A call, with the lists it searches.  The alignment is given in bytes.
Search ==
  [dir : {"up", "down"}, size : Addr \ {0}, align : Addr \ {0},
   min : Addr, max : Addr, window : Region,
   ram : Seq(Region), sysalloc : Seq(Region), regions : Seq(Region)]

Larger(x, y) == IF x > y THEN x ELSE y
Smaller(x, y) == IF x < y THEN x ELSE y

\* No caller passes a range that is empty, and the lists `ram' and `sysalloc'
\* are sorted.
ASSUME SearchAssumption ==
  /\ MinRam \in Addr \ {0}
  /\ Searches \subseteq Search
  /\ \A s \in Searches : /\ Larger(s.min, MinRam) <= s.max
                         /\ Ascending(s.ram) /\ Ascending(s.sysalloc)

VARIABLES
  q,        \* the call
  rr,       \* the index of the RAM region looked at
  bound,    \* min of the upward, max of the downward search
  area,     \* search_area
  part,     \* int_area
  at,       \* start of find_free(), end of find_free_rev()
  pc,       \* the loop that runs
  result    \* the value returned

vars == <<q, rr, bound, area, part, at, pc, result>>

Up == q.dir = "up"

\* l4_round_size(_size, align): what is really looked for.
Need == RoundSize(q.size, q.align)
MinAddr == Larger(q.min, MinRam)

Init ==
  /\ q \in Searches
  /\ rr = IF Up THEN 1 ELSE Len(q.ram)
  /\ bound = IF Up THEN MinAddr ELSE q.max
  /\ area = q.window
  /\ part = q.window
  /\ at = 0
  /\ pc = "ram"
  /\ result = 0

NextRam == rr' = IF Up THEN rr + 1 ELSE rr - 1

Answer(x) ==
  /\ result' = x
  /\ pc' = "done"
  /\ UNCHANGED <<q, rr, bound, area, part, at>>

\* A failed assertion
Fail ==
  /\ pc' = "failed"
  /\ UNCHANGED <<q, rr, bound, area, part, at, result>>

-----------------------------------------------------------------------------
(* The loop over RAM *)

\* RAM region r lies outside of the range searched; else what is in it.
SkipRam(r) ==
  IF Up THEN bound >= r.end \/ q.max <= r.begin
        ELSE MinAddr >= r.end \/ bound <= r.begin

Cut(r) ==
  IF Up THEN [r EXCEPT !.begin = Larger(r.begin, bound), !.end = Smaller(r.end, q.max)]
        ELSE [r EXCEPT !.begin = Larger(r.begin, MinAddr), !.end = Smaller(r.end, bound)]

Ram ==
  /\ pc = "ram"
  /\ IF rr \notin DOMAIN q.ram THEN Answer(0)
     ELSE LET r == q.ram[rr]
              c == Cut(r) IN
       \/ /\ SkipRam(r)
          /\ NextRam
          /\ UNCHANGED <<q, bound, area, part, at, pc, result>>
       \/ /\ ~SkipRam(r)
          /\ IF c.end < c.begin THEN Fail
             ELSE
               /\ bound' = IF Up THEN c.begin ELSE c.end
               /\ IF Overlaps(c, q.window)                      \* validate()
                  THEN /\ area' = Intersect(c, q.window)
                       /\ pc' = "sysalloc"
                       /\ UNCHANGED rr
                  ELSE NextRam /\ UNCHANGED <<area, pc>>
               /\ UNCHANGED <<q, part, at, result>>

-----------------------------------------------------------------------------
(* The loop over sysalloc *)

Sysalloc ==
  /\ pc = "sysalloc"
  /\ LET k == IF Up THEN Find(q.sysalloc, area) ELSE FindRev(q.sysalloc, area)
         p == Intersect(q.sysalloc[k], area)
     IN \/ /\ k = 0
           /\ NextRam
           /\ pc' = "ram"
           /\ UNCHANGED <<q, bound, area, part, at, result>>
        \/ /\ k # 0
           /\ part' = p
           /\ at' = IF Up THEN p.begin ELSE p.end
           /\ pc' = "try"
           /\ UNCHANGED <<q, rr, bound, area, result>>

\* No hole in part: look at the rest of the search area.
NextPart ==
  LET next == IF Up THEN Word(part.end + 1) ELSE Word(part.begin - 1)
      last == IF Up THEN next > area.end \/ next < part.end ELSE next < area.begin
  IN \/ /\ last
        /\ NextRam
        /\ pc' = "ram"
        /\ UNCHANGED <<q, bound, area, part, at, result>>
     \/ /\ ~last
        /\ area' = IF Up THEN [area EXCEPT !.begin = next] ELSE [area EXCEPT !.end = next]
        /\ pc' = "sysalloc"
        /\ UNCHANGED <<q, rr, bound, part, at, result>>

-----------------------------------------------------------------------------
(* One iteration of find_free() and find_free_rev() *)

Candidate ==
  IF Up THEN RoundSize(at, q.align)
        ELSE TruncSize(Word(at - (Need - 1)), q.align)

\* Mutant: a candidate that just fits is refused.
Exhausted_OffByOne ==
  IF Up THEN Word(Candidate + Need - 1) >= part.end ELSE Candidate < part.begin

\* The loop ends with the answer "none".
Exhausted ==
  IF Up THEN Word(Candidate + Need - 1) > part.end ELSE Candidate < part.begin

\* Mutant: the region run into is not passed.
Beyond_Stuck(z) == IF Up THEN z.end ELSE z.begin

\* Where the loop goes on after running into region z.
Beyond(z) == IF Up THEN Word(z.end + 1) ELSE Word(z.begin - 1)

Try ==
  /\ pc = "try"
  /\ LET a == Candidate
         hole == [part EXCEPT !.begin = a, !.end = Word(a + Need - 1)]
         z == Find(q.regions, hole)
     IN \/ /\ Exhausted
           /\ NextPart
        \/ /\ ~Exhausted /\ (Need = 0 \/ hole.end < a)
           /\ Fail
        \/ /\ ~Exhausted /\ Need # 0 /\ a <= hole.end /\ z = 0
           /\ IF a # 0 THEN Answer(a) ELSE NextPart
        \/ /\ ~Exhausted /\ Need # 0 /\ a <= hole.end /\ z # 0
           /\ at' = Beyond(q.regions[z])
           /\ UNCHANGED <<q, rr, bound, area, part, pc, result>>

Done == pc \in {"done", "failed"} /\ UNCHANGED vars

Step == Ram \/ Sysalloc \/ Try
Next == Step \/ Done
Spec == Init /\ [][Next]_vars /\ WF_vars(Step)

-----------------------------------------------------------------------------
(* Properties *)

\* Type invariant of a search.
TypeOK ==
  /\ q \in Searches
  /\ rr \in Nat
  /\ bound \in Addr
  /\ area \in Region
  /\ part \in Region
  /\ at \in Addr
  /\ pc \in {"ram", "sysalloc", "try", "done", "failed"}
  /\ result \in Addr

\* a is the start of a free, aligned piece of memory that the caller may use:
\* within one RAM region, one sysalloc region, the platform's window and the
\* bounds of the call, and clear of every region in use.
Hole(a) ==
  LET bytes == a..(a + Need - 1)
      Inside(r) == bytes \subseteq Bytes(r)
  IN /\ a >= MinAddr
     /\ a + Need - 1 <= q.max
     /\ a % q.align = 0
     /\ \E i \in DOMAIN q.ram : Inside(q.ram[i])
     /\ \E i \in DOMAIN q.sysalloc : Inside(q.sysalloc[i])
     /\ Inside(q.window)
     /\ bytes \cap Covered(q.regions) = {}

Holes == { a \in Addr \ {0} : Hole(a) }

\* The lists stay clear of both ends of the address space.  At the top, an
\* address plus the size looked for does not wrap; at the bottom, every list
\* entry ends at least that size above 0, and so does what lies below a
\* region in use, unless no aligned piece of memory can touch that region.
\* More than one byte is looked for, as the callers align to pages: a single
\* byte at the very end of a RAM region would not be found.
Roomy ==
  LET ends == { q.max, q.window.end }
                \cup { q.ram[i].end : i \in DOMAIN q.ram }
                \cup { q.sysalloc[i].end : i \in DOMAIN q.sysalloc }
  IN /\ Need \in 2..MaxAddr
     /\ \A e \in ends : e >= Need - 1
     /\ \A i \in DOMAIN q.ram : q.ram[i].end + q.align + Need <= MaxAddr
     /\ \A i \in DOMAIN q.regions :
          /\ q.regions[i].end + q.align + Need <= MaxAddr
          /\ q.regions[i].begin >= Need \/ q.regions[i].end < q.align

\* find_free_ram() returns the lowest hole there is, find_free_ram_rev() the
\* highest one, and 0 only if there is none: neither loop skips a hole when
\* it jumps over a region, and no answer lies in memory that is in use, not
\* RAM, or not for allocation.
FindsBestHole ==
  pc = "done" /\ Roomy =>
    IF Holes = {} THEN result = 0
    ELSE /\ result \in Holes
         /\ \A a \in Holes : IF Up THEN result <= a ELSE result >= a

\* No search runs into an assertion of class Region.
NeverAsserts == pc = "failed" => ~Roomy

\* Every search ends: the inner loops always make progress.
SearchEnds == Roomy ~> pc = "done"

\* find_free_ram() and find_free_ram_rev() are sound throughout: their loops
\* keep to their types, no assertion of class Region fails on the way, and the
\* answer is the best hole.
SearchRight == TypeOK /\ FindsBestHole /\ NeverAsserts

=============================================================================
