----------------------------- MODULE Multiboot2 -----------------------------
(***************************************************************************)
(* multiboot2.cc: the multiboot 2 information is turned into multiboot 1   *)
(* information in its own buffer.  Each tag is rotated to the end of the   *)
(* buffer, what has to stay of it is cut off there, and the rest (its      *)
(* header) makes room for the multiboot 1 structure at the beginning.      *)
(*                                                                         *)
(* A cell of the buffer is 8 bytes, the alignment of tags.  Cell j of tag  *)
(* i is <<i, j>>; its header is cell 0.  A converted cell is <<i, 100+x>>. *)
(***************************************************************************)
EXTENDS Integers, SequencesExt

CONSTANTS
  Chunk,      \* the size of the stack buffer of rotate_to_end()
  MbiCells,   \* sizeof(_mbi)
  VbeCells,   \* sizeof(_vbe_mode) + sizeof(_vbe_ctrl)
  TagLists    \* the inputs: sequences of records [type, cells, rgb]

TagTypes == {"cmdline", "module", "memmap", "fb", "rsdp", "other", "end"}

\* Cells a tag has in front of what is kept of it: a module tag has its two
\* addresses there, a memory map the size of its entries.
HeadCells(type) == IF type \in {"module", "memmap"} THEN 2 ELSE 1

ASSUME TagAssumption ==
  /\ Chunk \in Nat \ {0} /\ MbiCells \in Nat \ {0} /\ VbeCells \in Nat
  /\ \A l \in TagLists :
       /\ l \in Seq([type : TagTypes, cells : Nat \ {0}, rgb : BOOLEAN])
       /\ \A i \in DOMAIN l : /\ l[i].type = "end" <=> i = Len(l)
                              /\ l[i].cells >= HeadCells(l[i].type)

VARIABLES
  tags,    \* the tags of the input
  buf,     \* the buffer; cell 1 is the header of the information
  size,    \* _size: the part of the buffer that is still worked on
  tag,     \* the position of the tag looked at
  next,    \* history: the tag that should be there
  mbi,     \* _mbi, with the addresses of what was kept; 0 if absent
  cnt,     \* cnt of process_modules()
  mpc

mvars == <<tags, buf, size, tag, next, mbi, cnt, mpc>>

NoMbi == [cmdline |-> 0, mods |-> 0, count |-> 0, mmap |-> 0, mmapLen |-> 0,
          video |-> FALSE, rsdp |-> 0, at |-> 0]

CellsOf(l, i) == [j \in 1..l[i].cells |-> <<i, j - 1>>]

MInit ==
  /\ tags \in TagLists
  /\ buf = FoldLeft(LAMBDA b, i : b \o CellsOf(tags, i), << <<0, 0>> >>, [i \in DOMAIN tags |-> i])
  /\ size = Len(buf)
  /\ tag = 2
  /\ next = 1
  /\ mbi = NoMbi
  /\ cnt = 0
  /\ mpc = "tags"

\* The tag found in memory at the position looked at, if it is the header of one
Here == tags[buf[tag][1]]
Id == buf[tag][1]
AtTag == tag <= Len(buf) /\ Id \in DOMAIN tags /\ buf[tag][2] = 0
Reading == mpc = "tags" /\ AtTag

-----------------------------------------------------------------------------
(* rotate_to_end(), reserve_from_end() *)

Chunks(n) ==
  [k \in 1..((n + Chunk - 1) \div Chunk) |-> IF k * Chunk <= n THEN Chunk ELSE n % Chunk]

\* Mutant: the chunks change places.
RotateOnce_Swap(b, c) ==
  SubSeq(b, 1, tag - 1) \o SubSeq(b, tag, tag + c - 1) \o SubSeq(b, tag + c, Len(b))

RotateOnce(b, c) ==
  SubSeq(b, 1, tag - 1) \o SubSeq(b, tag + c, size)
    \o SubSeq(b, tag, tag + c - 1) \o SubSeq(b, size + 1, Len(b))

Rotated == FoldLeft(RotateOnce, buf, Chunks(Here.cells))

\* dst_tag
Dst == size - Here.cells + 1

\* The memory moves are defined only for a tag within the buffer.
InBuffer == tag + Here.cells - 1 <= size

Stop(why) ==
  /\ mpc' = why
  /\ UNCHANGED <<tags, buf, size, tag, next, mbi, cnt>>

\* A tag whose last `keep' cells stay at the end of the buffer b
Keep(keep, b, m) ==
  IF ~InBuffer THEN Stop("corrupt")
  ELSE IF keep > size THEN Stop("assert")
  ELSE /\ buf' = b
       /\ size' = size - keep
       /\ mbi' = m
       /\ next' = next + 1
       /\ UNCHANGED <<tags, tag, mpc>>

Payload == Here.cells - HeadCells(Here.type)

-----------------------------------------------------------------------------
(* The tags *)

ProcessCmdline ==
  /\ Reading /\ cnt = 0
  /\ Here.type = "cmdline"
  /\ Keep(Payload, Rotated, [mbi EXCEPT !.cmdline = Dst + 1])
  /\ UNCHANGED cnt

\* One iteration of process_modules(): the command line stays, the header
\* becomes a multiboot 1 entry next to those of the modules before.
ProcessModule ==
  /\ Reading
  /\ Here.type = "module"
  /\ Keep(Payload, [Rotated EXCEPT ![Dst] = <<Id, 100>>, ![Dst + 1] = <<Id, 100 + Dst + 2>>], mbi)
  /\ cnt' = cnt + 1

EntryCells == 2 * cnt

ModulesEnd ==
  /\ Reading /\ cnt > 0
  /\ Here.type # "module"
  /\ size' = size - EntryCells
  /\ mbi' = [mbi EXCEPT !.count = cnt, !.mods = size - EntryCells + 1]
  /\ cnt' = 0
  /\ UNCHANGED <<tags, buf, tag, next, mpc>>

\* mmap_length
MapCells == Payload

ProcessMemmap ==
  /\ Reading /\ cnt = 0
  /\ Here.type = "memmap"
  /\ Keep(Payload,
          [p \in DOMAIN buf |-> IF p > Dst + 1 /\ p <= size THEN <<Id, 100 + p - Dst>> ELSE Rotated[p]],
          [mbi EXCEPT !.mmap = Dst + 2, !.mmapLen = MapCells])
  /\ UNCHANGED cnt

\* The mode is copied out of the tag.  What is reserved is as large as the
\* structures it goes to, not as the tag, so that tags that wait may be cut off
\* with it; finalize() puts the structures at the beginning.
ProcessFb ==
  /\ Reading /\ cnt = 0
  /\ Here.type = "fb"
  /\ Keep(IF Here.rgb THEN VbeCells ELSE 0, Rotated, [mbi EXCEPT !.video = mbi.video \/ Here.rgb])
  /\ UNCHANGED cnt

ProcessRsdp ==
  /\ Reading /\ cnt = 0
  /\ Here.type = "rsdp"
  /\ Keep(Payload, Rotated, [mbi EXCEPT !.rsdp = Dst + 1])
  /\ UNCHANGED cnt

SkipTag ==
  /\ Reading /\ cnt = 0
  /\ Here.type = "other"
  /\ tag' = tag + Here.cells
  /\ next' = next + 1
  /\ UNCHANGED <<tags, buf, size, mbi, cnt, mpc>>

\* What is read is no tag any more; what the loop does then is anybody's guess.
ReadGarbage ==
  /\ mpc = "tags" /\ ~AtTag
  /\ Stop("corrupt")

Finalize ==
  /\ Reading /\ cnt = 0
  /\ Here.type = "end"
  /\ LET vbe == IF mbi.video THEN VbeCells ELSE 0 IN
     IF MbiCells + vbe > size THEN Stop("assert")
     ELSE /\ buf' = [p \in DOMAIN buf |->
                       IF p <= vbe THEN <<0, 1>>
                       ELSE IF p <= vbe + MbiCells THEN <<0, 2>>
                       ELSE IF p <= size THEN <<0, 0>> ELSE buf[p]]
          /\ mbi' = [mbi EXCEPT !.at = vbe + 1]
          /\ mpc' = "done"
          /\ UNCHANGED <<tags, size, tag, next, cnt>>

MStep ==
  \/ ProcessCmdline \/ ProcessModule \/ ModulesEnd \/ ProcessMemmap
  \/ ProcessFb \/ ProcessRsdp \/ SkipTag \/ ReadGarbage \/ Finalize

-----------------------------------------------------------------------------
(* Properties *)

TagsOf(type) == SelectSeq([i \in DOMAIN tags |-> i], LAMBDA i : tags[i].type = type)

\* At every position p the buffer holds the cells of tag i from j on.
Holds(p, i, j) == \A x \in j..(tags[i].cells - 1) : buf[p + x - j] = <<i, x>>

\* No tag that is rotated comes after a framebuffer with an RGB mode.
FbLast ==
  \A i, j \in DOMAIN tags :
    (i < j /\ tags[i].type = "fb" /\ tags[i].rgb) => tags[j].type \in {"other", "end"}

\* While tags are rotated underneath it, the loop meets every tag, in order
\* and unchanged: what lies behind the tag looked at are the tags that have
\* not been converted yet.
TagsWaiting ==
  (mpc = "tags" /\ FbLast) =>
    LET left == [k \in 1..(Len(tags) - next + 1) |-> next + k - 1]
        rest == FoldLeft(LAMBDA b, i : b \o CellsOf(tags, i), <<>>, left)
    IN tag + Len(rest) - 1 <= Len(buf) /\ SubSeq(buf, tag, tag + Len(rest) - 1) = rest

\* What the tags leave in the buffer: their headers, or all of a tag of which
\* nothing is kept.  Module headers become entries.
Left(t) == CASE t.type = "module" -> 0
             [] t.type \in {"fb", "other", "end"} -> t.cells
             [] OTHER -> HeadCells(t.type)
HeaderRoom == 1 + FoldLeft(LAMBDA n, t : n + Left(t), 0, tags)

\* Room for the structures of a video mode is taken twice: by process_fb() at
\* the end, by finalize() at the beginning.
VideoRoom == IF \E i \in DOMAIN tags : tags[i].type = "fb" /\ tags[i].rgb THEN 2 * VbeCells ELSE 0

\* "There must be enough tags to create enough space": the conversion fails
\* only without it, and no memory outside the buffer is ever touched.
FailsOnlyWithoutRoom ==
  FbLast => /\ mpc # "corrupt"
            /\ mpc = "assert" => HeaderRoom < MbiCells + VideoRoom

\* The multiboot 1 information refers to the contents of the tags, complete,
\* in order and not overwritten, and lies apart from them.
Converted ==
  (mpc = "done" /\ FbLast) =>
    /\ \A k \in DOMAIN TagsOf("cmdline") :
         mbi.cmdline > size /\ Holds(mbi.cmdline, Last(TagsOf("cmdline")), 1)
    /\ mbi.count = Len(TagsOf("module"))
    /\ \A k \in 1..mbi.count :
         LET i == TagsOf("module")[k]
             e == mbi.mods + 2 * (k - 1)
         IN /\ buf[e] = <<i, 100>>
            /\ buf[e + 1][1] = i
            /\ Holds(buf[e + 1][2] - 100, i, 2)
    /\ \A k \in DOMAIN TagsOf("memmap") :
         LET i == Last(TagsOf("memmap")) IN
         /\ mbi.mmapLen = tags[i].cells - 2
         /\ \A x \in 1..mbi.mmapLen : buf[mbi.mmap + x - 1] = <<i, 101 + x>>
    /\ \A k \in DOMAIN TagsOf("rsdp") : Holds(mbi.rsdp, Last(TagsOf("rsdp")), 1)
    /\ \A p \in mbi.at..(mbi.at + MbiCells - 1) : buf[p] = <<0, 2>>

=============================================================================
