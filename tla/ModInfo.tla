------------------------------ MODULE ModInfo ------------------------------
(***************************************************************************)
(* The description of the boot modules in the image (mod_info.h,           *)
(* mod_info.cc): attributes are key-value pairs, one descriptor behind the *)
(* other, and the attribute "nodes" tells which AMP nodes a module is for. *)
(* An attribute list is a sequence of bytes.                               *)
(***************************************************************************)
EXTENDS Integers, Sequences, SequencesExt, FiniteSetsExt

Byte == 0..255

AttrMagic == <<65, 84, 84, 82>>             \* "ATTR"
NodesKey == <<110, 111, 100, 101, 115>>     \* "nodes"
RelocKey == <<114, 101, 108, 111, 99>>      \* "reloc"

Dash == 45
Colon == 58
Digit == 48..57

-----------------------------------------------------------------------------
(* Mod_attr_list::Descriptor, at position p of the list *)

Valid(kvs, p) == p <= Len(kvs) /\ kvs[p] \div 128 = 1

KeyLenSize(kvs, p) == 2 ^ (kvs[p] % 4)
ValLenSize(kvs, p) == 2 ^ ((kvs[p] \div 4) % 4)

LittleEndian(kvs, p, n) == MapThenSumSet(LAMBDA i : kvs[p + i] * 256 ^ i, 0..(n - 1))

KeySize(kvs, p) == LittleEndian(kvs, p + 1, KeyLenSize(kvs, p))
ValSize(kvs, p) == LittleEndian(kvs, p + 1 + KeyLenSize(kvs, p), ValLenSize(kvs, p))

HeaderSize(kvs, p) == 1 + KeyLenSize(kvs, p) + ValLenSize(kvs, p)

NextAttr(kvs, p) == p + HeaderSize(kvs, p) + KeySize(kvs, p) + ValSize(kvs, p)

Key(kvs, p) == SubSeq(kvs, p + HeaderSize(kvs, p), p + HeaderSize(kvs, p) + KeySize(kvs, p) - 1)
Val(kvs, p) == SubSeq(kvs, p + HeaderSize(kvs, p) + KeySize(kvs, p), NextAttr(kvs, p) - 1)

\* Mod_attr_list::find(): the value of the first pair with that key
FindAttr(kvs, key) ==
  LET Scan[p \in 1..(Len(kvs) + 1)] ==
        IF ~Valid(kvs, p) THEN <<>>
        ELSE IF Key(kvs, p) = key THEN Val(kvs, p)
        ELSE Scan[NextAttr(kvs, p)]
  IN IF IsPrefix(AttrMagic, kvs) THEN Scan[Len(AttrMagic) + 1] ELSE <<>>

-----------------------------------------------------------------------------
(* Mod_info::is_for_node() *)

\* cxx::String::from_dec(): how many digits there are, and their value
Digits(s) ==
  LET stop == SelectInSeq(s, LAMBDA c : c \notin Digit)
  IN IF stop = 0 THEN Len(s) ELSE stop - 1

FromDec(s) == FoldLeft(LAMBDA v, c : 10 * v + c - 48, 0, SubSeq(s, 1, Digits(s)))

\* A range is a number, or two of them with a dash in between.
ValidRange(r) ==
  LET n == Digits(r)
  IN n >= Len(r) \/ (r[n + 1] = Dash /\ Digits(SubSeq(r, n + 2, Len(r))) + n + 1 = Len(r))

InRange(r, node) ==
  LET n == Digits(r)
      first == FromDec(r)
      final == IF n >= Len(r) THEN first ELSE FromDec(SubSeq(r, n + 2, Len(r)))
  IN first <= node /\ node <= final

\* The ranges are tried from the left; an invalid one ends the search.
IsForNode(kvs, node) ==
  LET nodes == FindAttr(kvs, NodesKey)
      Try[p \in 1..(Len(nodes) + 1)] ==
        LET rest == SubSeq(nodes, p, Len(nodes))
            colon == SelectInSeq(rest, LAMBDA c : c = Colon)
            range == IF colon = 0 THEN rest ELSE SubSeq(rest, 1, colon - 1)
        IN /\ rest # <<>>
           /\ ValidRange(range)
           /\ InRange(range, node) \/ (colon # 0 /\ Try[p + colon])
  IN nodes = <<>> \/ Try[1]

=============================================================================
