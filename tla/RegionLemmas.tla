---------------------------- MODULE RegionLemmas ----------------------------
(***************************************************************************)
(* Facts about sequences and about the operators of Regions that the       *)
(* proofs of the other modules cite.                                       *)
(***************************************************************************)
EXTENDS Regions, TLAPS, SequenceTheorems, WellFoundedInduction

\* A nonempty set of naturals has a least element.
LEMMA LeastElement ==
  ASSUME NEW I \in SUBSET Nat, I # {}
  PROVE  \E m \in I : \A y \in I : m <= y
<1> DEFINE R == { p \in Nat \X Nat : p[1] < p[2] }
<1>1. IsWellFoundedOn(R, Nat)
  BY NatLessThanWellFounded, Zenon DEF OpToRel
<1> HIDE DEF R
<1>2. PICK x \in I : \A y \in I : ~(<<y, x>> \in R)
  BY <1>1, WFMin
<1> USE DEF R
<1>3. \A y \in I : ~(y < x)
  BY <1>2
<1> QED BY <1>3

\* The result of unsigned arithmetic is an address, and for a natural number
\* no larger than the number.
LEMMA WordInAddr ==
  ASSUME NEW x \in Int
  PROVE  /\ Word(x) \in Addr
         /\ x \in Nat => Word(x) <= x
<1> DEFINE n == MaxAddr + 1
<1>1. n \in Nat /\ n > 0 /\ n - 1 = MaxAddr
  BY WordAssumption
<1> HIDE DEF n
<1>2. x % n >= 0 /\ x % n < n /\ x % n \in Int
  BY <1>1
<1>3. x \in Nat => x % n <= x
  BY <1>1
<1>4. Word(x) = x % n
  BY DEF Word, n
<1> QED BY <1>1, <1>2, <1>3, <1>4 DEF Addr

\* An address is not changed by unsigned arithmetic.
LEMMA WordSame ==
  ASSUME NEW x \in Nat, x <= MaxAddr
  PROVE  Word(x) = x
BY WordAssumption DEF Word

\* Division by an alignment.
LEMMA Division ==
  ASSUME NEW x \in Nat, NEW n \in Nat \ {0}
  PROVE  /\ x \div n \in Nat
         /\ (x \div n) * n \in Nat
         /\ (x \div n) * n <= x
         /\ x < (x \div n) * n + n
         /\ x % n = 0 => (x \div n) * n = x
<1> DEFINE q == x \div n
<1>1. q \in Nat /\ x = q * n + (x % n) /\ x % n \in 0..(n - 1)
  OBVIOUS
<1>2. q * n \in Nat
  BY <1>1
<1> HIDE DEF q
<1>3. q * n <= x /\ x < q * n + n /\ (x % n = 0 => q * n = x)
  BY <1>1, <1>2
<1> QED BY <1>1, <1>2, <1>3 DEF q

\* A multiple of n divides without remainder.
LEMMA Multiple ==
  ASSUME NEW q \in Nat, NEW n \in Nat \ {0}
  PROVE  (q * n) % n = 0
<1>1. q * n \in Nat
  OBVIOUS
<1> DEFINE x == q * n
           p == x \div n
<1>2. p \in Nat /\ p * n \in Nat /\ p * n <= x /\ x < p * n + n /\ x = p * n + (x % n)
  BY <1>1, Division
<1>3. p * n <= q * n /\ q * n < p * n + n /\ q * n = p * n + (x % n)
  BY <1>2
<1> HIDE DEF p, x
<1>4. p = q
  <2>1. ASSUME p > q PROVE FALSE
    <3>1. p * n >= (q + 1) * n
      BY <1>2, <2>1
    <3>2. (q + 1) * n = q * n + n
      OBVIOUS
    <3> QED BY <1>1, <1>2, <1>3, <3>1, <3>2
  <2>2. ASSUME p < q PROVE FALSE
    <3>1. q * n >= (p + 1) * n
      BY <1>2, <2>2
    <3>2. (p + 1) * n = p * n + n
      BY <1>2
    <3> QED BY <1>1, <1>2, <1>3, <3>1, <3>2
  <2> QED BY <1>2, <2>1, <2>2
<1>5. x % n \in Int /\ x % n = 0
  BY <1>1, <1>3, <1>4 DEF x
<1> QED BY <1>5 DEF x

\* l4_trunc_size(): the largest multiple that is not larger.
LEMMA TruncBounds ==
  ASSUME NEW x \in Nat, NEW a \in Nat \ {0}
  PROVE  /\ TruncSize(x, a) \in Nat
         /\ TruncSize(x, a) <= x
         /\ x < TruncSize(x, a) + a
         /\ TruncSize(x, a) % a = 0
<1>1. x \div a \in Nat
  BY Division
<1> QED BY <1>1, Division, Multiple DEF TruncSize

\* l4_round_size() if it does not wrap: the smallest multiple that is not
\* smaller.
LEMMA RoundBounds ==
  ASSUME NEW x \in Nat, NEW a \in Nat \ {0}, x + a - 1 <= MaxAddr
  PROVE  /\ RoundSize(x, a) \in Nat
         /\ RoundSize(x, a) >= x
         /\ RoundSize(x, a) < x + a
         /\ RoundSize(x, a) % a = 0
<1> DEFINE y == x + a - 1
<1>1. y \in Nat /\ y <= MaxAddr /\ MaxAddr \in Nat
  BY WordAssumption
<1>2. Word(y) = y
  BY <1>1 DEF Word
<1>3. RoundSize(x, a) = TruncSize(y, a)
  BY <1>2 DEF RoundSize
<1> HIDE DEF y
<1>4. /\ TruncSize(y, a) \in Nat
      /\ TruncSize(y, a) <= y
      /\ y < TruncSize(y, a) + a
      /\ TruncSize(y, a) % a = 0
  BY <1>1, TruncBounds
<1> QED BY <1>3, <1>4 DEF y

\* Of two multiples of n, one that lies before the end of the n bytes at the
\* other is not the larger one.
LEMMA MultiplesApart ==
  ASSUME NEW k \in Nat, NEW p \in Nat, NEW n \in Nat \ {0},
         k % n = 0, p % n = 0, k < p + n
  PROVE  k <= p
<1> DEFINE a == k \div n
           b == p \div n
<1>1. a \in Nat /\ b \in Nat /\ a * n = k /\ b * n = p
  BY Division
<1> HIDE DEF a, b
<1>2. ~(a >= b + 1)
  <2> SUFFICES ASSUME a >= b + 1 PROVE FALSE
    OBVIOUS
  <2>1. a * n >= (b + 1) * n
    BY <1>1
  <2>2. (b + 1) * n = b * n + n
    BY <1>1
  <2> QED BY <1>1, <2>1, <2>2
<1>3. a * n <= b * n
  BY <1>1, <1>2
<1> QED BY <1>1, <1>3

\* The sum of two multiples.
LEMMA MultipleSum ==
  ASSUME NEW k \in Nat, NEW p \in Nat, NEW n \in Nat \ {0}, k % n = 0, p % n = 0
  PROVE  (k + p) % n = 0
<1> DEFINE a == k \div n
           b == p \div n
<1>1. a \in Nat /\ b \in Nat /\ a * n = k /\ b * n = p
  BY Division
<1> HIDE DEF a, b
<1>2. (a + b) * n = k + p /\ a + b \in Nat
  BY <1>1
<1>3. ((a + b) * n) % n = 0
  BY <1>2, Multiple
<1> QED BY <1>2, <1>3

-----------------------------------------------------------------------------
(* Sequences *)

\* The elements of a subsequence, the empty one included.
LEMMA SubSeqShape ==
  ASSUME NEW S, NEW s \in Seq(S), NEW m \in Int, NEW n \in Int, m >= 1, n <= Len(s), n >= m-1
  PROVE  /\ SubSeq(s,m,n) \in Seq(S)
         /\ Len(SubSeq(s,m,n)) = n-m+1
         /\ \A j \in 1..(n-m+1) : SubSeq(s,m,n)[j] = s[m+j-1]
<1>1. CASE n >= m
  BY <1>1, SubSeqProperties
<1>2. CASE n = m-1
  BY <1>2, SubSeqEmpty
<1> QED BY <1>1, <1>2

\* The elements of a concatenation.
LEMMA ConcatShape ==
  ASSUME NEW S, NEW s \in Seq(S), NEW t \in Seq(S)
  PROVE  /\ s \o t \in Seq(S)
         /\ Len(s \o t) = Len(s) + Len(t)
         /\ \A j \in 1..Len(s)+Len(t) : (s \o t)[j] = IF j <= Len(s) THEN s[j] ELSE t[j-Len(s)]
BY ConcatProperties


\* Inserting an element, the memmove() and store of add_nolimitcheck().
LEMMA InsertAtShape ==
  ASSUME NEW S, NEW s \in Seq(S), NEW e \in S, NEW i \in 1..Len(s)+1
  PROVE  /\ InsertAt(s,i,e) \in Seq(S)
         /\ Len(InsertAt(s,i,e)) = Len(s)+1
         /\ \A j \in 1..Len(s)+1 : InsertAt(s,i,e)[j] = IF j<i THEN s[j] ELSE IF j = i THEN e ELSE s[j-1]
<1> DEFINE a == SubSeq(s,1,i-1)
           b == SubSeq(s,i,Len(s))
           ae == a \o <<e>>
<1>0. Len(s) \in Nat /\ i \in Int
  BY LenProperties
<1>1. a \in Seq(S) /\ Len(a) = i-1 /\ \A j \in 1..i-1 : a[j] = s[j]
  BY <1>0, SubSeqShape
<1>2. b \in Seq(S) /\ Len(b) = Len(s)-i+1 /\ \A j \in 1..(Len(s)-i+1) : b[j] = s[i+j-1]
  BY <1>0, SubSeqShape
<1>3. <<e>> \in Seq(S) /\ Len(<<e>>) = 1 /\ <<e>>[1] = e
  OBVIOUS
<1> HIDE DEF a, b
<1>4. /\ ae \in Seq(S) /\ Len(ae) = i 
      /\ \A j \in 1..i : ae[j] = IF j < i THEN a[j] ELSE e
  BY <1>0, <1>1, <1>3, ConcatShape
<1> HIDE DEF ae
<1>5. /\ ae \o b \in Seq(S)
      /\ Len(ae \o b) = Len(ae) + Len(b)
      /\ \A j \in 1..Len(ae) + Len(b) :
           (ae \o b)[j] = IF j <= Len(ae) THEN ae[j] ELSE b[j - Len(ae)]
  BY <1>4, <1>2, ConcatShape
<1>7. Len(ae) = i /\ Len(ae) + Len(b) = Len(s) + 1
  BY <1>0, <1>2, <1>4
<1>8. \A j \in 1..Len(s)+1 : (ae \o b)[j] = IF j <= i THEN ae[j] ELSE b[j-i]
  BY <1>5, <1>7
<1>6. InsertAt(s,i,e) = ae \o b
  BY DEF InsertAt, ae, a, b
<1> QED BY <1>0, <1>1, <1>2, <1>4, <1>5, <1>6, <1>7, <1>8


\* Removing an element, the memmove() of remove().
LEMMA RemoveAtShape ==
  ASSUME NEW S, NEW s \in Seq(S), NEW i \in 1..Len(s)
  PROVE  /\ RemoveAt(s,i) \in Seq(S)
         /\ Len(RemoveAt(s,i)) = Len(s)-1
         /\ \A j \in 1..Len(s)-1 : RemoveAt(s,i)[j] = IF j<i THEN s[j] ELSE s[j+1]
<1> DEFINE a == SubSeq(s,1,i-1)
           b == SubSeq(s,i+1,Len(s))
<1>0. Len(s) \in Nat /\ i \in Int /\ i <= Len(s) /\ i >= 1
  BY LenProperties
<1>1. a \in Seq(S) /\ Len(a) = i-1 /\ \A j \in 1..i-1 : a[j] = s[j]
  BY <1>0, SubSeqShape
<1>2. b \in Seq(S) /\ Len(b) = Len(s)-(i+1)+1 /\ \A j \in 1..(Len(s)-(i+1)+1) : b[j] = s[(i+1)+j-1]
  BY <1>0, SubSeqShape
<1> HIDE DEF a, b
<1>5. /\ a \o b \in Seq(S) /\ Len(a \o b) = Len(a) + Len(b)
      /\ \A j \in 1..Len(a) + Len(b) : (a \o b)[j] = IF j <= Len(a) THEN a[j] ELSE b[j-Len(a)]
  BY <1>1, <1>2, ConcatShape
<1>6. RemoveAt(s,i) = a \o b
  BY DEF RemoveAt, a, b
<1>7. Len(a) + Len(b) = Len(s)-1
  BY <1>0, <1>1, <1>2
<1>8. ASSUME NEW j \in 1..Len(s)-1 PROVE (a \o b)[j] = IF j<i THEN s[j] ELSE s[j+1]
  <2>1. CASE j < i
    <3>1. (a \o b)[j] = a[j]
       BY <2>1, <1>0, <1>1, <1>5, <1>7
    <3> QED BY <3>1, <2>1, <1>0, <1>1
  <2>2. CASE ~(j < i)
    <3>1. (a \o b)[j] = b[j - Len(a)]
       BY <2>2, <1>0, <1>1, <1>5, <1>7
    <3>2. j - Len(a) = j - i + 1 /\ j-i+1 \in 1..(Len(s)-(i+1)+1)
      BY <2>2, <1>0, <1>1
    <3>3. b[j-i+1] = s[(i+1)+(j-i+1)-1]
      BY <3>2, <1>2
    <3>4. (i+1)+(j-i+1)-1 = j+1
      BY <1>0
    <3> QED BY <3>1, <3>2, <3>3, <3>4, <2>2, <1>0
  <2> QED BY <2>1, <2>2
<1> QED BY <1>5, <1>6, <1>7, <1>8

-----------------------------------------------------------------------------
(* The setters of class Region *)

\* A region with another end, another begin or another tag.
LEMMA WithEnd ==
  ASSUME NEW r \in Region, NEW e \in Addr, r.begin <= e
  PROVE  /\ [r EXCEPT !.end = e] \in Region
         /\ [r EXCEPT !.end = e].begin = r.begin
         /\ [r EXCEPT !.end = e].end = e
         /\ [r EXCEPT !.end = e].tag = r.tag
BY DEF Region

\* See above.
LEMMA WithBegin ==
  ASSUME NEW r \in Region, NEW b \in Addr, b <= r.end
  PROVE  /\ [r EXCEPT !.begin = b] \in Region
         /\ [r EXCEPT !.begin = b].begin = b
         /\ [r EXCEPT !.begin = b].end = r.end
         /\ [r EXCEPT !.begin = b].tag = r.tag
BY DEF Region

\* See above.
LEMMA WithTag ==
  ASSUME NEW r \in Region, NEW t \in Tags
  PROVE  /\ [r EXCEPT !.tag = t] \in Region
         /\ [r EXCEPT !.tag = t].begin = r.begin
         /\ [r EXCEPT !.tag = t].end = r.end
         /\ [r EXCEPT !.tag = t].tag = t
BY DEF Region

\* The bounds of a region are naturals in order.
LEMMA RegionBounds ==
  ASSUME NEW r \in Region
  PROVE  r.begin \in Nat /\ r.end \in Nat /\ r.begin <= r.end
BY DEF Region, Addr

\* The entries of a list are regions.
LEMMA Entries ==
  ASSUME NEW l \in Seq(Region)
  PROVE  /\ Len(l) \in Nat
         /\ DOMAIN l = 1..Len(l)
         /\ \A i \in 1..Len(l) : /\ l[i] \in Region
                                 /\ l[i].begin \in Nat /\ l[i].end \in Nat
                                 /\ l[i].begin <= l[i].end
<1>1. \A i \in 1..Len(l) : l[i] \in Region
  BY ElementOfSeq
<1> QED BY <1>1, LenProperties, RegionBounds

-----------------------------------------------------------------------------
(* Searches and places in a list of regions *)

\* contains() returns an entry that contains the region, or nothing.
LEMMA FindContainingFinds ==
  ASSUME NEW l \in Seq(Region), NEW o \in Region
  PROVE  LET k == FindContaining(l, o) IN
         \/ k = 0 /\ \A x \in 1..Len(l) : ~Encloses(l[x], o)
         \/ k \in 1..Len(l) /\ Encloses(l[k], o)
<1> DEFINE I == { i \in 1..Len(l) : Encloses(l[i], o) }
<1>1. FindContaining(l, o) = IF I # {} THEN Min(I) ELSE 0
  BY DEF FindContaining, SelectInSeq
<1>2. ASSUME I # {} PROVE Min(I) \in I
  <2>1. I \in SUBSET Nat
    BY LenProperties
  <2>2. \E m \in I : \A y \in I : m <= y
    BY <1>2, <2>1, LeastElement
  <2> QED BY <2>2 DEF Min
<1> QED BY <1>1, <1>2

\* find() returns the first entry that overlaps the region, or nothing.
LEMMA FindFinds ==
  ASSUME NEW l \in Seq(Region), NEW o \in Region
  PROVE  LET k == Find(l, o) IN
         \/ k = 0 /\ \A i \in 1..Len(l) : ~Overlaps(l[i], o)
         \/ /\ k \in 1..Len(l) /\ Overlaps(l[k], o)
            /\ \A i \in 1..Len(l) : Overlaps(l[i], o) => k <= i
<1> DEFINE I == { i \in 1..Len(l) : Overlaps(l[i], o) }
<1>1. Find(l, o) = IF I # {} THEN Min(I) ELSE 0
  BY DEF Find, SelectInSeq
<1>2. ASSUME I # {} PROVE Min(I) \in I /\ \A y \in I : Min(I) <= y
  <2>1. I \in SUBSET Nat
    BY LenProperties
  <2>2. \E m \in I : \A y \in I : m <= y
    BY <1>2, <2>1, LeastElement
  <2> QED BY <2>2 DEF Min
<1> QED BY <1>1, <1>2

\* find_rev() returns the last one.
LEMMA FindRevFinds ==
  ASSUME NEW l \in Seq(Region), NEW o \in Region
  PROVE  LET k == FindRev(l, o) IN
         \/ k = 0 /\ \A i \in 1..Len(l) : ~Overlaps(l[i], o)
         \/ /\ k \in 1..Len(l) /\ Overlaps(l[k], o)
            /\ \A i \in 1..Len(l) : Overlaps(l[i], o) => i <= k
<1> DEFINE I == { i \in 1..Len(l) : Overlaps(l[i], o) }
           J == { Len(l) - i : i \in I }
<1>1. FindRev(l, o) = IF I # {} THEN Max(I) ELSE 0
  BY DEF FindRev, SelectLastInSeq
<1>2. ASSUME I # {} PROVE Max(I) \in I /\ \A y \in I : Max(I) >= y
  <2>1. Len(l) \in Nat
    BY LenProperties
  <2>2. J \in SUBSET Nat /\ J # {}
    <3>1. \A i \in I : Len(l) - i \in Nat
      BY <2>1
    <3> QED BY <1>2, <3>1
  <2>3. PICK j \in J : \A y \in J : j <= y
    BY <2>2, LeastElement
  <2>4. PICK m \in I : j = Len(l) - m
    BY <2>3
  <2>5. \A y \in I : m >= y
    <3> TAKE y \in I
    <3>1. Len(l) - y \in J /\ y \in Int /\ m \in Int
      OBVIOUS
    <3>2. Len(l) - m <= Len(l) - y
      BY <2>3, <2>4, <3>1
    <3> HIDE DEF I, J
    <3> QED BY <2>1, <3>1, <3>2
  <2> QED BY <2>5 DEF Max
<1>3. I # {} => \A i \in 1..Len(l) : Overlaps(l[i], o) => i <= Max(I)
  <2> SUFFICES ASSUME NEW i \in 1..Len(l), Overlaps(l[i], o) PROVE i <= Max(I)
    OBVIOUS
  <2>1. i \in I
    OBVIOUS
  <2>2. Max(I) \in Nat /\ i \in Nat
    BY <1>2, <2>1, LenProperties
  <2> QED BY <1>2, <2>1, <2>2
<1> QED BY <1>1, <1>2, <1>3

\* The place add_nolimitcheck() picks: every entry in front of it lies before
\* the new region if the region is not appended, and the entry at it does not.
LEMMA PlaceOfPlaces ==
  ASSUME NEW l \in Seq(Region), NEW r \in Region
  PROVE  LET p == PlaceOf(l, r) IN
         /\ p \in 1..(Len(l) + 1)
         /\ AppendsTo(l, r) => p = Len(l) + 1
         /\ ~AppendsTo(l, r) => /\ p \in 1..Len(l)
                                /\ ~Before(l[p], r)
                                /\ \A j \in 1..(p - 1) : Before(l[j], r)
<1>0. Len(l) \in Nat
  BY LenProperties
<1>1. CASE AppendsTo(l, r)
  BY <1>0, <1>1 DEF PlaceOf
<1>2. CASE ~AppendsTo(l, r)
  <2> DEFINE I == { i \in 1..Len(l) : ~Before(l[i], r) }
  <2>1. Len(l) \in I
    BY <1>0, <1>2, EmptySeq DEF AppendsTo
  <2>2. I \in SUBSET Nat /\ I # {}
    BY <1>0, <2>1
  <2>3. PICK m \in I : \A y \in I : m <= y
    BY <2>2, LeastElement
  <2>4. \A j \in 1..(m - 1) : Before(l[j], r)
    BY <1>0, <2>3
  <2>5. \E i \in 1..Len(l) : ~Before(l[i], r) /\ \A j \in 1..(i - 1) : Before(l[j], r)
    BY <2>3, <2>4
  <2>6. LET p == PlaceOf(l, r) IN
        p \in 1..Len(l) /\ ~Before(l[p], r) /\ \A j \in 1..(p - 1) : Before(l[j], r)
    BY <1>2, <2>5 DEF PlaceOf
  <2> QED BY <1>0, <1>2, <2>6
<1> QED BY <1>1, <1>2

\* The list that add_nolimitcheck() leaves behind.
LEMMA PlacedShape ==
  ASSUME NEW l \in Seq(Region), NEW r \in Region
  PROVE  LET p == PlaceOf(l, r) IN
         /\ Placed(l, r) \in Seq(Region)
         /\ Len(Placed(l, r)) = Len(l) + 1
         /\ DOMAIN Placed(l, r) = 1..(Len(l) + 1)
         /\ \A j \in 1..(Len(l) + 1) :
              Placed(l, r)[j] = IF j < p THEN l[j] ELSE IF j = p THEN r ELSE l[j - 1]
<1> DEFINE p == PlaceOf(l, r)
           k == InsertAt(l, p, r)
<1>1. p \in 1..(Len(l) + 1)
  BY PlaceOfPlaces
<1> HIDE DEF p
<1>2. /\ k \in Seq(Region)
      /\ Len(k) = Len(l) + 1
      /\ \A j \in 1..Len(l) + 1 : k[j] = IF j < p THEN l[j] ELSE IF j = p THEN r ELSE l[j - 1]
  BY <1>1, InsertAtShape
<1>3. Placed(l, r) = k
  BY DEF Placed, p
<1>4. DOMAIN k = 1..(Len(l) + 1)
  BY <1>2, LenProperties
<1> HIDE DEF k
<1> QED BY <1>2, <1>3, <1>4 DEF p

\* Inserting at the place add_nolimitcheck() picks keeps a sorted list sorted,
\* if the new region does not collide with the entry at that place.
LEMMA PlacedSorted ==
  ASSUME NEW l \in Seq(Region), NEW r \in Region, Ascending(l), ~Collides(l, r)
  PROVE  Ascending(Placed(l, r))
<1> DEFINE p == PlaceOf(l, r)
           k == Placed(l, r)
           n == Len(l)
<1>1. /\ n \in Nat /\ DOMAIN l = 1..n
      /\ \A i \in 1..n : l[i].begin \in Nat /\ l[i].end \in Nat /\ l[i].begin <= l[i].end
      /\ r.begin \in Nat /\ r.end \in Nat /\ r.begin <= r.end
  BY Entries, RegionBounds
<1>2. /\ p \in 1..(n + 1)
      /\ AppendsTo(l, r) => p = n + 1
      /\ ~AppendsTo(l, r) => p \in 1..n /\ \A j \in 1..(p - 1) : Before(l[j], r)
  BY PlaceOfPlaces
<1>3. /\ DOMAIN k = 1..(n + 1)
      /\ \A j \in 1..(n + 1) : k[j] = IF j < p THEN l[j] ELSE IF j = p THEN r ELSE l[j - 1]
  BY PlacedShape
<1>4. \A i, j \in 1..n : i < j => l[i].end < l[j].begin
  BY <1>1 DEF Ascending, Before
<1>5. \A j \in 1..n : j < p => l[j].end < r.begin
  <2>1. CASE AppendsTo(l, r)
    <3>1. n # 0 => l[n].end < r.begin
      BY <1>1, <2>1 DEF AppendsTo, Before
    <3> HIDE DEF p, n
    <3> QED BY <1>1, <1>4, <3>1
  <2>2. CASE ~AppendsTo(l, r)
    BY <1>1, <1>2, <2>2 DEF Before
  <2> QED BY <2>1, <2>2
<1>6. \A j \in 1..n : j >= p => r.end < l[j].begin
  <2>1. CASE AppendsTo(l, r)
    BY <1>1, <1>2, <2>1
  <2>2. CASE ~AppendsTo(l, r)
    <3>1. p \in 1..n /\ r.end < l[p].begin
      BY <1>2, <2>2 DEF Collides, Before
    <3> HIDE DEF p, n
    <3>2. ASSUME NEW j \in 1..n, j > p
          PROVE  r.end < l[j].begin
      <4>1. l[p].end < l[j].begin /\ l[p].begin <= l[p].end
        BY <1>1, <1>4, <3>1, <3>2
      <4> QED BY <1>1, <3>1, <4>1
    <3> QED BY <1>1, <3>1, <3>2
  <2> QED BY <2>1, <2>2
<1> HIDE DEF p, k, n
<1>7. ASSUME NEW i \in 1..(n + 1), NEW j \in 1..(n + 1), i < j
      PROVE  k[i].end < k[j].begin
  <2>1. CASE j < p
    BY <1>1, <1>2, <1>3, <1>4, <1>7, <2>1
  <2>2. CASE j = p
    BY <1>1, <1>2, <1>3, <1>5, <1>7, <2>2
  <2>3. CASE j > p
    <3>1. k[j] = l[j - 1] /\ j - 1 \in 1..n
      BY <1>1, <1>2, <1>3, <2>3
    <3>2. CASE i < p
      <4>1. k[i] = l[i] /\ i \in 1..n /\ i < j - 1
        BY <1>1, <1>2, <1>3, <2>3, <3>2
      <4> QED BY <1>4, <3>1, <4>1
    <3>3. CASE i = p
      <4>1. k[i] = r /\ j - 1 >= p
        BY <1>1, <1>2, <1>3, <2>3, <3>3
      <4> QED BY <1>6, <3>1, <4>1
    <3>4. CASE i > p
      <4>1. k[i] = l[i - 1] /\ i - 1 \in 1..n /\ i - 1 < j - 1
        BY <1>1, <1>2, <1>3, <1>7, <3>4
      <4> QED BY <1>4, <3>1, <4>1
    <3> QED BY <1>2, <3>2, <3>3, <3>4
  <2> QED BY <1>2, <2>1, <2>2, <2>3
<1> QED BY <1>3, <1>7 DEF Ascending, Before, k

\* A region that lies apart from every entry collides with none.
LEMMA ApartNoCollision ==
  ASSUME NEW l \in Seq(Region), NEW r \in Region,
         \A x \in 1..Len(l) : l[x].end < r.begin \/ r.end < l[x].begin
  PROVE  ~Collides(l, r)
<1> SUFFICES ASSUME Collides(l, r) PROVE FALSE
  OBVIOUS
<1> DEFINE p == PlaceOf(l, r)
<1>1. p \in 1..Len(l) /\ ~Before(l[p], r) /\ ~Before(r, l[p])
  BY PlaceOfPlaces DEF Collides
<1> HIDE DEF p
<1> QED BY <1>1 DEF Before

\* The new list has the entries of the old one, and the new region.
LEMMA PlacedEntries ==
  ASSUME NEW l \in Seq(Region), NEW r \in Region
  PROVE  /\ \A x \in 1..(Len(l) + 1) :
              Placed(l, r)[x] = r \/ \E y \in 1..Len(l) : Placed(l, r)[x] = l[y]
         /\ \E x \in 1..(Len(l) + 1) : Placed(l, r)[x] = r
         /\ \A y \in 1..Len(l) : \E x \in 1..(Len(l) + 1) : Placed(l, r)[x] = l[y]
<1> DEFINE p == PlaceOf(l, r)
           s == Placed(l, r)
<1>1. p \in 1..(Len(l) + 1) /\ Len(l) \in Nat
  BY PlaceOfPlaces, LenProperties
<1>2. \A j \in 1..(Len(l) + 1) : s[j] = IF j < p THEN l[j] ELSE IF j = p THEN r ELSE l[j - 1]
  BY PlacedShape
<1> HIDE DEF p, s
<1>3. ASSUME NEW x \in 1..(Len(l) + 1) PROVE s[x] = r \/ \E y \in 1..Len(l) : s[x] = l[y]
  <2>1. CASE x < p
    BY <1>1, <1>2, <2>1
  <2>2. CASE x = p
    BY <1>1, <1>2, <2>2
  <2>3. CASE x > p
    <3>1. s[x] = l[x - 1] /\ x - 1 \in 1..Len(l)
      BY <1>1, <1>2, <2>3
    <3> QED BY <3>1
  <2> QED BY <1>1, <2>1, <2>2, <2>3
<1>4. s[p] = r
  BY <1>1, <1>2
<1>5. ASSUME NEW y \in 1..Len(l) PROVE \E x \in 1..(Len(l) + 1) : s[x] = l[y]
  <2>1. CASE y < p
    <3>1. s[y] = l[y] /\ y \in 1..(Len(l) + 1)
      BY <1>1, <1>2, <2>1
    <3> QED BY <3>1
  <2>2. CASE y >= p
    <3>1. s[y + 1] = l[(y + 1) - 1] /\ y + 1 \in 1..(Len(l) + 1) /\ (y + 1) - 1 = y
      BY <1>1, <1>2, <2>2
    <3> QED BY <3>1
  <2> QED BY <1>1, <2>1, <2>2
<1> QED BY <1>1, <1>3, <1>4, <1>5 DEF s

=============================================================================
