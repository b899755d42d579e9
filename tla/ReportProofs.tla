----------------------------- MODULE ReportProofs -----------------------------
(***************************************************************************)
(* What the stages of the report pipeline do to any sequence of findings,  *)
(* whatever its length: what each keeps, in which order, and why the order *)
(* in which workers appended the findings is not seen in what is printed,  *)
(* for every pool of findings, selection and ignore file, and any number   *)
(* of arrivals.                                                            *)
(***************************************************************************)
EXTENDS ReportOrder, SumProofs, TLAPS, FiniteSetTheorems, SequenceTheorems

-----------------------------------------------------------------------------
(* The order of the report.                                                *)

\* The fields Less looks at.
LEMMA FindingFields ==
  ASSUME NEW f \in FindingType
  PROVE  /\ f.path \in Nat /\ f.line \in Nat /\ f.col \in Nat /\ f.msg \in Nat
         /\ f.rule \in Rule /\ f.rule \in Nat /\ f.sub \in Sub
         /\ f.warning \in BOOLEAN /\ f.ignored \in BOOLEAN
  BY ReportAssumption DEF ReportAssumption, FindingType

\* An unset column sorts ahead of every other.
Col(f) == IF f.col = 0 THEN -1 ELSE f.col

\* Less, written out.
LEMMA LessIs ==
  ASSUME NEW a \in FindingType, NEW b \in FindingType
  PROVE  Less(a, b) <=>
           \/ a.path < b.path
           \/ a.path = b.path /\ a.line < b.line
           \/ a.path = b.path /\ a.line = b.line /\ a.rule < b.rule
           \/ a.path = b.path /\ a.line = b.line /\ a.rule = b.rule /\ a.msg < b.msg
           \/ a.path = b.path /\ a.line = b.line /\ a.rule = b.rule /\ a.msg = b.msg
              /\ Col(a) < Col(b)
<1> DEFINE ka == SortKey(a)
           kb == SortKey(b)
<1>1. /\ ka[1] = a.path /\ ka[2] = a.line /\ ka[3] = a.rule /\ ka[4] = a.msg /\ ka[5] = Col(a)
      /\ kb[1] = b.path /\ kb[2] = b.line /\ kb[3] = b.rule /\ kb[4] = b.msg /\ kb[5] = Col(b)
      /\ DOMAIN ka = 1 .. 5
  BY DEF SortKey, Col
<1>2. Less(a, b) <=> \E i \in DOMAIN ka : ka[i] < kb[i] /\ \A j \in 1 .. i - 1 : ka[j] = kb[j]
  BY DEF Less
<1> HIDE DEF ka, kb
<1>3. \A i \in 1 .. 5 : i \in {1, 2, 3, 4, 5}
  OBVIOUS
<1>4. /\ 1 .. 1 - 1 = {} /\ 1 .. 2 - 1 = {1} /\ 1 .. 3 - 1 = {1, 2}
      /\ 1 .. 4 - 1 = {1, 2, 3} /\ 1 .. 5 - 1 = {1, 2, 3, 4}
  OBVIOUS
<1>5. Less(a, b) <=> \E i \in {1, 2, 3, 4, 5} : ka[i] < kb[i] /\ \A j \in 1 .. i - 1 : ka[j] = kb[j]
  BY <1>1, <1>2, <1>3
<1>6. Less(a, b) <=>
        \/ ka[1] < kb[1]
        \/ ka[2] < kb[2] /\ ka[1] = kb[1]
        \/ ka[3] < kb[3] /\ ka[1] = kb[1] /\ ka[2] = kb[2]
        \/ ka[4] < kb[4] /\ ka[1] = kb[1] /\ ka[2] = kb[2] /\ ka[3] = kb[3]
        \/ ka[5] < kb[5] /\ ka[1] = kb[1] /\ ka[2] = kb[2] /\ ka[3] = kb[3] /\ ka[4] = kb[4]
  BY <1>4, <1>5
<1> QED
  BY <1>1, <1>6

\* Equal keys, field by field.
LEMMA SameKey ==
  ASSUME NEW a, NEW b
  PROVE  SortKey(a) = SortKey(b) <=>
           /\ a.path = b.path /\ a.line = b.line /\ a.rule = b.rule /\ a.msg = b.msg
           /\ Col(a) = Col(b)
  BY DEF SortKey, Col

\* Less is a strict order, and total up to the sort key.
LEMMA LessLaws ==
  ASSUME NEW a \in FindingType, NEW b \in FindingType, NEW c \in FindingType
  PROVE  /\ ~Less(a, a)
         /\ Less(a, b) /\ Less(b, c) => Less(a, c)
         /\ ~Less(b, a) /\ ~Less(c, b) => ~Less(c, a)
         /\ Less(a, b) => ~Less(b, a)
         /\ SortKey(a) = SortKey(b) <=> ~Less(a, b) /\ ~Less(b, a)
         /\ SortKey(a) = SortKey(b) => (Less(a, c) <=> Less(b, c))
         /\ SortKey(a) = SortKey(b) => (Less(c, a) <=> Less(c, b))
<1>1. ASSUME NEW f \in FindingType
      PROVE  f.path \in Nat /\ f.line \in Nat /\ f.rule \in Nat /\ f.msg \in Nat /\ Col(f) \in Int
  BY FindingFields DEF Col
<1> QED
  BY <1>1, LessIs, SameKey

-----------------------------------------------------------------------------
(* Sorting.                                                                *)

\* Ahead is a strict total order of the places of a sequence.
LEMMA AheadLaws ==
  ASSUME NEW fs \in Seq(FindingType),
         NEW i \in DOMAIN fs, NEW j \in DOMAIN fs, NEW k \in DOMAIN fs
  PROVE  /\ ~Ahead(fs, i, i)
         /\ Ahead(fs, i, j) /\ Ahead(fs, j, k) => Ahead(fs, i, k)
         /\ Ahead(fs, i, j) => ~Ahead(fs, j, i)
         /\ i # j => Ahead(fs, i, j) \/ Ahead(fs, j, i)
         /\ Ahead(fs, i, j) => ~Less(fs[j], fs[i])
<1>1. fs[i] \in FindingType /\ fs[j] \in FindingType /\ fs[k] \in FindingType
  BY ElementOfSeq, LenProperties
<1>2. i \in Nat /\ j \in Nat /\ k \in Nat
  BY LenProperties
<1> QED
  BY <1>1, <1>2, LessLaws DEF Ahead

\* A place is a number of the sequence, and no two findings have the same.
LEMMA PlaceLaws ==
  ASSUME NEW fs \in Seq(FindingType)
  PROVE  /\ \A j \in DOMAIN fs : Place(fs, j) \in DOMAIN fs
         /\ \A i, j \in DOMAIN fs : Ahead(fs, i, j) => Place(fs, i) < Place(fs, j)
<1> DEFINE D == DOMAIN fs
           before(j) == {i \in D : Ahead(fs, i, j)}
<1>1. D = 1 .. Len(fs) /\ Len(fs) \in Nat
  BY LenProperties
<1>2. IsFiniteSet(D) /\ Cardinality(D) = Len(fs)
  BY <1>1, FS_Interval
<1>3. ASSUME NEW j \in D
      PROVE  /\ IsFiniteSet(before(j)) /\ Cardinality(before(j)) \in Nat
             /\ Cardinality(before(j)) < Len(fs)
  <2> HIDE DEF D
  <2>1. before(j) \subseteq D \ {j}
    BY AheadLaws DEF D
  <2>2. IsFiniteSet(D \ {j}) /\ Cardinality(D \ {j}) = Len(fs) - 1
    BY <1>2, FS_RemoveElement
  <2>3. IsFiniteSet(before(j)) /\ Cardinality(before(j)) <= Cardinality(D \ {j})
    <3> HIDE DEF before
    <3> QED
      BY <2>1, <2>2, FS_Subset
  <2>4. Cardinality(before(j)) \in Nat
    BY <2>3, FS_CardinalityType
  <2> QED
    BY <1>1, <2>2, <2>3, <2>4
<1>4. \A j \in D : Place(fs, j) = 1 + Cardinality(before(j))
  BY DEF Place
<1>5. ASSUME NEW i \in D, NEW j \in D, Ahead(fs, i, j)
      PROVE  Cardinality(before(i)) < Cardinality(before(j))
  <2>1. before(i) \subseteq before(j) /\ i \in before(j) /\ i \notin before(i)
    BY <1>5, AheadLaws
  <2>2. before(i) # before(j)
    BY <2>1
  <2>3. IsFiniteSet(before(j)) /\ Cardinality(before(i)) \in Nat /\ Cardinality(before(j)) \in Nat
    BY <1>3
  <2> HIDE DEF before
  <2>4. /\ Cardinality(before(i)) <= Cardinality(before(j))
        /\ Cardinality(before(i)) # Cardinality(before(j))
    BY <2>1, <2>2, <2>3, FS_Subset
  <2> QED
    BY <2>3, <2>4
<1> HIDE DEF before
<1> QED
  BY <1>1, <1>3, <1>4, <1>5

\* Every place of the sequence is some finding's.
LEMMA PlaceTaken ==
  ASSUME NEW fs \in Seq(FindingType), NEW k \in DOMAIN fs
  PROVE  \E j \in DOMAIN fs : Place(fs, j) = k
<1> DEFINE D == DOMAIN fs
           place == [j \in D |-> Place(fs, j)]
<1>1. IsFiniteSet(D)
  BY FS_Interval, LenProperties
<1>2. place \in [D -> D]
  BY PlaceLaws
<1>3. ASSUME NEW i \in D, NEW j \in D, place[i] = place[j] PROVE i = j
  <2>1. Place(fs, i) = Place(fs, j) /\ Place(fs, i) \in DOMAIN fs
    BY <1>3, PlaceLaws
  <2>2. Place(fs, i) \in Nat
    BY <2>1, LenProperties
  <2> QED
    BY <2>1, <2>2, PlaceLaws, AheadLaws
<1>4. \A j \in D : place[j] = Place(fs, j)
  OBVIOUS
<1>5. place \in Injection(D, D)
  <2> HIDE DEF place, D
  <2> QED
    BY <1>2, <1>3 DEF Injection, IsInjective
<1>6. place \in Surjection(D, D)
  <2> HIDE DEF place, D
  <2> QED
    BY <1>1, <1>5, FS_Injection
<1>7. \A y \in D : \E x \in D : place[x] = y
  <2> HIDE DEF place, D
  <2> QED
    BY <1>6 DEF Surjection
<1> QED
  BY <1>4, <1>7

\* Sort takes each element once, and none ahead of one it goes before.
LEMMA SortIs ==
  ASSUME NEW fs \in Seq(FindingType)
  PROVE  \E at \in [DOMAIN fs -> DOMAIN fs] :
           /\ \A k \in DOMAIN fs : Sort(fs)[k] = fs[at[k]]
           /\ \A i \in DOMAIN fs : \E k \in DOMAIN fs : at[k] = i
           /\ \A j, k \in DOMAIN fs : j < k => Ahead(fs, at[j], at[k])
<1> DEFINE D == DOMAIN fs
           of(k) == CHOOSE j \in D : Place(fs, j) = k
           at == [k \in D |-> of(k)]
<1>1. ASSUME NEW k \in D PROVE of(k) \in D /\ Place(fs, of(k)) = k
  <2>1. \E j \in D : Place(fs, j) = k
    BY PlaceTaken
  <2> QED
    BY <2>1
<1>2. \A k \in D : Sort(fs)[k] = fs[of(k)]
  BY DEF Sort
<1>3. D \subseteq Nat
  BY LenProperties
<1>4. ASSUME NEW i \in D, NEW j \in D, Place(fs, i) = Place(fs, j) PROVE i = j
  <2>1. Place(fs, i) \in Nat
    BY <1>3, PlaceLaws
  <2> QED
    BY <1>4, <2>1, PlaceLaws, AheadLaws
<1>5. ASSUME NEW i \in D PROVE \E k \in D : of(k) = i
  <2>1. Place(fs, i) \in D
    BY PlaceLaws
  <2> HIDE DEF of
  <2> QED
    BY <1>1, <1>4, <2>1
<1>6. ASSUME NEW j \in D, NEW k \in D, j < k PROVE Ahead(fs, of(j), of(k))
  <2>1. of(j) \in D /\ of(k) \in D /\ Place(fs, of(j)) = j /\ Place(fs, of(k)) = k
    BY <1>1
  <2> HIDE DEF of
  <2>2. of(j) # of(k)
    BY <1>3, <1>6, <2>1
  <2>3. ~Ahead(fs, of(k), of(j))
    BY <1>3, <1>6, <2>1, PlaceLaws
  <2> QED
    BY <2>1, <2>2, <2>3, AheadLaws
<1>7. at \in [D -> D] /\ \A k \in D : at[k] = of(k)
  <2> HIDE DEF of
  <2> QED
    BY <1>1
<1> HIDE DEF at, of
<1> QED
  BY <1>2, <1>5, <1>6, <1>7

\* No element of s is less than one before it.
InOrder(s) == \A j, k \in DOMAIN s : j < k => ~Less(s[k], s[j])

\* As sets, and in order.
LEMMA SortRange ==
  ASSUME NEW fs \in Seq(FindingType)
  PROVE  /\ Sort(fs) \in Seq(FindingType)
         /\ Range(Sort(fs)) = Range(fs)
         /\ InOrder(Sort(fs))
<1> DEFINE D == DOMAIN fs
           s == Sort(fs)
<1>1. PICK at \in [D -> D] :
        /\ \A k \in D : s[k] = fs[at[k]]
        /\ \A i \in D : \E k \in D : at[k] = i
        /\ \A j, k \in D : j < k => Ahead(fs, at[j], at[k])
  BY SortIs
<1>2. D = 1 .. Len(fs) /\ Len(fs) \in Nat
  BY LenProperties
<1>3. DOMAIN s = D /\ s = [k \in D |-> s[k]]
  BY DEF Sort
<1> HIDE DEF s
<1>4. \A k \in D : s[k] \in FindingType
  BY <1>1, <1>2, ElementOfSeq
<1>5. s \in Seq(FindingType)
  <2>1. s \in [1 .. Len(fs) -> FindingType]
    BY <1>2, <1>3, <1>4
  <2> QED
    BY <1>2, <2>1
<1>6. Range(s) = Range(fs)
  BY <1>1, <1>3 DEF Range
<1>7. InOrder(s)
  BY <1>1, <1>3, AheadLaws DEF InOrder
<1> QED
  BY <1>5, <1>6, <1>7 DEF s

-----------------------------------------------------------------------------
(* The order decides the sequence.                                         *)

\* Every element of s is less than the ones after it.
Increasing(s) == \A j, k \in DOMAIN s : j < k => Less(s[j], s[k])

\* An element of such a sequence stands after exactly those less than it.
LEMMA RankIs ==
  ASSUME NEW s \in Seq(FindingType), Increasing(s), NEW k \in DOMAIN s
  PROVE  Cardinality({f \in Range(s) : Less(f, s[k])}) = k - 1
<1> DEFINE L == {f \in Range(s) : Less(f, s[k])}
           m == [j \in 1 .. k - 1 |-> s[j]]
<1>1. DOMAIN s = 1 .. Len(s) /\ Len(s) \in Nat /\ k \in Nat /\ k >= 1
  BY LenProperties
<1>2. \A j \in DOMAIN s : s[j] \in FindingType
  BY ElementOfSeq, LenProperties
<1>3. \A j \in 1 .. k - 1 : j \in DOMAIN s /\ s[j] \in L
  BY <1>1 DEF Increasing, Range
<1>4. ASSUME NEW f \in L PROVE \E j \in 1 .. k - 1 : s[j] = f
  <2>1. PICK j \in DOMAIN s : s[j] = f
    BY DEF Range
  <2>2. Less(s[j], s[k])
    BY <2>1
  <2>3. ~(j = k) /\ ~(k < j)
    BY <1>2, <2>2, LessLaws DEF Increasing
  <2>4. j \in 1 .. k - 1
    BY <1>1, <2>3
  <2> QED
    BY <2>1, <2>4
<1>5. ASSUME NEW i \in 1 .. k - 1, NEW j \in 1 .. k - 1, s[i] = s[j] PROVE i = j
  <2>1. i \in DOMAIN s /\ j \in DOMAIN s /\ i \in Nat /\ j \in Nat
    BY <1>3
  <2>2. ~Less(s[i], s[j]) /\ ~Less(s[j], s[i])
    BY <1>2, <1>5, <2>1, LessLaws
  <2> QED
    BY <2>1, <2>2 DEF Increasing
<1>6. m \in [1 .. k - 1 -> L] /\ \A j \in 1 .. k - 1 : m[j] = s[j]
  <2> HIDE DEF L
  <2> QED
    BY <1>3
<1>7. m \in Bijection(1 .. k - 1, L)
  <2>1. \A i, j \in 1 .. k - 1 : m[i] = m[j] => i = j
    BY <1>5, <1>6
  <2>2. \A f \in L : \E j \in 1 .. k - 1 : m[j] = f
    BY <1>4, <1>6
  <2> HIDE DEF m, L
  <2> QED
    BY <1>6, <2>1, <2>2 DEF Bijection, Injection, Surjection, IsInjective
<1>8. k - 1 \in Nat
  BY <1>1
<1> DEFINE n == k - 1
<1>9. ExistsBijection(1 .. n, L) /\ n \in Nat
  <2> HIDE DEF m, L
  <2> QED
    BY <1>7, <1>8 DEF ExistsBijection
<1>10. Cardinality(L) = n
  <2> HIDE DEF L, n
  <2> QED
    BY <1>9, FS_CountingElements
<1> QED
  BY <1>10

\* Two such sequences with the same elements are equal.
LEMMA IncreasingUnique ==
  ASSUME NEW s \in Seq(FindingType), NEW t \in Seq(FindingType),
         Increasing(s), Increasing(t), Range(s) = Range(t)
  PROVE  s = t
<1>1. DOMAIN s = 1 .. Len(s) /\ Len(s) \in Nat /\ DOMAIN t = 1 .. Len(t) /\ Len(t) \in Nat
  BY LenProperties
<1>2. ASSUME NEW k \in DOMAIN s PROVE k \in DOMAIN t /\ t[k] = s[k]
  <2>1. PICK j \in DOMAIN t : t[j] = s[k]
    BY DEF Range
  <2>2. Cardinality({f \in Range(s) : Less(f, s[k])}) = k - 1
    BY RankIs
  <2>3. Cardinality({f \in Range(t) : Less(f, t[j])}) = j - 1
    BY RankIs
  <2>4. k - 1 = j - 1
    BY <2>1, <2>2, <2>3
  <2>5. k \in Nat /\ j \in Nat
    BY <1>1
  <2>6. k = j
    BY <2>4, <2>5
  <2> QED
    BY <2>1, <2>6
<1>3. ASSUME NEW k \in DOMAIN t PROVE k \in DOMAIN s
  <2>1. PICK j \in DOMAIN s : s[j] = t[k]
    BY DEF Range
  <2>2. Cardinality({f \in Range(t) : Less(f, t[k])}) = k - 1
    BY RankIs
  <2>3. Cardinality({f \in Range(s) : Less(f, s[j])}) = j - 1
    BY RankIs
  <2>4. k - 1 = j - 1
    BY <2>1, <2>2, <2>3
  <2>5. k \in Nat /\ j \in Nat
    BY <1>1
  <2>6. k = j
    BY <2>4, <2>5
  <2> QED
    BY <2>6
<1>4. Len(s) = Len(t)
  <2>1. 1 .. Len(s) = 1 .. Len(t)
    BY <1>1, <1>2, <1>3
  <2>2. Len(s) # 0 => Len(s) \in 1 .. Len(t)
    <3>1. Len(s) # 0 => Len(s) \in 1 .. Len(s)
      BY <1>1
    <3> QED
      BY <2>1, <3>1
  <2>3. Len(t) # 0 => Len(t) \in 1 .. Len(s)
    <3>1. Len(t) # 0 => Len(t) \in 1 .. Len(t)
      BY <1>1
    <3> QED
      BY <2>1, <3>1
  <2>4. \A m, n \in Nat : (m # 0 => m \in 1 .. n) /\ (n # 0 => n \in 1 .. m) => m = n
    OBVIOUS
  <2>5. Len(s) \in Nat /\ Len(t) \in Nat
    BY <1>1
  <2> QED
    BY ONLY <2>2, <2>3, <2>4, <2>5
<1> QED
  BY <1>1, <1>2, <1>4, SeqEqual

-----------------------------------------------------------------------------
(* What each stage leaves.                                                 *)

\* Elements equal under the sort key are equal.
NoTies(R) == \A f, g \in R : SortKey(f) = SortKey(g) => f = g

\* Elements that name the same finding are equal.
OneEach(R) == \A f, g \in R : Same(f, g) => f = g

\* No tie in a sequence is no tie among its elements.
LEMMA TieFreeIs ==
  ASSUME NEW fs
  PROVE  TieFree(fs) <=> NoTies(Range(fs))
  BY DEF TieFree, NoTies, Range

\* Findings that are the same have the same sort key.
LEMMA SameIsTie ==
  ASSUME NEW f, NEW g, Same(f, g)
  PROVE  SortKey(f) = SortKey(g) /\ f.rule = g.rule /\ f.sub = g.sub
  BY DEF Same, SortKey, Tag

\* What a level changes of a finding.
LEMMA DemoteIs ==
  ASSUME NEW f \in FindingType, NEW sel
  PROVE  /\ Demote(sel, f) \in FindingType
         /\ SortKey(Demote(sel, f)) = SortKey(f)
         /\ Tag(Demote(sel, f)) = Tag(f) /\ Same(Demote(sel, f), f)
         /\ Demote(sel, f).rule = f.rule
         /\ Demote(sel, f).ignored = f.ignored
         /\ Demote(sel, f).warning = (f.warning \/ sel.warnAll \/ Named(sel.warn, f))
  BY DEF Demote, FindingType, SortKey, Tag, Same

\* What Select leaves, as a set.
Selected(R, sel) == {Demote(sel, f) : f \in {g \in R : ~Named(sel.skip, g) /\ Selects(sel, g)}}

\* Select keeps the findings the policy selects, at the level it gives them.
LEMMA SelectIs ==
  ASSUME NEW fs \in Seq(FindingType), NEW sel
  PROVE  /\ Select(fs, sel) \in Seq(FindingType)
         /\ Range(Select(fs, sel)) = Selected(Range(fs), sel)
<1> DEFINE S == {k \in DOMAIN fs : ~Named(sel.skip, fs[k])}
           left == Keep(fs, S)
           U == {k \in DOMAIN left : Selects(sel, left[k])}
           kept == Keep(left, U)
           out == [k \in DOMAIN kept |-> Demote(sel, kept[k])]
<1>1. Select(fs, sel) = out
  BY DEF Select, Filter
<1>2. left \in Seq(FindingType) /\ Range(left) = {fs[k] : k \in S \cap DOMAIN fs}
  <2> HIDE DEF S
  <2> QED
    BY KeepRange
<1>3. Range(left) = {g \in Range(fs) : ~Named(sel.skip, g)}
  <2> HIDE DEF left
  <2> QED
    BY <1>2 DEF Range
<1> HIDE DEF left
<1>4. kept \in Seq(FindingType) /\ Range(kept) = {left[k] : k \in U \cap DOMAIN left}
  <2> HIDE DEF U
  <2> QED
    BY <1>2, KeepRange
<1>5. Range(kept) = {g \in Range(left) : Selects(sel, g)}
  <2> HIDE DEF kept
  <2> QED
    BY <1>4 DEF Range
<1> HIDE DEF kept, U, S
<1>6. DOMAIN kept = 1 .. Len(kept) /\ Len(kept) \in Nat
  BY <1>4, LenProperties
<1>7. \A k \in DOMAIN kept : Demote(sel, kept[k]) \in FindingType
  BY <1>4, <1>6, ElementOfSeq, DemoteIs
<1>8. out \in Seq(FindingType)
  BY <1>6, <1>7
<1>9. Range(out) = {Demote(sel, f) : f \in Range(kept)}
  BY DEF Range
<1>10. Range(out) = Selected(Range(fs), sel)
  <2> HIDE DEF out
  <2> QED
    BY <1>3, <1>5, <1>9 DEF Selected
<1> QED
  BY <1>1, <1>8, <1>10

\* Select ties nothing that was not tied, and splits nothing that was the same.
LEMMA SelectedKeeps ==
  ASSUME NEW R \in SUBSET FindingType, NEW sel
  PROVE  /\ Selected(R, sel) \subseteq FindingType
         /\ NoTies(R) => NoTies(Selected(R, sel))
         /\ Emitted(R) => OneEach(Selected(R, sel))
<1>1. Selected(R, sel) \subseteq FindingType
  BY DemoteIs DEF Selected
<1>2. ASSUME NoTies(R) PROVE NoTies(Selected(R, sel))
  <2> SUFFICES ASSUME NEW f \in R, NEW g \in R,
                      SortKey(Demote(sel, f)) = SortKey(Demote(sel, g))
               PROVE  Demote(sel, f) = Demote(sel, g)
    BY DEF NoTies, Selected
  <2>1. f \in FindingType /\ g \in FindingType
    OBVIOUS
  <2>2. SortKey(f) = SortKey(g)
    BY <2>1, DemoteIs
  <2>3. f = g
    BY <1>2, <2>2 DEF NoTies
  <2> QED
    BY <2>3
<1>3. ASSUME Emitted(R) PROVE OneEach(Selected(R, sel))
  <2> SUFFICES ASSUME NEW f \in R, NEW g \in R, Same(Demote(sel, f), Demote(sel, g))
               PROVE  Demote(sel, f) = Demote(sel, g)
    BY DEF OneEach, Selected
  <2>1. f \in FindingType /\ g \in FindingType
    OBVIOUS
  <2>2. Same(f, g)
    BY <2>1, DemoteIs DEF Same
  <2>3. f.warning = g.warning /\ f.ignored = g.ignored
    <3>1. f.ignored \in BOOLEAN /\ g.ignored \in BOOLEAN
      BY <2>1, FindingFields
    <3> QED
      BY <1>3, <2>2, <3>1 DEF Emitted, Same
  <2>4. f = g
    <3>1. f.rule = g.rule /\ f.sub = g.sub
      BY <2>2, SameIsTie
    <3> QED
      BY <2>1, <2>2, <2>3, <3>1 DEF FindingType, Same
  <2> QED
    BY <2>4
<1> QED
  BY <1>1, <1>2, <1>3

\* Elements no two of which tie are each the only one of their name.
LEMMA UntiedAreOne ==
  ASSUME NEW R, NoTies(R)
  PROVE  OneEach(R)
  BY SameIsTie DEF NoTies, OneEach

\* What is kept of a sequence is in the order it was in.
LEMMA KeepOrder ==
  ASSUME NEW s \in Seq(FindingType), NEW S
  PROVE  /\ InOrder(s) => InOrder(Keep(s, S))
         /\ Increasing(s) => Increasing(Keep(s, S))
<1> DEFINE t == Keep(s, S)
<1>1. PICK at : Picks(s, S, Len(s), t, at)
  BY KeepIs
<1>2. t \in Seq(FindingType)
  BY KeepIs
<1>3. DOMAIN t = 1 .. Len(t) /\ DOMAIN s = 1 .. Len(s)
  BY <1>2, LenProperties
<1> HIDE DEF t
<1>4. \A k \in DOMAIN t : at[k] \in DOMAIN s /\ t[k] = s[at[k]]
  BY <1>1, <1>3 DEF Picks
<1>5. \A j, k \in DOMAIN t : j < k => at[j] < at[k]
  BY <1>1, <1>3 DEF Picks
<1>6. InOrder(s) => InOrder(t)
  BY <1>4, <1>5 DEF InOrder
<1>7. Increasing(s) => Increasing(t)
  BY <1>4, <1>5 DEF Increasing
<1> QED
  BY <1>6, <1>7 DEF t

\* Dropping repeats of the finding before loses none when the same findings are
\* equal, and leaves no two the same when none tie.
LEMMA DedupeIs ==
  ASSUME NEW s \in Seq(FindingType), InOrder(s)
  PROVE  /\ Dedupe(s) \in Seq(FindingType)
         /\ InOrder(Dedupe(s))
         /\ Range(Dedupe(s)) \subseteq Range(s)
         /\ OneEach(Range(s)) => Range(Dedupe(s)) = Range(s)
         /\ NoTies(Range(s)) => Increasing(Dedupe(s))
<1> DEFINE S == {k \in DOMAIN s : k = 1 \/ ~Same(s[k], s[k - 1])}
           t == Keep(s, S)
<1>1. Dedupe(s) = t
  BY DEF Dedupe
<1>2. PICK at : Picks(s, S, Len(s), t, at)
  <2> HIDE DEF S
  <2> QED
    BY KeepIs
<1>3. t \in Seq(FindingType) /\ Range(t) = {s[k] : k \in S \cap DOMAIN s} /\ InOrder(t)
  <2> HIDE DEF S
  <2> QED
    BY KeepRange, KeepOrder
<1>4. DOMAIN s = 1 .. Len(s) /\ Len(s) \in Nat /\ DOMAIN t = 1 .. Len(t) /\ Len(t) \in Nat
  BY <1>3, LenProperties
<1> HIDE DEF t
<1>5. Range(t) \subseteq Range(s)
  BY <1>3 DEF Range
<1>6. ASSUME OneEach(Range(s)) PROVE Range(s) \subseteq Range(t)
  <2> DEFINE M == {k \in Nat : k + 1 \in DOMAIN s => s[k + 1] \in Range(t)}
  <2>1. 0 \in M
    <3>1. 1 \in DOMAIN s => 1 \in S \cap DOMAIN s
      OBVIOUS
    <3> QED
      BY <1>3, <3>1
  <2>2. ASSUME NEW k \in Nat, k \in M PROVE k + 1 \in M
    <3>1. SUFFICES ASSUME (k + 1) + 1 \in DOMAIN s PROVE s[(k + 1) + 1] \in Range(t)
      OBVIOUS
    <3>2. k + 1 \in DOMAIN s /\ ((k + 1) + 1) - 1 = k + 1
      BY <1>4, <3>1
    <3>3. s[k + 1] \in Range(t)
      BY <2>2, <3>2
    <3>4. CASE Same(s[(k + 1) + 1], s[k + 1])
      <4>1. s[(k + 1) + 1] \in Range(s) /\ s[k + 1] \in Range(s)
        BY <3>1, <3>2 DEF Range
      <4>2. s[(k + 1) + 1] = s[k + 1]
        BY <1>6, <3>4, <4>1 DEF OneEach
      <4> QED
        BY <3>3, <4>2
    <3>5. CASE ~Same(s[(k + 1) + 1], s[k + 1])
      <4>1. (k + 1) + 1 \in S
        BY <3>1, <3>2, <3>5
      <4> QED
        BY <1>3, <3>1, <4>1
    <3> QED
      BY <3>4, <3>5
  <2>3. Nat \subseteq M
    <3> HIDE DEF M
    <3> QED
      BY <2>1, <2>2, NatSetInduction
  <2>4. ASSUME NEW k \in DOMAIN s PROVE s[k] \in Range(t)
    <3>1. k - 1 \in Nat /\ (k - 1) + 1 = k
      BY <1>4
    <3> QED
      BY <2>3, <3>1
  <2> QED
    BY <2>4 DEF Range
<1>7. ASSUME NoTies(Range(s)) PROVE Increasing(t)
  <2> SUFFICES ASSUME NEW j \in DOMAIN t, NEW k \in DOMAIN t, j < k PROVE Less(t[j], t[k])
    BY DEF Increasing
  <2> DEFINE a == at[j]
             b == at[k]
  <2>1. /\ a \in DOMAIN s /\ b \in DOMAIN s /\ b \in S /\ a < b
        /\ t[j] = s[a] /\ t[k] = s[b]
    <3> HIDE DEF S
    <3> QED
      BY <1>2, <1>4 DEF Picks
  <2> HIDE DEF a, b
  <2>2. a \in Nat /\ b \in Nat /\ b - 1 \in DOMAIN s /\ b # 1
    BY <1>4, <2>1
  <2>3. \A i \in DOMAIN s : s[i] \in FindingType /\ s[i] \in Range(s)
    BY <1>4, ElementOfSeq DEF Range
  <2>4. ~Less(s[b], s[a])
    BY <2>1 DEF InOrder
  <2>5. SUFFICES ASSUME ~Less(s[a], s[b]) PROVE FALSE
    BY <2>1
  <2>6. SortKey(s[a]) = SortKey(s[b])
    BY <2>1, <2>3, <2>4, <2>5, LessLaws
  <2>7. ~Less(s[b], s[b - 1]) /\ ~Less(s[b - 1], s[a])
    <3>1. ~Less(s[b], s[b - 1])
      BY <2>1, <2>2 DEF InOrder
    <3>2. CASE a = b - 1
      BY <2>1, <2>3, <3>1, <3>2, LessLaws
    <3>3. CASE a # b - 1
      <4>1. a < b - 1
        BY <2>1, <2>2, <3>3
      <4> QED
        BY <2>1, <2>2, <3>1, <4>1 DEF InOrder
    <3> QED
      BY <3>2, <3>3
  <2>8. SortKey(s[b]) = SortKey(s[b - 1])
    <3>1. ~Less(s[b - 1], s[b])
      BY <2>1, <2>2, <2>3, <2>6, <2>7, LessLaws
    <3> QED
      BY <2>1, <2>2, <2>3, <2>7, <3>1, LessLaws
  <2>9. s[b] = s[b - 1]
    BY <1>7, <2>1, <2>2, <2>3, <2>8 DEF NoTies
  <2>10. Same(s[b], s[b - 1])
    BY <2>9 DEF Same
  <2> QED
    BY <2>1, <2>2, <2>10
<1> QED
  BY <1>1, <1>3, <1>5, <1>6, <1>7

\* What the tail of lint returns.
Linted(fs, sel) == Dedupe(Sort(Select(fs, sel)))

\* The tail of lint keeps every finding the policy selects, in order, and once
\* each when none tie.
LEMMA LintedIs ==
  ASSUME NEW fs \in Seq(FindingType), NEW sel
  PROVE  /\ Linted(fs, sel) \in Seq(FindingType)
         /\ InOrder(Linted(fs, sel))
         /\ Range(Linted(fs, sel)) \subseteq Selected(Range(fs), sel)
         /\ Emitted(Range(fs)) => Range(Linted(fs, sel)) = Selected(Range(fs), sel)
         /\ TieFree(fs) => /\ Range(Linted(fs, sel)) = Selected(Range(fs), sel)
                           /\ Increasing(Linted(fs, sel))
<1> DEFINE selected == Select(fs, sel)
           sorted == Sort(selected)
           R == Range(fs)
<1>1. selected \in Seq(FindingType) /\ Range(selected) = Selected(R, sel)
  BY SelectIs
<1> HIDE DEF selected
<1>2. sorted \in Seq(FindingType) /\ Range(sorted) = Selected(R, sel) /\ InOrder(sorted)
  BY <1>1, SortRange
<1> HIDE DEF sorted
<1>3. R \in SUBSET FindingType
  BY ElementOfSeq, LenProperties DEF Range
<1>4. NoTies(R) => NoTies(Selected(R, sel)) /\ OneEach(Selected(R, sel))
  BY <1>3, SelectedKeeps, UntiedAreOne
<1>5. Emitted(R) => OneEach(Selected(R, sel))
  BY <1>3, SelectedKeeps
<1>6. TieFree(fs) <=> NoTies(R)
  BY TieFreeIs
<1>7. /\ Dedupe(sorted) \in Seq(FindingType) /\ InOrder(Dedupe(sorted))
      /\ Range(Dedupe(sorted)) \subseteq Selected(R, sel)
      /\ OneEach(Selected(R, sel)) => Range(Dedupe(sorted)) = Selected(R, sel)
      /\ NoTies(Selected(R, sel)) => Increasing(Dedupe(sorted))
  BY <1>2, DedupeIs
<1>8. Linted(fs, sel) = Dedupe(sorted)
  BY DEF Linted, sorted, selected
<1> QED
  BY <1>4, <1>5, <1>6, <1>7, <1>8

\* Whatever order the findings came in: what lint returns depends only on which
\* they are, when none tie.
LEMMA LintedUnique ==
  ASSUME NEW fs \in Seq(FindingType), NEW gs \in Seq(FindingType), NEW sel,
         Range(fs) = Range(gs), TieFree(fs)
  PROVE  Linted(fs, sel) = Linted(gs, sel)
<1>1. TieFree(gs)
  BY TieFreeIs
<1>2. /\ Linted(fs, sel) \in Seq(FindingType) /\ Increasing(Linted(fs, sel))
      /\ Range(Linted(fs, sel)) = Selected(Range(fs), sel)
  BY LintedIs
<1>3. /\ Linted(gs, sel) \in Seq(FindingType) /\ Increasing(Linted(gs, sel))
      /\ Range(Linted(gs, sel)) = Selected(Range(gs), sel)
  BY <1>1, LintedIs
<1> QED
  BY <1>2, <1>3, IncreasingUnique

-----------------------------------------------------------------------------
(* The ignore file.                                                        *)

\* What a mark changes of a finding.
LEMMA MarkIs ==
  ASSUME NEW f \in FindingType, NEW ignores
  PROVE  /\ Mark(ignores, f) \in FindingType
         /\ SortKey(Mark(ignores, f)) = SortKey(f)
         /\ IgnoreKey(Mark(ignores, f)) = IgnoreKey(f)
         /\ Tag(Mark(ignores, f)) = Tag(f) /\ Same(Mark(ignores, f), f)
         /\ Mark(ignores, f).warning = (f.warning \/ IgnoreKey(f) \in DOMAIN ignores)
         /\ Mark(ignores, f).ignored = (f.ignored \/ IgnoreKey(f) \in DOMAIN ignores)
  BY DEF Mark, FindingType, SortKey, Tag, Same, IgnoreKey

\* What Apply leaves, as a set.
Applied(R, ignores) == {Mark(ignores, f) : f \in {g \in R : ~Skipped(ignores, g)}}

\* Apply drops what the file skips, marks what it names, and keeps the order.
LEMMA ApplyIs ==
  ASSUME NEW fs \in Seq(FindingType), NEW ignores
  PROVE  /\ Apply(fs, ignores) \in Seq(FindingType)
         /\ Range(Apply(fs, ignores)) = Applied(Range(fs), ignores)
         /\ InOrder(fs) => InOrder(Apply(fs, ignores))
         /\ Increasing(fs) => Increasing(Apply(fs, ignores))
<1> DEFINE S == {k \in DOMAIN fs : ~Skipped(ignores, fs[k])}
           kept == Keep(fs, S)
           out == [k \in DOMAIN kept |-> Mark(ignores, kept[k])]
<1>1. Apply(fs, ignores) = out
  BY DEF Apply
<1>2. /\ kept \in Seq(FindingType) /\ Range(kept) = {fs[k] : k \in S \cap DOMAIN fs}
      /\ InOrder(fs) => InOrder(kept)
      /\ Increasing(fs) => Increasing(kept)
  <2> HIDE DEF S
  <2> QED
    BY KeepRange, KeepOrder
<1>3. Range(kept) = {g \in Range(fs) : ~Skipped(ignores, g)}
  <2> HIDE DEF kept
  <2> QED
    BY <1>2 DEF Range
<1> HIDE DEF kept, S
<1>4. DOMAIN kept = 1 .. Len(kept) /\ Len(kept) \in Nat
  BY <1>2, LenProperties
<1>5. \A k \in DOMAIN kept : kept[k] \in FindingType
  BY <1>2, <1>4, ElementOfSeq
<1>6. \A k \in DOMAIN kept : /\ Mark(ignores, kept[k]) \in FindingType
                             /\ SortKey(Mark(ignores, kept[k])) = SortKey(kept[k])
  BY <1>5, MarkIs
<1>7. out \in Seq(FindingType)
  BY <1>4, <1>6
<1>8. Range(out) = {Mark(ignores, f) : f \in Range(kept)}
  BY DEF Range
<1>9. DOMAIN out = DOMAIN kept /\ \A k \in DOMAIN kept : out[k] = Mark(ignores, kept[k])
  OBVIOUS
<1> HIDE DEF out
<1>10. Range(out) = Applied(Range(fs), ignores)
  BY <1>3, <1>8 DEF Applied
<1>11. \A j, k \in DOMAIN kept : Less(out[j], out[k]) <=> Less(kept[j], kept[k])
  <2> SUFFICES ASSUME NEW j \in DOMAIN kept, NEW k \in DOMAIN kept
               PROVE  Less(out[j], out[k]) <=> Less(kept[j], kept[k])
    OBVIOUS
  <2>1. /\ out[j] \in FindingType /\ SortKey(out[j]) = SortKey(kept[j])
        /\ out[k] \in FindingType /\ SortKey(out[k]) = SortKey(kept[k])
    BY <1>6, <1>9
  <2>2. Less(out[j], out[k]) <=> Less(kept[j], out[k])
    BY <1>5, <2>1, LessLaws
  <2>3. Less(kept[j], out[k]) <=> Less(kept[j], kept[k])
    BY <1>5, <2>1, LessLaws
  <2> QED
    BY <2>2, <2>3
<1>12. InOrder(kept) => InOrder(out)
  BY <1>9, <1>11 DEF InOrder
<1>13. Increasing(kept) => Increasing(out)
  BY <1>9, <1>11 DEF Increasing
<1> QED
  BY <1>1, <1>2, <1>7, <1>10, <1>12, <1>13

\* Apply ties nothing that was not tied.
LEMMA AppliedKeeps ==
  ASSUME NEW R \in SUBSET FindingType, NEW ignores
  PROVE  /\ Applied(R, ignores) \subseteq FindingType
         /\ NoTies(R) => NoTies(Applied(R, ignores))
<1>1. Applied(R, ignores) \subseteq FindingType
  BY MarkIs DEF Applied
<1>2. ASSUME NoTies(R) PROVE NoTies(Applied(R, ignores))
  <2> SUFFICES ASSUME NEW f \in R, NEW g \in R,
                      SortKey(Mark(ignores, f)) = SortKey(Mark(ignores, g))
               PROVE  Mark(ignores, f) = Mark(ignores, g)
    BY DEF NoTies, Applied
  <2>1. SortKey(f) = SortKey(g)
    BY MarkIs
  <2> QED
    BY <1>2, <2>1 DEF NoTies
<1> QED
  BY <1>1, <1>2

\* Where the ignore file is applied does not matter when no findings tie: before
\* the sort or after the repeats are dropped.
LEMMA ApplyCommutes ==
  ASSUME NEW fs \in Seq(FindingType), NEW sel, NEW ignores, TieFree(fs)
  PROVE  Apply(Linted(fs, sel), ignores) = Dedupe(Sort(Apply(Select(fs, sel), ignores)))
<1> DEFINE R == Selected(Range(fs), sel)
           late == Apply(Linted(fs, sel), ignores)
           applied == Apply(Select(fs, sel), ignores)
           early == Dedupe(Sort(applied))
<1>1. late \in Seq(FindingType) /\ Range(late) = Applied(R, ignores) /\ Increasing(late)
  <2>1. /\ Linted(fs, sel) \in Seq(FindingType) /\ Range(Linted(fs, sel)) = R
        /\ Increasing(Linted(fs, sel))
    BY LintedIs
  <2> QED
    BY <2>1, ApplyIs
<1>2. applied \in Seq(FindingType) /\ Range(applied) = Applied(R, ignores)
  BY SelectIs, ApplyIs
<1>3. Range(fs) \in SUBSET FindingType
  BY ElementOfSeq, LenProperties DEF Range
<1>4. R \in SUBSET FindingType /\ NoTies(R)
  BY <1>3, TieFreeIs, SelectedKeeps
<1>5. NoTies(Applied(R, ignores)) /\ OneEach(Applied(R, ignores))
  <2> HIDE DEF R
  <2> QED
    BY <1>4, AppliedKeeps, UntiedAreOne
<1> HIDE DEF applied, R
<1>6. early \in Seq(FindingType) /\ Range(early) = Applied(R, ignores) /\ Increasing(early)
  <2> DEFINE sorted == Sort(applied)
  <2>1. sorted \in Seq(FindingType) /\ Range(sorted) = Applied(R, ignores) /\ InOrder(sorted)
    BY <1>2, SortRange
  <2> HIDE DEF sorted
  <2>2. /\ Dedupe(sorted) \in Seq(FindingType) /\ Range(Dedupe(sorted)) = Range(sorted)
        /\ Increasing(Dedupe(sorted))
    BY <1>5, <2>1, DedupeIs
  <2> QED
    BY <2>1, <2>2 DEF sorted
<1>7. late = early
  <2> HIDE DEF late, early
  <2> QED
    BY <1>1, <1>6, IncreasingUnique
<1> QED
  BY <1>7 DEF applied

-----------------------------------------------------------------------------
(* Printing.                                                               *)

\* s takes the elements of fs at the places at, the ignored ones first.
Prints(fs, s, at) ==
  /\ at \in [DOMAIN s -> DOMAIN fs]
  /\ \A k \in DOMAIN s : s[k] = fs[at[k]]
  /\ \A j, k \in DOMAIN s : j < k =>
       IF fs[at[j]].ignored # fs[at[k]].ignored
       THEN fs[at[j]].ignored ELSE at[j] < at[k]

\* Printing takes every finding once, the ignored ones first.
LEMMA PrintedIs ==
  ASSUME NEW fs \in Seq(FindingType)
  PROVE  /\ Printed(fs) \in Seq(FindingType)
         /\ Range(Printed(fs)) = Range(fs)
         /\ \E at : Prints(fs, Printed(fs), at)
<1> DEFINE S == {k \in DOMAIN fs : fs[k].ignored}
           U == {k \in DOMAIN fs : ~fs[k].ignored}
           s == Keep(fs, S)
           t == Keep(fs, U)
           out == s \o t
           m == Len(s)
           n == Len(t)
<1>1. Printed(fs) = out
  BY DEF Printed
<1>2. /\ s \in Seq(FindingType) /\ Range(s) = {fs[k] : k \in S \cap DOMAIN fs}
      /\ \E at : Picks(fs, S, Len(fs), s, at)
  <2> HIDE DEF S
  <2> QED
    BY KeepRange, KeepIs
<1>3. /\ t \in Seq(FindingType) /\ Range(t) = {fs[k] : k \in U \cap DOMAIN fs}
      /\ \E at : Picks(fs, U, Len(fs), t, at)
  <2> HIDE DEF U
  <2> QED
    BY KeepRange, KeepIs
<1> HIDE DEF s, t
<1>4. PICK a : Picks(fs, S, Len(fs), s, a)
  BY <1>2
<1>5. PICK b : Picks(fs, U, Len(fs), t, b)
  BY <1>3
<1>6. DOMAIN fs = 1 .. Len(fs) /\ m \in Nat /\ n \in Nat
  BY <1>2, <1>3, LenProperties
<1>7. /\ out \in Seq(FindingType) /\ DOMAIN out = 1 .. m + n
      /\ \A k \in 1 .. m : out[k] = s[k]
      /\ \A k \in m + 1 .. m + n : out[k] = t[k - m]
  <2>1. out \in Seq(FindingType) /\ Len(out) = m + n
    BY <1>2, <1>3, ConcatProperties
  <2>2. \A k \in 1 .. Len(s) + Len(t) : out[k] = IF k <= Len(s) THEN s[k] ELSE t[k - Len(s)]
    BY <1>2, <1>3, ConcatProperties
  <2> QED
    BY <1>6, <2>1, <2>2, LenProperties
<1>8. Range(out) = Range(fs)
  <2>1. Range(out) = Range(s) \cup Range(t)
    BY <1>2, <1>3, RangeConcatenation
  <2>2. Range(s) \cup Range(t) = Range(fs)
    BY <1>2, <1>3 DEF Range
  <2> QED
    BY <2>1, <2>2
<1> DEFINE at == [k \in 1 .. m + n |-> IF k <= m THEN a[k] ELSE b[k - m]]
<1> HIDE DEF out
<1>9. ASSUME NEW k \in 1 .. m
      PROVE  /\ at[k] = a[k] /\ a[k] \in DOMAIN fs /\ out[k] = fs[a[k]]
             /\ fs[a[k]].ignored
  <2>1. a[k] \in DOMAIN fs /\ a[k] \in S /\ s[k] = fs[a[k]]
    <3> HIDE DEF S
    <3> QED
      BY <1>4, <1>6 DEF Picks
  <2> QED
    BY <1>6, <1>7, <2>1
<1>10. ASSUME NEW k \in m + 1 .. m + n
       PROVE  /\ at[k] = b[k - m] /\ b[k - m] \in DOMAIN fs /\ out[k] = fs[b[k - m]]
              /\ ~fs[b[k - m]].ignored
  <2>1. k - m \in 1 .. n
    BY <1>6
  <2>2. b[k - m] \in DOMAIN fs /\ b[k - m] \in U /\ t[k - m] = fs[b[k - m]]
    <3> HIDE DEF U
    <3> QED
      BY <1>5, <1>6, <2>1 DEF Picks
  <2> QED
    BY <1>6, <1>7, <2>2
<1>11. \A k \in 1 .. m + n : k \in 1 .. m \/ k \in m + 1 .. m + n
  BY <1>6
<1>12. at \in [1 .. m + n -> DOMAIN fs] /\ \A k \in 1 .. m + n : out[k] = fs[at[k]]
  <2>1. \A k \in 1 .. m + n : at[k] \in DOMAIN fs /\ out[k] = fs[at[k]]
    <3> HIDE DEF at
    <3> QED
      BY <1>9, <1>10, <1>11
  <2> QED
    BY <2>1
<1> HIDE DEF at, S, U
<1>13. ASSUME NEW j \in 1 .. m + n, NEW k \in 1 .. m + n, j < k
       PROVE  IF fs[at[j]].ignored # fs[at[k]].ignored
              THEN fs[at[j]].ignored ELSE at[j] < at[k]
  <2>1. CASE k \in 1 .. m
    <3>1. j \in 1 .. m
      BY <1>6, <1>13, <2>1
    <3>2. a[j] < a[k]
      BY <1>4, <1>13, <2>1, <3>1 DEF Picks
    <3>3. fs[at[j]].ignored /\ fs[at[k]].ignored /\ at[j] < at[k]
      BY <1>9, <2>1, <3>1, <3>2
    <3>4. fs[at[j]] \in FindingType /\ fs[at[k]] \in FindingType
      BY <1>6, <1>12, ElementOfSeq
    <3>5. fs[at[j]].ignored = fs[at[k]].ignored
      BY <3>3, <3>4, FindingFields
    <3> QED
      BY <3>3, <3>5
  <2>2. CASE k \in m + 1 .. m + n /\ j \in 1 .. m
    BY <1>9, <1>10, <2>2
  <2>3. CASE k \in m + 1 .. m + n /\ j \in m + 1 .. m + n
    <3>1. j - m \in 1 .. n /\ k - m \in 1 .. n /\ j - m < k - m
      BY <1>6, <1>13, <2>3
    <3>2. b[j - m] < b[k - m]
      BY <1>5, <3>1 DEF Picks
    <3>3. ~fs[at[j]].ignored /\ ~fs[at[k]].ignored /\ at[j] < at[k]
      BY <1>10, <2>3, <3>2
    <3>4. fs[at[j]] \in FindingType /\ fs[at[k]] \in FindingType
      BY <1>6, <1>12, ElementOfSeq
    <3>5. fs[at[j]].ignored = fs[at[k]].ignored
      BY <3>3, <3>4, FindingFields
    <3> QED
      BY <3>3, <3>5
  <2> QED
    BY <1>11, <2>1, <2>2, <2>3
<1>14. Prints(fs, out, at)
  BY <1>7, <1>12, <1>13 DEF Prints
<1> QED
  BY <1>1, <1>7, <1>8, <1>14


-----------------------------------------------------------------------------
(* The pipeline under every order of arrival.                              *)

\* What is returned and printed is always the pipeline's, of what has arrived.
OrderInv ==
  /\ arrived \in Seq(Pool)
  /\ \A k \in DOMAIN arrived : Runs(arrived[k].rule, selecting)
  /\ linted = Linted(arrived, selecting)
  /\ final = Printed(Apply(linted, ignoring))

\* A sequence with no elements.
LEMMA NoElements ==
  ASSUME NEW s \in Seq(FindingType), Range(s) = {}
  PROVE  s = <<>>
<1>1. DOMAIN s = {}
  BY DEF Range
<1>2. Len(s) = 0
  BY <1>1, LenProperties
<1> QED
  BY <1>2, EmptySeq

\* Findings of the pool are findings.
LEMMA PoolTyped ==
  ASSUME NEW fs \in Seq(Pool)
  PROVE  fs \in Seq(FindingType) /\ Emitted(Range(fs))
<1>1. Emitted(Pool)
  BY ReportOrderAssumption DEF ReportOrderAssumption
<1>2. Pool \subseteq FindingType
  BY <1>1 DEF Emitted
<1>3. DOMAIN fs = 1 .. Len(fs) /\ Len(fs) \in Nat /\ \A k \in DOMAIN fs : fs[k] \in Pool
  BY ElementOfSeq, LenProperties
<1>4. fs \in Seq(FindingType)
  BY <1>2, SeqMonotonic
<1>5. Range(fs) \subseteq Pool
  BY <1>3 DEF Range
<1> QED
  BY <1>1, <1>4, <1>5 DEF Emitted

\* One pass over what has arrived is the pipeline.
LEMMA ReportIs ==
  ASSUME NEW fs, Report(fs)
  PROVE  /\ linted' = Linted(fs, selecting)
         /\ final' = Printed(Apply(Linted(fs, selecting), ignoring))
  BY DEF Report, Linted

\* Nothing has arrived and nothing is printed.
LEMMA OrderInit ==
  ASSUME ReportInit
  PROVE  OrderInv
<1>1. arrived = <<>> /\ linted = <<>> /\ final = <<>>
  BY DEF ReportInit
<1>2. <<>> \in Seq(Pool) /\ <<>> \in Seq(FindingType) /\ Range(<<>>) = {} /\ DOMAIN <<>> = {}
  BY EmptySeq DEF Range
<1>3. Linted(<<>>, selecting) = <<>>
  <2>1. Linted(<<>>, selecting) \in Seq(FindingType)
    BY <1>2, LintedIs
  <2>2. Range(Linted(<<>>, selecting)) = {}
    BY <1>2, LintedIs DEF Selected
  <2> QED
    BY <2>1, <2>2, NoElements
<1>4. Apply(<<>>, ignoring) = <<>>
  <2>1. Apply(<<>>, ignoring) \in Seq(FindingType) /\ Range(Apply(<<>>, ignoring)) = {}
    BY <1>2, ApplyIs DEF Applied
  <2> QED
    BY <2>1, NoElements
<1>5. Printed(<<>>) = <<>>
  <2>1. Printed(<<>>) \in Seq(FindingType) /\ Range(Printed(<<>>)) = {}
    BY <1>2, PrintedIs
  <2> QED
    BY <2>1, NoElements
<1> QED
  BY <1>1, <1>2, <1>3, <1>4, <1>5 DEF OrderInv

\* An overtaking changes the order of what has arrived and nothing else.
LEMMA OvertakeIs ==
  ASSUME arrived \in Seq(Pool), Overtake
  PROVE  arrived' \in Seq(Pool) /\ Range(arrived') = Range(arrived)
<1>1. PICK i \in 1 .. Len(arrived) - 1 :
        arrived' = [arrived EXCEPT ![i] = arrived[i + 1], ![i + 1] = arrived[i]]
  BY DEF Overtake
<1> DEFINE D == DOMAIN arrived
           there(k) == IF k = i THEN i + 1 ELSE IF k = i + 1 THEN i ELSE k
<1>2. D = 1 .. Len(arrived) /\ Len(arrived) \in Nat /\ \A k \in D : arrived[k] \in Pool
  BY ElementOfSeq, LenProperties
<1>3. i \in D /\ i + 1 \in D /\ i # i + 1
  BY <1>1, <1>2
<1>4. DOMAIN arrived' = D /\ arrived' = [k \in D |-> arrived'[k]]
  BY <1>1
<1>5. \A k \in D : arrived'[k] = arrived[there(k)] /\ there(k) \in D
  BY <1>1, <1>2, <1>3
<1>6. \A k \in D : there(there(k)) = k
  BY <1>3
<1> HIDE DEF there
<1>7. arrived' \in [1 .. Len(arrived) -> Pool]
  BY <1>2, <1>4, <1>5
<1>8. arrived' \in Seq(Pool)
  BY <1>2, <1>7
<1>9. Range(arrived') = Range(arrived)
  BY <1>4, <1>5, <1>6 DEF Range
<1> QED
  BY <1>8, <1>9

\* Each step keeps it.
LEMMA OrderStep ==
  ASSUME OrderInv, [ReportNext]_reportVars
  PROVE  OrderInv'
<1>1. CASE UNCHANGED reportVars
  BY <1>1 DEF OrderInv, reportVars
<1>2. ASSUME Report(arrived'), UNCHANGED <<selecting, ignoring>>
      PROVE  linted' = Linted(arrived', selecting') /\ final' = Printed(Apply(linted', ignoring'))
  BY <1>2, ReportIs
<1>3. CASE Arrive
  <2>1. PICK f \in Pool : Runs(f.rule, selecting) /\ arrived' = Append(arrived, f)
    BY <1>3 DEF Arrive
  <2>2. /\ arrived' \in Seq(Pool) /\ DOMAIN arrived' = 1 .. Len(arrived) + 1
        /\ DOMAIN arrived = 1 .. Len(arrived) /\ Len(arrived) \in Nat
        /\ \A k \in 1 .. Len(arrived) : arrived'[k] = arrived[k]
        /\ arrived'[Len(arrived) + 1] = f
    BY <2>1, AppendProperties, LenProperties DEF OrderInv
  <2>3. selecting' = selecting
    BY <1>3 DEF Arrive
  <2>4. ASSUME NEW k \in DOMAIN arrived' PROVE Runs(arrived'[k].rule, selecting)
    <3>1. k \in 1 .. Len(arrived) \/ k = Len(arrived) + 1
      BY <2>2
    <3> QED
      BY <2>1, <2>2, <3>1 DEF OrderInv
  <2> QED
    BY <1>2, <1>3, <2>2, <2>3, <2>4 DEF Arrive, OrderInv, Runs
<1>4. CASE Overtake
  <2>1. arrived' \in Seq(Pool) /\ Range(arrived') = Range(arrived)
    BY <1>4, OvertakeIs DEF OrderInv
  <2>2. selecting' = selecting
    BY <1>4 DEF Overtake
  <2>3. \A k \in DOMAIN arrived' : Runs(arrived'[k].rule, selecting)
    BY <2>1 DEF OrderInv, Range
  <2> QED
    BY <1>2, <1>4, <2>1, <2>2, <2>3 DEF Overtake, OrderInv, Runs
<1> QED
  BY <1>1, <1>3, <1>4 DEF ReportNext

-----------------------------------------------------------------------------
\* Whatever arrives, and in whatever order: what is returned and printed is the
\* pipeline's answer for it.
THEOREM PipelineAnswers == ReportSpec => []OrderInv
<1>1. ReportInit => OrderInv
  BY OrderInit
<1>2. OrderInv /\ [ReportNext]_reportVars => OrderInv'
  BY OrderStep
<1> QED
  BY <1>1, <1>2, PTL DEF ReportSpec

\* What the policy selects of what has arrived is returned, once ordered.
LEMMA ReturnedIs ==
  ASSUME OrderInv
  PROVE  /\ arrived \in Seq(FindingType) /\ linted \in Seq(FindingType)
         /\ InOrder(linted)
         /\ Range(linted) = Selected(Range(arrived), selecting)
         /\ TieFree(arrived) => Increasing(linted)
<1>1. arrived \in Seq(FindingType) /\ Emitted(Range(arrived))
  BY PoolTyped DEF OrderInv
<1>2. linted = Linted(arrived, selecting)
  BY DEF OrderInv
<1> QED
  BY <1>1, <1>2, LintedIs

\* A skip wins over an enable, and an enable over the profile (rules.Select): no
\* finding that skip_list names is reported, and one that enable_list names is.
THEOREM SkipWinsThenEnable == ReportSpec => []SkipThenEnable
<1>1. ASSUME OrderInv PROVE SkipThenEnable
  <2>1. /\ arrived \in Seq(FindingType) /\ linted \in Seq(FindingType)
        /\ Range(linted) = Selected(Range(arrived), selecting)
    BY <1>1, ReturnedIs
  <2>2. \A k \in DOMAIN arrived : arrived[k] \in Range(arrived) /\ arrived[k] \in FindingType
    BY <2>1, ElementOfSeq, LenProperties DEF Range
  <2>3. Range(arrived) \subseteq FindingType
    BY <2>2 DEF Range
  <2>4. ASSUME NEW k \in DOMAIN linted PROVE ~Named(selecting.skip, linted[k])
    <3>1. linted[k] \in Range(linted)
      BY DEF Range
    <3>2. PICK f \in Range(arrived) : linted[k] = Demote(selecting, f) /\ ~Named(selecting.skip, f)
      BY <2>1, <3>1 DEF Selected
    <3>3. Tag(Demote(selecting, f)) = Tag(f) /\ Demote(selecting, f).rule = f.rule
      BY <2>3, DemoteIs
    <3> QED
      BY <3>2, <3>3 DEF Named
  <2>5. ASSUME NEW k \in DOMAIN arrived, Named(selecting.enable, arrived[k]),
               ~Named(selecting.skip, arrived[k])
        PROVE  \E j \in DOMAIN linted : Same(linted[j], arrived[k])
    <3>1. Selects(selecting, arrived[k])
      BY <2>5 DEF Selects
    <3>2. Demote(selecting, arrived[k]) \in Range(linted)
      BY <2>1, <2>2, <2>5, <3>1 DEF Selected
    <3>3. PICK j \in DOMAIN linted : linted[j] = Demote(selecting, arrived[k])
      BY <3>2 DEF Range
    <3>4. Same(Demote(selecting, arrived[k]), arrived[k])
      BY <2>2, DemoteIs
    <3> QED
      BY <3>3, <3>4
  <2> QED
    BY <2>4, <2>5 DEF SkipThenEnable
<1> QED
  BY <1>1, PipelineAnswers, PTL

\* A finding that survives selection belongs to a rule the report declares
\* (rules.EnabledRules), when enable_list names whole rules.
THEOREM DeclaredWhatIsReported == ReportSpec => []ReportedIsEnabledBare
<1>1. ASSUME OrderInv PROVE ReportedIsEnabledBare
  <2>1. SUFFICES ASSUME \A id \in selecting.enable : id[2] = Bare, NEW k \in DOMAIN linted
                 PROVE  linted[k].rule \in EnabledRules(selecting)
    BY DEF ReportedIsEnabledBare, ReportedIsEnabled
  <2>2. arrived \in Seq(FindingType) /\ Range(linted) = Selected(Range(arrived), selecting)
    BY <1>1, ReturnedIs
  <2>3. linted[k] \in Range(linted)
    BY DEF Range
  <2>4. PICK f \in Range(arrived) :
          linted[k] = Demote(selecting, f) /\ ~Named(selecting.skip, f) /\ Selects(selecting, f)
    BY <2>2, <2>3 DEF Selected
  <2>5. PICK i \in DOMAIN arrived : arrived[i] = f
    BY DEF Range
  <2>6. f \in FindingType /\ Runs(f.rule, selecting)
    BY <1>1, <2>2, <2>5, ElementOfSeq, LenProperties DEF OrderInv
  <2>7. linted[k].rule = f.rule /\ f.rule \in Rule
    <3>1. Demote(selecting, f).rule = f.rule
      BY <2>6, DemoteIs
    <3>2. f.rule \in Rule
      BY <2>6 DEF FindingType
    <3> QED
      BY <2>4, <3>1, <3>2
  <2>8. Named(selecting.enable, f) => <<f.rule, Bare>> \in selecting.enable
    <3>1. SUFFICES ASSUME Tag(f) \in selecting.enable PROVE <<f.rule, Bare>> \in selecting.enable
      BY DEF Named
    <3>2. Tag(f)[2] = Bare
      BY <2>1, <3>1
    <3>3. Tag(f) = <<f.rule, Bare>>
      BY <3>2 DEF Tag
    <3> QED
      BY <3>1, <3>3
  <2> QED
    BY <2>4, <2>6, <2>7, <2>8 DEF EnabledRules, Selects, Runs, Named
<1> QED
  BY <1>1, PipelineAnswers, PTL

\* No finding is printed twice (rules.Dedupe), when none tie.
THEOREM NoneTwice == ReportSpec => []NoDuplicatesTieFree
<1>1. ASSUME OrderInv PROVE NoDuplicatesTieFree
  <2> DEFINE applied == Apply(linted, ignoring)
  <2>1. SUFFICES ASSUME TieFree(arrived), NEW i \in DOMAIN final, NEW j \in DOMAIN final, i # j
                 PROVE  ~Same(final[i], final[j])
    BY DEF NoDuplicatesTieFree
  <2>2. linted \in Seq(FindingType) /\ Increasing(linted)
    BY <1>1, <2>1, ReturnedIs
  <2>3. applied \in Seq(FindingType) /\ Increasing(applied)
    BY <2>2, ApplyIs
  <2>4. final = Printed(applied)
    BY <1>1 DEF OrderInv
  <2> HIDE DEF applied
  <2>5. final \in Seq(FindingType)
    BY <2>3, <2>4, PrintedIs
  <2>6. PICK at : Prints(applied, final, at)
    BY <2>3, <2>4, PrintedIs
  <2>7. i \in Nat /\ j \in Nat /\ DOMAIN applied \subseteq Nat
    BY <2>3, <2>5, LenProperties
  <2>8. /\ at[i] \in DOMAIN applied /\ at[j] \in DOMAIN applied /\ at[i] # at[j]
        /\ final[i] = applied[at[i]] /\ final[j] = applied[at[j]]
    BY <2>1, <2>6, <2>7 DEF Prints
  <2>9. Less(final[i], final[j]) \/ Less(final[j], final[i])
    BY <2>3, <2>7, <2>8 DEF Increasing
  <2>10. final[i] \in FindingType /\ final[j] \in FindingType
    BY <2>5, ElementOfSeq, LenProperties
  <2> QED
    BY <2>9, <2>10, SameIsTie, LessLaws
<1> QED
  BY <1>1, PipelineAnswers, PTL

\* Applying the ignore file last equals upstream's mid-pipeline order (run), when
\* no findings tie.
THEOREM MidPipeline == ReportSpec => []MidPipelineTieFree
<1>1. ASSUME OrderInv PROVE MidPipelineTieFree
  <2>1. SUFFICES ASSUME TieFree(arrived)
                 PROVE  final = Printed(Dedupe(Sort(Apply(Select(arrived, selecting), ignoring))))
    BY DEF MidPipelineTieFree
  <2>2. arrived \in Seq(FindingType)
    BY <1>1, ReturnedIs
  <2>3. final = Printed(Apply(Linted(arrived, selecting), ignoring))
    BY <1>1 DEF OrderInv
  <2> QED
    BY <2>1, <2>2, <2>3, ApplyCommutes
<1> QED
  BY <1>1, PipelineAnswers, PTL

\* One worker appending before another changes nothing that is printed
\* (Includes.Found, lintRound), when no findings tie.
THEOREM ScheduleNotSeen == ReportSpec => ScheduleFree
<1>1. ASSUME OrderInv, OrderInv', Overtake, TieFree(arrived) PROVE final' = final
  <2>1. selecting' = selecting /\ ignoring' = ignoring
    BY <1>1 DEF Overtake
  <2>2. arrived' \in Seq(Pool) /\ Range(arrived') = Range(arrived)
    BY <1>1, OvertakeIs DEF OrderInv
  <2>3. arrived \in Seq(FindingType) /\ arrived' \in Seq(FindingType)
    BY <1>1, <2>2, PoolTyped DEF OrderInv
  <2>4. Linted(arrived', selecting) = Linted(arrived, selecting)
    BY <1>1, <2>2, <2>3, LintedUnique
  <2>5. final = Printed(Apply(Linted(arrived, selecting), ignoring))
    BY <1>1 DEF OrderInv
  <2>6. final' = Printed(Apply(Linted(arrived', selecting'), ignoring'))
    BY <1>1 DEF OrderInv
  <2> QED
    BY <2>1, <2>4, <2>5, <2>6
<1>2. OrderInv /\ OrderInv' => [Overtake /\ TieFree(arrived) => final' = final]_reportVars
  BY <1>1
<1> QED
  BY <1>2, PipelineAnswers, PTL DEF ScheduleFree, ReportSpec


=============================================================================
