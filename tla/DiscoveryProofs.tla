---------------------------- MODULE DiscoveryProofs ----------------------------
(***************************************************************************)
(* What is proved of discovery for every tree, command line and list of    *)
(* patterns: the walk finds nothing twice and nothing outside the project  *)
(* but a path it was given, it finds all that is there to be found and     *)
(* misses nothing unnoticed, the project holds every root, what is found   *)
(* was in the tree, and a pattern list is decided by its last match.       *)
(***************************************************************************)
EXTENDS Discovery, SumProofs, SequenceTheorems, TLAPS

\* s is a sequence, whatever its elements are.
Sequential(s) == s \in Seq({s[i] : i \in DOMAIN s})

\* Appending to a sequence keeps its elements where they are.
LEMMA AppendKeeps ==
  ASSUME NEW s, Sequential(s), NEW e
  PROVE  /\ Sequential(Append(s, e))
         /\ Len(s) \in Nat /\ DOMAIN s = 1 .. Len(s)
         /\ DOMAIN Append(s, e) = 1 .. Len(s) + 1
         /\ \A i \in DOMAIN s : Append(s, e)[i] = s[i]
         /\ Append(s, e)[Len(s) + 1] = e
         /\ Append(s, e) # <<>>
PROOF
<1> DEFINE S == {s[i] : i \in DOMAIN s}
           t == Append(s, e)
<1>1. s \in Seq(S)
  BY DEF Sequential
<1>2. Len(s) \in Nat /\ DOMAIN s = 1 .. Len(s)
  BY <1>1
<1>3. s \in Seq(S \cup {e})
  BY <1>1
<1>4. /\ t \in Seq(S \cup {e})
      /\ Len(t) = Len(s) + 1
      /\ \A i \in 1 .. Len(s) : t[i] = s[i]
      /\ t[Len(s) + 1] = e
  BY <1>2, <1>3
<1>5. DOMAIN t = 1 .. Len(s) + 1
  BY <1>4
<1>6. t # <<>>
  BY <1>2, <1>5
<1>7. Sequential(t)
  <2> HIDE DEF t
  <2>1. t \in [1 .. Len(s) + 1 -> S \cup {e}]
    BY <1>4, LenProperties
  <2>2. t \in [1 .. Len(s) + 1 -> {t[i] : i \in DOMAIN t}]
    BY <2>1
  <2>3. t \in Seq({t[i] : i \in DOMAIN t})
    BY <2>2, <1>2
  <2> QED
    BY <2>3 DEF Sequential, t
<1> QED
  BY <1>2, <1>4, <1>5, <1>6, <1>7

\* MatchSpec is what the loop of ignoreSpec.match computes: a list one longer
\* is decided by its last pattern if that matches, otherwise as without it.
THEOREM LaterWins ==
  ASSUME NEW spec, Sequential(spec), NEW pattern, NEW cand
  PROVE  MatchSpec(Append(spec, pattern), cand)
           <=> IF Matches(pattern, cand) THEN ~pattern.negate ELSE MatchSpec(spec, cand)
PROOF
<1> DEFINE longer == Append(spec, pattern)
           n == Len(spec)
<1>1. /\ n \in Nat /\ DOMAIN spec = 1 .. n /\ DOMAIN longer = 1 .. n + 1
      /\ \A i \in 1 .. n : longer[i] = spec[i]
      /\ longer[n + 1] = pattern
  BY AppendKeeps
<1>2. Len(longer) = n + 1
  BY <1>1, AppendKeeps DEF Sequential
<1> HIDE DEF longer, n
<1>3. CASE Matches(pattern, cand)
  <2>1. \A k \in 1 .. n : n + 1 \in k + 1 .. Len(longer) /\ Matches(longer[n + 1], cand)
    BY <1>1, <1>2, <1>3
  <2>2. n + 1 \in DOMAIN longer /\ \A l \in n + 2 .. Len(longer) : FALSE
    BY <1>1, <1>2
  <2> QED
    BY <1>1, <1>2, <1>3, <2>1, <2>2 DEF MatchSpec, longer
<1>4. CASE ~Matches(pattern, cand)
  <2>1. \A k \in 1 .. n :
          (\A l \in k + 1 .. n + 1 : ~Matches(longer[l], cand))
            <=> (\A l \in k + 1 .. n : ~Matches(spec[l], cand))
    BY <1>1, <1>4
  <2>2. MatchSpec(longer, cand) <=>
          \E k \in 1 .. n : /\ Matches(longer[k], cand) /\ ~longer[k].negate
                            /\ \A l \in k + 1 .. n + 1 : ~Matches(longer[l], cand)
    BY <1>1, <1>2, <1>4 DEF MatchSpec
  <2>3. MatchSpec(spec, cand) <=>
          \E k \in 1 .. n : /\ Matches(spec[k], cand) /\ ~spec[k].negate
                            /\ \A l \in k + 1 .. n : ~Matches(spec[l], cand)
    BY <1>1 DEF MatchSpec, n
  <2>4. MatchSpec(longer, cand) <=> MatchSpec(spec, cand)
    BY <1>1, <2>1, <2>2, <2>3
  <2> QED
    BY <1>4, <2>4 DEF longer
<1> QED
  BY <1>3, <1>4

-----------------------------------------------------------------------------
(* The inductive invariant. Nothing is found before the project is known,  *)
(* and whenever an entry is at hand there is a root it was come to from.   *)
IInv ==
  /\ EachFileOnce
  /\ Sequential(items) /\ Sequential(walked)
  /\ agenda # <<>> => walked # <<>>
  /\ status = "start" => items = <<>> /\ agenda = <<>>

\* add keeps what it found, and adds no file again and none from outside.
LEMMA AddKeeps ==
  ASSUME IInv, walked # <<>>, NEW abs, NEW kind, NEW size,
         items' = Add(abs, kind, size), walked' = walked, project' = project
  PROVE  EachFileOnce' /\ Sequential(items)'
PROOF
<1>1. CASE items' = items
  BY <1>1 DEF IInv, EachFileOnce, Sequential, InProject
<1>2. CASE items' = Append(items, Item(abs, kind, size))
           /\ (\A i \in DOMAIN items : items[i].abs # abs)
           /\ (abs = Last(walked) \/ InProject(project, abs))
  <2> DEFINE n == Len(items)
  <2>1. /\ Sequential(items') /\ n \in Nat /\ DOMAIN items = 1 .. n
        /\ DOMAIN items' = 1 .. n + 1
        /\ \A i \in DOMAIN items : items'[i] = items[i]
        /\ items'[n + 1] = Item(abs, kind, size)
    BY <1>2, AppendKeeps DEF IInv
  <2>2. items'[n + 1].abs = abs
    BY <2>1 DEF Item
  <2>3. \A i \in DOMAIN items' : i \in DOMAIN items \/ i = n + 1
    BY <2>1
  <2>4. Len(walked) \in DOMAIN walked /\ Last(walked) = walked[Len(walked)]
    BY DEF IInv, Sequential, Last
  <2>5. \A i, j \in DOMAIN items' : items'[i].abs = items'[j].abs => i = j
    BY <1>2, <2>1, <2>2, <2>3 DEF IInv, EachFileOnce
  <2>6. \A i \in DOMAIN items' :
          InProject(project, items'[i].abs) \/ \E k \in DOMAIN walked : walked[k] = items'[i].abs
    BY <1>2, <2>1, <2>2, <2>3, <2>4 DEF IInv, EachFileOnce
  <2> QED
    BY <2>1, <2>5, <2>6 DEF EachFileOnce, Sequential, InProject
<1> QED
  BY <1>1, <1>2 DEF Add

\* Init establishes the invariant.
LEMMA InitIInv == Init => IInv
PROOF
<1> SUFFICES ASSUME Init PROVE IInv
  OBVIOUS
<1>1. items = <<>> /\ walked = <<>> /\ agenda = <<>>
  BY DEF Init
<1>2. Sequential(<<>>)
  BY DEF Sequential
<1> QED
  BY <1>1, <1>2 DEF IInv, EachFileOnce

\* Every step of the walk keeps it.
LEMMA NextIInv == IInv /\ [Next]_vars => IInv'
PROOF
<1> SUFFICES ASSUME IInv, [Next]_vars PROVE IInv'
  OBVIOUS
<1> USE DEF found, setting
<1>1. CASE Begin
  <2>1. items' = <<>> /\ items = <<>> /\ walked' = walked /\ agenda' = <<>>
    BY <1>1 DEF Begin, IInv
  <2> QED
    BY <1>1, <2>1 DEF Begin, IInv, EachFileOnce, Sequential
<1>2. CASE NextRoot
  <2>1. items' = items /\ project' = project /\ status = "walking"
    BY <1>2 DEF NextRoot
  <2>2. PICK abs \in {resolvePath(tree, Head(todo))} :
          \/ status' = "failed" /\ walked' = walked /\ agenda' = agenda
          \/ walked' = Append(walked, abs) /\ status' = status
    BY <1>2 DEF NextRoot
  <2>3. CASE status' = "failed" /\ walked' = walked /\ agenda' = agenda
    BY <2>1, <2>3 DEF IInv, EachFileOnce, Sequential, InProject
  <2>4. CASE walked' = Append(walked, abs) /\ status' = status
    <3>1. /\ Sequential(walked') /\ walked' # <<>>
          /\ \A k \in DOMAIN walked : k \in DOMAIN walked' /\ walked'[k] = walked[k]
      BY <2>4, AppendKeeps DEF IInv
    <3>2. EachFileOnce'
      BY <2>1, <3>1 DEF IInv, EachFileOnce, InProject
    <3> QED
      BY <2>1, <2>4, <3>1, <3>2 DEF IInv, Sequential
  <2> QED
    BY <2>2, <2>3, <2>4
<1>3. CASE EnterRoot
  BY <1>3 DEF EnterRoot, At, IInv, EachFileOnce, Sequential, InProject
<1>4. CASE VisitDir
  <2>1. /\ walked # <<>> /\ walked' = walked /\ project' = project
        /\ status = "walking" /\ status' = status
    BY <1>4 DEF VisitDir, At, IInv
  <2>2. items' = items \/ items' = Add(Here, "role", 0)
    BY <1>4 DEF VisitDir
  <2>3. EachFileOnce' /\ Sequential(items)'
    <3>1. CASE items' = items
      BY <2>1, <3>1 DEF IInv, EachFileOnce, Sequential, InProject
    <3>2. CASE items' = Add(Here, "role", 0)
      BY <2>1, <3>2, AddKeeps
    <3> QED
      BY <2>2, <3>1, <3>2
  <2> QED
    BY <2>1, <2>3 DEF IInv, Sequential
<1>5. CASE ListDir
  BY <1>5 DEF ListDir, At, IInv, EachFileOnce, Sequential, InProject
<1>6. CASE VisitFile
  <2>1. /\ walked # <<>> /\ walked' = walked /\ project' = project
        /\ status = "walking" /\ status' = status
    BY <1>6 DEF VisitFile, AtFile, At, IInv
  <2>2. items' = items \/ \E i : items' = Add(i.abs, i.kind, i.size)
    BY <1>6 DEF VisitFile
  <2>3. EachFileOnce' /\ Sequential(items)'
    <3>1. CASE items' = items
      BY <2>1, <3>1 DEF IInv, EachFileOnce, Sequential, InProject
    <3>2. CASE \E i : items' = Add(i.abs, i.kind, i.size)
      BY <2>1, <3>2, AddKeeps
    <3> QED
      BY <2>2, <3>1, <3>2
  <2> QED
    BY <2>1, <2>3 DEF IInv, Sequential
<1>7. CASE VisitExcluded
  BY <1>7 DEF VisitExcluded, AtFile, At, IInv, EachFileOnce, Sequential, InProject
<1>8. CASE Finish
  <2>1. /\ walked' = walked /\ project' = project /\ agenda' = <<>> /\ status' = "done"
    BY <1>8 DEF Finish
  <2>2. PICK order \in Injection(DOMAIN items, DOMAIN items) :
          items' = [i \in DOMAIN items |-> items[order[i]]]
    BY <1>8 DEF Finish
  <2>3. /\ order \in [DOMAIN items -> DOMAIN items]
        /\ \A i, j \in DOMAIN items : order[i] = order[j] => i = j
    BY DEF Injection, IsInjective
  <2>4. EachFileOnce'
    BY <2>1, <2>2, <2>3 DEF IInv, EachFileOnce, InProject
  <2>5. Sequential(items)'
    <3>1. items \in Seq({items[i] : i \in DOMAIN items})
      BY DEF IInv, Sequential
    <3>2. Len(items) \in Nat /\ DOMAIN items = 1 .. Len(items)
      BY <3>1, LenProperties
    <3>3. items' \in [1 .. Len(items) -> {items'[i] : i \in DOMAIN items'}]
      BY <2>2, <3>2
    <3>4. items' \in Seq({items'[i] : i \in DOMAIN items'})
      BY <3>2, <3>3
    <3> QED
      BY <3>4 DEF Sequential
  <2> QED
    BY <2>1, <2>4, <2>5 DEF IInv, Sequential
<1>9. CASE Vanish
  BY <1>9 DEF Vanish, IInv, EachFileOnce, Sequential, InProject
<1>10. CASE UNCHANGED vars
  BY <1>10 DEF vars, IInv, EachFileOnce, Sequential, InProject
<1> QED
  BY <1>1, <1>2, <1>3, <1>4, <1>5, <1>6, <1>7, <1>8, <1>9, <1>10 DEF Next, Stopped

\* In every run the walk finds no file twice, and nothing outside the project
\* but what the command line names: what the rounds of linting assume of it.
THEOREM FoundOnce == Spec => []EachFileOnce
PROOF
<1>1. IInv => EachFileOnce
  BY DEF IInv
<1> QED
  BY <1>1, InitIInv, NextIInv, PTL DEF Spec

-----------------------------------------------------------------------------
(* Paths: what it means to lie below a directory.                          *)

\* IsPrefix, by the names.
LEMMA PrefixIs ==
  ASSUME NEW S, NEW s \in Seq(S), NEW t \in Seq(S)
  PROVE  IsPrefix(s, t) <=> Len(s) <= Len(t) /\ \A i \in 1 .. Len(s) : s[i] = t[i]
PROOF
<1>1. Len(s) \in Nat /\ Len(t) \in Nat
  OBVIOUS
<1>2. SubSeq(s, 1, Len(s)) = s
  BY SubSeqFull
<1>3. ASSUME Len(s) <= Len(t)
      PROVE  /\ SubSeq(t, 1, Len(s)) \in Seq(S) /\ Len(SubSeq(t, 1, Len(s))) = Len(s)
             /\ \A i \in 1 .. Len(s) : SubSeq(t, 1, Len(s))[i] = t[i]
  <2>1. \A i \in 1 .. Len(s) : t[i] \in S
    BY <1>1, <1>3, ElementOfSeq
  <2> QED
    BY <1>1, <2>1, SubSeqProperties
<1>4. ASSUME Len(s) <= Len(t), \A i \in 1 .. Len(s) : s[i] = t[i]
      PROVE  s = SubSeq(t, 1, Len(s))
  <2> DEFINE u == SubSeq(t, 1, Len(s))
  <2>1. u \in Seq(S) /\ Len(u) = Len(s) /\ \A i \in 1 .. Len(s) : u[i] = s[i]
    BY <1>3, <1>4
  <2> HIDE DEF u
  <2>2. s = u
    BY <2>1, SeqEqual
  <2> QED
    BY <2>2 DEF u
<1> QED
  BY <1>2, <1>3, <1>4 DEF IsPrefix

\* Every path lies below the root.
LEMMA EmptyPrefix ==
  ASSUME NEW S, NEW t \in Seq(S)
  PROVE  <<>> \in Seq(S) /\ IsPrefix(<<>>, t)
PROOF
<1>1. <<>> \in Seq(S) /\ Len(<<>>) = 0
  BY EmptySeq
<1>2. ASSUME NEW s \in Seq(S), Len(s) = 0 PROVE IsPrefix(s, t)
  <2>1. Len(s) <= Len(t) /\ \A i \in 1 .. Len(s) : s[i] = t[i]
    BY <1>2
  <2> QED
    BY <2>1, PrefixIs
<1> QED
  BY <1>1, <1>2

\* What is below a directory below another is below that.
LEMMA PrefixTrans ==
  ASSUME NEW S, NEW s \in Seq(S), NEW t \in Seq(S), NEW u \in Seq(S),
         IsPrefix(s, t), IsPrefix(t, u)
  PROVE  IsPrefix(s, u)
PROOF
<1>1. Len(s) <= Len(t) /\ \A i \in 1 .. Len(s) : s[i] = t[i]
  BY PrefixIs
<1>2. Len(t) <= Len(u) /\ \A i \in 1 .. Len(t) : t[i] = u[i]
  BY PrefixIs
<1>3. Len(s) \in Nat /\ Len(t) \in Nat /\ Len(u) \in Nat
  OBVIOUS
<1>4. Len(s) <= Len(u) /\ \A i \in 1 .. Len(s) : s[i] = u[i]
  BY <1>1, <1>2, <1>3
<1> QED
  BY <1>4, PrefixIs

\* An ancestor of a path.
LEMMA UptoIs ==
  ASSUME NEW S, NEW p \in Seq(S), NEW k \in 0 .. Len(p)
  PROVE  /\ Upto(p, k) \in Seq(S) /\ Len(Upto(p, k)) = k
         /\ \A i \in 1 .. k : Upto(p, k)[i] = p[i]
         /\ IsPrefix(Upto(p, k), p)
         /\ k = Len(p) => Upto(p, k) = p
PROOF
<1>1. Len(p) \in Nat /\ k \in Nat /\ k <= Len(p)
  OBVIOUS
<1>2. \A i \in 1 .. k : p[i] \in S
  BY <1>1, ElementOfSeq
<1>3. /\ Upto(p, k) \in Seq(S) /\ Len(Upto(p, k)) = k
      /\ \A i \in 1 .. k : Upto(p, k)[i] = p[i]
  BY <1>1, <1>2, SubSeqProperties DEF Upto
<1>4. IsPrefix(Upto(p, k), p)
  <2> HIDE DEF Upto
  <2> QED
    BY <1>1, <1>3, PrefixIs
<1>5. k = Len(p) => Upto(p, k) = p
  BY SubSeqFull DEF Upto
<1> QED
  BY <1>3, <1>4, <1>5

\* The ancestors of an ancestor.
LEMMA UptoUpto ==
  ASSUME NEW S, NEW p \in Seq(S), NEW k \in 0 .. Len(p), NEW l \in 0 .. k
  PROVE  Upto(Upto(p, k), l) = Upto(p, l)
PROOF
<1> DEFINE q == Upto(p, k)
           a == Upto(q, l)
           b == Upto(p, l)
<1>1. q \in Seq(S) /\ Len(q) = k /\ \A i \in 1 .. k : q[i] = p[i]
  BY UptoIs
<1> HIDE DEF q
<1>2. l \in 0 .. Len(q) /\ l \in 0 .. Len(p)
  BY <1>1
<1>3. a \in Seq(S) /\ Len(a) = l /\ \A i \in 1 .. l : a[i] = q[i]
  BY <1>1, <1>2, UptoIs
<1>4. b \in Seq(S) /\ Len(b) = l /\ \A i \in 1 .. l : b[i] = p[i]
  BY <1>2, UptoIs
<1> HIDE DEF a, b
<1>5. \A i \in 1 .. l : a[i] = b[i]
  BY <1>1, <1>2, <1>3, <1>4
<1>6. a = b
  BY <1>3, <1>4, <1>5, SeqEqual
<1> QED
  BY <1>6 DEF a, b, q

\* A path lies below its parent.
LEMMA ParentIs ==
  ASSUME NEW S, NEW p \in Seq(S)
  PROVE  Parent(p) \in Seq(S) /\ IsPrefix(Parent(p), p)
PROOF
<1>1. CASE p = <<>>
  <2>1. Parent(p) = <<>>
    BY <1>1 DEF Parent
  <2> QED
    BY <2>1, EmptyPrefix
<1>2. CASE p # <<>>
  <2>1. Len(p) - 1 \in 0 .. Len(p)
    BY <1>2, EmptySeq
  <2>2. Parent(p) = Upto(p, Len(p) - 1)
    BY <1>2 DEF Parent, Front, Upto
  <2> QED
    BY <2>1, <2>2, UptoIs
<1> QED
  BY <1>1, <1>2

\* commonBase moves up to a directory that both lie in.
LEMMA WidenIs ==
  ASSUME NEW S, NEW base \in Seq(S), NEW dir \in Seq(S)
  PROVE  /\ Widen(base, dir) \in Seq(S)
         /\ IsPrefix(Widen(base, dir), base) /\ IsPrefix(Widen(base, dir), dir)
PROOF
<1> DEFINE C == CommonPrefixes({base, dir})
           L == {l \in 0 .. Len(base) : \E c \in C : Len(c) = l}
           longest(c) == \A other \in C : Len(other) <= Len(c)
<1>1. Len(base) \in Nat /\ Len(dir) \in Nat
  OBVIOUS
<1>2. ASSUME NEW c \in C
      PROVE  c \in Seq(S) /\ IsPrefix(c, base) /\ IsPrefix(c, dir)
  <2>1. PICK seq \in {base, dir} : c \in Prefixes(seq)
    BY DEF CommonPrefixes
  <2>2. PICK l \in 0 .. Len(seq) : c = SubSeq(seq, 1, l)
    BY <2>1 DEF Prefixes
  <2>3. c = Upto(seq, l) /\ seq \in Seq(S)
    BY <2>2 DEF Upto
  <2>4. c \in Seq(S)
    BY <2>3, UptoIs
  <2>5. \A t \in {base, dir} : IsPrefix(c, t)
    BY DEF CommonPrefixes
  <2> QED
    BY <2>4, <2>5
<1>3. <<>> \in C
  <2>1. Upto(base, 0) \in Seq(S) /\ Len(Upto(base, 0)) = 0
    BY <1>1, UptoIs
  <2>2. Upto(base, 0) = <<>>
    BY <2>1, EmptySeq
  <2>3. <<>> \in Prefixes(base)
    BY <1>1, <2>2 DEF Prefixes, Upto
  <2>4. IsPrefix(<<>>, base) /\ IsPrefix(<<>>, dir)
    BY EmptyPrefix
  <2> QED
    BY <2>3, <2>4 DEF CommonPrefixes
<1>4. ASSUME NEW c \in C PROVE Len(c) \in L
  <2>1. c \in Seq(S) /\ IsPrefix(c, base)
    BY <1>2
  <2>2. Len(c) \in Nat /\ Len(c) <= Len(base)
    BY <2>1, PrefixIs
  <2> HIDE DEF C
  <2> QED
    BY <1>1, <2>2
<1>5. PICK m \in L : \A k \in L : k <= m
  <2> HIDE DEF C
  <2>1. L # {} /\ L \in SUBSET (0 .. Len(base))
    BY <1>3, <1>4
  <2> HIDE DEF L
  <2> QED
    BY <1>1, <2>1, LargestExists
<1>6. \E c \in C : longest(c)
  <2> HIDE DEF C
  <2>1. PICK c \in C : Len(c) = m
    BY <1>5
  <2> QED
    BY <1>4, <1>5, <2>1
<1>7. Widen(base, dir) = CHOOSE c \in C : longest(c)
  BY DEF Widen, LongestCommonPrefix
<1>8. Widen(base, dir) \in C
  <2> HIDE DEF C
  <2> QED
    BY <1>6, <1>7
<1> QED
  BY <1>2, <1>8

-----------------------------------------------------------------------------
(* Trees: what a path resolves to, and what that becomes when part of the  *)
(* tree is gone.                                                           *)

\* u is t, with nothing added or changed.
Remains(u, t) == DOMAIN u \subseteq DOMAIN t /\ \A p \in DOMAIN u : u[p] = t[p]

\* u shows nothing that t does not: it lacks nodes, or permissions.
Within(u, t) ==
  /\ DOMAIN u \subseteq DOMAIN t
  /\ \A p \in DOMAIN u : /\ u[p].type = t[p].type /\ u[p].to = t[p].to /\ u[p].lines = t[p].lines
                         /\ u[p].grants \subseteq t[p].grants

\* What is left shows nothing that was not there.
LEMMA RemainsWithin ==
  ASSUME NEW t, NEW u, Remains(u, t)
  PROVE  Within(u, t)
  BY DEF Remains, Within

\* What vanishes takes nothing else along and changes nothing.
LEMMA WithoutRemains ==
  ASSUME NEW t, NEW p
  PROVE  Remains(Without(t, p), t)
  BY DEF Remains, Without

\* A path resolves to a path.
LEMMA ResolvedIs ==
  ASSUME NEW t, DOMAIN t \subseteq Seq(Name), NEW p \in Seq(Name)
  PROVE  /\ resolvePath(t, p) \in Seq(Name)
         /\ EvalSymlinks(t, p) \subseteq DOMAIN t
         /\ EvalSymlinks(t, p) # {} => resolvePath(t, p) = Followed(t, p)
PROOF
<1>1. EvalSymlinks(t, p) \subseteq DOMAIN t \cap {Followed(t, p)}
  BY DEF EvalSymlinks, Seen
<1> HIDE DEF EvalSymlinks
<1>2. EvalSymlinks(t, p) # {} =>
        resolvePath(t, p) \in EvalSymlinks(t, p)
  BY DEF resolvePath
<1> QED
  BY <1>1, <1>2 DEF resolvePath

\* The names of the tree, and the names that discovery asks for.
AnyName == Name \cup roleMarkers \cup {".gitignore"}

\* The names of trees are among those that are asked for.
LEMMA NameIs == Name \subseteq AnyName /\ Seq(Name) \subseteq Seq(AnyName)
  BY DEF AnyName

LinksTo(t, p) == {k \in 1 .. Len(p) : Seen(t, Upto(p, k)) /\ t[Upto(p, k)].type = "link"}

\* Only the last name of a path that can be looked at is a link.
LEMMA OneLink ==
  ASSUME NEW t, NEW p \in Seq(AnyName), NEW k \in LinksTo(t, p), NEW l \in 1 .. Len(p), k < l
  PROVE  ~Seen(t, Upto(p, l))
PROOF
<1>1. k \in 0 .. l - 1 /\ k \in 0 .. l /\ l \in 0 .. Len(p)
  BY DEF LinksTo
<1>2. Upto(Upto(p, l), k) = Upto(p, k) /\ Len(Upto(p, l)) = l
  BY <1>1, UptoIs, UptoUpto
<1>3. t[Upto(p, k)].type # "dir"
  BY DEF LinksTo
<1> QED
  BY <1>1, <1>2, <1>3 DEF Seen, Entered

\* Follow, by the one link on the way.
LEMMA FollowIs ==
  ASSUME NEW t, IsTree(t), NEW p \in Seq(AnyName)
  PROVE  /\ LinksTo(t, p) = {} => Follow(t, p) = p
         /\ \A k \in LinksTo(t, p) : Follow(t, p) = t[Upto(p, k)].to \o SubSeq(p, k + 1, Len(p))
         /\ Follow(t, p) \in Seq(AnyName)
PROOF
<1>1. LinksTo(t, p) = {} => Follow(t, p) = p
  BY DEF Follow, LinksTo
<1>2. ASSUME NEW k \in LinksTo(t, p)
      PROVE  /\ Follow(t, p) = t[Upto(p, k)].to \o SubSeq(p, k + 1, Len(p))
             /\ Follow(t, p) \in Seq(AnyName)
  <2>1. k \in 1 .. Len(p) /\ Seen(t, Upto(p, k))
    BY DEF LinksTo
  <2>2. \A l \in LinksTo(t, p) : l = k
    <3> TAKE l \in LinksTo(t, p)
    <3>1. l \in 1 .. Len(p) /\ Seen(t, Upto(p, l))
      BY DEF LinksTo
    <3>2. ~(k < l) /\ ~(l < k)
      BY <2>1, <3>1, OneLink
    <3> QED
      BY <2>1, <3>1, <3>2
  <2>3. (CHOOSE j \in LinksTo(t, p) : \A l \in LinksTo(t, p) : j <= l) = k
    <3>1. \A l \in LinksTo(t, p) : k <= l
      BY <2>1, <2>2
    <3>2. (CHOOSE j \in LinksTo(t, p) : \A l \in LinksTo(t, p) : j <= l) \in LinksTo(t, p)
      BY <3>1
    <3> QED
      BY <2>2, <3>2
  <2>4. Follow(t, p) = t[Upto(p, k)].to \o SubSeq(p, k + 1, Len(p))
    BY <2>3 DEF Follow, LinksTo
  <2>5. t[Upto(p, k)].to \in Seq(AnyName)
    BY <2>1, NameIs DEF IsTree, Seen
  <2>6. SubSeq(p, k + 1, Len(p)) \in Seq(AnyName)
    <3>1. Len(p) \in Nat /\ \A i \in k + 1 .. Len(p) : p[i] \in AnyName
      BY <2>1, ElementOfSeq
    <3> QED
      BY <2>1, <3>1, SubSeqProperties
  <2> QED
    BY <2>4, <2>5, <2>6, ConcatProperties
<1> QED
  BY <1>1, <1>2

\* What the one tree shows, the other shows too.
LEMMA SeenWithin ==
  ASSUME NEW t, NEW u, Within(u, t), NEW p, Seen(u, p)
  PROVE  Seen(t, p) /\ u[p].type = t[p].type /\ u[p].to = t[p].to
PROOF
<1>1. p \in DOMAIN t /\ u[p].type = t[p].type /\ u[p].to = t[p].to
  BY DEF Within, Seen
<1>2. ASSUME NEW k \in 0 .. Len(p) - 1
      PROVE  /\ Upto(p, k) \in DOMAIN t /\ t[Upto(p, k)].type = "dir"
             /\ "enter" \in t[Upto(p, k)].grants
  <2>1. /\ Upto(p, k) \in DOMAIN u /\ u[Upto(p, k)].type = "dir"
        /\ "enter" \in u[Upto(p, k)].grants
    BY DEF Seen, Entered
  <2> QED
    BY <2>1 DEF Within
<1> QED
  BY <1>1, <1>2 DEF Seen, Entered

\* A link that is not seen leads nowhere, any other to the same place.
LEMMA FollowWithin ==
  ASSUME NEW t, NEW u, IsTree(t), IsTree(u), Within(u, t), NEW p \in Seq(AnyName)
  PROVE  \/ Follow(u, p) = Follow(t, p)
         \/ Follow(u, p) = p /\ ~Seen(u, p)
PROOF
<1>1. LinksTo(u, p) \subseteq LinksTo(t, p)
  BY SeenWithin DEF LinksTo
<1>2. CASE LinksTo(t, p) = {}
  BY <1>1, <1>2, FollowIs
<1>3. CASE LinksTo(u, p) # {}
  <2>1. PICK k : k \in LinksTo(u, p) /\ k \in LinksTo(t, p)
    BY <1>1, <1>3
  <2>2. u[Upto(p, k)].to = t[Upto(p, k)].to
    BY <2>1, SeenWithin DEF LinksTo
  <2>3. Follow(t, p) = t[Upto(p, k)].to \o SubSeq(p, k + 1, Len(p))
    BY <2>1, FollowIs
  <2>4. Follow(u, p) = u[Upto(p, k)].to \o SubSeq(p, k + 1, Len(p))
    BY <2>1, FollowIs
  <2> QED
    BY <2>2, <2>3, <2>4
<1>4. CASE LinksTo(u, p) = {} /\ LinksTo(t, p) # {}
  <2>1. Follow(u, p) = p
    BY <1>4, FollowIs
  <2>2. PICK k \in LinksTo(t, p) : TRUE
    BY <1>4
  <2>3. k \in 1 .. Len(p) /\ t[Upto(p, k)].type = "link"
    BY DEF LinksTo
  <2>4. Len(p) \in 1 .. Len(p) /\ Upto(p, Len(p)) = p
    BY <2>3, UptoIs
  <2>5. CASE k = Len(p)
    <3>1. Seen(u, p) => k \in LinksTo(u, p)
      BY <2>3, <2>4, <2>5, SeenWithin DEF LinksTo
    <3> QED
      BY <1>4, <2>1, <3>1
  <2>6. CASE k # Len(p)
    <3>1. ~Seen(t, p)
      BY <2>2, <2>3, <2>4, <2>6, OneLink
    <3> QED
      BY <2>1, <3>1, SeenWithin
  <2> QED
    BY <2>5, <2>6
<1> QED
  BY <1>2, <1>3, <1>4

\* The recursion of Followed.
Chain(t, p, f) ==
  /\ f \in [0 .. MaxLinks -> Seq(AnyName)] /\ f[0] = p
  /\ \A n \in 1 .. MaxLinks : f[n] = Follow(t, f[n - 1])
  /\ Followed(t, p) = f[MaxLinks]

LEMMA FollowedIs ==
  ASSUME NEW t, IsTree(t), NEW p \in Seq(AnyName)
  PROVE  \E f : Chain(t, p, f)
PROOF
<1> DEFINE step == [q \in Seq(AnyName) |-> Follow(t, q)]
           g == [n \in 1 .. MaxLinks |-> step]
           Eq(f) == f = [n \in 0 .. MaxLinks |-> IF n = 0 THEN p ELSE Follow(t, f[n - 1])]
<1>1. MaxLinks \in Nat
  BY FileTreeAssumption DEF FileTreeAssumption
<1>2. step \in [Seq(AnyName) -> Seq(AnyName)]
  BY FollowIs
<1>3. PICK f : Passes(Seq(AnyName), p, g, MaxLinks, f)
  <2>1. \A n \in 1 .. MaxLinks : g[n] \in [Seq(AnyName) -> Seq(AnyName)]
    <3> HIDE DEF step
    <3> QED
      BY <1>2
  <2> HIDE DEF g
  <2> QED
    BY <1>1, <2>1, StepRecursion
<1>4. /\ f \in [0 .. MaxLinks -> Seq(AnyName)] /\ f[0] = p
      /\ \A n \in 1 .. MaxLinks : f[n] = Follow(t, f[n - 1])
  <2>1. f \in [0 .. MaxLinks -> Seq(AnyName)] /\ f[0] = p
    BY <1>3 DEF Passes
  <2>2. ASSUME NEW n \in 1 .. MaxLinks PROVE f[n] = Follow(t, f[n - 1])
    <3>1. f[n] = g[n][f[n - 1]]
      BY <1>3 DEF Passes
    <3>2. f[n - 1] \in Seq(AnyName)
      BY <1>1, <2>1
    <3> QED
      BY <3>1, <3>2
  <2> QED
    BY <2>1, <2>2
<1>5. Eq(f)
  BY <1>1, <1>4
<1> DEFINE after == CHOOSE h : Eq(h)
<1>6. Eq(after)
  BY <1>5
<1>7. Followed(t, p) = after[MaxLinks]
  BY DEF Followed
<1> HIDE DEF after
<1>8. after = f
  <2> DEFINE N == {n \in Nat : n <= MaxLinks => after[n] = f[n]}
  <2>1. 0 \in N
    BY <1>1, <1>4, <1>6
  <2>2. ASSUME NEW n \in Nat, n \in N PROVE n + 1 \in N
    <3>1. SUFFICES ASSUME n + 1 <= MaxLinks PROVE after[n + 1] = f[n + 1]
      OBVIOUS
    <3>2. n + 1 \in 0 .. MaxLinks /\ n + 1 \in 1 .. MaxLinks /\ n + 1 # 0 /\ (n + 1) - 1 = n
      BY <1>1, <3>1
    <3>3. after[n] = f[n]
      BY <1>1, <2>2, <3>1
    <3> QED
      BY <1>4, <1>6, <3>2, <3>3
  <2>3. Nat \subseteq N
    <3> HIDE DEF N
    <3> QED
      BY <2>1, <2>2, NatSetInduction
  <2>4. \A n \in 0 .. MaxLinks : after[n] = f[n]
    BY <1>1, <2>3
  <2> QED
    BY <1>4, <1>6, <2>4
<1> QED
  BY <1>4, <1>7, <1>8 DEF Chain

\* A path that leads somewhere, or to a dead end of both trees, leads to the
\* same place in both.
LEMMA FollowedWithin ==
  ASSUME NEW t, NEW u, IsTree(t), IsTree(u), Within(u, t), NEW p \in Seq(AnyName),
         Seen(u, Followed(u, p)) \/ Follow(t, Followed(u, p)) = Followed(u, p)
  PROVE  Followed(t, p) = Followed(u, p)
PROOF
<1>1. MaxLinks \in Nat
  BY FileTreeAssumption DEF FileTreeAssumption
<1>2. PICK f : Chain(t, p, f)
  BY FollowedIs
<1>3. PICK g : Chain(u, p, g)
  BY FollowedIs
<1> DEFINE Lost(q) == Follow(u, q) = q /\ ~Seen(u, q) /\ Follow(t, q) # q
           N == {n \in Nat : n <= MaxLinks => g[n] = f[n] \/ Lost(g[n])}
<1>4. 0 \in N
  BY <1>2, <1>3 DEF Chain
<1>5. ASSUME NEW n \in Nat, n \in N PROVE n + 1 \in N
  <2>1. SUFFICES ASSUME n + 1 <= MaxLinks PROVE g[n + 1] = f[n + 1] \/ Lost(g[n + 1])
    OBVIOUS
  <2>2. n \in 0 .. MaxLinks /\ n + 1 \in 1 .. MaxLinks /\ (n + 1) - 1 = n /\ n <= MaxLinks
    BY <1>1, <2>1
  <2>3. g[n + 1] = Follow(u, g[n]) /\ f[n + 1] = Follow(t, f[n]) /\ g[n] \in Seq(AnyName)
    BY <1>2, <1>3, <2>2 DEF Chain
  <2>4. CASE Lost(g[n])
    BY <2>3, <2>4
  <2>5. CASE g[n] = f[n] /\ ~Lost(g[n])
    <3>1. Follow(u, g[n]) = Follow(t, g[n]) \/ Lost(g[n])
      BY <2>3, FollowWithin
    <3> QED
      BY <2>3, <2>5, <3>1
  <2> QED
    BY <1>5, <2>2, <2>4, <2>5
<1>6. g[MaxLinks] = f[MaxLinks] \/ Lost(g[MaxLinks])
  <2>1. Nat \subseteq N
    <3> HIDE DEF N
    <3> QED
      BY <1>4, <1>5, NatSetInduction
  <2> QED
    BY <1>1, <2>1
<1> QED
  BY <1>2, <1>3, <1>6 DEF Chain

\* So a root that can still be looked at is the one it was.
LEMMA ResolvedRemains ==
  ASSUME NEW t, NEW u, IsTree(t), IsTree(u), Remains(u, t), NEW p \in Seq(Name),
         Stat(u, resolvePath(u, p)) # {}
  PROVE  resolvePath(u, p) = resolvePath(t, p)
PROOF
<1>1. EvalSymlinks(u, p) # {}
  BY DEF Stat, resolvePath
<1>2. DOMAIN u \subseteq Seq(Name) /\ DOMAIN t \subseteq Seq(Name)
  BY DEF IsTree
<1> DEFINE q == Followed(u, p)
<1>3. Seen(u, q) /\ u[q].type # "link"
  BY <1>1 DEF EvalSymlinks
<1>4. Followed(t, p) = q
  BY <1>3, FollowedWithin, RemainsWithin, NameIs
<1>5. Seen(t, q) /\ t[q].type = u[q].type
  <2> HIDE DEF q
  <2> QED
    BY <1>3, SeenWithin, RemainsWithin
<1>6. EvalSymlinks(t, p) # {}
  <2> HIDE DEF q
  <2> QED
    BY <1>3, <1>4, <1>5 DEF EvalSymlinks
<1> QED
  BY <1>1, <1>2, <1>4, <1>6, ResolvedIs

-----------------------------------------------------------------------------
(* The project: nothing on the command line is left out of it.             *)

\* What a root contributes to the base is a directory it lies in.
LEMMA SrcDirIs ==
  ASSUME NEW t, IsTree(t), NEW src \in Seq(Name)
  PROVE  srcDir(t, src) \in Seq(Name) /\ IsPrefix(srcDir(t, src), resolvePath(t, src))
PROOF
<1> DEFINE abs == resolvePath(t, src)
<1>1. abs \in Seq(Name)
  BY ResolvedIs DEF IsTree
<1>2. IsPrefix(abs, abs)
  <2> HIDE DEF abs
  <2>1. Len(abs) \in Nat
    BY <1>1
  <2> QED
    BY <1>1, <2>1, PrefixIs
<1>3. srcDir(t, src) = IF IsType(t, abs, "dir") THEN abs ELSE Parent(abs)
  BY DEF srcDir, SrcDirOf
<1> HIDE DEF abs
<1>4. Parent(abs) \in Seq(Name) /\ IsPrefix(Parent(abs), abs)
  BY <1>1, ParentIs
<1>5. srcDir(t, src) \in Seq(Name) /\ IsPrefix(srcDir(t, src), abs)
  BY <1>1, <1>2, <1>3, <1>4
<1> QED
  BY <1>5 DEF abs

\* The base of a command line: a directory that everything on it lies in.
IsBase(t, srcs, b) ==
  b \in Seq(Name) /\ \A i \in DOMAIN srcs : IsPrefix(b, srcDir(t, srcs[i]))

\* The loop of commonBase ends with such a directory.
LEMMA CommonBaseIs ==
  ASSUME NEW t, IsTree(t), NEW srcs \in Seq(Seq(Name)), srcs # <<>>
  PROVE  \E b : commonBase(t, srcs) = {b} /\ IsBase(t, srcs, b)
PROOF
<1> DEFINE n == Len(srcs)
           dir(i) == srcDir(t, srcs[i])
           step(i) == [b \in Seq(Name) |-> Widen(b, dir(i + 1))]
           g == [i \in 1 .. n - 1 |-> step(i)]
           Eq(f) == f = [i \in 1 .. n |-> IF i = 1 THEN srcDir(t, srcs[1])
                                          ELSE Widen(f[i - 1], srcDir(t, srcs[i]))]
           base == CHOOSE f : Eq(f)
<1>1. n \in Nat \ {0} /\ DOMAIN srcs = 1 .. n
  BY EmptySeq, LenProperties
<1>2. \A i \in 1 .. n : dir(i) \in Seq(Name)
  <2> TAKE i \in 1 .. n
  <2>1. srcs[i] \in Seq(Name)
    BY ElementOfSeq
  <2> QED
    BY <2>1, SrcDirIs
<1>3. ASSUME NEW i \in 1 .. n - 1 PROVE step(i) \in [Seq(Name) -> Seq(Name)]
  <2>1. i + 1 \in 1 .. n
    BY <1>1
  <2>2. dir(i + 1) \in Seq(Name)
    BY <1>2, <2>1
  <2> HIDE DEF dir
  <2>3. \A b \in Seq(Name) : Widen(b, dir(i + 1)) \in Seq(Name)
    BY <2>2, WidenIs
  <2> QED
    BY <2>3
<1>4. n - 1 \in Nat /\ 1 \in 1 .. n
  BY <1>1
<1>5. PICK f : Passes(Seq(Name), dir(1), g, n - 1, f)
  <2>1. \A i \in 1 .. n - 1 : g[i] \in [Seq(Name) -> Seq(Name)]
    <3> HIDE DEF step
    <3> QED
      BY <1>3
  <2>2. dir(1) \in Seq(Name)
    BY <1>2, <1>4
  <2> HIDE DEF g, n, dir
  <2> QED
    BY <1>4, <2>1, <2>2, StepRecursion
<1>6. /\ f \in [0 .. n - 1 -> Seq(Name)] /\ f[0] = dir(1)
      /\ \A i \in 1 .. n - 1 : f[i] = Widen(f[i - 1], dir(i + 1))
  <2>1. f \in [0 .. n - 1 -> Seq(Name)] /\ f[0] = dir(1)
    BY <1>5 DEF Passes
  <2>2. ASSUME NEW i \in 1 .. n - 1 PROVE f[i] = Widen(f[i - 1], dir(i + 1))
    <3> HIDE DEF dir, n
    <3>1. f[i] = g[i][f[i - 1]]
      BY <1>5 DEF Passes
    <3>2. f[i - 1] \in Seq(Name)
      BY <1>1, <1>4, <2>1
    <3> QED
      BY <3>1, <3>2
  <2> QED
    BY <2>1, <2>2
<1> HIDE DEF n, g
<1>7. Eq([i \in 1 .. n |-> f[i - 1]])
  <2> DEFINE h == [i \in 1 .. n |-> f[i - 1]]
  <2>1. ASSUME NEW i \in 1 .. n, i # 1 PROVE h[i] = Widen(h[i - 1], dir(i))
    <3>1. i - 1 \in 1 .. n - 1 /\ i - 1 \in 1 .. n /\ (i - 1) + 1 = i
      BY <1>1, <2>1
    <3>2. f[i - 1] = Widen(f[(i - 1) - 1], dir((i - 1) + 1))
      BY <1>6, <3>1
    <3> QED
      BY <3>1, <3>2
  <2>2. h[1] = dir(1)
    BY <1>4, <1>6
  <2>3. \A i \in 1 .. n : h[i] = IF i = 1 THEN dir(1) ELSE Widen(h[i - 1], dir(i))
    <3> HIDE DEF h, dir
    <3> QED
      BY <2>1, <2>2
  <2>4. h = [i \in 1 .. n |-> h[i]]
    OBVIOUS
  <2> QED
    BY <2>3, <2>4
<1>8. Eq(base)
  BY <1>7
<1>9. commonBase(t, srcs) = {base[n]}
  BY DEF commonBase, n
<1> HIDE DEF base
<1>10. base[1] = dir(1) /\ \A i \in 1 .. n : i # 1 => base[i] = Widen(base[i - 1], dir(i))
  BY <1>4, <1>8
<1> HIDE DEF dir
<1> DEFINE N == {i \in Nat : i + 1 <= n =>
                   /\ base[i + 1] \in Seq(Name)
                   /\ \A k \in 1 .. i + 1 : IsPrefix(base[i + 1], dir(k))}
<1>11. 0 \in N
  <2>1. dir(1) \in Seq(Name)
    BY <1>2, <1>4
  <2>2. IsPrefix(dir(1), dir(1))
    <3>1. Len(dir(1)) \in Nat
      BY <2>1
    <3> QED
      BY <2>1, <3>1, PrefixIs
  <2>3. \A k \in 1 .. 0 + 1 : k = 1
    OBVIOUS
  <2> QED
    BY <1>10, <2>1, <2>2, <2>3
<1>12. ASSUME NEW i \in Nat, i \in N PROVE i + 1 \in N
  <2> DEFINE c == base[(i + 1) + 1]
             b == base[i + 1]
             d == dir((i + 1) + 1)
  <2>1. SUFFICES ASSUME (i + 1) + 1 <= n
                 PROVE  c \in Seq(Name) /\ \A k \in 1 .. (i + 1) + 1 : IsPrefix(c, dir(k))
    OBVIOUS
  <2>2. /\ (i + 1) + 1 \in 1 .. n /\ (i + 1) + 1 # 1 /\ ((i + 1) + 1) - 1 = i + 1 /\ i + 1 <= n
        /\ \A k \in 1 .. (i + 1) + 1 : k \in 1 .. i + 1 \/ k = (i + 1) + 1
        /\ \A k \in 1 .. i + 1 : k \in 1 .. n
    BY <1>1, <2>1
  <2>3. b \in Seq(Name) /\ (\A k \in 1 .. i + 1 : IsPrefix(b, dir(k))) /\ d \in Seq(Name)
    BY <1>2, <1>12, <2>2
  <2>4. c = Widen(b, d)
    BY <1>10, <2>2
  <2> HIDE DEF b, c
  <2>5. c \in Seq(Name) /\ IsPrefix(c, b) /\ IsPrefix(c, d)
    <3> HIDE DEF d
    <3> QED
      BY <2>3, <2>4, WidenIs
  <2>6. ASSUME NEW k \in 1 .. i + 1 PROVE IsPrefix(c, dir(k))
    <3>1. IsPrefix(b, dir(k)) /\ dir(k) \in Seq(Name)
      BY <1>2, <2>2, <2>3
    <3> QED
      BY <2>3, <2>5, <3>1, PrefixTrans
  <2> QED
    BY <2>2, <2>5, <2>6
<1>13. base[n] \in Seq(Name) /\ \A k \in 1 .. n : IsPrefix(base[n], dir(k))
  <2>1. Nat \subseteq N
    <3> HIDE DEF N
    <3> QED
      BY <1>11, <1>12, NatSetInduction
  <2>2. n - 1 \in N /\ (n - 1) + 1 = n
    BY <1>1, <1>4, <2>1
  <2> QED
    BY <1>1, <2>2
<1> QED
  BY <1>1, <1>9, <1>13 DEF IsBase, dir

\* The root is the base or one of its ancestors, unless a configuration file
\* that is in use decides it.
LEMMA RootAboveIs ==
  ASSUME NEW t, NEW base \in Seq(Name), NEW relative
  PROVE  \E k \in 0 .. Len(base) : RootAbove(t, base, relative, {}) = {Upto(base, k)}
PROOF
<1> DEFINE marker(k) == projectMarker(t, Upto(base, k), relative, {})
           marked == {k \in 0 .. Len(base) : marker(k) # {}}
           deepest == CHOOSE k \in marked : \A l \in marked : l <= k
<1>1. Len(base) \in Nat /\ Len(base) \in 0 .. Len(base)
  OBVIOUS
<1>2. \A k \in marked : marker(k) = {Upto(base, k)}
  BY DEF projectMarker
<1>3. RootAbove(t, base, relative, {}) = IF marked = {} THEN {base} ELSE marker(deepest)
  BY DEF RootAbove
<1>4. CASE marked = {}
  <2>1. Upto(base, Len(base)) = base
    BY <1>1, UptoIs
  <2> HIDE DEF marked
  <2> QED
    BY <1>1, <1>3, <1>4, <2>1
<1>5. CASE marked # {}
  <2>1. \E k \in marked : \A l \in marked : l <= k
    <3>1. marked \in SUBSET (0 .. Len(base))
      OBVIOUS
    <3> HIDE DEF marked
    <3> QED
      BY <1>1, <1>5, <3>1, LargestExists
  <2>2. deepest \in marked
    <3> HIDE DEF marked
    <3> QED
      BY <2>1
  <2> HIDE DEF deepest
  <2>3. deepest \in 0 .. Len(base) /\ marker(deepest) = {Upto(base, deepest)}
    BY <1>2, <2>2
  <2> HIDE DEF marked, marker
  <2> QED
    BY <1>3, <1>5, <2>3
<1> QED
  BY <1>4, <1>5

\* Without a configuration file in use the project holds every root.
LEMMA ProjectHolds ==
  ASSUME NEW t, IsTree(t), NEW srcs \in Seq(Seq(Name)), NEW i \in DOMAIN srcs
  PROVE  InProject(projectRoot(t, srcs, {}), resolvePath(t, srcs[i]))
PROOF
<1> DEFINE relative == {filenames[j] : j \in DOMAIN filenames}
           abs == resolvePath(t, srcs[i])
<1>1. srcs # <<>> /\ srcs[i] \in Seq(Name)
  BY ElementOfSeq, LenProperties, EmptySeq
<1>2. PICK b : commonBase(t, srcs) = {b} /\ IsBase(t, srcs, b)
  BY <1>1, CommonBaseIs
<1>3. b \in Seq(Name) /\ IsPrefix(b, srcDir(t, srcs[i]))
  BY <1>2 DEF IsBase
<1>4. abs \in Seq(Name) /\ srcDir(t, srcs[i]) \in Seq(Name) /\ IsPrefix(srcDir(t, srcs[i]), abs)
  BY <1>1, SrcDirIs, ResolvedIs DEF IsTree
<1>5. PICK k \in 0 .. Len(b) : RootAbove(t, b, relative, {}) = {Upto(b, k)}
  <2> HIDE DEF relative
  <2> QED
    BY <1>3, RootAboveIs
<1>6. projectRoot(t, srcs, {}) = {Upto(b, k)}
  <2>1. projectRoot(t, srcs, {}) = UNION {RootAbove(t, c, relative, {}) : c \in {b}}
    BY <1>2 DEF projectRoot, ProjectDir
  <2> HIDE DEF relative
  <2> QED
    BY <1>5, <2>1
<1>7. Upto(b, k) \in Seq(Name) /\ IsPrefix(Upto(b, k), b)
  BY <1>3, UptoIs
<1> HIDE DEF abs
<1>8. IsPrefix(b, abs)
  BY <1>3, <1>4, PrefixTrans
<1>9. IsPrefix(Upto(b, k), abs)
  BY <1>3, <1>4, <1>7, <1>8, PrefixTrans
<1> QED
  BY <1>6, <1>9 DEF InProject, insideDir, abs

\* The invariant: the tree is the one the run started in, or what is left of
\* it, and the project was decided by the whole of it.
RootInv ==
  /\ world \in World
  /\ Remains(tree, world.tree)
  /\ status = "start" => tree = world.tree /\ walked = <<>>
  /\ todo \in Seq(Seq(Name)) /\ walked \in Seq(Seq(Name))
  /\ \A i \in DOMAIN todo : \E k \in DOMAIN world.roots : todo[i] = world.roots[k]
  /\ \A i \in DOMAIN walked :
       \E k \in DOMAIN world.roots : walked[i] = resolvePath(world.tree, world.roots[k])
  /\ status # "start" /\ world.config = {} /\ Find(world.tree, world.cwd) = {} =>
       project = projectRoot(world.tree, world.roots, {})

\* What is left of a tree is a tree.
LEMMA TreeRemains ==
  ASSUME RootInv
  PROVE  IsTree(tree) /\ IsTree(world.tree) /\ world.roots \in Seq(Seq(Name))
  BY WorldAssumption DEF RootInv, IsTree, Remains, WorldAssumption

\* Init and every step.
LEMMA InitRootInv == Init => RootInv
PROOF
<1> SUFFICES ASSUME Init PROVE RootInv
  OBVIOUS
<1>1. world \in World /\ tree = world.tree /\ todo = world.roots /\ walked = <<>> /\ status = "start"
  BY DEF Init
<1>2. todo \in Seq(Seq(Name))
  BY <1>1, WorldAssumption DEF WorldAssumption
<1>3. walked \in Seq(Seq(Name)) /\ DOMAIN walked = {}
  BY <1>1
<1> QED
  BY <1>1, <1>2, <1>3 DEF RootInv, Remains

\* A root that is walked is the path the command line named when the run
\* started, even if part of the tree is gone by now.
LEMMA NextRootInv == RootInv /\ NextRoot => RootInv'
PROOF
<1> SUFFICES ASSUME RootInv, NextRoot PROVE RootInv'
  OBVIOUS
<1>1. /\ status = "walking" /\ status' # "start" /\ todo # <<>> /\ todo' = Tail(todo)
      /\ world' = world /\ tree' = tree /\ project' = project
  BY DEF NextRoot, setting
<1>2. IsTree(tree) /\ IsTree(world.tree) /\ todo \in Seq(Seq(Name)) /\ walked \in Seq(Seq(Name))
  BY TreeRemains DEF RootInv
<1>3. 1 \in DOMAIN todo /\ Head(todo) = todo[1] /\ Head(todo) \in Seq(Name)
  BY <1>1, <1>2, HeadTailProperties, EmptySeq
<1>4. /\ todo' \in Seq(Seq(Name))
      /\ \A i \in DOMAIN todo' : i + 1 \in DOMAIN todo /\ todo'[i] = todo[i + 1]
  <2>1. /\ todo' \in Seq(Seq(Name)) /\ Len(todo') = Len(todo) - 1
        /\ \A i \in 1 .. Len(todo') : todo'[i] = todo[i + 1]
    BY <1>1, <1>2, HeadTailProperties
  <2> QED
    BY <1>2, <2>1
<1>5. \A i \in DOMAIN todo' : \E k \in DOMAIN world.roots : todo'[i] = world.roots[k]
  BY <1>4 DEF RootInv
<1>6. /\ walked' \in Seq(Seq(Name))
      /\ \A i \in DOMAIN walked' :
           \E k \in DOMAIN world.roots : walked'[i] = resolvePath(world.tree, world.roots[k])
  <2>1. CASE walked' = walked
    BY <1>2, <2>1 DEF RootInv
  <2>2. CASE walked' # walked
    <3> DEFINE abs == resolvePath(tree, Head(todo))
    <3>1. Stat(tree, abs) # {} /\ walked' = Append(walked, abs)
      BY <2>2 DEF NextRoot
    <3>2. abs = resolvePath(world.tree, Head(todo)) /\ abs \in Seq(Name)
      <4>1. abs = resolvePath(world.tree, Head(todo))
        BY <1>2, <1>3, <3>1, ResolvedRemains DEF RootInv
      <4>2. abs \in Seq(Name)
        BY <1>2, <1>3, ResolvedIs DEF IsTree
      <4> QED
        BY <4>1, <4>2
    <3>3. PICK k \in DOMAIN world.roots : Head(todo) = world.roots[k]
      BY <1>3 DEF RootInv
    <3> HIDE DEF abs
    <3>4. /\ walked' \in Seq(Seq(Name)) /\ Len(walked') = Len(walked) + 1
          /\ \A i \in 1 .. Len(walked) : walked'[i] = walked[i]
          /\ walked'[Len(walked) + 1] = abs
      BY <1>2, <3>1, <3>2, AppendProperties
    <3>5. \A i \in DOMAIN walked' : i \in DOMAIN walked \/ walked'[i] = abs
      BY <1>2, <3>4
    <3>6. \A i \in DOMAIN walked : walked'[i] = walked[i]
      BY <1>2, <3>4, LenProperties
    <3>7. abs = resolvePath(world.tree, world.roots[k])
      BY <3>2, <3>3
    <3> QED
      BY <3>4, <3>5, <3>6, <3>7 DEF RootInv
  <2> QED
    BY <2>1, <2>2
<1> QED
  BY <1>1, <1>4, <1>5, <1>6 DEF RootInv, Remains

LEMMA NextKeepsRootInv == RootInv /\ [Next]_vars => RootInv'
PROOF
<1> SUFFICES ASSUME RootInv, [Next]_vars PROVE RootInv'
  OBVIOUS
<1> USE DEF found, setting
<1>1. CASE Begin
  <2>1. /\ world' = world /\ tree' = tree /\ todo' = todo /\ walked' = walked /\ tree = world.tree
        /\ status' # "start"
    BY <1>1 DEF Begin, RootInv
  <2>2. ASSUME world.config = {}, Find(world.tree, world.cwd) = {}
        PROVE  project' = projectRoot(world.tree, world.roots, {})
    <3>1. InUse = {}
      BY <2>1, <2>2 DEF InUse
    <3> QED
      BY <1>1, <2>1, <3>1 DEF Begin
  <2> QED
    BY <2>1, <2>2 DEF RootInv, Remains
<1>2. CASE NextRoot
  BY <1>2, NextRootInv
<1>3. CASE Vanish
  <2>1. PICK p : tree = world.tree /\ tree' = Without(tree, p)
    BY <1>3 DEF Vanish
  <2>2. Remains(tree', world.tree)
    BY <2>1, WithoutRemains
  <2>3. UNCHANGED <<world, project, todo, walked, status>> /\ status = "walking"
    BY <1>3 DEF Vanish
  <2> QED
    BY <2>2, <2>3 DEF RootInv
<1>4. CASE EnterRoot \/ VisitDir \/ ListDir \/ VisitFile \/ VisitExcluded \/ Finish
  <2>1. UNCHANGED <<world, tree, project, todo, walked>> /\ status # "start" /\ status' # "start"
    BY <1>4 DEF EnterRoot, VisitDir, ListDir, VisitFile, AtFile, VisitExcluded, Finish, At
  <2> QED
    BY <2>1 DEF RootInv, Remains
<1>5. CASE UNCHANGED vars
  BY <1>5 DEF vars, RootInv, Remains
<1> QED
  BY <1>1, <1>2, <1>3, <1>4, <1>5 DEF Next, Stopped

\* ProjectRoot, for every tree and command line: unless a configuration file
\* in use puts the project somewhere else, every root that is walked lies
\* inside it, although files may vanish before the walk comes to it.
THEOREM ProjectHoldsRoots == Spec => []RootsInside
PROOF
<1>1. RootInv => RootsInside
  <2> SUFFICES ASSUME RootInv, status # "start", world.config = {},
                      Find(world.tree, world.cwd) = {}, NEW i \in DOMAIN walked
               PROVE  InProject(project, walked[i])
    BY DEF RootsInside
  <2>1. PICK k \in DOMAIN world.roots : walked[i] = resolvePath(world.tree, world.roots[k])
    BY DEF RootInv
  <2>2. project = projectRoot(world.tree, world.roots, {})
    BY DEF RootInv
  <2> QED
    BY <2>1, <2>2, TreeRemains, ProjectHolds
<1> QED
  BY <1>1, InitRootInv, NextKeepsRootInv, PTL DEF Spec

-----------------------------------------------------------------------------
(* The types.                                                              *)

\* What may wait on the agenda: but for a root, an entry of the tree.
EntrySet == {e \in [path : Seq(Name), type : EntryType, sizes : SUBSET Nat] :
               e.type # "root" => e.path \in DOMAIN world.tree}

TypeInv ==
  /\ agenda \in Seq(EntrySet)
  /\ DOMAIN gitignores \subseteq DOMAIN world.tree
  /\ \A i \in DOMAIN items : items[i].abs \in DOMAIN world.tree /\ items[i].size \in Nat
  /\ soft \in Nat
  /\ status \in {"start", "walking", "done", "failed"}

\* The first entry of the agenda, and what is left without it.
LEMMA AgendaIs ==
  ASSUME RootInv, TypeInv, agenda # <<>>
  PROVE  /\ Head(agenda) \in EntrySet /\ Here = Head(agenda).path
         /\ Tail(agenda) \in Seq(EntrySet)
         /\ Here \in Seq(Name)
         /\ Head(agenda).type # "root" => Here \in DOMAIN world.tree
PROOF
<1>1. Head(agenda) \in EntrySet /\ Tail(agenda) \in Seq(EntrySet)
  BY HeadTailProperties DEF TypeInv
<1> QED
  BY <1>1 DEF EntrySet, Here

\* An entry of a directory that is still there.
LEMMA EntriesAre ==
  ASSUME RootInv, NEW dir \in Seq(Name)
  PROVE  Entries(tree, dir) \in Seq(EntrySet)
PROOF
<1> DEFINE S == {i \in DOMAIN Names : Append(dir, Names[i]) \in DOMAIN tree}
           names == Listing(tree, dir)
           entry(i) == Entry(Append(dir, names[i]), tree[Append(dir, names[i])].type, {})
<1>1. Names \in Seq(Name)
  BY FileTreeAssumption DEF FileTreeAssumption, Name
<1>2. names = Keep(Names, S)
  BY DEF Listing
<1>3. names \in Seq(Name) /\ Range(names) = {Names[i] : i \in S \cap DOMAIN Names}
  <2> HIDE DEF S, names
  <2> QED
    BY <1>1, <1>2, KeepRange
<1> HIDE DEF names
<1>4. DOMAIN names = 1 .. Len(names) /\ Len(names) \in Nat
  BY <1>3, LenProperties
<1>5. ASSUME NEW i \in DOMAIN names PROVE entry(i) \in EntrySet
  <2>1. names[i] \in Range(names)
    BY DEF Range
  <2>2. Append(dir, names[i]) \in DOMAIN tree
    BY <1>3, <2>1
  <2> DEFINE p == Append(dir, names[i])
  <2>3. p \in DOMAIN world.tree /\ p \in Seq(Name) /\ tree[p].type \in {"dir", "file", "link", "device"}
    BY <2>2, TreeRemains DEF RootInv, Remains, IsTree
  <2> HIDE DEF p
  <2>4. Entry(p, tree[p].type, {}) \in EntrySet
    BY <2>3 DEF EntrySet, Entry, EntryType
  <2> QED
    BY <2>4 DEF p
<1>6. Entries(tree, dir) = [i \in 1 .. Len(names) |-> entry(i)]
  BY <1>4 DEF Entries, names
<1> HIDE DEF entry
<1> QED
  BY <1>4, <1>5, <1>6

\* What a link leads to, and what an entry holds, is in the tree.
LEMMA LintableIs ==
  ASSUME RootInv, NEW e \in EntrySet, e.type # "root", NEW i \in Lintable(tree, e)
  PROVE  i.abs \in DOMAIN world.tree /\ i.size \in Nat
PROOF
<1>1. /\ e.path \in DOMAIN world.tree /\ e.sizes \in SUBSET Nat
      /\ IsTree(tree) /\ DOMAIN tree \subseteq DOMAIN world.tree
  BY TreeRemains DEF EntrySet, RootInv, Remains
<1>2. PICK target \in resolveLink(tree, e) :
        \E kind \in KindOf(target), s \in regularSize(tree, target, e) : i = Item(target, kind, s)
  BY DEF Lintable
<1> DEFINE size == i.size
<1>3. i.abs = target /\ size \in regularSize(tree, target, e)
  BY <1>2 DEF Item
<1> HIDE DEF size
<1>4. target \in DOMAIN world.tree
  <2>1. EvalSymlinks(tree, e.path) \subseteq DOMAIN tree
    BY DEF EvalSymlinks, Seen
  <2> QED
    BY <1>1, <2>1 DEF resolveLink
<1>5. size \in Nat
  <2>1. CASE e.type # "file"
    <3>1. PICK node \in Stat(tree, target) : size = node.size
      BY <1>3, <2>1 DEF regularSize
    <3>2. PICK q \in EvalSymlinks(tree, target) : node = tree[q]
      BY DEF Stat
    <3>3. q \in DOMAIN tree
      BY DEF EvalSymlinks, Seen
    <3> QED
      BY <1>1, <3>1, <3>2, <3>3 DEF IsTree
  <2>2. CASE e.type = "file" /\ e.sizes # {}
    BY <1>1, <1>3, <2>2 DEF regularSize
  <2>3. CASE e.type = "file" /\ e.sizes = {}
    <3>1. size = IF Seen(tree, target) THEN tree[target].size ELSE 0
      BY <1>3, <2>3 DEF regularSize
    <3>2. Seen(tree, target) => tree[target].size \in Nat
      BY <1>1 DEF IsTree, Seen
    <3> QED
      BY <3>1, <3>2
  <2> QED
    BY <2>1, <2>2, <2>3
<1> QED
  BY <1>3, <1>4, <1>5 DEF size

\* An item that is added is in the tree like the others.
LEMMA AddTyped ==
  ASSUME IInv, TypeInv, NEW abs \in DOMAIN world.tree, NEW kind, NEW size \in Nat,
         items' = Add(abs, kind, size), world' = world
  PROVE  \A i \in DOMAIN items' : items'[i].abs \in DOMAIN world'.tree /\ items'[i].size \in Nat
PROOF
<1>1. CASE items' = items
  BY <1>1 DEF TypeInv
<1>2. CASE items' = Append(items, Item(abs, kind, size))
  <2> DEFINE n == Len(items)
  <2>1. /\ n \in Nat /\ DOMAIN items = 1 .. n /\ DOMAIN items' = 1 .. n + 1
        /\ \A i \in DOMAIN items : items'[i] = items[i]
        /\ items'[n + 1] = Item(abs, kind, size)
    BY <1>2, AppendKeeps DEF IInv
  <2>2. items'[n + 1].abs = abs /\ items'[n + 1].size = size
    BY <2>1 DEF Item
  <2>3. \A i \in DOMAIN items' : i \in DOMAIN items \/ i = n + 1
    BY <2>1
  <2> QED
    BY <2>1, <2>2, <2>3 DEF TypeInv
<1> QED
  BY <1>1, <1>2 DEF Add

\* The entry a step is about is on the agenda.
LEMMA VisitTyped ==
  ASSUME RootInv, IInv, TypeInv, VisitDir \/ ListDir \/ VisitFile \/ VisitExcluded
  PROVE  TypeInv'
PROOF
<1> USE DEF found, setting
<1>1. /\ agenda # <<>> /\ status' = status /\ world' = world
      /\ Head(agenda).type \in {"dir", "listing", "file", "link", "device"}
  BY DEF VisitDir, ListDir, VisitFile, VisitExcluded, AtFile, At
<1>2. /\ Head(agenda) \in EntrySet /\ Tail(agenda) \in Seq(EntrySet)
      /\ Here \in Seq(Name) /\ Here \in DOMAIN world.tree
  BY <1>1, AgendaIs
<1>3. EntrySet' = EntrySet
  BY <1>1 DEF EntrySet
<1>4. CASE VisitDir
  <2>1. agenda' \in Seq(EntrySet)
    <3>1. Entry(Here, "listing", {}) \in EntrySet
      BY <1>2 DEF EntrySet, Entry, EntryType
    <3>2. agenda' = <<Entry(Here, "listing", {})>> \o Tail(agenda)
      BY <1>4 DEF VisitDir
    <3> HIDE DEF Here
    <3> QED
      BY <1>2, <3>1, <3>2, ConcatProperties
  <2>2. DOMAIN gitignores' \subseteq DOMAIN world'.tree
    BY <1>1, <1>2, <1>4 DEF VisitDir, Compiled, TypeInv
  <2>3. \A i \in DOMAIN items' : items'[i].abs \in DOMAIN world'.tree /\ items'[i].size \in Nat
    <3>1. items' = items \/ items' = Add(Here, "role", 0)
      BY <1>4 DEF VisitDir
    <3>2. CASE items' = items
      BY <1>1, <3>2 DEF TypeInv
    <3>3. CASE items' = Add(Here, "role", 0)
      BY <1>1, <1>2, <3>3, AddTyped
    <3> QED
      BY <3>1, <3>2, <3>3
  <2>4. soft' \in Nat
    BY <1>4 DEF VisitDir, TypeInv
  <2> QED
    BY <1>1, <1>3, <2>1, <2>2, <2>3, <2>4 DEF TypeInv
<1>5. CASE ListDir
  <2>1. agenda' \in Seq(EntrySet)
    <3>1. Entries(tree, Here) \in Seq(EntrySet)
      BY <1>2, EntriesAre
    <3>2. agenda' = Entries(tree, Here) \o Tail(agenda) \/ agenda' = Tail(agenda)
      BY <1>5 DEF ListDir
    <3> QED
      BY <1>2, <3>1, <3>2, ConcatProperties
  <2>2. soft' \in Nat /\ gitignores' = gitignores /\ items' = items
    BY <1>5 DEF ListDir, TypeInv
  <2> QED
    BY <1>1, <1>3, <2>1, <2>2 DEF TypeInv
<1>6. CASE VisitFile
  <2>1. agenda' = Tail(agenda) /\ gitignores' = gitignores /\ soft' = soft
    BY <1>6 DEF VisitFile
  <2>2. \A i \in DOMAIN items' : items'[i].abs \in DOMAIN world'.tree /\ items'[i].size \in Nat
    <3> DEFINE lintable == Lintable(tree, Head(agenda))
               i == CHOOSE i \in lintable : TRUE
    <3>1. items' = IF lintable = {} THEN items ELSE Add(i.abs, i.kind, i.size)
      BY <1>6 DEF VisitFile
    <3>2. CASE lintable = {}
      BY <1>1, <3>1, <3>2 DEF TypeInv
    <3>3. CASE lintable # {}
      <4>1. i \in lintable
        <5> HIDE DEF lintable
        <5> QED
          BY <3>3
      <4> HIDE DEF i
      <4>2. i.abs \in DOMAIN world.tree /\ i.size \in Nat
        BY <1>1, <1>2, <4>1, LintableIs
      <4>3. items' = Add(i.abs, i.kind, i.size)
        BY <3>1, <3>3
      <4> QED
        BY <1>1, <4>2, <4>3, AddTyped
    <3> QED
      BY <3>2, <3>3
  <2> QED
    BY <1>1, <1>2, <1>3, <2>1, <2>2 DEF TypeInv
<1>7. CASE VisitExcluded
  <2>1. agenda' = Tail(agenda) /\ gitignores' = gitignores /\ soft' = soft /\ items' = items
    BY <1>7 DEF VisitExcluded
  <2> QED
    BY <1>1, <1>2, <1>3, <2>1 DEF TypeInv
<1> QED
  BY <1>4, <1>5, <1>6, <1>7

\* A sequence of one element, or of none.
LEMMA ShortSeq ==
  ASSUME NEW S
  PROVE  <<>> \in Seq(S) /\ \A e \in S : <<e>> \in Seq(S)
  OBVIOUS

\* Every step keeps the types.
LEMMA NextTypeInv == RootInv /\ IInv /\ TypeInv /\ [Next]_vars => TypeInv'
PROOF
<1> SUFFICES ASSUME RootInv, IInv, TypeInv, [Next]_vars PROVE TypeInv'
  OBVIOUS
<1> USE DEF found, setting
<1>1. EntrySet' = EntrySet
  <2>1. world' = world
    BY DEF Next, vars, Begin, NextRoot, EnterRoot, VisitDir, ListDir, VisitFile, VisitExcluded,
           Finish, Vanish, Stopped
  <2> QED
    BY <2>1 DEF EntrySet
<1>2. CASE Begin
  BY <1>1, <1>2 DEF Begin, TypeInv
<1>3. CASE NextRoot
  <2>1. status' \in {"walking", "failed"} /\ UNCHANGED <<world, gitignores, items, soft>>
    BY <1>3 DEF NextRoot
  <2>2. agenda' \in Seq(EntrySet)
    <3> DEFINE abs == resolvePath(tree, Head(todo))
    <3>1. agenda' = agenda \/ agenda' = <<Entry(abs, "root", {})>>
      BY <1>3 DEF NextRoot
    <3>2. abs \in Seq(Name)
      <4>1. todo # <<>> /\ todo \in Seq(Seq(Name))
        BY <1>3 DEF NextRoot, RootInv
      <4>2. Head(todo) \in Seq(Name)
        BY <4>1, HeadTailProperties
      <4> QED
        BY <4>2, TreeRemains, ResolvedIs DEF IsTree
    <3> HIDE DEF abs
    <3>3. Entry(abs, "root", {}) \in EntrySet
      BY <3>2 DEF EntrySet, Entry, EntryType
    <3> HIDE DEF EntrySet
    <3>4. <<Entry(abs, "root", {})>> \in Seq(EntrySet)
      BY <3>3, ShortSeq
    <3> QED
      BY <3>1, <3>4 DEF TypeInv
  <2> QED
    BY <1>1, <2>1, <2>2 DEF TypeInv
<1>4. CASE EnterRoot
  <2>1. /\ agenda # <<>> /\ soft' \in Nat /\ UNCHANGED <<world, gitignores, items, status>>
        /\ \/ agenda' = <<>>
           \/ Seen(tree, Here) /\ agenda' = <<Entry(Here, tree[Here].type, {tree[Here].size})>>
    BY <1>4 DEF EnterRoot, At, TypeInv
  <2>2. Here \in Seq(Name)
    BY <2>1, AgendaIs
  <2>3. ASSUME Seen(tree, Here) PROVE Entry(Here, tree[Here].type, {tree[Here].size}) \in EntrySet
    <3>1. Here \in DOMAIN tree /\ Here \in DOMAIN world.tree /\ IsTree(tree)
      BY <2>3, TreeRemains DEF Seen, RootInv, Remains
    <3> HIDE DEF Here
    <3>2. tree[Here].type \in EntryType /\ tree[Here].size \in Nat
      BY <3>1 DEF IsTree, EntryType
    <3> QED
      BY <2>2, <3>1, <3>2 DEF EntrySet, Entry
  <2>4. agenda' \in Seq(EntrySet)
    <3> HIDE DEF Here
    <3> QED
      BY <2>1, <2>3, ShortSeq
  <2> QED
    BY <1>1, <2>1, <2>4 DEF TypeInv
<1>5. CASE VisitDir \/ ListDir \/ VisitFile \/ VisitExcluded
  BY <1>5, VisitTyped
<1>6. CASE Finish
  <2>1. status' = "done" /\ UNCHANGED <<world, agenda, gitignores, soft>>
    BY <1>6 DEF Finish
  <2>2. PICK order \in Injection(DOMAIN items, DOMAIN items) :
          items' = [i \in DOMAIN items |-> items[order[i]]]
    BY <1>6 DEF Finish
  <2>3. order \in [DOMAIN items -> DOMAIN items]
    BY DEF Injection
  <2>4. \A i \in DOMAIN items' : items'[i].abs \in DOMAIN world'.tree /\ items'[i].size \in Nat
    BY <2>1, <2>2, <2>3 DEF TypeInv
  <2> QED
    BY <1>1, <2>1, <2>4 DEF TypeInv
<1>7. CASE Vanish
  BY <1>1, <1>7 DEF Vanish, TypeInv
<1>8. CASE UNCHANGED vars
  BY <1>1, <1>8 DEF vars, TypeInv
<1> QED
  BY <1>2, <1>3, <1>4, <1>5, <1>6, <1>7, <1>8 DEF Next, Stopped

\* Init keeps to the types.
LEMMA InitTypeInv == Init => TypeInv
PROOF
<1> SUFFICES ASSUME Init PROVE TypeInv
  OBVIOUS
<1>1. agenda = <<>> /\ gitignores = <<>> /\ items = <<>> /\ soft = 0 /\ status = "start"
  BY DEF Init
<1> QED
  BY <1>1 DEF TypeInv

\* WalkDir and visit, for every tree: what is found, and every directory with
\* a compiled `.gitignore`, was in the tree the run started in, whatever
\* vanished meanwhile, and nothing else waits on the agenda.
THEOREM DiscoveryTypes == Spec => []TypeOK
PROOF
<1>1. Init => TypeInv
  BY InitTypeInv
<1>2. RootInv /\ TypeInv => TypeOK
  <2> SUFFICES ASSUME RootInv, TypeInv PROVE TypeOK
    OBVIOUS
  <2>1. \A i \in DOMAIN agenda : agenda[i] \in EntrySet
    BY ElementOfSeq, LenProperties DEF TypeInv
  <2>2. \A i \in DOMAIN agenda : agenda[i].path \in Seq(Name) /\ agenda[i].type \in EntryType
    BY <2>1 DEF EntrySet
  <2> QED
    BY <2>2 DEF TypeOK, TypeInv, RootInv, Remains
<1> QED
  BY <1>1, <1>2, InitIInv, NextIInv, InitRootInv, NextKeepsRootInv, NextTypeInv, PTL DEF Spec

-----------------------------------------------------------------------------
(* Paths: a directory and the entries in it.                               *)

\* A directory on the way to a path is the beginning of it.
LEMMA PrefixUpto ==
  ASSUME NEW S, NEW q \in Seq(S), NEW p \in Seq(S), IsPrefix(q, p)
  PROVE  Len(q) \in 0 .. Len(p) /\ q = Upto(p, Len(q))
PROOF
<1>1. Len(q) \in 0 .. Len(p) /\ \A i \in 1 .. Len(q) : q[i] = p[i]
  BY PrefixIs
<1>2. /\ Upto(p, Len(q)) \in Seq(S) /\ Len(Upto(p, Len(q))) = Len(q)
      /\ \A i \in 1 .. Len(q) : Upto(p, Len(q))[i] = p[i]
  BY <1>1, UptoIs
<1> HIDE DEF Upto
<1>3. q = Upto(p, Len(q))
  BY <1>1, <1>2, SeqEqual
<1> QED
  BY <1>1, <1>3

\* All of a path.
LEMMA UptoAll ==
  ASSUME NEW S, NEW p \in Seq(S)
  PROVE  Len(p) \in Nat /\ Upto(p, Len(p)) = p
  BY SubSeqFull DEF Upto

\* The directory that a path is in.
LEMMA ParentUpto ==
  ASSUME NEW S, NEW p \in Seq(S), p # <<>>
  PROVE  Len(p) \in Nat \ {0} /\ Parent(p) = Upto(p, Len(p) - 1)
PROOF
<1>1. Len(p) \in Nat \ {0}
  BY EmptySeq
<1> QED
  BY <1>1 DEF Parent, Front, Upto

\* The next step down to a path.
LEMMA UptoNext ==
  ASSUME NEW S, NEW p \in Seq(S), NEW k \in 0 .. Len(p) - 1
  PROVE  k + 1 \in 1 .. Len(p) /\ p[k + 1] \in S /\ Upto(p, k + 1) = Append(Upto(p, k), p[k + 1])
PROOF
<1> DEFINE a == Upto(p, k)
           b == Upto(p, k + 1)
           c == Append(a, p[k + 1])
<1>1. k + 1 \in 1 .. Len(p) /\ k \in 0 .. Len(p) /\ k + 1 \in 0 .. Len(p) /\ p[k + 1] \in S
  BY ElementOfSeq
<1>2. a \in Seq(S) /\ Len(a) = k /\ \A i \in 1 .. k : a[i] = p[i]
  BY <1>1, UptoIs
<1>3. b \in Seq(S) /\ Len(b) = k + 1 /\ \A i \in 1 .. k + 1 : b[i] = p[i]
  BY <1>1, UptoIs
<1> HIDE DEF a, b
<1>4. c \in Seq(S) /\ Len(c) = k + 1 /\ c[k + 1] = p[k + 1] /\ \A i \in 1 .. k : c[i] = a[i]
  BY <1>1, <1>2, AppendProperties
<1> HIDE DEF c
<1>5. \A i \in 1 .. k + 1 : b[i] = c[i]
  <2> TAKE i \in 1 .. k + 1
  <2>1. i = k + 1 \/ i \in 1 .. k
    BY <1>1
  <2> QED
    BY <1>2, <1>3, <1>4, <2>1
<1>6. b = c
  BY <1>3, <1>4, <1>5, SeqEqual
<1> QED
  BY <1>1, <1>6 DEF a, b, c

\* An entry of a directory.
LEMMA ChildIs ==
  ASSUME NEW S, NEW d \in Seq(S), NEW e \in S
  PROVE  /\ Append(d, e) \in Seq(S) /\ Append(d, e) # <<>> /\ Append(d, e) # d
         /\ Len(Append(d, e)) = Len(d) + 1 /\ Len(d) \in Nat
         /\ \A k \in 0 .. Len(d) : Upto(Append(d, e), k) = Upto(d, k)
         /\ Upto(d, Len(d)) = d /\ Upto(Append(d, e), Len(d)) = d
         /\ Upto(Append(d, e), Len(d) + 1) = Append(d, e)
         /\ Parent(Append(d, e)) = d
         /\ IsPrefix(d, Append(d, e))
PROOF
<1> DEFINE c == Append(d, e)
<1>1. /\ c \in Seq(S) /\ Len(c) = Len(d) + 1 /\ Len(d) \in Nat /\ c[Len(d) + 1] = e
      /\ \A i \in 1 .. Len(d) : c[i] = d[i]
  BY AppendProperties
<1> HIDE DEF c
<1>2. c # <<>> /\ c # d
  BY <1>1, EmptySeq
<1>3. \A k \in 0 .. Len(d) : Upto(c, k) = Upto(d, k)
  <2> TAKE k \in 0 .. Len(d)
  <2>1. k \in 0 .. Len(c)
    BY <1>1
  <2>2. /\ Upto(c, k) \in Seq(S) /\ Len(Upto(c, k)) = k
        /\ \A i \in 1 .. k : Upto(c, k)[i] = c[i]
    BY <1>1, <2>1, UptoIs
  <2>3. /\ Upto(d, k) \in Seq(S) /\ Len(Upto(d, k)) = k
        /\ \A i \in 1 .. k : Upto(d, k)[i] = d[i]
    BY UptoIs
  <2> HIDE DEF Upto
  <2>4. \A i \in 1 .. k : Upto(c, k)[i] = Upto(d, k)[i]
    BY <1>1, <2>2, <2>3
  <2> QED
    BY <2>2, <2>3, <2>4, SeqEqual
<1>4. Upto(d, Len(d)) = d /\ Upto(c, Len(d)) = d /\ Upto(c, Len(d) + 1) = c
  <2>1. Len(d) \in 0 .. Len(d) /\ Len(c) \in 0 .. Len(c)
    BY <1>1
  <2>2. Upto(d, Len(d)) = d /\ Upto(c, Len(c)) = c
    BY <1>1, <2>1, UptoIs
  <2> QED
    BY <1>1, <1>3, <2>1, <2>2
<1>5. Parent(c) = d
  <2>1. Parent(c) = Upto(c, Len(c) - 1)
    BY <1>1, <1>2, ParentUpto
  <2> QED
    BY <1>1, <1>4, <2>1
<1>6. IsPrefix(d, c)
  BY <1>1, PrefixIs
<1> QED
  BY <1>1, <1>2, <1>3, <1>4, <1>5, <1>6 DEF c

-----------------------------------------------------------------------------
(* Trees: paths that lead through directories only.                        *)

\* Every name before the last is a directory.
Way(t, p) == \A k \in 0 .. Len(p) - 1 : Upto(p, k) \in DOMAIN t /\ t[Upto(p, k)].type = "dir"

\* A path with no link to follow stays what it is.
LEMMA FixedFollow ==
  ASSUME NEW t, IsTree(t), NEW p \in Seq(AnyName), Follow(t, p) = p
  PROVE  Followed(t, p) = p
PROOF
<1>1. MaxLinks \in Nat
  BY FileTreeAssumption DEF FileTreeAssumption
<1>2. PICK f : Chain(t, p, f)
  BY FollowedIs
<1> DEFINE N == {n \in Nat : n <= MaxLinks => f[n] = p}
<1>3. 0 \in N
  BY <1>2 DEF Chain
<1>4. ASSUME NEW n \in Nat, n \in N PROVE n + 1 \in N
  <2>1. SUFFICES ASSUME n + 1 <= MaxLinks PROVE f[n + 1] = p
    OBVIOUS
  <2>2. n + 1 \in 1 .. MaxLinks /\ (n + 1) - 1 = n /\ n <= MaxLinks
    BY <1>1, <2>1
  <2> QED
    BY <1>2, <1>4, <2>2 DEF Chain
<1>5. Nat \subseteq N
  <2> HIDE DEF N
  <2> QED
    BY <1>3, <1>4, NatSetInduction
<1> QED
  BY <1>1, <1>2, <1>5 DEF Chain

\* What a path resolves to on which there is no link.
LEMMA NoLinks ==
  ASSUME NEW t, IsTree(t), NEW p \in Seq(AnyName), LinksTo(t, p) = {},
         Seen(t, p) => t[p].type # "link"
  PROVE  /\ Followed(t, p) = p
         /\ EvalSymlinks(t, p) = IF Seen(t, p) THEN {p} ELSE {}
         /\ Stat(t, p) = IF Seen(t, p) THEN {t[p]} ELSE {}
PROOF
<1>1. Followed(t, p) = p
  BY FollowIs, FixedFollow
<1>2. EvalSymlinks(t, p) = IF Seen(t, p) THEN {p} ELSE {}
  BY <1>1 DEF EvalSymlinks, Seen
<1> HIDE DEF EvalSymlinks
<1>3. Stat(t, p) = IF Seen(t, p) THEN {t[p]} ELSE {}
  BY <1>2 DEF Stat
<1> QED
  BY <1>1, <1>2, <1>3

\* What a path resolves to that leads through directories, to no link.
LEMMA Straight ==
  ASSUME NEW t, IsTree(t), NEW p \in Seq(AnyName), Way(t, p),
         Seen(t, p) => t[p].type # "link"
  PROVE  /\ Followed(t, p) = p
         /\ EvalSymlinks(t, p) = IF Seen(t, p) THEN {p} ELSE {}
         /\ Stat(t, p) = IF Seen(t, p) THEN {t[p]} ELSE {}
PROOF
<1>1. LinksTo(t, p) = {}
  <2> SUFFICES ASSUME NEW k \in LinksTo(t, p) PROVE FALSE
    OBVIOUS
  <2>1. k \in 1 .. Len(p) /\ Seen(t, Upto(p, k)) /\ t[Upto(p, k)].type = "link"
    BY DEF LinksTo
  <2>2. CASE k = Len(p)
    <3>1. Upto(p, k) = p
      BY <2>1, <2>2, UptoIs
    <3> QED
      BY <2>1, <3>1
  <2>3. CASE k # Len(p)
    <3>1. k \in 0 .. Len(p) - 1
      BY <2>1, <2>3
    <3> QED
      BY <2>1, <3>1 DEF Way
  <2> QED
    BY <2>2, <2>3
<1> QED
  BY <1>1, NoLinks

\* Lstat goes through directories.
LEMMA SeenWay ==
  ASSUME NEW t, NEW p, Seen(t, p)
  PROVE  p \in DOMAIN t /\ Way(t, p)
  BY DEF Seen, Entered, Way

\* What a path resolves to resolves to itself.
LEMMA ResolvedStays ==
  ASSUME NEW t, IsTree(t), NEW p, NEW q \in EvalSymlinks(t, p)
  PROVE  /\ q \in DOMAIN t /\ q \in Seq(Name) /\ Seen(t, q) /\ t[q].type # "link" /\ Way(t, q)
         /\ EvalSymlinks(t, p) = {q} /\ Stat(t, p) = {t[q]}
         /\ EvalSymlinks(t, q) = {q} /\ Stat(t, q) = {t[q]}
PROOF
<1>1. Seen(t, q) /\ t[q].type # "link" /\ EvalSymlinks(t, p) = {q}
  BY DEF EvalSymlinks
<1>2. q \in DOMAIN t /\ Way(t, q)
  BY <1>1, SeenWay
<1>3. q \in Seq(Name) /\ q \in Seq(AnyName)
  BY <1>2, NameIs DEF IsTree
<1>4. EvalSymlinks(t, q) = {q} /\ Stat(t, q) = {t[q]}
  BY <1>1, <1>2, <1>3, Straight
<1>5. Stat(t, p) = {t[q]}
  BY <1>1 DEF Stat
<1> QED
  BY <1>1, <1>2, <1>3, <1>4, <1>5

\* What resolves in the lesser tree resolves in the other, to the same path.
LEMMA EvalWithin ==
  ASSUME NEW t, NEW u, IsTree(t), IsTree(u), Within(u, t), NEW p \in Seq(AnyName)
  PROVE  \A q \in EvalSymlinks(u, p) :
           /\ EvalSymlinks(t, p) = {q} /\ EvalSymlinks(u, p) = {q}
           /\ Stat(t, p) = {t[q]} /\ Stat(u, p) = {u[q]}
           /\ u[q].type = t[q].type /\ u[q].lines = t[q].lines /\ u[q].grants \subseteq t[q].grants
PROOF
<1> TAKE q \in EvalSymlinks(u, p)
<1>1. q = Followed(u, p) /\ Seen(u, q) /\ u[q].type # "link"
  BY DEF EvalSymlinks
<1>2. Followed(t, p) = q
  BY <1>1, FollowedWithin
<1>3. Seen(t, q) /\ u[q].type = t[q].type
  BY <1>1, SeenWithin
<1>4. q \in EvalSymlinks(t, p)
  BY <1>1, <1>2, <1>3 DEF EvalSymlinks
<1>5. q \in DOMAIN u
  BY <1>1 DEF Seen
<1> QED
  BY <1>4, <1>5, ResolvedStays DEF Within

\* A directory above what is left of a tree can still be passed through.
LEMMA SeenBack ==
  ASSUME NEW t, NEW u, Remains(u, t), NEW p \in DOMAIN u, Way(u, p), Seen(t, p)
  PROVE  Seen(u, p)
  BY DEF Remains, Seen, Entered, Way

\* A tree in which every permission is given.
LEMMA GrantedWithin ==
  ASSUME NEW t, IsTree(t)
  PROVE  /\ IsTree(Granted(t)) /\ Within(t, Granted(t)) /\ DOMAIN Granted(t) = DOMAIN t
         /\ \A p \in DOMAIN t : /\ Granted(t)[p].type = t[p].type
                                /\ Granted(t)[p].grants = {"list", "enter", "read"}
PROOF
<1> DEFINE G == Granted(t)
<1>1. DOMAIN G = DOMAIN t
  BY DEF Granted
<1>2. ASSUME NEW p \in DOMAIN t
      PROVE  /\ G[p] \in [type : {"dir", "file", "link", "device"},
                          grants : SUBSET {"list", "enter", "read"},
                          size : Nat, to : Seq(Name), lines : {G[p].lines}]
             /\ G[p].type = t[p].type /\ G[p].to = t[p].to /\ G[p].lines = t[p].lines
             /\ G[p].grants = {"list", "enter", "read"} /\ t[p].grants \subseteq G[p].grants
  <2>1. t[p] \in [type : {"dir", "file", "link", "device"},
                  grants : SUBSET {"list", "enter", "read"},
                  size : Nat, to : Seq(Name), lines : {t[p].lines}]
    BY DEF IsTree
  <2>2. G[p] = [t[p] EXCEPT !.grants = {"list", "enter", "read"}]
    BY DEF Granted
  <2> HIDE DEF G
  <2> QED
    BY <2>1, <2>2
<1>3. DOMAIN G \subseteq Seq(Name)
  BY <1>1 DEF IsTree
<1> HIDE DEF G
<1>4. IsTree(G)
  BY <1>1, <1>2, <1>3 DEF IsTree
<1>5. Within(t, G)
  BY <1>1, <1>2 DEF Within
<1> QED
  BY <1>1, <1>2, <1>4, <1>5 DEF G

-----------------------------------------------------------------------------
(* What is found: the invariant.                                           *)

\* The tree the run started in, every permission given, and its links: none
\* leads through a directory that may not be entered.
Full == Granted(world.tree)

LinksOpen ==
  \A p \in DOMAIN world.tree :
    world.tree[p].type = "link" /\ EvalSymlinks(world.tree, p) = {} => EvalSymlinks(Full, p) = {}

\* The trees whose entries the walk owes: the first, and the full one as long
\* as nothing has failed or vanished.
Owed(o) ==
  \/ o = world.tree
  \/ o = Full /\ soft = 0 /\ tree = world.tree /\ LinksOpen

InScope(root, abs) == abs = root \/ InProject(project, abs)

\* The list of dir that the walk goes by is the one of t.
ObeyedBy(t, dir) == dir \in DOMAIN gitignores \/ GitignoreOf(t, dir) = <<>>

\* p is reached, but for what may exclude p itself.
Due(t, root, p) ==
  /\ p \in DOMAIN t /\ IsPrefix(root, p)
  /\ \A k \in Len(root) .. Len(p) - 1 :
       Upto(p, k) \in DOMAIN t /\ t[Upto(p, k)].type = "dir" /\ Listable(t, Upto(p, k))
  /\ \A k \in Len(root) + 1 .. Len(p) - 1 :
       ~isExcluded(GitignoreOf(t, Upto(p, k - 1)), root, Upto(p, k), t[Upto(p, k)].type = "dir")

\* How an entry came onto the agenda.
Led(e, root) ==
  \/ e.type = "root" /\ e.path = root
  \/ /\ e.type = "listing" /\ e.path \in DOMAIN world.tree /\ world.tree[e.path].type = "dir"
     /\ e.path \in Reached(world.tree, root) \cup Reached(tree, root)
     /\ ObeyedBy(tree, e.path)
  \/ /\ e.type \notin {"root", "listing"}
     /\ e.path \in DOMAIN world.tree /\ e.type = world.tree[e.path].type
     /\ \E t \in {world.tree, tree} :
          Due(t, root, e.path) /\ (e.path # root => ObeyedBy(t, Parent(e.path)))

\* p, or a directory on the way to it, still waits.
Pending(p) ==
  \E e \in Range(agenda) : IsPrefix(e.path, p) /\ (e.type = "listing" => e.path # p)

\* All that p leads to is found.
Handled(o, root, p) ==
  \A f \in FindsAt(o, p) :
    InScope(root, f[1]) /\ (tree # world.tree => f \in FindsAt(tree, p)) => f \in Found

\* Of a directory that is left, every directory above it is.
TreeClosed ==
  \A p \in DOMAIN tree : \A q \in DOMAIN world.tree : IsPrefix(q, p) => q \in DOMAIN tree

\* The roots are walked in their order, each resolved as the run found it.
RootsTaken ==
  /\ \A i \in DOMAIN walked :
       i \in DOMAIN world.roots /\ EvalSymlinks(world.tree, world.roots[i]) = {walked[i]}
  /\ status # "failed" =>
       /\ Len(walked) + Len(todo) = Len(world.roots)
       /\ \A j \in DOMAIN todo : todo[j] = world.roots[Len(walked) + j]

ListsKept ==
  \A dir \in DOMAIN gitignores :
    gitignores[dir] = GitignoreOf(world.tree, dir) /\ gitignores[dir] # <<>>

AgendaLed == \A e \in Range(agenda) : Led(e, Last(walked))

\* How an item came to be found, on the walk from root.
FoundFrom(item, root) ==
  \E t \in {world.tree, tree} : \E p \in Reached(t, root) :
    <<item.abs, item.kind>> \in FindsAt(t, p) /\ InScope(root, item.abs)

ItemsLed == \A item \in Range(items) : \E i \in DOMAIN walked : FoundFrom(item, walked[i])

Covered ==
  \A o \in {world.tree, Full} : Owed(o) =>
    \A i \in DOMAIN walked : \A p \in Reached(o, walked[i]) \cap DOMAIN tree :
      Handled(o, walked[i], p) \/ (i = Len(walked) /\ Pending(p))

\* A root waits alone, and nothing waits before the walk or after it.
InTurn ==
  /\ status = "start" => walked = <<>> /\ gitignores = <<>>
  /\ status = "done" => agenda = <<>> /\ todo = <<>>
  /\ \A e \in Range(agenda) : e.type = "root" => Range(agenda) = {e}

WalkInv ==
  InTurn /\ TreeClosed /\ RootsTaken /\ ListsKept /\ AgendaLed /\ ItemsLed /\ Covered

-----------------------------------------------------------------------------
(* Lists of patterns: a list is the one of the other tree, or is lost.     *)

\* A list that can be read in the lesser tree is the one of the other.
LEMMA ListWithin ==
  ASSUME NEW t, NEW u, IsTree(t), IsTree(u), Within(u, t), NEW d \in Seq(Name)
  PROVE  GitignoreOf(u, d) = <<>> \/ GitignoreOf(u, d) = GitignoreOf(t, d)
PROOF
<1> DEFINE p == Append(d, ".gitignore")
<1>1. p \in Seq(AnyName)
  <2>1. d \in Seq(AnyName) /\ ".gitignore" \in AnyName
    BY NameIs DEF AnyName
  <2> QED
    BY <2>1, AppendProperties
<1>2. CASE Readable(u, p)
  <2>1. PICK node \in Stat(u, p) : node.type = "file" /\ "read" \in node.grants
    BY <1>2 DEF Readable
  <2>2. PICK q \in EvalSymlinks(u, p) : TRUE
    BY DEF Stat
  <2> HIDE DEF p
  <2>3. /\ Stat(t, p) = {t[q]} /\ Stat(u, p) = {u[q]}
        /\ u[q].type = t[q].type /\ u[q].lines = t[q].lines /\ u[q].grants \subseteq t[q].grants
    BY <1>1, EvalWithin
  <2>4. node = u[q]
    BY <2>1, <2>3
  <2>5. Readable(t, p)
    BY <2>1, <2>3, <2>4 DEF Readable
  <2>6. (CHOOSE n \in Stat(u, p) : TRUE) = u[q] /\ (CHOOSE n \in Stat(t, p) : TRUE) = t[q]
    BY <2>3
  <2>7. GitignoreOf(u, d) = ParsePathSpec(u[q].lines) /\ GitignoreOf(t, d) = ParsePathSpec(t[q].lines)
    BY <1>2, <2>5, <2>6 DEF GitignoreOf, p
  <2> QED
    BY <2>3, <2>7
<1>3. CASE ~Readable(u, p)
  BY <1>3 DEF GitignoreOf
<1> QED
  BY <1>2, <1>3

\* An empty list excludes nothing that another does not.
LEMMA ExcludedMore ==
  ASSUME NEW g, NEW h, g = <<>> \/ g = h, NEW root, NEW p, NEW isDir,
         isExcluded(g, root, p, isDir)
  PROVE  isExcluded(h, root, p, isDir) /\ p # root
PROOF
<1>1. CASE g = h
  BY <1>1 DEF isExcluded
<1>2. CASE g = <<>>
  <2>1. ~MatchSpec(g, Candidate(wd, p, isDir))
    BY <1>2 DEF MatchSpec
  <2> QED
    BY <2>1 DEF isExcluded
<1> QED
  BY <1>1, <1>2

-----------------------------------------------------------------------------
(* Reached: what it takes, one directory at a time.                        *)

\* A path is reached when it is due and not excluded itself.
LEMMA DueReached ==
  ASSUME NEW t, DOMAIN t \subseteq Seq(Name), NEW root \in Seq(Name), NEW p, Due(t, root, p),
         p # root => ~isExcluded(GitignoreOf(t, Parent(p)), root, p, t[p].type = "dir")
  PROVE  p \in Reached(t, root)
PROOF
<1>1. p \in DOMAIN t /\ IsPrefix(root, p) /\ p \in Seq(Name) /\ Len(root) \in Nat /\ Len(p) \in Nat
  BY DEF Due
<1>2. Len(root) <= Len(p)
  BY <1>1, PrefixIs
<1>3. \A k \in Len(root) + 1 .. Len(p) :
        ~isExcluded(GitignoreOf(t, Upto(p, k - 1)), root, Upto(p, k), t[Upto(p, k)].type = "dir")
  <2> TAKE k \in Len(root) + 1 .. Len(p)
  <2>1. CASE k = Len(p)
    <3>1. p # root /\ p # <<>>
      BY <1>1, <2>1, EmptySeq
    <3>2. Parent(p) = Upto(p, Len(p) - 1) /\ Upto(p, Len(p)) = p
      BY <1>1, <3>1, ParentUpto, ChildIs, UptoIs
    <3> QED
      BY <2>1, <3>1, <3>2
  <2>2. CASE k # Len(p)
    <3>1. k \in Len(root) + 1 .. Len(p) - 1
      BY <1>1, <2>2
    <3> QED
      BY <3>1 DEF Due
  <2> QED
    BY <2>1, <2>2
<1> QED
  BY <1>1, <1>3 DEF Due, Reached

\* The root itself is due.
LEMMA RootDue ==
  ASSUME NEW t, NEW root \in Seq(Name), root \in DOMAIN t
  PROVE  Due(t, root, root)
PROOF
<1>1. IsPrefix(root, root) /\ Len(root) \in Nat
  BY PrefixIs
<1>2. Len(root) .. Len(root) - 1 = {} /\ Len(root) + 1 .. Len(root) - 1 = {}
  BY <1>1
<1> QED
  BY <1>1, <1>2 DEF Due

\* What is in a directory that is reached and listed is due.
LEMMA ChildDue ==
  ASSUME NEW t, DOMAIN t \subseteq Seq(Name), NEW root \in Seq(Name), NEW d \in Reached(t, root),
         t[d].type = "dir", Listable(t, d),
         NEW e \in Name, Append(d, e) \in DOMAIN t
  PROVE  Due(t, root, Append(d, e))
PROOF
<1> DEFINE c == Append(d, e)
<1>1. d \in DOMAIN t /\ d \in Seq(Name) /\ IsPrefix(root, d)
  BY DEF Reached
<1>2. /\ c \in Seq(Name) /\ Len(c) = Len(d) + 1 /\ Len(d) \in Nat /\ Len(root) \in Nat
      /\ \A k \in 0 .. Len(d) : Upto(c, k) = Upto(d, k)
      /\ Upto(d, Len(d)) = d /\ Upto(c, Len(d)) = d /\ Parent(c) = d /\ IsPrefix(d, c)
  BY <1>1, ChildIs
<1> HIDE DEF c
<1>3. IsPrefix(root, c)
  BY <1>1, <1>2, PrefixTrans
<1>4. \A k \in Len(root) .. Len(c) - 1 :
        Upto(c, k) \in DOMAIN t /\ t[Upto(c, k)].type = "dir" /\ Listable(t, Upto(c, k))
  <2> TAKE k \in Len(root) .. Len(c) - 1
  <2>1. Upto(c, k) = Upto(d, k)
    BY <1>2
  <2>2. CASE k = Len(d)
    BY <1>1, <1>2, <2>2
  <2>3. CASE k # Len(d)
    <3>1. k \in Len(root) .. Len(d) - 1
      BY <1>2, <2>3
    <3> QED
      BY <2>1, <3>1 DEF Reached
  <2> QED
    BY <2>2, <2>3
<1>5. \A k \in Len(root) + 1 .. Len(c) - 1 :
        ~isExcluded(GitignoreOf(t, Upto(c, k - 1)), root, Upto(c, k), t[Upto(c, k)].type = "dir")
  <2> TAKE k \in Len(root) + 1 .. Len(c) - 1
  <2>1. Upto(c, k) = Upto(d, k) /\ Upto(c, k - 1) = Upto(d, k - 1) /\ k \in Len(root) + 1 .. Len(d)
    BY <1>2
  <2> QED
    BY <2>1 DEF Reached
<1>6. c \in DOMAIN t
  BY DEF c
<1>7. Due(t, root, c)
  BY <1>3, <1>4, <1>5, <1>6 DEF Due
<1> QED
  BY <1>7 DEF c

\* Whatever is reached lies behind directories, when the root does.
LEMMA ReachedWay ==
  ASSUME NEW t, DOMAIN t \subseteq Seq(Name), NEW root \in Seq(Name), Way(t, root), NEW p \in Seq(Name),
         IsPrefix(root, p),
         \A k \in Len(root) .. Len(p) - 1 : Upto(p, k) \in DOMAIN t /\ t[Upto(p, k)].type = "dir"
  PROVE  Way(t, p)
PROOF
<1>1. Len(root) \in 0 .. Len(p) /\ root = Upto(p, Len(root)) /\ Len(p) \in Nat
  BY PrefixUpto
<1>2. ASSUME NEW k \in 0 .. Len(p) - 1
      PROVE  Upto(p, k) \in DOMAIN t /\ t[Upto(p, k)].type = "dir"
  <2>1. CASE k < Len(root)
    <3>1. k \in 0 .. Len(root) - 1 /\ k \in 0 .. Len(root)
      BY <1>1, <2>1
    <3>2. Upto(Upto(p, Len(root)), k) = Upto(p, k)
      BY <1>1, <3>1, UptoUpto
    <3> QED
      BY <1>1, <3>1, <3>2 DEF Way
  <2>2. CASE ~(k < Len(root))
    <3>1. k \in Len(root) .. Len(p) - 1
      BY <1>1, <2>2
    <3> QED
      BY <3>1
  <2> QED
    BY <2>1, <2>2
<1> QED
  BY <1>2 DEF Way

\* A path of which something is left that is left itself is reached as before.
LEMMA ReachedRemains ==
  ASSUME NEW t, NEW u, IsTree(t), IsTree(u), Remains(u, t), NEW root \in Seq(Name), Way(t, root),
         NEW p \in Reached(t, root), p \in DOMAIN u, Way(u, p)
  PROVE  p \in Reached(u, root)
PROOF
<1>1. /\ p \in DOMAIN t /\ IsPrefix(root, p) /\ p \in Seq(Name) /\ Len(p) \in Nat
      /\ Len(root) \in 0 .. Len(p)
      /\ DOMAIN t \subseteq Seq(Name) /\ DOMAIN u \subseteq Seq(Name)
  <2>1. p \in DOMAIN t /\ IsPrefix(root, p) /\ p \in Seq(Name)
    BY DEF Reached, IsTree
  <2> QED
    BY <2>1, PrefixUpto DEF IsTree
<1>2. Way(t, p)
  BY <1>1, ReachedWay DEF Reached
<1>3. ASSUME NEW k \in Len(root) .. Len(p) - 1
      PROVE  Upto(p, k) \in DOMAIN u /\ u[Upto(p, k)].type = "dir" /\ Listable(u, Upto(p, k))
  <2> DEFINE q == Upto(p, k)
  <2>1. k \in 0 .. Len(p) - 1 /\ k \in 0 .. Len(p)
    BY <1>1
  <2>2. q \in DOMAIN u /\ u[q].type = "dir" /\ u[q] = t[q]
    BY <2>1 DEF Way, Remains
  <2>3. Listable(t, q) /\ q \in Seq(Name) /\ Len(q) = k
    BY <1>1, <2>1, UptoIs DEF Reached
  <2>4. Way(u, q) /\ Way(t, q)
    <3>1. \A l \in 0 .. k - 1 : Upto(q, l) = Upto(p, l) /\ l \in 0 .. Len(p) - 1
      BY <1>1, <2>1, UptoUpto
    <3> HIDE DEF q
    <3> QED
      BY <1>2, <2>3, <3>1 DEF Way
  <2> HIDE DEF q
  <2>5. q \in Seq(AnyName) /\ q \in DOMAIN t
    BY <2>2, <2>3, NameIs DEF Remains
  <2>6. Seen(t, q) /\ Stat(t, q) = {t[q]}
    <3>1. Stat(t, q) # {}
      BY <2>3 DEF Listable
    <3> QED
      BY <2>2, <2>4, <2>5, <3>1, Straight
  <2>7. Seen(u, q)
    BY <2>2, <2>4, <2>6, SeenBack
  <2>8. Stat(u, q) = {u[q]}
    BY <2>2, <2>4, <2>5, <2>7, Straight
  <2>9. Listable(u, q)
    BY <2>2, <2>3, <2>6, <2>8 DEF Listable
  <2> QED
    BY <2>2, <2>9 DEF q
<1>4. ASSUME NEW k \in Len(root) + 1 .. Len(p)
      PROVE  ~isExcluded(GitignoreOf(u, Upto(p, k - 1)), root, Upto(p, k), u[Upto(p, k)].type = "dir")
  <2> DEFINE q == Upto(p, k)
             d == Upto(p, k - 1)
  <2>1. k \in 0 .. Len(p) /\ k - 1 \in 0 .. Len(p)
    BY <1>1
  <2>2. q \in DOMAIN u
    <3>1. CASE k = Len(p)
      BY <1>1, <2>1, <3>1, UptoIs
    <3>2. CASE k # Len(p)
      <4>1. k \in Len(root) .. Len(p) - 1
        BY <1>1, <3>2
      <4> QED
        BY <1>3, <4>1
    <3> QED
      BY <3>1, <3>2
  <2>3. u[q] = t[q]
    BY <2>2 DEF Remains
  <2>4. d \in Seq(Name)
    BY <1>1, <2>1, UptoIs
  <2>5. ~isExcluded(GitignoreOf(t, d), root, q, t[q].type = "dir")
    BY DEF Reached
  <2> HIDE DEF q, d
  <2>6. GitignoreOf(u, d) = <<>> \/ GitignoreOf(u, d) = GitignoreOf(t, d)
    BY <2>4, ListWithin, RemainsWithin
  <2>7. ~isExcluded(GitignoreOf(u, d), root, q, u[q].type = "dir")
    BY <2>3, <2>5, <2>6, ExcludedMore
  <2> QED
    BY <2>7 DEF q, d
<1> QED
  BY <1>1, <1>3, <1>4 DEF Reached

-----------------------------------------------------------------------------
(* What an entry leads to.                                                 *)

\* A path has one kind, if it has any.
LEMMA KindOne ==
  ASSUME NEW path, NEW a \in KindOf(path), NEW b \in KindOf(path)
  PROVE  a = b
PROOF
<1> DEFINE seg == <<"">> \o path
           rows == {k \in DOMAIN kindTable : RowMatches(kindTable[k], seg)}
<1>1. DOMAIN kindTable \subseteq Nat
  BY DEF kindTable
<1>2. KindOf(path) = {kindTable[k].kind : k \in {k \in rows : \A l \in rows : k <= l}}
  BY DEF KindOf
<1>3. rows \subseteq Nat
  BY <1>1
<1> HIDE DEF rows
<1>4. PICK i \in rows : a = kindTable[i].kind /\ \A l \in rows : i <= l
  BY <1>2
<1>5. PICK j \in rows : b = kindTable[j].kind /\ \A l \in rows : j <= l
  BY <1>2
<1>6. i = j
  BY <1>3, <1>4, <1>5
<1> QED
  BY <1>4, <1>5, <1>6

\* What an entry of a type at p stands for.
StandsFor(t, type, p, abs) ==
  /\ IF type = "link" THEN abs \in EvalSymlinks(t, p) ELSE abs = p
  /\ type # "file" => \E node \in Stat(t, abs) : node.type = "file"

\* Lintable, without the sizes.
LEMMA LintableFor ==
  ASSUME NEW t, NEW e
  PROVE  /\ \A i \in Lintable(t, e) : StandsFor(t, e.type, e.path, i.abs) /\ i.kind \in KindOf(i.abs)
         /\ \A abs : \A kind \in KindOf(abs) :
              StandsFor(t, e.type, e.path, abs) => \E i \in Lintable(t, e) : i.abs = abs /\ i.kind = kind
PROOF
<1>1. \A abs : abs \in resolveLink(t, e)
                 <=> IF e.type = "link" THEN abs \in EvalSymlinks(t, e.path) ELSE abs = e.path
  BY DEF resolveLink
<1>2. \A abs : regularSize(t, abs, e) # {}
                 <=> (e.type # "file" => \E node \in Stat(t, abs) : node.type = "file")
  BY DEF regularSize
<1>3. \A abs : StandsFor(t, e.type, e.path, abs)
                 <=> abs \in resolveLink(t, e) /\ regularSize(t, abs, e) # {}
  BY <1>1, <1>2 DEF StandsFor
<1> HIDE DEF resolveLink, regularSize
<1>4. ASSUME NEW i \in Lintable(t, e)
      PROVE  StandsFor(t, e.type, e.path, i.abs) /\ i.kind \in KindOf(i.abs)
  <2>1. PICK target \in resolveLink(t, e) :
          \E kind \in KindOf(target), s \in regularSize(t, target, e) : i = Item(target, kind, s)
    BY DEF Lintable
  <2>2. PICK kind \in KindOf(target), s \in regularSize(t, target, e) : i = Item(target, kind, s)
    BY <2>1
  <2>3. i.abs = target /\ i.kind = kind
    BY <2>2 DEF Item
  <2> QED
    BY <1>3, <2>3
<1>5. ASSUME NEW abs, NEW kind \in KindOf(abs), StandsFor(t, e.type, e.path, abs)
      PROVE  \E i \in Lintable(t, e) : i.abs = abs /\ i.kind = kind
  <2>1. abs \in resolveLink(t, e) /\ regularSize(t, abs, e) # {}
    BY <1>3, <1>5
  <2>2. PICK s \in regularSize(t, abs, e) : TRUE
    BY <2>1
  <2>3. Item(abs, kind, s) \in Lintable(t, e)
    BY <2>1, <2>2 DEF Lintable
  <2>4. Item(abs, kind, s).abs = abs /\ Item(abs, kind, s).kind = kind
    BY DEF Item
  <2> QED
    BY <2>3, <2>4
<1> QED
  BY <1>4, <1>5

\* FindsAt, without the sizes.
LEMMA FindsAre ==
  ASSUME NEW t, NEW p
  PROVE  /\ t[p].type = "dir" =>
              \A f : f \in FindsAt(t, p) <=> isRoleDir(t, p) /\ f = <<p, "role">>
         /\ t[p].type # "dir" =>
              \A f : f \in FindsAt(t, p) <=>
                       \E abs : \E kind \in KindOf(abs) :
                         f = <<abs, kind>> /\ StandsFor(t, t[p].type, p, abs)
PROOF
<1>1. ASSUME t[p].type = "dir", NEW f
      PROVE  f \in FindsAt(t, p) <=> isRoleDir(t, p) /\ f = <<p, "role">>
  <2>1. FindsAt(t, p) = {<<dir, "role">> : dir \in {q \in {p} : isRoleDir(t, q)}}
    BY <1>1 DEF FindsAt
  <2> QED
    BY <2>1
<1>2. ASSUME t[p].type # "dir", NEW f
      PROVE  f \in FindsAt(t, p) <=>
               \E abs : \E kind \in KindOf(abs) :
                 f = <<abs, kind>> /\ StandsFor(t, t[p].type, p, abs)
  <2> DEFINE e == Entry(p, t[p].type, {})
  <2>1. e.path = p /\ e.type = t[p].type
    BY DEF Entry
  <2>2. FindsAt(t, p) = {<<i.abs, i.kind>> : i \in Lintable(t, e)}
    BY <1>2 DEF FindsAt
  <2> HIDE DEF e
  <2>3. ASSUME f \in FindsAt(t, p)
        PROVE  \E abs : \E kind \in KindOf(abs) : f = <<abs, kind>> /\ StandsFor(t, t[p].type, p, abs)
    <3>1. PICK i \in Lintable(t, e) : f = <<i.abs, i.kind>>
      BY <2>2, <2>3
    <3>2. StandsFor(t, e.type, e.path, i.abs) /\ i.kind \in KindOf(i.abs)
      BY LintableFor
    <3> QED
      BY <2>1, <3>1, <3>2
  <2>4. ASSUME NEW abs, NEW kind \in KindOf(abs), f = <<abs, kind>>, StandsFor(t, t[p].type, p, abs)
        PROVE  f \in FindsAt(t, p)
    <3>1. PICK i \in Lintable(t, e) : i.abs = abs /\ i.kind = kind
      BY <2>1, <2>4, LintableFor
    <3> QED
      BY <2>2, <2>4, <3>1
  <2> QED
    BY <2>3, <2>4
<1> QED
  BY <1>1, <1>2

\* A find is a directory, as a role, or a file, of the kind it has.
IsFind(t, f) ==
  /\ f = <<f[1], f[2]>> /\ f[1] \in DOMAIN t
  /\ \/ t[f[1]].type = "dir" /\ f[2] = "role"
     \/ t[f[1]].type = "file" /\ f[2] \in KindOf(f[1])

\* A file is found as one thing only.
LEMMA FindOne ==
  ASSUME NEW t, NEW f, NEW g, IsFind(t, f), IsFind(t, g), f[1] = g[1]
  PROVE  f = g
PROOF
<1>1. f[2] = g[2]
  BY KindOne DEF IsFind
<1> QED
  BY <1>1 DEF IsFind

\* What an entry leads to is a find.
LEMMA FindsTyped ==
  ASSUME NEW t, IsTree(t), NEW p \in DOMAIN t, Way(t, p), NEW f \in FindsAt(t, p)
  PROVE  IsFind(t, f)
PROOF
<1>1. CASE t[p].type = "dir"
  <2>1. f = <<p, "role">>
    BY <1>1, FindsAre
  <2> QED
    BY <1>1, <2>1 DEF IsFind
<1>2. CASE t[p].type # "dir"
  <2>1. PICK abs : \E kind \in KindOf(abs) : f = <<abs, kind>> /\ StandsFor(t, t[p].type, p, abs)
    BY <1>2, FindsAre
  <2>2. PICK kind \in KindOf(abs) : f = <<abs, kind>> /\ StandsFor(t, t[p].type, p, abs)
    BY <2>1
  <2>3. abs \in DOMAIN t /\ t[abs].type = "file"
    <3>1. CASE t[p].type = "file"
      BY <2>2, <3>1 DEF StandsFor
    <3>2. CASE t[p].type = "link"
      <4>1. abs \in EvalSymlinks(t, p) /\ \E node \in Stat(t, abs) : node.type = "file"
        BY <2>2, <3>2 DEF StandsFor
      <4> QED
        BY <4>1, ResolvedStays
    <3>3. CASE t[p].type \notin {"file", "link"}
      <4>1. abs = p /\ \E node \in Stat(t, p) : node.type = "file"
        BY <2>2, <3>3 DEF StandsFor
      <4>2. p \in Seq(AnyName)
        BY NameIs DEF IsTree
      <4>3. Stat(t, p) = IF Seen(t, p) THEN {t[p]} ELSE {}
        BY <3>3, <4>2, Straight
      <4> QED
        BY <3>3, <4>1, <4>3
    <3> QED
      BY <3>1, <3>2, <3>3
  <2> QED
    BY <2>2, <2>3 DEF IsFind
<1> QED
  BY <1>1, <1>2

\* What an entry stands for in the lesser tree it stands for in the other.
LEMMA StandsWithin ==
  ASSUME NEW t, NEW u, IsTree(t), IsTree(u), Within(u, t), NEW p \in Seq(Name),
         NEW type, NEW abs, StandsFor(u, type, p, abs)
  PROVE  StandsFor(t, type, p, abs)
PROOF
<1>1. p \in Seq(AnyName)
  BY NameIs
<1>2. IF type = "link" THEN abs \in EvalSymlinks(t, p) ELSE abs = p
  BY <1>1, EvalWithin DEF StandsFor
<1>3. abs \in Seq(AnyName)
  BY <1>1, <1>2, ResolvedStays, NameIs
<1>4. ASSUME type # "file" PROVE \E node \in Stat(t, abs) : node.type = "file"
  <2>1. PICK node \in Stat(u, abs) : node.type = "file"
    BY <1>4 DEF StandsFor
  <2>2. PICK q \in EvalSymlinks(u, abs) : TRUE
    BY DEF Stat
  <2>3. Stat(t, abs) = {t[q]} /\ Stat(u, abs) = {u[q]} /\ u[q].type = t[q].type
    BY <1>3, EvalWithin
  <2> QED
    BY <2>1, <2>3
<1> QED
  BY <1>2, <1>4 DEF StandsFor

\* What an entry stands for, it stands for alone.
LEMMA StandsOne ==
  ASSUME NEW t, IsTree(t), NEW type, NEW p, NEW a, NEW b,
         StandsFor(t, type, p, a), StandsFor(t, type, p, b)
  PROVE  a = b
PROOF
<1>1. CASE type = "link"
  <2>1. a \in EvalSymlinks(t, p) /\ b \in EvalSymlinks(t, p)
    BY <1>1 DEF StandsFor
  <2> QED
    BY <2>1, ResolvedStays
<1>2. CASE type # "link"
  BY <1>2 DEF StandsFor
<1> QED
  BY <1>1, <1>2

\* A role needs a directory in it, and the absence of others beside it.
LEMMA DirWithin ==
  ASSUME NEW t, NEW u, IsTree(t), IsTree(u), Within(u, t), NEW d \in Seq(Name),
         NEW S \in SUBSET roleMarkers, HasDir(u, d, S)
  PROVE  HasDir(t, d, S)
PROOF
<1>1. PICK name \in S : IsType(u, Append(d, name), "dir")
  BY DEF HasDir
<1> DEFINE p == Append(d, name)
<1>2. p \in Seq(AnyName)
  <2>1. d \in Seq(AnyName) /\ name \in AnyName
    BY NameIs DEF AnyName
  <2> QED
    BY <2>1, AppendProperties
<1>3. PICK node \in Stat(u, p) : node.type = "dir"
  BY <1>1 DEF IsType
<1> HIDE DEF p
<1>4. PICK q \in EvalSymlinks(u, p) : TRUE
  BY DEF Stat
<1>5. Stat(t, p) = {t[q]} /\ Stat(u, p) = {u[q]} /\ u[q].type = t[q].type
  BY <1>2, EvalWithin
<1>6. IsType(t, p, "dir")
  BY <1>3, <1>5 DEF IsType
<1> QED
  BY <1>6 DEF HasDir, p

-----------------------------------------------------------------------------
(* The full tree: what the walk misses of it, it has noticed.              *)

\* An entry of a directory is behind directories, as the directory is.
LEMMA ChildWay ==
  ASSUME NEW t, NEW S, NEW p \in Seq(S), p \in DOMAIN t, t[p].type = "dir", Way(t, p), NEW e \in S
  PROVE  Way(t, Append(p, e))
PROOF
<1>1. /\ Len(Append(p, e)) = Len(p) + 1 /\ Len(p) \in Nat
      /\ \A k \in 0 .. Len(p) : Upto(Append(p, e), k) = Upto(p, k)
      /\ Upto(p, Len(p)) = p
  BY ChildIs
<1>2. ASSUME NEW k \in 0 .. Len(Append(p, e)) - 1
      PROVE  Upto(Append(p, e), k) \in DOMAIN t /\ t[Upto(Append(p, e), k)].type = "dir"
  <2>1. Upto(Append(p, e), k) = Upto(p, k)
    BY <1>1
  <2>2. CASE k = Len(p)
    BY <1>1, <2>1, <2>2
  <2>3. CASE k # Len(p)
    <3>1. k \in 0 .. Len(p) - 1
      BY <1>1, <2>3
    <3> QED
      BY <2>1, <3>1 DEF Way
  <2> QED
    BY <2>2, <2>3
<1> QED
  BY <1>2 DEF Way

\* Entries of the same directory are entered alike.
LEMMA EnteredAlike ==
  ASSUME NEW t, NEW S, NEW p \in Seq(S), NEW d \in S, NEW e \in S, Entered(t, Append(p, d))
  PROVE  Entered(t, Append(p, e))
PROOF
<1>1. \A c \in {d, e} : /\ Len(Append(p, c)) - 1 = Len(p)
                        /\ \A k \in 0 .. Len(p) : Upto(Append(p, c), k) = Upto(p, k)
  BY ChildIs
<1> QED
  BY <1>1 DEF Entered

\* loadGitignore: a directory that may not be entered does not tell whether
\* there is a file in it.
LEMMA NoFailureEnters ==
  ASSUME NEW t, IsTree(t), NEW p \in DOMAIN t, Way(t, p), t[p].type = "dir", ~GitignoreFails(t, p),
         NEW e \in AnyName
  PROVE  Entered(t, Append(p, e))
PROOF
<1> DEFINE c == Append(p, ".gitignore")
<1>1. p \in Seq(AnyName) /\ ".gitignore" \in AnyName
  BY NameIs DEF IsTree, AnyName
<1>2. c \in Seq(AnyName) /\ Way(t, c)
  BY <1>1, ChildIs, ChildWay
<1>3. Readable(t, c) \/ NotExist(t, Followed(t, c))
  BY DEF GitignoreFails
<1> HIDE DEF c
<1>4. Entered(t, c)
  <2> SUFFICES ASSUME ~Entered(t, c) PROVE FALSE
    OBVIOUS
  <2>1. ~Seen(t, c)
    BY DEF Seen
  <2>2. Followed(t, c) = c /\ Stat(t, c) = {}
    BY <1>2, <2>1, Straight
  <2>3. NotExist(t, c)
    BY <1>3, <2>2 DEF Readable
  <2>4. PICK k \in 0 .. Len(c) : Upto(c, k) \notin DOMAIN t /\ Entered(t, Upto(c, k))
    BY <2>3 DEF NotExist
  <2>5. CASE k = Len(c)
    <3>1. Upto(c, k) = c
      BY <1>2, <2>5, UptoIs
    <3> QED
      BY <2>4, <3>1
  <2>6. CASE k # Len(c)
    <3>1. k \in 0 .. Len(c) - 1
      BY <1>2, <2>6
    <3> QED
      BY <1>2, <2>4, <3>1 DEF Way
  <2> QED
    BY <2>5, <2>6
<1> QED
  BY <1>1, <1>4, EnteredAlike DEF c

\* The names that directories of a role have are names discovery asks for.
LEMMA StrictMarkers == roleSubdirsStrict \in SUBSET roleMarkers /\ roleMarkers \in SUBSET AnyName
  BY DEF roleSubdirsStrict, roleMarkers, AnyName

\* What is a role with every permission is one for the walk that notices no
\* missing permission.
LEMMA FullRole ==
  ASSUME IsTree(world.tree), LinksOpen, NEW p \in DOMAIN world.tree, Way(world.tree, p),
         world.tree[p].type = "dir", ~GitignoreFails(world.tree, p), isRoleDir(Full, p)
  PROVE  isRoleDir(world.tree, p)
PROOF
<1> DEFINE t == world.tree
           u == Full
<1>1. /\ IsTree(t) /\ IsTree(u) /\ Within(t, u) /\ DOMAIN u = DOMAIN t
      /\ \A q \in DOMAIN t : u[q].type = t[q].type
  BY GrantedWithin DEF Full
<1>2. p \in DOMAIN t /\ Way(t, p) /\ t[p].type = "dir" /\ ~GitignoreFails(t, p) /\ isRoleDir(u, p)
  OBVIOUS
<1>3. \A q \in DOMAIN t : t[q].type = "link" /\ EvalSymlinks(t, q) = {} => EvalSymlinks(u, q) = {}
  BY DEF LinksOpen
<1> HIDE DEF t, u
<1>4. p \in Seq(Name) /\ p \in Seq(AnyName) /\ Parent(p) \in Seq(Name)
  BY <1>1, <1>2, NameIs, ParentIs DEF IsTree
<1>5. HasDir(t, p, roleSubdirsStrict)
  <2>1. PICK name \in roleSubdirsStrict : IsType(u, Append(p, name), "dir")
    BY <1>2 DEF isRoleDir, HasDir
  <2> DEFINE x == Append(p, name)
  <2>2. name \in AnyName
    BY StrictMarkers
  <2>3. x \in Seq(AnyName) /\ Entered(t, x) /\ Way(t, x)
    BY <1>1, <1>2, <1>4, <2>2, ChildIs, ChildWay, NoFailureEnters
  <2>4. PICK node \in Stat(u, x) : node.type = "dir"
    BY <2>1 DEF IsType
  <2> HIDE DEF x
  <2>5. PICK q \in EvalSymlinks(u, x) : TRUE
    BY <2>4 DEF Stat
  <2>6. IsType(t, x, "dir")
    <3>1. CASE x \in DOMAIN t /\ t[x].type = "link"
      <4>1. EvalSymlinks(t, x) # {}
        BY <1>3, <2>5, <3>1
      <4>2. PICK r \in EvalSymlinks(t, x) : TRUE
        BY <4>1
      <4>3. Stat(t, x) = {t[r]} /\ Stat(u, x) = {u[r]} /\ t[r].type = u[r].type
        BY <1>1, <2>3, EvalWithin
      <4> QED
        BY <2>4, <4>3 DEF IsType
    <3>2. CASE ~(x \in DOMAIN t /\ t[x].type = "link")
      <4>1. Way(u, x)
        BY <1>1, <2>3 DEF Way
      <4>2. Seen(u, x) => u[x].type # "link"
        BY <1>1, <3>2 DEF Seen
      <4>3. Seen(u, x) /\ Stat(u, x) = {u[x]}
        BY <1>1, <2>3, <2>4, <4>1, <4>2, Straight
      <4>4. Seen(t, x) /\ t[x].type = "dir"
        BY <1>1, <2>3, <2>4, <4>3 DEF Seen
      <4>5. Stat(t, x) = {t[x]}
        BY <1>1, <2>3, <4>4, Straight
      <4> QED
        BY <4>4, <4>5 DEF IsType
    <3> QED
      BY <3>1, <3>2
  <2> QED
    BY <2>6 DEF HasDir, x
<1>6. HasDir(t, Parent(p), roleMarkers) => HasDir(u, Parent(p), roleMarkers)
  BY <1>1, <1>4, DirWithin
<1> QED
  BY <1>2, <1>5, <1>6 DEF isRoleDir, t, u

\* A file, a link or a device leads to nothing more with every permission.
LEMMA FullFinds ==
  ASSUME IsTree(world.tree), LinksOpen, NEW p \in DOMAIN world.tree, Way(world.tree, p),
         world.tree[p].type # "dir", NEW f \in FindsAt(Full, p)
  PROVE  f \in FindsAt(world.tree, p)
PROOF
<1> DEFINE t == world.tree
           u == Full
<1>1. /\ IsTree(t) /\ IsTree(u) /\ Within(t, u) /\ DOMAIN u = DOMAIN t
      /\ \A q \in DOMAIN t : u[q].type = t[q].type
  BY GrantedWithin DEF Full
<1>2. p \in DOMAIN t /\ Way(t, p) /\ t[p].type # "dir" /\ f \in FindsAt(u, p)
  OBVIOUS
<1>3. \A q \in DOMAIN t : t[q].type = "link" /\ EvalSymlinks(t, q) = {} => EvalSymlinks(u, q) = {}
  BY DEF LinksOpen
<1> HIDE DEF t, u
<1>4. p \in Seq(AnyName)
  BY <1>1, <1>2, NameIs DEF IsTree
<1>5. PICK abs : \E kind \in KindOf(abs) : f = <<abs, kind>> /\ StandsFor(u, u[p].type, p, abs)
  BY <1>1, <1>2, FindsAre
<1>6. StandsFor(t, t[p].type, p, abs)
  <2>1. CASE t[p].type = "file"
    BY <1>1, <1>2, <1>5, <2>1 DEF StandsFor
  <2>2. CASE t[p].type = "link"
    <3>1. abs \in EvalSymlinks(u, p) /\ \E node \in Stat(u, abs) : node.type = "file"
      BY <1>1, <1>2, <1>5, <2>2 DEF StandsFor
    <3>2. PICK q \in EvalSymlinks(t, p) : TRUE
      BY <1>2, <1>3, <2>2, <3>1
    <3>3. EvalSymlinks(u, p) = {q} /\ EvalSymlinks(t, p) = {q} /\ u[q].type = t[q].type
      BY <1>1, <1>4, EvalWithin
    <3>4. abs = q /\ Stat(u, q) = {u[q]} /\ Stat(t, q) = {t[q]}
      BY <1>1, <3>1, <3>3, ResolvedStays
    <3> QED
      BY <2>2, <3>1, <3>3, <3>4 DEF StandsFor
  <2>3. CASE t[p].type \notin {"file", "link"}
    <3>1. abs = p /\ \E node \in Stat(u, p) : node.type = "file"
      BY <1>1, <1>2, <1>5, <2>3 DEF StandsFor
    <3>2. Way(u, p)
      BY <1>1, <1>2 DEF Way
    <3>3. Stat(u, p) = IF Seen(u, p) THEN {u[p]} ELSE {}
      BY <1>1, <1>2, <1>4, <2>3, <3>2, Straight
    <3> QED
      BY <1>1, <1>2, <2>3, <3>1, <3>3
  <2> QED
    BY <2>1, <2>2, <2>3
<1>7. f \in FindsAt(t, p)
  BY <1>2, <1>5, <1>6, FindsAre
<1> QED
  BY <1>7 DEF t

-----------------------------------------------------------------------------
(* What does not change while the walk goes on.                            *)

\* What is reached in a tree does not depend on how far the walk is.
LEMMA ReachedSame ==
  ASSUME world' = world, wd' = wd, NEW t, NEW root
  PROVE  Reached(t, root)' = Reached(t, root)
  BY DEF Reached, isExcluded, excluded

\* Nor does what is due.
LEMMA DueSame ==
  ASSUME world' = world, wd' = wd, NEW t, NEW root, NEW p
  PROVE  Due(t, root, p)' <=> Due(t, root, p)
  BY DEF Due, isExcluded, excluded

\* A list that is obeyed stays obeyed.
LEMMA ObeyedSame ==
  ASSUME DOMAIN gitignores \subseteq DOMAIN gitignores', NEW t, NEW dir, ObeyedBy(t, dir)
  PROVE  ObeyedBy(t, dir)'
  BY DEF ObeyedBy

\* Where an item was found stays true.
LEMMA FoundFromSame ==
  ASSUME world' = world, wd' = wd, project' = project, tree = world.tree \/ tree' = tree,
         NEW item, NEW root, FoundFrom(item, root)
  PROVE  FoundFrom(item, root)'
PROOF
<1>1. PICK t \in {world.tree, tree} :
        \E p \in Reached(t, root) : <<item.abs, item.kind>> \in FindsAt(t, p) /\ InScope(root, item.abs)
  BY DEF FoundFrom
<1>2. t \in {world'.tree, tree'}
  OBVIOUS
<1>3. PICK p \in Reached(t, root) : <<item.abs, item.kind>> \in FindsAt(t, p) /\ InScope(root, item.abs)
  BY <1>1
<1>4. InScope(root, item.abs)'
  BY <1>3 DEF InScope, InProject
<1>5. p \in Reached(t, root)'
  BY <1>3, ReachedSame
<1> QED
  BY <1>2, <1>3, <1>4, <1>5 DEF FoundFrom

\* So does how an entry came onto the agenda.
LEMMA LedSame ==
  ASSUME world' = world, wd' = wd, tree' = tree, DOMAIN gitignores \subseteq DOMAIN gitignores',
         NEW e, NEW root, Led(e, root)
  PROVE  Led(e, root)'
PROOF
<1>1. CASE e.type = "root" /\ e.path = root
  BY <1>1 DEF Led
<1>2. CASE /\ e.type = "listing" /\ e.path \in DOMAIN world.tree /\ world.tree[e.path].type = "dir"
           /\ e.path \in Reached(world.tree, root) \cup Reached(tree, root)
           /\ ObeyedBy(tree, e.path)
  <2>1. e.path \in (Reached(world.tree, root) \cup Reached(tree, root))'
    BY <1>2, ReachedSame
  <2>2. ObeyedBy(tree, e.path)'
    BY <1>2, ObeyedSame
  <2> QED
    BY <1>2, <2>1, <2>2 DEF Led
<1>3. CASE /\ e.type \notin {"root", "listing"}
           /\ e.path \in DOMAIN world.tree /\ e.type = world.tree[e.path].type
           /\ \E t \in {world.tree, tree} :
                Due(t, root, e.path) /\ (e.path # root => ObeyedBy(t, Parent(e.path)))
  <2>1. PICK t \in {world.tree, tree} :
          Due(t, root, e.path) /\ (e.path # root => ObeyedBy(t, Parent(e.path)))
    BY <1>3
  <2>2. t \in {world'.tree, tree'}
    OBVIOUS
  <2>3. Due(t, root, e.path)'
    BY <2>1, DueSame
  <2>4. e.path # root => ObeyedBy(t, Parent(e.path))'
    BY <2>1, ObeyedSame
  <2> QED
    BY <1>3, <2>2, <2>3, <2>4 DEF Led
<1> QED
  BY <1>1, <1>2, <1>3 DEF Led

-----------------------------------------------------------------------------
(* The state of the walk.                                                  *)

\* The three trees: what is left, the first, and the full one.
LEMMA TreesAre ==
  ASSUME RootInv
  PROVE  /\ IsTree(tree) /\ IsTree(world.tree) /\ IsTree(Full)
         /\ Remains(tree, world.tree) /\ Within(tree, world.tree) /\ Within(world.tree, Full)
         /\ DOMAIN Full = DOMAIN world.tree
         /\ \A p \in DOMAIN tree : p \in DOMAIN world.tree /\ tree[p] = world.tree[p]
         /\ \A p \in DOMAIN world.tree :
              Full[p].type = world.tree[p].type /\ Full[p].grants = {"list", "enter", "read"}
PROOF
<1>1. IsTree(tree) /\ IsTree(world.tree) /\ Remains(tree, world.tree)
  BY TreeRemains DEF RootInv
<1> QED
  BY <1>1, RemainsWithin, GrantedWithin DEF Full, Remains

\* A root that is walked was there, and is no link.
LEMMA RootIs ==
  ASSUME RootInv, RootsTaken, NEW i \in DOMAIN walked
  PROVE  /\ walked[i] \in DOMAIN world.tree /\ walked[i] \in Seq(Name)
         /\ Seen(world.tree, walked[i]) /\ world.tree[walked[i]].type # "link"
         /\ Way(world.tree, walked[i])
  BY TreesAre, ResolvedStays DEF RootsTaken

\* The root that is being walked is the last one.
LEMMA LastIs ==
  ASSUME RootInv, walked # <<>>
  PROVE  /\ Len(walked) \in DOMAIN walked /\ Last(walked) = walked[Len(walked)]
         /\ DOMAIN walked = 1 .. Len(walked) /\ Len(walked) \in Nat
PROOF
<1>1. walked \in Seq(Seq(Name))
  BY DEF RootInv
<1> QED
  BY <1>1, EmptySeq, LenProperties DEF Last

\* A path that is left is behind directories that are left.
LEMMA WayLeft ==
  ASSUME RootInv, TreeClosed, NEW p \in DOMAIN tree, Way(world.tree, p)
  PROVE  Way(tree, p)
PROOF
<1>1. p \in Seq(Name)
  BY TreesAre DEF IsTree
<1>2. ASSUME NEW k \in 0 .. Len(p) - 1
      PROVE  Upto(p, k) \in DOMAIN tree /\ tree[Upto(p, k)].type = "dir"
  <2>1. Upto(p, k) \in DOMAIN world.tree /\ world.tree[Upto(p, k)].type = "dir"
    BY DEF Way
  <2>2. k \in 0 .. Len(p)
    BY <1>1
  <2>3. IsPrefix(Upto(p, k), p)
    BY <1>1, <2>2, UptoIs
  <2>4. Upto(p, k) \in DOMAIN tree
    BY <2>1, <2>3 DEF TreeClosed
  <2> QED
    BY <2>1, <2>4, TreesAre
<1> QED
  BY <1>2 DEF Way

\* On the way from a root to what is reached, all are directories.
LEMMA OnTheWay ==
  ASSUME RootInv, RootsTaken, TreeClosed, NEW i \in DOMAIN walked, NEW t \in {world.tree, tree, Full}, NEW p,
         p \in Reached(t, walked[i]) \/ Due(t, walked[i], p)
  PROVE  /\ p \in DOMAIN t /\ p \in DOMAIN world.tree /\ p \in Seq(Name) /\ IsPrefix(walked[i], p)
         /\ Way(world.tree, p) /\ Way(t, p)
PROOF
<1> DEFINE r == walked[i]
<1>1. /\ p \in DOMAIN t /\ IsPrefix(r, p)
      /\ \A k \in Len(r) .. Len(p) - 1 : Upto(p, k) \in DOMAIN t /\ t[Upto(p, k)].type = "dir"
  BY DEF Reached, Due
<1>2. \A q \in DOMAIN t : q \in DOMAIN world.tree /\ t[q].type = world.tree[q].type
  BY TreesAre
<1>3. p \in DOMAIN world.tree /\ p \in Seq(Name) /\ r \in Seq(Name) /\ Way(world.tree, r)
  BY <1>1, <1>2, TreesAre, RootIs DEF IsTree
<1> HIDE DEF r
<1>4. DOMAIN world.tree \subseteq Seq(Name)
  BY TreesAre DEF IsTree
<1>5. Way(world.tree, p)
  BY <1>1, <1>2, <1>3, <1>4, ReachedWay
<1>6. Way(t, p)
  <2>1. CASE t = tree
    BY <1>1, <1>5, <2>1, WayLeft
  <2>2. CASE t # tree
    <3>1. DOMAIN t = DOMAIN world.tree
      BY <2>2, TreesAre
    <3> QED
      BY <1>2, <1>5, <3>1 DEF Way
  <2> QED
    BY <2>1, <2>2
<1> QED
  BY <1>1, <1>3, <1>5, <1>6 DEF r

-----------------------------------------------------------------------------
(* Exclusion: the list a directory had, or none.                           *)

\* What the walk goes by in a directory.
ListOf(dir) == IF dir \in DOMAIN gitignores THEN gitignores[dir] ELSE <<>>

\* Pass, by that list.
LEMMA PassIs ==
  ASSUME NEW isDir
  PROVE  Pass(isDir) <=> isExcluded(ListOf(Parent(Here)), Last(walked), Here, isDir)
  BY DEF Pass, ListOf

\* What it excludes, the lists of the first tree and of the full one exclude.
LEMMA ExcludedThen ==
  ASSUME RootInv, ListsKept, NEW t \in {world.tree, Full}, NEW dir \in Seq(Name),
         NEW root, NEW p, NEW isDir, isExcluded(ListOf(dir), root, p, isDir)
  PROVE  isExcluded(GitignoreOf(t, dir), root, p, isDir) /\ p # root
PROOF
<1>1. ListOf(dir) = <<>> \/ ListOf(dir) = GitignoreOf(t, dir)
  <2> SUFFICES ASSUME ListOf(dir) # <<>> PROVE ListOf(dir) = GitignoreOf(t, dir)
    OBVIOUS
  <2>1. ListOf(dir) = GitignoreOf(world.tree, dir)
    BY DEF ListOf, ListsKept
  <2>2. GitignoreOf(Full, dir) = GitignoreOf(world.tree, dir)
    BY <2>1, TreesAre, ListWithin
  <2> QED
    BY <2>1, <2>2
<1> HIDE DEF ListOf
<1> QED
  BY <1>1, ExcludedMore

\* What it does not exclude, the list it was taken from does not, and the
\* list that is left does not.
LEMMA KeptThen ==
  ASSUME RootInv, ListsKept, NEW t \in {world.tree, tree}, NEW dir \in Seq(Name), ObeyedBy(t, dir),
         NEW root, NEW p, NEW isDir, ~isExcluded(ListOf(dir), root, p, isDir)
  PROVE  ~isExcluded(GitignoreOf(t, dir), root, p, isDir)
PROOF
<1>1. GitignoreOf(t, dir) = <<>> \/ GitignoreOf(t, dir) = ListOf(dir)
  <2> SUFFICES ASSUME GitignoreOf(t, dir) # <<>> PROVE GitignoreOf(t, dir) = ListOf(dir)
    OBVIOUS
  <2>1. ListOf(dir) = GitignoreOf(world.tree, dir)
    BY DEF ListOf, ListsKept, ObeyedBy
  <2>2. GitignoreOf(tree, dir) = <<>> \/ GitignoreOf(tree, dir) = GitignoreOf(world.tree, dir)
    BY TreesAre, ListWithin
  <2> QED
    BY <2>1, <2>2
<1> HIDE DEF ListOf
<1> QED
  BY <1>1, ExcludedMore

\* An entry that is visited and not excluded is reached.
LEMMA VisitReached ==
  ASSUME RootInv, RootsTaken, TreeClosed, ListsKept, NEW i \in DOMAIN walked, NEW e,
         Led(e, walked[i]), e.type \notin {"root", "listing"},
         ~isExcluded(ListOf(Parent(e.path)), walked[i], e.path, e.type = "dir")
  PROVE  /\ e.path \in DOMAIN world.tree /\ e.type = world.tree[e.path].type
         /\ e.path \in Seq(Name) /\ Way(world.tree, e.path)
         /\ e.path \in Reached(world.tree, walked[i]) \cup Reached(tree, walked[i])
PROOF
<1> DEFINE r == walked[i]
           p == e.path
<1>1. p \in DOMAIN world.tree /\ e.type = world.tree[p].type
  BY DEF Led
<1>2. PICK t \in {world.tree, tree} : Due(t, r, p) /\ (p # r => ObeyedBy(t, Parent(p)))
  BY DEF Led
<1>3. /\ p \in DOMAIN t /\ p \in Seq(Name) /\ Way(world.tree, p)
      /\ DOMAIN t \subseteq Seq(Name) /\ r \in Seq(Name) /\ Parent(p) \in Seq(Name)
      /\ t[p].type = e.type
  <2>1. p \in DOMAIN t /\ p \in Seq(Name) /\ Way(world.tree, p)
    BY <1>2, OnTheWay
  <2>2. DOMAIN t \subseteq Seq(Name) /\ r \in Seq(Name) /\ Parent(p) \in Seq(Name)
    BY <2>1, TreesAre, RootIs, ParentIs DEF IsTree
  <2>3. t[p] = world.tree[p]
    BY <2>1, TreesAre
  <2> QED
    BY <1>1, <2>1, <2>2, <2>3
<1>4. ~isExcluded(ListOf(Parent(p)), r, p, e.type = "dir")
  OBVIOUS
<1> HIDE DEF r, p
<1>5. p # r => ~isExcluded(GitignoreOf(t, Parent(p)), r, p, t[p].type = "dir")
  BY <1>2, <1>3, <1>4, KeptThen
<1>6. p \in Reached(t, r)
  BY <1>2, <1>3, <1>5, DueReached
<1> QED
  BY <1>1, <1>3, <1>6 DEF r, p

-----------------------------------------------------------------------------
(* The agenda and the items, as sets.                                      *)

\* What waits is the entry at hand and the rest.
LEMMA RangeRest ==
  ASSUME NEW S, NEW a \in Seq(S), a # <<>>
  PROVE  /\ Head(a) \in Range(a)
         /\ Range(Tail(a)) \subseteq Range(a) /\ Range(a) \subseteq Range(Tail(a)) \cup {Head(a)}
PROOF
<1>1. /\ Len(a) \in Nat \ {0} /\ DOMAIN a = 1 .. Len(a) /\ Head(a) = a[1]
      /\ Tail(a) \in Seq(S) /\ Len(Tail(a)) = Len(a) - 1
      /\ \A k \in 1 .. Len(Tail(a)) : Tail(a)[k] = a[k + 1]
  BY EmptySeq, HeadTailProperties, LenProperties
<1>2. DOMAIN Tail(a) = 1 .. Len(a) - 1
  BY <1>1, LenProperties
<1>3. Head(a) \in Range(a)
  BY <1>1 DEF Range
<1>4. ASSUME NEW k \in DOMAIN Tail(a) PROVE Tail(a)[k] \in Range(a)
  <2>1. k + 1 \in DOMAIN a /\ Tail(a)[k] = a[k + 1]
    BY <1>1, <1>2
  <2> QED
    BY <2>1 DEF Range
<1>5. ASSUME NEW k \in DOMAIN a PROVE a[k] = Head(a) \/ a[k] \in Range(Tail(a))
  <2>1. CASE k = 1
    BY <1>1, <2>1
  <2>2. CASE k # 1
    <3>1. k - 1 \in DOMAIN Tail(a) /\ Tail(a)[k - 1] = a[k]
      BY <1>1, <1>2, <2>2
    <3> QED
      BY <3>1 DEF Range
  <2> QED
    BY <2>1, <2>2
<1> QED
  BY <1>3, <1>4, <1>5 DEF Range

\* What waits in two parts.
LEMMA RangeBoth ==
  ASSUME NEW S, NEW a \in Seq(S), NEW b \in Seq(S)
  PROVE  Range(a \o b) = Range(a) \cup Range(b)
PROOF
<1>1. /\ DOMAIN a = 1 .. Len(a) /\ DOMAIN b = 1 .. Len(b) /\ Len(a) \in Nat /\ Len(b) \in Nat
      /\ a \o b \in Seq(S) /\ Len(a \o b) = Len(a) + Len(b)
      /\ DOMAIN (a \o b) = 1 .. Len(a) + Len(b)
      /\ \A k \in 1 .. Len(a) + Len(b) : (a \o b)[k] = IF k <= Len(a) THEN a[k] ELSE b[k - Len(a)]
  BY ConcatProperties, LenProperties
<1> DEFINE c == a \o b
<1>2. \A k \in DOMAIN a : k \in DOMAIN c /\ c[k] = a[k]
  BY <1>1
<1>3. \A k \in DOMAIN b : k + Len(a) \in DOMAIN c /\ c[k + Len(a)] = b[k]
  BY <1>1
<1>4. \A k \in DOMAIN c : (k \in DOMAIN a /\ c[k] = a[k]) \/ (k - Len(a) \in DOMAIN b /\ c[k] = b[k - Len(a)])
  BY <1>1
<1> HIDE DEF c
<1>5. Range(c) = Range(a) \cup Range(b)
  BY <1>2, <1>3, <1>4 DEF Range
<1> QED
  BY <1>5 DEF c

\* What waits behind one more entry.
LEMMA RangeCons ==
  ASSUME NEW S, NEW a \in Seq(S), NEW e \in S
  PROVE  Range(<<e>> \o a) = {e} \cup Range(a)
PROOF
<1>1. <<e>> \in Seq(S)
  OBVIOUS
<1>2. Range(<<e>>) = {e}
  BY DEF Range
<1>3. \A b \in Seq(S) : Range(b \o a) = Range(b) \cup Range(a)
  BY RangeBoth
<1> QED
  BY <1>1, <1>2, <1>3

\* Found, by the items.
LEMMA FoundIs == Found = {<<item.abs, item.kind>> : item \in Range(items)}
  BY DEF Found, Range

\* Every item is a directory, as a role, or a file, of the kind it has.
LEMMA ItemsTyped ==
  ASSUME RootInv, RootsTaken, TreeClosed, ItemsLed, NEW item \in Range(items)
  PROVE  IsFind(world.tree, <<item.abs, item.kind>>)
PROOF
<1>1. PICK i \in DOMAIN walked : FoundFrom(item, walked[i])
  BY DEF ItemsLed
<1>2. PICK t \in {world.tree, tree} :
        \E p \in Reached(t, walked[i]) : <<item.abs, item.kind>> \in FindsAt(t, p)
  BY <1>1 DEF FoundFrom
<1>3. PICK p \in Reached(t, walked[i]) : <<item.abs, item.kind>> \in FindsAt(t, p)
  BY <1>2
<1>4. p \in DOMAIN t /\ Way(t, p) /\ IsTree(t)
  BY OnTheWay, TreesAre
<1>5. IsFind(t, <<item.abs, item.kind>>)
  BY <1>3, <1>4, FindsTyped
<1>6. \A q \in DOMAIN t : q \in DOMAIN world.tree /\ t[q] = world.tree[q]
  BY TreesAre
<1> QED
  BY <1>5, <1>6 DEF IsFind

\* add: what is in scope is found from now on, and nothing else is.
LEMMA AddFinds ==
  ASSUME RootInv, IInv, RootsTaken, TreeClosed, ItemsLed, NEW abs, NEW kind, NEW size,
         IsFind(world.tree, <<abs, kind>>), items' = Add(abs, kind, size)
  PROVE  /\ Found \subseteq Found'
         /\ InScope(Last(walked), abs) => <<abs, kind>> \in Found'
         /\ \A item \in Range(items') :
              \/ item \in Range(items)
              \/ item.abs = abs /\ item.kind = kind /\ InScope(Last(walked), abs)
PROOF
<1>1. CASE items' = items
  <2>1. Found' = Found
    BY <1>1 DEF Found
  <2>2. ASSUME InScope(Last(walked), abs) PROVE <<abs, kind>> \in Found
    <3>1. \E i \in DOMAIN items : items[i].abs = abs
      <4> SUFFICES ASSUME \A i \in DOMAIN items : items[i].abs # abs PROVE FALSE
        OBVIOUS
      <4>1. items' = Append(items, Item(abs, kind, size))
        BY <2>2 DEF Add, InScope
      <4>2. DOMAIN Append(items, Item(abs, kind, size)) # DOMAIN items
        BY AppendKeeps DEF IInv
      <4> QED
        BY <1>1, <4>1, <4>2
    <3>2. PICK i \in DOMAIN items : items[i].abs = abs
      BY <3>1
    <3> DEFINE item == items[i]
               f == <<item.abs, item.kind>>
               g == <<abs, kind>>
    <3>3. item \in Range(items) /\ item.abs = abs
      BY <3>2 DEF Range
    <3> HIDE DEF item
    <3>4. IsFind(world.tree, f) /\ IsFind(world.tree, g) /\ f[1] = g[1]
      BY <3>3, ItemsTyped
    <3>5. f \in Found
      BY <3>3, FoundIs
    <3> HIDE DEF f, g
    <3>6. f = g
      BY <3>4, FindOne
    <3> QED
      BY <3>5, <3>6 DEF g
  <2> QED
    BY <1>1, <2>1, <2>2
<1>2. CASE /\ items' = Append(items, Item(abs, kind, size))
           /\ InScope(Last(walked), abs)
  <2> DEFINE n == Len(items)
             new == Item(abs, kind, size)
  <2>1. /\ n \in Nat /\ DOMAIN items = 1 .. n /\ DOMAIN items' = 1 .. n + 1
        /\ \A i \in DOMAIN items : items'[i] = items[i]
        /\ items'[n + 1] = new
    BY <1>2, AppendKeeps DEF IInv
  <2>2. new.abs = abs /\ new.kind = kind
    BY DEF Item
  <2> HIDE DEF n, new
  <2>3. Found \subseteq Found'
    BY <2>1 DEF Found
  <2>4. <<abs, kind>> \in Found'
    <3>1. n + 1 \in DOMAIN items'
      BY <2>1
    <3> QED
      BY <2>1, <2>2, <3>1 DEF Found
  <2>5. ASSUME NEW item \in Range(items')
        PROVE  item \in Range(items) \/ (item.abs = abs /\ item.kind = kind)
    <3>1. PICK i \in DOMAIN items' : item = items'[i]
      BY DEF Range
    <3>2. CASE i = n + 1
      BY <2>1, <2>2, <3>1, <3>2
    <3>3. CASE i # n + 1
      <4>1. i \in DOMAIN items /\ item = items[i]
        BY <2>1, <3>1, <3>3
      <4> QED
        BY <4>1 DEF Range
    <3> QED
      BY <3>2, <3>3
  <2> QED
    BY <1>2, <2>3, <2>4, <2>5
<1> QED
  BY <1>1, <1>2 DEF Add, InScope

-----------------------------------------------------------------------------
(* The steps of the walk.                                                  *)

\* What is found stays found, and with it all that was handled.
LEMMA HandledStays ==
  ASSUME world' = world, tree' = tree, project' = project, Found \subseteq Found',
         NEW o, NEW root, NEW p, Handled(o, root, p)
  PROVE  Handled(o, root, p)'
  BY DEF Handled, InScope, InProject

\* Who owes less than before, owed it before.
LEMMA OwedBefore ==
  ASSUME world' = world, tree' = tree, soft \in Nat, soft' \in Nat, soft <= soft', NEW o, Owed(o)'
  PROVE  Owed(o)
  BY DEF Owed, Full, LinksOpen

\* A step keeps the invariant when what it puts on the agenda and what it
\* finds have led there, and nothing that was waiting is lost.
LEMMA WalkKeeps ==
  ASSUME RootInv, WalkInv, soft \in Nat, soft' \in Nat, soft <= soft',
         world' = world, wd' = wd, project' = project, tree' = tree, walked' = walked,
         RootsTaken', InTurn',
         ListsKept', DOMAIN gitignores \subseteq DOMAIN gitignores', Found \subseteq Found',
         \A e \in Range(agenda') : e \in Range(agenda) \/ Led(e, Last(walked))',
         \A item \in Range(items') :
           item \in Range(items) \/ \E i \in DOMAIN walked : FoundFrom(item, walked[i]),
         \A o \in {world.tree, Full} : Owed(o) /\ Owed(o)' =>
           \A p \in Reached(o, Last(walked)) \cap DOMAIN tree :
             Pending(p) => Handled(o, Last(walked), p)' \/ Pending(p)'
  PROVE  WalkInv'
PROOF
<1>1. TreeClosed'
  BY DEF WalkInv, TreeClosed
<1>2. AgendaLed'
  <2>1. \A e \in Range(agenda) : Led(e, Last(walked))
    BY DEF WalkInv, AgendaLed
  <2>2. \A e \in Range(agenda) : Led(e, Last(walked))'
    BY <2>1, LedSame
  <2>3. Last(walked)' = Last(walked)
    OBVIOUS
  <2> QED
    BY <2>2, <2>3 DEF AgendaLed
<1>3. ItemsLed'
  <2>1. \A item \in Range(items') : \E i \in DOMAIN walked : FoundFrom(item, walked[i])
    BY DEF WalkInv, ItemsLed
  <2>2. \A item \in Range(items') : \E i \in DOMAIN walked : FoundFrom(item, walked[i])'
    BY <2>1, FoundFromSame
  <2> QED
    BY <2>2 DEF ItemsLed
<1>4. Covered'
  <2> SUFFICES ASSUME NEW o \in {world.tree, Full}, Owed(o)', NEW i \in DOMAIN walked,
                      NEW p \in Reached(o, walked[i]), p \in DOMAIN tree
               PROVE  Handled(o, walked[i], p)' \/ (i = Len(walked) /\ Pending(p)')
    <3>1. \A o, i : Reached(o, walked[i])' = Reached(o, walked[i])
      BY ReachedSame
    <3>2. Full' = Full
      BY DEF Full
    <3> QED
      BY <3>1, <3>2 DEF Covered
  <2>1. Owed(o)
    BY OwedBefore
  <2>2. Handled(o, walked[i], p) \/ (i = Len(walked) /\ Pending(p))
    BY <2>1 DEF WalkInv, Covered
  <2>3. CASE Handled(o, walked[i], p)
    BY <2>3, HandledStays
  <2>4. CASE i = Len(walked) /\ Pending(p)
    <3>1. Last(walked) = walked[i]
      BY <2>4 DEF Last
    <3> QED
      BY <2>1, <2>4, <3>1
  <2> QED
    BY <2>2, <2>3, <2>4
<1> QED
  BY <1>1, <1>2, <1>3, <1>4 DEF WalkInv

\* The entry at hand.
LEMMA HeadIs ==
  ASSUME RootInv, IInv, TypeInv, WalkInv, agenda # <<>>
  PROVE  /\ walked # <<>> /\ Len(walked) \in DOMAIN walked /\ Last(walked) = walked[Len(walked)]
         /\ Head(agenda) \in Range(agenda) /\ Led(Head(agenda), Last(walked))
         /\ Here = Head(agenda).path /\ Here \in Seq(Name) /\ Parent(Here) \in Seq(Name)
         /\ Range(Tail(agenda)) \subseteq Range(agenda)
         /\ Range(agenda) \subseteq Range(Tail(agenda)) \cup {Head(agenda)}
PROOF
<1>1. walked # <<>> /\ agenda \in Seq(EntrySet) /\ Here = Head(agenda).path /\ Here \in Seq(Name)
  BY AgendaIs DEF IInv, TypeInv
<1>2. /\ Head(agenda) \in Range(agenda) /\ Range(Tail(agenda)) \subseteq Range(agenda)
      /\ Range(agenda) \subseteq Range(Tail(agenda)) \cup {Head(agenda)}
  BY <1>1, RangeRest
<1>3. Parent(Here) \in Seq(Name)
  BY <1>1, ParentIs
<1> QED
  BY <1>1, <1>2, <1>3, LastIs DEF WalkInv, AgendaLed

\* A path on the way to one that is reached is a directory and not excluded.
LEMMA AboveReached ==
  ASSUME RootInv, WalkInv, NEW i \in DOMAIN walked, NEW o \in {world.tree, Full},
         NEW q \in Reached(o, walked[i]), NEW p \in Seq(Name), IsPrefix(walked[i], p), IsPrefix(p, q)
  PROVE  /\ p \in DOMAIN world.tree
         /\ p # q => world.tree[p].type = "dir" /\ Listable(o, p)
         /\ p # walked[i] =>
              ~isExcluded(GitignoreOf(o, Parent(p)), walked[i], p, world.tree[p].type = "dir")
PROOF
<1> DEFINE r == walked[i]
<1>1. q \in Seq(Name) /\ q \in DOMAIN world.tree /\ r \in Seq(Name)
  BY OnTheWay, RootIs DEF WalkInv
<1>2. Len(p) \in 0 .. Len(q) /\ p = Upto(q, Len(p)) /\ Len(q) \in Nat /\ Upto(q, Len(q)) = q
  BY <1>1, PrefixUpto, UptoAll
<1>3. Len(r) \in 0 .. Len(p) /\ r = Upto(p, Len(r)) /\ Len(p) \in Nat /\ Upto(p, Len(p)) = p
  BY <1>1, PrefixUpto, UptoAll
<1>4. q \in Reached(o, r)
  OBVIOUS
<1>5. \A x \in DOMAIN world.tree : o[x].type = world.tree[x].type
  BY TreesAre
<1>6. DOMAIN o = DOMAIN world.tree
  BY TreesAre
<1> HIDE DEF r
<1>7. p \in DOMAIN world.tree /\ (p # q => world.tree[p].type = "dir" /\ Listable(o, p))
  <2>1. CASE Len(p) = Len(q)
    BY <1>1, <1>2, <2>1
  <2>2. CASE Len(p) # Len(q)
    <3>1. Len(p) \in Len(r) .. Len(q) - 1
      BY <1>2, <1>3, <2>2
    <3> QED
      BY <1>2, <1>4, <1>5, <1>6, <3>1 DEF Reached
  <2> QED
    BY <2>1, <2>2
<1>8. ASSUME p # r PROVE ~isExcluded(GitignoreOf(o, Parent(p)), r, p, world.tree[p].type = "dir")
  <2>1. Len(p) # Len(r)
    BY <1>3, <1>8
  <2>2. Len(p) \in Len(r) + 1 .. Len(q) /\ Len(p) - 1 \in 0 .. Len(p) /\ p # <<>>
    BY <1>2, <1>3, <2>1, EmptySeq
  <2>3. Parent(p) = Upto(p, Len(p) - 1)
    BY <2>2, ParentUpto
  <2>4. Upto(Upto(q, Len(p)), Len(p) - 1) = Upto(q, Len(p) - 1)
    BY <1>1, <1>2, <2>2, UptoUpto
  <2>5. Parent(p) = Upto(q, Len(p) - 1)
    BY <1>2, <2>3, <2>4
  <2> QED
    BY <1>2, <1>4, <1>5, <1>7, <2>2, <2>5 DEF Reached
<1> QED
  BY <1>7, <1>8 DEF r

\* The entry at hand is not below another file.
LEMMA WaitsElsewhere ==
  ASSUME RootInv, IInv, TypeInv, WalkInv, agenda # <<>>, NEW p, Pending(p),
         \A e \in Range(Tail(agenda)) : e \in Range(agenda'), ~Pending(p)'
  PROVE  IsPrefix(Here, p) /\ (Head(agenda).type = "listing" => Here # p)
PROOF
<1>1. PICK e \in Range(agenda) : IsPrefix(e.path, p) /\ (e.type = "listing" => e.path # p)
  BY DEF Pending
<1>2. e = Head(agenda)
  BY <1>1, HeadIs DEF Pending
<1> QED
  BY <1>1, <1>2, HeadIs

\* No root waits while an entry is visited.
LEMMA TurnKept ==
  ASSUME RootInv, IInv, TypeInv, WalkInv, agenda # <<>>, Head(agenda).type # "root",
         status = "walking", status' = status, world' = world, walked' = walked, todo' = todo,
         \A e \in Range(agenda') : e \in Range(agenda) \/ e.type # "root"
  PROVE  RootsTaken' /\ InTurn'
PROOF
<1>1. RootsTaken'
  BY DEF WalkInv, RootsTaken
<1>2. \A e \in Range(agenda') : e.type # "root"
  <2> SUFFICES ASSUME NEW e \in Range(agenda), e.type = "root" PROVE FALSE
    OBVIOUS
  <2>1. Range(agenda) = {e}
    BY DEF WalkInv, InTurn
  <2>2. Head(agenda) \in Range(agenda)
    BY HeadIs
  <2> QED
    BY <2>1, <2>2
<1>3. InTurn'
  BY <1>2 DEF InTurn
<1> QED
  BY <1>1, <1>3

\* An excluded entry takes along only what is excluded.
LEMMA ExcludedKeeps ==
  ASSUME RootInv, IInv, TypeInv, WalkInv, VisitExcluded
  PROVE  WalkInv'
PROOF
<1> USE DEF found, setting
<1> DEFINE e == Head(agenda)
           r == Last(walked)
<1>1. /\ agenda # <<>> /\ status = "walking" /\ agenda' = Tail(agenda)
      /\ UNCHANGED <<world, wd, project, tree, todo, walked, gitignores, items, soft, status>>
      /\ e.type \in {"dir", "file", "link", "device"} /\ Pass(e.type = "dir")
  BY DEF VisitExcluded, AtFile, At
<1>2. /\ walked # <<>> /\ Len(walked) \in DOMAIN walked /\ r = walked[Len(walked)]
      /\ Led(e, r) /\ Here = e.path /\ Here \in Seq(Name) /\ Parent(Here) \in Seq(Name)
      /\ Range(Tail(agenda)) \subseteq Range(agenda)
  BY <1>1, HeadIs
<1>3. isExcluded(ListOf(Parent(Here)), r, Here, e.type = "dir")
  BY <1>1, PassIs
<1> HIDE DEF Here
<1>4. e.type = world.tree[Here].type /\ IsPrefix(r, Here)
  <2>1. \E t \in {world.tree, tree} : Due(t, r, Here)
    BY <1>1, <1>2 DEF Led
  <2> QED
    BY <1>1, <1>2, <2>1 DEF Led, Due
<1> HIDE DEF e, r
<1>5. ASSUME NEW o \in {world.tree, Full}, NEW p \in Reached(o, r), Pending(p)
      PROVE  Pending(p)'
  <2> SUFFICES ASSUME ~Pending(p)' PROVE FALSE
    OBVIOUS
  <2>1. IsPrefix(Here, p)
    BY <1>1, <1>5, WaitsElsewhere
  <2>2. Here # r => ~isExcluded(GitignoreOf(o, Parent(Here)), r, Here, e.type = "dir")
    BY <1>2, <1>4, <2>1, AboveReached
  <2> QED
    BY <1>2, <1>3, <2>2, ExcludedThen DEF WalkInv
<1>6. soft \in Nat /\ Found' = Found
  BY <1>1 DEF TypeInv, Found
<1>7. ListsKept'
  BY <1>1 DEF WalkInv, ListsKept
<1>8. RootsTaken' /\ InTurn'
  <2>1. \A x \in Range(agenda') : x \in Range(agenda)
    BY <1>1, <1>2
  <2> QED
    BY <1>1, <2>1, TurnKept DEF e
<1> QED
  BY <1>1, <1>2, <1>5, <1>6, <1>7, <1>8, WalkKeeps DEF r

-----------------------------------------------------------------------------
(* A directory of the first tree, looked at when it may be gone.           *)

\* What may be asked of it without being there is nothing.
LEMMA DirAsked ==
  ASSUME RootInv, NEW p \in DOMAIN world.tree, world.tree[p].type = "dir", Way(world.tree, p)
  PROVE  /\ p \in Seq(Name) /\ p \in Seq(AnyName)
         /\ LinksTo(tree, p) = {}
         /\ Stat(tree, p) = IF Seen(tree, p) THEN {tree[p]} ELSE {}
PROOF
<1>1. p \in Seq(Name) /\ p \in Seq(AnyName) /\ Len(p) \in Nat
  BY TreesAre, NameIs DEF IsTree
<1>2. ASSUME NEW k \in 1 .. Len(p), Upto(p, k) \in DOMAIN tree PROVE tree[Upto(p, k)].type = "dir"
  <2>1. CASE k = Len(p)
    <3>1. Upto(p, k) = p
      BY <1>1, <2>1, UptoAll
    <3> QED
      BY <1>2, <3>1, TreesAre
  <2>2. CASE k # Len(p)
    <3>1. k \in 0 .. Len(p) - 1
      BY <1>1, <2>2
    <3> QED
      BY <1>2, <3>1, TreesAre DEF Way
  <2> QED
    BY <2>1, <2>2
<1>3. LinksTo(tree, p) = {}
  BY <1>2 DEF LinksTo, Seen
<1>4. p \in DOMAIN tree => tree[p].type # "link"
  BY TreesAre
<1>5. Seen(tree, p) => tree[p].type # "link"
  BY <1>4 DEF Seen
<1> QED
  BY <1>1, <1>3, <1>5, TreesAre, NoLinks

\* A directory that can still be listed is reached in what is left.
LEMMA ListableReached ==
  ASSUME RootInv, WalkInv, NEW i \in DOMAIN walked, NEW p \in DOMAIN world.tree,
         world.tree[p].type = "dir",
         p \in Reached(world.tree, walked[i]) \cup Reached(tree, walked[i]),
         Listable(tree, p) \/ p \in DOMAIN tree
  PROVE  p \in Reached(tree, walked[i]) /\ p \in DOMAIN tree /\ tree[p].type = "dir"
PROOF
<1>1. Way(world.tree, p)
  BY OnTheWay DEF WalkInv
<1>2. p \in DOMAIN tree
  <2>1. CASE Listable(tree, p)
    <3>1. Seen(tree, p)
      BY <1>1, <2>1, DirAsked DEF Listable
    <3> QED
      BY <3>1 DEF Seen
  <2> QED
    BY <2>1
<1>3. Way(tree, p) /\ tree[p].type = "dir"
  BY <1>1, <1>2, WayLeft, TreesAre DEF WalkInv
<1>4. walked[i] \in Seq(Name) /\ Way(world.tree, walked[i])
  BY RootIs DEF WalkInv
<1>5. p \in Reached(tree, walked[i])
  <2>1. CASE p \in Reached(tree, walked[i])
    BY <2>1
  <2>2. CASE p \in Reached(world.tree, walked[i])
    BY <1>2, <1>3, <1>4, <2>2, TreesAre, ReachedRemains
  <2> QED
    BY <2>1, <2>2
<1> QED
  BY <1>2, <1>3, <1>5

\* A directory that is left can be listed as before.
LEMMA ListableLeft ==
  ASSUME RootInv, WalkInv, NEW p \in DOMAIN tree, world.tree[p].type = "dir",
         Way(world.tree, p), Listable(world.tree, p)
  PROVE  Listable(tree, p)
PROOF
<1>1. p \in DOMAIN world.tree /\ p \in Seq(AnyName) /\ tree[p] = world.tree[p]
  BY TreesAre, NameIs DEF IsTree
<1>2. Stat(world.tree, p) = IF Seen(world.tree, p) THEN {world.tree[p]} ELSE {}
  BY <1>1, TreesAre, Straight
<1>3. Seen(world.tree, p) /\ Stat(world.tree, p) = {world.tree[p]}
  BY <1>2 DEF Listable
<1>4. Seen(tree, p)
  BY <1>3, WayLeft, TreesAre, SeenBack DEF WalkInv
<1>5. Stat(tree, p) = {tree[p]}
  BY <1>1, <1>4, DirAsked
<1> QED
  BY <1>1, <1>3, <1>5 DEF Listable

\* A directory with a directory in it is there.
LEMMA RoleLeft ==
  ASSUME RootInv, WalkInv, NEW p \in DOMAIN world.tree, world.tree[p].type = "dir",
         Way(world.tree, p), isRoleDir(tree, p)
  PROVE  p \in DOMAIN tree
PROOF
<1>1. PICK name \in roleSubdirsStrict : IsType(tree, Append(p, name), "dir")
  BY DEF isRoleDir, HasDir
<1> DEFINE x == Append(p, name)
<1>2. p \in Seq(AnyName) /\ name \in AnyName /\ p \in Seq(Name) /\ LinksTo(tree, p) = {}
  BY DirAsked, StrictMarkers
<1>3. /\ x \in Seq(AnyName) /\ Len(x) = Len(p) + 1 /\ Len(p) \in Nat
      /\ \A k \in 0 .. Len(p) : Upto(x, k) = Upto(p, k)
      /\ Upto(x, Len(p)) = p /\ Upto(x, Len(p) + 1) = x
  BY <1>2, ChildIs
<1>4. PICK q \in EvalSymlinks(tree, x) : TRUE
  BY <1>1 DEF IsType, Stat
<1> HIDE DEF x
<1>5. Seen(tree, x)
  <2> SUFFICES ASSUME ~Seen(tree, x) PROVE FALSE
    OBVIOUS
  <2>1. LinksTo(tree, x) = {}
    <3> SUFFICES ASSUME NEW k \in LinksTo(tree, x) PROVE FALSE
      OBVIOUS
    <3>1. k \in 1 .. Len(p) + 1 /\ Seen(tree, Upto(x, k)) /\ tree[Upto(x, k)].type = "link"
      BY <1>3 DEF LinksTo
    <3>2. k # Len(p) + 1
      BY <1>3, <3>1
    <3>3. k \in 1 .. Len(p) /\ Upto(x, k) = Upto(p, k)
      BY <1>3, <3>1, <3>2
    <3>4. k \in LinksTo(tree, p)
      BY <3>1, <3>3 DEF LinksTo
    <3> QED
      BY <1>2, <3>4
  <2>2. EvalSymlinks(tree, x) = {}
    BY <1>3, <2>1, TreesAre, NoLinks
  <2> QED
    BY <1>4, <2>2
<1>6. Len(p) \in 0 .. Len(x) - 1
  BY <1>3
<1> QED
  BY <1>3, <1>5, <1>6 DEF Seen, Entered

-----------------------------------------------------------------------------
(* The steps of a walk.                                                    *)

\* WalkDir's own look at the root: it was there, and is unless it vanished.
LEMMA EnterRootKeeps ==
  ASSUME RootInv, IInv, TypeInv, WalkInv, EnterRoot
  PROVE  WalkInv'
PROOF
<1> USE DEF found, setting
<1> DEFINE r == Last(walked)
<1>1. /\ agenda # <<>> /\ status = "walking" /\ Head(agenda).type = "root"
      /\ UNCHANGED <<world, wd, project, tree, todo, walked, gitignores, items, status>>
  BY DEF EnterRoot, At
<1>2. /\ walked # <<>> /\ Len(walked) \in DOMAIN walked /\ r = walked[Len(walked)]
      /\ Led(Head(agenda), r) /\ Here = Head(agenda).path /\ Head(agenda) \in Range(agenda)
  BY <1>1, HeadIs
<1>3. Here = r /\ Range(agenda) = {Head(agenda)}
  BY <1>1, <1>2 DEF Led, WalkInv, InTurn
<1>4. /\ r \in DOMAIN world.tree /\ r \in Seq(Name) /\ Seen(world.tree, r)
      /\ world.tree[r].type \in {"dir", "file", "device"} /\ Way(world.tree, r)
  BY <1>2, RootIs, TreesAre DEF WalkInv, IsTree
<1>5. soft \in Nat /\ Found' = Found /\ ListsKept'
  BY <1>1 DEF TypeInv, Found, WalkInv, ListsKept
<1>6. RootsTaken'
  BY <1>1 DEF WalkInv, RootsTaken
<1> HIDE DEF r
<1>7. CASE Seen(tree, Here)
  <2> PICK x : x = Entry(Here, tree[Here].type, {tree[Here].size})
    OBVIOUS
  <2>1. agenda' = <<x>> /\ soft' = soft
    BY <1>7 DEF EnterRoot
  <2>2. x.path = r /\ x.type = world.tree[r].type
    <3>1. r \in DOMAIN tree
      BY <1>3, <1>7 DEF Seen
    <3>2. tree[r] = world.tree[r]
      BY <3>1, TreesAre
    <3> QED
      BY <1>3, <3>2 DEF Entry
  <2>3. Range(agenda') = {x}
    BY <2>1 DEF Range
  <2>4. Led(x, r)
    <3>1. Due(world.tree, r, r)
      BY <1>4, RootDue
    <3> QED
      BY <1>4, <2>2, <3>1 DEF Led
  <2>5. Led(x, Last(walked))'
    <3>1. Led(x, Last(walked))
      BY <2>4 DEF r
    <3> QED
      BY <1>1, <3>1, LedSame
  <2>6. InTurn'
    BY <1>1, <1>4, <2>2, <2>3 DEF InTurn
  <2>7. ASSUME NEW p, Pending(p) PROVE Pending(p)'
    <3>1. IsPrefix(r, p)
      BY <1>2, <1>3, <2>7 DEF Pending
    <3> QED
      BY <1>4, <2>2, <2>3, <3>1 DEF Pending
  <2>8. \A e \in Range(agenda') : Led(e, Last(walked))'
    BY <2>3, <2>5
  <2> QED
    BY <1>1, <1>5, <1>6, <2>1, <2>6, <2>7, <2>8, WalkKeeps
<1>8. CASE ~Seen(tree, Here)
  <2>1. agenda' = <<>> /\ soft' = soft + 1
    BY <1>8 DEF EnterRoot
  <2>2. Range(agenda') = {}
    BY <2>1 DEF Range
  <2>3. InTurn'
    BY <1>1, <2>2 DEF InTurn
  <2>4. ASSUME NEW o, Owed(o)', NEW p \in Reached(o, r), p \in DOMAIN tree PROVE FALSE
    <3>1. o = world.tree
      BY <1>1, <1>5, <2>1, <2>4 DEF Owed
    <3>2. IsPrefix(r, p)
      BY <2>4 DEF Reached
    <3>3. r \in DOMAIN tree
      BY <1>4, <2>4, <3>2 DEF WalkInv, TreeClosed
    <3>4. Seen(tree, r)
      BY <1>4, <3>3, WayLeft, TreesAre, SeenBack DEF WalkInv
    <3> QED
      BY <1>3, <1>8, <3>4
  <2> QED
    BY <1>1, <1>5, <1>6, <2>1, <2>2, <2>3, <2>4, WalkKeeps DEF r
<1> QED
  BY <1>7, <1>8

\* The entries of a directory are what is left in it.
LEMMA EntriesLeft ==
  ASSUME RootInv, NEW dir \in Seq(Name)
  PROVE  /\ \A e \in Range(Entries(tree, dir)) :
              \E n \in Name : /\ Append(dir, n) \in DOMAIN tree
                              /\ e.path = Append(dir, n) /\ e.type = tree[Append(dir, n)].type
         /\ \A n \in Name : Append(dir, n) \in DOMAIN tree =>
              \E e \in Range(Entries(tree, dir)) :
                e.path = Append(dir, n) /\ e.type = tree[Append(dir, n)].type
PROOF
<1> DEFINE S == {i \in DOMAIN Names : Append(dir, Names[i]) \in DOMAIN tree}
           names == Listing(tree, dir)
           es == Entries(tree, dir)
           entry(n) == Entry(Append(dir, n), tree[Append(dir, n)].type, {})
<1>1. Names \in Seq(Name)
  BY FileTreeAssumption DEF FileTreeAssumption, Name
<1>2. names = Keep(Names, S)
  BY DEF Listing
<1>3. Range(names) = {Names[i] : i \in S \cap DOMAIN Names}
  <2> HIDE DEF S, names
  <2> QED
    BY <1>1, <1>2, KeepRange
<1>4. \A n : n \in Range(names) <=> n \in Name /\ Append(dir, n) \in DOMAIN tree
  BY <1>3 DEF Name
<1> HIDE DEF names
<1>5. DOMAIN es = DOMAIN names /\ \A i \in DOMAIN names : es[i] = entry(names[i])
  BY DEF Entries, names
<1>6. \A n : entry(n).path = Append(dir, n) /\ entry(n).type = tree[Append(dir, n)].type
  BY DEF Entry
<1> HIDE DEF es, entry
<1>7. ASSUME NEW e \in Range(es)
      PROVE  \E n \in Name : /\ Append(dir, n) \in DOMAIN tree
                             /\ e.path = Append(dir, n) /\ e.type = tree[Append(dir, n)].type
  <2>1. PICK i \in DOMAIN names : e = entry(names[i])
    BY <1>5 DEF Range
  <2>2. names[i] \in Range(names)
    BY DEF Range
  <2> QED
    BY <1>4, <1>6, <2>1, <2>2
<1>8. ASSUME NEW n \in Name, Append(dir, n) \in DOMAIN tree
      PROVE  \E e \in Range(es) : e.path = Append(dir, n) /\ e.type = tree[Append(dir, n)].type
  <2>1. n \in Range(names)
    BY <1>4, <1>8
  <2>2. PICK i \in DOMAIN names : n = names[i]
    BY <2>1 DEF Range
  <2>3. entry(n) \in Range(es)
    BY <1>5, <2>2 DEF Range
  <2> QED
    BY <1>6, <2>3
<1> QED
  BY <1>7, <1>8 DEF es

\* The next step down from a directory to what is left below it.
LEMMA ChildLeft ==
  ASSUME RootInv, WalkInv, NEW i \in DOMAIN walked, NEW o \in {world.tree, Full},
         NEW q \in Reached(o, walked[i]), q \in DOMAIN tree,
         NEW p \in Seq(Name), IsPrefix(walked[i], p), IsPrefix(p, q), p # q
  PROVE  \E n \in Name : Append(p, n) \in DOMAIN tree /\ IsPrefix(Append(p, n), q)
PROOF
<1>1. q \in Seq(Name) /\ walked[i] \in Seq(Name)
  BY OnTheWay, RootIs DEF WalkInv
<1>2. Len(p) \in 0 .. Len(q) /\ p = Upto(q, Len(p)) /\ Len(q) \in Nat /\ Upto(q, Len(q)) = q
  BY <1>1, PrefixUpto, UptoAll
<1>3. Len(p) \in 0 .. Len(q) - 1
  <2>1. Len(p) # Len(q)
    BY <1>2
  <2> QED
    BY <1>2, <2>1
<1> DEFINE n == q[Len(p) + 1]
           c == Upto(q, Len(p) + 1)
<1>4. Len(p) + 1 \in 0 .. Len(q) /\ n \in Name /\ c = Append(p, n)
  BY <1>1, <1>2, <1>3, UptoNext
<1>5. c \in Seq(Name) /\ IsPrefix(c, q)
  BY <1>1, <1>4, UptoIs
<1>6. IsPrefix(p, c)
  BY <1>4, ChildIs
<1> HIDE DEF n, c
<1>7. IsPrefix(walked[i], c)
  BY <1>1, <1>5, <1>6, PrefixTrans
<1>8. c \in DOMAIN world.tree
  BY <1>5, <1>7, AboveReached
<1>9. c \in DOMAIN tree
  BY <1>5, <1>8 DEF WalkInv, TreeClosed
<1> QED
  BY <1>4, <1>5, <1>9

\* WalkDir lists a directory, or the failure to is counted.
LEMMA ListDirKeeps ==
  ASSUME RootInv, IInv, TypeInv, WalkInv, ListDir
  PROVE  WalkInv'
PROOF
<1> USE DEF found, setting
<1>1. /\ agenda # <<>> /\ status = "walking" /\ Head(agenda).type = "listing"
      /\ UNCHANGED <<world, wd, project, tree, todo, walked, gitignores, items, status>>
  BY DEF ListDir, At
<1> PICK r : r = Last(walked)
  OBVIOUS
<1> PICK d : d = Here
  OBVIOUS
<1>2. /\ walked # <<>> /\ Len(walked) \in DOMAIN walked /\ r = walked[Len(walked)]
      /\ Led(Head(agenda), r) /\ d = Head(agenda).path /\ Head(agenda) \in Range(agenda)
      /\ Range(Tail(agenda)) \subseteq Range(agenda) /\ d \in Seq(Name)
  BY <1>1, HeadIs
<1>3. /\ d \in DOMAIN world.tree /\ world.tree[d].type = "dir" /\ ObeyedBy(tree, d)
      /\ d \in Reached(world.tree, r) \cup Reached(tree, r)
  BY <1>1, <1>2 DEF Led
<1>4. Way(world.tree, d) /\ IsPrefix(r, d) /\ r \in Seq(Name)
  BY <1>2, <1>3, OnTheWay, RootIs DEF WalkInv
<1>5. soft \in Nat /\ Found' = Found /\ ListsKept'
  BY <1>1 DEF TypeInv, Found, WalkInv, ListsKept
<1>6. agenda \in Seq(EntrySet) /\ Tail(agenda) \in Seq(EntrySet)
  BY <1>1, AgendaIs DEF TypeInv
<1>7. CASE Listable(tree, d)
  <2> PICK es : es = Entries(tree, d)
    OBVIOUS
  <2>1. agenda' = es \o Tail(agenda) /\ soft' = soft
    BY <1>7 DEF ListDir
  <2>2. es \in Seq(EntrySet)
    BY <1>2, EntriesAre
  <2>3. Range(agenda') = Range(es) \cup Range(Tail(agenda))
    <3>1. Range(es \o Tail(agenda)) = Range(es) \cup Range(Tail(agenda))
      BY <1>6, <2>2, RangeBoth
    <3> QED
      BY <2>1, <3>1
  <2>4. d \in Reached(tree, r) /\ d \in DOMAIN tree /\ tree[d].type = "dir"
    BY <1>2, <1>3, <1>7, ListableReached
  <2>5. ASSUME NEW e \in Range(es) PROVE Led(e, r) /\ e.type \notin {"root", "listing"}
    <3>1. PICK n \in Name : /\ Append(d, n) \in DOMAIN tree
                            /\ e.path = Append(d, n) /\ e.type = tree[Append(d, n)].type
      BY <1>2, EntriesLeft
    <3> DEFINE c == Append(d, n)
    <3>2. Due(tree, r, c)
      BY <1>4, <1>7, <2>4, <3>1, ChildDue, TreesAre DEF IsTree
    <3>3. Parent(c) = d
      BY <1>2, ChildIs
    <3>4. c \in DOMAIN world.tree /\ tree[c] = world.tree[c] /\ tree[c].type \in {"dir", "file", "link", "device"}
      BY <3>1, TreesAre DEF IsTree
    <3> HIDE DEF c
    <3>5. e.path = c /\ e.type = world.tree[c].type /\ e.type \notin {"root", "listing"}
      BY <3>1, <3>4 DEF c
    <3> QED
      BY <1>3, <3>2, <3>3, <3>4, <3>5 DEF Led
  <2>6. \A e \in Range(agenda') : e \in Range(agenda) \/ e.type # "root"
    BY <1>2, <2>3, <2>5
  <2>7. RootsTaken' /\ InTurn'
    BY <1>1, <2>6, TurnKept
  <2>8. \A e \in Range(agenda') : e \in Range(agenda) \/ Led(e, Last(walked))'
    <3>1. \A e \in Range(es) : Led(e, Last(walked))
      BY <2>5
    <3>2. \A e \in Range(es) : Led(e, Last(walked))'
      BY <1>1, <3>1, LedSame
    <3> QED
      BY <1>2, <2>3, <3>2
  <2>9. ASSUME NEW o \in {world.tree, Full}, NEW p \in Reached(o, Last(walked)), p \in DOMAIN tree, Pending(p)
        PROVE  Pending(p)'
    <3> SUFFICES ASSUME ~Pending(p)' PROVE FALSE
      OBVIOUS
    <3>1. IsPrefix(d, p) /\ d # p
      BY <1>1, <2>3, <2>9, WaitsElsewhere
    <3>2. PICK n \in Name : Append(d, n) \in DOMAIN tree /\ IsPrefix(Append(d, n), p)
      BY <1>2, <1>4, <2>9, <3>1, ChildLeft
    <3>3. PICK e \in Range(es) : e.path = Append(d, n) /\ e.type = tree[Append(d, n)].type
      BY <1>2, <3>2, EntriesLeft
    <3>4. e \in Range(agenda') /\ e.type # "listing"
      BY <2>3, <2>5
    <3> QED
      BY <3>2, <3>3, <3>4 DEF Pending
  <2> QED
    BY <1>1, <1>5, <2>1, <2>7, <2>8, <2>9, WalkKeeps
<1>8. CASE ~Listable(tree, d)
  <2>1. agenda' = Tail(agenda) /\ soft' = soft + 1
    BY <1>8 DEF ListDir
  <2>2. \A e \in Range(agenda') : e \in Range(agenda)
    BY <1>2, <2>1
  <2>3. RootsTaken' /\ InTurn'
    BY <1>1, <2>2, TurnKept
  <2>4. ASSUME NEW o, Owed(o)', NEW p \in Reached(o, Last(walked)), p \in DOMAIN tree, Pending(p)
        PROVE  Pending(p)'
    <3> SUFFICES ASSUME ~Pending(p)' PROVE FALSE
      OBVIOUS
    <3>1. o = world.tree
      BY <1>1, <1>5, <2>1, <2>4 DEF Owed
    <3>2. IsPrefix(d, p) /\ d # p
      BY <1>1, <2>1, <2>4, WaitsElsewhere
    <3>3. Listable(world.tree, d)
      BY <1>2, <1>4, <2>4, <3>1, <3>2, AboveReached
    <3>4. d \in DOMAIN tree
      BY <1>3, <2>4, <3>2 DEF WalkInv, TreeClosed
    <3> QED
      BY <1>3, <1>4, <1>8, <3>3, <3>4, ListableLeft
  <2> QED
    BY <1>1, <1>5, <2>1, <2>2, <2>3, <2>4, WalkKeeps
<1> QED
  BY <1>7, <1>8

\* The list that a directory adds is the one it had, and no list is dropped.
LEMMA CompiledKeeps ==
  ASSUME RootInv, WalkInv, NEW d \in Seq(Name),
         world' = world, gitignores' = Compiled(GitignoreOf(tree, d), d)
  PROVE  /\ ListsKept' /\ DOMAIN gitignores \subseteq DOMAIN gitignores'
         /\ GitignoreOf(tree, d) = <<>> \/ d \in DOMAIN gitignores'
PROOF
<1> PICK spec : spec = GitignoreOf(tree, d)
  OBVIOUS
<1>1. spec = <<>> \/ spec = GitignoreOf(world.tree, d)
  BY TreesAre, ListWithin
<1>2. CASE spec = <<>>
  <2>1. gitignores' = gitignores
    BY <1>2 DEF Compiled
  <2> QED
    BY <1>2, <2>1 DEF WalkInv, ListsKept
<1>3. CASE spec # <<>>
  <2>1. gitignores' = [x \in DOMAIN gitignores \cup {d} |-> IF x = d THEN spec ELSE gitignores[x]]
    BY <1>3 DEF Compiled
  <2>2. DOMAIN gitignores' = DOMAIN gitignores \cup {d}
    BY <2>1
  <2>3. \A x \in DOMAIN gitignores' : gitignores'[x] = IF x = d THEN spec ELSE gitignores[x]
    BY <2>1
  <2>4. \A x \in DOMAIN gitignores' : gitignores'[x] = GitignoreOf(world.tree, x) /\ gitignores'[x] # <<>>
    BY <1>1, <1>3, <2>2, <2>3 DEF WalkInv, ListsKept
  <2>5. ListsKept'
    BY <2>4 DEF ListsKept
  <2> QED
    BY <2>2, <2>5
<1> QED
  BY <1>2, <1>3

\* visitDir: the list is compiled, a role is found, the entries come next.
LEMMA VisitDirKeeps ==
  ASSUME RootInv, IInv, TypeInv, WalkInv, VisitDir
  PROVE  WalkInv'
PROOF
<1> USE DEF found, setting
<1>1. /\ agenda # <<>> /\ status = "walking" /\ Head(agenda).type = "dir" /\ ~Pass(TRUE)
      /\ UNCHANGED <<world, wd, project, tree, todo, walked, status>>
      /\ gitignores' = Compiled(GitignoreOf(tree, Here), Here)
      /\ items' = (IF isRoleDir(tree, Here) THEN Add(Here, "role", 0) ELSE items)
      /\ agenda' = <<Entry(Here, "listing", {})>> \o Tail(agenda)
      /\ soft' = soft + (IF GitignoreFails(tree, Here) THEN 1 ELSE 0)
  BY DEF VisitDir, At
<1> PICK r : r = Last(walked)
  OBVIOUS
<1> PICK d : d = Here
  OBVIOUS
<1>2. /\ walked # <<>> /\ Len(walked) \in DOMAIN walked /\ r = walked[Len(walked)]
      /\ Led(Head(agenda), r) /\ d = Head(agenda).path
      /\ Range(Tail(agenda)) \subseteq Range(agenda) /\ d \in Seq(Name)
  BY <1>1, HeadIs
<1>3. ~isExcluded(ListOf(Parent(d)), r, d, TRUE)
  BY <1>1, PassIs
<1>4. /\ d \in DOMAIN world.tree /\ world.tree[d].type = "dir" /\ Way(world.tree, d)
      /\ d \in Reached(world.tree, r) \cup Reached(tree, r)
  BY <1>1, <1>2, <1>3, VisitReached DEF WalkInv
<1>5. soft \in Nat /\ soft' \in Nat /\ soft <= soft' /\ (soft' = 0 => ~GitignoreFails(tree, d))
  BY <1>1 DEF TypeInv
<1>6. /\ ListsKept' /\ DOMAIN gitignores \subseteq DOMAIN gitignores'
      /\ GitignoreOf(tree, d) = <<>> \/ d \in DOMAIN gitignores'
  BY <1>1, <1>2, CompiledKeeps
<1> PICK x : x = Entry(d, "listing", {})
  OBVIOUS
<1>7. x.path = d /\ x.type = "listing"
  BY DEF Entry
<1>8. Range(agenda') = {x} \cup Range(Tail(agenda))
  <2>1. Tail(agenda) \in Seq(EntrySet)
    BY <1>1, AgendaIs
  <2>2. x \in EntrySet
    BY <1>2, <1>4 DEF EntrySet, EntryType, Entry
  <2> QED
    BY <1>1, <2>1, <2>2, RangeCons
<1>9. Led(x, Last(walked))'
  <2>1. d \in (Reached(world.tree, r) \cup Reached(tree, r))'
    BY <1>1, <1>4, ReachedSame
  <2>2. ObeyedBy(tree, d)'
    BY <1>1, <1>6 DEF ObeyedBy
  <2>3. Last(walked)' = r /\ r' = r
    BY <1>1
  <2> QED
    BY <1>1, <1>4, <1>7, <2>1, <2>2, <2>3 DEF Led
<1>10. RootsTaken' /\ InTurn'
  <2>1. \A e \in Range(agenda') : e \in Range(agenda) \/ e.type # "root"
    BY <1>2, <1>7, <1>8
  <2> QED
    BY <1>1, <2>1, TurnKept
<1> PICK f : f = <<d, "role">>
  OBVIOUS
<1>11. IsFind(world.tree, f) /\ f[1] = d
  BY <1>4 DEF IsFind
<1>12. ASSUME isRoleDir(tree, d)
       PROVE  d \in Reached(tree, r) /\ f \in FindsAt(tree, d)
  <2>1. d \in DOMAIN tree
    BY <1>4, <1>12, RoleLeft
  <2>2. d \in Reached(tree, r) /\ tree[d].type = "dir"
    BY <1>2, <1>4, <2>1, ListableReached
  <2> QED
    BY <1>12, <2>2, FindsAre
<1>13. /\ Found \subseteq Found'
       /\ isRoleDir(tree, d) /\ InScope(r, d) => f \in Found'
       /\ \A item \in Range(items') :
            item \in Range(items) \/ \E i \in DOMAIN walked : FoundFrom(item, walked[i])
  <2>1. CASE isRoleDir(tree, d)
    <3>1. items' = Add(d, "role", 0)
      BY <1>1, <2>1
    <3>2. /\ Found \subseteq Found' /\ (InScope(Last(walked), d) => f \in Found')
          /\ \A item \in Range(items') :
               \/ item \in Range(items)
               \/ item.abs = d /\ item.kind = "role" /\ InScope(Last(walked), d)
      BY <1>11, <3>1, AddFinds DEF WalkInv
    <3>3. ASSUME NEW item, item.abs = d, item.kind = "role", InScope(r, d)
          PROVE  FoundFrom(item, r)
      <4>1. <<item.abs, item.kind>> = f
        BY <3>3
      <4> QED
        BY <1>12, <2>1, <3>3, <4>1 DEF FoundFrom
    <3> QED
      BY <1>2, <3>2, <3>3
  <2>2. CASE ~isRoleDir(tree, d)
    <3>1. items' = items
      BY <1>1, <2>2
    <3> QED
      BY <2>2, <3>1 DEF Found
  <2> QED
    BY <2>1, <2>2
<1>14. ASSUME NEW o \in {world.tree, Full}, Owed(o), Owed(o)',
              NEW p \in Reached(o, r), p \in DOMAIN tree, Pending(p)
       PROVE  Handled(o, r, p)' \/ Pending(p)'
  <2> SUFFICES ASSUME ~Pending(p)' PROVE Handled(o, r, p)'
    OBVIOUS
  <2>1. p = d
    <3>1. IsPrefix(d, p)
      BY <1>1, <1>8, <1>14, WaitsElsewhere
    <3> QED
      BY <1>7, <1>8, <3>1 DEF Pending
  <2>2. ASSUME NEW g \in FindsAt(o, d), InScope(r, g[1]), tree # world.tree => g \in FindsAt(tree, d)
        PROVE  g \in Found'
    <3>1. d \in DOMAIN tree /\ tree[d].type = "dir" /\ o[d].type = "dir"
      BY <1>4, <1>14, <2>1, TreesAre
    <3>2. g = f /\ isRoleDir(o, d)
      BY <2>2, <3>1, FindsAre
    <3>3. isRoleDir(tree, d)
      <4>1. CASE tree # world.tree
        BY <2>2, <3>1, <4>1, FindsAre
      <4>2. CASE tree = world.tree /\ o = world.tree
        BY <3>2, <4>2
      <4>3. CASE tree = world.tree /\ o # world.tree
        <5>1. o = Full /\ LinksOpen /\ soft' = 0
          BY <1>1, <1>14, <4>3 DEF Owed
        <5> QED
          BY <1>4, <1>5, <3>2, <4>3, <5>1, FullRole, TreesAre
      <4> QED
        BY <4>1, <4>2, <4>3
    <3> QED
      BY <1>11, <1>13, <2>2, <3>2, <3>3
  <2>3. \A g \in FindsAt(o, d) :
          InScope(r, g[1]) /\ (tree # world.tree => g \in FindsAt(tree, d)) => g \in Found'
    BY <2>2
  <2>4. \A a : InScope(r, a)' <=> InScope(r, a)
    BY <1>1 DEF InScope, InProject
  <2> QED
    BY <1>1, <2>1, <2>3, <2>4 DEF Handled
<1>15. \A e \in Range(agenda') : e \in Range(agenda) \/ Led(e, Last(walked))'
  BY <1>2, <1>8, <1>9
<1>16. \A o \in {world.tree, Full} : Owed(o) /\ Owed(o)' =>
         \A p \in Reached(o, Last(walked)) \cap DOMAIN tree :
           Pending(p) => Handled(o, Last(walked), p)' \/ Pending(p)'
  <2>1. Last(walked)' = r /\ r' = r
    BY <1>1
  <2> QED
    BY <1>14, <2>1
<1> QED
  BY <1>1, <1>5, <1>6, <1>10, <1>13, <1>15, <1>16, WalkKeeps

\* add, for what an entry of the agenda stands for.
LEMMA FileFinds ==
  ASSUME RootInv, IInv, WalkInv, NEW i, IsFind(world.tree, <<i.abs, i.kind>>),
         items' = Add(i.abs, i.kind, i.size)
  PROVE  /\ Found \subseteq Found'
         /\ InScope(Last(walked), i.abs) => <<i.abs, i.kind>> \in Found'
         /\ \A item \in Range(items') :
              \/ item \in Range(items)
              \/ item.abs = i.abs /\ item.kind = i.kind /\ InScope(Last(walked), i.abs)
PROOF
<1> DEFINE Adds(abs, kind) ==
             /\ Found \subseteq Found'
             /\ InScope(Last(walked), abs) => <<abs, kind>> \in Found'
             /\ \A item \in Range(items') :
                  \/ item \in Range(items)
                  \/ item.abs = abs /\ item.kind = kind /\ InScope(Last(walked), abs)
<1>1. ASSUME NEW abs, NEW kind, NEW size, IsFind(world.tree, <<abs, kind>>), items' = Add(abs, kind, size)
      PROVE  Adds(abs, kind)
  BY <1>1, AddFinds DEF WalkInv
<1> HIDE DEF Adds
<1>2. Adds(i.abs, i.kind)
  BY <1>1
<1> QED
  BY <1>2 DEF Adds

\* visit, for anything but a directory: what it stands for is found.
LEMMA VisitFileKeeps ==
  ASSUME RootInv, IInv, TypeInv, WalkInv, VisitFile
  PROVE  WalkInv'
PROOF
<1> USE DEF found, setting
<1> PICK e : e = Head(agenda)
  OBVIOUS
<1> PICK L : L = Lintable(tree, e)
  OBVIOUS
<1>1. /\ agenda # <<>> /\ status = "walking" /\ ~Pass(FALSE)
      /\ e.type \in {"file", "link", "device"}
      /\ UNCHANGED <<world, wd, project, tree, todo, walked, gitignores, soft, status>>
      /\ agenda' = Tail(agenda)
      /\ items' = (IF L = {} THEN items
                   ELSE LET i == CHOOSE i \in L : TRUE IN Add(i.abs, i.kind, i.size))
  BY DEF VisitFile, AtFile, At
<1> PICK r : r = Last(walked)
  OBVIOUS
<1> PICK p : p = Here
  OBVIOUS
<1>2. /\ walked # <<>> /\ Len(walked) \in DOMAIN walked /\ r = walked[Len(walked)]
      /\ Led(e, r) /\ p = e.path
      /\ Range(Tail(agenda)) \subseteq Range(agenda) /\ p \in Seq(Name)
  BY <1>1, HeadIs
<1>3. ~isExcluded(ListOf(Parent(p)), r, p, FALSE)
  BY <1>1, PassIs
<1>4. /\ p \in DOMAIN world.tree /\ e.type = world.tree[p].type /\ Way(world.tree, p)
      /\ p \in Reached(world.tree, r) \cup Reached(tree, r)
  BY <1>1, <1>2, <1>3, VisitReached DEF WalkInv
<1>5. world.tree[p].type # "dir"
  BY <1>1, <1>4
<1>6. soft \in Nat /\ ListsKept'
  BY <1>1 DEF TypeInv, WalkInv, ListsKept
<1>7. RootsTaken' /\ InTurn'
  BY <1>1, <1>2, TurnKept
<1>8. \A i \in L : StandsFor(tree, e.type, p, i.abs) /\ i.kind \in KindOf(i.abs)
  BY <1>2, LintableFor
<1>9. \A abs : \A kind \in KindOf(abs) :
        StandsFor(tree, e.type, p, abs) => \E i \in L : i.abs = abs /\ i.kind = kind
  BY <1>2, LintableFor
<1>10. ASSUME NEW i \in L
       PROVE  /\ <<i.abs, i.kind>> \in FindsAt(world.tree, p) /\ IsFind(world.tree, <<i.abs, i.kind>>)
              /\ p \in DOMAIN tree => <<i.abs, i.kind>> \in FindsAt(tree, p)
  <2>1. StandsFor(tree, e.type, p, i.abs) /\ i.kind \in KindOf(i.abs)
    BY <1>8
  <2>2. StandsFor(world.tree, e.type, p, i.abs)
    BY <1>2, <2>1, TreesAre, StandsWithin
  <2>3. <<i.abs, i.kind>> \in FindsAt(world.tree, p)
    BY <1>4, <1>5, <2>1, <2>2, FindsAre
  <2>4. IsFind(world.tree, <<i.abs, i.kind>>)
    BY <1>4, <2>3, TreesAre, FindsTyped
  <2>5. ASSUME p \in DOMAIN tree PROVE <<i.abs, i.kind>> \in FindsAt(tree, p)
    <3>1. tree[p] = world.tree[p]
      BY <2>5, TreesAre
    <3> QED
      BY <1>4, <1>5, <2>1, <3>1, FindsAre
  <2> QED
    BY <2>3, <2>4, <2>5
<1>11. ASSUME NEW i \in L, NEW item, item.abs = i.abs, item.kind = i.kind, InScope(r, i.abs)
       PROVE  FoundFrom(item, r)
  <2> PICK f : f = <<i.abs, i.kind>>
    OBVIOUS
  <2>1. f = <<item.abs, item.kind>> /\ InScope(r, item.abs)
    BY <1>11
  <2>2. CASE p \in Reached(world.tree, r)
    <3>1. f \in FindsAt(world.tree, p)
      BY <1>10
    <3> QED
      BY <2>1, <2>2, <3>1 DEF FoundFrom
  <2>3. CASE p \in Reached(tree, r)
    <3>1. p \in DOMAIN tree
      BY <2>3 DEF Reached
    <3>2. f \in FindsAt(tree, p)
      BY <1>10, <3>1
    <3> QED
      BY <2>1, <2>3, <3>2 DEF FoundFrom
  <2> QED
    BY <1>4, <2>2, <2>3
<1>12. /\ Found \subseteq Found'
       /\ \A i \in L : InScope(r, i.abs) => <<i.abs, i.kind>> \in Found'
       /\ \A item \in Range(items') :
            item \in Range(items) \/ \E i \in DOMAIN walked : FoundFrom(item, walked[i])
  <2>1. CASE L = {}
    <3>1. items' = items
      BY <1>1, <2>1
    <3> QED
      BY <2>1, <3>1 DEF Found
  <2>2. CASE L # {}
    <3> PICK i : i = CHOOSE any \in L : TRUE
      OBVIOUS
    <3>1. i \in L /\ items' = Add(i.abs, i.kind, i.size)
      BY <1>1, <2>2
    <3>2. IsFind(world.tree, <<i.abs, i.kind>>)
      BY <1>10, <3>1
    <3>3. /\ Found \subseteq Found' /\ (InScope(Last(walked), i.abs) => <<i.abs, i.kind>> \in Found')
          /\ \A item \in Range(items') :
               \/ item \in Range(items)
               \/ item.abs = i.abs /\ item.kind = i.kind /\ InScope(Last(walked), i.abs)
      BY <3>1, <3>2, FileFinds
    <3>4. \A item : item.abs = i.abs /\ item.kind = i.kind /\ InScope(r, i.abs) => FoundFrom(item, r)
      BY <1>11, <3>1
    <3>5. ASSUME NEW j \in L PROVE j.abs = i.abs /\ j.kind = i.kind
      <4>1. StandsFor(tree, e.type, p, i.abs) /\ StandsFor(tree, e.type, p, j.abs)
        BY <1>8, <3>1
      <4>2. i.abs = j.abs
        BY <4>1, StandsOne, TreesAre
      <4>3. i.kind \in KindOf(i.abs) /\ j.kind \in KindOf(i.abs)
        BY <1>8, <3>1, <4>2
      <4> QED
        BY <4>2, <4>3, KindOne
    <3>6. \A j \in L : InScope(r, j.abs) => <<j.abs, j.kind>> \in Found'
      BY <3>3, <3>5
    <3>7. \A item \in Range(items') :
            item \in Range(items) \/ \E k \in DOMAIN walked : FoundFrom(item, walked[k])
      BY <1>2, <3>3, <3>4
    <3> QED
      BY <3>3, <3>6, <3>7
  <2> QED
    BY <2>1, <2>2
<1>13. ASSUME NEW o \in {world.tree, Full}, Owed(o),
              NEW q \in Reached(o, r), q \in DOMAIN tree, Pending(q)
       PROVE  Handled(o, r, q)' \/ Pending(q)'
  <2> SUFFICES ASSUME ~Pending(q)' PROVE Handled(o, r, q)'
    OBVIOUS
  <2>1. IsPrefix(p, q)
    BY <1>1, <1>13, WaitsElsewhere
  <2>2. IsPrefix(r, p)
    BY <1>2, <1>4, OnTheWay DEF WalkInv
  <2>3. p = q
    BY <1>2, <1>5, <1>13, <2>1, <2>2, AboveReached
  <2>4. ASSUME NEW g \in FindsAt(o, p), InScope(r, g[1]), tree # world.tree => g \in FindsAt(tree, p)
        PROVE  g \in Found'
    <3>1. tree[p] = world.tree[p]
      BY <1>13, <2>3, TreesAre
    <3>2. g \in FindsAt(tree, p)
      <4>1. CASE tree # world.tree
        BY <2>4, <4>1
      <4>2. CASE tree = world.tree /\ o = world.tree
        BY <2>4, <4>2
      <4>3. CASE tree = world.tree /\ o # world.tree
        <5>1. o = Full /\ LinksOpen
          BY <1>13, <4>3 DEF Owed
        <5> QED
          BY <1>4, <1>5, <2>4, <4>3, <5>1, FullFinds, TreesAre
      <4> QED
        BY <4>1, <4>2, <4>3
    <3>3. PICK abs : \E kind \in KindOf(abs) : g = <<abs, kind>> /\ StandsFor(tree, e.type, p, abs)
      BY <1>4, <1>5, <3>1, <3>2, FindsAre
    <3>4. PICK kind \in KindOf(abs) : g = <<abs, kind>> /\ StandsFor(tree, e.type, p, abs)
      BY <3>3
    <3>5. PICK i \in L : i.abs = abs /\ i.kind = kind
      BY <1>9, <3>4
    <3> QED
      BY <1>12, <2>4, <3>4, <3>5
  <2>5. \A g \in FindsAt(o, p) :
          InScope(r, g[1]) /\ (tree # world.tree => g \in FindsAt(tree, p)) => g \in Found'
    BY <2>4
  <2>6. \A a : InScope(r, a)' <=> InScope(r, a)
    BY <1>1 DEF InScope, InProject
  <2> QED
    BY <1>1, <2>3, <2>5, <2>6 DEF Handled
<1>14. \A x \in Range(agenda') : x \in Range(agenda) \/ Led(x, Last(walked))'
  BY <1>1, <1>2
<1>15. \A o \in {world.tree, Full} : Owed(o) /\ Owed(o)' =>
         \A q \in Reached(o, Last(walked)) \cap DOMAIN tree :
           Pending(q) => Handled(o, Last(walked), q)' \/ Pending(q)'
  <2>1. Last(walked)' = r /\ r' = r
    BY <1>1
  <2> QED
    BY <1>13, <2>1
<1> QED
  BY <1>1, <1>6, <1>7, <1>12, <1>14, <1>15, WalkKeeps

-----------------------------------------------------------------------------
(* The steps between two roots, and what vanishes.                         *)

\* Before the walk nothing waits and nothing is found.
LEMMA InitWalkInv == Init => WalkInv
PROOF
<1> SUFFICES ASSUME Init PROVE WalkInv
  OBVIOUS
<1>1. /\ tree = world.tree /\ todo = world.roots /\ walked = <<>> /\ status = "start"
      /\ agenda = <<>> /\ gitignores = <<>> /\ items = <<>> /\ world \in World
  BY DEF Init
<1>2. Range(agenda) = {} /\ Range(items) = {} /\ DOMAIN walked = {} /\ DOMAIN gitignores = {}
  BY <1>1 DEF Range
<1>3. InTurn /\ TreeClosed /\ ListsKept /\ AgendaLed /\ ItemsLed /\ Covered
  BY <1>1, <1>2 DEF InTurn, TreeClosed, ListsKept, AgendaLed, ItemsLed, Covered
<1>4. RootsTaken
  <2>1. world.roots \in Seq(Seq(Name)) /\ Len(walked) = 0
    BY <1>1, WorldAssumption DEF WorldAssumption
  <2> QED
    BY <1>1, <1>2, <2>1 DEF RootsTaken
<1> QED
  BY <1>3, <1>4 DEF WalkInv

\* run, up to the walk.
LEMMA BeginKeeps ==
  ASSUME RootInv, IInv, TypeInv, WalkInv, Begin
  PROVE  WalkInv'
PROOF
<1> USE DEF found, setting
<1>1. /\ status = "start" /\ status' \in {"walking", "failed"}
      /\ UNCHANGED <<world, tree, todo, walked, agenda, gitignores, items, soft>>
  BY DEF Begin
<1>2. /\ walked = <<>> /\ gitignores = <<>> /\ agenda = <<>> /\ items = <<>> /\ tree = world.tree
  BY <1>1 DEF WalkInv, InTurn, IInv, RootInv
<1>3. Range(agenda') = {} /\ Range(items') = {} /\ DOMAIN walked' = {} /\ DOMAIN gitignores' = {}
  BY <1>1, <1>2 DEF Range
<1>4. InTurn' /\ TreeClosed' /\ ListsKept' /\ AgendaLed' /\ ItemsLed' /\ Covered'
  BY <1>1, <1>2, <1>3 DEF InTurn, TreeClosed, ListsKept, AgendaLed, ItemsLed, Covered
<1>5. RootsTaken'
  BY <1>1 DEF WalkInv, RootsTaken
<1> QED
  BY <1>4, <1>5 DEF WalkInv

\* A step that walks nothing: the last one of a run, and one that fails.
LEMMA IdleKeeps ==
  ASSUME RootInv, IInv, TypeInv, WalkInv, RootsTaken', InTurn',
         UNCHANGED <<world, wd, project, tree, walked, agenda, gitignores, soft>>,
         Found \subseteq Found', Range(items') \subseteq Range(items)
  PROVE  WalkInv'
PROOF
<1>1. soft \in Nat /\ ListsKept'
  BY DEF TypeInv, WalkInv, ListsKept
<1>2. \A e \in Range(agenda') : e \in Range(agenda)
  OBVIOUS
<1>3. \A p : Pending(p) => Pending(p)'
  BY DEF Pending
<1> QED
  BY <1>1, <1>2, <1>3, WalkKeeps

\* The items are put in order, none is lost.
LEMMA FinishKeeps ==
  ASSUME RootInv, IInv, TypeInv, WalkInv, Finish
  PROVE  WalkInv'
PROOF
<1> USE DEF found, setting
<1>1. /\ status = "walking" /\ agenda = <<>> /\ todo = <<>> /\ status' = "done"
      /\ UNCHANGED <<world, wd, project, tree, todo, walked, agenda, gitignores, soft>>
  BY DEF Finish
<1>2. RootsTaken' /\ InTurn'
  BY <1>1 DEF WalkInv, RootsTaken, InTurn
<1> PICK D : D = DOMAIN items
  OBVIOUS
<1>3. PICK order \in Injection(D, D) : items' = [i \in D |-> items[order[i]]]
  BY DEF Finish
<1>4. IsFiniteSet(D)
  BY AppendKeeps, FS_Interval DEF IInv
<1>5. order \in Surjection(D, D)
  BY <1>3, <1>4, FS_Injection
<1>6. order \in [D -> D] /\ \A j \in D : \E i \in D : order[i] = j
  BY <1>5 DEF Surjection
<1>7. DOMAIN items' = D /\ \A i \in D : items'[i] = items[order[i]]
  BY <1>3
<1>8. Range(items') = Range(items)
  BY <1>6, <1>7 DEF Range
<1>9. Found' = Found
  <2>1. Found' = {<<item.abs, item.kind>> : item \in Range(items')}
    BY DEF Found, Range
  <2> QED
    BY <1>8, <2>1, FoundIs
<1> QED
  BY <1>1, <1>2, <1>8, <1>9, IdleKeeps

\* The next root is what it was when the run started, or the run is over.
LEMMA NextRootKeeps ==
  ASSUME RootInv, IInv, TypeInv, WalkInv, NextRoot
  PROVE  WalkInv'
PROOF
<1> USE DEF found, setting
<1>1. /\ status = "walking" /\ agenda = <<>> /\ todo # <<>> /\ todo' = Tail(todo)
      /\ UNCHANGED <<world, wd, project, tree, gitignores, items, soft>>
  BY DEF NextRoot
<1> PICK h : h = Head(todo)
  OBVIOUS
<1>2. PICK abs \in {resolvePath(tree, h)} :
        IF Stat(tree, abs) = {}
        THEN status' = "failed" /\ walked' = walked /\ agenda' = agenda
        ELSE /\ walked' = Append(walked, abs) /\ agenda' = <<Entry(abs, "root", {})>>
             /\ status' = status
  BY DEF NextRoot
<1>3. /\ todo \in Seq(Seq(Name)) /\ walked \in Seq(Seq(Name)) /\ world.roots \in Seq(Seq(Name))
      /\ IsTree(tree) /\ IsTree(world.tree)
  BY TreeRemains DEF RootInv
<1>4. /\ Len(todo) \in Nat \ {0} /\ h = todo[1] /\ h \in Seq(Name)
      /\ Len(todo') = Len(todo) - 1 /\ todo' \in Seq(Seq(Name))
      /\ \A j \in 1 .. Len(todo') : todo'[j] = todo[j + 1]
  BY <1>1, <1>3, EmptySeq, HeadTailProperties, ElementOfSeq
<1>5. CASE Stat(tree, abs) = {}
  <2>1. status' = "failed" /\ walked' = walked /\ agenda' = agenda
    BY <1>2, <1>5
  <2>2. RootsTaken'
    BY <1>1, <2>1 DEF WalkInv, RootsTaken
  <2>3. Range(agenda') = {}
    BY <1>1, <2>1 DEF Range
  <2>4. InTurn'
    BY <2>1, <2>3 DEF InTurn
  <2>5. Found' = Found
    BY <1>1 DEF Found
  <2> QED
    BY <1>1, <2>1, <2>2, <2>4, <2>5, IdleKeeps
<1>6. CASE Stat(tree, abs) # {}
  <2> PICK n : n = Len(walked)
    OBVIOUS
  <2> PICK e : e = Entry(abs, "root", {})
    OBVIOUS
  <2>1. walked' = Append(walked, abs) /\ agenda' = <<e>> /\ status' = "walking"
    BY <1>1, <1>2, <1>6
  <2>2. EvalSymlinks(tree, h) # {}
    BY <1>2, <1>6 DEF Stat, resolvePath
  <2>3. abs \in EvalSymlinks(tree, h)
    BY <1>2, <2>2 DEF resolvePath
  <2>4. EvalSymlinks(world.tree, h) = {abs} /\ abs \in Seq(Name)
    BY <1>3, <1>4, <2>3, EvalWithin, ResolvedStays, TreesAre, NameIs
  <2>5. /\ n \in Nat /\ DOMAIN walked = 1 .. n /\ DOMAIN walked' = 1 .. n + 1 /\ Len(walked') = n + 1
        /\ \A i \in 1 .. n : walked'[i] = walked[i]
        /\ walked'[n + 1] = abs
    BY <1>3, <2>1, <2>4, AppendProperties, LenProperties
  <2>6. /\ n + Len(todo) = Len(world.roots)
        /\ \A j \in DOMAIN todo : todo[j] = world.roots[n + j]
        /\ \A i \in 1 .. n : i \in DOMAIN world.roots /\ EvalSymlinks(world.tree, world.roots[i]) = {walked[i]}
    BY <1>1, <2>5 DEF WalkInv, RootsTaken
  <2>7. /\ DOMAIN todo = 1 .. Len(todo) /\ DOMAIN todo' = 1 .. Len(todo')
        /\ DOMAIN world.roots = 1 .. Len(world.roots)
    BY <1>3, <1>4, LenProperties
  <2>8. RootsTaken'
    <3>1. n + 1 \in DOMAIN world.roots /\ world.roots[n + 1] = h
      BY <1>4, <2>5, <2>6, <2>7
    <3>2. \A i \in DOMAIN walked' :
            i \in DOMAIN world.roots /\ EvalSymlinks(world.tree, world.roots[i]) = {walked'[i]}
      <4> SUFFICES ASSUME NEW i \in 1 .. n + 1
                   PROVE  i \in DOMAIN world.roots /\ EvalSymlinks(world.tree, world.roots[i]) = {walked'[i]}
        BY <2>5
      <4>1. i = n + 1 \/ i \in 1 .. n
        BY <2>5
      <4> QED
        BY <2>4, <2>5, <2>6, <3>1, <4>1
    <3>3. Len(walked') + Len(todo') = Len(world.roots)
      <4>1. Len(walked') = n + 1 /\ n \in Nat
        BY <2>5
      <4>2. Len(todo') = Len(todo) - 1 /\ Len(todo) \in Nat
        BY <1>4
      <4>3. n + Len(todo) = Len(world.roots)
        BY <2>6
      <4> QED
        BY <4>1, <4>2, <4>3
    <3>4. \A j \in DOMAIN todo' : todo'[j] = world.roots[Len(walked') + j]
      <4> SUFFICES ASSUME NEW j \in 1 .. Len(todo) - 1
                   PROVE  todo'[j] = world.roots[Len(walked') + j]
        BY <1>4, <2>7
      <4>1. j \in 1 .. Len(todo') /\ j + 1 \in 1 .. Len(todo) /\ Len(walked') + j = n + (j + 1)
        BY <1>4, <2>5
      <4> QED
        BY <1>4, <2>6, <2>7, <4>1
    <3> QED
      BY <1>1, <3>2, <3>3, <3>4 DEF RootsTaken
  <2>9. Range(agenda') = {e} /\ e.path = abs /\ e.type = "root" /\ Last(walked') = abs
    <3>1. Range(agenda') = {e}
      BY <2>1 DEF Range
    <3>2. e.path = abs /\ e.type = "root"
      BY DEF Entry
    <3>3. Last(walked') = abs
      BY <2>5 DEF Last
    <3> QED
      BY <3>1, <3>2, <3>3
  <2>10. InTurn' /\ AgendaLed'
    BY <2>1, <2>9 DEF InTurn, AgendaLed, Led
  <2>11. TreeClosed' /\ ListsKept'
    BY <1>1 DEF WalkInv, TreeClosed, ListsKept
  <2>12. ItemsLed'
    <3>1. \A item \in Range(items) : \E i \in 1 .. n : FoundFrom(item, walked[i])
      BY <2>5 DEF WalkInv, ItemsLed
    <3>2. \A item, r : FoundFrom(item, r) => FoundFrom(item, r)'
      BY <1>1, FoundFromSame
    <3>3. \A i \in 1 .. n : i \in DOMAIN walked' /\ walked'[i] = walked[i]
      BY <2>5
    <3>4. ASSUME NEW item \in Range(items')
          PROVE  \E i \in DOMAIN walked' : FoundFrom(item, walked[i])'
      <4>1. PICK i \in 1 .. n : FoundFrom(item, walked[i])
        BY <1>1, <3>1, <3>4
      <4> PICK r : r = walked[i]
        OBVIOUS
      <4>2. FoundFrom(item, r)'
        BY <3>2, <4>1
      <4>3. i \in DOMAIN walked' /\ walked'[i] = r
        BY <3>3
      <4> QED
        BY <4>2, <4>3
    <3> QED
      BY <3>4 DEF ItemsLed
  <2>13. Covered'
    <3> SUFFICES ASSUME NEW o \in {world.tree, Full}, Owed(o)', NEW i \in 1 .. n + 1,
                        NEW r, r = walked'[i],
                        NEW p \in Reached(o, r), p \in DOMAIN tree
                 PROVE  Handled(o, r, p)' \/ (i = n + 1 /\ Pending(p)')
      <4>1. \A o, r : Reached(o, r)' = Reached(o, r)
        BY <1>1, ReachedSame
      <4>2. Full' = Full
        BY <1>1 DEF Full
      <4> QED
        BY <1>1, <2>5, <4>1, <4>2 DEF Covered
    <3>1. CASE i = n + 1
      <4>1. IsPrefix(abs, p)
        BY <2>5, <3>1 DEF Reached
      <4> QED
        BY <2>9, <3>1, <4>1 DEF Pending
    <3>2. CASE i # n + 1
      <4>1. i \in DOMAIN walked /\ walked[i] = r
        BY <2>5, <3>2
      <4>2. soft \in Nat /\ soft' = soft
        BY <1>1 DEF TypeInv
      <4>3. Owed(o)
        BY <1>1, <4>2, OwedBefore
      <4>4. ~Pending(p)
        BY <1>1 DEF Pending, Range
      <4>5. Handled(o, r, p)
        BY <4>1, <4>3, <4>4 DEF WalkInv, Covered
      <4>6. Found' = Found
        BY <1>1 DEF Found
      <4> QED
        BY <1>1, <4>5, <4>6, HandledStays
    <3> QED
      BY <3>1, <3>2
  <2> QED
    BY <2>8, <2>10, <2>11, <2>12, <2>13 DEF WalkInv
<1> QED
  BY <1>5, <1>6

\* What vanishes is owed no more, nor is what it hides from the full tree.
LEMMA VanishKeeps ==
  ASSUME RootInv, IInv, TypeInv, WalkInv, Vanish
  PROVE  WalkInv'
PROOF
<1> USE DEF found, setting
<1>1. /\ status = "walking" /\ tree = world.tree
      /\ UNCHANGED <<world, wd, project, todo, walked, agenda, gitignores, items, soft, status>>
  BY DEF Vanish
<1>2. PICK v \in DOMAIN tree : tree' = Without(tree, v)
  BY DEF Vanish
<1>3. DOMAIN tree \subseteq Seq(Name) /\ v \in Seq(Name)
  BY TreesAre DEF IsTree
<1>4. DOMAIN tree' = {q \in DOMAIN tree : ~IsPrefix(v, q)}
  BY <1>2 DEF Without
<1>5. tree' # world.tree
  <2>1. IsPrefix(v, v)
    BY <1>3, PrefixIs
  <2> QED
    BY <1>1, <1>4, <2>1
<1>6. TreeClosed'
  <2> SUFFICES ASSUME NEW p \in DOMAIN tree', NEW q \in DOMAIN tree, IsPrefix(q, p)
               PROVE  q \in DOMAIN tree'
    BY <1>1 DEF TreeClosed
  <2>1. p \in Seq(Name) /\ q \in Seq(Name) /\ ~IsPrefix(v, p)
    BY <1>3, <1>4
  <2>2. ~IsPrefix(v, q)
    BY <1>3, <2>1, PrefixTrans
  <2> QED
    BY <1>4, <2>2
<1>7. RootsTaken' /\ ListsKept' /\ InTurn'
  BY <1>1 DEF WalkInv, RootsTaken, ListsKept, InTurn
<1>8. IsTree(tree) /\ IsTree(tree') /\ Within(tree', tree)
  <2>1. Remains(tree', tree)
    BY <1>2, WithoutRemains
  <2> QED
    BY <2>1, TreesAre, RemainsWithin DEF IsTree, Remains
<1>9. ASSUME NEW d \in Seq(Name), ObeyedBy(tree, d) PROVE ObeyedBy(tree, d)'
  BY <1>1, <1>8, <1>9, ListWithin DEF ObeyedBy
<1>10. ASSUME NEW e, NEW r, Led(e, r) PROVE Led(e, r)'
  <2>1. CASE e.type = "root" /\ e.path = r
    BY <2>1 DEF Led
  <2>2. CASE /\ e.type = "listing" /\ e.path \in DOMAIN world.tree /\ world.tree[e.path].type = "dir"
             /\ e.path \in Reached(world.tree, r) \cup Reached(tree, r)
             /\ ObeyedBy(tree, e.path)
    <3>1. e.path \in Reached(world.tree, r)
      BY <1>1, <2>2
    <3>2. e.path \in Reached(world.tree, r)'
      BY <1>1, <3>1 DEF Reached, isExcluded, excluded
    <3>3. ObeyedBy(tree, e.path)'
      BY <1>1, <1>3, <1>9, <2>2
    <3> QED
      BY <1>1, <2>2, <3>2, <3>3 DEF Led
  <2>3. CASE /\ e.type \notin {"root", "listing"}
             /\ e.path \in DOMAIN world.tree /\ e.type = world.tree[e.path].type
             /\ \E t \in {world.tree, tree} :
                  Due(t, r, e.path) /\ (e.path # r => ObeyedBy(t, Parent(e.path)))
    <3> PICK t : t = world.tree
      OBVIOUS
    <3>1. Due(t, r, e.path) /\ (e.path # r => ObeyedBy(t, Parent(e.path)))
      BY <1>1, <2>3
    <3>2. Due(t, r, e.path)'
      BY <1>1, <3>1, DueSame
    <3>3. e.path # r => ObeyedBy(t, Parent(e.path))'
      BY <1>1, <3>1, ObeyedSame
    <3>4. t \in {world'.tree, tree'}
      BY <1>1
    <3> QED
      BY <1>1, <2>3, <3>2, <3>3, <3>4 DEF Led
  <2> QED
    BY <1>10, <2>1, <2>2, <2>3 DEF Led
<1>11. AgendaLed'
  <2> PICK r : r = Last(walked)
    OBVIOUS
  <2>1. Last(walked)' = r
    BY <1>1
  <2>2. \A e \in Range(agenda) : Led(e, r)'
    BY <1>10 DEF WalkInv, AgendaLed
  <2> QED
    BY <1>1, <2>1, <2>2 DEF AgendaLed
<1>12. ItemsLed'
  <2>1. \A item, r : FoundFrom(item, r) => FoundFrom(item, r)'
    BY <1>1, FoundFromSame
  <2>2. ASSUME NEW item \in Range(items) PROVE \E i \in DOMAIN walked' : FoundFrom(item, walked[i])'
    <3>1. PICK i \in DOMAIN walked : FoundFrom(item, walked[i])
      BY DEF WalkInv, ItemsLed
    <3> PICK r : r = walked[i]
      OBVIOUS
    <3>2. FoundFrom(item, r)'
      BY <2>1, <3>1
    <3> QED
      BY <1>1, <3>2
  <2> QED
    BY <1>1, <2>2 DEF ItemsLed
<1>13. Covered'
  <2> SUFFICES ASSUME NEW o \in {world.tree, Full}, Owed(o)', NEW i \in DOMAIN walked,
                      NEW r, r = walked[i],
                      NEW p \in Reached(o, r), p \in DOMAIN tree'
               PROVE  Handled(o, r, p)' \/ (i = Len(walked) /\ Pending(p)')
    <3>1. \A o, r : Reached(o, r)' = Reached(o, r)
      BY <1>1, ReachedSame
    <3>2. Full' = Full
      BY <1>1 DEF Full
    <3> QED
      BY <1>1, <3>1, <3>2 DEF Covered
  <2>1. o = world.tree
    BY <1>1, <1>5 DEF Owed
  <2>2. p \in DOMAIN tree
    BY <1>4
  <2>3. Handled(o, r, p) \/ (i = Len(walked) /\ Pending(p))
    BY <2>1, <2>2 DEF WalkInv, Covered, Owed
  <2>4. Pending(p) => Pending(p)'
    BY <1>1 DEF Pending
  <2>5. ASSUME Handled(o, r, p) PROVE Handled(o, r, p)'
    <3>1. \A f \in FindsAt(o, p) : InScope(r, f[1]) => f \in Found
      BY <1>1, <2>5 DEF Handled
    <3>2. Found' = Found /\ \A a : InScope(r, a)' <=> InScope(r, a)
      BY <1>1 DEF Found, InScope, InProject
    <3> QED
      BY <3>1, <3>2 DEF Handled
  <2> QED
    BY <2>3, <2>4, <2>5
<1> QED
  BY <1>6, <1>7, <1>11, <1>12, <1>13 DEF WalkInv

\* Every step keeps the invariant.
LEMMA NextWalkInv == RootInv /\ IInv /\ TypeInv /\ WalkInv /\ [Next]_vars => WalkInv'
PROOF
<1> SUFFICES ASSUME RootInv, IInv, TypeInv, WalkInv, [Next]_vars PROVE WalkInv'
  OBVIOUS
<1>1. CASE Begin
  BY <1>1, BeginKeeps
<1>2. CASE NextRoot
  BY <1>2, NextRootKeeps
<1>3. CASE EnterRoot
  BY <1>3, EnterRootKeeps
<1>4. CASE VisitDir
  BY <1>4, VisitDirKeeps
<1>5. CASE ListDir
  BY <1>5, ListDirKeeps
<1>6. CASE VisitFile
  BY <1>6, VisitFileKeeps
<1>7. CASE VisitExcluded
  BY <1>7, ExcludedKeeps
<1>8. CASE Finish
  BY <1>8, FinishKeeps
<1>9. CASE Vanish
  BY <1>9, VanishKeeps
<1>10. CASE UNCHANGED vars
  <2>1. UNCHANGED <<world, wd, project, tree, todo, walked, agenda, gitignores, items, soft, status>>
    BY <1>10 DEF vars
  <2>2. RootsTaken' /\ InTurn'
    BY <2>1 DEF WalkInv, RootsTaken, InTurn
  <2>3. Found' = Found
    BY <2>1 DEF Found
  <2> QED
    BY <2>1, <2>2, <2>3, IdleKeeps
<1> QED
  BY <1>1, <1>2, <1>3, <1>4, <1>5, <1>6, <1>7, <1>8, <1>9, <1>10 DEF Next, Stopped

-----------------------------------------------------------------------------
(* The walk, when it is over.                                              *)

\* The roots have been walked, every one.
LEMMA AllWalked ==
  ASSUME RootInv, WalkInv, status = "done"
  PROVE  /\ \A root \in Roots : \E i \in DOMAIN walked : walked[i] = root
         /\ \A i \in DOMAIN walked : walked[i] \in Roots
PROOF
<1>1. /\ walked \in Seq(Seq(Name)) /\ world.roots \in Seq(Seq(Name)) /\ todo = <<>>
  BY TreeRemains DEF RootInv, WalkInv, InTurn
<1>2. /\ \A i \in DOMAIN walked :
           i \in DOMAIN world.roots /\ EvalSymlinks(world.tree, world.roots[i]) = {walked[i]}
      /\ Len(walked) + Len(todo) = Len(world.roots)
  BY DEF WalkInv, RootsTaken
<1>3. DOMAIN walked = DOMAIN world.roots
  <2>1. Len(walked) = Len(world.roots)
    BY <1>1, <1>2
  <2> QED
    BY <1>1, <2>1, LenProperties
<1> QED
  BY <1>2, <1>3 DEF Roots

\* A way is a root, an entry reached from it, and what that leads to.
LEMMA WaysAre ==
  ASSUME NEW t
  PROVE  \A w : w \in Ways(t) <=>
           \E root \in Roots : \E p \in Reached(t, root) : \E f \in FindsAt(t, p) :
             InScope(root, f[1]) /\ w = <<root, p, f>>
  BY DEF Ways, InScope

\* What the walk owes of a tree it has found.
LEMMA OwedFound ==
  ASSUME RootInv, WalkInv, status = "done", NEW o \in {world.tree, Full}, Owed(o),
         NEW root \in Roots, NEW p \in Reached(o, root), p \in DOMAIN tree,
         NEW f \in FindsAt(o, p), InScope(root, f[1]),
         tree # world.tree => f \in FindsAt(tree, p)
  PROVE  f \in Found
PROOF
<1>1. PICK i \in DOMAIN walked : walked[i] = root
  BY AllWalked
<1>2. ~Pending(p)
  BY DEF WalkInv, InTurn, Pending, Range
<1>3. Handled(o, root, p)
  BY <1>1, <1>2 DEF WalkInv, Covered
<1> QED
  BY <1>3 DEF Handled

\* The invariant holds in every run.
LEMMA WalkHolds == Spec => [](RootInv /\ WalkInv)
PROOF
<1>1. Init => RootInv /\ IInv /\ TypeInv /\ WalkInv
  BY InitRootInv, InitIInv, InitTypeInv, InitWalkInv
<1>2. RootInv /\ IInv /\ TypeInv /\ WalkInv /\ [Next]_vars => (RootInv /\ IInv /\ TypeInv /\ WalkInv)'
  BY NextKeepsRootInv, NextIInv, NextTypeInv, NextWalkInv
<1> QED
  BY <1>1, <1>2, PTL DEF Spec

\* WalkWithin: for every tree, command line and list of patterns, what can be
\* come to at all is found, and nothing is that could not be come to, though
\* a part of the tree may vanish while the walk goes on.
THEOREM WalkFinds == Spec => []FindsWhatIsThere
PROOF
<1>1. RootInv /\ WalkInv => FindsWhatIsThere
  <2> SUFFICES ASSUME RootInv, WalkInv, status = "done"
               PROVE  /\ {way[3] : way \in Ways(world.tree) \cap Ways(tree)} \subseteq Found
                      /\ Found \subseteq Wanted(world.tree) \cup Wanted(tree)
    BY DEF FindsWhatIsThere
  <2>1. ASSUME NEW way \in Ways(world.tree), way \in Ways(tree) PROVE way[3] \in Found
    <3>1. PICK root \in Roots : \E p \in Reached(world.tree, root) : \E f \in FindsAt(world.tree, p) :
            InScope(root, f[1]) /\ way = <<root, p, f>>
      BY WaysAre
    <3>2. PICK p \in Reached(world.tree, root) : \E f \in FindsAt(world.tree, p) :
            InScope(root, f[1]) /\ way = <<root, p, f>>
      BY <3>1
    <3>3. PICK f \in FindsAt(world.tree, p) : InScope(root, f[1]) /\ way = <<root, p, f>>
      BY <3>2
    <3>4. PICK root2 \in Roots : \E p2 \in Reached(tree, root2) : \E f2 \in FindsAt(tree, p2) :
            InScope(root2, f2[1]) /\ way = <<root2, p2, f2>>
      BY <2>1, WaysAre
    <3>5. p \in DOMAIN tree /\ f \in FindsAt(tree, p)
      BY <3>3, <3>4 DEF Reached
    <3>6. f \in Found
      BY <3>3, <3>5, OwedFound DEF Owed
    <3> QED
      BY <3>3, <3>6
  <2>2. ASSUME NEW f \in Found PROVE f \in Wanted(world.tree) \cup Wanted(tree)
    <3>1. PICK item \in Range(items) : f = <<item.abs, item.kind>>
      BY FoundIs
    <3>2. PICK i \in DOMAIN walked : FoundFrom(item, walked[i])
      BY DEF WalkInv, ItemsLed
    <3>3. PICK t \in {world.tree, tree} : \E p \in Reached(t, walked[i]) :
            <<item.abs, item.kind>> \in FindsAt(t, p) /\ InScope(walked[i], item.abs)
      BY <3>2 DEF FoundFrom
    <3>4. PICK p \in Reached(t, walked[i]) : f \in FindsAt(t, p) /\ InScope(walked[i], f[1])
      BY <3>1, <3>3
    <3>5. <<walked[i], p, f>> \in Ways(t)
      BY <3>4, AllWalked, WaysAre
    <3>6. f \in Wanted(t)
      BY <3>5 DEF Wanted
    <3> QED
      BY <3>6
  <2> QED
    BY <2>1, <2>2
<1> QED
  BY <1>1, WalkHolds, PTL

\* WalkWithin: a walk that has noticed no error has found what a walk with
\* every permission would: no file is missing from the exit code unnoticed.
THEOREM SilentWalksFindAll == Spec => []SilentMeansWhole
PROOF
<1>1. RootInv /\ WalkInv => SilentMeansWhole
  <2> SUFFICES ASSUME RootInv, WalkInv, status = "done", soft = 0, tree = world.tree,
                      \A p \in DOMAIN tree : tree[p].type = "link" /\ EvalSymlinks(tree, p) = {}
                                               => EvalSymlinks(Granted(tree), p) = {}
               PROVE  Wanted(Granted(tree)) \subseteq Found
    BY DEF SilentMeansWhole
  <2>1. Owed(Full) /\ Granted(tree) = Full
    BY DEF Owed, Full, LinksOpen
  <2>2. ASSUME NEW way \in Ways(Full) PROVE way[3] \in Found
    <3>1. PICK root \in Roots : \E p \in Reached(Full, root) : \E f \in FindsAt(Full, p) :
            InScope(root, f[1]) /\ way = <<root, p, f>>
      BY WaysAre
    <3>2. PICK p \in Reached(Full, root) : \E f \in FindsAt(Full, p) :
            InScope(root, f[1]) /\ way = <<root, p, f>>
      BY <3>1
    <3>3. PICK f \in FindsAt(Full, p) : InScope(root, f[1]) /\ way = <<root, p, f>>
      BY <3>2
    <3>4. p \in DOMAIN tree
      BY TreesAre DEF Reached
    <3>5. f \in Found
      BY <2>1, <3>3, <3>4, OwedFound
    <3> QED
      BY <3>3, <3>5
  <2> QED
    BY <2>1, <2>2 DEF Wanted
<1> QED
  BY <1>1, WalkHolds, PTL
=============================================================================
