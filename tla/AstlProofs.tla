------------------------------ MODULE AstlProofs ------------------------------
(***************************************************************************)
(* A whole run, for every command line, configuration, ignore file, file   *)
(* tree, budget and number of processors.  The first half is about the     *)
(* parallel engine: its types, the ledger that stays true however workers  *)
(* race in admit, and what follows from it.  The second half is about the  *)
(* run around it: what the exit code and the standard output say of what   *)
(* the workers found.  The ledger says what was gathered; the pipeline's   *)
(* lemmas (ReportProofs) say what becomes of it.                           *)
(***************************************************************************)
EXTENDS Astl, SumProofs, ReportProofs, TLAPS, FiniteSetTheorems,
        SequenceTheorems

Target == [abs : File \cup {Missing}, kind : Kind]

-----------------------------------------------------------------------------
(* The types of what an item is turned into.                               *)

\* A goroutine's weight is at least one byte and at most the whole budget.
LEMMA WeightType ==
  ASSUME NEW item \in Item
  PROVE  Weight(item) \in 1 .. Budget
  BY BudgetAssumption, LintAssumption DEF BudgetAssumption, LintAssumption, Weight, Item

\* Promotion stays among the kinds.
LEMMA LoadedKindType ==
  ASSUME NEW item \in Item
  PROVE  LoadedKind(item) \in Kind
  BY IncludesAssumption DEF IncludesAssumption, LoadedKind, Item, ScannedKinds

\* An item's findings are findings.
LEMMA FindingsType ==
  ASSUME NEW item \in Item
  PROVE  Findings(item) \in Seq(Finding)
  BY LoadedKindType, LintAssumption DEF LintAssumption, Findings, Item

\* What Found offers is a sequence of names, some of files that do not exist.
LEMMA TargetsType ==
  ASSUME NEW item \in Item
  PROVE  Targets(item) \in Seq(Target)
<1> DEFINE names == Content[item.abs].names
<1>1. item.abs \in File
  BY DEF Item
<1>2. names \in Seq([to : File \cup {Missing}, section : PlaySections \cup {Own}])
  BY <1>1, IncludesAssumption DEF IncludesAssumption
<1>3. LoadedKind(item) \in Kind
  BY LoadedKindType
<1>4. ASSUME NEW i \in DOMAIN names
      PROVE  [abs |-> names[i].to,
              kind |-> ChildKind(names[i].section, LoadedKind(item))] \in Target
  <2>1. names[i] \in [to : File \cup {Missing}, section : PlaySections \cup {Own}]
    <3> HIDE DEF names
    <3>1. i \in 1 .. Len(names)
      BY <1>2, LenProperties
    <3> QED
      BY <1>2, <3>1, ElementOfSeq
  <2> QED
    BY <2>1, <1>3, IncludesAssumption DEF IncludesAssumption, Target, ChildKind
<1>5. CASE Scanned(item)
  <2>1. DOMAIN names = 1 .. Len(names) /\ Len(names) \in Nat
    BY <1>2
  <2> QED
    BY <1>4, <1>5, <2>1, IsASeq DEF Targets
<1>6. CASE ~Scanned(item)
  BY <1>6 DEF Targets
<1> QED
  BY <1>5, <1>6

\* A followed target is an item.
LEMMA FollowedIsItem ==
  ASSUME NEW t \in Target, Followed(t)
  PROVE  t \in Item
  BY IncludesAssumption DEF IncludesAssumption, Target, Followed, Item

-----------------------------------------------------------------------------
(* Type correctness.                                                       *)

\* The initial state, whatever the walk could not read.
LEMMA TypeInit ==
  ASSUME Init
  PROVE  TypeOK
<1> USE LintAssumption DEF LintAssumption
<1>1. Walk \in Seq(Item) /\ DOMAIN Walk = 1 .. Len(Walk) /\ Len(Walk) \in Nat
  BY LenProperties
<1>2. Range(Walk) \subseteq Item
  BY <1>1 DEF Range
<1>3. cur \in Int /\ cur <= Budget
  BY BudgetAssumption DEF BudgetAssumption, Init, LintInit, SemInit
<1>4. waiters = <<>> /\ found = <<>> /\ all = <<>> /\ next = <<>>
  BY DEF Init, LintInit, SemInit, IncludesInit
<1>5. pc \in [Goroutine -> Places]
  BY DEF Init, LintInit, Goroutine, Places
<1>6. pending \in [Goroutine -> Seq(Target)]
  BY DEF Init, LintInit, Goroutine
<1>7. /\ waiters \in Seq([who : Goroutine, weight : 1 .. Budget])
      /\ found \in Seq(Finding) /\ all \in Seq(Finding) /\ next \in Seq(Item)
  BY <1>4, EmptySeq
<1>8. /\ sized = Walk /\ round = Walk /\ seen = Range(Walk) /\ roundNo = 0 /\ spawned = 0
      /\ notifying = FALSE /\ failed = 0 /\ unchecked = 0
  BY DEF Init, LintInit, SemInit, IncludesInit
<1>9. /\ sized \in Seq(Item) /\ round \in Seq(Item) /\ seen \subseteq Item
      /\ spawned \in 0 .. Len(round) /\ notifying \in BOOLEAN
      /\ failed \in Nat /\ unchecked \in Nat /\ roundNo \in Nat
  <2>1. 0 \in 0 .. Len(Walk)
    BY <1>1
  <2> QED
    BY ONLY <1>1, <1>2, <1>8, <2>1
<1> QED
  BY <1>3, <1>5, <1>6, <1>7, <1>9 DEF TypeOK, Target

\* Each action keeps the types, under the types of the state before.
LEMMA TypeStep ==
  ASSUME TypeOK, PendingRead, [Next]_lintVars
  PROVE  TypeOK'
<1> USE DEF Goroutine
<1>1. ASSUME NEW g \in Goroutine PROVE round[g] \in Item
  BY ElementOfSeq, LenProperties DEF TypeOK
<1>2. ASSUME NEW g \in Goroutine, NEW place \in Places, Goto(g, place), UNCHANGED round
      PROVE  pc' \in [Goroutine' -> Places]
  BY <1>2 DEF TypeOK, Goto
<1>3. ASSUME NEW g \in Goroutine
      PROVE  AfterFound(g) \in Places /\ AfterFailure(g) \in Places
  BY DEF AfterFound, AfterFailure, Places
<1>4. ASSUME NEW g \in Goroutine, Spawn(g) PROVE TypeOK'
  <2>1. pc' \in [Goroutine' -> Places]
    BY <1>2, <1>4 DEF Spawn, Places
  <2>2. spawned' \in 0 .. Len(round)
    BY <1>4 DEF Spawn, TypeOK
  <2> QED
    BY <1>4, <2>1, <2>2 DEF Spawn, TypeOK, totals, semVars, incVars
<1>5. ASSUME NEW g \in Goroutine, Acquire(g) PROVE TypeOK'
  <2>1. Weight(round[g]) \in 1 .. Budget
    BY <1>1, WeightType
  <2>2. pc' \in [Goroutine' -> Places]
    BY <1>2, <1>5 DEF Acquire, Places
  <2>3. cur' \in Int /\ cur' <= Budget /\ notifying' \in BOOLEAN
    BY <1>5, <2>1 DEF Acquire, AcquireNow, AcquireLater, Fits, TypeOK
  <2>4. waiters' \in Seq([who : Goroutine', weight : 1 .. Budget])
    <3>1. Goroutine' = Goroutine
      BY <1>5 DEF Acquire
    <3>2. [who |-> g, weight |-> Weight(round[g])] \in [who : Goroutine, weight : 1 .. Budget]
      BY <2>1
    <3>3. \/ waiters' = waiters
          \/ waiters' = Append(waiters, [who |-> g, weight |-> Weight(round[g])])
      BY <1>5 DEF Acquire, AcquireNow, AcquireLater
    <3>4. waiters \in Seq([who : Goroutine, weight : 1 .. Budget])
      BY DEF TypeOK
    <3> DEFINE w == [who |-> g, weight |-> Weight(round[g])]
               W == [who : Goroutine, weight : 1 .. Budget]
    <3>5. waiters' \in Seq(W)
      <4> HIDE DEF w, W
      <4>1. w \in W
        BY <3>2 DEF w, W
      <4>2. waiters \in Seq(W)
        BY <3>4 DEF W
      <4>3. waiters' = waiters \/ waiters' = Append(waiters, w)
        BY <3>3 DEF w
      <4> QED
        BY <4>1, <4>2, <4>3
    <3> QED
      BY <3>1, <3>5
  <2> QED
    BY <1>5, <2>2, <2>3, <2>4 DEF Acquire, TypeOK, totals, incVars
<1>6. ASSUME NEW g \in Goroutine, Load(g) PROVE TypeOK'
  <2>1. pc' \in [Goroutine' -> Places]
    BY <1>2, <1>3, <1>6 DEF Load, Places
  <2>2. pending' \in [Goroutine' -> Seq(Target)]
    BY <1>1, <1>6, TargetsType DEF Load, TypeOK, Target
  <2> QED
    BY <1>6, <2>1, <2>2 DEF Load, TypeOK, Target, totals, semVars, incVars
<1>7. ASSUME NEW g \in Goroutine, AdmitNext(g) PROVE TypeOK'
  <2>1. pc' \in [Goroutine' -> Places]
    BY <1>2, <1>3, <1>7 DEF AdmitNext, Places
  <2>2. pending[g] \in Seq(Target)
    BY DEF TypeOK, Target
  <2>3. Head(pending[g]) \in Target /\ Tail(pending[g]) \in Seq(Target)
    <3>1. pending[g] # <<>>
      BY <1>7 DEF AdmitNext, PendingRead
    <3> QED
      BY <2>2, <3>1, HeadTailProperties
  <2>4. pending' \in [Goroutine' -> Seq(Target)]
    BY <1>7, <2>3 DEF AdmitNext, TypeOK, Target
  <2>5. seen' \subseteq Item /\ next' \in Seq(Item) /\ roundNo' \in Nat
    <3> DEFINE t == Head(pending[g])
    <3>1. CASE Record(t) /\ Followed(t)
      <4>1. t \in Item
        BY <2>3, <3>1, FollowedIsItem
      <4> HIDE DEF t
      <4> QED
        BY <3>1, <4>1 DEF Record, TypeOK
    <3>2. CASE UNCHANGED incVars
      BY <3>2 DEF incVars, TypeOK
    <3> QED
      BY <1>7, <3>1, <3>2 DEF AdmitNext, Admit
  <2>6. UNCHANGED <<sized, round, spawned, found, failed, all, unchecked, cur, waiters, notifying>>
    BY <1>7 DEF AdmitNext, totals, semVars
  <2>7. waiters' \in Seq([who : Goroutine', weight : 1 .. Budget])
    BY <2>6 DEF TypeOK
  <2>8. /\ cur' \in Int /\ cur' <= Budget /\ notifying' \in BOOLEAN
        /\ sized' \in Seq(Item) /\ round' \in Seq(Item) /\ spawned' \in 0 .. Len(round')
        /\ found' \in Seq(Finding) /\ all' \in Seq(Finding)
        /\ failed' \in Nat /\ unchecked' \in Nat
    BY <2>6 DEF TypeOK
  <2> HIDE DEF Goroutine
  <2> QED
    BY <2>1, <2>4, <2>5, <2>7, <2>8 DEF TypeOK, Target
<1>8. ASSUME NEW g \in Goroutine, Fail(g) PROVE TypeOK'
  <2>1. pc' \in [Goroutine' -> Places]
    BY <1>2, <1>3, <1>8 DEF Fail
  <2>2. failed' \in Nat
    BY <1>8 DEF Fail, TypeOK
  <2>3. UNCHANGED <<sized, round, spawned, pending, found, all, unchecked, semVars, incVars>>
    BY <1>8 DEF Fail, totals
  <2> QED
    BY <2>1, <2>2, <2>3 DEF TypeOK, semVars, incVars
<1>9. ASSUME NEW g \in Goroutine, AppendFound(g) PROVE TypeOK'
  <2>1. pc' \in [Goroutine' -> Places]
    BY <1>2, <1>9 DEF AppendFound, Places
  <2>2. found' \in Seq(Finding)
    BY <1>1, <1>9, FindingsType, ConcatProperties DEF AppendFound, TypeOK
  <2> QED
    BY <1>9, <2>1, <2>2 DEF AppendFound, TypeOK, totals, semVars, incVars
<1>10. ASSUME NEW g \in Goroutine, Release(g) PROVE TypeOK'
  <2>1. pc' \in [Goroutine' -> Places]
    BY <1>2, <1>10 DEF Release, Places
  <2>2. Weight(round[g]) \in 1 .. Budget
    BY <1>1, WeightType
  <2>3. cur' \in Int /\ cur' <= Budget
    BY <1>10, <2>2, BudgetAssumption DEF BudgetAssumption, Release, ReleaseBegin, TypeOK
  <2> QED
    BY <1>10, <2>1, <2>3 DEF Release, ReleaseBegin, TypeOK, totals, incVars
<1>11. ASSUME NEW g \in Goroutine, Notify(g) PROVE TypeOK'
  <2>1. waiters # <<>> /\ waiters \in Seq([who : Goroutine, weight : 1 .. Budget])
    BY <1>11 DEF Notify, Wake, TypeOK
  <2>2. /\ Head(waiters) \in [who : Goroutine, weight : 1 .. Budget]
        /\ Tail(waiters) \in Seq([who : Goroutine, weight : 1 .. Budget])
    BY <2>1, HeadTailProperties
  <2>3. pc' \in [Goroutine' -> Places]
    BY <1>2, <1>11, <2>2 DEF Notify, Places
  <2>4. cur' \in Int /\ cur' <= Budget
    <3>1. Head(waiters).weight \in 1 .. Budget /\ cur \in Int
      BY <2>2 DEF TypeOK
    <3>2. cur' = cur + Head(waiters).weight /\ cur + Head(waiters).weight <= Budget
      BY <1>11 DEF Notify, Wake, Fits
    <3> QED
      BY <3>1, <3>2
  <2> QED
    BY <1>11, <2>2, <2>3, <2>4 DEF Notify, Wake, TypeOK, totals, incVars
<1>12. ASSUME NEW g \in Goroutine, Return(g) PROVE TypeOK'
  <2>1. pc' \in [Goroutine' -> Places]
    BY <1>2, <1>12 DEF Return, Places
  <2> QED
    BY <1>12, <2>1 DEF Return, ReleaseEnd, TypeOK, totals, incVars
<1>13. ASSUME NEW r \in [DOMAIN next -> Range(next)], EndRound(r) PROVE TypeOK'
  <2>1. r \in Seq(Item)
    <3>1. DOMAIN next = 1 .. Len(next) /\ Len(next) \in Nat /\ Range(next) \subseteq Item
      BY LenProperties, ElementOfSeq DEF TypeOK, Range
    <3> QED
      BY <3>1
  <2>2. round' = r /\ sized' \in Seq(Item)
    BY <1>13, <2>1, ConcatProperties DEF EndRound, Begin, TypeOK
  <2>3. cur' = 0 /\ waiters' = <<>> /\ notifying' = FALSE /\ found' = <<>> /\ failed' = 0
    BY <1>13 DEF EndRound, Begin, SemReset
  <2>4. spawned' \in 0 .. Len(round')
    BY <1>13, <2>1, <2>2, LenProperties DEF EndRound, Begin
  <2>5. pc' \in [Goroutine' -> Places] /\ pending' \in [Goroutine' -> Seq(Target)]
    BY <1>13, <2>2 DEF EndRound, Begin, Places
  <2>6. seen' \subseteq Item /\ next' \in Seq(Item) /\ roundNo' \in Nat
    BY <1>13 DEF EndRound, NextRound, TypeOK
  <2>7. all' \in Seq(Finding) /\ unchecked' \in Nat
    BY <1>13, ConcatProperties DEF EndRound, TypeOK
  <2>8. /\ cur' \in Int /\ cur' <= Budget /\ notifying' \in BOOLEAN
        /\ waiters' \in Seq([who : Goroutine', weight : 1 .. Budget])
        /\ found' \in Seq(Finding) /\ failed' \in Nat
    <3>1. /\ <<>> \in Seq([who : Goroutine', weight : 1 .. Budget])
          /\ <<>> \in Seq(Finding)
      BY EmptySeq
    <3>2. 0 \in Int /\ 0 <= Budget /\ 0 \in Nat
      BY BudgetAssumption DEF BudgetAssumption
    <3> QED
      BY ONLY <2>3, <3>1, <3>2
  <2> QED
    BY <2>1, <2>2, <2>4, <2>5, <2>6, <2>7, <2>8 DEF TypeOK, Target
<1>14. CASE UNCHANGED lintVars
  BY <1>14 DEF TypeOK, lintVars, roundVars, totals, semVars, incVars
<1> QED
  BY <1>4, <1>5, <1>6, <1>7, <1>8, <1>9, <1>10, <1>11, <1>12, <1>13, <1>14
  DEF Next, LintNext, Work, Finished

-----------------------------------------------------------------------------
(* Sequences as the sets of their elements.                                *)

\* Appending adds one element, and keeps a sequence of distinct elements so
\* when the element is new.
LEMMA AppendRange ==
  ASSUME NEW S, NEW s \in Seq(S), NEW e \in S
  PROVE  /\ Range(Append(s, e)) = Range(s) \cup {e}
         /\ IsInjective(s) /\ e \notin Range(s) => IsInjective(Append(s, e))
<1>1. /\ Len(s) \in Nat /\ DOMAIN s = 1 .. Len(s)
      /\ DOMAIN Append(s, e) = 1 .. Len(s) + 1
      /\ Append(s, e)[Len(s) + 1] = e
      /\ \A i \in 1 .. Len(s) : Append(s, e)[i] = s[i]
  OBVIOUS
<1> QED
  BY <1>1 DEF Range, IsInjective

\* Concatenation unites the elements, and keeps disjoint sequences of distinct
\* elements so.
LEMMA ConcatRange ==
  ASSUME NEW S, NEW s \in Seq(S), NEW r \in Seq(S)
  PROVE  /\ Range(s \o r) = Range(s) \cup Range(r)
         /\ IsInjective(s) /\ IsInjective(r) /\ Range(s) \cap Range(r) = {}
              => IsInjective(s \o r)
<1> DEFINE c == s \o r  n == Len(s)  m == Len(r)
<1>1. /\ n \in Nat /\ m \in Nat /\ DOMAIN s = 1 .. n /\ DOMAIN r = 1 .. m
      /\ c \in Seq(S) /\ DOMAIN c = 1 .. n + m
      /\ \A i \in 1 .. n + m : c[i] = IF i <= n THEN s[i] ELSE r[i - n]
  BY ConcatProperties, LenProperties
<1> HIDE DEF c, n, m
<1>2. \A i \in 1 .. m : i + n \in 1 .. n + m /\ c[i + n] = r[i]
  BY <1>1
<1>3. Range(c) \subseteq Range(s) \cup Range(r)
  <2>1. ASSUME NEW i \in 1 .. n + m
        PROVE  (i \in 1 .. n /\ c[i] = s[i]) \/ (i - n \in 1 .. m /\ c[i] = r[i - n])
    BY <1>1
  <2> QED
    BY <1>1, <2>1 DEF Range
<1>4. Range(s) \subseteq Range(c)
  BY <1>1 DEF Range
<1>5. Range(r) \subseteq Range(c)
  BY <1>1, <1>2 DEF Range
<1>6. ASSUME IsInjective(s), IsInjective(r), Range(s) \cap Range(r) = {},
             NEW i \in DOMAIN c, NEW j \in DOMAIN c, c[i] = c[j]
      PROVE  i = j
  <2>1. CASE i <= n /\ j <= n
    BY <1>1, <1>6, <2>1 DEF IsInjective
  <2>2. CASE i > n /\ j > n
    <3>1. i - n \in 1 .. m /\ j - n \in 1 .. m /\ r[i - n] = r[j - n]
      BY <1>1, <1>6, <2>2
    <3>2. i - n = j - n
      BY <1>1, <1>6, <3>1 DEF IsInjective
    <3> QED
      BY <1>1, <3>2
  <2>3. ASSUME NEW k \in 1 .. n, NEW l \in 1 .. n + m, l > n, c[k] = c[l] PROVE FALSE
    <3>1. c[k] \in Range(s)
      <4>1. k \in DOMAIN s /\ c[k] = s[k]
        BY <1>1
      <4> QED
        BY <4>1 DEF Range
    <3>2. l - n \in 1 .. m /\ c[l] = r[l - n]
      BY <1>1, <2>3
    <3>3. c[l] \in Range(r)
      BY <1>1, <3>2 DEF Range
    <3> QED
      BY <1>6, <2>3, <3>1, <3>3
  <2> QED
    BY <1>1, <1>6, <2>1, <2>2, <2>3
<1> QED
  BY <1>3, <1>4, <1>5, <1>6 DEF c, IsInjective

\* A non-empty sequence is its head and its tail.
LEMMA HeadTailRange ==
  ASSUME NEW S, NEW s \in Seq(S), s # <<>>
  PROVE  Range(s) = {Head(s)} \cup Range(Tail(s)) /\ Head(s) \in Range(s)
<1>1. /\ Len(s) \in Nat \ {0} /\ DOMAIN s = 1 .. Len(s)
      /\ Tail(s) \in Seq(S) /\ DOMAIN Tail(s) = 1 .. Len(s) - 1
      /\ \A i \in 1 .. Len(s) - 1 : Tail(s)[i] = s[i + 1]
      /\ Head(s) = s[1]
  BY EmptySeq, LenProperties, HeadTailProperties
<1>2. \A i \in 1 .. Len(s) : i = 1 \/ (i - 1 \in 1 .. Len(s) - 1 /\ Tail(s)[i - 1] = s[i])
  BY <1>1
<1>3. ASSUME NEW i \in DOMAIN s PROVE s[i] \in {Head(s)} \cup Range(Tail(s))
  <2>1. i = 1 \/ (i - 1 \in DOMAIN Tail(s) /\ Tail(s)[i - 1] = s[i])
    BY <1>1, <1>2
  <2> QED
    BY <1>1, <2>1 DEF Range
<1>4. Range(Tail(s)) \subseteq Range(s)
  BY <1>1 DEF Range
<1>5. Head(s) \in Range(s)
  BY <1>1 DEF Range
<1> QED
  BY <1>3, <1>4, <1>5 DEF Range

\* A sequence has no elements exactly when it is empty, and then no length.
LEMMA EmptyRange ==
  ASSUME NEW S, NEW s \in Seq(S)
  PROVE  (Range(s) = {} <=> s = <<>>) /\ (Len(s) = 0 <=> s = <<>>)
<1>1. CASE s = <<>>
  BY <1>1 DEF Range
<1>2. CASE s # <<>>
  <2>1. 1 \in DOMAIN s /\ Len(s) # 0
    BY <1>2, EmptySeq, LenProperties
  <2> QED
    BY <1>2, <2>1 DEF Range
<1> QED
  BY <1>1, <1>2

\* What sorting does to a sequence of distinct elements keeps them distinct.
LEMMA RearrangedDistinct ==
  ASSUME NEW S, NEW s \in Seq(S), NEW r \in [DOMAIN s -> Range(s)],
         IsInjective(s), Range(r) = Range(s)
  PROVE  IsInjective(r)
<1> DEFINE D == DOMAIN s  R == Range(s)
<1>1. IsFiniteSet(D) /\ Cardinality(D) \in Nat
  <2>1. D = 1 .. Len(s) /\ Len(s) \in Nat
    BY LenProperties
  <2> QED
    BY <2>1, FS_Interval, FS_CardinalityType
<1>2. s \in Bijection(D, R)
  BY LenProperties DEF Bijection, Injection, Surjection, Range
<1>3. IsFiniteSet(R) /\ Cardinality(R) = Cardinality(D)
  BY <1>1, <1>2, FS_Bijection DEF ExistsBijection
<1>4. r \in Surjection(D, R)
  BY DEF Surjection, Range
<1>5. r \in Injection(D, R)
  BY <1>1, <1>3, <1>4, FS_Surjection
<1> QED
  BY <1>5 DEF Injection

-----------------------------------------------------------------------------
(* The inductive invariant.                                                *)

\* A child is a followed target of one of its parents.
LEMMA ChildrenMember ==
  ASSUME NEW S
  PROVE  /\ \A t \in Children(S) : Followed(t) /\ \E i \in S : t \in Range(Targets(i))
         /\ \A i \in S : \A t \in Range(Targets(i)) : Followed(t) => t \in Children(S)
  BY DEF Children

\* Two sets of parents have the children of either.
LEMMA ChildrenUnion ==
  ASSUME NEW S, NEW T
  PROVE  Children(S \cup T) = Children(S) \cup Children(T)
  BY DEF Children

\* Nothing has been read when the first round begins.
LEMMA InvInit ==
  ASSUME Init
  PROVE  Inv
<1>1. /\ sized = Walk /\ round = Walk /\ seen = Range(Walk) /\ next = <<>>
      /\ pc = [g \in DOMAIN Walk |-> "unborn"] /\ pending = [g \in DOMAIN Walk |-> <<>>]
  BY DEF Init, LintInit, IncludesInit
<1>2. Walk \in Seq(Item) /\ Range(next) = {} /\ IsInjective(next)
  BY <1>1, LintAssumption DEF LintAssumption, Range, IsInjective
<1>3. SeenOnce
  BY <1>1, <1>2, LintAssumption DEF LintAssumption, SeenOnce, EachItemOnce, IsInjective
<1>4. PendingRead
  BY <1>1 DEF PendingRead, Goroutine, Range
<1>5. NextIsChildren
  BY <1>1, <1>2 DEF NextIsChildren, Goroutine, PastLoad
<1>6. PastIsClosed
  <2>1. Children(Range(sized) \ Range(round)) = {}
    BY <1>1 DEF Children
  <2> QED
    BY <2>1 DEF PastIsClosed
<1> QED
  BY <1>3, <1>4, <1>5, <1>6 DEF Inv

\* A step that reads no file and admits nothing.
Quiet ==
  /\ UNCHANGED <<sized, round, pending, incVars>>
  /\ \A g \in Goroutine :
       \/ pc'[g] = pc[g]
       \/ pc'[g] \notin PastLoad
       \/ pc[g] \in PastLoad \ {"admit"} /\ pc'[g] # "admit"

\* Such a step keeps the invariant.
LEMMA InvQuiet ==
  ASSUME Inv, Quiet
  PROVE  Inv'
<1>1. UNCHANGED <<sized, round, pending, seen, next, roundNo>> /\ Goroutine' = Goroutine
  BY DEF Quiet, incVars, Goroutine
<1>2. SeenOnce' /\ PastIsClosed'
  BY <1>1 DEF Inv, SeenOnce, EachItemOnce, PastIsClosed, Children
<1>3. PendingRead'
  BY <1>1 DEF Inv, Quiet, PendingRead, PastLoad
<1>4. NextIsChildren'
  <2>1. /\ Range(next') \subseteq Children(Range(round'))
        /\ roundNo' >= MaxIncludeRounds => next' = <<>>
    BY <1>1 DEF Inv, NextIsChildren
  <2>2. ASSUME roundNo < MaxIncludeRounds, NEW g \in Goroutine, pc'[g] \in PastLoad,
               NEW t \in Range(Targets(round[g])), Followed(t)
        PROVE  t \in seen \/ (pc'[g] = "admit" /\ t \in Range(pending[g]))
    BY <2>2 DEF Inv, NextIsChildren, Quiet
  <2> QED
    BY <1>1, <2>1, <2>2 DEF NextIsChildren
<1> QED
  BY <1>2, <1>3, <1>4 DEF Inv

\* Load hands Found everything the file names.
LEMMA InvLoad ==
  ASSUME TypeOK, Inv, NEW g \in Goroutine, Load(g)
  PROVE  Inv'
<1>1. /\ UNCHANGED <<sized, round, seen, next, roundNo>> /\ Goroutine' = Goroutine
      /\ pending' = [pending EXCEPT ![g] = Targets(round[g])]
      /\ pc' = [pc EXCEPT ![g] = IF Targets(round[g]) = <<>> THEN AfterFound(g) ELSE "admit"]
  BY DEF Load, Goto, incVars, Goroutine
<1>2. DOMAIN pc = Goroutine /\ DOMAIN pending = Goroutine
  BY DEF TypeOK
<1>3. AfterFound(g) # "admit"
  BY DEF AfterFound
<1>4. SeenOnce' /\ PastIsClosed'
  BY <1>1 DEF Inv, SeenOnce, EachItemOnce, PastIsClosed, Children
<1>5. PendingRead'
  BY <1>1, <1>2, <1>3 DEF Inv, PendingRead
<1>6. NextIsChildren'
  <2>1. /\ Range(next') \subseteq Children(Range(round'))
        /\ roundNo' >= MaxIncludeRounds => next' = <<>>
    BY <1>1 DEF Inv, NextIsChildren
  <2>2. ASSUME roundNo < MaxIncludeRounds, NEW h \in Goroutine, pc'[h] \in PastLoad,
               NEW t \in Range(Targets(round[h])), Followed(t)
        PROVE  t \in seen \/ (pc'[h] = "admit" /\ t \in Range(pending'[h]))
    <3>1. CASE h # g
      BY <1>1, <1>2, <2>2, <3>1 DEF Inv, NextIsChildren
    <3>2. CASE h = g
      <4>1. Targets(round[g]) # <<>>
        BY <2>2, <3>2 DEF Range
      <4> QED
        BY <1>1, <1>2, <2>2, <3>2, <4>1
    <3> QED
      BY <3>1, <3>2
  <2> QED
    BY <1>1, <2>1, <2>2 DEF NextIsChildren
<1> QED
  BY <1>4, <1>5, <1>6 DEF Inv

\* admit records a new item once, whoever else is admitting.
LEMMA InvAdmit ==
  ASSUME TypeOK, Inv, NEW g \in Goroutine, AdmitNext(g)
  PROVE  Inv'
<1> DEFINE t == Head(pending[g])
           new == Followed(t) /\ t \notin seen /\ roundNo < MaxIncludeRounds
<1>1. /\ UNCHANGED <<sized, round, roundNo>> /\ Goroutine' = Goroutine
      /\ pending' = [pending EXCEPT ![g] = Tail(pending[g])]
      /\ pc[g] = "admit"
      /\ pc' = [pc EXCEPT ![g] = IF Len(pending[g]) = 1 THEN AfterFound(g) ELSE "admit"]
      /\ IF new THEN seen' = seen \cup {t} /\ next' = Append(next, t)
                ELSE seen' = seen /\ next' = next
  BY DEF AdmitNext, Admit, Record, Goto, incVars, Goroutine
<1>2. /\ DOMAIN pc = Goroutine /\ DOMAIN pending = Goroutine
      /\ pending[g] \in Seq(Target) /\ pending[g] # <<>>
      /\ next \in Seq(Item) /\ round[g] \in Range(round)
  BY <1>1 DEF TypeOK, Inv, PendingRead, Target, Range, Goroutine
<1>3. /\ Range(pending[g]) = {t} \cup Range(Tail(pending[g]))
      /\ t \in Target /\ t \in Range(Targets(round[g]))
      /\ Len(pending[g]) # 1 => Tail(pending[g]) # <<>>
      /\ Len(pending[g]) = 1 => Range(Tail(pending[g])) = {}
  <2>1. Range(pending[g]) = {t} \cup Range(Tail(pending[g])) /\ t \in Range(pending[g])
    BY <1>2, HeadTailRange
  <2>2. t \in Target /\ Tail(pending[g]) \in Seq(Target) /\ Len(Tail(pending[g])) = Len(pending[g]) - 1
    BY <1>2, HeadTailProperties
  <2>3. Len(pending[g]) \in Nat
    BY <1>2, LenProperties
  <2>4. Len(pending[g]) = 1 <=> Tail(pending[g]) = <<>>
    <3>1. Len(Tail(pending[g])) = 0 <=> Tail(pending[g]) = <<>>
      BY <2>2, EmptyRange
    <3> QED
      BY ONLY <2>2, <2>3, <3>1
  <2>5. Len(pending[g]) = 1 => Range(Tail(pending[g])) = {}
    BY <2>2, <2>4, EmptyRange
  <2>6. t \in Range(Targets(round[g]))
    BY <2>1 DEF Inv, PendingRead
  <2> QED
    BY <2>1, <2>2, <2>4, <2>5, <2>6
<1>4. AfterFound(g) # "admit"
  BY DEF AfterFound
<1> HIDE DEF t
<1>5. ASSUME new
      PROVE  /\ Range(next') = Range(next) \cup {t}
             /\ t \notin Range(sized) /\ t \notin Range(next)
             /\ IsInjective(next')
  <2>1. t \in Item
    BY <1>3, <1>5, FollowedIsItem
  <2>2. t \notin Range(sized) /\ t \notin Range(next) /\ IsInjective(next)
    BY <1>5 DEF Inv, SeenOnce
  <2>3. next' = Append(next, t)
    BY <1>1, <1>5
  <2> QED
    BY <1>2, <2>1, <2>2, <2>3, AppendRange
<1>6. SeenOnce'
  <2>1. CASE new
    BY <1>1, <1>5, <2>1 DEF Inv, SeenOnce, EachItemOnce
  <2>2. CASE ~new
    BY <1>1, <2>2 DEF Inv, SeenOnce, EachItemOnce
  <2> QED
    BY <2>1, <2>2
<1>7. PendingRead'
  <2>1. ASSUME NEW h \in Goroutine
        PROVE  /\ Range(pending'[h]) \subseteq Range(Targets(round[h]))
               /\ pc'[h] = "admit" => pending'[h] # <<>>
    <3>1. CASE h # g
      BY <1>1, <1>2, <3>1 DEF Inv, PendingRead
    <3>2. CASE h = g
      BY <1>1, <1>2, <1>3, <1>4, <3>2 DEF Inv, PendingRead
    <3> QED
      BY <3>1, <3>2
  <2> QED
    BY <1>1, <2>1 DEF PendingRead
<1>8. NextIsChildren'
  <2>1. Range(next') \subseteq Children(Range(round))
    <3>1. CASE new
      <4>1. t \in Children(Range(round))
        BY <1>2, <1>3, <3>1, ChildrenMember
      <4> QED
        BY <1>5, <3>1, <4>1 DEF Inv, NextIsChildren
    <3>2. CASE ~new
      BY <1>1, <3>2 DEF Inv, NextIsChildren
    <3> QED
      BY <3>1, <3>2
  <2>2. roundNo >= MaxIncludeRounds => next' = <<>>
    <3>1. ASSUME roundNo >= MaxIncludeRounds PROVE ~new
      BY <3>1, IncludesAssumption DEF IncludesAssumption, TypeOK
    <3> QED
      BY <1>1, <3>1 DEF Inv, NextIsChildren
  <2>3. ASSUME roundNo < MaxIncludeRounds, NEW h \in Goroutine, pc'[h] \in PastLoad,
               NEW u \in Range(Targets(round[h])), Followed(u)
        PROVE  u \in seen' \/ (pc'[h] = "admit" /\ u \in Range(pending'[h]))
    <3>1. seen \subseteq seen'
      BY <1>1
    <3>2. CASE h # g
      BY <1>1, <1>2, <2>3, <3>1, <3>2 DEF Inv, NextIsChildren
    <3>3. CASE h = g
      <4>1. u \in seen \/ u \in Range(pending[g])
        BY <1>1, <2>3, <3>3 DEF Inv, NextIsChildren, PastLoad
      <4>2. CASE u = t
        BY <1>1, <2>3, <3>1, <4>2
      <4>3. CASE u \in Range(Tail(pending[g]))
        BY <1>1, <1>2, <1>3, <3>3, <4>3
      <4> QED
        BY <1>3, <3>1, <4>1, <4>2, <4>3
    <3> QED
      BY <3>2, <3>3
  <2> QED
    BY <1>1, <2>1, <2>2, <2>3 DEF NextIsChildren
<1>9. PastIsClosed'
  BY <1>1 DEF Inv, PastIsClosed, Children
<1> QED
  BY <1>6, <1>7, <1>8, <1>9 DEF Inv

\* The children of a round, once every goroutine is done, are the next round.
LEMMA NextIsComplete ==
  ASSUME TypeOK, Inv, \A g \in Goroutine : pc[g] = "done", roundNo < MaxIncludeRounds
  PROVE  Range(next) = Children(Range(round)) \ Range(sized)
<1>1. Range(next) \subseteq Children(Range(round)) \ Range(sized)
  BY DEF Inv, SeenOnce, NextIsChildren
<1>2. ASSUME NEW t \in Children(Range(round)) PROVE t \in seen
  <2>1. Followed(t) /\ \E i \in Range(round) : t \in Range(Targets(i))
    BY ChildrenMember
  <2>2. PICK g \in Goroutine : t \in Range(Targets(round[g]))
    BY <2>1 DEF Range, Goroutine
  <2>3. pc[g] \in PastLoad /\ pc[g] # "admit"
    BY <2>2 DEF PastLoad
  <2> QED
    BY <2>1, <2>2, <2>3 DEF Inv, NextIsChildren
<1> QED
  BY <1>1, <1>2 DEF Inv, SeenOnce

\* The facts of the step from one round to the next that the invariant and the
\* refinement share.
LEMMA RoundTurns ==
  ASSUME TypeOK, Inv, NEW r \in [DOMAIN next -> Range(next)], EndRound(r)
  PROVE  /\ round' = r /\ Range(r) = Range(next) /\ IsInjective(r)
         /\ Range(sized') = Range(sized) \cup Range(next) /\ IsInjective(sized')
         /\ seen' = seen /\ next' = <<>> /\ roundNo' = roundNo + 1
<1>1. /\ round' = r /\ sized' = sized \o r /\ seen' = seen /\ next' = <<>>
      /\ roundNo' = roundNo + 1 /\ Range(r) = Range(next)
  BY DEF EndRound, Begin, NextRound, SortedFrom
<1>2. next \in Seq(Item) /\ sized \in Seq(Item)
  BY DEF TypeOK
<1>3. IsInjective(r)
  BY <1>1, <1>2, RearrangedDistinct DEF Inv, SeenOnce
<1>4. r \in Seq(Item)
  <2>1. DOMAIN next = 1 .. Len(next) /\ Len(next) \in Nat /\ Range(next) \subseteq Item
    BY <1>2, LenProperties, ElementOfSeq DEF Range
  <2> QED
    BY <2>1
<1>5. IsInjective(sized) /\ Range(sized) \cap Range(r) = {}
  BY <1>1 DEF Inv, SeenOnce, EachItemOnce
<1>6. Range(sized \o r) = Range(sized) \cup Range(r) /\ IsInjective(sized \o r)
  BY <1>2, <1>3, <1>4, <1>5, ConcatRange
<1> QED
  BY <1>1, <1>3, <1>6

\* The round turns over with nothing lost and nothing repeated.
LEMMA InvEndRound ==
  ASSUME TypeOK, Inv, NEW r \in [DOMAIN next -> Range(next)], EndRound(r)
  PROVE  Inv'
<1>1. /\ round' = r /\ Range(r) = Range(next) /\ IsInjective(r)
      /\ Range(sized') = Range(sized) \cup Range(next) /\ IsInjective(sized')
      /\ seen' = seen /\ next' = <<>> /\ roundNo' = roundNo + 1
  BY RoundTurns
<1>2. Range(next') = {} /\ IsInjective(next')
  BY <1>1 DEF Range, IsInjective
<1>3. /\ pc' = [g \in DOMAIN r |-> "unborn"] /\ pending' = [g \in DOMAIN r |-> <<>>]
      /\ \A g \in Goroutine : pc[g] = "done"
  BY DEF EndRound, Begin
<1>4. SeenOnce'
  BY <1>1, <1>2 DEF Inv, SeenOnce, EachItemOnce
<1>5. PendingRead'
  BY <1>1, <1>3 DEF PendingRead, Goroutine, Range
<1>6. NextIsChildren'
  BY <1>1, <1>2, <1>3 DEF NextIsChildren, Goroutine, PastLoad
<1>7. PastIsClosed'
  <2>1. SUFFICES ASSUME roundNo + 1 <= MaxIncludeRounds
                 PROVE  Children(Range(sized') \ Range(r)) \subseteq Range(sized')
    BY <1>1 DEF PastIsClosed, Children
  <2>2. roundNo < MaxIncludeRounds /\ roundNo <= MaxIncludeRounds
    BY <2>1, IncludesAssumption DEF IncludesAssumption, TypeOK
  <2>3. Range(sized') \ Range(r) = (Range(sized) \ Range(round)) \cup Range(round)
    BY <1>1 DEF Inv, SeenOnce
  <2>4. Children(Range(sized) \ Range(round)) \subseteq Range(sized)
    BY <2>2 DEF Inv, PastIsClosed
  <2>5. Children(Range(round)) \subseteq Range(sized) \cup Range(next)
    BY <1>3, <2>2, NextIsComplete
  <2> QED
    BY <1>1, <2>3, <2>4, <2>5, ChildrenUnion
<1> QED
  BY <1>4, <1>5, <1>6, <1>7 DEF Inv

\* Every step keeps the invariant.
LEMMA InvStep ==
  ASSUME TypeOK, Inv, [Next]_lintVars
  PROVE  Inv'
<1>1. DOMAIN pc = Goroutine
  BY DEF TypeOK
<1>2. ASSUME NEW g \in Goroutine, NEW place, Goto(g, place),
             UNCHANGED <<sized, round, pending, incVars>>,
             place \notin PastLoad \/ (pc[g] \in PastLoad \ {"admit"} /\ place # "admit")
      PROVE  Quiet
  BY <1>1, <1>2 DEF Quiet, Goto
<1>3. ASSUME NEW g \in Goroutine, Spawn(g) PROVE Quiet
  BY <1>2, <1>3 DEF Spawn, PastLoad
<1>4. ASSUME NEW g \in Goroutine, Acquire(g) PROVE Quiet
  BY <1>2, <1>4 DEF Acquire, PastLoad
<1>5. ASSUME NEW g \in Goroutine, Fail(g) PROVE Quiet
  BY <1>2, <1>5 DEF Fail, AfterFailure, PastLoad
<1>6. ASSUME NEW g \in Goroutine, AppendFound(g) PROVE Quiet
  BY <1>2, <1>6 DEF AppendFound, PastLoad
<1>7. ASSUME NEW g \in Goroutine, Release(g) PROVE Quiet
  BY <1>2, <1>7 DEF Release, PastLoad
<1>8. ASSUME NEW g \in Goroutine, Notify(g) PROVE Quiet
  <2>1. Head(waiters).who \in Goroutine
    <3>1. waiters # <<>> /\ waiters \in Seq([who : Goroutine, weight : 1 .. Budget])
      BY <1>8 DEF Notify, Wake, TypeOK
    <3>2. Head(waiters) \in [who : Goroutine, weight : 1 .. Budget]
      BY <3>1, HeadTailProperties
    <3> QED
      BY <3>2
  <2> QED
    BY <1>2, <1>8, <2>1 DEF Notify, PastLoad
<1>9. ASSUME NEW g \in Goroutine, Return(g) PROVE Quiet
  BY <1>2, <1>9 DEF Return, PastLoad
<1>10. ASSUME UNCHANGED lintVars PROVE Quiet
  BY <1>10 DEF Quiet, lintVars, roundVars, incVars
<1>11. Quiet => Inv'
  BY InvQuiet
<1>12. ASSUME NEW g \in Goroutine, Work(g) PROVE Inv'
  <2>1. CASE Load(g)
    BY <2>1, InvLoad
  <2>2. CASE AdmitNext(g)
    BY <2>2, InvAdmit
  <2> QED
    BY <1>4, <1>5, <1>6, <1>7, <1>8, <1>9, <1>11, <1>12, <2>1, <2>2 DEF Work
<1>13. ASSUME NEW r \in [DOMAIN next -> Range(next)], EndRound(r) PROVE Inv'
  BY <1>13, InvEndRound
<1>14. Next => Inv'
  BY <1>3, <1>10, <1>11, <1>12, <1>13 DEF Next, LintNext, Finished
<1> QED
  BY <1>10, <1>11, <1>14

-----------------------------------------------------------------------------
(* Counting findings and items.                                            *)

\* A sequence of findings holds each of them a natural number of times.
LEMMA TimesType ==
  ASSUME NEW S, NEW s \in Seq(S), NEW f
  PROVE  Times(f, s) \in Nat /\ (s = <<>> => Times(f, s) = 0)
<1> DEFINE K == {k \in DOMAIN s : s[k] = f}
<1>1. IsFiniteSet(K)
  <2>1. Len(s) \in Nat /\ DOMAIN s = 1 .. Len(s)
    BY LenProperties
  <2>2. IsFiniteSet(1 .. Len(s))
    BY <2>1, FS_Interval
  <2>3. K \subseteq 1 .. Len(s)
    BY <2>1
  <2> HIDE DEF K
  <2> QED
    BY <2>2, <2>3, FS_Subset
<1>2. s = <<>> => K = {}
  OBVIOUS
<1> QED
  BY <1>1, <1>2, FS_CardinalityType, FS_EmptySet DEF Times

\* Two sequences in a row hold it as often as both.
LEMMA TimesConcat ==
  ASSUME NEW S, NEW s \in Seq(S), NEW r \in Seq(S), NEW f
  PROVE  Times(f, s \o r) = Times(f, s) + Times(f, r)
<1> DEFINE c == s \o r  n == Len(s)  m == Len(r)
           A == {k \in DOMAIN s : s[k] = f}
           B == {k \in DOMAIN r : r[k] = f}
           C == {k \in DOMAIN c : c[k] = f}
           shift == [k \in B |-> k + n]
<1>1. /\ n \in Nat /\ m \in Nat /\ DOMAIN s = 1 .. n /\ DOMAIN r = 1 .. m
      /\ c \in Seq(S) /\ DOMAIN c = 1 .. n + m
      /\ \A i \in 1 .. n + m : c[i] = IF i <= n THEN s[i] ELSE r[i - n]
  BY ConcatProperties, LenProperties
<1> HIDE DEF c, n, m
<1>2. IsFiniteSet(A) /\ IsFiniteSet(B)
  <2>1. IsFiniteSet(1 .. n) /\ IsFiniteSet(1 .. m)
    <3>1. 1 \in Int /\ n \in Int /\ m \in Int
      BY <1>1
    <3> QED
      BY <3>1, FS_Interval
  <2>2. A \subseteq 1 .. n /\ B \subseteq 1 .. m
    BY <1>1
  <2> HIDE DEF A, B
  <2> QED
    BY <2>1, <2>2, FS_Subset
<1>3. \A i \in 1 .. m : i + n \in 1 .. n + m /\ c[i + n] = r[i]
  BY <1>1
<1> DEFINE E == {k \in C : k > n}
<1>4. shift \in Bijection(B, E)
  <2>1. \A k \in B : k \in 1 .. m /\ k + n \in E
    BY <1>1, <1>3
  <2>2. \A j, k \in B : shift[j] = shift[k] => j = k
    BY <1>1
  <2>3. ASSUME NEW k \in E PROVE \E j \in B : shift[j] = k
    <3>1. k \in 1 .. n + m /\ k > n /\ c[k] = f
      BY <1>1
    <3>2. k - n \in 1 .. m /\ r[k - n] = f /\ (k - n) + n = k
      BY <1>1, <3>1
    <3> QED
      BY <1>1, <3>2
  <2> QED
    BY <2>1, <2>2, <2>3 DEF Bijection, Injection, Surjection, IsInjective
<1>5. IsFiniteSet(E) /\ Cardinality(E) = Cardinality(B)
  <2>1. ExistsBijection(B, E)
    BY <1>4 DEF ExistsBijection
  <2> QED
    BY <1>2, <2>1, FS_Bijection
<1>6. C = A \cup E /\ A \cap E = {}
  <2>1. ASSUME NEW k PROVE k \in A <=> k \in C /\ ~(k > n)
    BY <1>1
  <2> HIDE DEF A, C
  <2> QED
    BY <2>1
<1>7. Cardinality(C) = Cardinality(A) + Cardinality(E)
  <2> HIDE DEF A, C, E
  <2>1. Cardinality(C) = Cardinality(A) + Cardinality(E) - Cardinality(A \cap E)
    BY <1>2, <1>5, <1>6, FS_Union
  <2>2. Cardinality(A \cap E) = 0 /\ Cardinality(A) \in Nat /\ Cardinality(E) \in Nat
    BY <1>2, <1>5, <1>6, FS_EmptySet, FS_CardinalityType
  <2> QED
    BY <2>1, <2>2
<1> QED
  BY <1>5, <1>7 DEF Times, c

\* A sequence has finitely many elements.
LEMMA FiniteRange ==
  ASSUME NEW S, NEW s \in Seq(S)
  PROVE  IsFiniteSet(Range(s))
<1>1. IsFiniteSet(1 .. Len(s)) /\ DOMAIN s = 1 .. Len(s)
  BY LenProperties, FS_Interval
<1>2. s \in Surjection(DOMAIN s, Range(s))
  BY <1>1 DEF Surjection, Range
<1> QED
  BY <1>1, <1>2, FS_Surjection DEF ExistsSurjection

\* Children are items.
LEMMA ChildrenType ==
  ASSUME NEW S \in SUBSET Item
  PROVE  Children(S) \subseteq Item
<1>1. ASSUME NEW t \in Children(S) PROVE t \in Item
  <2>1. Followed(t) /\ \E i \in S : t \in Range(Targets(i))
    BY ChildrenMember
  <2>2. PICK i \in S : t \in Range(Targets(i))
    BY <2>1
  <2>3. Targets(i) \in Seq(Target)
    BY TargetsType
  <2>4. t \in Target
    BY <2>2, <2>3, ElementOfSeq, LenProperties DEF Range
  <2> QED
    BY <2>1, <2>4, FollowedIsItem
<1> QED
  BY <1>1

\* Within is the recursion it is written as.
LEMMA WithinIs ==
  /\ Within[0] = Range(Walk)
  /\ \A n \in Nat : /\ Within[n] \subseteq Item
                    /\ Within[n + 1] = Within[n] \cup Children(Within[n])
<1> DEFINE h == [S \in SUBSET Item |-> S \cup Children(S)]
           Unfolds(W) == W = [n \in Nat |->
                                IF n = 0 THEN Range(Walk)
                                ELSE LET before == W[n - 1] IN before \cup Children(before)]
<1>1. Range(Walk) \in SUBSET Item
  BY LintAssumption, ElementOfSeq, LenProperties DEF LintAssumption, Range
<1>2. h \in [SUBSET Item -> SUBSET Item]
  BY ChildrenType
<1>3. PICK W \in [Nat -> SUBSET Item] : W[0] = Range(Walk) /\ \A n \in Nat : W[n + 1] = h[W[n]]
  <2> DEFINE D == SUBSET Item
             base == Range(Walk)
  <2>1. base \in D /\ h \in [D -> D]
    BY <1>1, <1>2
  <2> HIDE DEF h, D, base
  <2>2. \E W \in [Nat -> D] : W[0] = base /\ \A n \in Nat : W[n + 1] = h[W[n]]
    BY <2>1, NatRecursion DEF Iterates
  <2> QED
    BY <2>2 DEF D, base
<1>4. ASSUME NEW n \in Nat, n # 0 PROVE W[n] = W[n - 1] \cup Children(W[n - 1])
  <2>1. n - 1 \in Nat /\ (n - 1) + 1 = n
    BY <1>4
  <2>2. W[n] = h[W[n - 1]]
    BY <1>3, <2>1
  <2>3. W[n - 1] \in SUBSET Item
    BY <2>1
  <2> QED
    BY <2>2, <2>3
<1>5. Unfolds(W)
  <2> HIDE DEF h
  <2> QED
    BY <1>3, <1>4
<1>6. Within = CHOOSE V : Unfolds(V)
  BY DEF Within
<1>7. Unfolds(Within)
  <2> HIDE DEF Unfolds
  <2> QED
    BY <1>5, <1>6
<1>8. Within[0] = Range(Walk)
  BY <1>7
<1>9. ASSUME NEW n \in Nat PROVE Within[n + 1] = Within[n] \cup Children(Within[n])
  <2>1. n + 1 \in Nat /\ n + 1 # 0 /\ (n + 1) - 1 = n
    OBVIOUS
  <2>2. Within[n + 1] = IF n + 1 = 0 THEN Range(Walk)
                        ELSE Within[(n + 1) - 1] \cup Children(Within[(n + 1) - 1])
    BY <1>7, <2>1
  <2> QED
    BY <2>1, <2>2
<1> DEFINE N == {n \in Nat : Within[n] \subseteq Item}
<1>10. Nat \subseteq N
  <2>1. 0 \in N
    BY <1>1, <1>8
  <2>2. ASSUME NEW n \in Nat, n \in N PROVE n + 1 \in N
    <3>1. Children(Within[n]) \subseteq Item
      BY <2>2, ChildrenType
    <3> QED
      BY <1>9, <2>2, <3>1
  <2> HIDE DEF N
  <2> QED
    BY <2>1, <2>2, NatSetInduction
<1> QED
  BY <1>8, <1>9, <1>10

\* Once it is closed under includes it grows no more.
LEMMA WithinStable ==
  ASSUME NEW m \in Nat, Children(Within[m]) \subseteq Within[m]
  PROVE  \A n \in Nat : n >= m => Within[n] = Within[m]
<1> DEFINE N == {n \in Nat : n >= m => Within[n] = Within[m]}
<1>1. 0 \in N
  OBVIOUS
<1>2. ASSUME NEW n \in Nat, n \in N PROVE n + 1 \in N
  <2>1. CASE n >= m
    <3>1. Within[n + 1] = Within[n] \cup Children(Within[n])
      BY WithinIs
    <3>2. Within[n] = Within[m]
      BY <1>2, <2>1
    <3>3. Within[n + 1] = Within[m]
      BY <3>1, <3>2
    <3> QED
      BY <3>3
  <2>2. CASE ~(n >= m)
    <3>1. n + 1 >= m => n + 1 = m
      BY <2>2
    <3> QED
      BY <3>1
  <2> QED
    BY <2>1, <2>2
<1>3. Nat \subseteq N
  <2> HIDE DEF N
  <2> QED
    BY <1>1, <1>2, NatSetInduction
<1> QED
  BY <1>3

-----------------------------------------------------------------------------
(* A goroutine moves from one place to another.                            *)

\* What is known of a goroutine's item.
LEMMA RoundItem ==
  ASSUME TypeOK, NEW g \in Goroutine
  PROVE  /\ round[g] \in Item /\ round[g] \in Range(round)
         /\ Weight(round[g]) \in Nat \ {0} /\ Weight(round[g]) <= Budget
         /\ Findings(round[g]) \in Seq(Finding)
<1>1. round \in Seq(Item)
  BY DEF TypeOK
<1>2. g \in 1 .. Len(round)
  BY <1>1, LenProperties DEF Goroutine
<1>3. round[g] \in Item
  BY <1>1, <1>2, ElementOfSeq
<1>4. round[g] \in Range(round)
  BY DEF Goroutine, Range
<1>5. Weight(round[g]) \in 1 .. Budget /\ Budget \in Nat
  BY <1>3, WeightType, BudgetAssumption DEF BudgetAssumption
<1> QED
  BY <1>3, <1>4, <1>5, FindingsType

\* The goroutines of a round are finitely many.
LEMMA FiniteRound ==
  ASSUME TypeOK, NEW S \in SUBSET Goroutine
  PROVE  IsFiniteSet(S)
<1>1. Goroutine = 1 .. Len(round) /\ Len(round) \in Nat
  BY LenProperties DEF TypeOK, Goroutine
<1>2. IsFiniteSet(Goroutine)
  BY <1>1, FS_Interval
<1> QED
  BY <1>2, FS_Subset

\* Where everybody is once one has moved.
LEMMA AtMove ==
  ASSUME TypeOK, NEW g \in Goroutine, NEW place, Goto(g, place), UNCHANGED round, NEW P
  PROVE  At(P)' = IF place \in P THEN At(P) \cup {g} ELSE At(P) \ {g}
<1>1. DOMAIN pc = Goroutine /\ Goroutine' = Goroutine
  BY DEF TypeOK, Goroutine
<1> QED
  BY <1>1 DEF Goto, At

\* The items at some places are finitely many items.
LEMMA ItemsAtType ==
  ASSUME TypeOK, SeenOnce, NEW P
  PROVE  IsFiniteSet(ItemsAt(P)) /\ ItemsAt(P) \subseteq Item /\ ItemsAt(P) \subseteq Range(sized)
<1>1. {round[g] : g \in At(P)} \subseteq Range(round)
  BY DEF At, Goroutine, Range
<1>2. ItemsAt(P) \subseteq Range(sized)
  BY <1>1 DEF ItemsAt, SeenOnce
<1>3. sized \in Seq(Item)
  BY DEF TypeOK
<1>4. IsFiniteSet(Range(sized))
  BY <1>3, FiniteRange
<1>5. Range(sized) \subseteq Item
  BY <1>3, ElementOfSeq, LenProperties DEF Range
<1>6. IsFiniteSet(ItemsAt(P))
  BY <1>2, <1>4, FS_Subset
<1> QED
  BY <1>2, <1>5, <1>6

\* No two goroutines of a round have the same item, so that a move into the
\* places adds one item to those there.
LEMMA ItemsMove ==
  ASSUME TypeOK, SeenOnce, NEW g \in Goroutine, NEW place, Goto(g, place),
         UNCHANGED <<sized, round>>, NEW P
  PROVE  /\ (place \in P <=> pc[g] \in P) => ItemsAt(P)' = ItemsAt(P)
         /\ place \in P /\ pc[g] \notin P =>
              round[g] \notin ItemsAt(P) /\ ItemsAt(P)' = ItemsAt(P) \cup {round[g]}
<1>1. At(P)' = IF place \in P THEN At(P) \cup {g} ELSE At(P) \ {g}
  BY AtMove
<1>2. ItemsAt(P)' = (Range(sized) \ Range(round)) \cup {round[h] : h \in At(P)'}
  BY DEF ItemsAt
<1>3. g \in At(P) <=> pc[g] \in P
  BY DEF At
<1>4. ASSUME pc[g] \notin P PROVE round[g] \notin ItemsAt(P)
  <2>1. round[g] \in Range(round)
    BY RoundItem
  <2>2. ASSUME NEW h \in At(P) PROVE round[h] # round[g]
    <3>1. h \in Goroutine /\ h # g
      BY <1>4 DEF At
    <3> QED
      BY <3>1 DEF SeenOnce, IsInjective, Goroutine
  <2> QED
    BY <2>1, <2>2 DEF ItemsAt
<1>5. ASSUME place \in P <=> pc[g] \in P PROVE ItemsAt(P)' = ItemsAt(P)
  <2>1. At(P)' = At(P)
    BY <1>1, <1>3, <1>5
  <2> QED
    BY <1>2, <2>1 DEF ItemsAt
<1>6. ASSUME place \in P PROVE ItemsAt(P)' = ItemsAt(P) \cup {round[g]}
  <2>1. At(P)' = At(P) \cup {g}
    BY <1>1, <1>6
  <2> QED
    BY <1>2, <2>1 DEF ItemsAt
<1> QED
  BY <1>4, <1>5, <1>6

\* The semaphore's counter follows a goroutine that takes or gives back its
\* weight.
LEMMA CurMove ==
  ASSUME TypeOK, CurIsHeld, NEW g \in Goroutine, NEW place, Goto(g, place), UNCHANGED round,
         \/ (place \in Holding <=> pc[g] \in Holding) /\ cur' = cur
         \/ place \in Holding /\ pc[g] \notin Holding /\ cur' = cur + Weight(round[g])
         \/ place \notin Holding /\ pc[g] \in Holding /\ cur' = cur - Weight(round[g])
  PROVE  CurIsHeld'
<1> DEFINE w == [h \in Goroutine |-> Weight(round[h])]
           Sum(S) == SumFunctionOnSet(w, S)
<1>1. cur = Sum(Holders) /\ (CurIsHeld' <=> cur' = Sum(Holders'))
  BY DEF CurIsHeld, Goroutine
<1>2. Holders' = IF place \in Holding THEN Holders \cup {g} ELSE Holders \ {g}
  BY AtMove DEF Holders
<1>3. g \in Holders <=> pc[g] \in Holding
  BY DEF Holders, At
<1>4. Holders \subseteq Goroutine
  BY DEF Holders, At
<1>5. \A h \in Goroutine : w[h] \in Nat
  BY RoundItem
<1>6. w[g] = Weight(round[g])
  OBVIOUS
<1>7. IsFiniteSet(Holders)
  BY <1>4, FiniteRound
<1>8. Sum(Holders) \in Nat
  <2> HIDE DEF w
  <2> QED
    BY <1>4, <1>5, <1>7, SumNat
<1>9. CASE (place \in Holding <=> pc[g] \in Holding) /\ cur' = cur
  <2>1. Holders' = Holders
    BY <1>2, <1>3, <1>9
  <2> QED
    BY <1>1, <1>9, <2>1
<1>10. CASE place \in Holding /\ pc[g] \notin Holding /\ cur' = cur + Weight(round[g])
  <2>1. Sum(Holders \cup {g}) = w[g] + Sum(Holders)
    <3> HIDE DEF w
    <3> QED
      BY <1>3, <1>4, <1>5, <1>7, <1>10, SumAdd
  <2>2. Holders' = Holders \cup {g}
    BY <1>2, <1>10
  <2> HIDE DEF w, Sum
  <2> QED
    BY <1>1, <1>5, <1>6, <1>8, <1>10, <2>1, <2>2
<1>11. CASE place \notin Holding /\ pc[g] \in Holding /\ cur' = cur - Weight(round[g])
  <2>1. Sum(Holders) = w[g] + Sum(Holders \ {g})
    <3> HIDE DEF w
    <3> QED
      BY <1>3, <1>4, <1>5, <1>7, <1>11, SumElement
  <2>2. Holders' = Holders \ {g}
    BY <1>2, <1>11
  <2>3. IsFiniteSet(Holders \ {g})
    BY <1>7, FS_Subset
  <2>4. Sum(Holders \ {g}) \in Nat
    <3> HIDE DEF w
    <3> QED
      BY <1>4, <1>5, <2>3, SumNat
  <2> HIDE DEF w, Sum
  <2> QED
    BY <1>1, <1>5, <1>6, <1>8, <1>11, <2>1, <2>2, <2>4
<1> QED
  BY <1>9, <1>10, <1>11

\* The count of failures follows a goroutine through the first section.
LEMMA FailuresMove ==
  ASSUME NEW soft \in Nat, TypeOK, SeenOnce, FailuresCounted(soft),
         NEW g \in Goroutine, NEW place, Goto(g, place), UNCHANGED <<sized, round, unchecked>>,
         place = "fail" => Failure(round[g]),
         \/ (place \in PastFail <=> pc[g] \in PastFail) /\ failed' = failed
         \/ /\ place \in PastFail /\ pc[g] \notin PastFail
            /\ failed' = IF Failure(round[g]) THEN failed + 1 ELSE failed
  PROVE  FailuresCounted(soft)'
<1> DEFINE Past == ItemsAt(PastFail)
           F(S) == {i \in S : Failure(i)}
<1>1. unchecked + failed = soft + Cardinality(F(Past))
  BY DEF FailuresCounted
<1>2. IsFiniteSet(Past) /\ IsFiniteSet(F(Past)) /\ Cardinality(F(Past)) \in Nat
  <2>1. IsFiniteSet(Past)
    BY ItemsAtType
  <2> HIDE DEF Past
  <2>2. F(Past) \in SUBSET Past
    OBVIOUS
  <2>3. IsFiniteSet(F(Past))
    BY <2>1, <2>2, FS_Subset
  <2> QED
    BY <2>1, <2>3, FS_CardinalityType
<1>3. /\ (place \in PastFail <=> pc[g] \in PastFail) => Past' = Past
      /\ place \in PastFail /\ pc[g] \notin PastFail =>
           round[g] \notin Past /\ Past' = Past \cup {round[g]}
  BY ItemsMove
<1>4. \A h \in Goroutine' : pc'[h] = "fail" => Failure(round'[h])
  BY DEF FailuresCounted, Goto, Goroutine, TypeOK
<1>5. unchecked' + failed' = soft + Cardinality(F(Past'))
  <2> HIDE DEF Past
  <2>1. CASE (place \in PastFail <=> pc[g] \in PastFail) /\ failed' = failed
    BY <1>1, <1>3, <2>1
  <2>2. CASE /\ place \in PastFail /\ pc[g] \notin PastFail
             /\ failed' = IF Failure(round[g]) THEN failed + 1 ELSE failed
    <3>1. F(Past') = IF Failure(round[g]) THEN F(Past) \cup {round[g]} ELSE F(Past)
      BY <1>3, <2>2
    <3>2. round[g] \notin F(Past)
      BY <1>3, <2>2
    <3>3. Cardinality(F(Past) \cup {round[g]}) = Cardinality(F(Past)) + 1
      <4> HIDE DEF F
      <4> QED
        BY <1>2, <3>2, FS_AddElement
    <3>4. unchecked \in Nat /\ failed \in Nat
      BY DEF TypeOK
    <3> HIDE DEF F
    <3> QED
      BY <1>1, <1>2, <2>2, <3>1, <3>3, <3>4
  <2> QED
    BY <2>1, <2>2
<1> QED
  BY <1>4, <1>5 DEF FailuresCounted

\* What is kept follows a goroutine through the second.
LEMMA KeptMove ==
  ASSUME TypeOK, SeenOnce, FindingsKept,
         NEW g \in Goroutine, NEW place, Goto(g, place), UNCHANGED <<sized, round, all>>,
         \/ (place \in PastAppend <=> pc[g] \in PastAppend) /\ found' = found
         \/ /\ place \in PastAppend /\ pc[g] \notin PastAppend
            /\ \/ found' = found \o Findings(round[g])
               \/ found' = found /\ Findings(round[g]) = <<>>
  PROVE  FindingsKept'
<1> DEFINE Past == ItemsAt(PastAppend)
<1>1. /\ (place \in PastAppend <=> pc[g] \in PastAppend) => Past' = Past
      /\ place \in PastAppend /\ pc[g] \notin PastAppend =>
           round[g] \notin Past /\ Past' = Past \cup {round[g]}
  BY ItemsMove
<1>2. IsFiniteSet(Past) /\ Past \subseteq Item
  BY ItemsAtType
<1>3. round[g] \in Item /\ Findings(round[g]) \in Seq(Finding)
  BY RoundItem
<1>4. ASSUME NEW f \in Finding
      PROVE  Times(f, all') + Times(f, found') =
               SumFunctionOnSet([i \in Item |-> Times(f, Findings(i))], Past')
  <2> DEFINE w == [i \in Item |-> Times(f, Findings(i))]
             Sum(S) == SumFunctionOnSet(w, S)
  <2>1. Times(f, all) + Times(f, found) = Sum(Past)
    BY DEF FindingsKept
  <2>2. \A i \in Item : w[i] \in Nat
    BY FindingsType, TimesType
  <2>3. w[round[g]] = Times(f, Findings(round[g]))
    BY <1>3
  <2>4. Times(f, all) \in Nat /\ Times(f, found) \in Nat
    BY TimesType DEF TypeOK
  <2> HIDE DEF Past
  <2>5. CASE (place \in PastAppend <=> pc[g] \in PastAppend) /\ found' = found
    BY <1>1, <2>1, <2>5
  <2>6. CASE place \in PastAppend /\ pc[g] \notin PastAppend
    <3>1. Sum(Past') = w[round[g]] + Sum(Past)
      <4> HIDE DEF w
      <4> QED
        BY <1>1, <1>2, <1>3, <2>2, <2>6, SumAdd
    <3>2. CASE found' = found \o Findings(round[g])
      <4>1. Times(f, found') = Times(f, found) + Times(f, Findings(round[g]))
        BY <1>3, <3>2, TimesConcat DEF TypeOK
      <4> HIDE DEF w, Sum
      <4> QED
        BY <1>3, <2>1, <2>2, <2>3, <2>4, <3>1, <4>1 DEF w, Sum
    <3>3. CASE found' = found /\ Findings(round[g]) = <<>>
      <4>1. w[round[g]] = 0
        BY <1>3, <2>3, <3>3, TimesType
      <4> QED
        BY <2>1, <2>4, <3>1, <3>3, <4>1
    <3> QED
      BY <2>6, <3>2, <3>3
  <2> QED
    BY <2>5, <2>6
<1> QED
  BY <1>4 DEF FindingsKept

-----------------------------------------------------------------------------
(* The ledger.                                                             *)

\* Nothing has been counted when the first round begins.
LEMMA LedgerInit ==
  ASSUME NEW soft \in Nat, LintInit(soft)
  PROVE  Ledger(soft)
<1>1. /\ sized = Walk /\ round = Walk /\ roundNo = 0 /\ cur = 0 /\ waiters = <<>> /\ spawned = 0
      /\ pc = [g \in DOMAIN Walk |-> "unborn"] /\ found = <<>> /\ all = <<>>
      /\ unchecked = soft /\ failed = 0
  BY DEF LintInit, SemInit, IncludesInit
<1>2. \A P : "unborn" \notin P => At(P) = {}
  BY <1>1 DEF At, Goroutine
<1>3. Holders = {} /\ ItemsAt(PastFail) = {} /\ ItemsAt(PastAppend) = {}
  BY <1>1, <1>2 DEF Holders, Holding, ItemsAt, PastFail, PastAppend
<1>4. SpawnedInOrder
  <2>1. DOMAIN Walk = 1 .. Len(Walk) /\ Len(Walk) \in Nat
    BY LintAssumption, LenProperties DEF LintAssumption
  <2> QED
    BY <1>1, <2>1 DEF SpawnedInOrder, Goroutine
<1>5. QueueIsBlocked
  BY <1>1 DEF QueueIsBlocked
<1>6. CurIsHeld
  BY <1>1, <1>3, SumEmpty DEF CurIsHeld
<1>7. SizedIsWithin
  BY <1>1, WithinIs, IncludesAssumption DEF IncludesAssumption, SizedIsWithin
<1>8. FailuresCounted(soft)
  <2>1. {i \in ItemsAt(PastFail) : Failure(i)} = {}
    BY <1>3
  <2> QED
    BY <1>1, <2>1, FS_EmptySet DEF FailuresCounted, Goroutine
<1>9. FindingsKept
  <2>1. <<>> \in Seq(Finding)
    OBVIOUS
  <2>2. \A f : Times(f, <<>>) = 0
    BY <2>1, TimesType
  <2> QED
    BY <1>1, <1>3, <2>2, SumEmpty DEF FindingsKept
<1>10. EmptyRound
  BY <1>1 DEF EmptyRound
<1> QED
  BY <1>4, <1>5, <1>6, <1>7, <1>8, <1>9, <1>10 DEF Ledger

\* A step that leaves the queue alone keeps it while nobody in it moves.
LEMMA QueueStays ==
  ASSUME TypeOK, QueueIsBlocked, NEW g \in Goroutine, NEW place, Goto(g, place),
         UNCHANGED <<round, waiters>>, pc[g] # "queued"
  PROVE  QueueIsBlocked'
<1>1. DOMAIN pc = Goroutine
  BY DEF TypeOK
<1>2. ASSUME NEW k \in DOMAIN waiters PROVE pc'[waiters[k].who] = pc[waiters[k].who]
  <2>1. waiters[k].who # g
    BY DEF QueueIsBlocked
  <2>2. waiters[k].who \in Goroutine
    <3>1. waiters \in Seq([who : Goroutine, weight : 1 .. Budget])
      BY DEF TypeOK
    <3>2. waiters[k] \in [who : Goroutine, weight : 1 .. Budget]
      BY <3>1, ElementOfSeq, LenProperties
    <3> QED
      BY <3>2
  <2> QED
    BY <1>1, <2>1, <2>2 DEF Goto
<1> QED
  BY <1>2 DEF QueueIsBlocked

\* A goroutine queues behind the others.
LEMMA QueueGrows ==
  ASSUME TypeOK, QueueIsBlocked, NEW g \in Goroutine, Goto(g, "queued"), UNCHANGED round,
         waiters' = Append(waiters, [who |-> g, weight |-> Weight(round[g])]),
         pc[g] # "queued"
  PROVE  QueueIsBlocked'
<1> DEFINE W == [who : Goroutine, weight : 1 .. Budget]
           new == [who |-> g, weight |-> Weight(round[g])]
           n == Len(waiters)
<1>1. waiters \in Seq(W) /\ DOMAIN pc = Goroutine
  BY DEF TypeOK
<1>2. new \in W
  BY RoundItem, BudgetAssumption DEF BudgetAssumption
<1>3. /\ n \in Nat /\ DOMAIN waiters = 1 .. n /\ DOMAIN waiters' = 1 .. n + 1
      /\ \A k \in 1 .. n : waiters'[k] = waiters[k]
      /\ waiters'[n + 1] = new
  <2> HIDE DEF W, new
  <2> QED
    BY <1>1, <1>2 DEF new
<1>4. \A k \in 1 .. n : waiters[k] \in W
  <2> HIDE DEF W
  <2> QED
    BY <1>1, <1>3, ElementOfSeq
<1>5. \A k \in 1 .. n : waiters[k].who # g /\ pc'[waiters[k].who] = "queued"
  BY <1>1, <1>3, <1>4 DEF QueueIsBlocked, Goto
<1>6. pc'[g] = "queued"
  BY <1>1 DEF Goto
<1> HIDE DEF n
<1>7. \A k \in 1 .. n + 1 : k \in 1 .. n \/ k = n + 1
  BY <1>3
<1> QED
  BY <1>3, <1>5, <1>6, <1>7 DEF QueueIsBlocked

\* The front of the queue leaves it.
LEMMA QueueShrinks ==
  ASSUME TypeOK, QueueIsBlocked, waiters # <<>>, Goto(Head(waiters).who, "load"),
         UNCHANGED round, waiters' = Tail(waiters)
  PROVE  /\ QueueIsBlocked'
         /\ Head(waiters).who \in Goroutine /\ pc[Head(waiters).who] = "queued"
         /\ Head(waiters).weight = Weight(round[Head(waiters).who])
<1> DEFINE W == [who : Goroutine, weight : 1 .. Budget]
           n == Len(waiters)
<1>1. waiters \in Seq(W) /\ DOMAIN pc = Goroutine
  BY DEF TypeOK
<1>2. /\ n \in Nat \ {0} /\ DOMAIN waiters = 1 .. n /\ DOMAIN waiters' = 1 .. n - 1
      /\ \A k \in 1 .. n - 1 : waiters'[k] = waiters[k + 1]
      /\ Head(waiters) = waiters[1]
  <2> HIDE DEF W
  <2> QED
    BY <1>1, EmptySeq, LenProperties, HeadTailProperties
<1>3. \A k \in 1 .. n : waiters[k] \in W
  <2> HIDE DEF W
  <2> QED
    BY <1>1, <1>2, ElementOfSeq
<1> HIDE DEF n
<1>4. 1 \in 1 .. n /\ \A k \in 1 .. n - 1 : k + 1 \in 1 .. n /\ k + 1 # 1
  BY <1>2
<1>5. ASSUME NEW k \in 1 .. n - 1
      PROVE  /\ pc'[waiters[k + 1].who] = "queued"
             /\ waiters[k + 1].weight = Weight(round[waiters[k + 1].who])
  <2>1. waiters[k + 1].who # waiters[1].who
    BY <1>2, <1>4 DEF QueueIsBlocked
  <2>2. waiters[k + 1].who \in Goroutine
    BY <1>3, <1>4
  <2> QED
    BY <1>1, <1>2, <1>4, <2>1, <2>2 DEF QueueIsBlocked, Goto
<1>6. ASSUME NEW j \in 1 .. n - 1, NEW k \in 1 .. n - 1, waiters[j + 1].who = waiters[k + 1].who
      PROVE  j = k
  <2>1. j + 1 = k + 1
    BY <1>2, <1>4, <1>6 DEF QueueIsBlocked
  <2> QED
    BY <1>2, <2>1
<1>7. QueueIsBlocked'
  BY <1>2, <1>5, <1>6 DEF QueueIsBlocked
<1> QED
  BY <1>2, <1>3, <1>4, <1>7 DEF QueueIsBlocked

\* Who is spawned stays so: no goroutine goes back to being unborn.
LEMMA SpawnedStays ==
  ASSUME TypeOK, SpawnedInOrder, NEW g \in Goroutine, NEW place, Goto(g, place),
         UNCHANGED <<round, spawned>>, pc[g] # "unborn", place # "unborn"
  PROVE  SpawnedInOrder'
<1>1. DOMAIN pc = Goroutine /\ Goroutine' = Goroutine
  BY DEF TypeOK, Goroutine
<1>2. \A h \in Goroutine : pc'[h] = "unborn" <=> pc[h] = "unborn"
  BY <1>1 DEF Goto
<1> QED
  BY <1>1, <1>2 DEF SpawnedInOrder

\* Each step of a goroutine keeps the ledger.
LEMMA LedgerWork ==
  ASSUME NEW soft \in Nat, TypeOK, SeenOnce, Ledger(soft),
         NEW g \in Goroutine, Spawn(g) \/ Work(g)
  PROVE  Ledger(soft)'
<1> USE DEF Ledger
<1>1. UNCHANGED <<sized, round, roundNo, all, unchecked>>
  BY DEF Spawn, Work, Acquire, Load, AdmitNext, Admit, Record, Fail, AppendFound, Release, Notify,
         Return, incVars, totals
<1>2. SizedIsWithin' /\ EmptyRound'
  BY <1>1 DEF SizedIsWithin, EmptyRound, Goroutine
<1>3. /\ AfterFound(g) \in {"fail", "append", "release"}
      /\ AfterFound(g) = "fail" <=> Failure(round[g])
      /\ AfterFound(g) = "release" => Findings(round[g]) = <<>>
      /\ AfterFailure(g) \in {"append", "release"}
      /\ AfterFailure(g) = "release" => Findings(round[g]) = <<>>
  BY DEF AfterFound, AfterFailure
<1>4. CASE Spawn(g)
  <2>1. Goto(g, "acquire") /\ spawned' = g /\ g = spawned + 1 /\ spawned \in Nat
        /\ UNCHANGED <<cur, waiters, found, failed>>
    BY <1>4 DEF Spawn, semVars, TypeOK
  <2>2. pc[g] = "unborn"
    BY <2>1 DEF SpawnedInOrder
  <2>3. SpawnedInOrder'
    <3>1. DOMAIN pc = Goroutine /\ Goroutine' = Goroutine /\ Goroutine \subseteq Nat
      BY <1>1, LenProperties DEF TypeOK, Goroutine
    <3>2. \A h \in Goroutine : pc'[h] = IF h = g THEN "acquire" ELSE pc[h]
      BY <2>1, <3>1 DEF Goto
    <3> QED
      BY <2>1, <2>2, <3>1, <3>2 DEF SpawnedInOrder
  <2>4. QueueIsBlocked'
    BY <1>1, <2>1, <2>2, QueueStays
  <2>5. CurIsHeld'
    BY <1>1, <2>1, <2>2, CurMove DEF Holding
  <2>6. FailuresCounted(soft)' /\ FindingsKept'
    BY <1>1, <2>1, <2>2, FailuresMove, KeptMove DEF PastFail, PastAppend
  <2> QED
    BY <1>2, <2>3, <2>4, <2>5, <2>6
<1>5. CASE Acquire(g)
  <2>1. pc[g] = "acquire" /\ UNCHANGED <<spawned, found, failed>>
    BY <1>5 DEF Acquire
  <2>2. CASE AcquireNow(Weight(round[g])) /\ Goto(g, "load")
    <3>1. cur' = cur + Weight(round[g]) /\ waiters' = waiters
      BY <2>2 DEF AcquireNow
    <3>2. CurIsHeld'
      BY <1>1, <2>1, <2>2, <3>1, CurMove DEF Holding
    <3>3. FailuresCounted(soft)' /\ FindingsKept'
      BY <1>1, <2>1, <2>2, FailuresMove, KeptMove DEF PastFail, PastAppend
    <3>4. SpawnedInOrder' /\ QueueIsBlocked'
      BY <1>1, <2>1, <2>2, <3>1, SpawnedStays, QueueStays
    <3> QED
      BY <1>2, <3>2, <3>3, <3>4
  <2>3. CASE AcquireLater(g, Weight(round[g])) /\ Goto(g, "queued")
    <3>1. /\ cur' = cur
          /\ waiters' = Append(waiters, [who |-> g, weight |-> Weight(round[g])])
      BY <2>3 DEF AcquireLater
    <3>2. CurIsHeld'
      BY <1>1, <2>1, <2>3, <3>1, CurMove DEF Holding
    <3>3. FailuresCounted(soft)' /\ FindingsKept'
      BY <1>1, <2>1, <2>3, FailuresMove, KeptMove DEF PastFail, PastAppend
    <3>4. SpawnedInOrder' /\ QueueIsBlocked'
      BY <1>1, <2>1, <2>3, <3>1, SpawnedStays, QueueGrows
    <3> QED
      BY <1>2, <3>2, <3>3, <3>4
  <2> QED
    BY <1>5, <2>2, <2>3 DEF Acquire
<1>6. ASSUME NEW place, Goto(g, place), UNCHANGED <<spawned, waiters, cur, found, failed>>,
             place \in {"admit", "fail", "append", "release"}, pc[g] \in {"load", "admit"},
             place # "admit" => place = AfterFound(g)
      PROVE  Ledger(soft)'
  <2>1. SpawnedInOrder' /\ QueueIsBlocked'
    BY <1>1, <1>6, SpawnedStays, QueueStays
  <2>2. CurIsHeld'
    BY <1>1, <1>6, CurMove DEF Holding
  <2>3. FailuresCounted(soft)'
    <3>1. place = "fail" => Failure(round[g])
      BY <1>3, <1>6
    <3>2. place \in {"append", "release"} => ~Failure(round[g])
      BY <1>3, <1>6
    <3> QED
      BY <1>1, <1>6, <3>1, <3>2, FailuresMove DEF PastFail
  <2>4. FindingsKept'
    <3>1. place = "release" => Findings(round[g]) = <<>>
      BY <1>3, <1>6
    <3> QED
      BY <1>1, <1>6, <3>1, KeptMove DEF PastAppend
  <2> QED
    BY <1>2, <2>1, <2>2, <2>3, <2>4
<1>7. CASE Load(g)
  BY <1>3, <1>6, <1>7 DEF Load, semVars
<1>8. CASE AdmitNext(g)
  BY <1>3, <1>6, <1>8 DEF AdmitNext, semVars
<1>9. CASE Fail(g)
  <2>1. /\ pc[g] = "fail" /\ Goto(g, AfterFailure(g)) /\ failed' = failed + 1
        /\ UNCHANGED <<spawned, waiters, cur, found>>
    BY <1>9 DEF Fail, semVars
  <2>2. SpawnedInOrder' /\ QueueIsBlocked'
    BY <1>1, <1>3, <2>1, SpawnedStays, QueueStays
  <2>3. CurIsHeld'
    BY <1>1, <1>3, <2>1, CurMove DEF Holding
  <2>4. FailuresCounted(soft)'
    <3>1. Failure(round[g])
      BY <2>1 DEF FailuresCounted
    <3> QED
      BY <1>1, <1>3, <2>1, <3>1, FailuresMove DEF PastFail
  <2>5. FindingsKept'
    BY <1>1, <1>3, <2>1, KeptMove DEF PastAppend
  <2> QED
    BY <1>2, <2>2, <2>3, <2>4, <2>5
<1>10. CASE AppendFound(g)
  <2>1. /\ pc[g] = "append" /\ Goto(g, "release") /\ found' = found \o Findings(round[g])
        /\ UNCHANGED <<spawned, waiters, cur, failed>>
    BY <1>10 DEF AppendFound, semVars
  <2>2. SpawnedInOrder' /\ QueueIsBlocked'
    BY <1>1, <2>1, SpawnedStays, QueueStays
  <2>3. CurIsHeld' /\ FailuresCounted(soft)' /\ FindingsKept'
    BY <1>1, <2>1, CurMove, FailuresMove, KeptMove DEF Holding, PastFail, PastAppend
  <2> QED
    BY <1>2, <2>2, <2>3
<1>11. CASE Release(g)
  <2>1. /\ pc[g] = "release" /\ Goto(g, "notify") /\ cur' = cur - Weight(round[g])
        /\ UNCHANGED <<spawned, waiters, found, failed>>
    BY <1>11 DEF Release, ReleaseBegin
  <2>2. SpawnedInOrder' /\ QueueIsBlocked'
    BY <1>1, <2>1, SpawnedStays, QueueStays
  <2>3. CurIsHeld' /\ FailuresCounted(soft)' /\ FindingsKept'
    BY <1>1, <2>1, CurMove, FailuresMove, KeptMove DEF Holding, PastFail, PastAppend
  <2> QED
    BY <1>2, <2>2, <2>3
<1>12. CASE Notify(g)
  <2> DEFINE h == Head(waiters).who
  <2>1. /\ waiters # <<>> /\ Goto(h, "load") /\ waiters' = Tail(waiters)
        /\ cur' = cur + Head(waiters).weight /\ UNCHANGED <<spawned, found, failed>>
    BY <1>12 DEF Notify, Wake
  <2>2. /\ QueueIsBlocked' /\ h \in Goroutine /\ pc[h] = "queued"
        /\ Head(waiters).weight = Weight(round[h])
    BY <1>1, <2>1, QueueShrinks
  <2> HIDE DEF h
  <2>3. SpawnedInOrder'
    BY <1>1, <2>1, <2>2, SpawnedStays
  <2>4. CurIsHeld' /\ FailuresCounted(soft)' /\ FindingsKept'
    BY <1>1, <2>1, <2>2, CurMove, FailuresMove, KeptMove DEF Holding, PastFail, PastAppend
  <2> QED
    BY <1>2, <2>2, <2>3, <2>4
<1>13. CASE Return(g)
  <2>1. /\ pc[g] = "notify" /\ Goto(g, "done")
        /\ UNCHANGED <<spawned, waiters, cur, found, failed>>
    BY <1>13 DEF Return, ReleaseEnd
  <2>2. SpawnedInOrder' /\ QueueIsBlocked'
    BY <1>1, <2>1, SpawnedStays, QueueStays
  <2>3. CurIsHeld' /\ FailuresCounted(soft)' /\ FindingsKept'
    BY <1>1, <2>1, CurMove, FailuresMove, KeptMove DEF Holding, PastFail, PastAppend
  <2> QED
    BY <1>2, <2>2, <2>3
<1> QED
  BY <1>4, <1>5, <1>7, <1>8, <1>9, <1>10, <1>11, <1>12, <1>13 DEF Work

\* The items a round read are, when the next begins, all of the rounds before.
LEMMA ItemsTurn ==
  ASSUME TypeOK, Inv, NEW r \in [DOMAIN next -> Range(next)], EndRound(r),
         NEW P, "done" \in P, "unborn" \notin P
  PROVE  ItemsAt(P) = Range(sized) /\ ItemsAt(P)' = Range(sized)
<1>1. /\ round' = r /\ Range(r) = Range(next)
      /\ Range(sized') = Range(sized) \cup Range(next)
  BY RoundTurns
<1>2. \A g \in Goroutine : pc[g] = "done"
  BY DEF EndRound
<1>3. At(P) = Goroutine
  BY <1>2 DEF At
<1>4. {round[g] : g \in Goroutine} = Range(round)
  BY DEF Goroutine, Range
<1>5. At(P)' = {}
  BY <1>1 DEF EndRound, Begin, At, Goroutine
<1>6. Range(round) \subseteq Range(sized) /\ Range(sized) \cap Range(next) = {}
  BY DEF Inv, SeenOnce
<1>7. ItemsAt(P)' = Range(sized') \ Range(r)
  BY <1>1, <1>5 DEF ItemsAt
<1> QED
  BY <1>1, <1>3, <1>4, <1>6, <1>7 DEF ItemsAt

\* Turning the round over keeps the ledger.
LEMMA LedgerEndRound ==
  ASSUME NEW soft \in Nat, TypeOK, Inv, Ledger(soft),
         NEW r \in [DOMAIN next -> Range(next)], EndRound(r)
  PROVE  Ledger(soft)'
<1> USE DEF Ledger
<1>1. /\ round' = r /\ Range(r) = Range(next) /\ roundNo' = roundNo + 1
      /\ Range(sized') = Range(sized) \cup Range(next)
  BY RoundTurns
<1>2. /\ pc' = [g \in DOMAIN r |-> "unborn"] /\ spawned' = 0 /\ found' = <<>> /\ failed' = 0
      /\ all' = all \o found /\ unchecked' = unchecked + failed
      /\ cur' = 0 /\ waiters' = <<>>
  BY DEF EndRound, Begin, SemReset
<1>3. DOMAIN r = 1 .. Len(next) /\ Len(next) \in Nat
  BY LenProperties DEF TypeOK
<1>4. SpawnedInOrder'
  BY <1>1, <1>2, <1>3 DEF SpawnedInOrder, Goroutine
<1>5. QueueIsBlocked'
  BY <1>2 DEF QueueIsBlocked
<1>6. CurIsHeld'
  <2>1. Holders' = {}
    BY <1>1, <1>2 DEF Holders, Holding, At, Goroutine
  <2> QED
    BY <1>2, <2>1, SumEmpty DEF CurIsHeld
<1>7. SizedIsWithin'
  <2>1. roundNo \in Nat /\ MaxIncludeRounds \in Nat
    BY IncludesAssumption DEF IncludesAssumption, TypeOK
  <2>2. CASE roundNo < MaxIncludeRounds
    <3>1. Range(sized) = Within[roundNo]
      BY <2>1, <2>2 DEF SizedIsWithin
    <3>2. Within[roundNo + 1] = Range(sized) \cup Children(Range(sized))
      BY <2>1, <3>1, WithinIs
    <3>3. Range(next) = Children(Range(round)) \ Range(sized)
      BY <2>2, NextIsComplete DEF EndRound
    <3>4. Children(Range(sized) \ Range(round)) \subseteq Range(sized)
      BY <2>1, <2>2 DEF Inv, PastIsClosed
    <3>5. Range(sized) = (Range(sized) \ Range(round)) \cup Range(round)
      BY DEF Inv, SeenOnce
    <3>6. Children(Range(sized))
            = Children(Range(sized) \ Range(round)) \cup Children(Range(round))
      BY <3>5, ChildrenUnion
    <3>7. Range(sized') = Within[roundNo + 1]
      BY <1>1, <3>2, <3>3, <3>4, <3>6
    <3>8. roundNo' <= MaxIncludeRounds
      BY <1>1, <2>1, <2>2
    <3> QED
      BY <1>1, <3>7, <3>8 DEF SizedIsWithin
  <2>3. CASE ~(roundNo < MaxIncludeRounds)
    <3>1. next = <<>>
      BY <2>1, <2>3 DEF Inv, NextIsChildren
    <3>2. Range(next) = {}
      BY <3>1 DEF Range
    <3>3. ~(roundNo' <= MaxIncludeRounds) /\ (roundNo <= MaxIncludeRounds => roundNo = MaxIncludeRounds)
      BY <1>1, <2>1, <2>3
    <3>4. Range(sized) = Within[MaxIncludeRounds]
      BY <3>3 DEF SizedIsWithin
    <3> QED
      BY <1>1, <3>2, <3>3, <3>4 DEF SizedIsWithin
  <2> QED
    BY <2>2, <2>3
<1>8. FailuresCounted(soft)'
  <2>1. ItemsAt(PastFail)' = ItemsAt(PastFail)
    BY ItemsTurn DEF PastFail
  <2>2. unchecked + failed = soft + Cardinality({i \in ItemsAt(PastFail) : Failure(i)})
    BY DEF FailuresCounted
  <2>3. unchecked' + failed' = unchecked + failed
    BY <1>2 DEF TypeOK
  <2>4. \A g \in Goroutine' : pc'[g] # "fail"
    BY <1>1, <1>2 DEF Goroutine
  <2> QED
    BY <2>1, <2>2, <2>3, <2>4 DEF FailuresCounted
<1>9. FindingsKept'
  <2>1. ItemsAt(PastAppend)' = ItemsAt(PastAppend)
    BY ItemsTurn DEF PastAppend
  <2>2. ASSUME NEW f \in Finding
        PROVE  Times(f, all') + Times(f, found') = Times(f, all) + Times(f, found)
    <3>1. all \in Seq(Finding) /\ found \in Seq(Finding) /\ <<>> \in Seq(Finding)
      BY DEF TypeOK
    <3>2. Times(f, all') = Times(f, all) + Times(f, found)
      BY <1>2, <3>1, TimesConcat
    <3>3. Times(f, found') = 0
      BY <1>2, <3>1, TimesType
    <3>4. Times(f, all) \in Nat /\ Times(f, found) \in Nat
      BY <3>1, TimesType
    <3> QED
      BY <3>2, <3>3, <3>4
  <2>3. \A f \in Finding :
          Times(f, all) + Times(f, found) =
            SumFunctionOnSet([i \in Item |-> Times(f, Findings(i))], ItemsAt(PastAppend))
    BY DEF FindingsKept
  <2> QED
    BY <2>1, <2>2, <2>3 DEF FindingsKept
<1>10. EmptyRound'
  BY <1>2 DEF EmptyRound
<1> QED
  BY <1>4, <1>5, <1>6, <1>7, <1>8, <1>9, <1>10

\* Every step keeps the ledger.
LEMMA LedgerStep ==
  ASSUME NEW soft \in Nat, TypeOK, Inv, Ledger(soft), [Next]_lintVars
  PROVE  Ledger(soft)'
<1>1. SeenOnce
  BY DEF Inv
<1>2. CASE UNCHANGED lintVars
  <2>1. UNCHANGED <<sized, round, spawned, pc, found, failed, all, unchecked, cur, waiters, roundNo>>
    BY <1>2 DEF lintVars, roundVars, totals, semVars, incVars
  <2> QED
    BY <2>1 DEF Ledger, EmptyRound, SpawnedInOrder, QueueIsBlocked, CurIsHeld, Holders, At, Goroutine,
                SizedIsWithin, FailuresCounted, FindingsKept, ItemsAt
<1>3. CASE LintNext
  BY <1>1, <1>3, LedgerWork, LedgerEndRound DEF LintNext
<1> QED
  BY <1>2, <1>3 DEF Next, Finished

-----------------------------------------------------------------------------
(* What the ledger says of the semaphore and of the end of the run.        *)

\* A weight of the whole budget leaves no room beside it.
LEMMA BytesBounded ==
  ASSUME TypeOK, CurIsHeld
  PROVE  BytesInFlight
<1> DEFINE w == [g \in Goroutine |-> Weight(round[g])]
<1>1. cur = SumFunctionOnSet(w, Holders)
  BY DEF CurIsHeld
<1>2. Holders \subseteq Goroutine /\ IsFiniteSet(Holders)
  <2>1. Holders \subseteq Goroutine
    BY DEF Holders, At
  <2> QED
    BY <2>1, FiniteRound
<1>3. \A g \in Goroutine : w[g] \in Nat \ {0} /\ w[g] = Weight(round[g])
  BY RoundItem
<1>4. ASSUME NEW g \in Holders, Size[round[g].abs] >= Budget, NEW h \in Holders, h # g
      PROVE  FALSE
  <2>1. w[g] = Budget
    <3>1. round[g] \in Item /\ Budget \in Nat \ {0}
      BY <1>2, RoundItem, BudgetAssumption DEF BudgetAssumption
    <3>2. Size[round[g].abs] \in Nat
      BY <3>1, LintAssumption DEF LintAssumption, Item
    <3>3. Weight(round[g]) = Budget
      BY <1>4, <3>1, <3>2 DEF Weight
    <3> QED
      BY <1>2, <1>3, <3>3
  <2>2. w[g] + w[h] <= SumFunctionOnSet(w, Holders)
    <3>1. \A x \in Holders : w[x] \in Nat
      BY <1>2, <1>3
    <3>2. w[h] + w[g] <= SumFunctionOnSet(w, Holders)
      <4> HIDE DEF w
      <4> QED
        BY <1>2, <1>4, <3>1, SumBounds
    <3>3. w[g] \in Nat /\ w[h] \in Nat
      BY <3>1
    <3> HIDE DEF w
    <3> QED
      BY <3>2, <3>3
  <2>3. cur <= Budget /\ Budget \in Nat /\ cur \in Int
    BY BudgetAssumption DEF BudgetAssumption, TypeOK
  <2>4. w[h] \in Nat \ {0}
    BY <1>2, <1>3
  <2> HIDE DEF w
  <2> QED
    BY <1>1, <2>1, <2>2, <2>3, <2>4
<1>5. cur <= Budget
  BY DEF TypeOK
<1> QED
  BY <1>4, <1>5 DEF BytesInFlight

\* The rounds end with everything reachable linted.
LEMMA AllReached ==
  ASSUME TypeOK, Inv, SizedIsWithin, LintDone
  PROVE  Range(sized) = Reachable
<1>1. roundNo \in Nat /\ MaxIncludeRounds \in Nat
  BY IncludesAssumption DEF IncludesAssumption, TypeOK
<1>2. CASE roundNo <= MaxIncludeRounds
  <2>1. Range(sized) = Within[roundNo]
    BY <1>2 DEF SizedIsWithin
  <2>2. Range(round) = {}
    BY DEF LintDone, Range
  <2>3. Range(sized) \ Range(round) = Range(sized)
    BY <2>2
  <2>4. Children(Within[roundNo]) \subseteq Within[roundNo]
    BY <1>2, <2>1, <2>3 DEF Inv, PastIsClosed
  <2>5. Within[MaxIncludeRounds] = Within[roundNo]
    BY <1>1, <1>2, <2>4, WithinStable
  <2> QED
    BY <2>1, <2>5 DEF Reachable
<1>3. CASE ~(roundNo <= MaxIncludeRounds)
  BY <1>3 DEF SizedIsWithin, Reachable
<1> QED
  BY <1>2, <1>3

\* With the loop over the ledger is the account of the whole run.
LEMMA LedgerCloses ==
  ASSUME NEW soft \in Nat, TypeOK, Inv, Ledger(soft), LintDone
  PROVE  /\ Range(sized) = Reachable
         /\ unchecked = soft + Cardinality({i \in Reachable : Failure(i)})
         /\ \A f \in Finding :
              Times(f, all) = SumFunction([i \in Reachable |-> Times(f, Findings(i))])
<1>1. Range(sized) = Reachable
  BY AllReached DEF Ledger
<1>2. At(PastFail) = {} /\ At(PastAppend) = {} /\ Range(round) = {}
  BY DEF LintDone, At, Goroutine, Range
<1>3. ItemsAt(PastFail) = Reachable /\ ItemsAt(PastAppend) = Reachable
  BY <1>1, <1>2 DEF ItemsAt
<1>4. unchecked = soft + Cardinality({i \in Reachable : Failure(i)})
  BY <1>3 DEF Ledger, FailuresCounted, TypeOK, EmptyRound, LintDone
<1>5. ASSUME NEW f \in Finding
      PROVE  Times(f, all) = SumFunction([i \in Reachable |-> Times(f, Findings(i))])
  <2> DEFINE v == [i \in Item |-> Times(f, Findings(i))]
             w == [i \in Reachable |-> Times(f, Findings(i))]
  <2>1. Times(f, all) + Times(f, found) = SumFunctionOnSet(v, Reachable)
    BY <1>3 DEF Ledger, FindingsKept
  <2>2. Times(f, found) = 0 /\ Times(f, all) \in Nat
    <3>1. found = <<>>
      BY DEF Ledger, EmptyRound, LintDone
    <3> QED
      BY <3>1, TimesType DEF TypeOK
  <2>3. Reachable \subseteq Item /\ IsFiniteSet(Reachable)
    <3>1. SeenOnce
      BY DEF Inv
    <3> QED
      BY <1>3, <3>1, ItemsAtType
  <2>4. \A i \in Reachable : v[i] = w[i]
    BY <2>3
  <2>5. SumFunctionOnSet(v, Reachable) = SumFunctionOnSet(w, Reachable)
    <3> HIDE DEF v, w
    <3> QED
      BY <2>3, <2>4, SumEqual
  <2>6. SumFunction(w) = SumFunctionOnSet(w, Reachable)
    BY DEF SumFunction
  <2> HIDE DEF v, w
  <2> QED
    BY <2>1, <2>2, <2>5, <2>6 DEF w
<1> QED
  BY <1>1, <1>4, <1>5

-----------------------------------------------------------------------------
(* The theorems.                                                           *)

\* In every run of every file tree the engine's state has its types and the
\* invariant holds: whatever the workers' interleaving, the seen set is
\* exactly what was linted and what will be, once each, and the ledger of the
\* semaphore, the failures and the findings balances.
THEOREM Invariance == Spec => [](TypeOK /\ IndInv)
<1>1. Init => TypeOK /\ IndInv
  BY TypeInit, InvInit, LedgerInit DEF Init, IndInv
<1>2. TypeOK /\ IndInv /\ [Next]_lintVars => (TypeOK /\ IndInv)'
  <2>1. Inv => PendingRead
    BY DEF Inv
  <2>2. 0 \in Nat
    OBVIOUS
  <2> QED
    BY <2>1, <2>2, TypeStep, InvStep, LedgerStep DEF IndInv
<1> QED
  BY <1>1, <1>2, PTL DEF Spec

\* The types alone (the state of lintRound, Includes and Weighted); the
\* semaphore never grants more than bytesInFlight.
THEOREM TypeCorrect == Spec => []TypeOK
  BY Invariance, PTL

\* No interleaving of the workers makes a run lint an item twice
\* (Includes.admit and Includes.Next).
THEOREM NoItemTwice == Spec => []EachItemOnce
<1>1. IndInv => EachItemOnce
  BY DEF IndInv, Inv, SeenOnce
<1> QED
  BY <1>1, Invariance, PTL

\* The semaphore neither leaks bytes nor frees them twice, on any schedule, and
\* a file over the budget holds it alone (lintRound's Acquire and Release).
THEOREM NoByteLeaked == Spec => []BytesInFlight
<1>1. TypeOK /\ IndInv => BytesInFlight
  BY BytesBounded DEF IndInv, Ledger
<1> QED
  BY <1>1, Invariance, PTL

\* When the loop ends everything within the round bound was linted, each
\* failure was counted and each finding kept, once per item, on every schedule
\* (the two critical sections of lintRound, and the totals of lint).
THEOREM NothingIsLost == Spec => []NothingLost
<1>1. TypeOK /\ IndInv => NothingLost
  <2>1. SUFFICES ASSUME TypeOK, IndInv, LintDone
                 PROVE  NothingLost
    BY DEF NothingLost
  <2>2. Inv /\ Ledger(0) /\ 0 \in Nat
    BY <2>1 DEF IndInv
  <2>3. Range(sized) = Reachable /\ unchecked = 0 + Cardinality({i \in Reachable : Failure(i)})
        /\ \A f \in Finding :
             Times(f, all) = SumFunction([i \in Reachable |-> Times(f, Findings(i))])
    BY <2>1, <2>2, LedgerCloses
  <2>4. Cardinality({i \in Reachable : Failure(i)}) \in Nat
    <3>1. sized \in Seq(Item)
      BY <2>1 DEF TypeOK
    <3>2. IsFiniteSet(Reachable)
      BY <2>3, <3>1, FiniteRange
    <3>3. {i \in Reachable : Failure(i)} \in SUBSET Reachable
      OBVIOUS
    <3>4. IsFiniteSet({i \in Reachable : Failure(i)})
      BY <3>2, <3>3, FS_Subset
    <3> QED
      BY <3>4, FS_CardinalityType
  <2>5. unchecked = Cardinality({i \in Reachable : Failure(i)})
    BY <2>3, <2>4
  <2> QED
    BY <2>3, <2>5 DEF NothingLost
<1> QED
  BY <1>1, Invariance, PTL

\* A loop that ends within maxIncludeRounds has reached the fixpoint: every
\* file a linted file names and the project admits was linted.
THEOREM FixpointReached == Spec => []FixpointWithinBound
<1>1. TypeOK /\ IndInv => FixpointWithinBound
  <2>1. SUFFICES ASSUME Inv, round = <<>>, roundNo <= MaxIncludeRounds
                 PROVE  Children(Range(sized)) \subseteq Range(sized)
    BY DEF IndInv, FixpointWithinBound, LintDone
  <2>2. Range(round) = {}
    BY <2>1 DEF Range
  <2>3. Range(sized) \ Range(round) = Range(sized)
    BY <2>2
  <2> QED
    BY <2>1, <2>3 DEF Inv, PastIsClosed
<1> QED
  BY <1>1, Invariance, PTL

\* The parallel engine implements the abstract rounds: each round of the
\* abstract specification is one turn of the loop, and every step of a worker
\* stutters.
THEOREM RoundsImplemented == Spec => Rounds!Init /\ [][Rounds!Next]_(Rounds!vars)
<1>1. Init => Rounds!Init
  BY DEF Init, LintInit, IncludesInit, Rounds!Init
<1>2. ASSUME TypeOK, IndInv, [Next]_lintVars
      PROVE  [Rounds!Next]_(Rounds!vars)
  <2>1. ASSUME NEW r \in [DOMAIN next -> Range(next)], EndRound(r) PROVE Rounds!Next
    <3> USE <1>2 DEF IndInv
    <3>1. /\ round' = r /\ Range(r) = Range(next)
          /\ Range(sized') = Range(sized) \cup Range(next) /\ roundNo' = roundNo + 1
      BY <1>2, <2>1, RoundTurns
    <3>2. /\ Range(sized) \cap Range(next) = {} /\ Range(round) \subseteq Range(sized)
      BY <1>2 DEF Inv, SeenOnce
    <3>3. Range(round) # {}
      BY <1>2, <2>1, EmptyRange DEF TypeOK, EndRound
    <3>4. Range(sized') \ Range(round') = (Range(sized) \ Range(round)) \cup Range(round)
      BY <3>1, <3>2
    <3>5. CASE roundNo < MaxIncludeRounds
      <4>1. Range(next) = Children(Range(round)) \ Range(sized)
        BY <1>2, <2>1, <3>5, NextIsComplete DEF EndRound
      <4> QED
        BY <3>1, <3>2, <3>3, <3>4, <3>5, <4>1 DEF Rounds!Next, Rounds!Round
    <3>6. CASE ~(roundNo < MaxIncludeRounds)
      <4>1. Range(next) = {}
        <5>1. next = <<>>
          BY <1>2, <3>6, IncludesAssumption DEF IncludesAssumption, Inv, NextIsChildren, TypeOK
        <5> QED
          BY <5>1 DEF Range
      <4> QED
        BY <3>1, <3>3, <3>4, <3>6, <4>1 DEF Rounds!Next, Rounds!Round
    <3> QED
      BY <3>5, <3>6
  <2>2. ASSUME UNCHANGED <<sized, round, roundNo>> PROVE UNCHANGED Rounds!vars
    BY <2>2 DEF Rounds!vars
  <2>3. ASSUME NEW g \in Goroutine, Spawn(g) \/ Work(g) PROVE UNCHANGED <<sized, round, roundNo>>
    BY <2>3 DEF Spawn, Work, Acquire, Load, AdmitNext, Admit, Record, Fail, AppendFound, Release,
                Notify, Return, incVars
  <2>4. ASSUME UNCHANGED lintVars PROVE UNCHANGED <<sized, round, roundNo>>
    BY <2>4 DEF lintVars, incVars
  <2> QED
    BY <1>2, <2>1, <2>2, <2>3, <2>4 DEF Next, LintNext, Finished
<1> QED
  BY <1>1, <1>2, Invariance, PTL DEF Spec

-----------------------------------------------------------------------------
(* What the rounds gathered, as a set.                                     *)

\* A sequence holds a finding some times exactly when it has it at all.
LEMMA TimesPositive ==
  ASSUME NEW S, NEW s \in Seq(S), NEW f
  PROVE  Times(f, s) # 0 <=> f \in Range(s)
<1> DEFINE K == {k \in DOMAIN s : s[k] = f}
<1>1. DOMAIN s = 1 .. Len(s) /\ Len(s) \in Nat
  BY LenProperties
<1>2. IsFiniteSet(DOMAIN s)
  BY <1>1, FS_Interval
<1>3. IsFiniteSet(K)
  <2>1. K \in SUBSET DOMAIN s
    OBVIOUS
  <2> HIDE DEF K
  <2> QED
    BY <1>2, <2>1, FS_Subset
<1>4. Times(f, s) = Cardinality(K)
  BY DEF Times
<1>5. K # {} <=> f \in Range(s)
  BY DEF Range
<1> HIDE DEF K
<1>6. Cardinality(K) = 0 <=> K = {}
  BY <1>3, FS_EmptySet
<1> QED
  BY <1>4, <1>5, <1>6

\* A sum of nothing but zeros is zero.
LEMMA SumZero ==
  ASSUME NEW w, NEW S, IsFiniteSet(S), \A x \in S : w[x] = 0
  PROVE  SumFunctionOnSet(w, S) = 0
<1> DEFINE P == {U \in SUBSET S : SumFunctionOnSet(w, U) = 0}
<1>1. {} \in P
  BY SumEmpty
<1>2. ASSUME NEW U \in SUBSET S, NEW x \in S \ U, U \in P PROVE U \cup {x} \in P
  <2>1. IsFiniteSet(U) /\ x \notin U /\ \A y \in U \cup {x} : w[y] \in Nat
    BY FS_Subset
  <2>2. SumFunctionOnSet(w, U \cup {x}) = w[x] + SumFunctionOnSet(w, U)
    BY <2>1, SumAdd
  <2> QED
    BY <1>2, <2>2
<1>3. \A U \in SUBSET S : U \in P
  <2> HIDE DEF P
  <2> QED
    BY <1>1, <1>2, SubsetInduction
<1> QED
  BY <1>3

\* When the loop is over the findings gathered are those of the reachable items.
LEMMA AllGathered ==
  ASSUME NEW soft \in Nat, TypeOK, Inv, Ledger(soft), LintDone
  PROVE  Range(all) = Raw /\ IsFiniteSet(Reachable) /\ Reachable \subseteq Item
<1>1. /\ Range(sized) = Reachable
      /\ \A f \in Finding :
           Times(f, all) = SumFunction([i \in Reachable |-> Times(f, Findings(i))])
  BY LedgerCloses
<1>2. sized \in Seq(Item) /\ all \in Seq(Finding)
  BY DEF TypeOK
<1>3. IsFiniteSet(Reachable)
  BY <1>1, <1>2, FiniteRange
<1>4. Reachable \subseteq Item
  BY <1>1, <1>2, ElementOfSeq, LenProperties DEF Range
<1>5. ASSUME NEW i \in Reachable
      PROVE  /\ Findings(i) \in Seq(Finding) /\ Range(Findings(i)) \subseteq Finding
             /\ \A f : Times(f, Findings(i)) \in Nat
             /\ \A f : Times(f, Findings(i)) # 0 <=> f \in Range(Findings(i))
  <2>1. Findings(i) \in Seq(Finding)
    BY <1>4, FindingsType
  <2>2. Range(Findings(i)) \subseteq Finding
    BY <2>1, ElementOfSeq, LenProperties DEF Range
  <2> QED
    BY <2>1, <2>2, TimesType, TimesPositive
<1>6. Range(all) \subseteq Finding
  BY <1>2, ElementOfSeq, LenProperties DEF Range
<1>7. ASSUME NEW f \in Finding
      PROVE  f \in Range(all) <=> \E i \in Reachable : f \in Range(Findings(i))
  <2> DEFINE w == [i \in Reachable |-> Times(f, Findings(i))]
  <2>1. Times(f, all) = SumFunctionOnSet(w, Reachable)
    BY <1>1 DEF SumFunction
  <2>2. \A i \in Reachable : w[i] \in Nat /\ (w[i] # 0 <=> f \in Range(Findings(i)))
    BY <1>5
  <2> HIDE DEF w
  <2>3. ASSUME NEW i \in Reachable, f \in Range(Findings(i))
        PROVE  SumFunctionOnSet(w, Reachable) # 0
    <3>1. w[i] <= SumFunctionOnSet(w, Reachable)
      BY <1>3, <2>2, SumBounds
    <3>2. SumFunctionOnSet(w, Reachable) \in Nat
      BY <1>3, <2>2, SumNat
    <3>3. w[i] \in Nat /\ w[i] # 0
      BY <2>2, <2>3
    <3> QED
      BY <3>1, <3>2, <3>3
  <2>4. ASSUME \A i \in Reachable : f \notin Range(Findings(i))
        PROVE  SumFunctionOnSet(w, Reachable) = 0
    <3>1. \A i \in Reachable : w[i] = 0
      BY <2>2, <2>4
    <3> QED
      BY <1>3, <3>1, SumZero
  <2>5. Times(f, all) # 0 <=> f \in Range(all)
    BY <1>2, TimesPositive
  <2> QED
    BY <2>1, <2>3, <2>4, <2>5
<1>8. ASSUME NEW f PROVE f \in Range(all) <=> f \in Raw
  BY <1>5, <1>6, <1>7 DEF Raw
<1>9. Range(all) = Raw
  BY <1>8
<1> QED
  BY <1>3, <1>4, <1>9

-----------------------------------------------------------------------------
(* The engine inside the run.                                              *)

\* The engine's ledger, the walk having met some soft errors.
EngineInv ==
  /\ TypeOK
  /\ Inv
  /\ \E soft \in Nat : Ledger(soft)

\* Nothing has run when the command line is read.
LEMMA EngineInit ==
  ASSUME AstlInit
  PROVE  EngineInv
<1>1. Init /\ LintInit(0) /\ 0 \in Nat
  BY DEF AstlInit, Init
<1>2. TypeOK /\ Inv
  BY <1>1, TypeInit, InvInit
<1>3. Ledger(0)
  BY <1>1, LedgerInit
<1> QED
  BY <1>1, <1>2, <1>3 DEF EngineInv

\* Its own steps keep it, and so do the soft errors of the walk.
LEMMA EngineStep ==
  ASSUME EngineInv, [AstlNext]_astlVars
  PROVE  EngineInv'
<1>1. TypeOK /\ Inv /\ PendingRead
  BY DEF EngineInv, Inv
<1>2. PICK soft \in Nat : Ledger(soft)
  BY DEF EngineInv
<1>3. CASE [Next]_lintVars
  <2>1. TypeOK' /\ Inv'
    BY <1>1, <1>3, TypeStep, InvStep
  <2>2. Ledger(soft)'
    BY <1>1, <1>2, <1>3, LedgerStep
  <2> QED
    BY <2>1, <2>2 DEF EngineInv
<1>4. ASSUME NEW more \in 0 .. MaxSoft, unchecked' = unchecked + more,
             UNCHANGED <<sized, round, roundVars, all, semVars, incVars>>
      PROVE  EngineInv'
  <2>1. /\ UNCHANGED <<sized, round, spawned, pc, pending, found, failed, all, cur, waiters,
                       notifying, seen, next, roundNo>>
        /\ Goroutine' = Goroutine
    BY <1>4 DEF roundVars, semVars, incVars, Goroutine
  <2>2. more \in Nat /\ unchecked \in Nat
    BY <1>1, <1>4, AstlAssumption DEF AstlAssumption, TypeOK
  <2>3. TypeOK'
    <3>1. unchecked' \in Nat
      BY <1>4, <2>2
    <3> QED
      BY <1>1, <2>1, <3>1 DEF TypeOK
  <2>4. Inv'
    <3>1. Quiet
      BY <2>1 DEF Quiet, incVars
    <3> QED
      BY <1>1, <3>1, InvQuiet
  <2>5. soft + more \in Nat
    BY <2>2
  <2>6. Ledger(soft + more)'
    <3>1. /\ EmptyRound' /\ SpawnedInOrder' /\ QueueIsBlocked' /\ CurIsHeld' /\ SizedIsWithin'
          /\ FindingsKept'
      BY <1>2, <2>1 DEF Ledger, EmptyRound, SpawnedInOrder, QueueIsBlocked, CurIsHeld, Holders,
                        At, SizedIsWithin, FindingsKept, ItemsAt
    <3> DEFINE C == Cardinality({i \in ItemsAt(PastFail) : Failure(i)})
    <3>2. C' = C
      BY <2>1 DEF ItemsAt, At
    <3>3. unchecked + failed = soft + C /\ \A g \in Goroutine : pc[g] = "fail" => Failure(round[g])
      BY <1>2 DEF Ledger, FailuresCounted
    <3>4. C \in Nat
      <4>1. ItemsAt(PastFail) \in SUBSET Item /\ IsFiniteSet(ItemsAt(PastFail))
        BY <1>1, ItemsAtType DEF Inv
      <4>2. {i \in ItemsAt(PastFail) : Failure(i)} \in SUBSET ItemsAt(PastFail)
        OBVIOUS
      <4>3. IsFiniteSet({i \in ItemsAt(PastFail) : Failure(i)})
        BY <4>1, <4>2, FS_Subset
      <4> QED
        BY <4>3, FS_CardinalityType
    <3>5. unchecked' + failed' = (soft + more) + C
      <4>1. failed \in Nat /\ failed' = failed
        BY <1>1, <2>1 DEF TypeOK
      <4> HIDE DEF C
      <4> QED
        BY <1>4, <2>2, <3>3, <3>4, <4>1
    <3>6. FailuresCounted(soft + more)'
      <4> QED
        BY <2>1, <3>2, <3>3, <3>5 DEF FailuresCounted
    <3> QED
      BY <3>1, <3>6 DEF Ledger
  <2> QED
    BY <2>3, <2>4, <2>5, <2>6 DEF EngineInv
<1>5. CASE Discover
  <2>1. CASE UNCHANGED lintVars
    BY <1>3, <2>1
  <2>2. CASE ~UNCHANGED lintVars
    BY <1>4, <1>5, <2>2 DEF Discover
  <2> QED
    BY <2>1, <2>2
<1>6. CASE Lint
  BY <1>3, <1>6 DEF Lint, Next
<1>7. CASE UNCHANGED lintVars
  BY <1>3, <1>7
<1>8. ASSUME AstlNext, ~Discover, ~Lint PROVE UNCHANGED lintVars
  BY <1>8 DEF AstlNext, Step, ParseArgs, Version, LoadConfig, LoadIgnores, RuleOptions, Collect,
              ApplyIgnores, Emit, Status, Exited, astlVars
<1>9. ASSUME UNCHANGED astlVars PROVE UNCHANGED lintVars
  BY <1>9 DEF astlVars
<1> QED
  BY <1>5, <1>6, <1>7, <1>8, <1>9

-----------------------------------------------------------------------------
(* What the main goroutine knows at each step of run.                      *)

\* A run that completed: it wrote a report and answered for it.
Completed == stage = "exited" /\ exit # exitError /\ ~opts.version

\* The types of the command line's own state.
RunTypeOK ==
  /\ stage \in {"args", "version", "config", "ignores", "walk", "options", "lint",
                "apply", "emit", "status", "exited"}
  /\ opts \in Option /\ sel \in Policy \cup {NoPolicy}
  /\ exit \in {None, exitClean, exitError, exitViolations, exitIncomplete}
  /\ (exit = None) = (stage # "exited")

\* The report is the pipeline's answer for all that the rounds gathered, and
\* stdout holds nothing before the report is whole.
PhaseInv ==
  /\ stage = "version" => opts.version
  /\ stage \in {"apply", "emit", "status"} \/ Completed => LintDone
  /\ stage = "apply" => report = Linted(all, sel)
  /\ stage \in {"emit", "status"} \/ Completed => report = Apply(Linted(all, sel), ignores)
  /\ stage \notin {"status", "exited"} => stdout = <<>>
  /\ stage = "status" \/ Completed => stdout = Lines
  /\ Completed => exit = ExitStatus(report, unchecked)
  /\ ErrorsPrintNothing

\* The exit codes are five different numbers.
LEMMA ExitCodes ==
  /\ exitClean # None /\ exitError # None /\ exitViolations # None /\ exitIncomplete # None
  /\ exitClean # exitError /\ exitViolations # exitError /\ exitIncomplete # exitError
  /\ ExitStatus(report, unchecked) \in {exitClean, exitViolations, exitIncomplete}
  BY DEF None, exitClean, exitError, exitViolations, exitIncomplete, ExitStatus

\* The run has not begun.
LEMMA PhaseInit ==
  ASSUME AstlInit
  PROVE  RunTypeOK /\ PhaseInv
<1>1. /\ stage = "args" /\ opts \in Option /\ sel = NoPolicy /\ stdout = <<>> /\ exit = None
  BY DEF AstlInit
<1>2. RunTypeOK
  BY <1>1 DEF RunTypeOK
<1>3. PhaseInv
  BY <1>1, ExitCodes DEF PhaseInv, Completed, ErrorsPrintNothing
<1> QED
  BY <1>2, <1>3

\* Each step of run keeps the types of its state.
LEMMA RunTypeStep ==
  ASSUME RunTypeOK, [AstlNext]_astlVars
  PROVE  RunTypeOK'
<1> USE ExitCodes DEF RunTypeOK
<1>1. CASE ParseArgs
  BY <1>1 DEF ParseArgs, Exit
<1>2. CASE Version
  BY <1>2 DEF Version, Exit
<1>3. CASE LoadConfig
  BY <1>3 DEF LoadConfig, Exit
<1>4. CASE LoadIgnores
  BY <1>4 DEF LoadIgnores, Exit
<1>5. CASE Discover
  BY <1>5 DEF Discover, Exit
<1>6. CASE RuleOptions
  BY <1>6 DEF RuleOptions, Exit
<1>7. CASE Lint
  BY <1>7 DEF Lint, runVars
<1>8. CASE Collect
  BY <1>8 DEF Collect
<1>9. CASE ApplyIgnores
  BY <1>9 DEF ApplyIgnores
<1>10. CASE Emit
  BY <1>10 DEF Emit, Exit
<1>11. CASE Status
  BY <1>11 DEF Status, Exit
<1>12. CASE UNCHANGED astlVars
  BY <1>12 DEF astlVars, runVars
<1> QED
  BY <1>1, <1>2, <1>3, <1>4, <1>5, <1>6, <1>7, <1>8, <1>9, <1>10, <1>11, <1>12
     DEF AstlNext, Step, Exited

\* A step that ends the run with an error before anything was written, or goes
\* on to a step that writes nothing either, keeps what is known.
LEMMA PhaseEarly ==
  ASSUME RunTypeOK, RunTypeOK', PhaseInv, opts' = opts, stdout' = stdout,
         stage \notin {"status", "exited"},
         \/ stage' = "exited" /\ (exit' = exitError \/ opts.version)
         \/ /\ stage' \in {"args", "version", "config", "ignores", "walk", "options", "lint"}
            /\ stage' = "version" => opts.version
  PROVE  PhaseInv'
<1>1. stdout' = <<>>
  BY DEF PhaseInv
<1>2. ~Completed'
  BY DEF Completed
<1>3. stage' \notin {"apply", "emit", "status"}
  OBVIOUS
<1>4. stage' = "version" => opts'.version
  OBVIOUS
<1> QED
  BY <1>1, <1>2, <1>3, <1>4 DEF PhaseInv, ErrorsPrintNothing

\* Each step of run keeps it.
LEMMA PhaseStep ==
  ASSUME RunTypeOK, PhaseInv, [AstlNext]_astlVars
  PROVE  PhaseInv'
<1>1. RunTypeOK'
  BY RunTypeStep
<1>2. CASE ParseArgs
  BY <1>1, <1>2, PhaseEarly DEF ParseArgs, Exit
<1>3. CASE Version
  BY <1>1, <1>3, PhaseEarly DEF Version, Exit, PhaseInv
<1>4. CASE LoadConfig
  BY <1>1, <1>4, PhaseEarly DEF LoadConfig, Exit
<1>5. CASE LoadIgnores
  BY <1>1, <1>5, PhaseEarly DEF LoadIgnores, Exit
<1>6. CASE Discover
  BY <1>1, <1>6, PhaseEarly DEF Discover, Exit
<1>7. CASE RuleOptions
  BY <1>1, <1>7, PhaseEarly DEF RuleOptions, Exit
<1>8. CASE Lint
  BY <1>1, <1>8, PhaseEarly DEF Lint, runVars
<1>9. CASE Collect
  <2>1. /\ stage' = "apply" /\ exit' = exit /\ exit = None /\ opts' = opts /\ stdout' = <<>>
        /\ report' = Linted(all, sel) /\ all' = all /\ sel' = sel /\ LintDone /\ round' = round
    BY <1>9 DEF Collect, Linted, lintVars, totals, PhaseInv, RunTypeOK
  <2>2. ~Completed' /\ LintDone'
    BY <2>1 DEF Completed, LintDone
  <2>3. report' = Linted(all', sel')
    BY <2>1
  <2> QED
    BY <2>1, <2>2, <2>3 DEF PhaseInv, ErrorsPrintNothing
<1>10. CASE ApplyIgnores
  <2>1. /\ stage = "apply" /\ stage' = "emit" /\ opts' = opts /\ stdout' = <<>>
        /\ all' = all /\ sel' = sel /\ ignores' = ignores /\ LintDone /\ round' = round
    BY <1>10 DEF ApplyIgnores, lintVars, totals, PhaseInv
  <2>2. report' = Apply(Linted(all', sel'), ignores')
    BY <1>10, <2>1 DEF ApplyIgnores, PhaseInv
  <2>3. ~Completed' /\ LintDone'
    BY <2>1 DEF Completed, LintDone
  <2> QED
    BY <2>1, <2>2, <2>3 DEF PhaseInv, ErrorsPrintNothing
<1>11. CASE Emit
  <2>1. /\ stage = "emit" /\ exit = None /\ stdout = <<>> /\ LintDone
        /\ report = Apply(Linted(all, sel), ignores)
    BY <1>11 DEF Emit, PhaseInv, RunTypeOK
  <2>2. /\ opts' = opts /\ report' = report /\ all' = all /\ sel' = sel /\ ignores' = ignores
        /\ round' = round
    BY <1>11 DEF Emit, lintVars, totals
  <2>3. report' = Apply(Linted(all', sel'), ignores') /\ LintDone'
    BY <2>1, <2>2 DEF LintDone
  <2>4. CASE Exit(exitError) /\ stdout' = stdout
    BY <1>1, <2>1, <2>2, <2>4, PhaseEarly DEF Exit
  <2>5. CASE Exit(exitError) /\ broken' = TRUE
    <3>1. stage' = "exited" /\ exit' = exitError
      BY <2>5 DEF Exit
    <3>2. ~Completed'
      BY <3>1 DEF Completed
    <3> QED
      BY <2>5, <3>1, <3>2 DEF PhaseInv, ErrorsPrintNothing
  <2>6. CASE stdout' = Lines /\ stage' = "status" /\ exit' = exit
    <3>1. Lines' = Lines
      BY <2>2 DEF Lines
    <3>2. ~Completed'
      BY <2>6 DEF Completed
    <3> QED
      BY <2>3, <2>6, <3>1, <3>2 DEF PhaseInv, ErrorsPrintNothing
  <2> QED
    BY <1>11, <2>4, <2>5, <2>6 DEF Emit
<1>12. CASE Status
  <2>1. /\ stage = "status" /\ LintDone /\ report = Apply(Linted(all, sel), ignores)
        /\ stdout = Lines
    BY <1>12 DEF Status, PhaseInv
  <2>2. /\ opts' = opts /\ report' = report /\ all' = all /\ sel' = sel /\ ignores' = ignores
        /\ round' = round /\ stdout' = stdout /\ unchecked' = unchecked
    BY <1>12 DEF Status, lintVars, totals
  <2>3. stage' = "exited" /\ exit' = ExitStatus(report, unchecked)
    BY <1>12 DEF Status, Exit
  <2>4. report' = Apply(Linted(all', sel'), ignores') /\ LintDone'
    BY <2>1, <2>2 DEF LintDone
  <2>5. Lines' = Lines
    BY <2>2 DEF Lines
  <2>6. exit' = ExitStatus(report', unchecked')
    BY <2>2, <2>3
  <2>7. exit' # exitError
    BY <2>3, ExitCodes
  <2> QED
    BY <2>1, <2>2, <2>3, <2>4, <2>5, <2>6, <2>7 DEF PhaseInv, ErrorsPrintNothing
<1>13. CASE UNCHANGED astlVars
  BY <1>13 DEF astlVars, runVars, lintVars, totals, PhaseInv, Completed, LintDone, Lines,
               ErrorsPrintNothing
<1> QED
  BY <1>2, <1>3, <1>4, <1>5, <1>6, <1>7, <1>8, <1>9, <1>10, <1>11, <1>12, <1>13
     DEF AstlNext, Step, Exited

-----------------------------------------------------------------------------
(* The theorems.                                                           *)

AstlInv == EngineInv /\ RunTypeOK /\ PhaseInv

\* In every run the engine's ledger balances, and the main goroutine's report is
\* the pipeline's answer for what the engine gathered (run, lint).
THEOREM WholeRun == AstlSpec => []AstlInv
<1>1. AstlInit => AstlInv
  BY EngineInit, PhaseInit DEF AstlInv
<1>2. AstlInv /\ [AstlNext]_astlVars => AstlInv'
  BY EngineStep, RunTypeStep, PhaseStep DEF AstlInv
<1> QED
  BY <1>1, <1>2, PTL DEF AstlSpec

\* The types of the whole state of a run.
THEOREM AstlTypes == AstlSpec => []AstlTypeOK
<1>1. AstlInv => AstlTypeOK
  BY DEF AstlInv, EngineInv, RunTypeOK, AstlTypeOK
<1> QED
  BY <1>1, WholeRun, PTL

\* An exit of 1 leaves nothing on stdout that reads as a whole report (emit): only
\* a write that failed part way leaves findings there.
THEOREM ErrorsAreSilent == AstlSpec => []ErrorsPrintNothing
<1>1. AstlInv => ErrorsPrintNothing
  BY DEF AstlInv, PhaseInv
<1> QED
  BY <1>1, WholeRun, PTL

-----------------------------------------------------------------------------
(* What a completed run reports.                                           *)

\* What the rounds gather is what rules emit.
LEMMA GatheredTyped ==
  ASSUME NEW fs \in Seq(Finding)
  PROVE  fs \in Seq(FindingType) /\ Emitted(Range(fs)) /\ Range(fs) \subseteq Finding
<1>1. Emitted(Finding)
  BY AstlAssumption DEF AstlAssumption
<1>2. Finding \subseteq FindingType
  BY <1>1 DEF Emitted
<1>3. Range(fs) \subseteq Finding
  BY ElementOfSeq, LenProperties DEF Range
<1>4. fs \in Seq(FindingType)
  BY <1>2, SeqMonotonic
<1> QED
  BY <1>1, <1>3, <1>4 DEF Emitted

\* A finding is its fields.
LEMMA FieldByField ==
  ASSUME NEW f \in FindingType, NEW g \in FindingType, Same(f, g),
         f.warning = g.warning, f.ignored = g.ignored
  PROVE  f = g
<1>1. f.rule = g.rule /\ f.sub = g.sub
  BY SameIsTie
<1> QED
  BY <1>1 DEF FindingType, Same

\* A finding at another level.
LEMMA Relevelled ==
  ASSUME NEW f \in FindingType, NEW w \in BOOLEAN, NEW i \in BOOLEAN,
         NEW g, g = [f EXCEPT !.warning = w, !.ignored = i]
  PROVE  g \in FindingType /\ Same(g, f) /\ g.warning = w /\ g.ignored = i
  BY DEF FindingType, Same, Tag

\* The level a finding is reported at is what warn_list and then the ignore file
\* make of it.
LEMMA LevelIs ==
  ASSUME NEW f \in FindingType, ~f.ignored
  PROVE  /\ Level(f) = Mark(ignores, Demote(sel, f))
         /\ Skipped(ignores, Demote(sel, f)) = Skipped(ignores, f)
<1> DEFINE d == Demote(sel, f)
           m == Mark(ignores, d)
           ign == IgnoreKey(f) \in DOMAIN ignores
           w == f.warning \/ sel.warnAll \/ Named(sel.warn, f) \/ ign
<1>1. /\ d \in FindingType /\ d.ignored = f.ignored /\ Same(d, f)
      /\ d.warning = (f.warning \/ sel.warnAll \/ Named(sel.warn, f))
  BY DemoteIs
<1>2. IgnoreKey(d) = IgnoreKey(f)
  BY <1>1 DEF IgnoreKey, Same
<1>3. /\ m \in FindingType /\ Same(m, d)
      /\ m.warning = (d.warning \/ ign) /\ m.ignored = (d.ignored \/ ign)
  BY <1>1, <1>2, MarkIs
<1>4. m.warning = w /\ m.ignored = ign /\ Same(m, f)
  <2>1. Same(m, f)
    BY <1>1, <1>3 DEF Same
  <2> HIDE DEF m, d
  <2>2. m.warning = w
    BY <1>1, <1>3, Zenon
  <2>3. m.ignored = ign
    <3>1. f.ignored = FALSE
      BY FindingFields
    <3> HIDE DEF ign
    <3>2. m.ignored = (FALSE \/ ign)
      BY <1>1, <1>3, <3>1, Zenon
    <3>3. ign \in BOOLEAN
      BY DEF ign
    <3> QED
      BY <3>2, <3>3
  <2> QED
    BY <2>1, <2>2, <2>3
<1>5. w \in BOOLEAN /\ ign \in BOOLEAN
  OBVIOUS
<1>6. Level(f) = [f EXCEPT !.warning = w, !.ignored = ign]
  BY Zenon DEF Level
<1> HIDE DEF w, ign, m
<1>7. Level(f) \in FindingType /\ Same(Level(f), f) /\ Level(f).warning = w /\ Level(f).ignored = ign
  BY <1>5, <1>6, Relevelled
<1>8. Same(Level(f), m)
  BY <1>4, <1>7 DEF Same
<1>9. Level(f) = m
  BY <1>3, <1>4, <1>7, <1>8, FieldByField
<1>10. Skipped(ignores, d) = Skipped(ignores, f)
  BY <1>2 DEF Skipped
<1> QED
  BY <1>9, <1>10 DEF m

\* The report of a run that got as far as its exit status.
LEMMA ReportOfRun ==
  ASSUME AstlInv, stage = "status" \/ Completed
  PROVE  /\ LintDone
         /\ report \in Seq(FindingType)
         /\ Range(report) = {Level(f) : f \in {g \in Raw : Reported(g)}}
         /\ InOrder(report)
         /\ TieFree(all) => Increasing(report)
<1> DEFINE returned == Linted(all, sel)
<1>1. LintDone /\ report = Apply(returned, ignores)
  BY DEF AstlInv, PhaseInv
<1>2. TypeOK /\ Inv /\ \E soft \in Nat : Ledger(soft)
  BY DEF AstlInv, EngineInv
<1>3. Range(all) = Raw
  BY <1>1, <1>2, AllGathered
<1>4. all \in Seq(Finding)
  BY <1>2 DEF TypeOK
<1>5. all \in Seq(FindingType) /\ Emitted(Raw) /\ Raw \subseteq FindingType
  BY <1>3, <1>4, GatheredTyped DEF Emitted
<1>6. /\ returned \in Seq(FindingType) /\ InOrder(returned) /\ Range(returned) = Selected(Raw, sel)
      /\ TieFree(all) => Increasing(returned)
  BY <1>3, <1>5, LintedIs
<1> HIDE DEF returned
<1>7. /\ report \in Seq(FindingType) /\ Range(report) = Applied(Selected(Raw, sel), ignores)
      /\ InOrder(report)
      /\ TieFree(all) => Increasing(report)
  BY <1>1, <1>6, ApplyIs
<1>8. ASSUME NEW f \in Raw
      PROVE  /\ Level(f) = Mark(ignores, Demote(sel, f))
             /\ Skipped(ignores, Demote(sel, f)) = Skipped(ignores, f)
  BY <1>5, LevelIs DEF Emitted
<1>9. Applied(Selected(Raw, sel), ignores) = {Level(f) : f \in {g \in Raw : Reported(g)}}
  BY <1>8 DEF Applied, Selected, Reported
<1> QED
  BY <1>1, <1>7, <1>9

\* Printing shows the whole report.
LEMMA LinesAre ==
  ASSUME report \in Seq(FindingType)
  PROVE  Range(Lines) = Range(report)
  BY PrintedIs DEF Lines

\* The exit code of a run that completed tells what it found and what it could not
\* check, and what it printed is what the policy leaves of all the findings of all
\* the files it reached (docs/exit-codes.md).
THEOREM ExitCodeHonest == AstlSpec => []ExitCodeIsHonest
<1>1. ASSUME AstlInv PROVE IncompleteStillReports
  <2>1. SUFFICES ASSUME Completed
                 PROVE  /\ (exit = exitIncomplete) = (unchecked > 0)
                        /\ Range(stdout) = {Level(f) : f \in {g \in Raw : Reported(g)}}
    BY DEF IncompleteStillReports, Completed
  <2>2. stdout = Lines /\ exit = ExitStatus(report, unchecked)
    BY <1>1, <2>1 DEF AstlInv, PhaseInv
  <2>3. report \in Seq(FindingType) /\ Range(report) = {Level(f) : f \in {g \in Raw : Reported(g)}}
    BY <1>1, <2>1, ReportOfRun
  <2>4. Range(stdout) = Range(report)
    BY <2>2, <2>3, LinesAre
  <2>5. (exit = exitIncomplete) = (unchecked > 0)
    BY <2>2 DEF ExitStatus, exitIncomplete
  <2> QED
    BY <2>3, <2>4, <2>5
<1>2. ASSUME AstlInv PROVE CleanMeansChecked
  <2>1. SUFFICES ASSUME exit = exitClean, ~opts.version
                 PROVE  /\ unchecked = 0
                        /\ \A i \in Reachable : ~Failure(i)
                        /\ \A f \in Raw : Reported(f) => Level(f).warning
    BY DEF CleanMeansChecked
  <2>2. Completed
    BY <1>2, <2>1, ExitCodes DEF AstlInv, RunTypeOK, Completed
  <2>3. exit = ExitStatus(report, unchecked)
    BY <1>2, <2>2 DEF AstlInv, PhaseInv
  <2>4. TypeOK /\ Inv /\ unchecked \in Nat
    BY <1>2 DEF AstlInv, EngineInv, TypeOK
  <2>5. unchecked = 0 /\ \A k \in DOMAIN report : report[k].warning
    BY <2>1, <2>3, <2>4 DEF ExitStatus, exitClean
  <2>6. LintDone /\ Range(report) = {Level(f) : f \in {g \in Raw : Reported(g)}}
    BY <1>2, <2>2, ReportOfRun
  <2>7. ASSUME NEW i \in Reachable PROVE ~Failure(i)
    <3> DEFINE B == {j \in Reachable : Failure(j)}
    <3>1. PICK soft \in Nat : Ledger(soft)
      BY <1>2 DEF AstlInv, EngineInv
    <3>2. unchecked = soft + Cardinality(B)
      BY <2>4, <2>6, <3>1, LedgerCloses
    <3>3. IsFiniteSet(Reachable)
      BY <2>4, <2>6, <3>1, AllGathered
    <3>4. B \in SUBSET Reachable
      OBVIOUS
    <3> HIDE DEF B
    <3>5. IsFiniteSet(B) /\ Cardinality(B) \in Nat
      BY <3>3, <3>4, FS_Subset, FS_CardinalityType
    <3>6. Cardinality(B) = 0
      BY <2>5, <3>2, <3>5
    <3>7. B = {}
      BY <3>5, <3>6, FS_EmptySet
    <3> QED
      BY <3>7 DEF B
  <2>8. ASSUME NEW f \in Raw, Reported(f) PROVE Level(f).warning
    <3>1. Level(f) \in Range(report)
      BY <2>6, <2>8
    <3>2. PICK k \in DOMAIN report : report[k] = Level(f)
      BY <3>1 DEF Range
    <3> QED
      BY <2>5, <3>2
  <2> QED
    BY <2>5, <2>7, <2>8
<1>3. AstlInv => ExitCodeIsHonest
  BY <1>1, <1>2 DEF ExitCodeIsHonest
<1> QED
  BY <1>3, WholeRun, PTL

\* A whole report is in order, the ignored block first under pep8 (format.PEP8), and
\* names each finding once unless findings tie (rules.Sort, rules.Dedupe).
THEOREM ReportOrdered == AstlSpec => []ReportInOrder
<1>1. ASSUME AstlInv PROVE ReportInOrder
  <2>1. SUFFICES ASSUME stage = "status", NEW j \in DOMAIN stdout, NEW k \in DOMAIN stdout, j < k
                 PROVE  /\ TieFree(all) => ~Same(stdout[j], stdout[k])
                        /\ IF opts.format = "pep8" /\ stdout[j].ignored # stdout[k].ignored
                           THEN stdout[j].ignored ELSE ~Less(stdout[k], stdout[j])
    BY DEF ReportInOrder
  <2>2. stdout = Lines
    BY <1>1, <2>1 DEF AstlInv, PhaseInv
  <2>3. report \in Seq(FindingType) /\ InOrder(report) /\ (TieFree(all) => Increasing(report))
    BY <1>1, <2>1, ReportOfRun
  <2>4. \A i \in DOMAIN report : report[i] \in FindingType
    BY <2>3, ElementOfSeq, LenProperties
  <2>5. ASSUME NEW a \in DOMAIN report, NEW b \in DOMAIN report, a # b, TieFree(all)
        PROVE  ~Same(report[a], report[b])
    <3>1. a \in Nat /\ b \in Nat
      BY <2>3, LenProperties
    <3>2. Less(report[a], report[b]) \/ Less(report[b], report[a])
      BY <2>3, <2>5, <3>1 DEF Increasing
    <3> QED
      BY <2>4, <3>2, SameIsTie, LessLaws
  <2>6. CASE opts.format # "pep8"
    <3>1. stdout = report
      BY <2>2, <2>6 DEF Lines
    <3>2. j # k
      BY <2>1, <2>3, <3>1, LenProperties
    <3> QED
      BY <2>1, <2>3, <2>5, <2>6, <3>1, <3>2 DEF InOrder
  <2>7. CASE opts.format = "pep8"
    <3>1. stdout = Printed(report)
      BY <2>2, <2>7 DEF Lines
    <3>2. PICK at : Prints(report, stdout, at)
      BY <2>3, <3>1, PrintedIs
    <3>3. /\ at[j] \in DOMAIN report /\ at[k] \in DOMAIN report
          /\ stdout[j] = report[at[j]] /\ stdout[k] = report[at[k]]
          /\ IF report[at[j]].ignored # report[at[k]].ignored
             THEN report[at[j]].ignored ELSE at[j] < at[k]
      BY <2>1, <3>2 DEF Prints
    <3>4. CASE stdout[j].ignored # stdout[k].ignored
      <4>1. at[j] # at[k]
        BY <3>3, <3>4
      <4> QED
        BY <2>5, <2>7, <3>3, <3>4, <4>1
    <3>5. CASE stdout[j].ignored = stdout[k].ignored
      <4>1. at[j] < at[k]
        BY <3>3, <3>5
      <4>2. at[j] # at[k]
        BY <2>3, <3>3, <4>1, LenProperties
      <4>3. ~Less(stdout[k], stdout[j])
        BY <2>3, <3>3, <4>1 DEF InOrder
      <4> QED
        BY <2>5, <3>3, <3>5, <4>2, <4>3
    <3> QED
      BY <3>4, <3>5
  <2> QED
    BY <2>6, <2>7
<1> QED
  BY <1>1, WholeRun, PTL
=============================================================================
