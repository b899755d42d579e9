---------------------------- MODULE YamlIndentProofs ----------------------------
(***************************************************************************)
(* The tokens as the indentation rule reads them, and the stack it keeps,  *)
(* for every text and every setting, whether the text is YAML or not.      *)
(*                                                                         *)
(* Tokens come in the order of the text although some are inserted in      *)
(* front of others, because a candidate begins where its token does and    *)
(* the head of the queue waits for it.  The exception is a collection that *)
(* turns out to be a key when its first token is no node.                  *)
(*                                                                         *)
(* A key and the value that is found for it are close, because the level a *)
(* candidate is on says how many collections stand between it and the next *)
(* token: where a ':' makes it a key, the ':' is the value that is found.  *)
(*                                                                         *)
(* The rule reads the parent below the top, and takes two off at once,     *)
(* where the top is an entry or a value.  The loop is safe because of what *)
(* lies under those two kinds, and that has to hold across tokens: a value *)
(* is pushed by one token and taken off, with its key, by a later one.     *)
(***************************************************************************)
EXTENDS YamlIndent, YamlScanProofs

-----------------------------------------------------------------------------
(* The order of the tokens.                                                *)

\* A flow collection whose first token is no node.
Gone(t, j) ==
  /\ j \in 1 .. Len(t) - 1
  /\ t[j].kind \in FlowStarts /\ t[j + 1].kind \notin Nodes

\* A token that stands behind one that starts later has the start of such a collection.
Ordered(t) ==
  \A i, k \in 1 .. Len(t) :
    k < i /\ t[k].start > t[i].start => \E j \in 1 .. i - 1 : Gone(t, j) /\ t[j].start = t[i].start

OpenAt(keys) == {l \in DOMAIN keys : keys[l].possible}

\* The head will wait for this candidate.
Guarded(keys, byTok, parsed, l) ==
  /\ parsed <= keys[l].number
  /\ keys[l].number \in DOMAIN byTok /\ byTok[keys[l].number] = l

\* Each candidate begins where its token does, and either the head waits for it
\* or it is a collection that does not start with a node.  The levels began one
\* behind another: where two have one number, the inner is the collection that
\* the candidate of the outer one is, and holds no node yet.
Settled(t, keys, byTok, parsed) ==
  /\ Ordered(t)
  /\ \A l \in DOMAIN keys : keys[l].number \in 0 .. Len(t) - 1
  /\ \A l \in OpenAt(keys) :
       /\ t[keys[l].number + 1].start = keys[l].at
       /\ Guarded(keys, byTok, parsed, l) \/ Gone(t, keys[l].number + 1)
  /\ \A l \in OpenAt(keys) : \A m \in DOMAIN keys : l < m =>
       /\ keys[l].number <= keys[m].number
       /\ keys[l].number = keys[m].number =>
            /\ m = l + 1 /\ t[keys[l].number + 1].kind \in FlowStarts
            /\ keys[l].number + 1 = Len(t) \/ Gone(t, keys[l].number + 1)

\* Candidates are given up, and levels left.
LEMMA FewerSettle ==
  ASSUME NEW t, NEW keys, NEW byTok, NEW parsed, Settled(t, keys, byTok, parsed),
         NEW less, NEW tok, DOMAIN less \subseteq DOMAIN keys,
         \A l \in DOMAIN less : less[l].number = keys[l].number,
         \A l \in OpenAt(less) : l \in OpenAt(keys) /\ less[l].at = keys[l].at,
         \A l \in OpenAt(less) : Guarded(keys, byTok, parsed, l) => Guarded(less, tok, parsed, l)
  PROVE  Settled(t, less, tok, parsed)
<1>1. \A l \in OpenAt(less) : l \in DOMAIN less
  BY DEF OpenAt
<1> QED
  BY <1>1 DEF Settled

\* The queue t with tokens behind it that all start at x.
Grown(u, t, x) ==
  /\ Len(t) \in Nat /\ Len(u) \in Nat /\ Len(t) <= Len(u) /\ x \in Int
  /\ \A i \in 1 .. Len(t) : u[i] = t[i] /\ t[i].start \in Int /\ t[i].start <= x
  /\ \A i \in Len(t) + 1 .. Len(u) : u[i].start = x

LEMMA GoneStays ==
  ASSUME NEW t, NEW u, NEW x, Grown(u, t, x), NEW j, Gone(t, j)
  PROVE  Gone(u, j)
<1>1. j \in 1 .. Len(t) /\ j + 1 \in 1 .. Len(t) /\ j \in 1 .. Len(u) - 1
  BY DEF Grown, Gone
<1> QED
  BY <1>1 DEF Grown, Gone

LEMMA GrownOrdered ==
  ASSUME NEW t, NEW u, NEW x, Grown(u, t, x), Ordered(t)
  PROVE  Ordered(u)
<1> SUFFICES ASSUME NEW i \in 1 .. Len(u), NEW k \in 1 .. Len(u), k < i, u[k].start > u[i].start
             PROVE  \E j \in 1 .. i - 1 : Gone(u, j) /\ u[j].start = u[i].start
  BY DEF Ordered
<1>1. Len(t) \in Nat /\ Len(u) \in Nat /\ Len(t) <= Len(u) /\ x \in Int
  BY DEF Grown
<1>2. i \in 1 .. Len(t)
  <2> SUFFICES ASSUME i \notin 1 .. Len(t) PROVE FALSE
    OBVIOUS
  <2>1. i \in Len(t) + 1 .. Len(u)
    BY <1>1
  <2>2. u[i].start = x
    BY <2>1 DEF Grown
  <2>3. k \in 1 .. Len(t) \/ k \in Len(t) + 1 .. Len(u)
    BY <1>1
  <2>4. u[k].start <= x /\ u[k].start \in Int
    BY <1>1, <2>3 DEF Grown
  <2> QED
    BY <1>1, <2>2, <2>4
<1>3. k \in 1 .. Len(t)
  BY <1>1, <1>2
<1>4. t[k].start > t[i].start
  BY <1>2, <1>3 DEF Grown
<1>5. PICK j \in 1 .. i - 1 : Gone(t, j) /\ t[j].start = t[i].start
  BY <1>2, <1>3, <1>4 DEF Ordered
<1>6. j \in 1 .. Len(t)
  BY <1>2
<1> QED
  BY <1>2, <1>5, <1>6, GoneStays DEF Grown

-----------------------------------------------------------------------------
(* A key and its value.                                                    *)

\* What a token adds to the number of collections it stands in.
Weight(kind) == IF kind \in FlowStarts THEN 1 ELSE IF kind \in FlowEnds THEN -1 ELSE 0

\* How many collections the first tokens begin, less those they end.
Depths(d, t) ==
  /\ d \in [0 .. Len(t) -> Int]
  /\ \A i \in 1 .. Len(t) : d[i] = d[i - 1] + Weight(t[i].kind)

\* A key without '?'.
SimpleKey(token) == token.kind = "Key" /\ token.start = token.end

Near(s, x, y) == x <= y /\ y - x <= SimpleKeyLimit /\ Line(s, x) = Line(s, y)

\* The value of a key stands in as many collections as the key and near it.
Answered(s, t, d, i) ==
  \E j \in i + 1 .. Len(t) :
    t[j].kind = "Value" /\ d[j] = d[i - 1] /\ Near(s, t[i].start, t[j].start)

\* Every key has its value, but for the one that is owed.
Paired(s, t, d, owed) ==
  /\ Depths(d, t)
  /\ \A i, j \in 1 .. Len(t) : i < j /\ t[j].kind = "Value" => t[i].start <= t[j].start
  /\ \A i \in 1 .. Len(t) : SimpleKey(t[i]) /\ i # owed => Answered(s, t, d, i)

LEMMA WeightIs ==
  ASSUME NEW kind
  PROVE  Weight(kind) \in Int
BY DEF Weight

\* The tokens of t have other places in u.
LEMMA AnsweredMoved ==
  ASSUME NEW s, NEW t, NEW d, NEW u, NEW f, Len(t) \in Nat, Len(u) \in Nat, NEW m \in [1 .. Len(t) -> 1 .. Len(u)],
         \A i, j \in 1 .. Len(t) : i < j => m[i] < m[j],
         \A i \in 1 .. Len(t) : u[m[i]] = t[i] /\ f[m[i]] = d[i] /\ f[m[i] - 1] = d[i - 1],
         NEW i \in 1 .. Len(t), Answered(s, t, d, i)
  PROVE  Answered(s, u, f, m[i])
<1>1. PICK j \in i + 1 .. Len(t) :
        t[j].kind = "Value" /\ d[j] = d[i - 1] /\ Near(s, t[i].start, t[j].start)
  BY DEF Answered
<1>2. j \in 1 .. Len(t) /\ i < j
  OBVIOUS
<1>3. m[j] \in 1 .. Len(u) /\ m[i] \in 1 .. Len(u) /\ m[i] < m[j]
  BY <1>2
<1>4. m[j] \in m[i] + 1 .. Len(u)
  BY <1>3
<1>5. u[m[j]] = t[j] /\ u[m[i]] = t[i] /\ f[m[j]] = d[j] /\ f[m[i] - 1] = d[i - 1]
  BY <1>2
<1> QED
  BY <1>1, <1>4, <1>5 DEF Answered

\* The depths of the first tokens.
Agrees(f, d, n) == \A i \in 0 .. n : f[i] = d[i]

\* What is said of the tokens is said of their kinds and places.
LEMMA PairedSame ==
  ASSUME NEW s, NEW t, NEW d, NEW owed, Paired(s, t, d, owed), Len(t) \in Nat, NEW u, Len(u) = Len(t),
         \A i \in 1 .. Len(t) : u[i].kind = t[i].kind /\ u[i].start = t[i].start /\ u[i].end = t[i].end
  PROVE  Paired(s, u, d, owed)
<1>1. Depths(d, u)
  BY DEF Paired, Depths
<1>2. \A i, j \in 1 .. Len(u) : i < j /\ u[j].kind = "Value" => u[i].start <= u[j].start
  BY DEF Paired
<1>3. ASSUME NEW i \in 1 .. Len(u), SimpleKey(u[i]), i # owed PROVE Answered(s, u, d, i)
  <2>1. Answered(s, t, d, i)
    BY <1>3 DEF Paired, SimpleKey
  <2>2. \A j \in i + 1 .. Len(t) : j \in 1 .. Len(t)
    OBVIOUS
  <2> QED
    BY <2>1, <2>2 DEF Answered
<1> QED
  BY <1>1, <1>2, <1>3 DEF Paired

\* Tokens behind the others: the last may begin a collection or end one.
LEMMA GrownPairs ==
  ASSUME NEW s, NEW t, NEW u, NEW x, Grown(u, t, x), Len(t) < Len(u), NEW d, NEW owed, Paired(s, t, d, owed),
         \A i \in Len(t) + 1 .. Len(u) - 1 : Weight(u[i].kind) = 0,
         \A i \in Len(t) + 1 .. Len(u) : ~SimpleKey(u[i])
  PROVE  \E f : /\ Paired(s, u, f, owed)
                /\ f[Len(u)] = d[Len(t)] + Weight(u[Len(u)].kind)
                /\ Agrees(f, d, Len(t))
<1> DEFINE n == Len(t)
           k == Len(u)
           w == Weight(u[k].kind)
           f == [i \in 0 .. k |-> IF i <= n THEN d[i] ELSE IF i < k THEN d[n] ELSE d[n] + w]
           m == [i \in 1 .. n |-> i]
<1>1. n \in Nat /\ k \in Nat /\ n < k /\ w \in Int /\ x \in Int
  BY WeightIs DEF Grown
<1>2. d \in [0 .. n -> Int] /\ \A i \in 1 .. n : d[i] = d[i - 1] + Weight(t[i].kind)
  BY DEF Paired, Depths
<1>3. \A i \in 1 .. n : u[i] = t[i] /\ t[i].start \in Int /\ t[i].start <= x
  BY DEF Grown
<1>4. \A i \in n + 1 .. k : u[i].start = x /\ ~SimpleKey(u[i])
  BY DEF Grown
<1>5. \A i \in n + 1 .. k - 1 : Weight(u[i].kind) = 0
  OBVIOUS
<1> HIDE DEF w
<1>6. /\ f \in [0 .. k -> Int] /\ (\A i \in 0 .. n : f[i] = d[i]) /\ (\A i \in n .. k - 1 : f[i] = d[n])
      /\ f[k] = d[n] + w
  <2>1. \A i \in 0 .. k : (i <= n => i \in 0 .. n) /\ n \in 0 .. n
    BY <1>1
  <2>2. d[n] \in Int /\ d[n] + w \in Int
    BY <1>1, <1>2, <2>1
  <2>3. f \in [0 .. k -> Int]
    BY <1>2, <2>1, <2>2
  <2>4. \A i \in 0 .. n : i \in 0 .. k /\ i <= n
    BY <1>1
  <2>5. \A i \in n .. k - 1 : i \in 0 .. k /\ i < k /\ (i <= n => i = n)
    BY <1>1
  <2>6. k \in 0 .. k /\ ~(k <= n) /\ ~(k < k)
    BY <1>1
  <2> QED
    BY <2>3, <2>4, <2>5, <2>6
<1> HIDE DEF n, k, f
<1>7. Depths(f, u)
  <2>1. ASSUME NEW i \in 1 .. k PROVE f[i] = f[i - 1] + Weight(u[i].kind)
    <3>1. CASE i \in 1 .. n
      <4>1. i \in 0 .. n /\ i - 1 \in 0 .. n
        BY <1>1, <3>1
      <4> QED
        BY <1>2, <1>3, <1>6, <3>1, <4>1
    <3>2. CASE i \in n + 1 .. k - 1
      <4>1. i \in n .. k - 1 /\ i - 1 \in n .. k - 1 /\ n \in 0 .. n
        BY <1>1, <3>2
      <4>2. f[i] = d[n] /\ f[i - 1] = d[n] /\ Weight(u[i].kind) = 0 /\ d[n] \in Int
        BY <1>2, <1>5, <1>6, <3>2, <4>1
      <4> QED
        BY <4>2
    <3>3. CASE i = k
      <4>1. i - 1 \in n .. k - 1
        BY <1>1, <3>3
      <4> QED
        BY <1>6, <3>3, <4>1 DEF w, k
    <3> QED
      BY <1>1, <3>1, <3>2, <3>3
  <2> QED
    BY <1>6, <2>1 DEF Depths, k
<1>8. ASSUME NEW i \in 1 .. k, NEW j \in 1 .. k, i < j, u[j].kind = "Value"
      PROVE  u[i].start <= u[j].start
  <2>1. i \in 1 .. n \/ i \in n + 1 .. k
    BY <1>1
  <2>2. CASE j \in 1 .. n
    <3>1. i \in 1 .. n
      BY <1>1, <1>8, <2>2
    <3> QED
      BY <1>3, <1>8, <2>2, <3>1 DEF Paired, n
  <2>3. CASE j \in n + 1 .. k
    <3>1. u[j].start = x
      BY <1>4, <2>3
    <3>2. u[i].start <= x
      BY <1>1, <1>3, <1>4, <2>1
    <3> QED
      BY <3>1, <3>2
  <2> QED
    BY <1>1, <2>2, <2>3
<1>9. /\ m \in [1 .. n -> 1 .. k] /\ (\A i \in 1 .. n : m[i] = i)
      /\ (\A i, j \in 1 .. n : i < j => m[i] < m[j])
  <2>1. \A i \in 1 .. n : i \in 1 .. k
    BY <1>1
  <2> QED
    BY <2>1
<1> HIDE DEF m
<1>10. \A i \in 1 .. n : u[m[i]] = t[i] /\ f[m[i]] = d[i] /\ f[m[i] - 1] = d[i - 1]
  <2>1. \A i \in 1 .. n : i \in 0 .. n /\ i - 1 \in 0 .. n
    BY <1>1
  <2> QED
    BY <1>3, <1>6, <1>9, <2>1
<1>11. ASSUME NEW i \in 1 .. k, SimpleKey(u[i]), i # owed
       PROVE  Answered(s, u, f, i)
  <2>1. i \in 1 .. n
    BY <1>1, <1>4, <1>11
  <2>2. Answered(s, t, d, i)
    BY <1>3, <1>11, <2>1 DEF Paired, n
  <2>3. Answered(s, u, f, m[i])
    BY <1>1, <1>9, <1>10, <2>1, <2>2, AnsweredMoved DEF n, k
  <2> QED
    BY <1>9, <2>1, <2>3
<1>12. Paired(s, u, f, owed)
  BY <1>7, <1>8, <1>11 DEF Paired, k
<1>13. Agrees(f, d, n)
  BY <1>6 DEF Agrees
<1> QED
  BY <1>6, <1>12, <1>13 DEF n, k, w

\* The tokens of t with e at a place among them, in front of one that starts there.
Between(u, t, place, e) ==
  /\ Len(t) \in Nat /\ place \in 1 .. Len(t) + 1 /\ Len(u) = Len(t) + 1
  /\ u[place] = e /\ (\A i \in 1 .. place - 1 : u[i] = t[i])
  /\ \A i \in place + 1 .. Len(t) + 1 : u[i] = t[i - 1]
  /\ \A i \in 1 .. Len(t) : t[i].start \in Int
  /\ place <= Len(t) => e.start = t[place].start
  /\ Weight(e.kind) = 0 /\ e.kind # "Value"

\* Where a token is with another one at the place.
Moved(i, place) == IF i < place THEN i ELSE i + 1

\* The depths that were there have other places too.
Spread(f, d, n, place) ==
  /\ \A i \in 0 .. n : i < place => f[i] = d[i]
  /\ \A i \in 1 .. n : f[Moved(i, place) - 1] = d[i - 1]

\* The key that owes its value is the one inserted, or the one there was.
Owes(e, owed, place, o) == IF SimpleKey(e) THEN owed = 0 /\ o = place ELSE o = Moved(owed, place)

\* A token that is inserted, which may be a key that has no value yet.
LEMMA BetweenPairs ==
  ASSUME NEW s, NEW t, NEW u, NEW place, NEW e, Between(u, t, place, e), NEW d, NEW owed, Paired(s, t, d, owed),
         NEW o, Owes(e, owed, place, o)
  PROVE  \E f : Paired(s, u, f, o) /\ f[Len(u)] = d[Len(t)] /\ Spread(f, d, Len(t), place)
<1> DEFINE n == Len(t)
           f == [i \in 0 .. n + 1 |-> IF i < place THEN d[i] ELSE d[i - 1]]
           m == [i \in 1 .. n |-> Moved(i, place)]
<1>1. n \in Nat /\ place \in 1 .. n + 1 /\ Len(u) = n + 1 /\ Len(u) \in Nat
  BY DEF Between
<1>2. d \in [0 .. n -> Int] /\ \A i \in 1 .. n : d[i] = d[i - 1] + Weight(t[i].kind)
  BY DEF Paired, Depths
<1>3. /\ u[place] = e /\ (\A i \in 1 .. place - 1 : u[i] = t[i])
      /\ \A i \in place + 1 .. n + 1 : u[i] = t[i - 1]
  BY DEF Between
<1>4. /\ \A i \in 1 .. n : t[i].start \in Int
      /\ place <= n => e.start = t[place].start
      /\ Weight(e.kind) = 0 /\ e.kind # "Value"
  BY DEF Between
<1>5. /\ f \in [0 .. n + 1 -> Int] /\ (\A i \in 0 .. place - 1 : f[i] = d[i])
      /\ \A i \in place .. n + 1 : f[i] = d[i - 1]
  <2>1. \A i \in 0 .. n + 1 : (i < place => i \in 0 .. n) /\ (~(i < place) => i - 1 \in 0 .. n)
    BY <1>1
  <2>2. f \in [0 .. n + 1 -> Int]
    BY <1>2, <2>1
  <2>3. \A i \in 0 .. place - 1 : i \in 0 .. n + 1 /\ i < place
    BY <1>1
  <2>4. \A i \in place .. n + 1 : i \in 0 .. n + 1 /\ ~(i < place)
    BY <1>1
  <2> QED
    BY <2>2, <2>3, <2>4
<1>6. /\ m \in [1 .. n -> 1 .. n + 1] /\ (\A i \in 1 .. n : m[i] = Moved(i, place))
      /\ (\A i, j \in 1 .. n : i < j => m[i] < m[j])
  BY <1>1 DEF Moved
<1> HIDE DEF f, m
<1>7. \A i \in 1 .. n : u[m[i]] = t[i] /\ f[m[i]] = d[i] /\ f[m[i] - 1] = d[i - 1]
  <2> SUFFICES ASSUME NEW i \in 1 .. n PROVE u[m[i]] = t[i] /\ f[m[i]] = d[i] /\ f[m[i] - 1] = d[i - 1]
    OBVIOUS
  <2>1. CASE i < place
    <3>1. m[i] = i /\ i \in 1 .. place - 1 /\ i \in 0 .. place - 1 /\ i - 1 \in 0 .. place - 1
      BY <1>1, <1>6, <2>1 DEF Moved
    <3> QED
      BY <1>3, <1>5, <3>1
  <2>2. CASE ~(i < place)
    <3>1. m[i] = i + 1 /\ i + 1 \in place + 1 .. n + 1 /\ i + 1 \in place .. n + 1 /\ i + 1 - 1 = i
      BY <1>1, <1>6, <2>2 DEF Moved
    <3>2. f[i] = d[i - 1]
      BY <1>1, <1>5, <2>2
    <3> QED
      BY <1>3, <1>5, <3>1, <3>2
  <2> QED
    BY <2>1, <2>2
<1>8. ASSUME NEW i \in 1 .. n + 1, i # place
      PROVE  \E j \in 1 .. n : i = m[j] /\ (i < place => j = i) /\ (i > place => j = i - 1)
  <2>1. CASE i < place
    <3>1. i \in 1 .. n /\ m[i] = i
      BY <1>1, <1>6, <2>1 DEF Moved
    <3> QED
      BY <1>1, <2>1, <3>1
  <2>2. CASE ~(i < place)
    <3>1. i - 1 \in 1 .. n /\ m[i - 1] = i
      BY <1>1, <1>6, <1>8, <2>2 DEF Moved
    <3> QED
      BY <1>1, <2>2, <3>1
  <2> QED
    BY <2>1, <2>2
<1>9. Depths(f, u)
  <2>1. ASSUME NEW i \in 1 .. n + 1 PROVE f[i] = f[i - 1] + Weight(u[i].kind)
    <3>1. CASE i = place
      <4>1. i - 1 \in 0 .. place - 1 /\ i \in place .. n + 1 /\ i - 1 \in 0 .. n
        BY <1>1, <3>1
      <4>2. f[i] = d[i - 1] /\ f[i - 1] = d[i - 1] /\ d[i - 1] \in Int
        BY <1>2, <1>5, <4>1
      <4> QED
        BY <1>3, <1>4, <3>1, <4>2
    <3>2. CASE i # place
      <4>1. PICK j \in 1 .. n : i = m[j]
        BY <1>8, <3>2
      <4> QED
        BY <1>2, <1>7, <4>1
    <3> QED
      BY <3>1, <3>2
  <2> QED
    BY <1>1, <1>5, <2>1 DEF Depths
<1>10. ASSUME NEW i \in 1 .. n + 1, NEW j \in 1 .. n + 1, i < j, u[j].kind = "Value"
       PROVE  u[i].start <= u[j].start
  <2>1. j # place
    BY <1>3, <1>4, <1>10
  <2>2. PICK b \in 1 .. n : j = m[b] /\ (j > place => b = j - 1)
    BY <1>8, <2>1
  <2>3. u[j] = t[b]
    BY <1>7, <2>2
  <2>4. CASE i = place
    <3>1. b = j - 1 /\ place <= b /\ place \in 1 .. n
      BY <1>1, <1>10, <2>2, <2>4
    <3>2. e.start = t[place].start
      BY <1>1, <1>4, <3>1
    <3>3. t[place].start <= t[b].start
      <4>1. CASE place = b
        BY <1>4, <4>1
      <4>2. CASE place # b
        <5>1. place < b
          BY <1>1, <3>1, <4>2
        <5> QED
          BY <1>10, <2>3, <3>1, <5>1 DEF Paired
      <4> QED
        BY <4>1, <4>2
    <3> QED
      BY <1>3, <2>3, <2>4, <3>2, <3>3
  <2>5. CASE i # place
    <3>1. PICK a \in 1 .. n : i = m[a]
      BY <1>8, <2>5
    <3>2. u[i] = t[a]
      BY <1>7, <3>1
    <3>3. a < b
      <4>1. a = b => i = j
        BY <2>2, <3>1
      <4>2. b < a => j < i
        BY <1>6, <2>2, <3>1
      <4> QED
        BY <1>1, <1>10, <4>1, <4>2
    <3> QED
      BY <1>10, <2>3, <3>2, <3>3 DEF Paired
  <2> QED
    BY <2>4, <2>5
<1>11. ASSUME NEW i \in 1 .. n + 1, SimpleKey(u[i]), i # o
       PROVE  Answered(s, u, f, i)
  <2>1. i # place
    <3>1. CASE SimpleKey(e)
      BY <1>11, <3>1 DEF Owes
    <3>2. CASE ~SimpleKey(e)
      BY <1>3, <1>11, <3>2
    <3> QED
      BY <3>1, <3>2
  <2>2. PICK a \in 1 .. n : i = m[a]
    BY <1>8, <2>1
  <2>3. a # owed
    <3>1. CASE SimpleKey(e)
      BY <1>1, <3>1 DEF Owes
    <3>2. CASE ~SimpleKey(e)
      BY <1>6, <1>11, <2>2, <3>2 DEF Owes
    <3> QED
      BY <3>1, <3>2
  <2>4. Answered(s, t, d, a)
    BY <1>7, <1>11, <2>2, <2>3 DEF Paired
  <2>5. Answered(s, u, f, m[a])
    BY <1>1, <1>6, <1>7, <2>4, AnsweredMoved
  <2> QED
    BY <2>2, <2>5
<1>12. Paired(s, u, f, o)
  BY <1>1, <1>9, <1>10, <1>11 DEF Paired
<1>13. f[n + 1] = d[n]
  <2>1. n + 1 \in place .. n + 1 /\ n + 1 - 1 = n
    BY <1>1
  <2> QED
    BY <1>5, <2>1
<1>14. \A i \in 0 .. n : i < place => f[i] = d[i]
  <2>1. \A i \in 0 .. n : i < place => i \in 0 .. place - 1
    BY <1>1
  <2> QED
    BY <1>5, <2>1
<1>15. \A i \in 1 .. n : f[Moved(i, place) - 1] = d[i - 1]
  BY <1>6, <1>7
<1> QED
  BY <1>1, <1>12, <1>13, <1>14, <1>15 DEF Spread

\* Counting one more.
LEMMA CountGrows ==
  ASSUME NEW P, NEW i \in Int, NEW j \in Int, i <= j + 1
  PROVE  /\ Cardinality((i .. j) \cap P) \in Nat /\ Cardinality((i .. j + 1) \cap P) \in Nat
         /\ Cardinality((i .. j + 1) \cap P) = Cardinality((i .. j) \cap P) + (IF j + 1 \in P THEN 1 ELSE 0)
<1> DEFINE A == (i .. j) \cap P
           B == (i .. j + 1) \cap P
<1>1. IsFiniteSet(A)
  <2>1. IsFiniteSet(i .. j)
    BY FS_Interval
  <2> QED
    BY <2>1, FS_Intersection
<1>2. j + 1 \notin A
  OBVIOUS
<1>3. CASE j + 1 \in P
  <2>1. B = A \cup {j + 1}
    BY <1>3
  <2> HIDE DEF A, B
  <2>2. Cardinality(A) \in Nat /\ Cardinality(B) = Cardinality(A) + 1
    BY <1>1, <1>2, <2>1, FS_AddElement, FS_CardinalityType
  <2> QED
    BY <1>3, <2>2 DEF A, B
<1>4. CASE j + 1 \notin P
  <2>1. B = A
    BY <1>4
  <2> HIDE DEF A, B
  <2>2. Cardinality(A) \in Nat /\ Cardinality(B) = Cardinality(A)
    BY <1>1, <2>1, FS_CardinalityType
  <2>3. Cardinality(B) = Cardinality(A) + 0
    BY <2>2
  <2> QED
    BY <1>4, <2>2, <2>3 DEF A, B
<1> QED
  BY <1>3, <1>4

\* FlowDepth, of any list of tokens.
DepthOf(t, i, j) ==
  Cardinality({k \in i .. j : t[k].kind \in FlowStarts}) - Cardinality({k \in i .. j : t[k].kind \in FlowEnds})

LEMMA DepthIs ==
  ASSUME NEW t, Len(t) \in Nat, NEW d, Depths(d, t), NEW i \in 1 .. Len(t), NEW j \in i .. Len(t)
  PROVE  DepthOf(t, i, j) = d[j] - d[i - 1]
<1> DEFINE n == Len(t)
           B == {k \in 1 .. n : t[k].kind \in FlowStarts}
           E == {k \in 1 .. n : t[k].kind \in FlowEnds}
           S == {m \in Nat : i - 1 + m <= n =>
                   d[i - 1 + m] - d[i - 1] = Cardinality((i .. i - 1 + m) \cap B) - Cardinality((i .. i - 1 + m) \cap E)}
<1>1. d \in [0 .. n -> Int] /\ \A k \in 1 .. n : d[k] = d[k - 1] + Weight(t[k].kind)
  BY DEF Depths
<1>2. i - 1 \in 0 .. n /\ i \in Int /\ n \in Nat
  OBVIOUS
<1> HIDE DEF n
<1>3. 0 \in S
  <2>1. (i .. i - 1 + 0) \cap B = {} /\ (i .. i - 1 + 0) \cap E = {} /\ i - 1 + 0 = i - 1
    BY <1>2
  <2>2. Cardinality({}) = 0
    BY FS_EmptySet
  <2>3. d[i - 1] \in Int
    BY <1>1, <1>2
  <2> HIDE DEF B, E
  <2>4. Cardinality((i .. i - 1 + 0) \cap B) = 0 /\ Cardinality((i .. i - 1 + 0) \cap E) = 0
    BY <2>1, <2>2
  <2>5. d[i - 1 + 0] - d[i - 1] = 0 - 0
    BY <2>1, <2>3
  <2> QED
    BY <2>4, <2>5
<1>4. ASSUME NEW m \in Nat, m \in S PROVE m + 1 \in S
  <2> DEFINE k == i - 1 + m
  <2>1. i - 1 + (m + 1) = k + 1
    BY <1>2
  <2> SUFFICES ASSUME i - 1 + (m + 1) <= n
               PROVE  d[i - 1 + (m + 1)] - d[i - 1] =
                        Cardinality((i .. i - 1 + (m + 1)) \cap B) - Cardinality((i .. i - 1 + (m + 1)) \cap E)
    <3> HIDE DEF B, E, k
    <3> QED
      OBVIOUS
  <2>2. k \in 0 .. n /\ k + 1 \in 1 .. n /\ k + 1 - 1 = k /\ k \in Int /\ i <= k + 1
    BY <1>2, <2>1
  <2>3. d[k] - d[i - 1] = Cardinality((i .. k) \cap B) - Cardinality((i .. k) \cap E)
    BY <1>4, <2>2
  <2> HIDE DEF k, B, E
  <2>4. /\ Cardinality((i .. k) \cap B) \in Nat /\ Cardinality((i .. k + 1) \cap B) \in Nat
        /\ Cardinality((i .. k + 1) \cap B) = Cardinality((i .. k) \cap B) + (IF k + 1 \in B THEN 1 ELSE 0)
    BY <1>2, <2>2, CountGrows
  <2>5. /\ Cardinality((i .. k) \cap E) \in Nat /\ Cardinality((i .. k + 1) \cap E) \in Nat
        /\ Cardinality((i .. k + 1) \cap E) = Cardinality((i .. k) \cap E) + (IF k + 1 \in E THEN 1 ELSE 0)
    BY <1>2, <2>2, CountGrows
  <2>6. Weight(t[k + 1].kind) = (IF k + 1 \in B THEN 1 ELSE 0) - (IF k + 1 \in E THEN 1 ELSE 0)
    <3>1. (k + 1 \in B <=> t[k + 1].kind \in FlowStarts) /\ (k + 1 \in E <=> t[k + 1].kind \in FlowEnds)
      BY <2>2 DEF B, E
    <3>2. ~(t[k + 1].kind \in FlowStarts /\ t[k + 1].kind \in FlowEnds)
      BY DEF FlowStarts, FlowEnds
    <3> QED
      BY <3>1, <3>2 DEF Weight
  <2>7. d[k] \in Int /\ d[i - 1] \in Int /\ d[k + 1] = d[k] + Weight(t[k + 1].kind)
    BY <1>1, <1>2, <2>2
  <2> DEFINE b == IF k + 1 \in B THEN 1 ELSE 0
             e == IF k + 1 \in E THEN 1 ELSE 0
  <2>8. b \in Int /\ e \in Int
    OBVIOUS
  <2> HIDE DEF b, e
  <2>9. d[k + 1] = d[k] + (b - e)
    BY <2>6, <2>7 DEF b, e
  <2>10. /\ Cardinality((i .. k + 1) \cap B) = Cardinality((i .. k) \cap B) + b
         /\ Cardinality((i .. k + 1) \cap E) = Cardinality((i .. k) \cap E) + e
    BY <2>4, <2>5 DEF b, e
  <2> DEFINE c1 == Cardinality((i .. k) \cap B)
             c2 == Cardinality((i .. k) \cap E)
             c3 == Cardinality((i .. k + 1) \cap B)
             c4 == Cardinality((i .. k + 1) \cap E)
  <2>11. d[k] - d[i - 1] = c1 - c2 /\ c1 \in Int /\ c2 \in Int /\ c3 = c1 + b /\ c4 = c2 + e
    BY <2>3, <2>4, <2>5, <2>10
  <2> HIDE DEF c1, c2, c3, c4
  <2>12. d[k + 1] - d[i - 1] = c3 - c4
    BY <2>7, <2>8, <2>9, <2>11
  <2> QED
    BY <2>1, <2>12 DEF c3, c4
<1>5. j - i + 1 \in S
  <2>1. j - i + 1 \in Nat
    BY <1>2 DEF n
  <2> HIDE DEF S
  <2>2. Nat \subseteq S
    BY <1>3, <1>4, NatSetInduction
  <2> QED
    BY <2>1, <2>2
<1>6. i - 1 + (j - i + 1) = j /\ j <= n
  BY <1>2 DEF n
<1>7. (i .. j) \cap B = {k \in i .. j : t[k].kind \in FlowStarts} /\ (i .. j) \cap E = {k \in i .. j : t[k].kind \in FlowEnds}
  BY <1>2 DEF n
<1>8. d[j] - d[i - 1] = Cardinality((i .. j) \cap B) - Cardinality((i .. j) \cap E)
  <2> HIDE DEF B, E
  <2> QED
    BY <1>5, <1>6
<1> HIDE DEF B, E
<1> QED
  BY <1>7, <1>8 DEF DepthOf

\* The tokens that KeysAreShort looks for, and what it says of them.
Values(t, n, i) == {j \in i + 1 .. n : t[j].kind = "Value" /\ DepthOf(t, i, j) = 0}

ShortKeys(s, t, n) ==
  \A i \in 1 .. n :
    LET value == t[Min(Values(t, n, i))]
    IN SimpleKey(t[i]) /\ Values(t, n, i) # {} =>
         Line(s, value.start) = Line(s, t[i].start) /\ value.start - t[i].start <= SimpleKeyLimit

\* The first value that stands in as many collections as the key is not behind
\* the one that answers it, and between the two there is no other line.
LEMMA PairedShort ==
  ASSUME NEW s, NEW t, Len(t) \in Nat, \A i \in 1 .. Len(t) : t[i].start \in Nat,
         NEW d, Paired(s, t, d, 0), NEW n \in 0 .. Len(t)
  PROVE  ShortKeys(s, t, n)
<1> SUFFICES ASSUME NEW i \in 1 .. n, SimpleKey(t[i]), Values(t, n, i) # {}
             PROVE  LET value == t[Min(Values(t, n, i))]
                    IN Line(s, value.start) = Line(s, t[i].start) /\ value.start - t[i].start <= SimpleKeyLimit
  BY DEF ShortKeys
<1> DEFINE V == Values(t, n, i)
           m == Min(V)
<1>1. i \in 1 .. Len(t) /\ i # 0 /\ n \in Nat /\ n <= Len(t)
  OBVIOUS
<1>2. PICK j \in i + 1 .. Len(t) :
        t[j].kind = "Value" /\ d[j] = d[i - 1] /\ Near(s, t[i].start, t[j].start)
  BY <1>1 DEF Paired, Answered
<1>3. V \in SUBSET (0 .. n) /\ V # {}
  BY <1>1 DEF Values
<1>4. m \in V /\ \A k \in V : m <= k
  <2> HIDE DEF V
  <2> QED
    BY <1>1, <1>3, MinIs
<1>5. m \in i + 1 .. n /\ t[m].kind = "Value"
  <2> HIDE DEF m
  <2> QED
    BY <1>4 DEF Values
<1> HIDE DEF m
<1>6. m \in 1 .. Len(t) /\ i < m /\ j \in 1 .. Len(t) /\ i < j /\ j \in i .. Len(t)
  BY <1>1, <1>5
<1>7. m <= j
  <2>1. CASE j \in 1 .. n
    <3>1. DepthOf(t, i, j) = 0
      <4>1. DepthOf(t, i, j) = d[j] - d[i - 1]
        BY <1>1, <1>6, DepthIs DEF Paired
      <4>2. d[i - 1] \in Int
        <5>1. i - 1 \in 0 .. Len(t)
          BY <1>1
        <5> QED
          BY <5>1 DEF Paired, Depths
      <4> QED
        BY <1>2, <4>1, <4>2
    <3>2. j \in V
      BY <1>2, <1>6, <2>1, <3>1 DEF Values
    <3> QED
      BY <1>4, <3>2
  <2>2. CASE j \notin 1 .. n
    BY <1>1, <1>5, <1>6, <2>2
  <2> QED
    BY <2>1, <2>2
<1> HIDE DEF V
<1>8. t[i].start <= t[m].start /\ t[m].start <= t[j].start
  <2>1. t[i].start <= t[m].start
    BY <1>1, <1>5, <1>6 DEF Paired
  <2>2. CASE m = j
    BY <1>6, <2>1, <2>2
  <2>3. CASE m # j
    <3>1. m < j
      BY <1>6, <1>7, <2>3
    <3> QED
      BY <1>2, <1>6, <2>1, <3>1 DEF Paired
  <2> QED
    BY <2>2, <2>3
<1> DEFINE x == t[i].start
           y == t[m].start
           z == t[j].start
<1>9. x \in Nat /\ y \in Nat /\ z \in Nat /\ x <= y /\ y <= z /\ z - x <= SimpleKeyLimit /\ Line(s, x) = Line(s, z)
  BY <1>1, <1>2, <1>6, <1>8 DEF Near
<1> HIDE DEF x, y, z
<1>10. Line(s, x) <= Line(s, y) /\ Line(s, y) <= Line(s, z) /\ Line(s, x) \in Nat /\ Line(s, y) \in Nat
  BY <1>9, LineGrows
<1>11. y - x <= SimpleKeyLimit
  BY <1>9, LimitsAreNaturals
<1> QED
  BY <1>9, <1>10, <1>11 DEF x, y, m, V

\* What is said of the first tokens does not depend on those behind them.
LEMMA ShortSame ==
  ASSUME NEW s, NEW t, NEW u, NEW n \in Nat, \A i \in 1 .. n : u[i] = t[i], ShortKeys(s, t, n)
  PROVE  ShortKeys(s, u, n)
<1>1. ASSUME NEW i \in 1 .. n PROVE Values(u, n, i) = Values(t, n, i)
  <2>1. ASSUME NEW j \in i + 1 .. n PROVE u[j].kind = t[j].kind /\ DepthOf(u, i, j) = DepthOf(t, i, j)
    <3>1. j \in 1 .. n /\ \A k \in i .. j : k \in 1 .. n
      OBVIOUS
    <3>2. /\ {k \in i .. j : u[k].kind \in FlowStarts} = {k \in i .. j : t[k].kind \in FlowStarts}
          /\ {k \in i .. j : u[k].kind \in FlowEnds} = {k \in i .. j : t[k].kind \in FlowEnds}
      BY <3>1
    <3> QED
      BY <3>1, <3>2 DEF DepthOf
  <2> QED
    BY <2>1 DEF Values
<1>2. ASSUME NEW i \in 1 .. n, SimpleKey(u[i]), Values(u, n, i) # {}
      PROVE  LET value == u[Min(Values(u, n, i))]
             IN Line(s, value.start) = Line(s, u[i].start) /\ value.start - u[i].start <= SimpleKeyLimit
  <2> DEFINE m == Min(Values(t, n, i))
  <2>1. Values(t, n, i) \in SUBSET (0 .. n) /\ Values(t, n, i) # {}
    BY <1>1, <1>2 DEF Values
  <2>2. m \in Values(t, n, i)
    BY <2>1, MinIs
  <2> HIDE DEF m
  <2>3. m \in 1 .. n
    BY <2>2 DEF Values
  <2>4. Line(s, t[m].start) = Line(s, t[i].start) /\ t[m].start - t[i].start <= SimpleKeyLimit
    BY <1>2, <2>1 DEF ShortKeys, m
  <2>5. u[m] = t[m] /\ u[i] = t[i]
    BY <2>3
  <2>6. m = Min(Values(u, n, i))
    BY <1>1 DEF m
  <2> QED
    BY <2>4, <2>5, <2>6
<1> QED
  BY <1>2 DEF ShortKeys

LEMMA ShortIs ==
  KeysAreShort <=> ShortKeys(parser.input, parser.tokens, parser.parsed)
BY DEF KeysAreShort, ShortKeys, Values, SimpleKey, FlowDepth, DepthOf

LEMMA ShortNext ==
  KeysAreShort' <=> ShortKeys(parser'.input, parser'.tokens, parser'.parsed)
BY DEF KeysAreShort, ShortKeys, Values, SimpleKey, FlowDepth, DepthOf

\* Candidates are open on some levels: for each, the level of the next token is
\* as much deeper than that of its own as there are collections between.
Hanging(d, t, keys) ==
  \A l \in OpenAt(keys) : d[Len(t)] - d[keys[l].number] = Len(keys) - l

Nested(s, t, keys) == \E d : Paired(s, t, d, 0) /\ Hanging(d, t, keys)

\* Candidates are given up.
LEMMA FewerNested ==
  ASSUME NEW s, NEW t, NEW keys, Nested(s, t, keys), NEW less, Len(less) = Len(keys),
         \A l \in OpenAt(less) : l \in OpenAt(keys) /\ less[l].number = keys[l].number
  PROVE  Nested(s, t, less)
BY DEF Nested, Hanging

\* The level that a candidate is on stays, or is that of the token that comes
\* next, which has this weight.
Levels(q, p, w) ==
  \A l \in OpenAt(q.keys) :
    \/ /\ l \in OpenAt(p.keys) /\ q.keys[l].number = p.keys[l].number
       /\ Len(q.keys) = Len(p.keys) + w
    \/ q.keys[l].number = Len(p.tokens) /\ Len(q.keys) = l + w

LEMMA GrownNested ==
  ASSUME NEW p, Live(p), Nested(p.input, p.tokens, p.keys),
         \A l \in DOMAIN p.keys : p.keys[l].number \in 0 .. Len(p.tokens) - 1,
         NEW u, NEW x, Grown(u, p.tokens, x), Len(p.tokens) < Len(u),
         \A i \in Len(p.tokens) + 1 .. Len(u) - 1 : Weight(u[i].kind) = 0,
         \A i \in Len(p.tokens) + 1 .. Len(u) : ~SimpleKey(u[i]),
         NEW q, DOMAIN q.keys \subseteq Nat, Levels(q, p, Weight(u[Len(u)].kind))
  PROVE  Nested(p.input, u, q.keys)
<1> DEFINE t == p.tokens
           n == Len(t)
           w == Weight(u[Len(u)].kind)
<1>1. PICK d : Paired(p.input, t, d, 0) /\ Hanging(d, t, p.keys)
  BY DEF Nested
<1>2. /\ Grown(u, t, x) /\ Len(t) < Len(u)
      /\ \A i \in Len(t) + 1 .. Len(u) - 1 : Weight(u[i].kind) = 0
      /\ \A i \in Len(t) + 1 .. Len(u) : ~SimpleKey(u[i])
  OBVIOUS
<1> HIDE DEF t
<1>3. PICK f : /\ Paired(p.input, u, f, 0)
               /\ f[Len(u)] = d[n] + w
               /\ Agrees(f, d, n)
  BY <1>2, <1>1, GrownPairs
<1>4. f[Len(u)] = d[n] + w
  BY <1>3
<1>5. w \in Int /\ n \in Nat /\ Len(p.keys) \in Nat /\ DOMAIN p.keys \subseteq Nat
  BY WeightIs, LiveLen DEF t
<1> HIDE DEF w
<1>6. \A i \in 0 .. n : d[i] \in Int
  BY <1>1 DEF Paired, Depths
<1>7. ASSUME NEW l \in OpenAt(q.keys) PROVE f[Len(u)] - f[q.keys[l].number] = Len(q.keys) - l
  <2>1. l \in Nat /\ n \in 0 .. n
    BY <1>5 DEF OpenAt
  <2>2. CASE /\ l \in OpenAt(p.keys) /\ q.keys[l].number = p.keys[l].number
             /\ Len(q.keys) = Len(p.keys) + w
    <3>1. p.keys[l].number \in 0 .. n - 1 /\ d[n] - d[p.keys[l].number] = Len(p.keys) - l
      BY <1>1, <2>2 DEF OpenAt, Hanging, t
    <3>2. p.keys[l].number \in 0 .. n
      BY <1>5, <3>1
    <3>3. f[q.keys[l].number] = d[p.keys[l].number] /\ d[p.keys[l].number] \in Int /\ d[n] \in Int
      BY <1>3, <1>6, <2>1, <2>2, <3>2 DEF Agrees
    <3> DEFINE b == d[n]
               c == d[p.keys[l].number]
               levels == Len(p.keys)
    <3>4. b - c = levels - l /\ b \in Int /\ c \in Int /\ levels \in Int /\ l \in Int
      BY <1>5, <2>1, <3>1, <3>3
    <3>5. f[Len(u)] = b + w /\ Len(q.keys) = levels + w
      BY <1>4, <2>2
    <3>6. f[q.keys[l].number] = c
      BY <3>3
    <3> HIDE DEF b, c, levels
    <3>7. (b + w) - c = (levels + w) - l
      BY <1>5, <3>4
    <3>8. f[Len(u)] - f[q.keys[l].number] = (b + w) - c /\ Len(q.keys) - l = (levels + w) - l
      BY <3>5, <3>6, Zenon
    <3> QED
      BY <3>7, <3>8, Zenon
  <2>3. CASE q.keys[l].number = n /\ Len(q.keys) = l + w
    <3>1. f[n] = d[n] /\ d[n] \in Int
      BY <1>3, <1>6, <2>1 DEF Agrees
    <3> QED
      BY <1>5, <1>4, <2>1, <2>3, <3>1
  <2> QED
    BY <2>2, <2>3 DEF Levels, w, t
<1> QED
  BY <1>3, <1>7 DEF Nested, Hanging

LEMMA WeightNone ==
  ASSUME NEW kind, kind \notin FlowStarts, kind \notin FlowEnds
  PROVE  Weight(kind) = 0
BY DEF Weight

-----------------------------------------------------------------------------
(* A queue with one token more.                                            *)

\* A candidate that was there before.
Kept(l, q, p, kind) ==
  /\ l \in OpenAt(p.keys) /\ q.keys[l].number = p.keys[l].number /\ q.keys[l].at = p.keys[l].at
  /\ \/ Guarded(p.keys, p.byTok, p.parsed, l) => Guarded(q.keys, q.byTok, p.parsed, l)
     \/ kind \notin Nodes /\ \E m \in DOMAIN p.keys : l < m /\ p.keys[m].number = p.keys[l].number

\* A candidate for the token that comes next.
Begun(l, q, p, kind) ==
  /\ q.keys[l].number = Len(p.tokens) /\ q.keys[l].at = p.pos
  /\ Len(p.tokens) \in DOMAIN q.byTok /\ q.byTok[Len(p.tokens)] = l
  /\ \A m \in DOMAIN q.keys : l < m => m = l + 1 /\ kind \in FlowStarts /\ q.keys[m].number = Len(p.tokens)

\* The candidates of q are those for a queue with a token of this kind behind
\* that of p.
ReadyFor(q, p, kind) ==
  /\ DOMAIN q.keys \subseteq Nat
  /\ \A l \in OpenAt(q.keys) : Kept(l, q, p, kind) \/ Begun(l, q, p, kind)
  /\ \A m \in DOMAIN q.keys : \/ q.keys[m].number = Len(p.tokens)
                              \/ m \in DOMAIN p.keys /\ q.keys[m].number = p.keys[m].number
  /\ kind \in Nodes =>
       \A l \in OpenAt(p.keys) : \A m \in DOMAIN q.keys :
         l < m /\ q.keys[m].number = p.keys[l].number => p.keys[l].number + 1 < Len(p.tokens)

Settles(p) == Settled(p.tokens, p.keys, p.byTok, p.parsed) /\ Nested(p.input, p.tokens, p.keys)

\* One token more, or several at the same place.
LEMMA GrownSettle ==
  ASSUME NEW p, Settled(p.tokens, p.keys, p.byTok, p.parsed), p.parsed \in Nat, p.parsed <= Len(p.tokens),
         NEW u, Grown(u, p.tokens, p.pos), Len(p.tokens) < Len(u),
         NEW q, ReadyFor(q, p, u[Len(p.tokens) + 1].kind),
         u[Len(p.tokens) + 1].kind \in FlowStarts => Len(u) = Len(p.tokens) + 1
  PROVE  Settled(u, q.keys, q.byTok, p.parsed)
<1> DEFINE n == Len(p.tokens)
           kind == u[Len(p.tokens) + 1].kind
<1>1. n \in Nat /\ Len(u) \in Nat /\ n < Len(u) /\ p.pos \in Int
  BY DEF Grown
<1>2. Ordered(u)
  BY GrownOrdered DEF Settled
<1>3. \A l \in DOMAIN p.keys : p.keys[l].number \in 0 .. n - 1
  BY DEF Settled
<1>4. /\ DOMAIN q.keys \subseteq Nat
      /\ \A l \in OpenAt(q.keys) : Kept(l, q, p, kind) \/ Begun(l, q, p, kind)
      /\ \A m \in DOMAIN q.keys : \/ q.keys[m].number = n
                                  \/ m \in DOMAIN p.keys /\ q.keys[m].number = p.keys[m].number
  BY DEF ReadyFor
<1>5. \A l \in DOMAIN q.keys : q.keys[l].number \in 0 .. Len(u) - 1
  BY <1>4, <1>1, <1>3
<1>6. \A l \in OpenAt(p.keys) : l \in DOMAIN p.keys
  BY DEF OpenAt
<1>7. \A l \in OpenAt(q.keys) : l \in DOMAIN q.keys
  BY DEF OpenAt
<1>8. \A l \in OpenAt(p.keys) : p.keys[l].number + 1 \in 1 .. n /\ u[p.keys[l].number + 1] = p.tokens[p.keys[l].number + 1]
  <2>1. \A i \in 0 .. n - 1 : i + 1 \in 1 .. n
    BY <1>1
  <2> QED
    BY <1>3, <1>6, <2>1 DEF Grown
<1>9. u[n + 1].start = p.pos /\ n + 1 \in 1 .. Len(u)
  <2>1. n + 1 \in n + 1 .. Len(u)
    BY <1>1
  <2> QED
    BY <1>1, <2>1 DEF Grown
  \* A collection that holds no node yet, with a token behind it that is none.
<1>10. ASSUME NEW l \in OpenAt(p.keys), p.tokens[p.keys[l].number + 1].kind \in FlowStarts,
             p.keys[l].number + 1 = n \/ Gone(p.tokens, p.keys[l].number + 1), p.keys[l].number + 1 = n => kind \notin Nodes
      PROVE  Gone(u, p.keys[l].number + 1)
  <2>1. CASE Gone(p.tokens, p.keys[l].number + 1)
    BY <2>1, GoneStays
  <2>2. CASE p.keys[l].number + 1 = n
    <3>1. n \in 1 .. Len(u) - 1
      BY <1>1, <1>8, <2>2
    <3> QED
      BY <1>8, <1>10, <2>2, <3>1 DEF Gone
  <2> QED
    BY <1>10, <2>1, <2>2
<1>11. ASSUME NEW l \in OpenAt(q.keys)
       PROVE  /\ u[q.keys[l].number + 1].start = q.keys[l].at
              /\ Guarded(q.keys, q.byTok, p.parsed, l) \/ Gone(u, q.keys[l].number + 1)
  <2>1. CASE Begun(l, q, p, kind)
    BY <1>1, <1>9, <2>1 DEF Begun, Guarded
  <2>2. CASE Kept(l, q, p, kind)
    <3>1. l \in OpenAt(p.keys) /\ q.keys[l].number = p.keys[l].number /\ q.keys[l].at = p.keys[l].at
      BY <2>2 DEF Kept
    <3>2. u[q.keys[l].number + 1].start = q.keys[l].at
      BY <1>8, <3>1 DEF Settled
    <3>3. CASE Gone(p.tokens, p.keys[l].number + 1)
      BY <3>1, <3>2, <3>3, GoneStays
    <3>4. CASE ~Gone(p.tokens, p.keys[l].number + 1)
      <4>1. Guarded(p.keys, p.byTok, p.parsed, l)
        BY <3>1, <3>4 DEF Settled
      <4>2. CASE Guarded(q.keys, q.byTok, p.parsed, l)
        BY <3>2, <4>2
      <4>3. CASE ~Guarded(q.keys, q.byTok, p.parsed, l)
        <5>1. PICK m \in DOMAIN p.keys : kind \notin Nodes /\ l < m /\ p.keys[m].number = p.keys[l].number
          BY <2>2, <4>1, <4>3 DEF Kept
        <5>2. /\ p.tokens[p.keys[l].number + 1].kind \in FlowStarts
              /\ p.keys[l].number + 1 = n \/ Gone(p.tokens, p.keys[l].number + 1)
          BY <3>1, <5>1 DEF Settled
        <5> QED
          BY <1>10, <3>1, <3>2, <5>1, <5>2
      <4> QED
        BY <4>2, <4>3
    <3> QED
      BY <3>3, <3>4
  <2> QED
    BY <1>4, <2>1, <2>2
<1>12. ASSUME NEW l \in OpenAt(q.keys), NEW m \in DOMAIN q.keys, l < m
       PROVE  /\ q.keys[l].number <= q.keys[m].number
              /\ q.keys[l].number = q.keys[m].number =>
                   /\ m = l + 1 /\ u[q.keys[l].number + 1].kind \in FlowStarts
                   /\ q.keys[l].number + 1 = Len(u) \/ Gone(u, q.keys[l].number + 1)
  <2>1. CASE Begun(l, q, p, kind)
    <3>1. /\ q.keys[l].number = n /\ q.keys[m].number = n /\ m = l + 1 /\ kind \in FlowStarts
      BY <1>12, <2>1 DEF Begun
    <3>2. n + 1 = Len(u)
      BY <3>1
    <3> QED
      BY <1>1, <3>1, <3>2
  <2>2. CASE Kept(l, q, p, kind)
    <3>1. l \in OpenAt(p.keys) /\ q.keys[l].number = p.keys[l].number /\ p.keys[l].number \in 0 .. n - 1
      BY <1>3, <1>6, <2>2 DEF Kept
    <3>2. CASE q.keys[m].number = n
      BY <1>1, <3>1, <3>2
    <3>3. CASE m \in DOMAIN p.keys /\ q.keys[m].number = p.keys[m].number
      <4>1. /\ p.keys[l].number <= p.keys[m].number
            /\ p.keys[l].number = p.keys[m].number =>
                 /\ m = l + 1 /\ p.tokens[p.keys[l].number + 1].kind \in FlowStarts
                 /\ p.keys[l].number + 1 = n \/ Gone(p.tokens, p.keys[l].number + 1)
        BY <1>12, <3>1, <3>3 DEF Settled
      <4>2. ASSUME p.keys[l].number = p.keys[m].number, p.keys[l].number + 1 = n PROVE kind \notin Nodes
        BY <1>1, <1>12, <3>1, <3>3, <4>2 DEF ReadyFor
      <4> QED
        BY <1>8, <1>10, <3>1, <3>3, <4>1, <4>2
    <3> QED
      BY <1>4, <3>2, <3>3
  <2> QED
    BY <1>4, <2>1, <2>2
<1> QED
  BY <1>2, <1>5, <1>11, <1>12 DEF Settled

-----------------------------------------------------------------------------
(* Tokens that are inserted.                                               *)

\* A token that is no node, put in front of another at the same place or, when
\* that has been handed out, at the end.
PutIn(u, t, parsed, n, e) ==
  /\ Len(t) \in Nat /\ n \in 0 .. Len(t) - 1 /\ Len(u) = Len(t) + 1
  /\ e.kind \notin Nodes /\ e.start = t[n + 1].start
  /\ \A i \in 1 .. Len(t) : t[i].start \in Int
  /\ n < parsed => /\ u[Len(t) + 1] = e /\ \A i \in 1 .. Len(t) : u[i] = t[i]
                   /\ Gone(t, n + 1)
  /\ n >= parsed => /\ u[n + 1] = e /\ \A i \in 1 .. n : u[i] = t[i]
                    /\ \A i \in n + 2 .. Len(t) + 1 : u[i] = t[i - 1]

\* A collection in front of the place, or behind it.
LEMMA GoneBefore ==
  ASSUME NEW t, NEW u, NEW parsed \in Nat, NEW n, NEW e, PutIn(u, t, parsed, n, e), NEW j, Gone(t, j), j <= n
  PROVE  Gone(u, j)
<1>1. /\ Len(t) \in Nat /\ n \in Nat /\ n < Len(t) /\ j \in 1 .. n /\ j \in 1 .. Len(t) /\ j + 1 \in 1 .. Len(t)
      /\ j \in 1 .. Len(u) - 1
  BY DEF PutIn, Gone
<1>2. CASE n < parsed
  BY <1>1, <1>2 DEF PutIn, Gone
<1>3. CASE ~(n < parsed)
  <2>1. n >= parsed
    BY <1>1, <1>3
  <2>2. u[j] = t[j]
    BY <1>1, <2>1 DEF PutIn
  <2>3. u[j + 1].kind \notin Nodes
    <3>1. CASE j = n
      BY <2>1, <3>1 DEF PutIn
    <3>2. CASE j # n
      <4>1. j + 1 \in 1 .. n
        BY <1>1, <3>2
      <4> QED
        BY <2>1, <4>1 DEF PutIn, Gone
    <3> QED
      BY <3>1, <3>2
  <2> QED
    BY <1>1, <2>2, <2>3 DEF Gone
<1> QED
  BY <1>2, <1>3

LEMMA GoneBehind ==
  ASSUME NEW t, NEW u, NEW parsed \in Nat, NEW n, NEW e, PutIn(u, t, parsed, n, e), NEW j, Gone(t, j), j > n,
         n >= parsed
  PROVE  Gone(u, j + 1) /\ u[j + 1] = t[j]
<1>1. /\ Len(t) \in Nat /\ n \in Nat /\ j \in 1 .. Len(t) - 1 /\ j + 1 \in n + 2 .. Len(t) + 1
      /\ j + 2 \in n + 2 .. Len(t) + 1 /\ j + 1 \in 1 .. Len(u) - 1 /\ j + 1 - 1 = j /\ j + 2 - 1 = j + 1
      /\ j + 1 + 1 = j + 2
  BY DEF PutIn, Gone
<1>2. u[j + 1] = t[j] /\ u[j + 2] = t[j + 1]
  BY <1>1 DEF PutIn
<1> QED
  BY <1>1, <1>2 DEF Gone

LEMMA InsertedOrder ==
  ASSUME NEW t, NEW u, NEW parsed \in Nat, NEW n, NEW e, PutIn(u, t, parsed, n, e), Ordered(t)
  PROVE  Ordered(u)
<1> SUFFICES ASSUME NEW i \in 1 .. Len(u), NEW k \in 1 .. Len(u), k < i, u[k].start > u[i].start
             PROVE  \E j \in 1 .. i - 1 : Gone(u, j) /\ u[j].start = u[i].start
  BY DEF Ordered
<1>1. /\ Len(t) \in Nat /\ n \in Nat /\ n < Len(t) /\ Len(u) = Len(t) + 1 /\ n + 1 \in 1 .. Len(t)
      /\ e.start = t[n + 1].start /\ \A m \in 1 .. Len(t) : t[m].start \in Int
  BY DEF PutIn
<1>2. CASE n < parsed
  <2>1. /\ u[Len(t) + 1] = e /\ \A m \in 1 .. Len(t) : u[m] = t[m]
        /\ Gone(t, n + 1)
    BY <1>2 DEF PutIn
  <2>2. \A j \in 1 .. Len(t) : Gone(t, j) => Gone(u, j)
    BY <1>1, <2>1 DEF Gone
  <2>3. CASE i = Len(t) + 1
    BY <1>1, <2>1, <2>2, <2>3
  <2>4. CASE i # Len(t) + 1
    <3>1. i \in 1 .. Len(t) /\ k \in 1 .. Len(t)
      BY <1>1, <2>4
    <3>2. PICK j \in 1 .. i - 1 : Gone(t, j) /\ t[j].start = t[i].start
      BY <2>1, <3>1 DEF Ordered
    <3>3. j \in 1 .. Len(t)
      BY <3>1
    <3> QED
      BY <2>1, <2>2, <3>1, <3>2, <3>3
  <2> QED
    BY <2>3, <2>4
<1>3. CASE ~(n < parsed)
  <2>0. n >= parsed
    BY <1>1, <1>3
  <2>1. /\ u[n + 1] = e /\ \A m \in 1 .. n : u[m] = t[m]
        /\ \A m \in n + 2 .. Len(t) + 1 : u[m] = t[m - 1]
    BY <2>0 DEF PutIn
  \* Where the token stood, or the one in front of which the new one stands.
  <2> DEFINE old(m) == IF m <= n + 1 THEN m ELSE m - 1
  <2>2. ASSUME NEW m \in 1 .. Len(u)
        PROVE  old(m) \in 1 .. Len(t) /\ u[m].start = t[old(m)].start
    <3>1. CASE m <= n
      BY <1>1, <2>1, <3>1
    <3>2. CASE m = n + 1
      BY <1>1, <2>1, <3>2
    <3>3. CASE m > n + 1
      <4>1. m \in n + 2 .. Len(t) + 1 /\ old(m) = m - 1 /\ m - 1 \in 1 .. Len(t)
        BY <1>1, <3>3
      <4> QED
        BY <2>1, <4>1
    <3> QED
      BY <1>1, <3>1, <3>2, <3>3
  <2>3. old(k) \in 1 .. Len(t) /\ old(i) \in 1 .. Len(t) /\ t[old(k)].start > t[old(i)].start
    BY <2>2
  <2>4. old(k) <= old(i)
    BY <1>1
  <2>5. old(k) # old(i)
    BY <1>1, <2>3
  <2>6. old(k) < old(i)
    BY <2>3, <2>4, <2>5
  <2>7. PICK j \in 1 .. old(i) - 1 : Gone(t, j) /\ t[j].start = t[old(i)].start
    BY <2>3, <2>6 DEF Ordered
  <2>8. t[j].start = u[i].start
    BY <2>2, <2>7
  <2>9. CASE j <= n
    <3>1. j \in 1 .. i - 1 /\ j \in 1 .. n
      BY <1>1, <2>9
    <3> QED
      BY <2>1, <2>7, <2>8, <2>9, <3>1, GoneBefore
  <2>10. CASE j > n
    <3>1. j + 1 \in 1 .. i - 1
      BY <1>1, <2>10
    <3> QED
      BY <2>0, <2>7, <2>8, <2>10, <3>1, GoneBehind
  <2> QED
    BY <1>1, <2>9, <2>10
<1> QED
  BY <1>2, <1>3

LEMMA InsertSettles ==
  ASSUME NEW t, NEW u, NEW parsed \in Nat, NEW n, NEW e, PutIn(u, t, parsed, n, e),
         NEW keys, NEW byTok, Settled(t, keys, byTok, parsed),
         \A l \in OpenAt(keys) : keys[l].number < n
  PROVE  Settled(u, keys, byTok, parsed)
<1>1. /\ Len(t) \in Nat /\ n \in Nat /\ n < Len(t) /\ Len(u) = Len(t) + 1
  BY DEF PutIn
<1>2. Ordered(u)
  BY InsertedOrder DEF Settled
<1>3. \A l \in DOMAIN keys : keys[l].number \in 0 .. Len(t) - 1 /\ keys[l].number \in 0 .. Len(u) - 1
  BY <1>1 DEF Settled
<1>4. ASSUME NEW l \in OpenAt(keys)
      PROVE  /\ keys[l].number + 1 \in 1 .. n /\ u[keys[l].number + 1] = t[keys[l].number + 1]
             /\ keys[l].number + 1 # Len(t)
             /\ Gone(t, keys[l].number + 1) => Gone(u, keys[l].number + 1)
  <2>1. l \in DOMAIN keys
    BY DEF OpenAt
  <2>2. keys[l].number + 1 \in 1 .. n /\ keys[l].number + 1 \in 1 .. Len(t) /\ keys[l].number + 1 # Len(t)
    BY <1>1, <1>3, <2>1
  <2>3. u[keys[l].number + 1] = t[keys[l].number + 1]
    <3>1. n < parsed \/ n >= parsed
      BY <1>1
    <3> QED
      BY <2>2, <3>1 DEF PutIn
  <2>4. keys[l].number + 1 <= n
    BY <2>2
  <2> QED
    BY <2>2, <2>3, <2>4, GoneBefore
<1>5. ASSUME NEW l \in OpenAt(keys)
      PROVE  /\ u[keys[l].number + 1].start = keys[l].at
             /\ Guarded(keys, byTok, parsed, l) \/ Gone(u, keys[l].number + 1)
  BY <1>4 DEF Settled
<1>6. ASSUME NEW l \in OpenAt(keys), NEW m \in DOMAIN keys, l < m
      PROVE  /\ keys[l].number <= keys[m].number
             /\ keys[l].number = keys[m].number =>
                  /\ m = l + 1 /\ u[keys[l].number + 1].kind \in FlowStarts
                  /\ keys[l].number + 1 = Len(u) \/ Gone(u, keys[l].number + 1)
  <2>1. /\ keys[l].number <= keys[m].number
        /\ keys[l].number = keys[m].number =>
             /\ m = l + 1 /\ t[keys[l].number + 1].kind \in FlowStarts
             /\ keys[l].number + 1 = Len(t) \/ Gone(t, keys[l].number + 1)
    BY <1>6 DEF Settled
  <2> QED
    BY <1>4, <2>1
<1> QED
  BY <1>2, <1>3, <1>5, <1>6 DEF Settled

-----------------------------------------------------------------------------
(* Candidates that are given up.                                           *)

\* Another state of the same queue, in which candidates may have been given up
\* and the head waits for the others as before.
Fewer(q, p) ==
  /\ q.input = p.input /\ q.tokens = p.tokens /\ q.parsed = p.parsed
  /\ DOMAIN q.keys \subseteq DOMAIN p.keys /\ Len(q.keys) = Len(p.keys)
  /\ \A l \in DOMAIN q.keys : q.keys[l].number = p.keys[l].number
  /\ \A l \in OpenAt(q.keys) :
       /\ l \in OpenAt(p.keys) /\ q.keys[l].at = p.keys[l].at
       /\ Guarded(p.keys, p.byTok, p.parsed, l) => Guarded(q.keys, q.byTok, q.parsed, l)

LEMMA FewerSettles ==
  ASSUME NEW p, NEW q, Fewer(q, p), Settles(p)
  PROVE  Settles(q)
<1>1. Settled(p.tokens, p.keys, p.byTok, p.parsed)
  BY DEF Settles
<1>2. /\ DOMAIN q.keys \subseteq DOMAIN p.keys
      /\ \A l \in DOMAIN q.keys : q.keys[l].number = p.keys[l].number
      /\ \A l \in OpenAt(q.keys) : l \in OpenAt(p.keys) /\ q.keys[l].at = p.keys[l].at
      /\ \A l \in OpenAt(q.keys) : Guarded(p.keys, p.byTok, p.parsed, l) => Guarded(q.keys, q.byTok, p.parsed, l)
  BY DEF Fewer
<1>3. Settled(p.tokens, q.keys, q.byTok, p.parsed)
  BY <1>1, <1>2, FewerSettle
<1>4. Nested(p.input, p.tokens, q.keys)
  <2>1. \A l \in OpenAt(q.keys) : l \in DOMAIN q.keys
    BY DEF OpenAt
  <2> QED
    BY <2>1, FewerNested DEF Settles, Fewer
<1> QED
  BY <1>3, <1>4 DEF Fewer, Settles

LEMMA FewerOn ==
  ASSUME NEW p, NEW q, NEW r, Fewer(q, p), Fewer(r, q)
  PROVE  Fewer(r, p)
<1>1. \A l \in OpenAt(r.keys) : l \in DOMAIN r.keys
  BY DEF OpenAt
<1> QED
  BY <1>1 DEF Fewer

LEMMA FewerSame ==
  ASSUME NEW p, NEW q, q.input = p.input, q.tokens = p.tokens, q.parsed = p.parsed, q.keys = p.keys,
         q.byTok = p.byTok
  PROVE  Fewer(q, p)
BY DEF Fewer, Guarded

LEMMA FewerPut ==
  ASSUME NEW p, Live(p), NEW x, NEW field \in {"ok", "pos", "allowed", "indents"}
  PROVE  LET q == Put(p, field, x)
         IN /\ Fewer(q, p) /\ q.keys = p.keys /\ q.byTok = p.byTok /\ q.tokens = p.tokens /\ q.parsed = p.parsed
            /\ q.input = p.input
<1> DEFINE q == Put(p, field, x)
<1>1. q.input = p.input /\ q.tokens = p.tokens /\ q.parsed = p.parsed /\ q.keys = p.keys /\ q.byTok = p.byTok
  BY DEF Put, Live, Scanning
<1> HIDE DEF q
<1> QED
  BY <1>1, FewerSame DEF q

LEMMA FewerAllow ==
  ASSUME NEW p, Live(p), NEW b
  PROVE  Fewer(Allow(p, b), p) /\ Allow(p, b).allowed = b
<1>1. Allow(p, b) = Put(p, "allowed", b)
  BY DEF Allow, Put
<1>2. Put(p, "allowed", b).allowed = b
  BY DEF Put, Live, Scanning
<1> QED
  BY <1>1, <1>2, FewerPut

LEMMA FewerError ==
  ASSUME NEW p, Live(p)
  PROVE  Fewer(Error(p), p)
<1>1. Error(p) = Put(p, "ok", FALSE)
  BY DEF Error, Put
<1> QED
  BY <1>1, FewerPut

\* A candidate that is given up.
LEMMA FewerDrop ==
  ASSUME NEW p, Spanned(p), NEW level, NEW no, ~no
  PROVE  LET q == Put(p, "keys", SetPossible(p.keys, level, no))
         IN /\ Fewer(q, p) /\ level \notin OpenAt(q.keys) /\ q.byTok = p.byTok /\ Live(q)
            /\ q.input = p.input /\ q.tokens = p.tokens /\ q.parsed = p.parsed
            /\ DOMAIN q.keys = DOMAIN p.keys /\ Len(q.keys) = Len(p.keys)
<1> DEFINE keys == SetPossible(p.keys, level, no)
           q == Put(p, "keys", keys)
<1>1. q.keys = keys /\ q.input = p.input /\ q.tokens = p.tokens /\ q.parsed = p.parsed /\ q.byTok = p.byTok
  BY DEF Put, Spanned, Live, Scanning
<1>2. DOMAIN keys = DOMAIN p.keys
  BY DEF SetPossible
<1>3. \A l \in DOMAIN p.keys : l # level => keys[l] = p.keys[l]
  BY DEF SetPossible
<1>4. ASSUME level \in DOMAIN p.keys
      PROVE  keys[level].number = p.keys[level].number /\ ~keys[level].possible
  <2>1. keys[level] = [p.keys[level] EXCEPT !.possible = no]
    BY <1>4 DEF SetPossible
  <2>2. {"number", "possible"} \subseteq DOMAIN p.keys[level]
    BY <1>4 DEF Spanned, Live, Scanning
  <2> QED
    BY <2>1, <2>2
<1>5. Live(q)
  BY PossibleKeeps DEF Keeps, Spanned
<1> HIDE DEF q, keys
<1>6. level \notin OpenAt(q.keys)
  BY <1>1, <1>2, <1>4 DEF OpenAt
<1>7. \A l \in DOMAIN q.keys : q.keys[l].number = p.keys[l].number
  BY <1>1, <1>2, <1>3, <1>4
<1>8. \A l \in OpenAt(q.keys) : l \in OpenAt(p.keys) /\ q.keys[l] = p.keys[l]
  BY <1>1, <1>2, <1>3, <1>6 DEF OpenAt
<1>9. Len(q.keys) = Len(p.keys)
  <2>1. DOMAIN q.keys = 1 .. Len(q.keys) /\ Len(q.keys) \in Nat /\ DOMAIN p.keys = 1 .. Len(p.keys) /\ Len(p.keys) \in Nat
    BY <1>5, LiveLen DEF Spanned
  <2> QED
    BY <1>1, <1>2, <2>1
<1>10. Fewer(q, p)
  BY <1>1, <1>2, <1>7, <1>8, <1>9 DEF Fewer, Guarded
<1> QED
  BY <1>1, <1>2, <1>5, <1>6, <1>9, <1>10 DEF q, keys

LEMMA FewerDropStale ==
  ASSUME NEW p, Spanned(p), NEW level
  PROVE  Fewer(DropStaleKey(p, level), p)
<1> DEFINE no == FALSE
           q == Put(p, "keys", SetPossible(p.keys, level, no))
<1>1. [p EXCEPT !.keys[level].possible = FALSE] = q
  BY DEF Put, SetPossible
<1>2. DropStaleKey(p, level) \in {p, Error(p), q}
  <2> HIDE DEF q
  <2> QED
    BY <1>1 DEF DropStaleKey
<1>3. ~no
  OBVIOUS
<1> HIDE DEF no
<1>4. Fewer(q, p)
  BY <1>3, FewerDrop
<1> QED
  BY <1>2, <1>4, FewerSame, FewerError DEF Spanned

\* The number of a candidate is forgotten that is none any more.
LEMMA FewerForget ==
  ASSUME NEW p, NEW q, Fewer(q, p), Live(q), q.byTok = p.byTok, NEW number, \A l \in OpenAt(q.keys) : q.keys[l].number # number
  PROVE  LET r == Put(q, "byTok", WithoutToken(p.byTok, number))
         IN Fewer(r, p) /\ r.keys = q.keys /\ r.tokens = q.tokens
<1> DEFINE tok == WithoutToken(p.byTok, number)
           r == Put(q, "byTok", tok)
<1>1. r.input = q.input /\ r.tokens = q.tokens /\ r.parsed = q.parsed /\ r.keys = q.keys /\ r.byTok = tok
  BY DEF Put, Live, Scanning
<1>2. DOMAIN tok = DOMAIN p.byTok \ {number} /\ \A n \in DOMAIN tok : tok[n] = p.byTok[n]
  BY DEF WithoutToken, Restrict
<1> HIDE DEF r, tok
<1>3. Fewer(r, q)
  BY <1>1, <1>2 DEF Fewer, Guarded, OpenAt
<1> QED
  BY <1>1, <1>3, FewerOn DEF r, tok

LEMMA FewerRemove ==
  ASSUME NEW p, Spanned(p), Aimed(p)
  PROVE  Fewer(RemoveKey(p), p)
<1> DEFINE key == Last(p.keys)
           no == FALSE
           q == Put(p, "keys", SetPossible(p.keys, Len(p.keys), no))
           r == Put(q, "byTok", WithoutToken(p.byTok, key.number))
<1>1. [p EXCEPT !.keys[Len(p.keys)].possible = FALSE, !.byTok = WithoutToken(@, key.number)] = r
  BY DEF Put, SetPossible
<1>2. RemoveKey(p) = IF ~key.possible THEN p ELSE IF key.required THEN Error(p) ELSE r
  <2> HIDE DEF r
  <2> QED
    BY <1>1 DEF RemoveKey
<1>3. ~no
  OBVIOUS
<1> HIDE DEF no
<1>4. Fewer(q, p) /\ Len(p.keys) \notin OpenAt(q.keys) /\ q.byTok = p.byTok /\ Live(q)
  BY <1>3, FewerDrop
<1> HIDE DEF q, r
<1>5. ASSUME key.possible PROVE Fewer(r, p)
  <2>1. Len(p.keys) \in Possible(p) /\ key = p.keys[Len(p.keys)] /\ DOMAIN p.keys = 1 .. Len(p.keys) /\ Len(p.keys) \in Nat
    BY <1>5, LiveLen DEF Last, Possible, Spanned
  <2>2. ASSUME NEW l \in OpenAt(q.keys) PROVE q.keys[l].number # key.number
    <3>1. l \in OpenAt(p.keys) /\ l # Len(p.keys) /\ l \in DOMAIN q.keys
      BY <1>4 DEF Fewer, OpenAt
    <3>2. q.keys[l].number = p.keys[l].number
      BY <1>4, <3>1 DEF Fewer
    <3>3. l \in Possible(p) /\ l < Len(p.keys)
      BY <2>1, <3>1 DEF OpenAt, Possible
    <3>4. p.keys[l].number < p.keys[Len(p.keys)].number
      BY <2>1, <3>3 DEF Aimed
    <3>5. p.keys[l].number \in Int
      BY <3>3 DEF Possible, Spanned, Live, Scanning
    <3> QED
      BY <2>1, <3>2, <3>4, <3>5
  <2> QED
    BY <1>4, <2>2, FewerForget DEF r
<1> QED
  BY <1>2, <1>5, FewerSame, FewerError DEF Spanned

-----------------------------------------------------------------------------
(* A token at the end of the queue.                                        *)

LEMMA ReadyFewer ==
  ASSUME NEW p, Live(p), NEW q, Fewer(q, p), NEW kind, kind \notin Nodes
  PROVE  ReadyFor(q, p, kind)
<1>1. DOMAIN q.keys \subseteq Nat
  BY LiveLen DEF Fewer
<1>2. \A l \in OpenAt(q.keys) : l \in DOMAIN q.keys
  BY DEF OpenAt
<1> QED
  BY <1>1, <1>2 DEF Fewer, ReadyFor, Kept

LEMMA ReadyOn ==
  ASSUME NEW p, NEW q, NEW kind, ReadyFor(q, p, kind), NEW r, r.keys = q.keys, r.byTok = q.byTok
  PROVE  ReadyFor(r, p, kind)
BY DEF ReadyFor, Kept, Begun, Guarded

LEMMA LevelsFewer ==
  ASSUME NEW p, Live(p), NEW q, Fewer(q, p)
  PROVE  Levels(q, p, 0)
<1>1. Len(p.keys) \in Nat /\ \A l \in OpenAt(q.keys) : l \in DOMAIN q.keys
  BY LiveLen DEF OpenAt
<1> QED
  BY <1>1 DEF Fewer, Levels

LEMMA LevelsOn ==
  ASSUME NEW p, NEW q, NEW w, Levels(q, p, w), NEW r, r.keys = q.keys
  PROVE  Levels(r, p, w)
BY DEF Levels

LEMMA StartsBehind ==
  ASSUME NEW p, Spanned(p)
  PROVE  \A i \in 1 .. Len(p.tokens) : p.tokens[i].start \in Int /\ p.tokens[i].start <= p.pos
<1>1. DOMAIN p.tokens = 1 .. Len(p.tokens) /\ p.pos \in Int
  BY LiveLen, ListedLen, SpannedPos DEF Spanned
<1>2. \A i \in 1 .. Len(p.tokens) : p.tokens[i].start \in 1 .. p.pos
  BY <1>1 DEF Spanned, Spot
<1> QED
  BY <1>1, <1>2

\* A token at the end.
LEMMA ReadySettles ==
  ASSUME NEW p, Spanned(p), Settles(p), NEW kind, NEW q, ReadyFor(q, p, kind),
         Levels(q, p, Weight(kind)), NEW t, t.kind = kind, t.start = p.pos, ~SimpleKey(t),
         NEW r, r.input = p.input, r.tokens = Append(p.tokens, t), r.keys = q.keys, r.byTok = q.byTok,
         r.parsed = p.parsed
  PROVE  Settles(r)
<1> DEFINE u == Append(p.tokens, t)
           n == Len(p.tokens)
<1>1. Listed(p.tokens) /\ n \in Nat /\ p.pos \in Int /\ p.parsed \in Nat /\ p.parsed <= n
  BY LiveLen, SpannedPos DEF Spanned
<1>2. /\ Len(u) = n + 1 /\ u[n + 1] = t /\ \A i \in 1 .. n : u[i] = p.tokens[i]
  BY <1>1, ListedAppend
<1>3. r.tokens = u
  OBVIOUS
<1> HIDE DEF u
<1>4. \A i \in n + 1 .. Len(u) : i = n + 1
  BY <1>1, <1>2
<1>5. Grown(u, p.tokens, p.pos)
  BY <1>1, <1>2, <1>4, StartsBehind DEF Grown
<1>6. u[n + 1].kind = kind /\ n < Len(u)
  BY <1>1, <1>2
<1>7. Settled(u, q.keys, q.byTok, p.parsed)
  BY <1>1, <1>2, <1>5, <1>6, GrownSettle DEF Settles
<1>8. Nested(p.input, u, q.keys)
  <2>1. \A i \in n + 1 .. Len(u) - 1 : Weight(u[i].kind) = 0
    BY <1>1, <1>2
  <2>2. \A i \in n + 1 .. Len(u) : ~SimpleKey(u[i])
    BY <1>2, <1>4
  <2>3. Levels(q, p, Weight(u[Len(u)].kind)) /\ DOMAIN q.keys \subseteq Nat
    BY <1>2 DEF ReadyFor
  <2> QED
    BY <1>5, <1>6, <2>1, <2>2, <2>3, GrownNested DEF Settles, Settled, Spanned
<1> QED
  BY <1>3, <1>7, <1>8 DEF Settles

\* A collection that has just begun may start with a key.
Opened(p) == p.tokens # <<>> /\ p.tokens[Len(p.tokens)].kind \in FlowStarts => p.allowed

LEMMA ReadySave ==
  ASSUME NEW p, Spanned(p), Tidy(p), Settles(p), Opened(p), SaveKey(p).ok, NEW kind
  PROVE  LET q == SaveKey(p)
         IN /\ ReadyFor(q, p, kind) /\ Levels(q, p, 0)
            /\ q.tokens = p.tokens /\ q.parsed = p.parsed /\ q.pos = p.pos
            /\ \A l \in OpenAt(q.keys) : Begun(l, q, p, kind) => l = Len(q.keys)
<1> DEFINE key == Key(TRUE, Flow(p) = 0 /\ Indent(p) = Col(p), Len(p.tokens), p.pos)
           q == RemoveKey(p)
           x == [n \in DOMAIN q.byTok \cup {key.number} |->
                   IF n = key.number THEN Len(q.keys) ELSE q.byTok[n]]
           keys == SetKey(q.keys, Len(q.keys), key)
           r == Put(q, "keys", keys)
           s == Put(r, "byTok", x)
           n == Len(p.tokens)
<1>1. key.number = n /\ key.at = p.pos
  BY DEF Key
<1> HIDE DEF key
<1>2. [q EXCEPT !.keys[Len(q.keys)] = key,
                !.byTok = [m \in DOMAIN @ \cup {key.number} |->
                             IF m = key.number THEN Len(q.keys) ELSE @[m]]] = s
  <2> HIDE DEF q
  <2> QED
    BY DEF Put, SetKey
<1>3. \/ SaveKey(p) = p /\ ~p.allowed
      \/ q.ok /\ SaveKey(p) = s
  <2>1. SaveKey(p) = IF ~p.allowed THEN p ELSE IF q.ok THEN s ELSE q
    <3> HIDE DEF s, r, keys, x
    <3> QED
      BY <1>2 DEF SaveKey, Then, key
  <2> HIDE DEF q, s, r, keys, x
  <2> QED
    BY <2>1
<1>4. /\ n \in Nat /\ DOMAIN p.keys = 1 .. Len(p.keys) /\ Len(p.keys) \in Nat /\ Len(p.keys) >= 1
      /\ \A l \in DOMAIN p.keys : p.keys[l].number \in 0 .. n - 1
  BY LiveLen DEF Spanned, Settles, Settled
<1>5. \A l \in OpenAt(p.keys) : l \in DOMAIN p.keys
  BY DEF OpenAt
<1>6. CASE SaveKey(p) = p /\ ~p.allowed
  <2>1. ASSUME NEW l \in OpenAt(p.keys), NEW m \in DOMAIN p.keys, l < m, p.keys[m].number = p.keys[l].number
        PROVE  p.keys[l].number + 1 < n
    <3>1. /\ p.tokens[p.keys[l].number + 1].kind \in FlowStarts
          /\ p.keys[l].number + 1 = n \/ Gone(p.tokens, p.keys[l].number + 1)
      BY <2>1 DEF Settles, Settled
    <3>2. p.keys[l].number + 1 # n
      <4>1. n > 0 => p.tokens # <<>>
        BY LiveLen, ListedLen DEF Spanned
      <4> QED
        BY <1>4, <1>5, <1>6, <3>1, <4>1 DEF Opened
    <3>3. p.keys[l].number + 1 \in 1 .. n
      BY <1>4, <1>5
    <3> QED
      BY <1>4, <3>2, <3>3
  <2>2. \A l \in OpenAt(p.keys) : Kept(l, p, p, kind)
    BY DEF Kept
  <2>3. ReadyFor(p, p, kind)
    BY <1>4, <2>1, <2>2 DEF ReadyFor
  <2>4. \A l \in OpenAt(p.keys) : ~Begun(l, p, p, kind)
    BY <1>4, <1>5 DEF Begun
  <2>5. Levels(p, p, 0)
    BY FewerSame, LevelsFewer DEF Spanned
  <2> QED
    BY <1>6, <2>3, <2>4, <2>5
<1>7. CASE q.ok /\ SaveKey(p) = s
  <2>1. Fewer(q, p) /\ q.tokens = p.tokens /\ q.parsed = p.parsed
    BY FewerRemove DEF Tidy, Fewer
  <2>2. Staying(q, p)
    BY RemoveKeyStays
  <2>3. /\ Len(q.keys) \notin Possible(q) /\ (q.keys = p.keys \/ DOMAIN q.keys = DOMAIN p.keys)
    BY <1>7, RemoveKeyWeaker DEF Spanned
  <2> HIDE DEF q
  <2>4. Spanned(q) /\ Live(q) /\ q.pos = p.pos
    BY <2>2, StayingIs
  <2>5. DOMAIN q.keys = 1 .. Len(q.keys) /\ Len(q.keys) \in Nat /\ Len(q.keys) >= 1 /\ Len(q.keys) = Len(p.keys)
    BY <1>4, <2>3, <2>4, LiveLen
  <2>6. s.keys = keys /\ s.byTok = x /\ s.tokens = p.tokens /\ s.parsed = p.parsed /\ s.pos = p.pos
    <3> HIDE DEF keys, x
    <3>1. {"keys", "byTok", "tokens", "parsed", "pos"} \subseteq DOMAIN q
      BY <2>4 DEF Live, Scanning
    <3> QED
      BY <2>1, <2>4, <3>1 DEF Put
  <2>7. /\ DOMAIN keys = DOMAIN q.keys
        /\ \A l \in DOMAIN q.keys : keys[l] = IF l = Len(q.keys) THEN key ELSE q.keys[l]
    BY DEF SetKey
  <2>8. /\ DOMAIN x = DOMAIN q.byTok \cup {n} /\ x[n] = Len(q.keys)
        /\ \A m \in DOMAIN q.byTok : m # n => x[m] = q.byTok[m]
    BY <1>1
  <2> HIDE DEF keys, x, s
  <2>15. Len(s.keys) = Len(q.keys)
    BY <2>4, <2>5, <2>6, <2>7, SaveKeyKeeps, <1>7, LiveLen DEF Keeps, Spanned
  <2>9. ASSUME NEW l \in OpenAt(s.keys) PROVE Kept(l, s, p, kind) \/ (Begun(l, s, p, kind) /\ l = Len(s.keys))
    <3>1. l \in DOMAIN q.keys /\ keys[l].possible
      BY <2>6, <2>7 DEF OpenAt
    <3>2. CASE l = Len(q.keys)
      BY <1>1, <2>5, <2>6, <2>7, <2>8, <2>15, <3>2 DEF Begun
    <3>3. CASE l # Len(q.keys)
      <4>1. keys[l] = q.keys[l] /\ l \in OpenAt(q.keys)
        BY <2>7, <3>1, <3>3 DEF OpenAt
      <4>2. l \in OpenAt(p.keys) /\ l \in DOMAIN p.keys /\ q.keys[l].number = p.keys[l].number /\ q.keys[l].at = p.keys[l].at
        BY <1>5, <2>1, <3>1, <4>1 DEF Fewer
      <4>3. Guarded(p.keys, p.byTok, p.parsed, l) => Guarded(q.keys, q.byTok, p.parsed, l)
        BY <2>1, <4>1 DEF Fewer
      <4>4. p.keys[l].number # n
        BY <1>4, <4>2
      <4>5. Guarded(q.keys, q.byTok, p.parsed, l) => Guarded(s.keys, s.byTok, p.parsed, l)
        BY <2>6, <2>8, <4>1, <4>2, <4>4 DEF Guarded
      <4> QED
        BY <2>6, <4>1, <4>2, <4>3, <4>5 DEF Kept
    <3> QED
      BY <3>2, <3>3
  <2>10. ASSUME NEW m \in DOMAIN s.keys
         PROVE  s.keys[m].number = n \/ (m \in DOMAIN p.keys /\ s.keys[m].number = p.keys[m].number /\ m < Len(p.keys))
    <3>1. m \in DOMAIN q.keys
      BY <2>6, <2>7
    <3>2. CASE m = Len(q.keys)
      BY <1>1, <2>6, <2>7, <3>1, <3>2
    <3>3. CASE m # Len(q.keys)
      <4>1. s.keys[m] = q.keys[m] /\ m \in DOMAIN p.keys /\ q.keys[m].number = p.keys[m].number
        BY <2>1, <2>6, <2>7, <3>1, <3>3 DEF Fewer
      <4> QED
        BY <2>5, <3>1, <3>3, <4>1
    <3> QED
      BY <3>2, <3>3
  <2>11. ASSUME NEW l \in OpenAt(p.keys), NEW m \in DOMAIN s.keys, l < m, s.keys[m].number = p.keys[l].number
         PROVE  p.keys[l].number + 1 < n
    <3>1. p.keys[l].number \in 0 .. n - 1
      BY <1>4, <1>5
    <3>2. m \in DOMAIN p.keys /\ p.keys[m].number = p.keys[l].number /\ m < Len(p.keys)
      BY <1>4, <2>10, <2>11, <3>1
    \* The number of the level within is not smaller, and no less than that many.
    <3>3. m = l + 1
      BY <2>11, <3>2 DEF Settles, Settled
    <3>4. Len(p.keys) \in DOMAIN p.keys /\ l < Len(p.keys) /\ Len(p.keys) # l + 1
      BY <1>4, <1>5, <3>2, <3>3
    <3>5. p.keys[l].number <= p.keys[Len(p.keys)].number /\ p.keys[l].number # p.keys[Len(p.keys)].number
      BY <3>4 DEF Settles, Settled
    <3>6. p.keys[Len(p.keys)].number \in 0 .. n - 1
      BY <1>4, <3>4
    <3> QED
      BY <1>4, <3>1, <3>5, <3>6
  <2>12. DOMAIN s.keys \subseteq Nat
    BY <2>5, <2>6, <2>7
  <2>13. ReadyFor(s, p, kind)
    BY <2>9, <2>10, <2>11, <2>12 DEF ReadyFor
  <2>14. \A l \in OpenAt(s.keys) : Begun(l, s, p, kind) => l = Len(s.keys)
    <3>1. ASSUME NEW l \in OpenAt(s.keys), Kept(l, s, p, kind), Begun(l, s, p, kind) PROVE FALSE
      <4>1. l \in DOMAIN p.keys /\ s.keys[l].number = p.keys[l].number /\ s.keys[l].number = n
        BY <1>5, <3>1 DEF Kept, Begun
      <4>2. p.keys[l].number \in 0 .. n - 1
        BY <1>4, <4>1
      <4> QED
        BY <1>4, <4>1, <4>2
    <3> QED
      BY <2>9, <3>1
  <2>16. Levels(s, p, 0)
    BY <1>4, <2>5, <2>9, <2>15 DEF Levels, Kept, Begun
  <2> QED
    BY <1>7, <2>6, <2>13, <2>14, <2>16
<1> QED
  BY <1>3, <1>6, <1>7

-----------------------------------------------------------------------------
(* Levels that begin and end.                                              *)

\* The level of a collection that begins, at the token that comes next.
LEMMA ReadyIncrease ==
  ASSUME NEW p, Spanned(p), Settles(p), NEW kind \in FlowStarts,
         NEW q, Live(q), q.tokens = p.tokens, ReadyFor(q, p, kind), Levels(q, p, 0),
         \A l \in OpenAt(q.keys) : Begun(l, q, p, kind) => l = Len(q.keys),
         IncreaseFlow(q).ok
  PROVE  ReadyFor(IncreaseFlow(q), p, kind) /\ Levels(IncreaseFlow(q), p, 1)
<1> DEFINE key == Key(FALSE, FALSE, Len(q.tokens), q.pos)
           keys == Append(q.keys, key)
           r == Put(q, "keys", keys)
           n == Len(p.tokens)
<1>1. ~key.possible /\ key.number = n
  BY DEF Key
<1> HIDE DEF key
<1>2. [q EXCEPT !.keys = Append(@, key)] = r
  BY DEF Put
<1>3. IncreaseFlow(q) = r \/ IncreaseFlow(q) = Error(r)
  <2> HIDE DEF r
  <2> QED
    BY <1>2 DEF IncreaseFlow, key
<1>4. r.keys = keys /\ r.byTok = q.byTok
  <2> HIDE DEF keys
  <2> QED
    BY DEF Put, Live, Scanning
<1>5. Error(r).keys = r.keys /\ Error(r).byTok = r.byTok
  BY DEF Error
<1>6. Listed(q.keys) /\ Len(q.keys) \in Nat /\ DOMAIN q.keys = 1 .. Len(q.keys)
  BY LiveLen
<1>7. /\ DOMAIN keys = 1 .. Len(q.keys) + 1 /\ Len(keys) = Len(q.keys) + 1
      /\ keys[Len(q.keys) + 1] = key /\ \A l \in 1 .. Len(q.keys) : keys[l] = q.keys[l]
  <2>1. /\ Listed(keys) /\ Len(keys) = Len(q.keys) + 1
        /\ keys[Len(q.keys) + 1] = key /\ \A l \in 1 .. Len(q.keys) : keys[l] = q.keys[l]
    BY <1>6, ListedAppend
  <2> QED
    BY <2>1, ListedLen
<1> HIDE DEF keys, r
<1>8. \A m \in DOMAIN r.keys : \/ m = Len(q.keys) + 1 /\ r.keys[m] = key
                               \/ m \in DOMAIN q.keys /\ r.keys[m] = q.keys[m]
  <2>1. \A m \in 1 .. Len(q.keys) + 1 : m \in 1 .. Len(q.keys) \/ m = Len(q.keys) + 1
    BY <1>6
  <2> QED
    BY <1>4, <1>6, <1>7, <2>1
<1>9. \A l \in OpenAt(r.keys) : l \in OpenAt(q.keys) /\ r.keys[l] = q.keys[l]
  BY <1>1, <1>8 DEF OpenAt
<1>10. ASSUME NEW l \in OpenAt(r.keys) PROVE Kept(l, r, p, kind) \/ Begun(l, r, p, kind)
  <2>1. CASE Kept(l, q, p, kind)
    BY <1>4, <1>9, <2>1 DEF Kept, Guarded
  <2>2. CASE Begun(l, q, p, kind)
    <3>1. l = Len(q.keys)
      BY <1>9, <2>2
    <3>2. \A m \in DOMAIN r.keys : l < m => m = l + 1 /\ r.keys[m].number = n
      <4>1. \A m \in DOMAIN q.keys : ~(l < m)
        BY <1>6, <3>1
      <4> QED
        BY <1>1, <1>8, <3>1, <4>1
    <3> QED
      BY <1>4, <1>9, <2>2, <3>2 DEF Begun
  <2> QED
    BY <1>9, <2>1, <2>2 DEF ReadyFor
<1>11. \A m \in DOMAIN r.keys : \/ r.keys[m].number = n
                                \/ m \in DOMAIN p.keys /\ r.keys[m].number = p.keys[m].number
  BY <1>1, <1>8 DEF ReadyFor
<1>12. ASSUME NEW l \in OpenAt(p.keys), NEW m \in DOMAIN r.keys, l < m, r.keys[m].number = p.keys[l].number
       PROVE  p.keys[l].number + 1 < n
  <2>1. p.keys[l].number \in 0 .. n - 1 /\ n \in Nat
    BY LiveLen DEF Settles, Settled, OpenAt, Spanned
  <2>2. r.keys[m] # key
    BY <1>1, <1>12, <2>1
  <2>3. m \in DOMAIN q.keys /\ r.keys[m] = q.keys[m]
    BY <1>8, <2>2
  <2>4. kind \in Nodes
    BY DEF Nodes
  <2> QED
    BY <1>12, <2>3, <2>4 DEF ReadyFor
<1>13. DOMAIN r.keys \subseteq Nat
  BY <1>4, <1>6, <1>7
<1>14. ReadyFor(r, p, kind)
  BY <1>10, <1>11, <1>12, <1>13 DEF ReadyFor
<1>15. Levels(r, p, 1)
  <2>1. \A l \in OpenAt(q.keys) : l \in Nat
    BY <1>6 DEF OpenAt
  <2>2. Len(p.keys) \in Nat /\ Len(r.keys) = Len(q.keys) + 1
    BY <1>4, <1>7, LiveLen DEF Spanned
  <2> QED
    BY <1>6, <1>9, <2>1, <2>2 DEF Levels
<1> QED
  BY <1>3, <1>5, <1>14, <1>15, ReadyOn, LevelsOn

\* The level of a collection that ends: the collection may have had the number
\* that is forgotten with it, and then it has had no node.
LEMMA ReadyDecrease ==
  ASSUME NEW p, Spanned(p), NEW kind, kind \notin Nodes, NEW q, Live(q), Fewer(q, p),
         Flow(q) = 0 => OpenAt(q.keys) = {}
  PROVE  ReadyFor(DecreaseFlow(q), p, kind) /\ Levels(DecreaseFlow(q), p, -1)
<1>1. CASE Flow(q) = 0
  <2>1. Levels(q, p, -1)
    BY <1>1 DEF Levels
  <2> QED
    BY <1>1, <2>1, ReadyFewer DEF DecreaseFlow, Spanned
<1>2. CASE Flow(q) # 0
  <2> DEFINE r == DecreaseFlow(q)
             keys == SubSeq(q.keys, 1, Len(q.keys) - 1)
             number == Last(q.keys).number
             tok == WithoutToken(q.byTok, number)
             M == Len(q.keys)
  <2>1. M \in Nat /\ M >= 1 /\ DOMAIN q.keys = 1 .. M /\ Listed(q.keys) /\ number = q.keys[M].number
    BY LiveLen DEF Last
  <2>2. r.keys = keys /\ r.byTok = tok
    BY <1>2 DEF DecreaseFlow, Front, Live, Scanning
  <2>3. 1 \in 1 .. M + 1 /\ M - 1 \in 1 - 1 .. M
    BY <2>1
  <2>4. /\ Listed(keys) /\ Len(keys) = M - 1 - 1 + 1
        /\ \A i \in 1 .. M - 1 - 1 + 1 : keys[i] = q.keys[1 + i - 1]
    BY <2>1, <2>3, ListedPart
  <2>5. DOMAIN tok = DOMAIN q.byTok \ {number} /\ \A m \in DOMAIN tok : tok[m] = q.byTok[m]
    BY DEF WithoutToken, Restrict
  <2> HIDE DEF keys, r, tok, number
  <2>6. DOMAIN keys = 1 .. Len(keys)
    BY <2>4, ListedLen
  <2>7. \A l \in DOMAIN r.keys : l \in DOMAIN q.keys /\ r.keys[l] = q.keys[l] /\ l < M
    <3>1. \A l \in 1 .. M - 1 - 1 + 1 : l \in 1 .. M /\ 1 + l - 1 = l /\ l < M
      BY <2>1
    <3> QED
      BY <2>1, <2>2, <2>4, <2>6, <3>1
  <2>8. DOMAIN r.keys \subseteq Nat
    BY <2>1, <2>7
  <2>9. ASSUME NEW l \in OpenAt(r.keys) PROVE Kept(l, r, p, kind)
    <3>1. l \in DOMAIN q.keys /\ l \in OpenAt(q.keys) /\ r.keys[l] = q.keys[l] /\ l < M
      BY <2>7, <2>9 DEF OpenAt
    <3>2. /\ l \in OpenAt(p.keys) /\ q.keys[l].number = p.keys[l].number /\ q.keys[l].at = p.keys[l].at
          /\ Guarded(p.keys, p.byTok, p.parsed, l) => Guarded(q.keys, q.byTok, p.parsed, l)
      BY <3>1 DEF Fewer
    <3>3. CASE q.keys[l].number = number
      <4>1. M \in DOMAIN p.keys /\ p.keys[M].number = q.keys[M].number
        BY <2>1 DEF Fewer
      <4> QED
        BY <2>1, <3>1, <3>2, <3>3, <4>1 DEF Kept
    <3>4. CASE q.keys[l].number # number
      <4>1. Guarded(q.keys, q.byTok, p.parsed, l) => Guarded(r.keys, r.byTok, p.parsed, l)
        BY <2>2, <2>5, <3>1, <3>4 DEF Guarded
      <4> QED
        BY <3>1, <3>2, <4>1 DEF Kept
    <3> QED
      BY <3>3, <3>4
  <2>10. \A m \in DOMAIN r.keys : m \in DOMAIN p.keys /\ r.keys[m].number = p.keys[m].number
    BY <2>7 DEF Fewer
  <2>11. Levels(r, p, -1)
    <3>1. Len(r.keys) = M - 1 /\ Len(p.keys) = M
      BY <2>1, <2>2, <2>4 DEF Fewer
    <3> QED
      BY <2>1, <2>9, <3>1 DEF Levels, Kept
  <2> QED
    BY <2>8, <2>9, <2>10, <2>11 DEF ReadyFor, r
<1> QED
  BY <1>1, <1>2

\* The blocks that a column closes.
LEMMA UnrollSettles ==
  ASSUME NEW p, Spanned(p), Settles(p), NEW column
  PROVE  Settles(UnrollIndent(p, column)) /\ (Opened(p) => Opened(UnrollIndent(p, column)))
<1> DEFINE kept == Keep(p.indents, {i \in DOMAIN p.indents : p.indents[i] <= column})
           k == Len(p.indents) - Len(kept)
           ends == [i \in 1 .. k |-> Token("BlockEnd", p.pos, p.pos)]
           u == p.tokens \o ends
           q == UnrollIndent(p, column)
           n == Len(p.tokens)
<1>1. \/ q = p
      \/ /\ q.tokens = u /\ q.keys = p.keys /\ q.byTok = p.byTok /\ q.parsed = p.parsed
         /\ q.allowed = p.allowed /\ q.input = p.input
  <2> HIDE DEF kept, ends
  <2>1. q = p \/ q = [p EXCEPT !.indents = kept, !.tokens = @ \o ends]
    BY DEF UnrollIndent, kept, ends
  <2> QED
    BY <2>1 DEF Spanned, Live, Scanning
<1>2. kept \in Seq({p.indents[i] : i \in DOMAIN p.indents})
  <2>1. p.indents \in Seq({p.indents[i] : i \in DOMAIN p.indents})
    BY DEF Spanned, Live, Scanning, Listed
  <2> QED
    BY <2>1, KeepRange
<1> HIDE DEF kept
<1>3. Len(p.indents) - Len(kept) \in Int
  BY <1>2, ListedIs, LiveLen DEF Spanned
<1>4. Listed(ends) /\ Len(ends) \in Nat /\ \A i \in DOMAIN ends : ends[i] = Token("BlockEnd", p.pos, p.pos)
  BY <1>3, ListedConstant, ListedLen
<1> HIDE DEF ends, q
<1>5. Listed(p.tokens) /\ n \in Nat /\ p.pos \in Int /\ p.parsed \in Nat /\ p.parsed <= n
  BY LiveLen, SpannedPos DEF Spanned
<1>6. /\ Listed(u) /\ Len(u) = n + Len(ends) /\ \A i \in 1 .. n : u[i] = p.tokens[i]
      /\ \A i \in 1 .. n + Len(ends) : i \in 1 .. n \/ (i - n \in DOMAIN ends /\ u[i] = ends[i - n])
  BY <1>4, <1>5, ListedConcat, ConcatTail
<1> HIDE DEF u
<1>7. Token("BlockEnd", p.pos, p.pos).start = p.pos /\ Token("BlockEnd", p.pos, p.pos).kind = "BlockEnd"
  BY DEF Token
<1>8. \A i \in n + 1 .. Len(u) : u[i].start = p.pos /\ u[i].kind = "BlockEnd"
  <2>1. \A i \in n + 1 .. Len(u) : i \in 1 .. n + Len(ends) /\ i \notin 1 .. n
    BY <1>4, <1>5, <1>6
  <2> QED
    BY <1>4, <1>6, <1>7, <2>1
<1>9. CASE Len(ends) = 0
  <2>1. u = p.tokens
    <3>1. ends = <<>>
      BY <1>4, <1>9, ListedLen
    <3> QED
      BY <3>1, ConcatEmptySeq DEF u, Listed, Spanned, Live, Scanning
  <2> QED
    BY <1>1, <2>1 DEF Settles, Opened, q
<1>10. CASE Len(ends) # 0
  <2>1. n + 1 \in n + 1 .. Len(u) /\ n < Len(u) /\ Len(u) \in n + 1 .. Len(u) /\ Len(u) \in Nat
    BY <1>4, <1>5, <1>6, <1>10
  <2>2. Grown(u, p.tokens, p.pos)
    BY <1>5, <1>6, <1>8, <2>1, StartsBehind DEF Grown
  <2>3. u[n + 1].kind = "BlockEnd" /\ u[Len(u)].kind = "BlockEnd"
    BY <1>8, <2>1
  <2>4. "BlockEnd" \notin Nodes /\ "BlockEnd" \notin FlowStarts
    BY DEF Nodes, FlowStarts
  <2>5. ReadyFor(p, p, "BlockEnd")
    BY <2>4, FewerSame, ReadyFewer DEF Spanned
  <2>6. Settled(u, p.keys, p.byTok, p.parsed)
    BY <1>5, <2>1, <2>2, <2>3, <2>4, <2>5, GrownSettle DEF Settles
  <2>7. Nested(p.input, u, p.keys)
    <3>1. Weight("BlockEnd") = 0
      BY WeightNone DEF FlowStarts, FlowEnds
    <3>2. \A i \in n + 1 .. Len(u) - 1 : Weight(u[i].kind) = 0
      <4>1. \A i \in n + 1 .. Len(u) - 1 : i \in n + 1 .. Len(u)
        BY <1>5, <2>1
      <4> QED
        BY <1>8, <3>1, <4>1
    <3>3. \A i \in n + 1 .. Len(u) : ~SimpleKey(u[i])
      BY <1>8 DEF SimpleKey
    <3>4. Levels(p, p, Weight(u[Len(u)].kind)) /\ DOMAIN p.keys \subseteq Nat
      BY <2>3, <3>1, FewerSame, LevelsFewer, LiveLen DEF Spanned
    <3> QED
      BY <2>1, <2>2, <3>2, <3>3, <3>4, GrownNested DEF Settles, Settled, Spanned
  <2> QED
    BY <1>1, <2>3, <2>4, <2>6, <2>7 DEF Settles, Opened, q
<1> QED
  BY <1>9, <1>10

-----------------------------------------------------------------------------
(* What keeps the order.                                                   *)

Orderly(p) == Settles(p) /\ Opened(p)

\* A token at the end of the queue is an end it has not had.
LEMMA IndicatorOrder ==
  ASSUME NEW p, Spanned(p), Settles(p), NEW kind, NEW q, Live(q), ReadyFor(q, p, kind),
         Levels(q, p, Weight(kind)), q.input = p.input, q.tokens = p.tokens, q.parsed = p.parsed,
         q.pos = p.pos, kind \in FlowStarts => q.allowed, NEW n, kind = "Key" => n = 1
  PROVE  Orderly(Indicator(q, kind, n))
<1> DEFINE t == Token(kind, q.pos, q.pos + n)
           u == Append(q.tokens, t)
           a == Put(q, "tokens", u)
           r == Put(a, "pos", a.pos + n)
<1>1. Indicator(q, kind, n) = r
  <2>1. Add(q, t) = a
    BY DEF Add, Put
  <2> HIDE DEF a, t
  <2>2. [a EXCEPT !.pos = @ + n] = Put(a, "pos", a.pos + n)
    BY DEF Put
  <2> QED
    BY <2>1, <2>2 DEF Indicator, t
<1>2. t.kind = kind /\ t.start = p.pos /\ t.end = p.pos + n
  BY DEF Token
<1> HIDE DEF t
<1>3. u = Append(p.tokens, t)
  OBVIOUS
<1> HIDE DEF u
<1>4. ~SimpleKey(t)
  <2>1. p.pos \in Nat
    BY SpannedPos
  <2> QED
    BY <1>2, <2>1 DEF SimpleKey
<1>5. /\ r.input = p.input /\ r.tokens = u /\ r.keys = q.keys /\ r.byTok = q.byTok /\ r.parsed = p.parsed
      /\ r.allowed = q.allowed
  BY DEF Put, Live, Scanning
<1> HIDE DEF r
<1>6. Settles(r)
  BY <1>2, <1>3, <1>5, <1>4, ReadySettles
<1>7. Listed(p.tokens) /\ Len(u) = Len(p.tokens) + 1 /\ u[Len(p.tokens) + 1] = t
  BY <1>3, LiveLen, ListedAppend DEF Spanned
<1>8. Opened(r)
  BY <1>2, <1>5, <1>7 DEF Opened
<1> QED
  BY <1>1, <1>6, <1>8 DEF Orderly

LEMMA FewerIndicator ==
  ASSUME NEW p, Spanned(p), Settles(p), NEW q, Staying(q, p), Fewer(q, p), NEW kind, kind \notin Nodes,
         kind \notin FlowEnds, NEW n, kind = "Key" => n = 1
  PROVE  Orderly(Indicator(q, kind, n))
<1>1. Live(q) /\ q.pos = p.pos /\ kind \notin FlowStarts
  BY StayingIs DEF Nodes
<1>2. ReadyFor(q, p, kind)
  BY ReadyFewer DEF Spanned
<1>3. q.input = p.input /\ q.tokens = p.tokens /\ q.parsed = p.parsed
  BY DEF Fewer
<1>4. Levels(q, p, Weight(kind))
  BY <1>1, LevelsFewer, WeightNone DEF Spanned
<1> QED
  BY <1>1, <1>2, <1>3, <1>4, IndicatorOrder

LEMMA AllowedOrder ==
  ASSUME NEW p, Spanned(p), Settles(p), NEW q, Staying(q, p), Fewer(q, p), NEW kind, kind \notin Nodes,
         kind \notin FlowEnds, NEW n, kind = "Key" => n = 1, NEW b
  PROVE  Orderly(Indicator(Allow(q, b), kind, n))
<1>1. Staying(Allow(q, b), p) /\ Live(q)
  BY AllowStays, StayingIs, StayingOn
<1>2. Fewer(Allow(q, b), p)
  BY <1>1, FewerAllow, FewerOn
<1> QED
  BY <1>1, <1>2, FewerIndicator

\* A token that is no key and ends as many collections as it begins.
Flat(kind) == kind \notin FlowStarts /\ kind \notin FlowEnds /\ kind # "Key"

LEMMA ScannedOrder ==
  ASSUME NEW p, Spanned(p), Settles(p), NEW kind, Flat(kind), NEW q, Live(q), ReadyFor(q, p, kind),
         Levels(q, p, 0), q.input = p.input, q.tokens = p.tokens, q.parsed = p.parsed, q.pos = p.pos, NEW end, Scanned(q, kind, end).ok
  PROVE  Orderly(Scanned(q, kind, end))
<1>1. end # Failed
  BY ErrorKeeps DEF Scanned
<1>2. Weight(kind) = 0 /\ kind \notin FlowStarts /\ kind # "Key"
  BY WeightNone DEF Flat
<1> QED
  BY <1>1, <1>2, IndicatorOrder DEF Scanned

LEMMA TakeScalarOrder ==
  ASSUME NEW p, Spanned(p), Settles(p), NEW q, Live(q), ReadyFor(q, p, "Scalar"),
         Levels(q, p, 0), q.input = p.input, q.tokens = p.tokens, q.parsed = p.parsed, q.pos = p.pos,
         NEW scalar, NEW allowed, TakeScalar(q, scalar, allowed).ok
  PROVE  Orderly(TakeScalar(q, scalar, allowed))
<1> DEFINE t == [Token("Scalar", q.pos, scalar.end) EXCEPT !.empty = scalar.empty]
           u == Append(q.tokens, t)
           a == Put(q, "tokens", u)
           b == Put(a, "pos", scalar.stop)
           r == Put(b, "allowed", allowed)
<1>1. scalar.stop # Failed
  BY ErrorKeeps DEF TakeScalar
<1>2. TakeScalar(q, scalar, allowed) = r
  <2>1. Add(q, t) = a
    BY DEF Add, Put
  <2>2. [a EXCEPT !.pos = scalar.stop, !.allowed = allowed] = r
    BY DEF Put
  <2> HIDE DEF a, r, t
  <2> QED
    BY <1>1, <2>1, <2>2 DEF TakeScalar, t
<1>3. t.kind = "Scalar" /\ t.start = p.pos
  BY DEF Token
<1> HIDE DEF t
<1>4. u = Append(p.tokens, t)
  OBVIOUS
<1> HIDE DEF u
<1>5. r.input = p.input /\ r.tokens = u /\ r.keys = q.keys /\ r.byTok = q.byTok /\ r.parsed = p.parsed
  BY DEF Put, Live, Scanning
<1> HIDE DEF r
<1>6. Settles(r)
  <2>1. Weight("Scalar") = 0 /\ ~SimpleKey(t)
    BY <1>3, WeightNone DEF FlowStarts, FlowEnds, SimpleKey
  <2> QED
    BY <1>3, <1>4, <1>5, <2>1, ReadySettles
<1>7. Listed(p.tokens) /\ Len(u) = Len(p.tokens) + 1 /\ u[Len(p.tokens) + 1] = t
  BY <1>4, LiveLen, ListedAppend DEF Spanned
<1>8. Opened(r)
  BY <1>3, <1>5, <1>7 DEF Opened, FlowStarts
<1> QED
  BY <1>2, <1>6, <1>8 DEF Orderly

-----------------------------------------------------------------------------
(* Each token leaves the queue in order, unless there is an error.         *)

LEMMA CloseBlocksOrder ==
  ASSUME NEW p, Spanned(p), Tidy(p), Settles(p)
  PROVE  Settles(CloseBlocks(p))
<1> DEFINE q == UnrollIndent(p, -1)
           r == RemoveKey(q)
           no == FALSE
           s == Allow(r, no)
<1>1. CloseBlocks(p) = r \/ CloseBlocks(p) = s
  BY DEF CloseBlocks, Then
<1>2. Tidy(q) /\ Settles(q) /\ Staying(q, p)
  BY UnrollTidy, UnrollSettles, UnrollStays
<1> HIDE DEF q
<1>3. Spanned(q) /\ Aimed(q)
  BY <1>2, StayingIs DEF Tidy
<1>4. Fewer(r, q) /\ Staying(r, q)
  BY <1>3, FewerRemove, RemoveKeyStays
<1> HIDE DEF r, no
<1>5. Fewer(s, q)
  BY <1>4, FewerAllow, FewerOn, StayingIs
<1> QED
  BY <1>1, <1>2, <1>4, <1>5, FewerSettles

LEMMA StreamEndOrder ==
  ASSUME NEW p, Spanned(p), Tidy(p), Settles(p)
  PROVE  Settles(StreamEnd(p)) /\ (StreamEnd(p).ok => Opened(StreamEnd(p)) \/ Ends(StreamEnd(p).tokens))
<1> DEFINE q == CloseBlocks(p)
           r == Indicator(q, "StreamEnd", 0)
           ends == {i \in DOMAIN q.tokens : q.tokens[i].kind = "StreamEnd"}
<1>1. StreamEnd(p) = IF ~q.ok THEN q ELSE IF Cardinality(ends) < 3 THEN r ELSE q
  BY DEF StreamEnd, Then
<1>2. Settles(q) /\ Spanned(q)
  BY CloseBlocksOrder, CloseBlocksStays, StayingIs
<1> HIDE DEF q
<1>3. "StreamEnd" \notin Nodes /\ "StreamEnd" \notin FlowEnds
  BY DEF Nodes, FlowStarts, FlowEnds
<1>4. Orderly(r)
  BY <1>2, <1>3, FewerSame, FewerIndicator, StayingItself
<1> HIDE DEF r
<1>5. ASSUME ~(Cardinality(ends) < 3) PROVE Ends(q.tokens)
  <2>1. ends # {}
    <3> SUFFICES ASSUME ends = {} PROVE FALSE
      OBVIOUS
    <3>1. Cardinality(ends) = 0
      BY FS_EmptySet
    <3> HIDE DEF ends
    <3> QED
      BY <1>5, <3>1
  <2> QED
    BY <2>1 DEF Ends
<1> HIDE DEF ends
<1> QED
  BY <1>1, <1>2, <1>4, <1>5 DEF Orderly

LEMMA DocumentOrder ==
  ASSUME NEW p, Spanned(p), Tidy(p), Settles(p), NEW kind, kind \notin Nodes, Flat(kind),
         DocumentIndicator(p, kind).ok
  PROVE  Orderly(DocumentIndicator(p, kind))
<1> DEFINE q == CloseBlocks(p)
           r == Indicator(q, kind, 3)
<1>1. DocumentIndicator(p, kind) = IF q.ok THEN r ELSE q
  BY DEF DocumentIndicator, Then
<1>2. Settles(q) /\ Spanned(q)
  BY CloseBlocksOrder, CloseBlocksStays, StayingIs
<1> HIDE DEF q
<1>3. Orderly(r)
  BY <1>2, FewerSame, FewerIndicator, StayingItself DEF Flat
<1> HIDE DEF r
<1> QED
  BY <1>1, <1>3

LEMMA DirectiveOrder ==
  ASSUME NEW p, Spanned(p), At(p) # "z", Tidy(p), Settles(p), DirectiveToken(p).ok
  PROVE  Orderly(DirectiveToken(p))
<1> DEFINE q == CloseBlocks(p)
           d == Directive(q.input, q.pos)
           t == Token(d.kind, q.pos, d.end)
           u == Append(q.tokens, t)
           a == Put(q, "tokens", u)
           r == Put(a, "pos", d.stop)
<1>1. Settles(q) /\ Staying(q, p)
  BY CloseBlocksOrder, CloseBlocksStays
<1>2. DirectiveToken(p) = IF q.ok THEN TakeDirective(q, d) ELSE q
  BY DEF DirectiveToken, Then
<1> HIDE DEF q
<1>3. Spanned(q) /\ At(q) # "z" /\ Live(q)
  BY <1>1, StayingIs
<1>4. TextLike(q.input) /\ q.pos \in 1 .. Len(q.input)
  BY <1>3, CharRoom DEF Spanned
<1>5. d.stop # Failed => d.kind \in DirectiveKinds
  BY <1>4, DirectiveIs
<1> HIDE DEF d
<1>6. d.stop # Failed
  <2>1. q.ok /\ TakeDirective(q, d).ok
    BY <1>2
  <2> QED
    BY <1>3, <2>1, ErrorKeeps DEF TakeDirective
<1>7. DirectiveToken(p) = r
  <2>1. Add(q, t) = a
    BY DEF Add, Put
  <2>2. [a EXCEPT !.pos = d.stop] = r
    BY DEF Put
  <2> HIDE DEF a, r, t
  <2> QED
    BY <1>2, <1>6, <2>1, <2>2 DEF TakeDirective, t
<1>8. t.kind = d.kind /\ t.start = q.pos
  BY DEF Token
<1> HIDE DEF t
<1>9. t.kind \notin Nodes /\ t.kind \notin FlowEnds /\ t.kind # "Key"
  BY <1>5, <1>6, <1>8 DEF DirectiveKinds, Nodes, FlowStarts, FlowEnds
<1>10. Listed(q.tokens) /\ Len(u) = Len(q.tokens) + 1 /\ u[Len(q.tokens) + 1] = t
  BY <1>3, LiveLen, ListedAppend
<1>11. r.input = q.input /\ r.tokens = u /\ r.keys = q.keys /\ r.byTok = q.byTok /\ r.parsed = q.parsed
  <2> HIDE DEF u
  <2> QED
    BY <1>3 DEF Put, Live, Scanning
<1> HIDE DEF r
<1>12. ReadyFor(q, q, t.kind)
  BY <1>3, <1>9, FewerSame, ReadyFewer
<1>13. Settles(r)
  <2>1. Levels(q, q, 0)
    BY <1>3, FewerSame, LevelsFewer
  <2>2. Weight(t.kind) = 0 /\ ~SimpleKey(t)
    BY <1>9, WeightNone DEF Nodes, SimpleKey
  <2> QED
    BY <1>1, <1>3, <1>8, <1>11, <1>12, <2>1, <2>2, ReadySettles
<1> HIDE DEF u
<1>14. Opened(r)
  BY <1>9, <1>10, <1>11 DEF Opened, Nodes
<1> QED
  BY <1>7, <1>13, <1>14 DEF Orderly

LEMMA FlowEntryOrder ==
  ASSUME NEW p, Spanned(p), Tidy(p), Settles(p), FlowEntry(p).ok
  PROVE  Orderly(FlowEntry(p))
<1> DEFINE q == RemoveKey(p)
           yes == TRUE
           s == Indicator(Allow(q, yes), "FlowEntry", 1)
<1>1. FlowEntry(p) = IF q.ok THEN s ELSE q
  BY DEF FlowEntry, Then
<1>2. Staying(q, p) /\ Fewer(q, p)
  BY RemoveKeyStays, FewerRemove DEF Tidy
<1> HIDE DEF q, yes
<1>3. "FlowEntry" \notin Nodes /\ "FlowEntry" \notin FlowEnds
  BY DEF Nodes, FlowStarts, FlowEnds
<1>4. Orderly(s)
  BY <1>2, <1>3, AllowedOrder
<1> HIDE DEF s
<1> QED
  BY <1>1, <1>4

LEMMA FlowEndOrder ==
  ASSUME NEW p, Spanned(p), Tidy(p), Settles(p), NEW kind \in FlowEnds, FlowEnd(p, kind).ok
  PROVE  Orderly(FlowEnd(p, kind))
<1> DEFINE q == RemoveKey(p)
           r == DecreaseFlow(q)
           no == FALSE
           a == Allow(r, no)
           s == Indicator(a, kind, 1)
<1>1. FlowEnd(p, kind) = IF q.ok THEN s ELSE q
  BY DEF FlowEnd, Then
<1>2. Staying(q, p) /\ Fewer(q, p)
  BY RemoveKeyStays, FewerRemove DEF Tidy
<1>3. q.ok => Len(q.keys) \notin Possible(q)
  BY RemoveKeyWeaker DEF Spanned
<1> HIDE DEF q
<1>4. kind \notin Nodes
  BY DEF FlowEnds, Nodes, FlowStarts
<1>5. Live(q) /\ Spanned(q)
  BY <1>2, StayingIs
<1>6. q.ok
  <2> HIDE DEF s
  <2> QED
    BY <1>1
<1>7. Flow(q) = 0 => OpenAt(q.keys) = {}
  <2>1. DOMAIN q.keys = 1 .. Len(q.keys) /\ Len(q.keys) \in Nat
    BY <1>5, LiveLen
  <2>2. ASSUME Flow(q) = 0, NEW l \in DOMAIN q.keys PROVE l = Len(q.keys)
    <3>1. Len(q.keys) = 1
      BY <2>1, <2>2 DEF Flow
    <3> QED
      BY <2>1, <2>2, <3>1
  <2> QED
    BY <1>3, <1>6, <2>2 DEF OpenAt, Possible
<1>8. ReadyFor(r, p, kind) /\ Levels(r, p, -1)
  BY <1>2, <1>4, <1>5, <1>7, ReadyDecrease
<1>9. Staying(r, p)
  BY <1>2, <1>5, DecreaseFlowStays, StayingOn
<1>10. r.tokens = p.tokens /\ r.parsed = p.parsed
  BY <1>2, <1>5 DEF DecreaseFlow, Fewer, Live, Scanning
<1> HIDE DEF r, no
<1>11. Live(r) /\ Spanned(r)
  BY <1>9, StayingIs
<1>12. /\ Fewer(a, r) /\ a.keys = r.keys /\ a.byTok = r.byTok /\ a.tokens = p.tokens /\ a.parsed = p.parsed
      /\ Live(a) /\ a.pos = p.pos /\ a.input = p.input
  <2>1. a = Put(r, "allowed", no)
    BY DEF Allow, Put
  <2>2. Staying(a, p)
    BY <1>9, <1>11, AllowStays, StayingOn
  <2> QED
    BY <1>10, <1>11, <2>1, <2>2, FewerPut, StayingIs
<1> HIDE DEF a
<1>13. ReadyFor(a, p, kind) /\ Levels(a, p, Weight(kind)) /\ kind # "Key"
  <2>1. Weight(kind) = -1 /\ kind # "Key"
    BY DEF Weight, FlowStarts, FlowEnds
  <2> QED
    BY <1>8, <1>12, <2>1, ReadyOn, LevelsOn
<1>14. Orderly(s)
  BY <1>4, <1>12, <1>13, IndicatorOrder DEF Nodes
<1> HIDE DEF s
<1> QED
  BY <1>1, <1>14

LEMMA FlowStartOrder ==
  ASSUME NEW p, Spanned(p), Tidy(p), Orderly(p), NEW kind \in FlowStarts, FlowStart(p, kind).ok
  PROVE  Orderly(FlowStart(p, kind))
<1> DEFINE q == SaveKey(p)
           i == IncreaseFlow(q)
           r == IF q.ok THEN i ELSE q
           yes == TRUE
           a == Allow(r, yes)
           s == Indicator(a, kind, 1)
<1>1. FlowStart(p, kind) = IF r.ok THEN s ELSE r
  BY DEF FlowStart, Then
<1> HIDE DEF q, i, a, s
<1>2. r.ok /\ q.ok /\ r = i
  BY <1>1
<1>3. /\ ReadyFor(q, p, kind) /\ Levels(q, p, 0) /\ q.tokens = p.tokens /\ q.parsed = p.parsed
      /\ \A l \in OpenAt(q.keys) : Begun(l, q, p, kind) => l = Len(q.keys)
  BY <1>2, ReadySave DEF Orderly, q
<1>4. Staying(q, p) /\ Live(q) /\ Spanned(q)
  BY SaveKeyStays, StayingIs DEF q
<1>5. ReadyFor(i, p, kind) /\ Levels(i, p, 1)
  BY <1>2, <1>3, <1>4, ReadyIncrease DEF i, Orderly
<1>6. Staying(i, p)
  BY <1>2, <1>4, IncreaseFlowStays, StayingOn DEF i
<1>7. i.tokens = p.tokens /\ i.parsed = p.parsed
  <2>1. {"tokens", "parsed"} \subseteq DOMAIN q
    BY <1>4 DEF Live, Scanning
  <2> QED
    BY <1>3, <2>1 DEF i, IncreaseFlow, Error
<1>8. Live(i) /\ Spanned(i)
  BY <1>6, StayingIs
<1> HIDE DEF r, yes
<1>9. /\ a.keys = i.keys /\ a.byTok = i.byTok /\ a.tokens = p.tokens /\ a.parsed = p.parsed
      /\ Live(a) /\ a.pos = p.pos /\ a.input = p.input /\ a.allowed
  <2>1. a = Put(i, "allowed", yes)
    BY <1>2 DEF Allow, Put, a
  <2>2. Staying(a, p)
    BY <1>2, <1>6, <1>8, AllowStays, StayingOn DEF a
  <2>3. a.allowed
    BY <1>2, <1>8, FewerAllow DEF a, yes
  <2>4. a.keys = i.keys /\ a.byTok = i.byTok /\ a.tokens = i.tokens /\ a.parsed = i.parsed
    BY <1>8, <2>1, FewerPut
  <2>5. Live(a) /\ a.pos = p.pos /\ a.input = p.input
    BY <2>2, StayingIs
  <2> QED
    BY <1>7, <2>3, <2>4, <2>5
<1>10. ReadyFor(a, p, kind) /\ Levels(a, p, Weight(kind)) /\ kind # "Key"
  <2>1. Weight(kind) = 1 /\ kind # "Key"
    BY DEF Weight, FlowStarts
  <2> QED
    BY <1>5, <1>9, <2>1, ReadyOn, LevelsOn
<1>11. Orderly(s)
  BY <1>9, <1>10, IndicatorOrder DEF Orderly, s
<1> QED
  BY <1>1, <1>2, <1>11

-----------------------------------------------------------------------------
(* Tokens that may begin a key.                                            *)

LEMMA OpenBlockOrder ==
  ASSUME NEW p, Spanned(p), Settles(p), NEW kind \in BlockStarts, OpenBlock(p, kind).ok
  PROVE  Settles(OpenBlock(p, kind))
<1> DEFINE o == OpenBlock(p, kind)
           indents == Append(p.indents, Col(p))
           q == Put(p, "indents", indents)
           token == Token(kind, p.pos, p.pos)
           u == Append(p.tokens, token)
           r == Put(q, "tokens", u)
<1>1. Live(p) /\ p.parsed \in Nat
  BY LiveLen DEF Spanned
<1>2. q.input = p.input /\ q.tokens = p.tokens /\ q.parsed = p.parsed /\ q.keys = p.keys /\ q.byTok = p.byTok
  <2> HIDE DEF indents
  <2> QED
    BY <1>1 DEF Put, Live, Scanning
<1>3. o = p \/ o = Error(p) \/ o = Error(q) \/ o = r
  <2>1. [p EXCEPT !.indents = Append(@, Col(p))] = q
    BY DEF Put
  <2>2. OpenBlock(p, kind) \in {p, Error(p), RollIndent(p, Col(p), -1, kind, p.pos)}
    BY DEF OpenBlock
  <2>3. Insert(q, -1, token) = r
    <3> HIDE DEF q, token
    <3>1. -1 < q.parsed
      BY <1>1, <1>2
    <3>2. Insert(q, -1, token) = [q EXCEPT !.tokens = Append(@, token)]
      BY <3>1 DEF Insert
    <3> QED
      BY <1>2, <3>2 DEF Put
  <2> HIDE DEF q
  <2>4. RollIndent(p, Col(p), -1, kind, p.pos) \in {p, Error(q), r}
    <3> HIDE DEF r
    <3> QED
      BY <2>1, <2>3 DEF RollIndent, token
  <2> QED
    BY <2>2, <2>4
<1>4. Listed(indents)
  BY <1>1, LiveLen, ListedAppend
<1> HIDE DEF indents
<1>5. Live(q)
  BY <1>1, <1>4, PutIndents DEF Keeps
<1>6. r.input = p.input /\ r.tokens = u /\ r.keys = p.keys /\ r.byTok = p.byTok /\ r.parsed = p.parsed
  <2> HIDE DEF q, u
  <2>1. {"input", "tokens", "keys", "byTok", "parsed"} \subseteq DOMAIN q
    BY <1>5 DEF Live, Scanning
  <2> QED
    BY <1>2, <2>1 DEF Put
<1> HIDE DEF q, r
<1>7. ~Error(p).ok /\ ~Error(q).ok
  BY <1>1, <1>5, ErrorKeeps
<1>8. token.kind = kind /\ token.start = p.pos /\ kind \notin Nodes
  BY MarkIs DEF BlockStarts, Nodes, FlowStarts
<1> HIDE DEF token
<1>9. Settles(r)
  <2>1. ReadyFor(p, p, kind) /\ Levels(p, p, 0)
    BY <1>1, <1>8, FewerSame, ReadyFewer, LevelsFewer
  <2>2. Weight(kind) = 0 /\ kind # "Key"
    BY WeightNone DEF BlockStarts, FlowStarts, FlowEnds
  <2> QED
    BY <1>6, <1>8, <2>1, <2>2, ReadySettles DEF SimpleKey
<1> QED
  BY <1>3, <1>7, <1>9 DEF o

LEMMA BlockEntryOrder ==
  ASSUME NEW p, Spanned(p), p.ok, Tidy(p), Settles(p), BlockEntry(p).ok
  PROVE  Orderly(BlockEntry(p))
<1> DEFINE q == OpenBlock(p, "BlockSequenceStart")
           r == IF q.ok THEN RemoveKey(q) ELSE q
           yes == TRUE
           s == Indicator(Allow(r, yes), "BlockEntry", 1)
<1>1. BlockEntry(p) = IF r.ok THEN s ELSE r
  BY DEF BlockEntry, Then
<1>2. q.ok => Takes(q, "BlockEntry") /\ Settles(q)
  BY OpenBlockTakes, OpenBlockOrder DEF BlockStarts
<1>3. Staying(q, p)
  BY OpenBlockStays
<1> HIDE DEF q
<1>4. Spanned(q)
  BY <1>3, StayingIs
<1>5. q.ok => Fewer(RemoveKey(q), q) /\ Staying(RemoveKey(q), q)
  BY <1>2, <1>4, FewerRemove, RemoveKeyStays DEF Takes
<1>6. "BlockEntry" \notin Nodes /\ "BlockEntry" \notin FlowEnds
  BY DEF Nodes, FlowStarts, FlowEnds
<1> HIDE DEF yes
<1> QED
  BY <1>1, <1>2, <1>4, <1>5, <1>6, AllowedOrder

LEMMA ExplicitKeyOrder ==
  ASSUME NEW p, Spanned(p), p.ok, Tidy(p), Settles(p), ExplicitKey(p).ok
  PROVE  Orderly(ExplicitKey(p))
<1> DEFINE q == OpenBlock(p, "BlockMappingStart")
           r == IF q.ok THEN RemoveKey(q) ELSE q
           b == Flow(r) = 0
           s == Indicator(Allow(r, b), "Key", 1)
<1>1. ExplicitKey(p) = IF r.ok THEN s ELSE r
  BY DEF ExplicitKey, Then
<1>2. q.ok => Takes(q, "Key") /\ Settles(q)
  BY OpenBlockTakes, OpenBlockOrder DEF BlockStarts
<1>3. Staying(q, p)
  BY OpenBlockStays
<1> HIDE DEF q
<1>4. Spanned(q)
  BY <1>3, StayingIs
<1>5. q.ok => Fewer(RemoveKey(q), q) /\ Staying(RemoveKey(q), q)
  BY <1>2, <1>4, FewerRemove, RemoveKeyStays DEF Takes
<1>6. "Key" \notin Nodes /\ "Key" \notin FlowEnds
  BY DEF Nodes, FlowStarts, FlowEnds
<1> HIDE DEF b
<1> QED
  BY <1>1, <1>2, <1>4, <1>5, <1>6, AllowedOrder

LEMMA KeyCandidateOrder ==
  ASSUME NEW p, Spanned(p), Tidy(p), Orderly(p), NEW kind, Flat(kind), NEW end,
         KeyCandidate(p, kind, end).ok
  PROVE  Orderly(KeyCandidate(p, kind, end))
<1> DEFINE q == SaveKey(p)
           no == FALSE
           a == Allow(q, no)
           r == Scanned(a, kind, end)
<1>1. KeyCandidate(p, kind, end) = IF q.ok THEN r ELSE q
  BY DEF KeyCandidate, Then
<1> HIDE DEF q, no, r, a
<1>2. q.ok /\ r.ok
  BY <1>1
<1>3. ReadyFor(q, p, kind) /\ Levels(q, p, 0) /\ q.tokens = p.tokens /\ q.parsed = p.parsed
  BY <1>2, ReadySave DEF Orderly, q
<1>4. Staying(q, p) /\ Live(q) /\ Spanned(q)
  BY SaveKeyStays, StayingIs DEF q
<1>5. /\ a.keys = q.keys /\ a.byTok = q.byTok /\ a.tokens = p.tokens /\ a.parsed = p.parsed
      /\ Live(a) /\ a.pos = p.pos /\ a.input = p.input
  <2>1. a = Put(q, "allowed", no)
    BY DEF Allow, Put, a
  <2>2. Staying(a, p)
    BY <1>4, AllowStays, StayingOn DEF a
  <2> QED
    BY <1>3, <1>4, <2>1, <2>2, FewerPut, StayingIs
<1>6. ReadyFor(a, p, kind) /\ Levels(a, p, 0)
  BY <1>3, <1>5, ReadyOn, LevelsOn
<1> QED
  BY <1>1, <1>2, <1>5, <1>6, ScannedOrder DEF Orderly, r

LEMMA PlainOrder ==
  ASSUME NEW p, Spanned(p), Tidy(p), Orderly(p), PlainScalar(p).ok
  PROVE  Orderly(PlainScalar(p))
<1> DEFINE q == SaveKey(p)
           scalar == Plain(q.input, q.pos, Indent(q) + 1, Flow(q) > 0)
           r == TakeScalar(q, scalar, scalar.broken)
<1>1. PlainScalar(p) = IF q.ok THEN r ELSE q
  BY DEF PlainScalar, TakePlain, Then
<1> HIDE DEF q, scalar, r
<1>2. q.ok /\ r.ok
  BY <1>1
<1>3. ReadyFor(q, p, "Scalar") /\ Levels(q, p, 0) /\ q.tokens = p.tokens /\ q.parsed = p.parsed
  BY <1>2, ReadySave DEF Orderly, q
<1>4. Live(q) /\ q.pos = p.pos /\ q.input = p.input
  BY SaveKeyStays, StayingIs DEF q
<1> QED
  BY <1>1, <1>2, <1>3, <1>4, TakeScalarOrder DEF Orderly, r

\* A block scalar stands in no flow collection.
LEMMA LiteralOrder ==
  ASSUME NEW p, Spanned(p), Tidy(p), Settles(p), Flow(p) = 0, LiteralOrFolded(p).ok
  PROVE  Orderly(LiteralOrFolded(p))
<1> DEFINE q == RemoveKey(p)
           scalar == BlockScalar(q.input, q.pos, Indent(q))
           yes == TRUE
           r == TakeScalar(q, scalar, yes)
<1>1. LiteralOrFolded(p) = IF q.ok THEN r ELSE q
  BY DEF LiteralOrFolded, Then
<1>2. Fewer(q, p) /\ Live(q) /\ q.pos = p.pos
  BY FewerRemove, RemoveKeyStays, StayingIs DEF Tidy
<1> HIDE DEF q, scalar, r, yes
<1>3. DOMAIN p.keys = 1 .. Len(p.keys) /\ Len(p.keys) = 1
  BY LiveLen DEF Flow, Spanned
<1>4. \A l, m \in DOMAIN p.keys : ~(l < m)
  BY <1>3
<1>5. DOMAIN q.keys \subseteq Nat /\ DOMAIN q.keys \subseteq DOMAIN p.keys
  BY <1>2, <1>3 DEF Fewer
<1>6. (\A l \in OpenAt(q.keys) : l \in DOMAIN q.keys) /\ \A l \in OpenAt(p.keys) : l \in DOMAIN p.keys
  BY DEF OpenAt
<1>7. ReadyFor(q, p, "Scalar")
  BY <1>2, <1>4, <1>5, <1>6 DEF Fewer, ReadyFor, Kept
<1>8. q.input = p.input /\ q.tokens = p.tokens /\ q.parsed = p.parsed /\ r.ok /\ Levels(q, p, 0)
  BY <1>1, <1>2, LevelsFewer DEF Fewer, Spanned
<1> QED
  BY <1>1, <1>2, <1>7, <1>8, TakeScalarOrder DEF r

\* Whether a scalar is empty says nothing of the order.
LEMMA EmptyOrder ==
  ASSUME NEW p, Spanned(p), Orderly(p), NEW v
  PROVE  Orderly(Put(p, "tokens", SetEmpty(p.tokens, Len(p.tokens), v)))
<1> DEFINE u == SetEmpty(p.tokens, Len(p.tokens), v)
           q == Put(p, "tokens", u)
           n == Len(p.tokens)
<1>1. DOMAIN u = DOMAIN p.tokens
  BY DEF SetEmpty
<1>2. DOMAIN p.tokens = 1 .. n /\ n \in Nat
  BY LiveLen, ListedLen DEF Spanned
<1>3. \A i \in 1 .. n : u[i].kind = p.tokens[i].kind /\ u[i].start = p.tokens[i].start /\ u[i].end = p.tokens[i].end
  <2> SUFFICES ASSUME NEW i \in 1 .. n
               PROVE  u[i].kind = p.tokens[i].kind /\ u[i].start = p.tokens[i].start /\ u[i].end = p.tokens[i].end
    OBVIOUS
  <2>1. {"kind", "start", "end"} \subseteq DOMAIN p.tokens[i]
    BY <1>2 DEF Spanned, Spot
  <2>2. u[i] = p.tokens[i] \/ u[i] = [p.tokens[i] EXCEPT !.empty = v]
    BY <1>2 DEF SetEmpty
  <2> QED
    BY <2>1, <2>2
<1>4. Len(u) = n
  <2>1. u \in Seq({u[i] : i \in DOMAIN u}) \/ DOMAIN u = 1 .. n
    BY <1>1, <1>2
  <2> QED
    BY <1>1, <1>2 DEF SetEmpty, Spanned, Live, Scanning, Listed
<1>5. /\ q.tokens = u /\ q.keys = p.keys /\ q.byTok = p.byTok /\ q.parsed = p.parsed
      /\ q.allowed = p.allowed /\ q.input = p.input
  <2> HIDE DEF u
  <2> QED
    BY DEF Put, Spanned, Live, Scanning
<1> HIDE DEF u, q
<1>6. \A j : Gone(p.tokens, j) <=> Gone(u, j)
  <2> SUFFICES ASSUME NEW j, j \in 1 .. n - 1 PROVE Gone(p.tokens, j) <=> Gone(u, j)
    BY <1>4 DEF Gone
  <2>1. j \in 1 .. n /\ j + 1 \in 1 .. n
    BY <1>2
  <2> QED
    BY <1>3, <1>4, <2>1 DEF Gone
<1>7. Ordered(u)
  <2> SUFFICES ASSUME NEW i \in 1 .. n, NEW k \in 1 .. n, k < i, u[k].start > u[i].start
               PROVE  \E j \in 1 .. i - 1 : Gone(u, j) /\ u[j].start = u[i].start
    BY <1>4 DEF Ordered
  <2>1. PICK j \in 1 .. i - 1 : Gone(p.tokens, j) /\ p.tokens[j].start = p.tokens[i].start
    BY <1>3 DEF Orderly, Settles, Settled, Ordered
  <2>2. j \in 1 .. n
    BY <1>2
  <2> QED
    BY <1>3, <1>6, <2>1, <2>2
<1>8. \A l \in DOMAIN p.keys : p.keys[l].number + 1 \in 1 .. n
  <2>1. \A l \in DOMAIN p.keys : p.keys[l].number \in 0 .. n - 1
    BY DEF Orderly, Settles, Settled
  <2>2. \A i \in 0 .. n - 1 : i + 1 \in 1 .. n
    BY <1>2
  <2> QED
    BY <2>1, <2>2
<1>9. \A l \in OpenAt(p.keys) : l \in DOMAIN p.keys
  BY DEF OpenAt
<1>10. Settled(u, p.keys, p.byTok, p.parsed)
  BY <1>3, <1>4, <1>6, <1>7, <1>8, <1>9 DEF Orderly, Settles, Settled
<1>11. Nested(p.input, u, p.keys)
  <2>1. PICK d : Paired(p.input, p.tokens, d, 0) /\ Hanging(d, p.tokens, p.keys)
    BY DEF Orderly, Settles, Nested
  <2>2. Paired(p.input, u, d, 0)
    BY <1>2, <1>3, <1>4, <2>1, PairedSame
  <2> QED
    BY <1>4, <2>1, <2>2 DEF Nested, Hanging
<1>12. Settles(q)
  BY <1>5, <1>10, <1>11 DEF Settles
<1>13. Opened(q)
  <2>1. u # <<>> => p.tokens # <<>> /\ n \in 1 .. n
    BY <1>2, <1>4, ListedLen DEF Spanned, Live, Scanning
  <2> QED
    BY <1>3, <1>4, <1>5, <2>1 DEF Orderly, Opened
<1> QED
  BY <1>12, <1>13 DEF Orderly, q, u

LEMMA QuotedOrder ==
  ASSUME NEW p, Spanned(p), At(p) \in Quotes, Tidy(p), Orderly(p), QuotedScalar(p).ok
  PROVE  Orderly(QuotedScalar(p))
<1> DEFINE end == QuotedEnd(p.input, p.pos)
           q == KeyCandidate(p, "Scalar", end)
           v == QuotesNothing(p.input, p.pos, end)
           r == Put(q, "tokens", SetEmpty(q.tokens, Len(q.tokens), v))
<1>1. QuotedScalar(p) = IF q.ok THEN r ELSE q
  <2>1. [q EXCEPT !.tokens[Len(q.tokens)].empty = v] = r
    <3> HIDE DEF q, v
    <3> QED
      BY DEF Put, SetEmpty
  <2> HIDE DEF r
  <2> QED
    BY <2>1 DEF QuotedScalar
<1>2. At(p) # "z" /\ "Scalar" # "StreamEnd" /\ Flat("Scalar")
  BY DEF Quotes, Flat, FlowStarts, FlowEnds
<1>3. Reaches(p.input, p.pos, end)
  <2>1. p.pos \in 1 .. Len(p.input) /\ TextLike(p.input)
    BY <1>2, CharRoom DEF Spanned
  <2> QED
    BY <2>1, QuotedReaches DEF At
<1> HIDE DEF end
<1>4. Reading(q, p)
  BY <1>2, <1>3, KeyCandidateReads
<1>5. q.ok => Orderly(q)
  BY <1>2, KeyCandidateOrder
<1> HIDE DEF q, v
<1>6. Spanned(q)
  BY <1>4 DEF Reading
<1> QED
  BY <1>1, <1>5, <1>6, EmptyOrder

-----------------------------------------------------------------------------
(* A candidate is a key.                                                   *)

\* A key at x owes its value: the next token stands in as many collections.
Owing(s, t, keys, x) ==
  \E d : \E o \in 1 .. Len(t) :
    /\ Paired(s, t, d, o) /\ t[o].start = x /\ d[o - 1] = d[Len(t)]
    /\ Hanging(d, t, keys)

\* A key in front of the place, and what starts with it.
LEMMA KeyOwes ==
  ASSUME NEW s, NEW t, NEW d, Paired(s, t, d, 0), NEW keys, Hanging(d, t, keys), NEW u, NEW place, NEW e,
         Between(u, t, place, e), SimpleKey(e), d[place - 1] = d[Len(t)],
         \A l \in OpenAt(keys) : keys[l].number \in 0 .. place - 1
  PROVE  Owing(s, u, keys, e.start)
<1>1. /\ Len(t) \in Nat /\ place \in 1 .. Len(t) + 1 /\ Len(u) = Len(t) + 1 /\ u[place] = e
  BY DEF Between
<1>2. Owes(e, 0, place, place)
  BY DEF Owes
<1>3. PICK f : Paired(s, u, f, place) /\ f[Len(u)] = d[Len(t)] /\ Spread(f, d, Len(t), place)
  BY <1>2, BetweenPairs
<1>4. \A i \in 0 .. place - 1 : f[i] = d[i]
  <2>1. \A i \in 0 .. place - 1 : i \in 0 .. Len(t) /\ i < place
    BY <1>1
  <2> QED
    BY <1>3, <2>1 DEF Spread
<1>5. f[place - 1] = f[Len(u)]
  <2>1. place - 1 \in 0 .. place - 1
    BY <1>1
  <2> QED
    BY <1>3, <1>4, <2>1
<1>6. Hanging(f, u, keys)
  BY <1>3, <1>4 DEF Hanging
<1>7. place \in 1 .. Len(u)
  BY <1>1
<1> QED
  BY <1>1, <1>3, <1>5, <1>6, <1>7 DEF Owing

LEMMA OwesStill ==
  ASSUME NEW s, NEW t, NEW keys, NEW x, Owing(s, t, keys, x), NEW u, NEW place, NEW e,
         Between(u, t, place, e), ~SimpleKey(e), \A l \in OpenAt(keys) : keys[l].number \in 0 .. place - 1
  PROVE  Owing(s, u, keys, x)
<1>1. /\ Len(t) \in Nat /\ place \in 1 .. Len(t) + 1 /\ Len(u) = Len(t) + 1
      /\ (\A i \in 1 .. place - 1 : u[i] = t[i])
      /\ \A i \in place + 1 .. Len(t) + 1 : u[i] = t[i - 1]
  BY DEF Between
<1>2. PICK d : \E i \in 1 .. Len(t) : /\ Paired(s, t, d, i) /\ t[i].start = x /\ d[i - 1] = d[Len(t)]
                                      /\ Hanging(d, t, keys)
  BY DEF Owing
<1>3. PICK o \in 1 .. Len(t) : /\ Paired(s, t, d, o) /\ t[o].start = x /\ d[o - 1] = d[Len(t)]
                               /\ Hanging(d, t, keys)
  BY <1>2
<1> DEFINE m == Moved(o, place)
<1>4. Owes(e, o, place, m)
  BY DEF Owes
<1>5. PICK f : Paired(s, u, f, m) /\ f[Len(u)] = d[Len(t)] /\ Spread(f, d, Len(t), place)
  <2> HIDE DEF m
  <2> QED
    BY <1>3, <1>4, BetweenPairs
<1>6. m \in 1 .. Len(u) /\ u[m] = t[o]
  <2>1. CASE o < place
    <3>1. m = o /\ o \in 1 .. place - 1 /\ o \in 1 .. Len(u)
      BY <1>1, <2>1 DEF Moved
    <3> QED
      BY <1>1, <3>1
  <2>2. CASE ~(o < place)
    <3>1. m = o + 1 /\ o + 1 \in place + 1 .. Len(t) + 1 /\ o + 1 \in 1 .. Len(u) /\ o + 1 - 1 = o
      BY <1>1, <2>2 DEF Moved
    <3> QED
      BY <1>1, <3>1
  <2> QED
    BY <2>1, <2>2
<1>7. f[m - 1] = f[Len(u)]
  BY <1>3, <1>5 DEF Spread
<1> HIDE DEF m
<1>8. \A i \in 0 .. place - 1 : f[i] = d[i]
  <2>1. \A i \in 0 .. place - 1 : i \in 0 .. Len(t) /\ i < place
    BY <1>1
  <2> QED
    BY <1>5, <2>1 DEF Spread
<1>9. Hanging(f, u, keys)
  BY <1>3, <1>5, <1>8 DEF Hanging
<1> QED
  BY <1>3, <1>5, <1>6, <1>7, <1>9 DEF Owing

\* The value comes, and is near the key.
LEMMA ValueAnswers ==
  ASSUME NEW s, NEW t, NEW keys, NEW x, Owing(s, t, keys, x),
         \A l \in OpenAt(keys) : keys[l].number \in 0 .. Len(t),
         NEW u, NEW y, Grown(u, t, y), Len(u) = Len(t) + 1, u[Len(u)].kind = "Value", Near(s, x, y)
  PROVE  Nested(s, u, keys)
<1>1. PICK d : \E i \in 1 .. Len(t) : /\ Paired(s, t, d, i) /\ t[i].start = x /\ d[i - 1] = d[Len(t)]
                                      /\ Hanging(d, t, keys)
  BY DEF Owing
<1>2. PICK o \in 1 .. Len(t) : /\ Paired(s, t, d, o) /\ t[o].start = x /\ d[o - 1] = d[Len(t)]
                               /\ Hanging(d, t, keys)
  BY <1>1
<1>3. /\ Len(t) \in Nat /\ (\A i \in 1 .. Len(t) : u[i] = t[i])
      /\ \A i \in Len(t) + 1 .. Len(u) : u[i].start = y
  BY DEF Grown
<1>4. Len(t) < Len(u) /\ Len(u) \in o + 1 .. Len(u) /\ Len(u) \in Len(t) + 1 .. Len(u) /\ o # 0
      /\ \A i \in Len(t) + 1 .. Len(u) : i = Len(u)
  BY <1>3
<1>5. Weight("Value") = 0 /\ ~SimpleKey(u[Len(u)])
  BY DEF Weight, FlowStarts, FlowEnds, SimpleKey
<1>6. /\ \A i \in Len(t) + 1 .. Len(u) - 1 : Weight(u[i].kind) = 0
      /\ \A i \in Len(t) + 1 .. Len(u) : ~SimpleKey(u[i])
  BY <1>3, <1>4, <1>5
<1>7. PICK f : /\ Paired(s, u, f, o) /\ f[Len(u)] = d[Len(t)] + Weight(u[Len(u)].kind)
               /\ Agrees(f, d, Len(t))
  BY <1>2, <1>4, <1>6, GrownPairs
<1>8. f[Len(u)] = d[Len(t)]
  <2>1. d[Len(t)] \in Int
    <3>1. Len(t) \in 0 .. Len(t)
      BY <1>3
    <3> QED
      BY <1>2, <3>1 DEF Paired, Depths
  <2> QED
    BY <1>5, <1>7, <2>1
<1>9. \A i \in 0 .. Len(t) : f[i] = d[i]
  BY <1>7 DEF Agrees
<1>10. Answered(s, u, f, o)
  <2>1. u[o] = t[o] /\ u[Len(u)].start = y
    BY <1>3, <1>4
  <2>2. o - 1 \in 0 .. Len(t)
    BY <1>3
  <2>3. f[Len(u)] = f[o - 1]
    BY <1>2, <1>8, <1>9, <2>2
  <2> QED
    BY <1>2, <1>4, <2>1, <2>3 DEF Answered
<1>11. Paired(s, u, f, 0)
  BY <1>7, <1>10 DEF Paired
<1>12. Hanging(f, u, keys)
  BY <1>2, <1>8, <1>9 DEF Hanging
<1> QED
  BY <1>11, <1>12 DEF Nested

Sited(t) == \A i \in 1 .. Len(t) : t[i].start \in Int

\* The place of a token that Insert puts among the others.
LEMMA InsertedBetween ==
  ASSUME NEW t, Listed(t), NEW parsed \in 0 .. Len(t), NEW n \in 0 .. Len(t) - 1, NEW e, e.start = t[n + 1].start,
         Weight(e.kind) = 0, e.kind # "Value", Sited(t), NEW u, u = Inserted(t, parsed, n, e),
         NEW place, place = IF n < parsed THEN Len(t) + 1 ELSE n + 1
  PROVE  Between(u, t, place, e) /\ u[n + 1].start = e.start /\ Sited(u)
<1> DEFINE k == Len(t)
<1>1. k \in Nat /\ n \in Nat /\ n \in 0 .. k /\ n + 1 \in 1 .. k /\ n < k
  BY ListedLen
<1>2. /\ Len(u) = k + 1
      /\ n < parsed => /\ u[k + 1] = e /\ \A i \in 1 .. k : u[i] = t[i]
      /\ n >= parsed => /\ u[n + 1] = e /\ (\A i \in 1 .. n : u[i] = t[i])
                         /\ \A i \in n + 2 .. k + 1 : u[i] = t[i - 1]
  BY <1>1, InsertedIs
<1>3. e.start \in Int
  BY <1>1 DEF Sited
<1>4. CASE n < parsed
  <2>1. \A i \in k + 1 + 1 .. k + 1 : u[i] = t[i - 1]
    BY <1>1
  <2>2. Between(u, t, k + 1, e)
    BY <1>1, <1>2, <1>4, <2>1 DEF Between, Sited
  <2>3. \A i \in 1 .. k + 1 : i \in 1 .. k \/ i = k + 1
    BY <1>1
  <2> QED
    BY <1>1, <1>2, <1>3, <1>4, <2>2, <2>3 DEF Sited
<1>5. CASE ~(n < parsed)
  <2>1. n >= parsed
    BY <1>1, <1>5
  <2>2. /\ u[n + 1] = e /\ (\A i \in 1 .. n : u[i] = t[i])
        /\ \A i \in n + 2 .. k + 1 : u[i] = t[i - 1]
    BY <1>2, <2>1
  <2>3. n + 1 + 1 = n + 2 /\ n + 1 - 1 = n
    BY <1>1
  <2>4. Between(u, t, n + 1, e)
    BY <1>1, <1>2, <2>2, <2>3 DEF Between, Sited
  <2>5. \A i \in 1 .. k + 1 : i \in 1 .. n \/ i = n + 1 \/ (i \in n + 2 .. k + 1 /\ i - 1 \in 1 .. k)
    BY <1>1
  <2>6. \A i \in 1 .. n : i \in 1 .. k
    BY <1>1
  <2>7. \A i \in 1 .. k + 1 : u[i].start \in Int
    BY <1>3, <2>2, <2>5, <2>6 DEF Sited
  <2>8. Sited(u) /\ place = n + 1
    BY <1>2, <1>5, <2>7 DEF Sited
  <2> QED
    BY <2>2, <2>4, <2>8
<1> QED
  BY <1>4, <1>5

\* The key that the candidate of the innermost level is owes its value.
LEMMA KeyOwed ==
  ASSUME NEW p, Spanned(p), Tidy(p), Settles(p), Last(p.keys).possible,
         NEW keys, Len(keys) = Len(p.keys),
         \A l \in OpenAt(keys) : l \in OpenAt(p.keys) /\ keys[l].number = p.keys[l].number
                                 /\ keys[l].number < Last(p.keys).number,
         NEW token, token.kind = "Key", token.start = Last(p.keys).at, token.end = Last(p.keys).at,
         NEW start, start.kind = "BlockMappingStart", start.start = Last(p.keys).at
  PROVE  LET a == Inserted(p.tokens, p.parsed, Last(p.keys).number, token)
             b == Inserted(a, p.parsed, Last(p.keys).number, start)
         IN Owing(p.input, a, keys, Last(p.keys).at) /\ Owing(p.input, b, keys, Last(p.keys).at)
<1> DEFINE n == Last(p.keys).number
           x == Last(p.keys).at
           t == p.tokens
           k == Len(t)
           a == Inserted(t, p.parsed, n, token)
           b == Inserted(a, p.parsed, n, start)
           place == IF n < p.parsed THEN k + 1 ELSE n + 1
           next == IF n < p.parsed THEN Len(a) + 1 ELSE n + 1
<1>1. /\ Listed(t) /\ k \in Nat /\ p.parsed \in Nat /\ p.parsed \in 0 .. k
      /\ n \in 0 .. k - 1 /\ n \in Nat
  <2>1. n \in 0 .. k - 1
    BY KeyIs
  <2> HIDE DEF n
  <2>2. Listed(t) /\ k \in Nat /\ p.parsed \in Nat /\ p.parsed \in 0 .. k
    BY LiveLen DEF Spanned
  <2> QED
    BY <2>1, <2>2
<1>2. Len(p.keys) \in OpenAt(p.keys) /\ Last(p.keys) = p.keys[Len(p.keys)] /\ Len(p.keys) \in Nat
  BY LiveLen DEF OpenAt, Last, Spanned
<1>3. t[n + 1].start = x
  BY <1>2 DEF Settles, Settled
<1>4. Sited(t)
  BY StartsBehind DEF Sited
<1>5. /\ Weight(token.kind) = 0 /\ token.kind # "Value" /\ SimpleKey(token)
      /\ Weight(start.kind) = 0 /\ start.kind # "Value" /\ ~SimpleKey(start)
  BY DEF Weight, FlowStarts, FlowEnds, SimpleKey
<1>6. PICK d : Paired(p.input, t, d, 0) /\ Hanging(d, t, p.keys)
  BY DEF Settles, Nested
<1>7. d[n] = d[k]
  <2>1. d[k] - d[n] = Len(p.keys) - Len(p.keys)
    BY <1>2, <1>6 DEF Hanging
  <2>2. n \in 0 .. k /\ k \in 0 .. k
    BY <1>1
  <2> HIDE DEF n, k
  <2>3. d[n] \in Int /\ d[k] \in Int
    BY <1>6, <2>2 DEF Paired, Depths, k
  <2> QED
    BY <1>2, <2>1, <2>3
<1>8. Hanging(d, t, keys)
  BY <1>6 DEF Hanging
<1>9. ASSUME NEW l \in OpenAt(keys)
      PROVE  keys[l].number \in Nat /\ keys[l].number < n
  <2>1. l \in DOMAIN p.keys /\ keys[l].number = p.keys[l].number /\ keys[l].number < n
    BY DEF OpenAt
  <2>2. p.keys[l].number \in 0 .. k - 1
    BY <2>1 DEF Settles, Settled
  <2> QED
    BY <2>1, <2>2
<1> HIDE DEF n, x, t
<1>10. Between(a, t, place, token) /\ a[n + 1].start = x /\ Sited(a)
  <2>1. token.start = t[n + 1].start /\ token.start = x
    BY <1>3 DEF x
  <2>2. a = Inserted(t, p.parsed, n, token) /\ place = IF n < p.parsed THEN Len(t) + 1 ELSE n + 1
    OBVIOUS
  <2>3. n \in 0 .. Len(t) - 1 /\ p.parsed \in 0 .. Len(t) /\ Listed(t)
    BY <1>1
  <2> HIDE DEF a, place, k
  <2>4. Between(a, t, place, token) /\ a[n + 1].start = token.start /\ Sited(a)
    <3>1. token.start = t[n + 1].start
      BY <2>1
    <3>2. Weight(token.kind) = 0
      BY <1>5
    <3>3. token.kind # "Value"
      BY <1>5
    <3>4. n \in 0 .. Len(t) - 1
      BY <2>3
    <3>5. p.parsed \in 0 .. Len(t)
      BY <2>3
    <3>6. Listed(t)
      BY <2>3
    <3>7. a = Inserted(t, p.parsed, n, token)
      BY <2>2
    <3>8. place = IF n < p.parsed THEN Len(t) + 1 ELSE n + 1
      BY <2>2
    <3> QED
      BY <1>4, <3>1, <3>2, <3>3, <3>4, <3>5, <3>6, <3>7, <3>8, InsertedBetween
  <2> QED
    BY <2>1, <2>4
<1>11. Listed(a) /\ Len(a) = k + 1
  <2>1. n \in 0 .. k
    BY <1>1
  <2> QED
    BY <1>1, <2>1, InsertedIs
<1> HIDE DEF a
<1>12. Between(b, a, next, start)
  <2>1. p.parsed \in 0 .. Len(a) /\ n \in 0 .. Len(a) - 1
    BY <1>1, <1>11
  <2>2. start.start = a[n + 1].start
    BY <1>10 DEF x
  <2>3. b = Inserted(a, p.parsed, n, start) /\ next = IF n < p.parsed THEN Len(a) + 1 ELSE n + 1
    OBVIOUS
  <2> HIDE DEF b, next
  <2> QED
    BY <1>5, <1>10, <1>11, <2>1, <2>2, <2>3, InsertedBetween
<1> HIDE DEF b, k
<1>13. /\ \A l \in OpenAt(keys) : keys[l].number \in 0 .. place - 1
       /\ \A l \in OpenAt(keys) : keys[l].number \in 0 .. next - 1
  BY <1>1, <1>9, <1>11
<1>14. d[place - 1] = d[Len(t)]
  <2>1. place - 1 = n \/ place - 1 = k
    BY <1>1
  <2> QED
    BY <1>7, <2>1 DEF k
<1> HIDE DEF place, next
<1>15. Owing(p.input, a, keys, x)
  <2>1. Owing(p.input, a, keys, token.start)
    BY <1>5, <1>6, <1>8, <1>10, <1>13, <1>14, KeyOwes
  <2> QED
    BY <2>1 DEF x
<1>16. Owing(p.input, b, keys, x)
  BY <1>5, <1>12, <1>13, <1>15, OwesStill
<1> QED
  BY <1>15, <1>16 DEF a, b, n, t, x

\* The key and the start of its mapping are put in front of the node, or follow
\* a collection that does not start with one.
LEMMA KeyOrder ==
  ASSUME NEW p, Spanned(p), Tidy(p), Settles(p), Last(p.keys).possible,
         NEW keys, NEW byTok, Settled(p.tokens, keys, byTok, p.parsed),
         \A l \in OpenAt(keys) : keys[l].number < Last(p.keys).number,
         NEW token, token.kind = "Key", token.start = Last(p.keys).at,
         NEW start, start.kind = "BlockMappingStart", start.start = Last(p.keys).at
  PROVE  LET a == Inserted(p.tokens, p.parsed, Last(p.keys).number, token)
             b == Inserted(a, p.parsed, Last(p.keys).number, start)
         IN Settled(a, keys, byTok, p.parsed) /\ Settled(b, keys, byTok, p.parsed)
<1> DEFINE n == Last(p.keys).number
           t == p.tokens
           k == Len(t)
           a == Inserted(t, p.parsed, n, token)
           b == Inserted(a, p.parsed, n, start)
<1>1. /\ Listed(t) /\ k \in Nat /\ p.parsed \in Nat /\ p.parsed \in 0 .. k
      /\ n \in 0 .. k - 1 /\ n \in 0 .. k /\ n + 1 \in 1 .. k /\ n \in Nat
  <2>1. n \in 0 .. k - 1
    BY KeyIs
  <2> HIDE DEF n
  <2>2. Listed(t) /\ k \in Nat /\ p.parsed \in Nat /\ p.parsed \in 0 .. k
    BY LiveLen DEF Spanned
  <2> QED
    BY <2>1, <2>2
<1>2. /\ t[n + 1].start = Last(p.keys).at
      /\ n < p.parsed => Gone(t, n + 1)
  <2>1. Len(p.keys) \in OpenAt(p.keys) /\ Last(p.keys) = p.keys[Len(p.keys)]
    BY LiveLen DEF OpenAt, Last, Spanned
  <2>2. /\ t[p.keys[Len(p.keys)].number + 1].start = p.keys[Len(p.keys)].at
        /\ \/ p.parsed <= p.keys[Len(p.keys)].number
           \/ Gone(t, p.keys[Len(p.keys)].number + 1)
    BY <2>1 DEF Settles, Settled, Guarded
  <2> QED
    BY <1>1, <2>1, <2>2
<1>3. \A i \in 1 .. k : t[i].start \in Int
  BY StartsBehind
<1>4. token.kind \notin Nodes /\ start.kind \notin Nodes
  BY DEF Nodes, FlowStarts
<1> HIDE DEF n, t
<1>5. /\ Listed(a) /\ Len(a) = k + 1
      /\ n < p.parsed => /\ a[k + 1] = token /\ \A i \in 1 .. k : a[i] = t[i]
      /\ n >= p.parsed => /\ a[n + 1] = token /\ (\A i \in 1 .. n : a[i] = t[i])
                          /\ \A i \in n + 2 .. k + 1 : a[i] = t[i - 1]
  BY <1>1, InsertedIs
<1> HIDE DEF k
<1>6. PutIn(a, t, p.parsed, n, token)
  BY <1>1, <1>2, <1>3, <1>4, <1>5 DEF PutIn, k
<1>7. Settled(a, keys, byTok, p.parsed)
  BY <1>1, <1>6, InsertSettles DEF n, t
<1>8. Len(a) \in Nat /\ p.parsed \in 0 .. Len(a) /\ n \in 0 .. Len(a) /\ n \in 0 .. Len(a) - 1
  BY <1>1, <1>5
<1>9. /\ Len(b) = Len(a) + 1
      /\ n < p.parsed => /\ b[Len(a) + 1] = start /\ \A i \in 1 .. Len(a) : b[i] = a[i]
      /\ n >= p.parsed => /\ b[n + 1] = start /\ (\A i \in 1 .. n : b[i] = a[i])
                          /\ \A i \in n + 2 .. Len(a) + 1 : b[i] = a[i - 1]
  <2>1. Listed(a)
    BY <1>5
  <2> HIDE DEF a
  <2> QED
    BY <1>8, <2>1, InsertedIs
<1> HIDE DEF a, b
<1>10. n < p.parsed \/ n >= p.parsed
  BY <1>1
<1>11. ASSUME NEW i \in 1 .. Len(a) PROVE a[i].start \in Int
  <2>1. t[n + 1].start \in Int
    BY <1>1, <1>3
  <2>2. CASE n < p.parsed
    <3>1. i \in 1 .. k \/ i = k + 1
      BY <1>1, <1>5
    <3> QED
      BY <1>2, <1>3, <1>5, <2>1, <2>2, <3>1
  <2>3. CASE n >= p.parsed
    <3>1. (i \in 1 .. n /\ i \in 1 .. k) \/ i = n + 1 \/ (i \in n + 2 .. k + 1 /\ i - 1 \in 1 .. k)
      BY <1>1, <1>5
    <3> QED
      BY <1>2, <1>3, <1>5, <2>1, <2>3, <3>1
  <2> QED
    BY <1>10, <2>2, <2>3
<1>12. start.start = a[n + 1].start
  BY <1>1, <1>2, <1>5, <1>10
<1>13. n < p.parsed => Gone(a, n + 1)
  BY <1>1, <1>2, <1>5 DEF Gone, k
<1>14. PutIn(b, a, p.parsed, n, start)
  BY <1>4, <1>8, <1>9, <1>11, <1>12, <1>13 DEF PutIn
<1>15. Settled(b, keys, byTok, p.parsed)
  BY <1>1, <1>7, <1>14, InsertSettles DEF n
<1> QED
  BY <1>7, <1>15 DEF a, b, n, t

LEMMA ValueOfSimpleKeyOrder ==
  ASSUME NEW p, Spanned(p), Tidy(p), Settles(p), Last(p.keys).possible, ValueOfSimpleKey(p).ok
  PROVE  LET v == ValueOfSimpleKey(p)
         IN /\ Settled(v.tokens, v.keys, v.byTok, v.parsed)
            /\ Owing(p.input, v.tokens, v.keys, Last(p.keys).at)
<1> DEFINE key == Last(p.keys)
           n == key.number
           token == Token("Key", key.at, key.at)
           column == Column(p.input, key.at)
           start == Token("BlockMappingStart", key.at, key.at)
           q == Insert(p, n, token)
           r == RollIndent(q, column, n, "BlockMappingStart", key.at)
           no == FALSE
           s == Put(r, "keys", SetPossible(r.keys, Len(r.keys), no))
           tok == WithoutToken(r.byTok, n)
           t == Put(s, "byTok", tok)
           u == Allow(t, no)
           v == ValueOfSimpleKey(p)
           a == Inserted(p.tokens, p.parsed, n, token)
           b == Inserted(a, p.parsed, n, start)
           less == Put(p, "keys", SetPossible(p.keys, Len(p.keys), no))
           least == Put(less, "byTok", WithoutToken(p.byTok, n))
<1>1. /\ Live(p) /\ n \in 0 .. Len(p.tokens) /\ Len(p.tokens) \in Nat /\ p.parsed \in 0 .. Len(p.tokens)
      /\ Listed(p.tokens)
  <2>1. Live(p) /\ n \in 0 .. Len(p.tokens) - 1
    BY KeyIs DEF Tidy
  <2> HIDE DEF n
  <2>2. Len(p.tokens) \in Nat /\ Listed(p.tokens) /\ p.parsed \in 0 .. Len(p.tokens)
    BY <2>1, LiveLen
  <2> QED
    BY <2>1, <2>2
<1>2. v = IF r.ok THEN u ELSE r
  <2>1. [r EXCEPT !.keys[Len(r.keys)].possible = FALSE, !.byTok = WithoutToken(@, key.number)] = t
    <3> HIDE DEF r
    <3> QED
      BY DEF Put, SetPossible
  <2> HIDE DEF t, s
  <2> QED
    BY <2>1 DEF ValueOfSimpleKey, Then
<1>3. /\ token.kind = "Key" /\ start.kind = "BlockMappingStart" /\ token.start = key.at /\ start.start = key.at
      /\ token.end = key.at
  BY MarkIs
<1>4. ~no
  OBVIOUS
<1>5. Live(q) /\ q.keys = p.keys /\ q.parsed = p.parsed /\ q.tokens = a /\ q.byTok = p.byTok
  <2>1. q.byTok = p.byTok
    BY <1>1 DEF Insert, Live, Scanning
  <2> HIDE DEF n, token
  <2> QED
    BY <1>1, <2>1, InsertIs
<1> HIDE DEF u, v, no, token, start, n, less
<1>6. r.ok /\ v = u
  BY <1>2 DEF v
<1>7. Len(a) \in Nat /\ n \in 0 .. Len(a)
  <2>1. Len(a) = Len(p.tokens) + 1
    BY <1>1, InsertedIs
  <2> HIDE DEF a
  <2> QED
    BY <1>1, <2>1
<1> HIDE DEF a, q, column
<1>8. Live(r) /\ r.keys = p.keys /\ (r.tokens = a \/ r.tokens = b)
  <2>1. Live(r) /\ r.keys = q.keys /\ (r.tokens = q.tokens \/ r.tokens = Inserted(q.tokens, q.parsed, n, start))
    <3> HIDE DEF key
    <3> QED
      BY <1>5, <1>6, <1>7, RollIs DEF start
  <2> QED
    BY <1>5, <2>1
<1>9. r.byTok = p.byTok /\ r.parsed = p.parsed
  <2> HIDE DEF key
  <2>1. {"byTok", "parsed", "tokens", "indents", "ok"} \subseteq DOMAIN q
    BY <1>5 DEF Live, Scanning
  <2> QED
    BY <1>5, <2>1 DEF RollIndent, Insert, Error
<1> HIDE DEF r, b
<1>10. s.keys = SetPossible(p.keys, Len(p.keys), no) /\ s.tokens = r.tokens /\ s.parsed = p.parsed /\ Live(s)
  <2>1. Weaker(s, r)
    BY <1>4, <1>8, DropWeaker
  <2> HIDE DEF key
  <2>2. {"keys", "tokens", "parsed"} \subseteq DOMAIN r
    BY <1>8 DEF Live, Scanning
  <2> QED
    BY <1>8, <1>9, <2>1, <2>2 DEF Put, Weaker
<1> HIDE DEF s, tok
<1>11. t.keys = s.keys /\ t.tokens = r.tokens /\ t.parsed = p.parsed /\ t.byTok = tok /\ Live(t)
  <2>1. Weaker(t, s)
    BY <1>10, PutWeaker
  <2>2. {"keys", "tokens", "parsed", "byTok"} \subseteq DOMAIN s
    BY <1>10 DEF Live, Scanning
  <2> QED
    BY <1>10, <2>1, <2>2 DEF Put, Weaker
<1> HIDE DEF t
<1>12. u.keys = s.keys /\ u.tokens = r.tokens /\ u.parsed = p.parsed /\ u.byTok = tok
  <2>1. u = Put(t, "allowed", no)
    BY DEF Allow, Put, u
  <2> QED
    BY <1>11, <2>1, FewerPut
  \* The same candidates with the queue as it was.
<1>13. /\ Fewer(less, p) /\ Len(p.keys) \notin OpenAt(less.keys) /\ less.byTok = p.byTok /\ Live(less)
       /\ less.keys = SetPossible(p.keys, Len(p.keys), no)
  <2>1. less.keys = SetPossible(p.keys, Len(p.keys), no)
    BY PutRest DEF less
  <2>2. LET x == Put(p, "keys", SetPossible(p.keys, Len(p.keys), no))
        IN Fewer(x, p) /\ Len(p.keys) \notin OpenAt(x.keys) /\ x.byTok = p.byTok /\ Live(x)
    BY <1>4, FewerDrop
  <2> QED
    BY <2>1, <2>2 DEF less
<1>14. \A l \in OpenAt(less.keys) : less.keys[l].number = p.keys[l].number /\ p.keys[l].number < n
  <2>1. \A l \in OpenAt(less.keys) : l \in DOMAIN less.keys /\ l \in OpenAt(p.keys) /\ l # Len(p.keys)
    BY <1>13 DEF Fewer, OpenAt
  <2>2. \A l \in OpenAt(p.keys) : l \in Possible(p)
    BY DEF OpenAt, Possible
  <2>3. \A l \in Possible(p) : l # Len(p.keys) => p.keys[l].number < n
    BY KeyIs DEF n
  <2> QED
    BY <1>13, <2>1, <2>2, <2>3 DEF Fewer
<1>15. \A l \in OpenAt(less.keys) : less.keys[l].number # n
  BY <1>1, <1>14
<1>16. Fewer(least, p) /\ least.keys = less.keys
  BY <1>13, <1>15, FewerForget
<1>17. least.byTok = tok
  <2>1. "byTok" \in DOMAIN less
    BY <1>13 DEF Live, Scanning
  <2> QED
    BY <1>9, <2>1 DEF Put, tok
<1> HIDE DEF least
<1>18. Settled(p.tokens, u.keys, u.byTok, p.parsed)
  BY <1>10, <1>12, <1>13, <1>16, <1>17, FewerSettles DEF Settles, Fewer
<1>19. \A l \in OpenAt(u.keys) : u.keys[l].number < Last(p.keys).number
  BY <1>10, <1>12, <1>13, <1>14 DEF n
<1>20. Settled(a, u.keys, u.byTok, p.parsed) /\ Settled(b, u.keys, u.byTok, p.parsed)
  BY <1>3, <1>18, <1>19, KeyOrder DEF a, b, n
<1>21. Len(u.keys) = Len(p.keys)
  BY <1>10, <1>12, <1>13 DEF Fewer
<1>22. ASSUME NEW l \in OpenAt(u.keys)
       PROVE  l \in OpenAt(p.keys) /\ u.keys[l].number = p.keys[l].number /\ u.keys[l].number < Last(p.keys).number
  BY <1>10, <1>12, <1>13, <1>14, <1>19 DEF Fewer
<1>23. Owing(p.input, a, u.keys, Last(p.keys).at) /\ Owing(p.input, b, u.keys, Last(p.keys).at)
  BY <1>3, <1>21, <1>22, KeyOwed DEF a, b, n
<1>24. /\ Settled(u.tokens, u.keys, u.byTok, u.parsed)
       /\ Owing(p.input, u.tokens, u.keys, Last(p.keys).at)
  BY <1>8, <1>12, <1>20, <1>23
<1> QED
  BY <1>6, <1>24 DEF v

\* The ':' behind a key that owes its value.
LEMMA OwedIndicator ==
  ASSUME NEW p, Spanned(p), Settled(p.tokens, p.keys, p.byTok, p.parsed),
         NEW x, Owing(p.input, p.tokens, p.keys, x), Near(p.input, x, p.pos)
  PROVE  Orderly(Indicator(p, "Value", 1))
<1> DEFINE t == Token("Value", p.pos, p.pos + 1)
           u == Append(p.tokens, t)
           a == Put(p, "tokens", u)
           r == Put(a, "pos", a.pos + 1)
           n == Len(p.tokens)
<1>1. Indicator(p, "Value", 1) = r
  <2>1. Add(p, t) = a
    BY DEF Add, Put
  <2> HIDE DEF a, t
  <2>2. [a EXCEPT !.pos = @ + 1] = Put(a, "pos", a.pos + 1)
    BY DEF Put
  <2> QED
    BY <2>1, <2>2 DEF Indicator, t
<1>2. t.kind = "Value" /\ t.start = p.pos
  BY DEF Token
<1> HIDE DEF t
<1>3. /\ r.input = p.input /\ r.tokens = u /\ r.keys = p.keys /\ r.byTok = p.byTok /\ r.parsed = p.parsed
  <2> HIDE DEF u
  <2> QED
    BY DEF Put, Spanned, Live, Scanning
<1> HIDE DEF r
<1>4. Listed(p.tokens) /\ n \in Nat /\ p.pos \in Int /\ p.parsed \in Nat /\ p.parsed <= n
  BY LiveLen, SpannedPos DEF Spanned
<1>5. /\ Len(u) = n + 1 /\ u[n + 1] = t /\ \A i \in 1 .. n : u[i] = p.tokens[i]
  BY <1>4, ListedAppend
<1> HIDE DEF u
<1>6. \A i \in n + 1 .. Len(u) : i = n + 1
  BY <1>4, <1>5
<1>7. Grown(u, p.tokens, p.pos)
  BY <1>2, <1>4, <1>5, <1>6, StartsBehind DEF Grown
<1>8. "Value" \notin Nodes /\ "Value" \notin FlowStarts
  BY DEF Nodes, FlowStarts
<1>9. ReadyFor(p, p, "Value")
  BY <1>8, FewerSame, ReadyFewer DEF Spanned
<1>10. n < Len(u) /\ u[n + 1].kind = "Value" /\ u[Len(u)].kind = "Value"
  BY <1>2, <1>4, <1>5
<1>11. Settled(u, p.keys, p.byTok, p.parsed)
  BY <1>4, <1>7, <1>8, <1>9, <1>10, GrownSettle
<1>12. \A l \in OpenAt(p.keys) : p.keys[l].number \in 0 .. n
  <2>1. \A l \in OpenAt(p.keys) : p.keys[l].number \in 0 .. n - 1
    BY DEF OpenAt, Settled
  <2> QED
    BY <1>4, <2>1
<1>13. Nested(p.input, u, p.keys)
  BY <1>5, <1>7, <1>10, <1>12, ValueAnswers
<1>14. Opened(r)
  BY <1>3, <1>8, <1>10 DEF Opened
<1> QED
  BY <1>1, <1>3, <1>11, <1>13, <1>14 DEF Orderly, Settles

\* A candidate that is not stale is near.
LEMMA FreshIsNear ==
  ASSUME NEW p, Spanned(p), NEW level \in DOMAIN p.keys, ~Stale(p, p.keys[level])
  PROVE  Near(p.input, p.keys[level].at, p.pos)
<1> DEFINE x == p.keys[level].at
           y == p.pos
<1>1. y \in Nat /\ x \in Nat /\ x <= y
  <2>1. p.pos \in Nat /\ p.keys[level].at \in 1 .. p.pos
    BY SpannedPos DEF Spanned, Candidate
  <2> QED
    BY <2>1
<1>2. ~(Line(p.input, x) < Line(p.input, y)) /\ ~(x + SimpleKeyLimit < y)
  BY DEF Stale
<1> HIDE DEF x, y
<1>3. /\ Line(p.input, x) \in Nat /\ Line(p.input, y) \in Nat /\ Line(p.input, x) <= Line(p.input, y)
  BY <1>1, LineGrows
<1>4. Line(p.input, x) = Line(p.input, y)
  BY <1>2, <1>3
<1>5. y - x <= SimpleKeyLimit
  BY <1>1, <1>2, LimitsAreNaturals
<1> QED
  BY <1>1, <1>4, <1>5 DEF Near, x, y

\* A candidate that has not been dropped is not stale.
LEMMA DropStaleFresh ==
  ASSUME NEW p, Spanned(p), DropStaleKey(p, Len(p.keys)).ok
  PROVE  LET q == DropStaleKey(p, Len(p.keys))
         IN Last(q.keys).possible => Len(q.keys) \in DOMAIN q.keys /\ ~Stale(q, q.keys[Len(q.keys)])
<1> DEFINE level == Len(p.keys)
           no == FALSE
           r == Put(p, "keys", SetPossible(p.keys, level, no))
           q == DropStaleKey(p, level)
<1>1. [p EXCEPT !.keys[level].possible = FALSE] = r
  BY DEF Put, SetPossible
<1>2. level \in DOMAIN p.keys /\ level \in Nat /\ level >= 1 /\ Listed(p.keys) /\ "keys" \in DOMAIN p
  BY LiveLen DEF Spanned, Live, Scanning
<1>3. ~Error(p).ok
  BY DEF Error, Spanned, Live, Scanning
<1>4. \/ q = p /\ (~p.keys[level].possible \/ ~Stale(p, p.keys[level]))
      \/ q = r
  <2> HIDE DEF r
  <2> QED
    BY <1>1, <1>3 DEF DropStaleKey
<1>5. CASE q = p /\ (~p.keys[level].possible \/ ~Stale(p, p.keys[level]))
  BY <1>2, <1>5 DEF Last
<1>6. CASE q = r
  <2>1. ~no
    OBVIOUS
  <2> HIDE DEF no
  <2>2. level \notin OpenAt(r.keys) /\ DOMAIN r.keys = DOMAIN p.keys /\ Len(r.keys) = level
    BY <2>1, FewerDrop
  <2> HIDE DEF r
  <2>3. ~r.keys[level].possible
    BY <1>2, <2>2 DEF OpenAt
  <2> QED
    BY <1>6, <2>2, <2>3 DEF Last
<1> QED
  BY <1>4, <1>5, <1>6

LEMMA ValueOrder ==
  ASSUME NEW p, Spanned(p), p.ok, Tidy(p), Settles(p), Value(p).ok
  PROVE  Orderly(Value(p))
<1> DEFINE q == DropStaleKey(p, Len(p.keys))
           o == OpenBlock(q, "BlockMappingStart")
           b == Flow(o) = 0
           a == Allow(o, b)
           v == ValueOfSimpleKey(q)
           r == IF Last(q.keys).possible THEN v ELSE IF o.ok THEN a ELSE o
           s == Indicator(r, "Value", 1)
<1>1. Value(p) = IF ~q.ok THEN q ELSE IF r.ok THEN s ELSE r
  BY DEF Value, Then
<1>2. q.ok /\ r.ok /\ Value(p) = s
  <2> HIDE DEF q, r, s
  <2> QED
    BY <1>1
<1>3. Staying(q, p) /\ Settles(q) /\ Tidy(q)
  BY DropStaleKeyStays, FewerDropStale, FewerSettles, DropStaleKeyWeaker, WeakerAimed DEF Tidy
<1>4. Last(q.keys).possible => Len(q.keys) \in DOMAIN q.keys /\ ~Stale(q, q.keys[Len(q.keys)])
  BY <1>2, DropStaleFresh
<1> HIDE DEF q
<1>5. Spanned(q) /\ Live(q)
  BY <1>3, StayingIs
<1>6. "Value" \notin Nodes /\ "Value" \notin FlowEnds
  BY DEF Nodes, FlowStarts, FlowEnds
<1>7. CASE Last(q.keys).possible
  <2>1. v.ok /\ r = v
    BY <1>2, <1>7
  <2>2. /\ Settled(v.tokens, v.keys, v.byTok, v.parsed)
        /\ Owing(q.input, v.tokens, v.keys, Last(q.keys).at)
    BY <1>3, <1>5, <1>7, <2>1, ValueOfSimpleKeyOrder
  <2>3. Spanned(v) /\ v.input = q.input /\ v.pos = q.pos
    BY <1>2, <1>5, ValueOfSimpleKeyStays, StayingIs
  <2>4. Near(q.input, Last(q.keys).at, q.pos)
    BY <1>5, <1>7, <1>4, FreshIsNear DEF Last
  <2> HIDE DEF v, r
  <2> QED
    BY <1>2, <2>1, <2>2, <2>3, <2>4, OwedIndicator
<1>8. CASE ~Last(q.keys).possible
  <2>1. o.ok /\ r = a
    BY <1>2, <1>8
  <2>2. Settles(o)
    BY <1>5, <1>3, <2>1, OpenBlockOrder DEF BlockStarts
  <2>3. Spanned(o)
    BY <1>2, <1>5, OpenBlockStays, StayingIs
  <2> HIDE DEF o, b, r, a
  <2>4. Fewer(o, o) /\ Staying(o, o)
    BY <2>3, FewerSame, StayingItself
  <2> QED
    BY <1>2, <1>6, <2>1, <2>2, <2>3, <2>4, AllowedOrder DEF a
<1> QED
  BY <1>7, <1>8

\* The comment behind a token.
LEMMA CommentOrder ==
  ASSUME NEW p, Live(p), Orderly(p)
  PROVE  Orderly(LineComment(p))
<1> DEFINE q == Put(p, "pos", LineCommentEnd(p.input, p.pos))
<1>1. LineComment(p) = p \/ LineComment(p) = q
  BY DEF LineComment, Put
<1>2. Fewer(q, p) /\ q.tokens = p.tokens
  BY FewerPut
<1>3. q.allowed = p.allowed
  BY DEF Put, Live, Scanning
<1> HIDE DEF q
<1>4. Orderly(q)
  BY <1>2, <1>3, FewerSettles DEF Orderly, Opened
<1> QED
  BY <1>1, <1>4

-----------------------------------------------------------------------------
(* Between two tokens.                                                     *)

LEMMA ApproachOrder ==
  ASSUME NEW p, Spanned(p), Settles(p)
  PROVE  Settles(Approach(p)) /\ (Opened(p) => Opened(Approach(p)))
<1> DEFINE e == NextStart(p)[1]
           b == NextStart(p)[2]
           q == Put(p, "pos", e)
           r == Put(q, "allowed", b)
<1>1. Approach(p) = r
  BY DEF Approach, Put
<1>2. e \in p.pos .. Len(p.input) + 1 /\ Empty(p.input, p.pos, e) /\ (p.allowed => b)
  BY NextStartIs DEF Spanned
<1> HIDE DEF e, b
<1>3. Spanned(q)
  BY <1>2, PosReads DEF Reading
<1>4. Fewer(q, p) /\ q.tokens = p.tokens
  BY FewerPut DEF Spanned
<1> HIDE DEF q
<1>5. Fewer(r, q) /\ r.tokens = q.tokens
  BY <1>3, FewerPut DEF Spanned
<1>6. r.allowed = b
  BY <1>3 DEF Put, Spanned, Live, Scanning
<1> HIDE DEF r
<1>7. Settles(r)
  BY <1>4, <1>5, FewerOn, FewerSettles
<1> QED
  BY <1>1, <1>2, <1>4, <1>5, <1>6, <1>7 DEF Opened

\* A block scalar is not begun in a flow collection.
LEMMA BlockIs ==
  ASSUME NEW p, NextKind(p) = "Block"
  PROVE  Flow(p) = 0
BY DEF NextKind

\* A token with the comment behind it.
LEMMA CommentedOrder ==
  ASSUME NEW q, Live(q), q.ok => Orderly(q), LineComment(q).ok
  PROVE  Orderly(LineComment(q))
<1>1. q.ok
  BY DEF LineComment
<1> QED
  BY <1>1, CommentOrder

\* The end of the stream comes again once it has come.
Onwards(p) == Opened(p) \/ Ends(p.tokens)

LEMMA FetchOrder ==
  ASSUME Spanned(parser), NoNul(parser), Ending(parser), Tidy(parser), Settles(parser), Onwards(parser),
         Fetch, parser'.ok
  PROVE  Settles(parser') /\ Onwards(parser')
<1> DEFINE a == Approach(parser)
           p == UnrollIndent(a, Col(a))
<1>1. /\ Reading(a, parser) /\ Spanned(a) /\ Tidy(a) /\ a.ok = parser.ok
      /\ Settles(a) /\ (Opened(parser) => Opened(a))
  <2>1. Reading(a, parser)
    BY ApproachReads
  <2>2. Tidy(a)
    BY ApproachWeaker, WeakerAimed DEF Tidy
  <2>3. a.ok = parser.ok
    BY DEF Approach, Spanned, Live, Scanning
  <2>4. Settles(a) /\ (Opened(parser) => Opened(a))
    BY ApproachOrder
  <2> HIDE DEF a
  <2> QED
    BY <2>1, <2>2, <2>3, <2>4 DEF Reading
<1>2. \E kind \in {NextKind(p)} :
         \/ kind = "StreamEnd" /\ parser' = StreamEnd(p)
         \/ kind = "Directive" /\ parser' = DirectiveToken(p)
         \/ kind \in {"DocumentStart", "DocumentEnd"} /\ parser' = DocumentIndicator(p, kind)
         \/ \E q \in {FlowStart(p, "FlowSequenceStart"), FlowStart(p, "FlowMappingStart"),
                      FlowEnd(p, "FlowSequenceEnd"), FlowEnd(p, "FlowMappingEnd"), FlowEntry(p),
                      BlockEntry(p), ExplicitKey(p), Value(p), Alias(p), Anchor(p), Tag(p), PlainScalar(p)} :
              kind # "StreamEnd" /\ parser' = LineComment(q)
         \/ kind = "Block" /\ parser' = LineComment(LiteralOrFolded(p))
         \/ kind = "Quoted" /\ parser' = LineComment(QuotedScalar(p))
         \/ kind = "None" /\ parser' = Error(p)
  <2> HIDE DEF a
  <2> QED
    BY DEF Fetch, a
<1>3. p.ok
  <2>1. parser.ok
    BY DEF Fetch, Wanting
  <2> HIDE DEF a
  <2>2. p.ok = a.ok
    BY <1>1 DEF UnrollIndent, Spanned, Live, Scanning
  <2> QED
    BY <1>1, <2>1, <2>2
<1> HIDE DEF a
<1>4. Staying(p, a) /\ Tidy(p) /\ Settles(p) /\ (Opened(a) => Opened(p))
  <2>1. Col(a) \in Int /\ Col(a) >= -1
    BY <1>1, ColIs
  <2> QED
    BY <1>1, <2>1, UnrollStays, UnrollTidy, UnrollSettles
<1> HIDE DEF p
<1>5. Spanned(p) /\ Reading(p, parser) /\ p.pos \in Nat /\ Live(p)
  BY <1>1, <1>4, StayingIs, ReadingOn, SpannedPos DEF Tidy
<1> DEFINE kind == NextKind(p)
<1>6. /\ kind = "StreamEnd" <=> At(p) = "z"
      /\ kind = "Quoted" => At(p) \in Quotes
      /\ kind = "Block" => Flow(p) = 0
  BY <1>5, KindIs, BlockIs
<1>7. kind \in {NextKind(p)}
  OBVIOUS
<1> HIDE DEF kind
<1>8. CASE kind = "StreamEnd"
  <2>1. parser' = StreamEnd(p)
    BY <1>2, <1>8 DEF kind
  <2> QED
    BY <1>4, <1>5, <2>1, StreamEndOrder DEF Onwards
<1>9. CASE kind # "StreamEnd"
  <2>1. At(p) # "z"
    BY <1>6, <1>9
  <2>2. Orderly(p)
    <3>1. SUFFICES ASSUME Ends(parser.tokens) PROVE FALSE
      BY <1>1, <1>4 DEF Onwards, Orderly
    <3>2. parser.pos = Len(parser.input) + 1
      BY <3>1 DEF Ends, Ending
    <3>3. p.pos = Len(p.input) + 1 /\ p.input = parser.input
      BY <1>5, <3>2, SpannedPos DEF Reading
    <3>4. NoNul(p)
      BY <3>3 DEF NoNul
    <3> QED
      BY <1>5, <2>1, <3>3, <3>4, AtEnd
  <2>3. ASSUME NEW q \in {FlowStart(p, "FlowSequenceStart"), FlowStart(p, "FlowMappingStart"),
                          FlowEnd(p, "FlowSequenceEnd"), FlowEnd(p, "FlowMappingEnd"), FlowEntry(p),
                          BlockEntry(p), ExplicitKey(p), Value(p), PlainScalar(p)}
        PROVE  Live(q) /\ (q.ok => Orderly(q))
    <3>1. Keeps(q, p)
      BY <1>5, <2>3, FlowStartKeeps, FlowEndKeeps, FlowEntryKeeps, BlockEntryKeeps, ExplicitKeyKeeps,
         ValueKeeps, PlainKeeps
    <3>2. /\ {"FlowSequenceStart", "FlowMappingStart"} \subseteq FlowStarts
          /\ {"FlowSequenceEnd", "FlowMappingEnd"} \subseteq FlowEnds
      BY DEF FlowStarts, FlowEnds
    <3>3. q.ok => Orderly(q)
      BY <1>3, <1>4, <1>5, <2>2, <2>3, <3>2, FlowStartOrder, FlowEndOrder, FlowEntryOrder,
         BlockEntryOrder, ExplicitKeyOrder, ValueOrder, PlainOrder
    <3> QED
      BY <3>1, <3>3 DEF Keeps
  <2>4. ASSUME NEW q \in {Alias(p), Anchor(p), Tag(p)}
        PROVE  Live(q) /\ (q.ok => Orderly(q))
    <3>1. PICK k \in {"Alias", "Anchor", "Tag"} : \E end : q = KeyCandidate(p, k, end)
      BY <2>4 DEF Alias, Anchor, Tag
    <3>2. PICK end : q = KeyCandidate(p, k, end)
      BY <3>1
    <3>3. k \in Nodes /\ Flat(k)
      BY <3>1 DEF Nodes, Flat, FlowStarts, FlowEnds
    <3> QED
      BY <1>4, <1>5, <2>2, <3>2, <3>3, KeyCandidateKeeps, KeyCandidateOrder DEF Keeps
  <2>5. Flow(p) = 0 => Live(LiteralOrFolded(p)) /\ (LiteralOrFolded(p).ok => Orderly(LiteralOrFolded(p)))
    BY <1>4, <1>5, LiteralKeeps, LiteralOrder DEF Keeps
  <2>6. At(p) \in Quotes => Live(QuotedScalar(p)) /\ (QuotedScalar(p).ok => Orderly(QuotedScalar(p)))
    BY <1>4, <1>5, <2>2, QuotedKeeps, QuotedOrder DEF Keeps
  <2>7. DirectiveToken(p).ok => Orderly(DirectiveToken(p))
    BY <1>4, <1>5, <2>1, DirectiveOrder
  <2>8. kind \in {"DocumentStart", "DocumentEnd"} /\ DocumentIndicator(p, kind).ok => Orderly(DocumentIndicator(p, kind))
    <3>1. /\ "DocumentStart" \notin Nodes /\ "DocumentEnd" \notin Nodes
          /\ Flat("DocumentStart") /\ Flat("DocumentEnd")
      BY DEF Nodes, Flat, FlowStarts, FlowEnds
    <3> QED
      BY <1>4, <1>5, <3>1, DocumentOrder
  <2>9. ~Error(p).ok
    BY <1>5, ErrorKeeps
  <2>10. \A q : Live(q) /\ (q.ok => Orderly(q)) /\ LineComment(q).ok => Orderly(LineComment(q))
    BY CommentedOrder
  <2>11. \/ kind = "Directive" /\ parser' = DirectiveToken(p)
         \/ kind \in {"DocumentStart", "DocumentEnd"} /\ parser' = DocumentIndicator(p, kind)
         \/ \E q \in {FlowStart(p, "FlowSequenceStart"), FlowStart(p, "FlowMappingStart"),
                      FlowEnd(p, "FlowSequenceEnd"), FlowEnd(p, "FlowMappingEnd"), FlowEntry(p),
                      BlockEntry(p), ExplicitKey(p), Value(p), Alias(p), Anchor(p), Tag(p), PlainScalar(p)} :
              parser' = LineComment(q)
         \/ kind = "Block" /\ parser' = LineComment(LiteralOrFolded(p))
         \/ kind = "Quoted" /\ parser' = LineComment(QuotedScalar(p))
         \/ parser' = Error(p)
    BY <1>2, <1>9 DEF kind
  <2>12. Orderly(parser')
    <3>1. ASSUME NEW q \in {FlowStart(p, "FlowSequenceStart"), FlowStart(p, "FlowMappingStart"),
                      FlowEnd(p, "FlowSequenceEnd"), FlowEnd(p, "FlowMappingEnd"), FlowEntry(p),
                      BlockEntry(p), ExplicitKey(p), Value(p), Alias(p), Anchor(p), Tag(p), PlainScalar(p)},
                 parser' = LineComment(q)
          PROVE  Orderly(parser')
      <4>1. Live(q) /\ (q.ok => Orderly(q))
        BY <2>3, <2>4, <3>1
      <4> QED
        BY <2>10, <3>1, <4>1
    <3> QED
      BY <1>6, <2>5, <2>6, <2>7, <2>8, <2>9, <2>10, <2>11, <3>1
  <2> QED
    BY <2>12 DEF Orderly, Onwards
<1> QED
  BY <1>8, <1>9

-----------------------------------------------------------------------------
(* The scanner's steps, in order.                                          *)

\* The head leaves the queue when no candidate is the head.
LEMMA SettledOn ==
  ASSUME NEW t, NEW keys, NEW byTok, NEW parsed \in Nat, Settled(t, keys, byTok, parsed), Len(t) \in Nat,
         \A l \in OpenAt(keys) : Guarded(keys, byTok, parsed, l) => keys[l].number # parsed
  PROVE  Settled(t, keys, byTok, parsed + 1)
<1>1. ASSUME NEW l \in OpenAt(keys), Guarded(keys, byTok, parsed, l)
      PROVE  Guarded(keys, byTok, parsed + 1, l)
  <2>1. keys[l].number \in 0 .. Len(t) - 1
    BY DEF Settled, OpenAt
  <2>2. parsed <= keys[l].number /\ keys[l].number # parsed
    BY <1>1 DEF Guarded
  <2>3. parsed + 1 <= keys[l].number
    BY <2>1, <2>2
  <2> QED
    BY <1>1, <2>3 DEF Guarded
<1> QED
  BY <1>1 DEF Settled

LEMMA ReturnOrder ==
  ASSUME ScanInv, Spanned(parser), Settles(parser), Onwards(parser), Return
  PROVE  Settles(parser') /\ Onwards(parser')
<1> DEFINE level == CHOOSE level \in HeadLevel : TRUE
           d == DropStaleKey(parser, level)
           p == IF HeadLevel = {} THEN parser ELSE d
           over == parser.tokens[parser.parsed + 1].kind = "StreamEnd"
           q == parser'
<1>1. q = [p EXCEPT !.parsed = @ + 1, !.ended = over]
  BY DEF Return
<1>2. Behind /\ ~HeadMayBeKey /\ ~HeadIsLost
  BY DEF Return
<1>3. HeadLevel # {} => ~(level \in DOMAIN d.keys /\ d.keys[level].possible)
  <2>1. HeadLevel # {} => level \in HeadLevel
    OBVIOUS
  <2> HIDE DEF level
  <2> QED
    BY <1>2, <2>1 DEF HeadMayBeKey, HeadIsLost
<1>4. parser.parsed \in DOMAIN parser.byTok => HeadLevel # {} /\ level = parser.byTok[parser.parsed]
  BY DEF HeadLevel
<1>5. Live(parser) /\ Live(d) /\ Fewer(d, parser) /\ d.byTok = parser.byTok /\ d.allowed = parser.allowed
  <2> HIDE DEF level
  <2>1. Live(parser) /\ Live(d) /\ Fewer(d, parser)
    BY FewerDropStale, DropStaleKeyKeeps DEF Spanned, Keeps
  <2>2. d.byTok = parser.byTok /\ d.allowed = parser.allowed
    BY DEF DropStaleKey, Error, Spanned, Live, Scanning
  <2> QED
    BY <2>1, <2>2
<1> HIDE DEF d, level, over
<1>6. /\ Live(p) /\ Fewer(p, parser) /\ p.byTok = parser.byTok /\ p.allowed = parser.allowed
      /\ HeadLevel # {} => p = d
  BY <1>5, FewerSame
<1> HIDE DEF p
<1>7. /\ q.tokens = p.tokens /\ q.keys = p.keys /\ q.byTok = p.byTok /\ q.allowed = p.allowed
      /\ q.parsed = p.parsed + 1 /\ q.input = p.input
  BY <1>1, <1>6 DEF Live, Scanning
<1>8. Settles(p) /\ p.parsed = parser.parsed /\ p.tokens = parser.tokens
  BY <1>6, FewerSettles DEF Fewer
<1>9. p.parsed \in Nat /\ Len(p.tokens) \in Nat
  BY <1>6, LiveLen
<1>10. ASSUME NEW l \in OpenAt(p.keys), Guarded(p.keys, p.byTok, p.parsed, l), p.keys[l].number = p.parsed
       PROVE  FALSE
  <2>1. parser.parsed \in DOMAIN parser.byTok /\ l = parser.byTok[parser.parsed]
    BY <1>6, <1>8, <1>10 DEF Guarded
  <2>2. l = level /\ p = d
    BY <1>4, <1>6, <2>1
  <2>3. l \in DOMAIN p.keys /\ p.keys[l].possible
    BY DEF OpenAt
  <2> QED
    BY <1>3, <1>4, <2>1, <2>2, <2>3
<1>11. Settled(p.tokens, p.keys, p.byTok, p.parsed + 1)
  BY <1>8, <1>9, <1>10, SettledOn DEF Settles
<1> HIDE DEF q
<1>12. Settles(q)
  BY <1>7, <1>8, <1>11 DEF Settles
<1>13. Onwards(q)
  <2>1. q.tokens = parser.tokens /\ q.allowed = parser.allowed
    BY <1>6, <1>7, <1>8
  <2> QED
    BY <2>1 DEF Onwards, Opened
<1> QED
  BY <1>12, <1>13 DEF q

\* The first token of the stream is alone, and no candidate.
LEMMA FirstOrder ==
  ASSUME ScanInv, FetchFirst, parser.tokens = <<>>, parser.keys = <<>>
  PROVE  Settles(parser') /\ Onwards(parser') /\ parser'.parsed = 0
<1> DEFINE token == Token("StreamStart", parser.pos, parser.pos)
           u == <<token>>
           keys == <<NoKey>>
<1>1. PICK d : /\ Live(d) /\ d.tokens = parser.tokens /\ d.parsed = parser.parsed
               /\ d.keys = Append(parser.keys, NoKey) /\ parser' = Add(d, token)
  BY FirstIs
<1>2. token.kind = "StreamStart"
  BY DEF Token
<1> HIDE DEF token
<1>3. Append(parser.tokens, token) = u /\ Append(parser.keys, NoKey) = keys
  OBVIOUS
<1>4. parser.parsed = 0
  <2>1. parser.parsed \in 0 .. Len(parser.tokens)
    BY DEF ScanInv, Live, Scanning
  <2> QED
    BY <2>1
<1>5. Len(u) = 1 /\ u[1] = token /\ DOMAIN keys = {1} /\ keys[1] = NoKey
  OBVIOUS
<1>6. NoKey.number = 0 /\ ~NoKey.possible
  BY DEF NoKey, Key
<1> HIDE DEF u, keys
<1>7. parser'.tokens = u /\ parser'.keys = keys /\ parser'.parsed = 0
  BY <1>1, <1>3, <1>4 DEF Add, Live, Scanning
<1>8. OpenAt(keys) = {}
  BY <1>5, <1>6 DEF OpenAt
<1>9. Ordered(u)
  BY <1>5 DEF Ordered
<1>10. \A l \in DOMAIN keys : keys[l].number \in 0 .. Len(u) - 1
  BY <1>5, <1>6
<1>11. "StreamStart" \notin FlowStarts
  BY DEF FlowStarts
<1>12. Nested(parser'.input, u, keys)
  <2> DEFINE none == [i \in 0 .. 1 |-> 0]
  <2>1. Weight(u[1].kind) = 0
    BY <1>2, <1>5, <1>11, WeightNone DEF FlowEnds
  <2>2. ~SimpleKey(u[1])
    BY <1>2, <1>5 DEF SimpleKey
  <2>3. \A i \in 1 .. 1 : i = 1 /\ i - 1 = 0
    OBVIOUS
  <2>4. none \in [0 .. 1 -> Int] /\ none[0] = 0 /\ none[1] = 0
    OBVIOUS
  <2> HIDE DEF none
  <2>5. Depths(none, u)
    BY <1>5, <2>1, <2>3, <2>4 DEF Depths
  <2>6. Paired(parser'.input, u, none, 0)
    BY <1>5, <2>2, <2>3, <2>5 DEF Paired
  <2> QED
    BY <1>8, <2>6 DEF Nested, Hanging
<1>13. Settled(u, keys, parser'.byTok, 0)
  BY <1>8, <1>9, <1>10 DEF Settled
<1> QED
  BY <1>2, <1>5, <1>7, <1>11, <1>12, <1>13 DEF Settles, Onwards, Opened

\* What has been handed out of an ordered queue is in order.
LEMMA OrderedInOrder ==
  ASSUME NEW p, Len(p.tokens) \in Nat, p.parsed \in 0 .. Len(p.tokens), Ordered(p.tokens),
         NEW i \in 1 .. p.parsed, \E j \in 1 .. i - 1 : p.tokens[j].start > p.tokens[i].start
  PROVE  \E j \in 1 .. i - 1 : Gone(p.tokens, j) /\ p.tokens[j].start = p.tokens[i].start
<1>1. i \in 1 .. Len(p.tokens) /\ \A j \in 1 .. i - 1 : j \in 1 .. Len(p.tokens) /\ j < i
  OBVIOUS
<1> QED
  BY <1>1 DEF Ordered

\* The state of the scanner as long as there is no error.
OrderInv ==
  /\ FirstInv /\ ReadInv /\ TokensInOrder /\ KeysAreShort
  /\ parser.ok /\ parser.started => Settles(parser) /\ Onwards(parser)

\* The keys of the queue are short, and those handed out among them.
LEMMA SettledShort ==
  ASSUME ReadInv', Settles(parser')
  PROVE  KeysAreShort'
<1> DEFINE p == parser'
           n == parser'.parsed
<1>1. /\ Len(p.tokens) \in Nat /\ n \in 0 .. Len(p.tokens)
      /\ DOMAIN p.tokens = 1 .. Len(p.tokens)
  <2>1. Scanning(p)
    BY DEF ReadInv, ScanInv, Live
  <2> QED
    BY <2>1, ListedLen DEF Scanning
<1>2. KeysAreShort' <=> ShortKeys(p.input, p.tokens, n)
  BY ShortNext
<1>3. PICK d : Paired(p.input, p.tokens, d, 0)
  BY DEF Settles, Nested
<1>4. CASE Unread(p)
  <2>1. n = 0
    <3>1. Len(p.tokens) = 0
      BY <1>4 DEF Unread
    <3> QED
      BY <1>1, <3>1
  <2> HIDE DEF p, n
  <2> QED
    BY <1>2, <2>1 DEF ShortKeys
<1>5. CASE Spanned(p)
  <2> HIDE DEF p
  <2>1. p.pos \in Nat /\ \A i \in DOMAIN p.tokens : p.tokens[i].start \in 1 .. p.pos
    BY <1>5, SpannedPos DEF Spanned, Spot
  <2>2. \A i \in 1 .. Len(p.tokens) : p.tokens[i].start \in Nat
    BY <1>1, <2>1
  <2> HIDE DEF n
  <2> QED
    BY <1>1, <1>2, <1>3, <2>2, PairedShort
<1> QED
  BY <1>4, <1>5 DEF ReadInv

LEMMA SettledInOrder ==
  ASSUME ScanInv', Settles(parser')
  PROVE  TokensInOrder'
<1> DEFINE q == parser'
<1>1. Len(q.tokens) \in Nat /\ q.parsed \in 0 .. Len(q.tokens) /\ Ordered(q.tokens)
  <2>1. Scanning(q)
    BY DEF ScanInv, Live
  <2> QED
    BY <2>1, ListedLen DEF Scanning, Settles, Settled
<1> HIDE DEF q
<1>2. \A i \in 1 .. q.parsed : (\E j \in 1 .. i - 1 : q.tokens[j].start > q.tokens[i].start) =>
        \E j \in 1 .. i - 1 : Gone(q.tokens, j) /\ q.tokens[j].start = q.tokens[i].start
  BY <1>1, OrderedInOrder
<1>3. \A j : Gone(q.tokens, j) => /\ q.tokens[j].kind \in FlowStarts /\ j < Len(q.tokens)
                                  /\ q.tokens[j + 1].kind \notin Nodes
  BY <1>1 DEF Gone
<1> QED
  BY <1>2, <1>3 DEF TokensInOrder, Late, StartsWithoutNode, Nodes, q

\* What has been handed out stays in order.
LEMMA KeptInOrder ==
  ASSUME TokensInOrder, Live(parser), Keeps(parser', parser)
  PROVE  TokensInOrder'
<1> DEFINE n == parser.parsed
           t == parser.tokens
           u == parser'.tokens
<1>1. n \in Nat /\ n <= Len(t) /\ Len(t) \in Nat /\ Len(u) \in Nat /\ Len(t) <= Len(u)
  BY LiveLen DEF Keeps
<1>2. parser'.parsed = n /\ \A i \in 1 .. n : u[i] = t[i]
  BY DEF Keeps
<1> HIDE DEF n, t, u
<1>3. ASSUME NEW i \in 1 .. n, \E j \in 1 .. i - 1 : u[j].start > u[i].start
      PROVE  \E j \in 1 .. i - 1 : /\ u[j].kind \in FlowStarts /\ j < Len(u)
                                   /\ u[j + 1].kind \notin {"Scalar", "Alias", "Anchor", "Tag"} \cup FlowStarts
                                   /\ u[j].start = u[i].start
  <2>1. \A j \in 1 .. i - 1 : j \in 1 .. n /\ j + 1 \in 1 .. n /\ j < Len(u)
    BY <1>1
  <2>2. \E j \in 1 .. i - 1 : t[j].start > t[i].start
    BY <1>2, <1>3, <2>1
  <2>3. PICK j \in 1 .. i - 1 : /\ t[j].kind \in FlowStarts
                                /\ t[j + 1].kind \notin {"Scalar", "Alias", "Anchor", "Tag"} \cup FlowStarts
                                /\ t[j].start = t[i].start
    BY <2>2 DEF TokensInOrder, Late, StartsWithoutNode, n, t
  <2> QED
    BY <1>2, <2>1, <2>3
<1> QED
  BY <1>2, <1>3 DEF TokensInOrder, Late, StartsWithoutNode, u

LEMMA KeptShort ==
  ASSUME KeysAreShort, Live(parser), Keeps(parser', parser), parser'.input = parser.input
  PROVE  KeysAreShort'
<1> DEFINE n == parser.parsed
           u == parser'.tokens
           s == parser.input
<1>1. n \in Nat /\ ShortKeys(s, parser.tokens, n)
  BY LiveLen, ShortIs
<1>2. parser'.parsed = n /\ \A i \in 1 .. n : u[i] = parser.tokens[i]
  BY DEF Keeps
<1>3. KeysAreShort' <=> ShortKeys(parser'.input, u, parser'.parsed)
  BY ShortNext
<1> HIDE DEF n, u, s
<1>4. ShortKeys(s, u, n)
  BY <1>1, <1>2, ShortSame
<1> QED
  BY <1>2, <1>3, <1>4 DEF s

LEMMA OrderInvStep ==
  ASSUME OrderInv, [Next]_vars
  PROVE  OrderInv'
<1>1. FirstInv /\ FirstInv' /\ ReadInv /\ ReadInv' /\ ScanInv /\ ScanInv'
  BY FirstInvStep, ReadInvStep DEF OrderInv, FirstInv
<1>2. ASSUME parser' = parser PROVE OrderInv'
  <2>1. TokensInOrder'
    BY <1>2 DEF OrderInv, TokensInOrder, Late, StartsWithoutNode
  <2>2. KeysAreShort'
    BY <1>2, ShortIs, ShortNext DEF OrderInv
  <2> QED
    BY <1>1, <1>2, <2>1, <2>2 DEF OrderInv
<1>3. ASSUME Settles(parser'), Onwards(parser') PROVE OrderInv'
  BY <1>1, <1>3, SettledInOrder, SettledShort DEF OrderInv
<1>4. ASSUME Live(parser), Keeps(parser', parser), parser'.input = parser.input, ~parser'.ok PROVE OrderInv'
  BY <1>1, <1>4, KeptInOrder, KeptShort DEF OrderInv
<1>5. CASE Call \/ Fail \/ Finished \/ UNCHANGED vars
  BY <1>2, <1>5 DEF Call, Fail, Finished, vars
<1>6. CASE FetchFirst
  <2>1. ~parser.started
    BY <1>6 DEF FetchFirst
  <2>2. parser.tokens = <<>> /\ parser.keys = <<>>
    BY <1>1, <2>1 DEF ReadInv, Unread
  <2> QED
    BY <1>1, <1>3, <1>6, <2>2, FirstOrder
<1>7. CASE Fetch
  <2>1. parser.ok /\ parser.started
    BY <1>7 DEF Fetch, Wanting
  <2>2. Tidy(parser) /\ Settles(parser) /\ Onwards(parser)
    BY <1>1, <2>1 DEF FirstInv, OrderInv
  <2>3. Spanned(parser) /\ NoNul(parser) /\ Ending(parser)
    BY <1>1, <2>1 DEF ReadInv, Unread, ReadAll
  <2>4. CASE parser'.ok
    BY <1>3, <1>7, <2>2, <2>3, <2>4, FetchOrder
  <2>5. CASE ~parser'.ok
    <3>1. parser'.input = parser.input
      <4>1. PICK p : /\ Reading(p, parser)
                     /\ \/ At(p) = "z" /\ Finishes(parser', p)
                        \/ At(p) # "z" /\ Reading(parser', p)
        BY <1>7, <2>3, FetchReads
      <4> QED
        BY <4>1 DEF Reading, Finishes
    <3> QED
      BY <1>1, <1>4, <1>7, <2>5, <3>1, FetchKeeps
  <2> QED
    BY <2>4, <2>5
<1>8. ASSUME Behind PROVE Spanned(parser) /\ parser.started
  <2>1. parser.tokens # <<>>
    <3>1. parser.parsed \in 0 .. Len(parser.tokens) /\ Len(parser.tokens) \in Nat
      BY <1>1, ListedLen DEF ScanInv, Live, Scanning
    <3> QED
      BY <1>8, <3>1 DEF Behind
  <2> QED
    BY <1>1, <2>1 DEF ReadInv, Unread
<1>9. CASE Return
  <2>1. Behind /\ parser.ok
    BY <1>9 DEF Return
  <2>2. Spanned(parser) /\ Settles(parser) /\ Onwards(parser)
    BY <1>8, <2>1 DEF OrderInv
  <2> QED
    BY <1>1, <1>3, <1>9, <2>2, ReturnOrder
<1>10. CASE LoseHead
  <2>1. Behind /\ parser' = Error(parser)
    BY <1>10 DEF LoseHead, HeadIsLost
  <2>2. Live(parser)
    BY <1>8, <2>1 DEF Spanned
  <2>3. Error(parser).input = parser.input
    BY <2>2 DEF Error, Live, Scanning
  <2> QED
    BY <1>4, <2>1, <2>2, <2>3, ErrorKeeps
<1> QED
  BY <1>5, <1>6, <1>7, <1>9, <1>10 DEF Next

LEMMA OrderInvInit ==
  ASSUME NEW text, TextIs(text), Start(text)
  PROVE  OrderInv
<1>1. FirstInv /\ ReadInv
  BY FirstInvInit, ReadInvInit
<1>2. ~parser.started /\ parser.parsed = 0
  BY DEF Start, Fresh
<1>3. TokensInOrder
  BY <1>2 DEF TokensInOrder
<1>4. KeysAreShort
  BY <1>2 DEF KeysAreShort
<1> QED
  BY <1>1, <1>2, <1>3, <1>4 DEF OrderInv

\* Tokens come in the order of the text (yaml_parser_fetch_value inserts KEY and
\* BLOCK-MAPPING-START where the key began), except behind a flow collection that
\* is a key and does not start with a node: yaml_parser_decrease_flow_level drops
\* the number by which the queue's head would have waited for it.
THEOREM TokensKeepOrder == Spec => []TokensInOrder
<1>1. Init => OrderInv
  BY OrderInvInit, TextsAreText DEF Init, TextIs, TextLike
<1>2. OrderInv => TokensInOrder
  BY DEF OrderInv
<1> QED
  BY <1>1, <1>2, OrderInvStep, PTL DEF Spec

\* A key without '?' has its ':' on its own line and within SimpleKeyLimit
\* characters (yaml_simple_key_is_valid), however long its token waits in the
\* queue while a candidate of an outer level is open: the value that is found is
\* that of the candidate of its own flow level, which was not stale.
THEOREM KeysStayShort == Spec => []KeysAreShort
<1>1. Init => OrderInv
  BY OrderInvInit, TextsAreText DEF Init, TextIs, TextLike
<1>2. OrderInv => KeysAreShort
  BY DEF OrderInv
<1> QED
  BY <1>1, <1>2, OrderInvStep, PTL DEF Spec

\* All of it holds when the indentation rule reads the stream as well
\* (Scanner.Next as yamllint calls it).
THEOREM RuleReadsOnly ==
  IndentSpec =>
    HandedOutStays /\ [](OpensWithItsFirst /\ TypeOK /\ NothingSkipped /\ TokensInOrder /\ KeysAreShort)
<1>1. IndentInit => OrderInv
  BY OrderInvInit, TextsAreText DEF IndentInit, IndentStart, TextIs, TextLike
<1>2. [IndentNext]_indentVars => [Next]_vars
  BY DEF IndentNext, Scan, Check, IndentFinished, Next, indentVars, vars
<1>3. OrderInv => ScanInv /\ OpensWithItsFirst /\ ReadInv /\ TokensInOrder /\ KeysAreShort
  BY DEF OrderInv, FirstInv
<1>4. ScanInv /\ [Next]_vars => [IsPrefix(Delivered(parser), Delivered(parser'))]_vars
  BY ScanStep
<1> QED
  BY <1>1, <1>2, <1>3, <1>4, OrderInvStep, ReadInvBounds, ReadInvSkips,
     PTL DEF IndentSpec, HandedOutStays

-----------------------------------------------------------------------------
(* The stack of the indentation rule.                                      *)

\* A stack of parents: the root, and what StackShape says of those above it.
Stacked(s) ==
  /\ s \in Seq({s[n] : n \in DOMAIN s}) /\ Len(s) # 0
  /\ \A n \in DOMAIN s :
       LET typ == s[n].typ
           below == IF n = 1 THEN "none" ELSE s[n - 1].typ
       IN /\ (typ = "ROOT") = (n = 1)
          /\ typ = "BENT" => below = "BSEQ"
          /\ typ = "VAL" => below = "KEY"

RuleInv(r) == {"stack", "problems"} \subseteq DOMAIN r /\ Stacked(r.stack)

\* A state of the rule that reports what another does.
Follows(q, r) == RuleInv(q) /\ q.problems = r.problems

\* May lie on the top of a stack: a parent of this type.
Fits(r, typ) ==
  /\ typ # "ROOT"
  /\ typ = "BENT" => Top(r).typ = "BSEQ"
  /\ typ = "VAL" => Top(r).typ = "KEY"

LEMMA StackedLen ==
  ASSUME NEW s, Stacked(s)
  PROVE  Len(s) \in Nat /\ Len(s) >= 1 /\ DOMAIN s = 1 .. Len(s) /\ Last(s) = s[Len(s)]
BY DEF Stacked, Last

-----------------------------------------------------------------------------
(* Putting a parent on the stack.                                          *)

LEMMA AppendStacked ==
  ASSUME NEW s, Stacked(s), NEW e, e.typ # "ROOT",
         e.typ = "BENT" => Last(s).typ = "BSEQ", e.typ = "VAL" => Last(s).typ = "KEY"
  PROVE  Stacked(Append(s, e)) /\ Last(Append(s, e)) = e
<1> DEFINE S == {s[n] : n \in DOMAIN s}
           t == Append(s, e)
<1>1. s \in Seq(S) /\ Len(s) \in Nat /\ Len(s) >= 1 /\ DOMAIN s = 1 .. Len(s) /\ Last(s) = s[Len(s)]
  BY StackedLen DEF Stacked
<1>2. s \in Seq(S \cup {e}) /\ e \in S \cup {e}
  BY <1>1
<1> HIDE DEF S
<1>3. t \in Seq(S \cup {e}) /\ Len(t) = Len(s) + 1 /\ DOMAIN t = 1 .. Len(s) + 1 /\ t[Len(s) + 1] = e
  BY <1>1, <1>2
<1>4. \A n \in 1 .. Len(s) : t[n] = s[n]
  BY <1>1, <1>2
<1>5. t \in Seq({t[n] : n \in DOMAIN t})
  BY <1>3
<1>6. Last(t) = e
  BY <1>3 DEF Last
<1> HIDE DEF t
<1>7. ASSUME NEW n \in DOMAIN t
      PROVE  LET typ == t[n].typ
                 below == IF n = 1 THEN "none" ELSE t[n - 1].typ
             IN /\ (typ = "ROOT") = (n = 1)
                /\ typ = "BENT" => below = "BSEQ"
                /\ typ = "VAL" => below = "KEY"
  <2>1. CASE n = Len(s) + 1
    <3>1. t[n] = e /\ n # 1 /\ n - 1 = Len(s) /\ t[n - 1] = Last(s)
      BY <1>1, <1>3, <1>4, <2>1
    <3> QED
      BY <3>1
  <2>2. CASE n \in 1 .. Len(s)
    <3>1. t[n] = s[n] /\ n \in DOMAIN s /\ (n # 1 => t[n - 1] = s[n - 1])
      BY <1>1, <1>4, <2>2
    <3> QED
      BY <3>1 DEF Stacked
  <2> QED
    BY <1>1, <1>3, <2>1, <2>2
<1>8. Len(t) # 0
  BY <1>1, <1>3
<1>9. Stacked(t)
  BY <1>5, <1>7, <1>8 DEF Stacked
<1> QED
  BY <1>6, <1>9 DEF t

LEMMA PushInv ==
  ASSUME NEW r, RuleInv(r), NEW parent, Fits(r, parent.typ)
  PROVE  Follows(Push(r, parent), r) /\ Top(Push(r, parent)) = parent
<1>1. Stacked(Append(r.stack, parent)) /\ Last(Append(r.stack, parent)) = parent
  BY AppendStacked DEF RuleInv, Fits, Top
<1>2. /\ Push(r, parent).stack = Append(r.stack, parent) /\ DOMAIN Push(r, parent) = DOMAIN r
      /\ Push(r, parent).problems = r.problems
  BY DEF Push, RuleInv
<1> QED
  BY <1>1, <1>2 DEF RuleInv, Follows, Top

LEMMA ParentTyp ==
  ASSUME NEW typ, NEW indent, NEW x
  PROVE  /\ Parent(typ, indent).typ = typ
         /\ [Parent(typ, indent) EXCEPT !.indent = x].typ = typ
         /\ [Parent(typ, indent) EXCEPT !.line = x].typ = typ
         /\ [Parent(typ, indent) EXCEPT !.explicit = x].typ = typ
         /\ [Parent(typ, indent) EXCEPT !.implicit = x].typ = typ
         /\ [[Parent(typ, indent) EXCEPT !.line = x] EXCEPT !.indent = x].typ = typ
BY DEF Parent

\* The stack of a state of the rule is that of another.
SameStack(q, r) == q.stack = r.stack /\ DOMAIN q = DOMAIN r

LEMMA SameStackInv ==
  ASSUME NEW r, NEW q, RuleInv(r), SameStack(q, r)
  PROVE  RuleInv(q) /\ Top(q) = Top(r)
BY DEF RuleInv, SameStack, Top

LEMMA SettleKeeps ==
  ASSUME NEW r, NEW base, NEW token, RuleInv(r)
  PROVE  SameStack(Settle(r, base, token), r) /\ Settle(r, base, token).problems = r.problems
BY DEF Settle, SameStack, RuleInv

LEMMA ComplainKeeps ==
  ASSUME NEW r, NEW token, NEW what
  PROVE  SameStack(Complain(r, token, what), r)
BY DEF Complain, SameStack

LEMMA AssertionInv ==
  ASSUME NEW r, NEW token, RuleInv(r)
  PROVE  RuleInv(Assertion(r, token))
BY ComplainKeeps, SameStackInv DEF Assertion

LEMMA DetectedInv ==
  ASSUME NEW r, RuleInv(r), NEW parent, NEW base, NEW token, Fits(r, parent.typ)
  PROVE  Follows(PushDetected(r, parent, base, token), r)
<1> DEFINE q == Settle(r, base, token)
           p == [parent EXCEPT !.indent = base + q.spaces]
<1>1. RuleInv(q) /\ Top(q) = Top(r) /\ q.problems = r.problems
  BY SettleKeeps, SameStackInv
<1>2. p.typ = parent.typ
  OBVIOUS
<1>3. Fits(q, p.typ)
  BY <1>1, <1>2 DEF Fits
<1>4. PushDetected(r, parent, base, token) = Push(q, p)
  BY DEF PushDetected
<1> HIDE DEF p, q
<1> QED
  BY <1>1, <1>3, <1>4, PushInv DEF Follows

-----------------------------------------------------------------------------
(* What each token does before it opens or closes anything.                *)

LEMMA JudgeInv ==
  ASSUME NEW r, NEW token, RuleInv(r)
  PROVE  RuleInv(Judge(r, token)) /\ Top(Judge(r, token)) = Top(r)
<1>1. PICK q, s : /\ SameStack(q, r) /\ SameStack(s, q)
                  /\ \/ Judge(r, token) = r
                     \/ Judge(r, token) = [s EXCEPT !.curLineIndent = StartColumn(token)]
  <2> DEFINE top == Top(r)
             closes == token.kind \in FlowEnds
             underKey == ~closes /\ top.typ = "KEY" /\ top.explicit /\ token.kind # "Value"
             q == IF underKey THEN Settle(r, top.indent, token) ELSE r
             expected == IF closes THEN top.line
                         ELSE IF underKey THEN top.indent + q.spaces ELSE top.indent
             found == StartColumn(token)
             s == IF found = expected THEN q ELSE Complain(q, token, "wrong indentation")
  <2>1. SameStack(q, r)
    BY SettleKeeps DEF SameStack
  <2>2. SameStack(s, q)
    BY ComplainKeeps DEF SameStack
  <2>3. \/ Judge(r, token) = r
        \/ Judge(r, token) = [s EXCEPT !.curLineIndent = StartColumn(token)]
    BY DEF Judge
  <2> HIDE DEF q, s
  <2> QED
    BY <2>1, <2>2, <2>3
<1>2. SameStack([s EXCEPT !.curLineIndent = StartColumn(token)], s)
  BY DEF SameStack
<1> QED
  BY <1>1, <1>2, SameStackInv DEF SameStack

LEMMA PassedInv ==
  ASSUME NEW r, NEW token, RuleInv(r)
  PROVE  RuleInv(Passed(r, token)) /\ Top(Passed(r, token)) = Top(r) /\ Passed(r, token).problems = r.problems
<1>1. SameStack(Passed(r, token), r) /\ Passed(r, token).problems = r.problems
  BY DEF Passed, SameStack, RuleInv
<1> QED
  BY <1>1, SameStackInv

-----------------------------------------------------------------------------
(* What a token opens.                                                     *)

LEMMA PushFlowInv ==
  ASSUME NEW r, NEW w, NEW typ \in {"FMAP", "FSEQ"}, RuleInv(r)
  PROVE  Follows(PushFlow(r, w, typ), r)
<1> DEFINE parent == [Parent(typ, StartColumn(w.next)) EXCEPT !.line = r.curLineIndent]
<1>1. Fits(r, parent.typ)
  BY ParentTyp DEF Fits
<1>2. Follows(Push(r, parent), r) /\ Follows(PushDetected(r, parent, r.curLineIndent, w.next), r)
  <2> HIDE DEF parent
  <2> QED
    BY <1>1, PushInv, DetectedInv
<1> QED
  BY <1>2 DEF PushFlow

LEMMA PushEntryInv ==
  ASSUME NEW r, NEW w, RuleInv(r)
  PROVE  Follows(PushEntry(r, w), r)
<1> DEFINE column == StartColumn(w.curr)
           implied == [Parent("BSEQ", column) EXCEPT !.implicit = TRUE]
           q == IF Top(r).typ = "BSEQ" THEN r ELSE Push(r, implied)
           there == Parent("BENT", StartColumn(w.next))
           further == Parent("BENT", 0)
<1>1. implied.typ = "BSEQ" /\ there.typ = "BENT" /\ further.typ = "BENT"
  BY ParentTyp
<1>2. Follows(q, r) /\ Top(q).typ = "BSEQ"
  <2>1. CASE Top(r).typ = "BSEQ"
    BY <2>1 DEF Follows
  <2>2. CASE Top(r).typ # "BSEQ"
    <3> HIDE DEF implied
    <3>1. Fits(r, implied.typ)
      BY <1>1 DEF Fits
    <3> QED
      BY <1>1, <2>2, <3>1, PushInv
  <2> QED
    BY <2>1, <2>2
<1> HIDE DEF q, there, further
<1>3. Fits(q, there.typ) /\ Fits(q, further.typ)
  BY <1>1, <1>2 DEF Fits
<1>4. Follows(Push(q, there), q) /\ Follows(PushDetected(q, further, column, w.next), q)
  <2> HIDE DEF column
  <2> QED
    BY <1>2, <1>3, PushInv, DetectedInv DEF Follows
<1>5. PushEntry(r, w) \in {Push(q, there), PushDetected(q, further, column, w.next)}
  BY DEF PushEntry, q, there, further
<1> QED
  BY <1>2, <1>4, <1>5 DEF Follows

LEMMA PushKeyInv ==
  ASSUME NEW r, NEW w, RuleInv(r)
  PROVE  Follows(PushKey(r, w), r)
<1> DEFINE parent == [Parent("KEY", Top(r).indent) EXCEPT !.explicit = IsExplicitKey(w.curr)]
<1>1. Fits(r, parent.typ)
  BY ParentTyp DEF Fits
<1>2. Follows(Push(r, parent), r)
  <2> HIDE DEF parent
  <2> QED
    BY <1>1, PushInv
<1> QED
  BY <1>2 DEF PushKey

\* A parent VAL is put on a key, with a column that is known or detected.
LEMMA ValueInv ==
  ASSUME NEW r, RuleInv(r), Top(r).typ = "KEY", NEW indent, NEW base, NEW token
  PROVE  /\ Follows(Push(r, Parent("VAL", indent)), r)
         /\ Follows(PushDetected(r, Parent("VAL", indent), base, token), r)
<1> DEFINE parent == Parent("VAL", indent)
<1>1. Fits(r, parent.typ)
  BY ParentTyp DEF Fits
<1> HIDE DEF parent
<1>2. Follows(Push(r, parent), r) /\ Follows(PushDetected(r, parent, base, token), r)
  BY <1>1, PushInv, DetectedInv
<1> QED
  BY <1>2 DEF parent

LEMMA PushSequenceInv ==
  ASSUME NEW r, NEW next, RuleInv(r), Top(r).typ = "KEY"
  PROVE  Follows(PushSequence(r, next), r)
<1> DEFINE parent == Top(r).indent
           level == StartColumn(next) = parent
           q == IF r.sequences = "consistent"
                THEN [r EXCEPT !.sequences = IF level THEN "false" ELSE "true"] ELSE r
<1>1. SameStack(q, r) /\ q.problems = r.problems
  BY DEF SameStack, RuleInv
<1>2. PushSequence(r, next) \in {Push(q, Parent("VAL", parent)), Push(r, Parent("VAL", -1)),
                                 PushDetected(q, Parent("VAL", 0), parent, next)}
  BY DEF PushSequence
<1> HIDE DEF q, parent
<1>3. RuleInv(q) /\ q.problems = r.problems /\ Top(q).typ = "KEY"
  BY <1>1, SameStackInv
<1>4. /\ Follows(Push(q, Parent("VAL", parent)), q) /\ Follows(Push(r, Parent("VAL", -1)), r)
      /\ Follows(PushDetected(q, Parent("VAL", 0), parent, next), q)
  BY <1>3, ValueInv
<1> QED
  BY <1>2, <1>3, <1>4 DEF Follows

LEMMA PushValueInv ==
  ASSUME NEW r, NEW w, RuleInv(r), Top(r).typ = "KEY"
  PROVE  Follows(PushValue(r, w), r)
<1> DEFINE next == w.next
<1>1. PushValue(r, w) \in {r, PushDetected(r, Parent("VAL", 0), Top(r).indent, next),
                           Push(r, Parent("VAL", StartColumn(next))), PushSequence(r, next)}
  BY DEF PushValue
<1> HIDE DEF next
<1>2. /\ Follows(PushDetected(r, Parent("VAL", 0), Top(r).indent, next), r)
      /\ Follows(Push(r, Parent("VAL", StartColumn(next))), r)
      /\ Follows(PushSequence(r, next), r)
  BY ValueInv, PushSequenceInv
<1> QED
  BY <1>1, <1>2 DEF Follows

\* A value opens nothing but on a key: checkToken asks for that before.
LEMMA OpenInv ==
  ASSUME NEW r, NEW w, RuleInv(r), w.curr.kind = "Value" => Top(r).typ = "KEY"
  PROVE  Follows(Open(r, w), r)
<1> DEFINE map == Parent("BMAP", StartColumn(w.curr))
           seq == Parent("BSEQ", StartColumn(w.curr))
<1>1. Fits(r, map.typ) /\ Fits(r, seq.typ)
  BY ParentTyp DEF Fits
<1>2. Follows(Push(r, map), r) /\ Follows(Push(r, seq), r)
  <2> HIDE DEF map, seq
  <2> QED
    BY <1>1, PushInv
<1>3. CASE w.curr.kind = "Value"
  <2>1. Open(r, w) = PushValue(r, w)
    BY <1>3 DEF Open
  <2> QED
    BY <1>3, <2>1, PushValueInv
<1>4. CASE w.curr.kind # "Value"
  <2>1. Open(r, w) \in {r, Push(r, map), Push(r, seq), PushFlow(r, w, "FMAP"),
                        PushFlow(r, w, "FSEQ"), PushEntry(r, w), PushKey(r, w)}
    BY <1>4 DEF Open
  <2> QED
    BY <1>2, <2>1, PushFlowInv, PushEntryInv, PushKeyInv DEF Follows
<1> QED
  BY <1>3, <1>4

-----------------------------------------------------------------------------
(* What a token ends.                                                      *)

\* What the loop may leave: some of the stack.
Left(s) == [height : 1 .. Len(s), consumed : BOOLEAN]

\* A turn takes off one parent that is not the root, or two with a third below.
LEMMA UnstackLeaves ==
  ASSUME NEW s, Stacked(s), NEW w, NEW left \in Left(s)
  PROVE  Unstack(s, w, left) \in Left(s)
<1> DEFINE n == left.height
<1>1. n \in 1 .. Len(s) /\ left.consumed \in BOOLEAN /\ n \in DOMAIN s
  BY StackedLen DEF Left
<1>2. /\ (s[n].typ = "ROOT") = (n = 1)
      /\ s[n].typ = "BENT" => n # 1 /\ s[n - 1].typ = "BSEQ"
      /\ s[n].typ = "VAL" => n # 1 /\ s[n - 1].typ = "KEY"
  BY <1>1 DEF Stacked
<1>3. n # 1 => (s[n - 1].typ = "ROOT") = (n - 1 = 1)
  <2>1. n # 1 => n - 1 \in DOMAIN s
    BY <1>1, StackedLen
  <2> QED
    BY <1>1, <2>1 DEF Stacked
<1>4. Len(s) \in Nat
  BY StackedLen
<1>5. n # 1 => [height |-> n - 1, consumed |-> TRUE] \in Left(s)
               /\ [height |-> n - 1, consumed |-> left.consumed] \in Left(s)
  BY <1>1, <1>4 DEF Left
<1>6. n > 2 => [height |-> n - 2, consumed |-> left.consumed] \in Left(s)
  BY <1>1, <1>4 DEF Left
<1>7. \/ Unstack(s, w, left) = left
      \/ /\ s[n].typ \in {"FSEQ", "FMAP", "BMAP", "BSEQ", "BENT", "KEY"}
         /\ Unstack(s, w, left) \in {[height |-> n - 1, consumed |-> TRUE],
                                     [height |-> n - 1, consumed |-> left.consumed]}
      \/ /\ s[n].typ \in {"BENT", "VAL"}
         /\ Unstack(s, w, left) = [height |-> n - 2, consumed |-> left.consumed]
  BY DEF Unstack
<1>8. s[n].typ \in {"BENT", "VAL"} => n > 2
  BY <1>1, <1>2, <1>3, <1>4
<1> QED
  BY <1>2, <1>5, <1>6, <1>7, <1>8

\* The loop of Close.
Loop(s, w, n, left) ==
  left = [turns \in 0 .. n |->
            IF turns = 0 THEN [height |-> Len(s), consumed |-> FALSE]
            ELSE Unstack(s, w, left[turns - 1])]

LEMMA LoopExists ==
  ASSUME NEW s, Stacked(s), NEW w
  PROVE  \E left : Loop(s, w, Len(s), left)
<1> DEFINE D == Left(s)
           base == [height |-> Len(s), consumed |-> FALSE]
           h == [left \in D |-> Unstack(s, w, left)]
<1>1. Len(s) \in Nat /\ Len(s) >= 1
  BY StackedLen
<1>2. base \in D
  BY <1>1 DEF Left
<1>3. h \in [D -> D]
  BY UnstackLeaves
<1>4. Iterates(D, base, h)
  <2> HIDE DEF D, base, h
  <2> QED
    BY <1>2, <1>3, NatRecursion
<1>5. PICK W \in [Nat -> D] : W[0] = base /\ \A n \in Nat : W[n + 1] = h[W[n]]
  BY <1>4 DEF Iterates
<1> DEFINE left == [turns \in 0 .. Len(s) |-> W[turns]]
<1>6. ASSUME NEW turns \in 0 .. Len(s)
      PROVE  left[turns] = IF turns = 0 THEN base ELSE Unstack(s, w, left[turns - 1])
  <2>1. CASE turns = 0
    BY <1>1, <1>5, <2>1
  <2>2. CASE turns # 0
    <3>1. turns - 1 \in Nat /\ turns - 1 \in 0 .. Len(s) /\ (turns - 1) + 1 = turns
      BY <1>1, <2>2
    <3>2. W[turns] = h[W[turns - 1]] /\ W[turns - 1] \in D
      BY <1>5, <3>1
    <3>3. h[W[turns - 1]] = Unstack(s, w, W[turns - 1])
      BY <3>2
    <3> QED
      BY <2>2, <3>1, <3>2, <3>3
  <2> QED
    BY <2>1, <2>2
<1>7. Loop(s, w, Len(s), left)
  <2>1. left = [turns \in 0 .. Len(s) |-> left[turns]]
    OBVIOUS
  <2> HIDE DEF left, h
  <2> QED
    BY <1>6, <2>1 DEF Loop
<1> HIDE DEF left
<1> QED
  BY <1>7

LEMMA LoopLeaves ==
  ASSUME NEW s, Stacked(s), NEW w, NEW left, Loop(s, w, Len(s), left)
  PROVE  left[Len(s)] \in Left(s)
<1> DEFINE N == {n \in Nat : n <= Len(s) => left[n] \in Left(s)}
<1>1. Len(s) \in Nat /\ Len(s) >= 1
  BY StackedLen
<1>2. 0 \in N
  <2>1. left[0] = [height |-> Len(s), consumed |-> FALSE]
    BY <1>1 DEF Loop
  <2>2. [height |-> Len(s), consumed |-> FALSE] \in Left(s)
    BY <1>1 DEF Left
  <2> QED
    BY <2>1, <2>2
<1>3. ASSUME NEW n \in Nat, n \in N PROVE n + 1 \in N
  <2>1. SUFFICES ASSUME n + 1 <= Len(s) PROVE left[n + 1] \in Left(s)
    OBVIOUS
  <2>2. left[n] \in Left(s)
    BY <1>1, <1>3, <2>1
  <2>3. n + 1 \in 0 .. Len(s) /\ n + 1 # 0 /\ (n + 1) - 1 = n
    BY <1>1, <2>1
  <2>4. left[n + 1] = Unstack(s, w, left[n])
    BY <2>3 DEF Loop
  <2> QED
    BY <2>2, <2>4, UnstackLeaves
<1>4. Nat \subseteq N
  <2> HIDE DEF N
  <2> QED
    BY <1>2, <1>3, NatSetInduction
<1> QED
  BY <1>1, <1>4

\* What the loop leaves of a stack is a stack.
LEMMA PrefixStacked ==
  ASSUME NEW s, Stacked(s), NEW n \in 1 .. Len(s)
  PROVE  Stacked(SubSeq(s, 1, n))
<1> DEFINE S == {s[m] : m \in DOMAIN s}
           t == SubSeq(s, 1, n)
<1>1. s \in Seq(S) /\ Len(s) \in Nat /\ DOMAIN s = 1 .. Len(s)
  BY StackedLen DEF Stacked
<1> HIDE DEF S
<1>2. t \in Seq(S) /\ Len(t) = n /\ DOMAIN t = 1 .. n /\ \A m \in 1 .. n : t[m] = s[m]
  BY <1>1
<1> HIDE DEF t
<1>3. t \in Seq({t[m] : m \in DOMAIN t}) /\ Len(t) # 0
  BY <1>2
<1>4. ASSUME NEW m \in DOMAIN t
      PROVE  LET typ == t[m].typ
                 below == IF m = 1 THEN "none" ELSE t[m - 1].typ
             IN /\ (typ = "ROOT") = (m = 1)
                /\ typ = "BENT" => below = "BSEQ"
                /\ typ = "VAL" => below = "KEY"
  <2>1. m \in DOMAIN s /\ t[m] = s[m] /\ (m # 1 => t[m - 1] = s[m - 1])
    BY <1>1, <1>2
  <2> QED
    BY <2>1 DEF Stacked
<1>5. Stacked(t)
  BY <1>3, <1>4 DEF Stacked
<1> QED
  BY <1>5 DEF t

\* Turn by turn the loop comes to its end: it has Len(s) turns, and takes
\* something off in each until then.
LEMMA LoopEnds ==
  ASSUME NEW s, Stacked(s), NEW w, NEW left, Loop(s, w, Len(s), left)
  PROVE  Unstack(s, w, left[Len(s)]) = left[Len(s)]
<1> DEFINE Ended(n) == Unstack(s, w, left[n]) = left[n]
           N == {n \in Nat : n <= Len(s) => /\ left[n] \in Left(s)
                                            /\ Ended(n) \/ left[n].height + n <= Len(s)}
<1>1. Len(s) \in Nat /\ Len(s) >= 1
  BY StackedLen
<1>2. 0 \in N
  <2>1. left[0] = [height |-> Len(s), consumed |-> FALSE]
    BY <1>1 DEF Loop
  <2>2. [height |-> Len(s), consumed |-> FALSE] \in Left(s)
    BY <1>1 DEF Left
  <2>3. left[0].height + 0 <= Len(s)
    BY <1>1, <2>1
  <2> QED
    BY <2>1, <2>2, <2>3
<1>3. ASSUME NEW n \in Nat, n \in N PROVE n + 1 \in N
  <2>1. SUFFICES ASSUME n + 1 <= Len(s)
                 PROVE  left[n + 1] \in Left(s) /\ (Ended(n + 1) \/ left[n + 1].height + (n + 1) <= Len(s))
    OBVIOUS
  <2>2. left[n] \in Left(s) /\ (Ended(n) \/ left[n].height + n <= Len(s))
    BY <1>1, <1>3, <2>1
  <2>3. n + 1 \in 0 .. Len(s) /\ n + 1 # 0 /\ (n + 1) - 1 = n
    BY <1>1, <2>1
  <2>4. left[n + 1] = Unstack(s, w, left[n])
    BY <2>3 DEF Loop
  <2>5. left[n + 1] \in Left(s)
    BY <2>2, <2>4, UnstackLeaves
  <2>6. CASE Ended(n)
    BY <2>4, <2>5, <2>6
  <2>7. CASE ~Ended(n)
    <3>1. left[n + 1].height \in {left[n].height - 1, left[n].height - 2}
      BY <2>4, <2>7 DEF Unstack
    <3>2. left[n].height \in Int
      BY <1>1, <2>2 DEF Left
    <3> QED
      BY <1>1, <2>2, <2>5, <2>7, <3>1, <3>2
  <2> QED
    BY <2>6, <2>7
<1>4. Nat \subseteq N
  <2> HIDE DEF N
  <2> QED
    BY <1>2, <1>3, NatSetInduction
<1>5. left[Len(s)] \in Left(s) /\ (Ended(Len(s)) \/ left[Len(s)].height + Len(s) <= Len(s))
  BY <1>1, <1>4
<1>6. left[Len(s)].height >= 1 /\ left[Len(s)].height \in Int
  BY <1>1, <1>5 DEF Left
<1> QED
  BY <1>1, <1>5, <1>6

\* Close takes parents off the stack and does nothing else: it never has to
\* report that a value does not lie on its key.
LEMMA CloseTruncates ==
  ASSUME NEW r, NEW w, RuleInv(r)
  PROVE  \E n \in 1 .. Len(r.stack) : Close(r, w) = [r EXCEPT !.stack = SubSeq(@, 1, n)]
<1> DEFINE left == CHOOSE left : Loop(r.stack, w, Len(r.stack), left)
           last == left[Len(r.stack)]
           q == [r EXCEPT !.stack = SubSeq(@, 1, last.height)]
<1>1. Stacked(r.stack) /\ "stack" \in DOMAIN r /\ Len(r.stack) \in Nat
  BY StackedLen DEF RuleInv
<1>2. Loop(r.stack, w, Len(r.stack), left)
  BY <1>1, LoopExists
<1>3. Close(r, w) = IF Top(q).typ = "VAL" /\ w.curr.kind \notin {"Value", "Anchor", "Tag"}
                    THEN Assertion(q, w.curr) ELSE q
  BY DEF Close, Loop
<1> HIDE DEF left
<1>4. last \in Left(r.stack) /\ Unstack(r.stack, w, last) = last
  BY <1>1, <1>2, LoopLeaves, LoopEnds
<1> HIDE DEF last
<1> DEFINE n == last.height
<1>5. n \in 1 .. Len(r.stack) /\ n \in DOMAIN r.stack
  BY <1>1, <1>4, StackedLen DEF Left
<1>6. q.stack = SubSeq(r.stack, 1, n)
  BY <1>1
<1>7. Top(q) = r.stack[n]
  <2>1. Stacked(SubSeq(r.stack, 1, n))
    BY <1>1, <1>5, PrefixStacked
  <2>2. Len(SubSeq(r.stack, 1, n)) = n /\ SubSeq(r.stack, 1, n)[n] = r.stack[n]
    BY <1>1, <1>5 DEF Stacked
  <2> HIDE DEF q
  <2> QED
    BY <1>6, <2>2 DEF Top, Last
<1>8. ~(r.stack[n].typ = "VAL" /\ w.curr.kind \notin {"Value", "Anchor", "Tag"})
  <2> SUFFICES ASSUME r.stack[n].typ = "VAL", w.curr.kind \notin {"Value", "Anchor", "Tag"}
               PROVE  FALSE
    OBVIOUS
  <2>1. r.stack[n - 1].typ = "KEY"
    BY <1>1, <1>5 DEF Stacked
  <2>2. Unstack(r.stack, w, last).height = n - 2
    BY <2>1 DEF Unstack
  <2> QED
    BY <1>1, <1>4, <1>5, <2>2
<1>9. Close(r, w) = q
  <2> HIDE DEF q
  <2> QED
    BY <1>3, <1>7, <1>8
<1> QED
  BY <1>5, <1>9

LEMMA CloseInv ==
  ASSUME NEW r, NEW w, RuleInv(r)
  PROVE  Follows(Close(r, w), r)
<1>1. PICK n \in 1 .. Len(r.stack) : Close(r, w) = [r EXCEPT !.stack = SubSeq(@, 1, n)]
  BY CloseTruncates
<1>2. Stacked(SubSeq(r.stack, 1, n)) /\ {"stack", "problems"} \subseteq DOMAIN r
  BY <1>1, PrefixStacked DEF RuleInv
<1>3. /\ Close(r, w).stack = SubSeq(r.stack, 1, n) /\ DOMAIN Close(r, w) = DOMAIN r
      /\ Close(r, w).problems = r.problems
  BY <1>1, <1>2
<1> QED
  BY <1>2, <1>3 DEF RuleInv, Follows

\* The token is not one at which the rule gives up: one that nothing follows,
\* a block that does not open on its line, a value that is on no key.
Answerable(r, w) ==
  ~Truncated(w) /\ ~OpensWrongly(w) /\ (w.curr.kind = "Value" => Top(r).typ = "KEY")

LEMMA CheckInv ==
  ASSUME NEW r, NEW i, RuleInv(r)
  PROVE  LET w == Window(i)
         IN /\ RuleInv(CheckToken(r, w))
            /\ Answerable(r, w) => CheckToken(r, w).problems = Judge(r, w.curr).problems
<1> DEFINE w == Window(i)
           v == PastProperty(w)
           j == Judge(r, w.curr)
           q == Passed(j, w.curr)
<1>1. RuleInv(j) /\ Top(j) = Top(r)
  BY JudgeInv
<1>2. RuleInv(q) /\ Top(q) = Top(r) /\ q.problems = j.problems
  <2> HIDE DEF j
  <2> QED
    BY <1>1, PassedInv
<1>3. CheckToken(r, w) = IF Truncated(w) THEN Assertion(r, w.curr)
                         ELSE IF OpensWrongly(w) \/ (w.curr.kind = "Value" /\ Top(q).typ # "KEY")
                         THEN Assertion(q, w.curr)
                         ELSE Close(Open(q, v), v)
  BY DEF CheckToken
<1>4. v.curr = w.curr
  <2>1. w = [curr |-> TokenAt(i), prev |-> TokenAt(i - 1), next |-> TokenAt(i + 1), nextnext |-> TokenAt(i + 2)]
    BY DEF Window
  <2>2. v = w \/ v = [w EXCEPT !.next = w.nextnext]
    BY DEF PastProperty
  <2> QED
    BY <2>1, <2>2
<1> HIDE DEF q, j, v, w
<1>5. RuleInv(Assertion(r, w.curr)) /\ RuleInv(Assertion(q, w.curr))
  BY <1>2, AssertionInv
<1>6. CASE w.curr.kind = "Value" => Top(q).typ = "KEY"
  <2>1. Follows(Open(q, v), q)
    BY <1>2, <1>4, <1>6, OpenInv
  <2>2. Follows(Close(Open(q, v), v), Open(q, v))
    BY <2>1, CloseInv DEF Follows
  <2> QED
    BY <1>2, <1>3, <1>5, <1>6, <2>1, <2>2 DEF Follows, Answerable, j, w
<1>7. CASE w.curr.kind = "Value" /\ Top(q).typ # "KEY"
  BY <1>2, <1>3, <1>5, <1>7 DEF Answerable, w
<1> QED
  BY <1>6, <1>7 DEF w

-----------------------------------------------------------------------------
LEMMA StackInit ==
  ASSUME IndentInit
  PROVE  RuleInv(rule)
<1>1. PICK text \in Texts, spaces \in Spaces, sequences \in Sequences :
        rule = FreshRule(spaces, sequences)
  BY DEF IndentInit, IndentStart
<1> DEFINE s == <<Parent("ROOT", 0)>>
<1>2. rule.stack = s /\ {"stack", "problems"} \subseteq DOMAIN rule
  BY <1>1 DEF FreshRule
<1>3. Len(s) = 1 /\ DOMAIN s = {1} /\ s[1].typ = "ROOT"
  BY ParentTyp
<1>4. s \in Seq({s[n] : n \in DOMAIN s})
  BY <1>3
<1>5. Stacked(s)
  <2> HIDE DEF s
  <2> QED
    BY <1>3, <1>4 DEF Stacked
<1> HIDE DEF s
<1> QED
  BY <1>2, <1>5 DEF RuleInv

LEMMA StackStep ==
  ASSUME RuleInv(rule), [IndentNext]_indentVars
  PROVE  RuleInv(rule)'
<1>1. CASE Check
  <2>1. rule' = CheckToken(rule, Window(checked + 1))
    BY <1>1 DEF Check
  <2>2. RuleInv(CheckToken(rule, Window(checked + 1)))
    BY CheckInv
  <2> QED
    BY <2>1, <2>2 DEF RuleInv, Stacked
<1>2. CASE Scan
  <2>1. rule' = rule
    BY <1>2 DEF Scan
  <2> QED
    BY <2>1 DEF RuleInv, Stacked
<1>3. CASE IndentFinished \/ UNCHANGED indentVars
  <2>1. rule' = rule
    BY <1>3 DEF IndentFinished, indentVars
  <2> QED
    BY <2>1 DEF RuleInv, Stacked
<1> QED
  BY <1>1, <1>2, <1>3 DEF IndentNext

\* Whatever the tokens, an entry lies on its sequence and a value on its key
\* at every moment, and the root is never taken off: looking at the parent
\* below the top and taking two off at once stays inside the stack
\* (checkToken, indentation.go:283-315).
THEOREM StackHolds == IndentSpec => []StackShape
<1>1. RuleInv(rule) => StackShape
  BY DEF RuleInv, Stacked, StackShape
<1> QED
  BY <1>1, StackInit, StackStep, PTL DEF IndentSpec

\* The rule gives up on a token only for what stands at its head (checkToken,
\* indentation.go:181-186, 220-231 and 258-260): the assertion inside the loop,
\* that a value lies on its key (indentation.go:303-305), never fails, and what
\* a token that passes the others adds to the report is the verdict on its line.
THEOREM GivesUpAtTheHead ==
  IndentSpec => [][LET w == Window(checked + 1)
                   IN checked' # checked /\ Answerable(rule, w) =>
                        rule'.problems = Judge(rule, w.curr).problems]_indentVars
<1>1. RuleInv(rule) /\ [IndentNext]_indentVars =>
        [LET w == Window(checked + 1)
         IN checked' # checked /\ Answerable(rule, w) =>
              rule'.problems = Judge(rule, w.curr).problems]_indentVars
  <2> SUFFICES ASSUME RuleInv(rule), [IndentNext]_indentVars, checked' # checked,
                      Answerable(rule, Window(checked + 1))
               PROVE  rule'.problems = Judge(rule, Window(checked + 1).curr).problems
    OBVIOUS
  <2>1. Check
    BY DEF IndentNext, Scan, IndentFinished, indentVars
  <2>2. rule' = CheckToken(rule, Window(checked + 1))
    BY <2>1 DEF Check
  <2> QED
    BY <2>2, CheckInv
<1> QED
  BY <1>1, StackInit, StackStep, PTL DEF IndentSpec
=============================================================================
