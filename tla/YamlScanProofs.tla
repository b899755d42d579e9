----------------------------- MODULE YamlScanProofs -----------------------------
(***************************************************************************)
(* The scanner, for every text, whether it is YAML or not.                 *)
(*                                                                         *)
(* The scanner inserts tokens where a key began.  What has been handed out *)
(* stays as it is because an insertion that comes too late is appended and *)
(* because a candidate's number is always that of a token in the queue, or *)
(* of the one that comes next.                                             *)
(*                                                                         *)
(* A block begins with the token that opened it because every candidate    *)
(* aims at a node, and those of different levels at nodes one behind       *)
(* another: a KEY goes in front of its node and the mapping's start in     *)
(* front of the KEY, never between a block's start and its first token.    *)
(*                                                                         *)
(* Nothing is skipped because each scan moves on, to a place in the text,  *)
(* and between two tokens over nothing but white space and comments.       *)
(***************************************************************************)
EXTENDS YamlScan, SumProofs, SequenceTheorems

-----------------------------------------------------------------------------
(* The scanner's queue.                                                    *)

Listed(s) == s \in Seq({s[i] : i \in DOMAIN s})

\* The scanner's structure, as far as its queue of tokens depends on it: a
\* candidate key's number is that of a token in the queue, or of the next one.
Scanning(p) ==
  /\ {"input", "tokens", "parsed", "keys", "indents", "byTok", "ok", "pos", "allowed", "started", "ended"}
       \subseteq DOMAIN p
  /\ Listed(p.tokens) /\ Listed(p.keys) /\ Listed(p.indents)
  /\ p.parsed \in 0 .. Len(p.tokens)
  /\ \A level \in DOMAIN p.keys :
       /\ {"number", "possible"} \subseteq DOMAIN p.keys[level]
       /\ p.keys[level].number \in 0 .. Len(p.tokens)

\* Once it has started, it is in the document or in a flow collection.
Live(p) == Scanning(p) /\ p.keys # <<>>

\* What a step may do to the tokens: put others behind those handed out.
Keeps(q, p) ==
  /\ Live(q) /\ q.parsed = p.parsed /\ Len(q.tokens) >= Len(p.tokens)
  /\ \A i \in 1 .. p.parsed : q.tokens[i] = p.tokens[i]

LEMMA ListedIs ==
  ASSUME NEW S, NEW s \in Seq(S)
  PROVE  /\ Listed(s) /\ Len(s) \in Nat /\ DOMAIN s = 1 .. Len(s) /\ (s # <<>> <=> Len(s) >= 1)
BY DEF Listed

LEMMA ListedLen ==
  ASSUME NEW s, Listed(s)
  PROVE  Len(s) \in Nat /\ DOMAIN s = 1 .. Len(s) /\ (s # <<>> <=> Len(s) >= 1)
BY DEF Listed

LEMMA ListedAppend ==
  ASSUME NEW s, Listed(s), NEW e
  PROVE  /\ Listed(Append(s, e)) /\ Len(Append(s, e)) = Len(s) + 1 /\ Append(s, e) # <<>>
         /\ Append(s, e)[Len(s) + 1] = e /\ \A i \in 1 .. Len(s) : Append(s, e)[i] = s[i]
<1> DEFINE S == {s[i] : i \in DOMAIN s}
           t == Append(s, e)
<1>1. s \in Seq(S \cup {e}) /\ e \in S \cup {e}
  BY DEF Listed
<1> HIDE DEF S
<1>2. t \in Seq(S \cup {e}) /\ Len(t) = Len(s) + 1
  BY <1>1
<1>3. Listed(t) /\ t # <<>>
  <2> HIDE DEF t
  <2> QED
    BY <1>2, ListedIs
<1> QED
  BY <1>1, <1>2, <1>3

LEMMA ListedConcat ==
  ASSUME NEW s, Listed(s), NEW t, Listed(t)
  PROVE  /\ Listed(s \o t) /\ Len(s \o t) = Len(s) + Len(t)
         /\ \A i \in 1 .. Len(s) : (s \o t)[i] = s[i]
<1> DEFINE S == {s[i] : i \in DOMAIN s} \cup {t[i] : i \in DOMAIN t}
           u == s \o t
<1>1. s \in Seq(S) /\ t \in Seq(S)
  BY DEF Listed
<1> HIDE DEF S
<1>2. u \in Seq(S) /\ Len(u) = Len(s) + Len(t) /\ \A i \in 1 .. Len(s) : u[i] = s[i]
  BY <1>1, ConcatProperties
<1>3. Listed(u)
  <2> HIDE DEF u
  <2> QED
    BY <1>2, ListedIs
<1> QED
  BY <1>2, <1>3

LEMMA ListedPart ==
  ASSUME NEW s, Listed(s), NEW m \in 1 .. Len(s) + 1, NEW n \in m - 1 .. Len(s)
  PROVE  /\ Listed(SubSeq(s, m, n)) /\ Len(SubSeq(s, m, n)) = n - m + 1
         /\ \A i \in 1 .. n - m + 1 : SubSeq(s, m, n)[i] = s[m + i - 1]
<1> DEFINE S == {s[i] : i \in DOMAIN s}
           t == SubSeq(s, m, n)
<1>1. s \in Seq(S) /\ Len(s) \in Nat /\ DOMAIN s = 1 .. Len(s)
  BY ListedLen DEF Listed
<1>2. \A i \in m .. n : s[i] \in S
  BY <1>1
<1> HIDE DEF S
<1>3. t \in Seq(S) /\ Len(t) = n - m + 1 /\ \A i \in 1 .. n - m + 1 : t[i] = s[m + i - 1]
  BY <1>1, <1>2, SubSeqProperties
<1>4. Listed(t)
  <2> HIDE DEF t
  <2> QED
    BY <1>3, ListedIs
<1> QED
  BY <1>3, <1>4

LEMMA ListedInsert ==
  ASSUME NEW s, Listed(s), NEW i \in 1 .. Len(s) + 1, NEW e
  PROVE  /\ Listed(InsertAt(s, i, e)) /\ Len(InsertAt(s, i, e)) = Len(s) + 1
         /\ \A j \in 1 .. i - 1 : InsertAt(s, i, e)[j] = s[j]
<1> DEFINE a == SubSeq(s, 1, i - 1)
           b == SubSeq(s, i, Len(s))
           one == <<e>>
           ab == a \o one
<1>1. Len(s) \in Nat
  BY ListedLen
<1>2. Listed(a) /\ Len(a) = i - 1 /\ \A j \in 1 .. i - 1 : a[j] = s[j]
  BY <1>1, ListedPart
<1>3. Listed(b) /\ Len(b) = Len(s) - i + 1
  BY <1>1, ListedPart
<1>4. Listed(one) /\ Len(one) = 1
  BY DEF Listed
<1> HIDE DEF a, b, one
<1>5. Listed(ab) /\ Len(ab) = i /\ \A j \in 1 .. i - 1 : ab[j] = s[j]
  <2>1. Listed(ab) /\ Len(ab) = Len(a) + Len(one) /\ \A j \in 1 .. Len(a) : ab[j] = a[j]
    BY <1>2, <1>4, ListedConcat
  <2> QED
    BY <1>1, <1>2, <1>4, <2>1
<1> HIDE DEF ab
<1>6. Listed(ab \o b) /\ Len(ab \o b) = Len(s) + 1 /\ \A j \in 1 .. i - 1 : (ab \o b)[j] = s[j]
  <2>1. Listed(ab \o b) /\ Len(ab \o b) = Len(ab) + Len(b) /\ \A j \in 1 .. Len(ab) : (ab \o b)[j] = ab[j]
    BY <1>3, <1>5, ListedConcat
  <2> QED
    BY <1>1, <1>3, <1>5, <2>1
<1>7. InsertAt(s, i, e) = ab \o b
  BY DEF InsertAt, ab, a, b, one
<1> QED
  BY <1>6, <1>7

-----------------------------------------------------------------------------
(* Steps that set one field.                                               *)

LEMMA LiveLen ==
  ASSUME NEW p, Live(p)
  PROVE  /\ Len(p.tokens) \in Nat /\ Listed(p.tokens) /\ p.parsed \in 0 .. Len(p.tokens)
         /\ Len(p.keys) \in Nat /\ Len(p.keys) >= 1 /\ Listed(p.keys) /\ DOMAIN p.keys = 1 .. Len(p.keys)
         /\ Len(p.indents) \in Nat /\ Listed(p.indents)
BY ListedLen DEF Live, Scanning

LEMMA KeepsItself ==
  ASSUME NEW p, Live(p)
  PROVE  Keeps(p, p)
BY LiveLen DEF Keeps

LEMMA KeepsOn ==
  ASSUME NEW p, Live(p), NEW q, NEW r, Keeps(q, p), Keeps(r, q)
  PROVE  Keeps(r, p)
<1>1. Live(q) /\ Live(r)
  BY DEF Keeps
<1>2. Len(p.tokens) \in Nat /\ Len(q.tokens) \in Nat /\ Len(r.tokens) \in Nat
  BY <1>1, LiveLen
<1> QED
  BY <1>1, <1>2 DEF Keeps

\* Another state of the same queue, candidates and indents.
Like(q, p) ==
  /\ DOMAIN q = DOMAIN p /\ q.parsed = p.parsed
  /\ q.tokens = p.tokens /\ q.keys = p.keys /\ q.indents = p.indents

LEMMA LikeKeeps ==
  ASSUME NEW p, NEW q, Scanning(p), Like(q, p)
  PROVE  Scanning(q) /\ (Live(p) => Keeps(q, p))
<1>1. Scanning(q)
  BY DEF Like, Scanning
<1>2. ASSUME Live(p) PROVE Keeps(q, p)
  BY <1>1, <1>2, LiveLen DEF Like, Keeps, Live
<1> QED
  BY <1>1, <1>2

Put(p, field, x) == [p EXCEPT ![field] = x]

LEMMA PutLike ==
  ASSUME NEW p, Scanning(p), NEW x, NEW field \in {"ok", "pos", "allowed", "byTok", "started", "ended"}
  PROVE  Like(Put(p, field, x), p) /\ Put(p, field, x)[field] = x
BY DEF Put, Like, Scanning

LEMMA PutKeys ==
  ASSUME NEW p, Live(p), NEW keys, Listed(keys), keys # <<>>,
         \A level \in DOMAIN keys :
           {"number", "possible"} \subseteq DOMAIN keys[level] /\ keys[level].number \in 0 .. Len(p.tokens)
  PROVE  Keeps(Put(p, "keys", keys), p) /\ Put(p, "keys", keys).keys = keys
BY LiveLen DEF Put, Live, Scanning, Keeps

LEMMA PutTokens ==
  ASSUME NEW p, Live(p), NEW tokens, Listed(tokens), Len(tokens) >= Len(p.tokens),
         \A i \in 1 .. p.parsed : tokens[i] = p.tokens[i]
  PROVE  Keeps(Put(p, "tokens", tokens), p) /\ Put(p, "tokens", tokens).tokens = tokens
<1> DEFINE q == Put(p, "tokens", tokens)
<1>1. /\ DOMAIN q = DOMAIN p /\ q.tokens = tokens /\ q.parsed = p.parsed /\ q.keys = p.keys
      /\ q.indents = p.indents
  BY DEF Put, Live, Scanning
<1>2. Len(tokens) \in Nat /\ Len(p.tokens) \in Nat
  BY ListedLen DEF Live, Scanning
<1>3. Scanning(q)
  <2> HIDE DEF q
  <2>1. p.parsed \in 0 .. Len(tokens)
    BY <1>2 DEF Live, Scanning
  <2>2. \A n \in 0 .. Len(p.tokens) : n \in 0 .. Len(tokens)
    BY <1>2
  <2> QED
    BY <1>1, <2>1, <2>2 DEF Live, Scanning
<1> HIDE DEF q
<1>4. Keeps(q, p)
  BY <1>1, <1>2, <1>3 DEF Live, Keeps
<1> QED
  BY <1>1, <1>4 DEF q

LEMMA PutIndents ==
  ASSUME NEW p, Live(p), NEW indents, Listed(indents)
  PROVE  Keeps(Put(p, "indents", indents), p)
BY LiveLen DEF Put, Live, Scanning, Keeps

LEMMA ErrorKeeps ==
  ASSUME NEW p, Live(p)
  PROVE  Keeps(Error(p), p) /\ ~Error(p).ok
<1>1. Error(p) = Put(p, "ok", FALSE)
  BY DEF Error, Put
<1>2. Like(Put(p, "ok", FALSE), p) /\ Put(p, "ok", FALSE)["ok"] = FALSE
  BY PutLike DEF Live
<1> QED
  BY <1>1, <1>2, LikeKeeps DEF Live

LEMMA AllowKeeps ==
  ASSUME NEW p, Live(p), NEW b
  PROVE  Keeps(Allow(p, b), p)
<1>1. Allow(p, b) = Put(p, "allowed", b)
  BY DEF Allow, Put
<1> QED
  BY <1>1, PutLike, LikeKeeps DEF Live

-----------------------------------------------------------------------------
(* Tokens are added and inserted.                                          *)

LEMMA AddKeeps ==
  ASSUME NEW p, Live(p), NEW token
  PROVE  Keeps(Add(p, token), p) /\ Len(Add(p, token).tokens) = Len(p.tokens) + 1
<1> DEFINE tokens == Append(p.tokens, token)
<1>1. p.parsed \in 0 .. Len(p.tokens) /\ Len(p.tokens) \in Nat /\ Listed(p.tokens)
  BY ListedLen DEF Live, Scanning
<1>2. /\ Listed(tokens) /\ Len(tokens) = Len(p.tokens) + 1
      /\ \A i \in 1 .. Len(p.tokens) : tokens[i] = p.tokens[i]
  BY <1>1, ListedAppend
<1>3. Add(p, token) = Put(p, "tokens", tokens)
  BY DEF Add, Put
<1> HIDE DEF tokens
<1>4. Keeps(Put(p, "tokens", tokens), p) /\ Put(p, "tokens", tokens).tokens = tokens
  BY <1>1, <1>2, PutTokens
<1> QED
  BY <1>2, <1>3, <1>4

LEMMA InsertKeeps ==
  ASSUME NEW p, Live(p), NEW token, NEW number \in -1 .. Len(p.tokens)
  PROVE  Keeps(Insert(p, number, token), p) /\ Len(Insert(p, number, token).tokens) = Len(p.tokens) + 1
<1> DEFINE late == Append(p.tokens, token)
           tokens == InsertAt(p.tokens, number + 1, token)
<1>1. p.parsed \in 0 .. Len(p.tokens) /\ Len(p.tokens) \in Nat /\ Listed(p.tokens)
  BY ListedLen DEF Live, Scanning
<1>2. CASE number < p.parsed
  <2>1. Insert(p, number, token) = Add(p, token)
    BY <1>2 DEF Insert, Add
  <2> QED
    BY <2>1, AddKeeps
<1>3. CASE ~(number < p.parsed)
  <2>1. number + 1 \in 1 .. Len(p.tokens) + 1 /\ p.parsed <= number
    BY <1>1, <1>3
  <2>2. /\ Listed(tokens) /\ Len(tokens) = Len(p.tokens) + 1
        /\ \A j \in 1 .. (number + 1) - 1 : tokens[j] = p.tokens[j]
    BY <1>1, <2>1, ListedInsert
  <2>3. Insert(p, number, token) = Put(p, "tokens", tokens)
    BY <1>3 DEF Insert, Put
  <2> HIDE DEF tokens
  <2>4. \A i \in 1 .. p.parsed : tokens[i] = p.tokens[i]
    BY <1>1, <2>1, <2>2
  <2>5. Keeps(Put(p, "tokens", tokens), p) /\ Put(p, "tokens", tokens).tokens = tokens
    BY <1>1, <2>2, <2>4, PutTokens
  <2> QED
    BY <2>2, <2>3, <2>5
<1> QED
  BY <1>2, <1>3

-----------------------------------------------------------------------------
(* Simple keys.                                                            *)

SetPossible(keys, level, v) == [keys EXCEPT ![level].possible = v]
SetKey(keys, level, key) == [keys EXCEPT ![level] = key]

\* A candidate that is given up.
LEMMA PossibleKeeps ==
  ASSUME NEW p, Live(p), NEW level, NEW v
  PROVE  Keeps(Put(p, "keys", SetPossible(p.keys, level, v)), p)
<1> DEFINE keys == SetPossible(p.keys, level, v)
<1>1. /\ DOMAIN keys = DOMAIN p.keys
      /\ Len(p.keys) \in Nat /\ DOMAIN p.keys = 1 .. Len(p.keys) /\ Len(p.keys) >= 1
  BY LiveLen DEF SetPossible
<1>2. \A l \in DOMAIN p.keys :
        {"number", "possible"} \subseteq DOMAIN keys[l] /\ keys[l].number = p.keys[l].number
  BY DEF SetPossible, Live, Scanning
<1>3. keys \in Seq({keys[l] : l \in DOMAIN keys}) /\ Len(keys) = Len(p.keys)
  <2>1. keys = [l \in 1 .. Len(p.keys) |-> keys[l]]
    BY <1>1 DEF SetPossible
  <2> HIDE DEF keys
  <2> QED
    BY <1>1, <2>1
<1> HIDE DEF keys
<1>4. Listed(keys) /\ keys # <<>>
  BY <1>1, <1>3 DEF Listed
<1>5. \A l \in DOMAIN keys :
        {"number", "possible"} \subseteq DOMAIN keys[l] /\ keys[l].number \in 0 .. Len(p.tokens)
  BY <1>1, <1>2 DEF Live, Scanning
<1> QED
  BY <1>4, <1>5, PutKeys DEF keys

LEMMA SetKeyKeeps ==
  ASSUME NEW p, Live(p), NEW level, NEW key,
         {"number", "possible"} \subseteq DOMAIN key, key.number \in 0 .. Len(p.tokens)
  PROVE  Keeps(Put(p, "keys", SetKey(p.keys, level, key)), p)
<1> DEFINE keys == SetKey(p.keys, level, key)
<1>1. /\ DOMAIN keys = DOMAIN p.keys
      /\ Len(p.keys) \in Nat /\ DOMAIN p.keys = 1 .. Len(p.keys) /\ Len(p.keys) >= 1
  BY LiveLen DEF SetKey
<1>2. \A l \in DOMAIN p.keys : keys[l] = key \/ keys[l] = p.keys[l]
  BY DEF SetKey
<1>3. keys \in Seq({keys[l] : l \in DOMAIN keys}) /\ Len(keys) = Len(p.keys)
  <2>1. keys = [l \in 1 .. Len(p.keys) |-> keys[l]]
    BY <1>1 DEF SetKey
  <2> HIDE DEF keys
  <2> QED
    BY <1>1, <2>1
<1> HIDE DEF keys
<1>4. Listed(keys) /\ keys # <<>>
  BY <1>1, <1>3 DEF Listed
<1>5. \A l \in DOMAIN keys :
        {"number", "possible"} \subseteq DOMAIN keys[l] /\ keys[l].number \in 0 .. Len(p.tokens)
  BY <1>1, <1>2 DEF Live, Scanning
<1> QED
  BY <1>4, <1>5, PutKeys DEF keys

LEMMA ByTokKeeps ==
  ASSUME NEW p, Live(p), NEW x
  PROVE  Keeps(Put(p, "byTok", x), p)
BY PutLike, LikeKeeps DEF Live

LEMMA PosKeeps ==
  ASSUME NEW p, Live(p), NEW x
  PROVE  Keeps(Put(p, "pos", x), p)
BY PutLike, LikeKeeps DEF Live

LEMMA DropStaleKeyKeeps ==
  ASSUME NEW p, Live(p), NEW level
  PROVE  Keeps(DropStaleKey(p, level), p)
<1>1. [p EXCEPT !.keys[level].possible = FALSE] = Put(p, "keys", SetPossible(p.keys, level, FALSE))
  BY DEF Put, SetPossible
<1>2. \/ DropStaleKey(p, level) = p \/ DropStaleKey(p, level) = Error(p)
      \/ DropStaleKey(p, level) = Put(p, "keys", SetPossible(p.keys, level, FALSE))
  BY <1>1 DEF DropStaleKey
<1> QED
  BY <1>2, KeepsItself, ErrorKeeps, PossibleKeeps

LEMMA RemoveKeyKeeps ==
  ASSUME NEW p, Live(p)
  PROVE  Keeps(RemoveKey(p), p)
<1> DEFINE key == Last(p.keys)
           q == Put(p, "keys", SetPossible(p.keys, Len(p.keys), FALSE))
           r == Put(q, "byTok", WithoutToken(p.byTok, key.number))
<1>1. [p EXCEPT !.keys[Len(p.keys)].possible = FALSE, !.byTok = WithoutToken(@, key.number)] = r
  BY DEF Put, SetPossible
<1>2. RemoveKey(p) = p \/ RemoveKey(p) = Error(p) \/ RemoveKey(p) = r
  BY <1>1 DEF RemoveKey
<1>3. Keeps(q, p)
  BY PossibleKeeps
<1> HIDE DEF q
<1>4. Keeps(r, q)
  BY <1>3, ByTokKeeps DEF Keeps
<1> HIDE DEF r
<1> QED
  BY <1>2, <1>3, <1>4, KeepsItself, ErrorKeeps, KeepsOn

LEMMA SaveKeyKeeps ==
  ASSUME NEW p, Live(p)
  PROVE  Keeps(SaveKey(p), p)
<1> DEFINE key == Key(TRUE, Flow(p) = 0 /\ Indent(p) = Col(p), Len(p.tokens), p.pos)
           q == RemoveKey(p)
           x == [n \in DOMAIN q.byTok \cup {key.number} |->
                   IF n = key.number THEN Len(q.keys) ELSE q.byTok[n]]
           r == Put(q, "keys", SetKey(q.keys, Len(q.keys), key))
           s == Put(r, "byTok", x)
<1>1. {"number", "possible"} \subseteq DOMAIN key /\ key.number = Len(p.tokens)
  BY DEF Key
<1> HIDE DEF key
<1>2. [q EXCEPT !.keys[Len(q.keys)] = key,
                !.byTok = [n \in DOMAIN @ \cup {key.number} |->
                             IF n = key.number THEN Len(q.keys) ELSE @[n]]] = s
  <2> HIDE DEF q
  <2> QED
    BY DEF Put, SetKey
<1>3. SaveKey(p) = p \/ SaveKey(p) = q \/ SaveKey(p) = s
  <2> HIDE DEF s, r
  <2> QED
    BY <1>2 DEF SaveKey, Then, key
<1>4. Keeps(q, p)
  BY RemoveKeyKeeps
<1> HIDE DEF q, x
<1>5. Live(q) /\ key.number \in 0 .. Len(q.tokens)
  <2>1. Live(q) /\ Len(q.tokens) >= Len(p.tokens) /\ Len(p.tokens) \in Nat /\ Len(q.tokens) \in Nat
    BY <1>4, LiveLen DEF Keeps
  <2> QED
    BY <1>1, <2>1
<1>6. Keeps(r, q)
  BY <1>1, <1>5, SetKeyKeeps
<1> HIDE DEF r
<1>7. Keeps(s, r)
  BY <1>6, ByTokKeeps DEF Keeps
<1> HIDE DEF s
<1>8. Keeps(s, p)
  BY <1>4, <1>6, <1>7, KeepsOn DEF Keeps
<1> QED
  BY <1>3, <1>4, <1>8, KeepsItself

LEMMA IncreaseFlowKeeps ==
  ASSUME NEW p, Live(p)
  PROVE  Keeps(IncreaseFlow(p), p)
<1> DEFINE key == Key(FALSE, FALSE, Len(p.tokens), p.pos)
           keys == Append(p.keys, key)
           q == Put(p, "keys", keys)
<1>1. {"number", "possible"} \subseteq DOMAIN key /\ key.number = Len(p.tokens) /\ Len(p.tokens) \in Nat
  BY LiveLen DEF Key
<1> HIDE DEF key
<1>2. [p EXCEPT !.keys = Append(@, key)] = q
  BY DEF Put
<1>3. IncreaseFlow(p) = q \/ IncreaseFlow(p) = Error(q)
  <2> HIDE DEF q
  <2> QED
    BY <1>2 DEF IncreaseFlow, key
<1>4. Listed(p.keys) /\ Len(p.keys) \in Nat /\ DOMAIN p.keys = 1 .. Len(p.keys)
  BY LiveLen
<1>5. /\ Listed(keys) /\ keys # <<>> /\ Len(keys) = Len(p.keys) + 1
      /\ keys[Len(p.keys) + 1] = key /\ \A l \in 1 .. Len(p.keys) : keys[l] = p.keys[l]
  BY <1>4, ListedAppend
<1> HIDE DEF keys
<1>6. DOMAIN keys = 1 .. Len(p.keys) + 1
  BY <1>5, ListedLen
<1>7. \A l \in DOMAIN keys :
        {"number", "possible"} \subseteq DOMAIN keys[l] /\ keys[l].number \in 0 .. Len(p.tokens)
  <2>1. \A l \in DOMAIN keys : l \in 1 .. Len(p.keys) \/ l = Len(p.keys) + 1
    BY <1>4, <1>6
  <2> QED
    BY <1>1, <1>4, <1>5, <2>1 DEF Live, Scanning
<1>8. Keeps(q, p)
  BY <1>5, <1>7, PutKeys
<1> HIDE DEF q
<1>9. Keeps(Error(q), p)
  BY <1>8, ErrorKeeps, KeepsOn DEF Keeps
<1> QED
  BY <1>3, <1>8, <1>9

LEMMA DecreaseFlowKeeps ==
  ASSUME NEW p, Live(p)
  PROVE  Keeps(DecreaseFlow(p), p)
<1>1. CASE Flow(p) = 0
  BY <1>1, KeepsItself DEF DecreaseFlow
<1>2. CASE Flow(p) # 0
  <2> DEFINE keys == SubSeq(p.keys, 1, Len(p.keys) - 1)
             x == WithoutToken(p.byTok, Last(p.keys).number)
             q == Put(p, "keys", keys)
             r == Put(q, "byTok", x)
  <2>1. [p EXCEPT !.keys = Front(@), !.byTok = WithoutToken(@, Last(p.keys).number)] = r
    BY DEF Put, Front
  <2>2. DecreaseFlow(p) = r
    <3> HIDE DEF r
    <3> QED
      BY <1>2, <2>1 DEF DecreaseFlow
  <2>3. Len(p.keys) \in Nat /\ Len(p.keys) >= 2 /\ DOMAIN p.keys = 1 .. Len(p.keys) /\ Listed(p.keys)
    <3>1. Len(p.keys) - 1 # 0
      BY <1>2 DEF Flow
    <3>2. Len(p.keys) \in Nat /\ Len(p.keys) >= 1 /\ DOMAIN p.keys = 1 .. Len(p.keys) /\ Listed(p.keys)
      BY LiveLen
    <3>3. \A n \in Nat : n >= 1 /\ n - 1 # 0 => n >= 2
      OBVIOUS
    <3>4. Len(p.keys) >= 2
      BY <3>1, <3>2, <3>3
    <3> QED
      BY <3>2, <3>4
  <2>4. /\ Listed(keys) /\ Len(keys) = Len(p.keys) - 1
        /\ \A i \in 1 .. Len(p.keys) - 1 : keys[i] = p.keys[i]
    <3>1. 1 \in 1 .. Len(p.keys) + 1 /\ Len(p.keys) - 1 \in 1 - 1 .. Len(p.keys)
      BY <2>3
    <3>2. /\ Listed(keys) /\ Len(keys) = Len(p.keys) - 1 - 1 + 1
          /\ \A i \in 1 .. Len(p.keys) - 1 - 1 + 1 : keys[i] = p.keys[1 + i - 1]
      BY <2>3, <3>1, ListedPart
    <3> HIDE DEF keys
    <3>3. \A i \in 1 .. Len(p.keys) - 1 : i \in 1 .. Len(p.keys) - 1 - 1 + 1 /\ 1 + i - 1 = i
      BY <2>3
    <3> QED
      BY <2>3, <3>2, <3>3
  <2> HIDE DEF keys
  <2>5. keys # <<>> /\ DOMAIN keys = 1 .. Len(p.keys) - 1
    BY <2>3, <2>4, ListedLen
  <2>6. \A l \in DOMAIN keys :
        {"number", "possible"} \subseteq DOMAIN keys[l] /\ keys[l].number \in 0 .. Len(p.tokens)
    <3>1. \A l \in DOMAIN keys : l \in DOMAIN p.keys /\ keys[l] = p.keys[l]
      BY <2>3, <2>4, <2>5
    <3> QED
      BY <3>1 DEF Live, Scanning
  <2>7. Keeps(q, p)
    BY <2>4, <2>5, <2>6, PutKeys
  <2> HIDE DEF q
  <2>8. Keeps(r, q)
    BY <2>7, ByTokKeeps DEF Keeps
  <2> HIDE DEF r
  <2> QED
    BY <2>2, <2>7, <2>8, KeepsOn
<1> QED
  BY <1>1, <1>2

-----------------------------------------------------------------------------
(* Indents.                                                                *)

LEMMA RollKeeps ==
  ASSUME NEW p, Live(p), NEW column, NEW number \in -1 .. Len(p.tokens), NEW kind, NEW at
  PROVE  Keeps(RollIndent(p, column, number, kind, at), p)
<1> DEFINE q == Put(p, "indents", Append(p.indents, column))
           r == Insert(q, number, Token(kind, at, at))
<1>1. [p EXCEPT !.indents = Append(@, column)] = q
  BY DEF Put
<1>2. RollIndent(p, column, number, kind, at) \in {p, Error(q), r}
  <2> HIDE DEF q
  <2> QED
    BY <1>1 DEF RollIndent
<1>3. Listed(Append(p.indents, column))
  BY LiveLen, ListedAppend
<1>4. Keeps(q, p)
  BY <1>3, PutIndents
<1> HIDE DEF q
<1>5. Live(q) /\ number \in -1 .. Len(q.tokens)
  <2>1. Live(q) /\ Len(q.tokens) >= Len(p.tokens) /\ Len(p.tokens) \in Nat /\ Len(q.tokens) \in Nat
    BY <1>4, LiveLen DEF Keeps
  <2> QED
    BY <2>1
<1>6. Keeps(r, q)
  BY <1>5, InsertKeeps
<1>7. Keeps(Error(q), q)
  BY <1>5, ErrorKeeps
<1> HIDE DEF r
<1> QED
  BY <1>2, <1>4, <1>6, <1>7, KeepsItself, KeepsOn

LEMMA ListedConstant ==
  ASSUME NEW n \in Int, NEW e
  PROVE  Listed([i \in 1 .. n |-> e])
<1> DEFINE s == [i \in 1 .. n |-> e]
           m == IF n < 0 THEN 0 ELSE n
<1>1. m \in Nat /\ 1 .. n = 1 .. m
  BY Z3
<1>2. s \in [1 .. m -> {e}]
  BY <1>1
<1>3. s \in Seq({e})
  <2> HIDE DEF s, m
  <2> QED
    BY <1>1, <1>2
<1> HIDE DEF s
<1> QED
  BY <1>3, ListedIs DEF s

LEMMA UnrollKeeps ==
  ASSUME NEW p, Live(p), NEW column
  PROVE  Keeps(UnrollIndent(p, column), p)
<1> DEFINE kept == Keep(p.indents, {i \in DOMAIN p.indents : p.indents[i] <= column})
           ends == [i \in 1 .. Len(p.indents) - Len(kept) |-> Token("BlockEnd", p.pos, p.pos)]
           q == Put(p, "indents", kept)
           r == Put(q, "tokens", p.tokens \o ends)
<1>1. [p EXCEPT !.indents = kept, !.tokens = @ \o ends] = r
  <2> HIDE DEF kept, ends
  <2> QED
    BY DEF Put
<1>2. UnrollIndent(p, column) = p \/ UnrollIndent(p, column) = r
  <2> HIDE DEF r
  <2> QED
    BY <1>1 DEF UnrollIndent
<1>3. kept \in Seq({p.indents[i] : i \in DOMAIN p.indents})
  <2>1. p.indents \in Seq({p.indents[i] : i \in DOMAIN p.indents})
    BY DEF Live, Scanning, Listed
  <2> QED
    BY <2>1, KeepRange
<1> HIDE DEF kept
<1>4. Listed(kept) /\ Len(kept) \in Nat /\ Len(p.indents) \in Nat
  BY <1>3, ListedIs, LiveLen
<1>5. Listed(ends) /\ Len(ends) \in Nat
  <2>1. Len(p.indents) - Len(kept) \in Int
    BY <1>4
  <2> QED
    BY <2>1, ListedConstant, ListedLen
<1> HIDE DEF ends
<1>6. Keeps(q, p) /\ q.tokens = p.tokens /\ q.parsed = p.parsed
  <2>1. q.tokens = p.tokens /\ q.parsed = p.parsed
    BY DEF Put, Live, Scanning
  <2> QED
    BY <1>4, <2>1, PutIndents
<1> HIDE DEF q
<1>7. /\ Listed(p.tokens \o ends) /\ Len(p.tokens \o ends) >= Len(p.tokens)
      /\ \A i \in 1 .. Len(p.tokens) : (p.tokens \o ends)[i] = p.tokens[i]
  BY <1>5, LiveLen, ListedConcat
<1>8. \A i \in 1 .. q.parsed : (p.tokens \o ends)[i] = q.tokens[i]
  <2>1. \A i \in 1 .. p.parsed : i \in 1 .. Len(p.tokens)
    BY LiveLen
  <2> QED
    BY <1>6, <1>7, <2>1
<1>9. Keeps(r, q)
  <2>1. Live(q)
    BY <1>6 DEF Keeps
  <2> QED
    BY <1>6, <1>7, <1>8, <2>1, PutTokens
<1> HIDE DEF r
<1> QED
  BY <1>2, <1>6, <1>9, KeepsItself, KeepsOn

-----------------------------------------------------------------------------
(* What each token does.                                                   *)

LEMMA IndicatorKeeps ==
  ASSUME NEW p, Live(p), NEW kind, NEW n
  PROVE  Keeps(Indicator(p, kind, n), p) /\ Len(Indicator(p, kind, n).tokens) = Len(p.tokens) + 1
<1> DEFINE q == Add(p, Token(kind, p.pos, p.pos + n))
           r == Put(q, "pos", q.pos + n)
<1>1. Indicator(p, kind, n) = r
  <2> HIDE DEF q
  <2> QED
    BY DEF Indicator, Put, q
<1>2. Keeps(q, p) /\ Len(q.tokens) = Len(p.tokens) + 1
  BY AddKeeps
<1> HIDE DEF q
<1>3. Keeps(r, q) /\ r.tokens = q.tokens
  BY <1>2, PosKeeps, PutLike DEF Keeps, Live, Like
<1> HIDE DEF r
<1> QED
  BY <1>1, <1>2, <1>3, KeepsOn

LEMMA ScannedKeeps ==
  ASSUME NEW p, Live(p), NEW kind, NEW end
  PROVE  /\ Keeps(Scanned(p, kind, end), p)
         /\ Scanned(p, kind, end).ok => Len(Scanned(p, kind, end).tokens) > p.parsed
<1>1. CASE end = Failed
  BY <1>1, ErrorKeeps DEF Scanned
<1>2. CASE end # Failed
  <2> DEFINE q == Indicator(p, kind, end - p.pos)
  <2>1. Scanned(p, kind, end) = q
    BY <1>2 DEF Scanned
  <2>2. Keeps(q, p) /\ Len(q.tokens) = Len(p.tokens) + 1
    BY IndicatorKeeps
  <2> HIDE DEF q
  <2>3. Len(q.tokens) > p.parsed
    BY <2>2, LiveLen
  <2> QED
    BY <2>1, <2>2, <2>3
<1> QED
  BY <1>1, <1>2

LEMMA CloseBlocksKeeps ==
  ASSUME NEW p, Live(p)
  PROVE  Keeps(CloseBlocks(p), p)
<1> DEFINE q == UnrollIndent(p, -1)
           r == RemoveKey(q)
           no == FALSE
           s == Allow(r, no)
<1>1. CloseBlocks(p) = r \/ CloseBlocks(p) = s
  BY DEF CloseBlocks, Then
<1>2. Keeps(q, p)
  BY UnrollKeeps
<1> HIDE DEF q
<1>3. Keeps(r, p)
  BY <1>2, RemoveKeyKeeps, KeepsOn DEF Keeps
<1> HIDE DEF r, no
<1>4. Keeps(s, p)
  BY <1>3, AllowKeeps, KeepsOn DEF Keeps
<1> QED
  BY <1>1, <1>3, <1>4

LEMMA StreamEndKeeps ==
  ASSUME NEW p, Live(p)
  PROVE  Keeps(StreamEnd(p), p)
<1> DEFINE q == CloseBlocks(p)
           r == Indicator(q, "StreamEnd", 0)
<1>1. StreamEnd(p) = q \/ StreamEnd(p) = r
  BY DEF StreamEnd, Then
<1>2. Keeps(q, p)
  BY CloseBlocksKeeps
<1> HIDE DEF q
<1>3. Keeps(r, p)
  BY <1>2, IndicatorKeeps, KeepsOn DEF Keeps
<1> QED
  BY <1>1, <1>2, <1>3

LEMMA DirectiveKeeps ==
  ASSUME NEW p, Live(p)
  PROVE  Keeps(DirectiveToken(p), p)
<1> DEFINE q == CloseBlocks(p)
           d == Directive(q.input, q.pos)
           r == Add(q, Token(d.kind, q.pos, d.end))
           s == Put(r, "pos", d.stop)
<1>1. DirectiveToken(p) = q \/ DirectiveToken(p) = TakeDirective(q, d)
  BY DEF DirectiveToken, Then
<1>2. Keeps(q, p)
  BY CloseBlocksKeeps
<1> HIDE DEF q, d
<1>3. TakeDirective(q, d) = Error(q) \/ TakeDirective(q, d) = s
  <2> HIDE DEF r
  <2> QED
    BY DEF TakeDirective, Put, r
<1>4. Keeps(r, p)
  BY <1>2, AddKeeps, KeepsOn DEF Keeps
<1> HIDE DEF r
<1>5. Keeps(s, p)
  BY <1>4, PosKeeps, KeepsOn DEF Keeps
<1>6. Keeps(Error(q), p)
  BY <1>2, ErrorKeeps, KeepsOn DEF Keeps
<1> HIDE DEF s
<1> QED
  BY <1>1, <1>2, <1>3, <1>5, <1>6

LEMMA DocumentKeeps ==
  ASSUME NEW p, Live(p), NEW kind
  PROVE  Keeps(DocumentIndicator(p, kind), p)
<1> DEFINE q == CloseBlocks(p)
           r == Indicator(q, kind, 3)
<1>1. DocumentIndicator(p, kind) = q \/ DocumentIndicator(p, kind) = r
  BY DEF DocumentIndicator, Then
<1>2. Keeps(q, p)
  BY CloseBlocksKeeps
<1> HIDE DEF q
<1>3. Keeps(r, p)
  BY <1>2, IndicatorKeeps, KeepsOn DEF Keeps
<1> QED
  BY <1>1, <1>2, <1>3

\* An indicator after which a key may, or may not, begin.
LEMMA AllowedIndicatorKeeps ==
  ASSUME NEW p, Live(p), NEW b, NEW kind, NEW n
  PROVE  Keeps(Indicator(Allow(p, b), kind, n), p)
BY AllowKeeps, IndicatorKeeps, KeepsOn DEF Keeps

LEMMA FlowStartKeeps ==
  ASSUME NEW p, Live(p), NEW kind
  PROVE  Keeps(FlowStart(p, kind), p)
<1> DEFINE q == SaveKey(p)
           r == IF q.ok THEN IncreaseFlow(q) ELSE q
           yes == TRUE
           s == Indicator(Allow(r, yes), kind, 1)
<1>1. FlowStart(p, kind) = r \/ FlowStart(p, kind) = s
  BY DEF FlowStart, Then
<1>2. Keeps(q, p)
  BY SaveKeyKeeps
<1> HIDE DEF q
<1>3. Keeps(r, p)
  BY <1>2, IncreaseFlowKeeps, KeepsOn DEF Keeps
<1> HIDE DEF r, yes
<1>4. Keeps(s, p)
  BY <1>3, AllowedIndicatorKeeps, KeepsOn DEF Keeps
<1> HIDE DEF s
<1> QED
  BY <1>1, <1>3, <1>4

LEMMA FlowEndKeeps ==
  ASSUME NEW p, Live(p), NEW kind
  PROVE  Keeps(FlowEnd(p, kind), p)
<1> DEFINE q == RemoveKey(p)
           r == DecreaseFlow(q)
           no == FALSE
           s == Indicator(Allow(r, no), kind, 1)
<1>1. FlowEnd(p, kind) = q \/ FlowEnd(p, kind) = s
  BY DEF FlowEnd, Then
<1>2. Keeps(q, p)
  BY RemoveKeyKeeps
<1> HIDE DEF q
<1>3. Keeps(r, p)
  BY <1>2, DecreaseFlowKeeps, KeepsOn DEF Keeps
<1> HIDE DEF r, no
<1>4. Keeps(s, p)
  BY <1>3, AllowedIndicatorKeeps, KeepsOn DEF Keeps
<1> HIDE DEF s
<1> QED
  BY <1>1, <1>2, <1>4

LEMMA FlowEntryKeeps ==
  ASSUME NEW p, Live(p)
  PROVE  Keeps(FlowEntry(p), p)
<1> DEFINE q == RemoveKey(p)
           yes == TRUE
           s == Indicator(Allow(q, yes), "FlowEntry", 1)
<1>1. FlowEntry(p) = q \/ FlowEntry(p) = s
  BY DEF FlowEntry, Then
<1>2. Keeps(q, p)
  BY RemoveKeyKeeps
<1> HIDE DEF q, yes
<1>3. Keeps(s, p)
  BY <1>2, AllowedIndicatorKeeps, KeepsOn DEF Keeps
<1> HIDE DEF s
<1> QED
  BY <1>1, <1>2, <1>3

LEMMA OpenBlockKeeps ==
  ASSUME NEW p, Live(p), NEW kind
  PROVE  Keeps(OpenBlock(p, kind), p)
<1>1. -1 \in -1 .. Len(p.tokens)
  BY LiveLen
<1>2. OpenBlock(p, kind) \in {p, Error(p), RollIndent(p, Col(p), -1, kind, p.pos)}
  BY DEF OpenBlock
<1> QED
  BY <1>1, <1>2, KeepsItself, ErrorKeeps, RollKeeps

LEMMA BlockEntryKeeps ==
  ASSUME NEW p, Live(p)
  PROVE  Keeps(BlockEntry(p), p)
<1> DEFINE q == OpenBlock(p, "BlockSequenceStart")
           r == IF q.ok THEN RemoveKey(q) ELSE q
           yes == TRUE
           s == Indicator(Allow(r, yes), "BlockEntry", 1)
<1>1. BlockEntry(p) = r \/ BlockEntry(p) = s
  BY DEF BlockEntry, Then
<1>2. Keeps(q, p)
  BY OpenBlockKeeps
<1> HIDE DEF q
<1>3. Keeps(r, p)
  BY <1>2, RemoveKeyKeeps, KeepsOn DEF Keeps
<1> HIDE DEF r, yes
<1>4. Keeps(s, p)
  BY <1>3, AllowedIndicatorKeeps, KeepsOn DEF Keeps
<1> HIDE DEF s
<1> QED
  BY <1>1, <1>3, <1>4

LEMMA ExplicitKeyKeeps ==
  ASSUME NEW p, Live(p)
  PROVE  Keeps(ExplicitKey(p), p)
<1> DEFINE q == OpenBlock(p, "BlockMappingStart")
           r == IF q.ok THEN RemoveKey(q) ELSE q
           b == Flow(r) = 0
           s == Indicator(Allow(r, b), "Key", 1)
<1>1. ExplicitKey(p) = r \/ ExplicitKey(p) = s
  BY DEF ExplicitKey, Then
<1>2. Keeps(q, p)
  BY OpenBlockKeeps
<1> HIDE DEF q
<1>3. Keeps(r, p)
  BY <1>2, RemoveKeyKeeps, KeepsOn DEF Keeps
<1> HIDE DEF r, b
<1>4. Keeps(s, p)
  BY <1>3, AllowedIndicatorKeeps, KeepsOn DEF Keeps
<1> HIDE DEF s
<1> QED
  BY <1>1, <1>3, <1>4

\* The KEY goes in front of the token that is the key, and the start of its
\* mapping in front of the KEY.
LEMMA ValueOfSimpleKeyKeeps ==
  ASSUME NEW p, Live(p)
  PROVE  Keeps(ValueOfSimpleKey(p), p)
<1> DEFINE key == Last(p.keys)
           q == Insert(p, key.number, Token("Key", key.at, key.at))
           r == RollIndent(q, Column(p.input, key.at), key.number, "BlockMappingStart", key.at)
           no == FALSE
           s == Put(r, "keys", SetPossible(r.keys, Len(r.keys), no))
           t == Put(s, "byTok", WithoutToken(r.byTok, key.number))
           u == Allow(t, no)
<1>1. key.number \in -1 .. Len(p.tokens)
  <2>1. key = p.keys[Len(p.keys)] /\ Len(p.keys) \in DOMAIN p.keys
    BY LiveLen DEF Last
  <2> QED
    BY <2>1, LiveLen DEF Live, Scanning
<1> HIDE DEF key
<1>2. Keeps(q, p)
  BY <1>1, InsertKeeps
<1>3. [r EXCEPT !.keys[Len(r.keys)].possible = FALSE, !.byTok = WithoutToken(@, key.number)] = t
  <2> HIDE DEF r
  <2> QED
    BY DEF Put, SetPossible
<1>4. ValueOfSimpleKey(p) = r \/ ValueOfSimpleKey(p) = u
  <2> HIDE DEF t, s
  <2> QED
    BY <1>3 DEF ValueOfSimpleKey, Then, key
<1> HIDE DEF q
<1>5. key.number \in -1 .. Len(q.tokens) /\ Live(q)
  <2>1. Live(q) /\ Len(q.tokens) >= Len(p.tokens) /\ Len(p.tokens) \in Nat /\ Len(q.tokens) \in Nat
    BY <1>2, LiveLen DEF Keeps
  <2> QED
    BY <1>1, <2>1
<1>6. Keeps(r, p)
  BY <1>2, <1>5, RollKeeps, KeepsOn
<1> HIDE DEF r, no
<1>7. Keeps(s, p)
  <2>1. Live(r)
    BY <1>6 DEF Keeps
  <2>2. Keeps(s, r)
    BY <2>1, PossibleKeeps
  <2> HIDE DEF s
  <2> QED
    BY <1>6, <2>2, KeepsOn
<1> HIDE DEF s
<1>8. Keeps(t, p)
  BY <1>7, ByTokKeeps, KeepsOn DEF Keeps
<1> HIDE DEF t
<1>9. Keeps(u, p)
  BY <1>8, AllowKeeps, KeepsOn DEF Keeps
<1> HIDE DEF u
<1> QED
  BY <1>4, <1>6, <1>9

LEMMA ValueKeeps ==
  ASSUME NEW p, Live(p)
  PROVE  Keeps(Value(p), p)
<1> DEFINE q == DropStaleKey(p, Len(p.keys))
           o == OpenBlock(q, "BlockMappingStart")
           r == IF Last(q.keys).possible THEN ValueOfSimpleKey(q)
                ELSE IF o.ok THEN Allow(o, Flow(o) = 0) ELSE o
           s == Indicator(r, "Value", 1)
<1>1. Value(p) \in {q, r, s}
  BY DEF Value, Then
<1>2. Keeps(q, p)
  BY DropStaleKeyKeeps
<1> HIDE DEF q
<1>3. Keeps(o, p)
  BY <1>2, OpenBlockKeeps, KeepsOn DEF Keeps
<1> HIDE DEF o
<1>4. Keeps(ValueOfSimpleKey(q), p)
  BY <1>2, ValueOfSimpleKeyKeeps, KeepsOn DEF Keeps
<1>5. Keeps(Allow(o, Flow(o) = 0), p)
  BY <1>3, AllowKeeps, KeepsOn DEF Keeps
<1>6. Keeps(r, p)
  BY <1>3, <1>4, <1>5
<1> HIDE DEF r
<1>7. Keeps(s, p)
  BY <1>6, IndicatorKeeps, KeepsOn DEF Keeps
<1> HIDE DEF s
<1> QED
  BY <1>1, <1>2, <1>6, <1>7

LEMMA KeyCandidateKeeps ==
  ASSUME NEW p, Live(p), NEW kind, NEW end
  PROVE  /\ Keeps(KeyCandidate(p, kind, end), p)
         /\ KeyCandidate(p, kind, end).ok => Len(KeyCandidate(p, kind, end).tokens) > p.parsed
<1> DEFINE q == SaveKey(p)
           no == FALSE
           a == Allow(q, no)
           r == Scanned(a, kind, end)
<1>1. KeyCandidate(p, kind, end) = IF q.ok THEN r ELSE q
  BY DEF KeyCandidate, Then
<1>2. Keeps(q, p)
  BY SaveKeyKeeps
<1> HIDE DEF q, no
<1>3. Keeps(a, p)
  BY <1>2, AllowKeeps, KeepsOn DEF Keeps
<1> HIDE DEF a
<1>4. Keeps(r, p) /\ (r.ok => Len(r.tokens) > p.parsed)
  BY <1>3, ScannedKeeps, KeepsOn DEF Keeps
<1> HIDE DEF r
<1> QED
  BY <1>1, <1>2, <1>4

SetEmpty(tokens, i, v) == [tokens EXCEPT ![i].empty = v]

\* A quoted scalar is told empty once it is in the queue.
LEMMA QuotedKeeps ==
  ASSUME NEW p, Live(p)
  PROVE  Keeps(QuotedScalar(p), p)
<1> DEFINE end == QuotedEnd(p.input, p.pos)
           q == KeyCandidate(p, "Scalar", end)
           v == QuotesNothing(p.input, p.pos, end)
           tokens == SetEmpty(q.tokens, Len(q.tokens), v)
           r == Put(q, "tokens", tokens)
<1>1. Keeps(q, p) /\ (q.ok => Len(q.tokens) > p.parsed)
  BY KeyCandidateKeeps
<1>2. QuotedScalar(p) = IF q.ok THEN [q EXCEPT !.tokens[Len(q.tokens)].empty = v] ELSE q
  BY DEF QuotedScalar
<1> HIDE DEF q, v
<1>3. [q EXCEPT !.tokens[Len(q.tokens)].empty = v] = r
  BY DEF Put, SetEmpty
<1>4. ASSUME q.ok PROVE Keeps(r, q)
  <2>1. Live(q) /\ q.parsed = p.parsed
    BY <1>1 DEF Keeps
  <2>2. /\ Len(q.tokens) \in Nat /\ DOMAIN q.tokens = 1 .. Len(q.tokens)
        /\ q.parsed \in 0 .. Len(q.tokens) /\ Len(q.tokens) > q.parsed
    BY <1>1, <1>4, <2>1, LiveLen, ListedLen
  <2>3. /\ DOMAIN tokens = 1 .. Len(q.tokens)
        /\ \A i \in 1 .. Len(q.tokens) : i # Len(q.tokens) => tokens[i] = q.tokens[i]
    BY <2>2 DEF SetEmpty
  <2>4. tokens = [i \in 1 .. Len(q.tokens) |-> tokens[i]]
    BY <2>2 DEF SetEmpty
  <2> HIDE DEF tokens
  <2>5. tokens \in Seq({tokens[i] : i \in DOMAIN tokens}) /\ Len(tokens) = Len(q.tokens)
    BY <2>2, <2>3, <2>4
  <2>6. \A i \in 1 .. q.parsed : tokens[i] = q.tokens[i]
    BY <2>2, <2>3
  <2>7. Listed(tokens) /\ Len(tokens) >= Len(q.tokens)
    BY <2>2, <2>5 DEF Listed
  <2> QED
    BY <2>1, <2>6, <2>7, PutTokens
<1> HIDE DEF r
<1> QED
  BY <1>1, <1>2, <1>3, <1>4, KeepsOn

LEMMA TakeScalarKeeps ==
  ASSUME NEW p, Live(p), NEW scalar, NEW allowed
  PROVE  Keeps(TakeScalar(p, scalar, allowed), p)
<1> DEFINE token == [Token("Scalar", p.pos, scalar.end) EXCEPT !.empty = scalar.empty]
           q == Add(p, token)
           r == Put(q, "pos", scalar.stop)
           s == Put(r, "allowed", allowed)
<1> HIDE DEF token
<1>1. TakeScalar(p, scalar, allowed) = Error(p) \/ TakeScalar(p, scalar, allowed) = s
  <2>1. [q EXCEPT !.pos = scalar.stop, !.allowed = allowed] = s
    BY DEF Put
  <2> HIDE DEF s, r, q
  <2> QED
    BY <2>1 DEF TakeScalar, token, q
<1>2. Keeps(q, p)
  BY AddKeeps
<1> HIDE DEF q
<1>3. Keeps(r, p)
  BY <1>2, PosKeeps, KeepsOn DEF Keeps
<1> HIDE DEF r
<1>4. Keeps(s, r)
  BY <1>3, PutLike, LikeKeeps DEF Keeps, Live
<1> HIDE DEF s
<1> QED
  BY <1>1, <1>3, <1>4, ErrorKeeps, KeepsOn

LEMMA PlainKeeps ==
  ASSUME NEW p, Live(p)
  PROVE  Keeps(PlainScalar(p), p)
<1> DEFINE q == SaveKey(p)
           scalar == Plain(q.input, q.pos, Indent(q) + 1, Flow(q) > 0)
           r == TakeScalar(q, scalar, scalar.broken)
<1>1. PlainScalar(p) = q \/ PlainScalar(p) = r
  BY DEF PlainScalar, TakePlain, Then
<1>2. Keeps(q, p)
  BY SaveKeyKeeps
<1> HIDE DEF q, scalar
<1>3. Keeps(r, p)
  BY <1>2, TakeScalarKeeps, KeepsOn DEF Keeps
<1> HIDE DEF r
<1> QED
  BY <1>1, <1>2, <1>3

LEMMA LiteralKeeps ==
  ASSUME NEW p, Live(p)
  PROVE  Keeps(LiteralOrFolded(p), p)
<1> DEFINE q == RemoveKey(p)
           scalar == BlockScalar(q.input, q.pos, Indent(q))
           yes == TRUE
           r == TakeScalar(q, scalar, yes)
<1>1. LiteralOrFolded(p) = q \/ LiteralOrFolded(p) = r
  BY DEF LiteralOrFolded, Then
<1>2. Keeps(q, p)
  BY RemoveKeyKeeps
<1> HIDE DEF q, scalar, yes
<1>3. Keeps(r, p)
  BY <1>2, TakeScalarKeeps, KeepsOn DEF Keeps
<1> HIDE DEF r
<1> QED
  BY <1>1, <1>2, <1>3

\* What stands between two tokens is passed over.
LEMMA ApproachKeeps ==
  ASSUME NEW p, Live(p)
  PROVE  Keeps(Approach(p), p)
<1> DEFINE q == Put(p, "pos", NextStart(p)[1])
           r == Put(q, "allowed", NextStart(p)[2])
<1>1. Approach(p) = r
  BY DEF Approach, Put
<1>2. Keeps(q, p)
  BY PosKeeps
<1> HIDE DEF q
<1>3. Keeps(r, q)
  BY <1>2, PutLike, LikeKeeps DEF Keeps, Live
<1> HIDE DEF r
<1> QED
  BY <1>1, <1>2, <1>3, KeepsOn

LEMMA CommentKeeps ==
  ASSUME NEW p, Live(p)
  PROVE  Keeps(LineComment(p), p)
<1>1. LineComment(p) = p \/ LineComment(p) = Put(p, "pos", LineCommentEnd(p.input, p.pos))
  BY DEF LineComment, Put
<1> QED
  BY <1>1, KeepsItself, PosKeeps

-----------------------------------------------------------------------------
(* What a block begins with.                                               *)

\* The kinds of token a KEY may be inserted in front of.
Nodes == {"Scalar", "Alias", "Anchor", "Tag"} \cup FlowStarts

\* What may follow a token.
OpensRight(kind, next) ==
  /\ kind = "BlockSequenceStart" => next = "BlockEntry"
  /\ kind = "BlockMappingStart" => next \in {"Key", "Value"}

Follow(tokens) ==
  \A i \in DOMAIN tokens : i + 1 \in DOMAIN tokens => OpensRight(tokens[i].kind, tokens[i + 1].kind)

\* The last token opens no block.
Shut(tokens) == tokens # <<>> => tokens[Len(tokens)].kind \notin BlockStarts

Possible(p) == {level \in DOMAIN p.keys : p.keys[level].possible}

\* A candidate in the queue is a node, or is to come next, and the candidates
\* of the levels stand one behind another.
Aimed(p) ==
  /\ \A level \in Possible(p) :
       p.keys[level].number < Len(p.tokens) => p.tokens[p.keys[level].number + 1].kind \in Nodes
  /\ \A l, m \in Possible(p) : l < m => p.keys[l].number < p.keys[m].number

\* No candidate is to come next.
Placed(p) == \A level \in Possible(p) : p.keys[level].number < Len(p.tokens)

\* Between two tokens.
Tidy(p) == Live(p) /\ Follow(p.tokens) /\ Shut(p.tokens) /\ Aimed(p) /\ Placed(p)

\* Another state of the same queue in which no key is possible that was not.
Weaker(q, p) ==
  /\ Live(q) /\ q.tokens = p.tokens
  /\ \A level \in Possible(q) : level \in Possible(p) /\ q.keys[level].number = p.keys[level].number

LEMMA WeakerItself ==
  ASSUME NEW p, Live(p)
  PROVE  Weaker(p, p)
BY DEF Weaker

LEMMA WeakerOn ==
  ASSUME NEW p, NEW q, NEW r, Weaker(q, p), Weaker(r, q)
  PROVE  Weaker(r, p)
BY DEF Weaker

LEMMA WeakerAimed ==
  ASSUME NEW p, NEW q, Weaker(q, p)
  PROVE  /\ Aimed(p) => Aimed(q)
         /\ Placed(p) => Placed(q)
         /\ Tidy(p) => Tidy(q)
<1>1. ASSUME Aimed(p) PROVE Aimed(q)
  BY <1>1 DEF Weaker, Aimed
<1>2. ASSUME Placed(p) PROVE Placed(q)
  BY <1>2 DEF Weaker, Placed
<1> QED
  BY <1>1, <1>2 DEF Tidy, Weaker

LEMMA LikeWeaker ==
  ASSUME NEW p, Live(p), NEW q, Like(q, p)
  PROVE  Weaker(q, p)
<1>1. Live(q) /\ q.tokens = p.tokens /\ q.keys = p.keys
  BY LikeKeeps DEF Live, Like
<1> QED
  BY <1>1 DEF Weaker, Possible

LEMMA ErrorWeaker ==
  ASSUME NEW p, Live(p)
  PROVE  Weaker(Error(p), p)
<1>1. Error(p) = Put(p, "ok", FALSE)
  BY DEF Error, Put
<1>2. Like(Put(p, "ok", FALSE), p)
  BY PutLike DEF Live
<1> QED
  BY <1>1, <1>2, LikeWeaker

LEMMA AllowWeaker ==
  ASSUME NEW p, Live(p), NEW b
  PROVE  Weaker(Allow(p, b), p)
<1>1. Allow(p, b) = Put(p, "allowed", b)
  BY DEF Allow, Put
<1> QED
  BY <1>1, PutLike, LikeWeaker DEF Live

LEMMA PutWeaker ==
  ASSUME NEW p, Live(p), NEW field \in {"pos", "byTok", "allowed", "ended"}, NEW x
  PROVE  Weaker(Put(p, field, x), p)
BY PutLike, LikeWeaker DEF Live

\* A candidate that is given up, and is none then.
LEMMA DropWeaker ==
  ASSUME NEW p, Live(p), NEW level, NEW no, ~no
  PROVE  /\ Weaker(Put(p, "keys", SetPossible(p.keys, level, no)), p)
         /\ level \notin Possible(Put(p, "keys", SetPossible(p.keys, level, no)))
<1> DEFINE keys == SetPossible(p.keys, level, no)
           q == Put(p, "keys", keys)
<1>1. q.keys = keys /\ q.tokens = p.tokens
  BY DEF Put, Live, Scanning
<1>2. Live(q)
  BY PossibleKeeps DEF Keeps
<1>3. DOMAIN keys = DOMAIN p.keys
  BY DEF SetPossible
<1>4. \A l \in DOMAIN p.keys : l # level => keys[l] = p.keys[l]
  BY DEF SetPossible
<1>5. ASSUME level \in DOMAIN p.keys, keys[level].possible PROVE FALSE
  <2>1. keys[level] = [p.keys[level] EXCEPT !.possible = no]
    BY <1>5 DEF SetPossible
  <2>2. "possible" \in DOMAIN p.keys[level]
    BY <1>5, <1>3 DEF Live, Scanning
  <2> QED
    BY <1>5, <2>1, <2>2
<1> HIDE DEF q, keys
<1> QED
  BY <1>1, <1>2, <1>3, <1>4, <1>5 DEF Weaker, Possible, q, keys

LEMMA DropStaleKeyWeaker ==
  ASSUME NEW p, Live(p), NEW level
  PROVE  Weaker(DropStaleKey(p, level), p)
<1> DEFINE no == FALSE
           q == Put(p, "keys", SetPossible(p.keys, level, no))
<1>1. [p EXCEPT !.keys[level].possible = FALSE] = q
  BY DEF Put, SetPossible
<1>2. DropStaleKey(p, level) \in {p, Error(p), q}
  <2> HIDE DEF q
  <2> QED
    BY <1>1 DEF DropStaleKey
<1>3. ~no
  OBVIOUS
<1> HIDE DEF no
<1>4. Weaker(q, p)
  BY <1>3, DropWeaker
<1> QED
  BY <1>2, <1>4, WeakerItself, ErrorWeaker

\* The candidate of the level is given up, and there is none.
LEMMA RemoveKeyWeaker ==
  ASSUME NEW p, Live(p)
  PROVE  /\ Weaker(RemoveKey(p), p)
         /\ RemoveKey(p).ok => Len(RemoveKey(p).keys) \notin Possible(RemoveKey(p))
         /\ RemoveKey(p).keys = p.keys \/ DOMAIN RemoveKey(p).keys = DOMAIN p.keys
<1> DEFINE key == Last(p.keys)
           no == FALSE
           q == Put(p, "keys", SetPossible(p.keys, Len(p.keys), no))
           r == Put(q, "byTok", WithoutToken(p.byTok, key.number))
<1>1. [p EXCEPT !.keys[Len(p.keys)].possible = FALSE, !.byTok = WithoutToken(@, key.number)] = r
  BY DEF Put, SetPossible
<1>2. RemoveKey(p) = IF ~key.possible THEN p ELSE IF key.required THEN Error(p) ELSE r
  <2> HIDE DEF r
  <2> QED
    BY <1>1 DEF RemoveKey
<1>3. ~no
  OBVIOUS
<1>4. /\ DOMAIN SetPossible(p.keys, Len(p.keys), no) = DOMAIN p.keys
      /\ q.keys = SetPossible(p.keys, Len(p.keys), no) /\ Len(p.keys) \in Nat /\ DOMAIN p.keys = 1 .. Len(p.keys)
  BY LiveLen DEF SetPossible, Put, Live, Scanning
<1> HIDE DEF no
<1>5. Weaker(q, p) /\ Len(p.keys) \notin Possible(q)
  BY <1>3, DropWeaker
<1>6. Live(q) /\ DOMAIN q.keys = DOMAIN p.keys
  BY <1>4, <1>5 DEF Weaker
<1> HIDE DEF q
<1>7. Weaker(r, q) /\ r.keys = q.keys
  BY <1>6, PutLike, LikeWeaker DEF Live, Like
<1> HIDE DEF r
<1>8. Weaker(r, p) /\ Len(p.keys) \notin Possible(r) /\ Len(r.keys) = Len(p.keys)
  <2>1. Live(r) /\ DOMAIN r.keys = DOMAIN p.keys
    BY <1>6, <1>7 DEF Weaker
  <2>2. Len(r.keys) = Len(p.keys)
    BY <2>1, LiveLen
  <2>3. Len(p.keys) \notin Possible(r)
    BY <1>5, <1>7 DEF Possible
  <2> QED
    BY <1>5, <1>7, <2>2, <2>3, WeakerOn
<1>9. Weaker(Error(p), p) /\ ~Error(p).ok /\ Error(p).keys = p.keys
  BY ErrorWeaker, ErrorKeeps DEF Error, Live, Scanning
<1>10. ~key.possible => Len(p.keys) \notin Possible(p)
  BY DEF Possible, Last
<1> QED
  BY <1>2, <1>6, <1>7, <1>8, <1>9, <1>10, WeakerItself

LEMMA IncreaseFlowWeaker ==
  ASSUME NEW p, Live(p)
  PROVE  Weaker(IncreaseFlow(p), p)
<1> DEFINE key == Key(FALSE, FALSE, Len(p.tokens), p.pos)
           keys == Append(p.keys, key)
           q == Put(p, "keys", keys)
<1>1. ~key.possible
  BY DEF Key
<1> HIDE DEF key
<1>2. [p EXCEPT !.keys = Append(@, key)] = q
  BY DEF Put
<1>3. IncreaseFlow(p) = q \/ IncreaseFlow(p) = Error(q)
  <2> HIDE DEF q
  <2> QED
    BY <1>2 DEF IncreaseFlow, key
<1>4. Live(q) \/ IncreaseFlow(p) = Error(q)
  BY <1>3, IncreaseFlowKeeps DEF Keeps
<1>5. q.keys = keys /\ q.tokens = p.tokens
  BY DEF Put, Live, Scanning
<1>6. Listed(p.keys) /\ Len(p.keys) \in Nat /\ DOMAIN p.keys = 1 .. Len(p.keys)
  BY LiveLen
<1>7. /\ Listed(keys) /\ Len(keys) = Len(p.keys) + 1
      /\ keys[Len(p.keys) + 1] = key /\ \A l \in 1 .. Len(p.keys) : keys[l] = p.keys[l]
  BY <1>6, ListedAppend
<1> HIDE DEF keys
<1>8. DOMAIN keys = 1 .. Len(p.keys) + 1
  BY <1>7, ListedLen
<1>9. \A l \in DOMAIN keys : keys[l].possible => l \in DOMAIN p.keys /\ keys[l] = p.keys[l]
  <2>1. \A l \in DOMAIN keys : l \in 1 .. Len(p.keys) \/ l = Len(p.keys) + 1
    BY <1>6, <1>8
  <2> QED
    BY <1>1, <1>6, <1>7, <2>1
<1> HIDE DEF q
<1>10. ASSUME NEW r, Live(r), r.tokens = q.tokens, r.keys = q.keys PROVE Weaker(r, p)
  BY <1>5, <1>9, <1>10 DEF Weaker, Possible
<1>11. Error(q).tokens = q.tokens /\ Error(q).keys = q.keys
  BY DEF Error
<1>12. Live(IncreaseFlow(p))
  BY IncreaseFlowKeeps DEF Keeps
<1> QED
  BY <1>3, <1>10, <1>11, <1>12

LEMMA DecreaseFlowWeaker ==
  ASSUME NEW p, Live(p)
  PROVE  Weaker(DecreaseFlow(p), p)
<1>1. CASE Flow(p) = 0
  BY <1>1, WeakerItself DEF DecreaseFlow
<1>2. CASE Flow(p) # 0
  <2> DEFINE keys == SubSeq(p.keys, 1, Len(p.keys) - 1)
  <2>1. /\ Len(p.keys) \in Nat /\ Len(p.keys) >= 1 /\ DOMAIN p.keys = 1 .. Len(p.keys) /\ Listed(p.keys)
    BY LiveLen
  <2>2. DecreaseFlow(p).keys = keys /\ DecreaseFlow(p).tokens = p.tokens
    BY <1>2 DEF DecreaseFlow, Front, Live, Scanning
  <2>3. 1 \in 1 .. Len(p.keys) + 1 /\ Len(p.keys) - 1 \in 1 - 1 .. Len(p.keys)
    BY <2>1
  <2>4. /\ Listed(keys) /\ Len(keys) = Len(p.keys) - 1 - 1 + 1
        /\ \A i \in 1 .. Len(p.keys) - 1 - 1 + 1 : keys[i] = p.keys[1 + i - 1]
    BY <2>1, <2>3, ListedPart
  <2> HIDE DEF keys
  <2>5. DOMAIN keys = 1 .. Len(keys)
    BY <2>4, ListedLen
  <2>6. \A l \in DOMAIN keys : l \in DOMAIN p.keys /\ keys[l] = p.keys[l]
    <3>1. \A l \in 1 .. Len(p.keys) - 1 - 1 + 1 : l \in 1 .. Len(p.keys) /\ 1 + l - 1 = l
      BY <2>1
    <3> QED
      BY <2>1, <2>4, <2>5, <3>1
  <2>7. Live(DecreaseFlow(p))
    BY DecreaseFlowKeeps DEF Keeps
  <2> QED
    BY <2>2, <2>6, <2>7 DEF Weaker, Possible
<1> QED
  BY <1>1, <1>2

LEMMA ApproachWeaker ==
  ASSUME NEW p, Live(p)
  PROVE  Weaker(Approach(p), p)
<1> DEFINE q == Put(p, "pos", NextStart(p)[1])
           r == Put(q, "allowed", NextStart(p)[2])
<1>1. Approach(p) = r
  BY DEF Approach, Put
<1>2. Weaker(q, p)
  BY PutWeaker
<1> HIDE DEF q
<1>3. Weaker(r, q)
  BY <1>2, PutWeaker DEF Weaker
<1> HIDE DEF r
<1> QED
  BY <1>1, <1>2, <1>3, WeakerOn

LEMMA CommentWeaker ==
  ASSUME NEW p, Live(p)
  PROVE  Weaker(LineComment(p), p)
<1>1. LineComment(p) = p \/ LineComment(p) = Put(p, "pos", LineCommentEnd(p.input, p.pos))
  BY DEF LineComment, Put
<1> QED
  BY <1>1, WeakerItself, PutWeaker

-----------------------------------------------------------------------------
(* Which token may come next.                                              *)

\* A token of this kind may be put at the end of the queue.
Takes(p, kind) ==
  /\ Live(p) /\ Follow(p.tokens) /\ Aimed(p)
  /\ kind \notin BlockStarts
  /\ p.tokens # <<>> => OpensRight(p.tokens[Len(p.tokens)].kind, kind)
  /\ Placed(p) \/ kind \in Nodes

LEMMA TidyTakes ==
  ASSUME NEW p, Tidy(p), NEW kind, kind \notin BlockStarts
  PROVE  Takes(p, kind)
BY DEF Tidy, Takes, Shut, OpensRight, BlockStarts

LEMMA WeakerTakes ==
  ASSUME NEW p, NEW kind, Takes(p, kind), NEW q, Weaker(q, p)
  PROVE  Takes(q, kind)
<1>1. (Aimed(p) => Aimed(q)) /\ (Placed(p) => Placed(q))
  BY WeakerAimed
<1> QED
  BY <1>1 DEF Weaker, Takes

LEMMA TokenKind ==
  ASSUME NEW kind, NEW start, NEW end
  PROVE  Token(kind, start, end).kind = kind
BY DEF Token

\* A token at the end.
LEMMA AppendFollows ==
  ASSUME NEW s, Listed(s), Follow(s), NEW e,
         s # <<>> => OpensRight(s[Len(s)].kind, e.kind)
  PROVE  Follow(Append(s, e))
<1> DEFINE t == Append(s, e)
           n == Len(s)
<1>1. n \in Nat /\ DOMAIN s = 1 .. n /\ (s # <<>> <=> n >= 1)
  BY ListedLen
<1>2. /\ Listed(t) /\ Len(t) = n + 1 /\ t[n + 1] = e /\ \A i \in 1 .. n : t[i] = s[i]
  BY ListedAppend
<1> HIDE DEF t
<1>3. DOMAIN t = 1 .. n + 1
  BY <1>2, ListedLen
<1> SUFFICES ASSUME NEW i \in DOMAIN t, i + 1 \in DOMAIN t
             PROVE  OpensRight(t[i].kind, t[i + 1].kind)
  BY DEF Follow, t
<1>4. CASE i = n
  <2>1. s # <<>> /\ t[i] = s[n] /\ t[i + 1] = e
    BY <1>1, <1>2, <1>3, <1>4
  <2> QED
    BY <2>1
<1>5. CASE i # n
  <2>1. i \in 1 .. n /\ i + 1 \in 1 .. n
    BY <1>1, <1>3, <1>5
  <2>2. t[i] = s[i] /\ t[i + 1] = s[i + 1]
    BY <1>2, <2>1
  <2> QED
    BY <1>1, <2>1, <2>2 DEF Follow
<1> QED
  BY <1>4, <1>5

\* One token more.
LEMMA AddFollows ==
  ASSUME NEW p, Live(p), Follow(p.tokens), Aimed(p), NEW token,
         p.tokens # <<>> => OpensRight(p.tokens[Len(p.tokens)].kind, token.kind),
         Placed(p) \/ token.kind \in Nodes
  PROVE  LET q == Add(p, token)
         IN /\ Live(q) /\ Follow(q.tokens) /\ Aimed(q) /\ Placed(q)
            /\ q.keys = p.keys /\ q.tokens # <<>> /\ q.tokens[Len(q.tokens)] = token
<1> DEFINE tokens == Append(p.tokens, token)
           q == Add(p, token)
           n == Len(p.tokens)
<1>1. Listed(p.tokens) /\ n \in Nat /\ DOMAIN p.tokens = 1 .. n /\ (p.tokens # <<>> <=> n >= 1)
  BY LiveLen, ListedLen
<1>2. /\ Listed(tokens) /\ Len(tokens) = n + 1 /\ tokens # <<>>
      /\ tokens[n + 1] = token /\ \A i \in 1 .. n : tokens[i] = p.tokens[i]
  BY <1>1, ListedAppend
<1>3. q.tokens = tokens /\ q.keys = p.keys
  BY DEF Add, Live, Scanning
<1>4. Live(q)
  BY AddKeeps DEF Keeps
<1> HIDE DEF tokens, q
<1>5. DOMAIN tokens = 1 .. n + 1
  BY <1>2, ListedLen
<1>6. Follow(tokens)
  BY <1>1, AppendFollows DEF tokens
<1>7. Possible(q) = Possible(p)
  BY <1>3 DEF Possible
<1>8. \A level \in Possible(p) : p.keys[level].number \in 0 .. n
  BY DEF Possible, Live, Scanning
<1>9. Placed(q)
  <2>1. \A level \in Possible(p) : p.keys[level].number < n + 1
    BY <1>1, <1>8
  <2> QED
    BY <1>2, <1>3, <1>7, <2>1 DEF Placed
<1>10. \A level \in Possible(p) : tokens[p.keys[level].number + 1].kind \in Nodes
  <2> SUFFICES ASSUME NEW level \in Possible(p)
               PROVE  tokens[p.keys[level].number + 1].kind \in Nodes
    OBVIOUS
  <2>1. CASE p.keys[level].number < n
    <3>1. p.keys[level].number + 1 \in 1 .. n
      BY <1>1, <1>8, <2>1
    <3> QED
      BY <1>2, <2>1, <3>1 DEF Aimed
  <2>2. CASE p.keys[level].number = n
    <3>1. ~Placed(p)
      BY <1>1, <2>2 DEF Placed
    <3> QED
      BY <1>2, <2>2, <3>1
  <2> QED
    BY <1>1, <1>8, <2>1, <2>2
<1>11. Aimed(q)
  BY <1>3, <1>7, <1>10 DEF Aimed
<1> QED
  BY <1>2, <1>3, <1>4, <1>6, <1>9, <1>11 DEF q

LEMMA TakesAdd ==
  ASSUME NEW p, NEW token, Takes(p, token.kind)
  PROVE  Tidy(Add(p, token))
<1>1. LET q == Add(p, token)
      IN /\ Live(q) /\ Follow(q.tokens) /\ Aimed(q) /\ Placed(q)
         /\ q.keys = p.keys /\ q.tokens # <<>> /\ q.tokens[Len(q.tokens)] = token
  BY AddFollows DEF Takes
<1> QED
  BY <1>1 DEF Tidy, Shut, Takes

LEMMA IndicatorTidy ==
  ASSUME NEW p, NEW kind, Takes(p, kind), NEW n
  PROVE  Tidy(Indicator(p, kind, n))
<1> DEFINE token == Token(kind, p.pos, p.pos + n)
           q == Add(p, token)
           r == Put(q, "pos", q.pos + n)
<1>1. Indicator(p, kind, n) = r
  <2> HIDE DEF q
  <2> QED
    BY DEF Indicator, Put, q
<1>2. token.kind = kind
  BY TokenKind
<1> HIDE DEF token
<1>3. Tidy(q)
  BY <1>2, TakesAdd
<1> HIDE DEF q
<1>4. Weaker(r, q)
  BY <1>3, PutWeaker DEF Tidy
<1> QED
  BY <1>1, <1>3, <1>4, WeakerAimed

LEMMA AllowedTidy ==
  ASSUME NEW p, NEW kind, Takes(p, kind), NEW b, NEW n
  PROVE  Tidy(Indicator(Allow(p, b), kind, n))
<1>1. Weaker(Allow(p, b), p)
  BY AllowWeaker DEF Takes
<1> QED
  BY <1>1, WeakerTakes, IndicatorTidy

LEMMA ScannedTidy ==
  ASSUME NEW p, NEW kind, Takes(p, kind), NEW end, Scanned(p, kind, end).ok
  PROVE  Tidy(Scanned(p, kind, end))
<1>1. end # Failed
  BY ErrorKeeps DEF Scanned, Takes
<1> QED
  BY <1>1, IndicatorTidy DEF Scanned

LEMMA TakeScalarTidy ==
  ASSUME NEW p, Takes(p, "Scalar"), NEW scalar, NEW allowed, TakeScalar(p, scalar, allowed).ok
  PROVE  Tidy(TakeScalar(p, scalar, allowed))
<1> DEFINE token == [Token("Scalar", p.pos, scalar.end) EXCEPT !.empty = scalar.empty]
           q == Add(p, token)
           r == Put(q, "pos", scalar.stop)
           s == Put(r, "allowed", allowed)
<1>1. token.kind = "Scalar"
  BY DEF Token
<1> HIDE DEF token
<1>2. scalar.stop # Failed
  BY ErrorKeeps DEF TakeScalar, Takes
<1>3. TakeScalar(p, scalar, allowed) = s
  <2>1. [q EXCEPT !.pos = scalar.stop, !.allowed = allowed] = s
    BY DEF Put
  <2> HIDE DEF s, r, q
  <2> QED
    BY <1>2, <2>1 DEF TakeScalar, token, q
<1>4. Tidy(q)
  BY <1>1, TakesAdd
<1> HIDE DEF q
<1>5. Weaker(r, q)
  BY <1>4, PutWeaker DEF Tidy
<1> HIDE DEF r
<1>6. Weaker(s, r)
  BY <1>5, PutWeaker DEF Weaker
<1> HIDE DEF s
<1> QED
  BY <1>3, <1>4, <1>5, <1>6, WeakerAimed

\* The candidate that is saved is the token that comes next.
LEMMA SaveKeyTakes ==
  ASSUME NEW p, Tidy(p), SaveKey(p).ok, NEW kind \in Nodes
  PROVE  Takes(SaveKey(p), kind)
<1> DEFINE key == Key(TRUE, Flow(p) = 0 /\ Indent(p) = Col(p), Len(p.tokens), p.pos)
           q == RemoveKey(p)
           x == [n \in DOMAIN q.byTok \cup {key.number} |->
                   IF n = key.number THEN Len(q.keys) ELSE q.byTok[n]]
           keys == SetKey(q.keys, Len(q.keys), key)
           r == Put(q, "keys", keys)
           s == Put(r, "byTok", x)
<1>1. kind \notin BlockStarts /\ OpensRight("content", kind)
  BY DEF Nodes, BlockStarts, FlowStarts, OpensRight
<1>2. key.number = Len(p.tokens) /\ {"number", "possible"} \subseteq DOMAIN key
  BY DEF Key
<1> HIDE DEF key
<1>3. [q EXCEPT !.keys[Len(q.keys)] = key,
                !.byTok = [n \in DOMAIN @ \cup {key.number} |->
                             IF n = key.number THEN Len(q.keys) ELSE @[n]]] = s
  <2> HIDE DEF q
  <2> QED
    BY DEF Put, SetKey
<1>4. SaveKey(p) = p \/ SaveKey(p) = q \/ SaveKey(p) = s
  <2> HIDE DEF s, r, keys
  <2> QED
    BY <1>3 DEF SaveKey, Then, key
<1>5. Weaker(q, p) /\ Tidy(q)
  BY RemoveKeyWeaker, WeakerAimed DEF Tidy
<1> HIDE DEF q, x
<1>6. q.tokens = p.tokens /\ Len(q.tokens) \in Nat /\ Len(q.keys) \in Nat /\ DOMAIN q.keys = 1 .. Len(q.keys)
  BY <1>5, LiveLen DEF Weaker
<1>7. Live(r)
  <2>1. key.number \in 0 .. Len(q.tokens) /\ Live(q)
    BY <1>2, <1>5, <1>6 DEF Tidy
  <2>2. Keeps(Put(q, "keys", SetKey(q.keys, Len(q.keys), key)), q)
    BY <1>2, <2>1, SetKeyKeeps
  <2> QED
    BY <2>2 DEF Keeps
<1>8. r.keys = keys /\ r.tokens = q.tokens
  BY <1>5 DEF Put, Tidy, Live, Scanning
<1>9. /\ DOMAIN keys = DOMAIN q.keys
      /\ \A l \in DOMAIN q.keys : keys[l] = IF l = Len(q.keys) THEN key ELSE q.keys[l]
  BY DEF SetKey
<1> HIDE DEF r, keys
<1>10. \A l \in Possible(r) : l = Len(q.keys) \/ (l \in Possible(q) /\ l < Len(q.keys))
  BY <1>6, <1>8, <1>9 DEF Possible
<1>11. \A l \in Possible(r) : l # Len(q.keys) => r.keys[l] = q.keys[l]
  BY <1>8, <1>9 DEF Possible
<1>12. \A l \in Possible(r) : l = Len(q.keys) => r.keys[l].number = Len(q.tokens)
  BY <1>2, <1>6, <1>8, <1>9 DEF Possible
<1>13. \A l \in Possible(q) : q.keys[l].number < Len(q.tokens)
  BY <1>5 DEF Tidy, Placed
<1>14. Aimed(r)
  <2>1. ASSUME NEW l \in Possible(r), r.keys[l].number < Len(r.tokens)
        PROVE  r.tokens[r.keys[l].number + 1].kind \in Nodes
    <3>1. l # Len(q.keys)
      BY <1>6, <1>8, <1>12, <2>1
    <3> QED
      BY <1>5, <1>8, <1>10, <1>11, <1>13, <3>1 DEF Tidy, Aimed
  <2>2. ASSUME NEW l \in Possible(r), NEW m \in Possible(r), l < m
        PROVE  r.keys[l].number < r.keys[m].number
    <3>1. l \in Possible(q) /\ l # Len(q.keys) /\ r.keys[l] = q.keys[l]
      BY <1>6, <1>10, <1>11, <2>2 DEF Possible
    <3>2. CASE m = Len(q.keys)
      BY <1>12, <1>13, <3>1, <3>2
    <3>3. CASE m # Len(q.keys)
      BY <1>5, <1>10, <1>11, <2>2, <3>1, <3>3 DEF Tidy, Aimed
    <3> QED
      BY <3>2, <3>3
  <2> QED
    BY <2>1, <2>2 DEF Aimed
<1>15. Takes(r, kind)
  <2>1. q.tokens # <<>> => OpensRight(q.tokens[Len(q.tokens)].kind, kind)
    BY <1>5 DEF Tidy, Shut, OpensRight, BlockStarts
  <2> QED
    BY <1>1, <1>5, <1>7, <1>8, <1>14, <2>1 DEF Tidy, Takes
<1>16. Weaker(s, r)
  BY <1>7, PutWeaker
<1>17. Takes(s, kind)
  BY <1>15, <1>16, WeakerTakes
<1>18. Takes(p, kind) /\ Takes(q, kind)
  BY <1>1, <1>5, TidyTakes
<1> QED
  BY <1>4, <1>17, <1>18

-----------------------------------------------------------------------------
(* Tokens that are inserted and blocks that are closed.                    *)

LEMMA ConcatRest ==
  ASSUME NEW s, Listed(s), NEW t, Listed(t)
  PROVE  \A i \in 1 .. Len(t) : (s \o t)[Len(s) + i] = t[i]
<1> DEFINE S == {s[i] : i \in DOMAIN s} \cup {t[i] : i \in DOMAIN t}
<1>1. s \in Seq(S) /\ t \in Seq(S)
  BY DEF Listed
<1> HIDE DEF S
<1>2. Len(s) \in Nat /\ Len(t) \in Nat
  BY ListedLen
<1>3. \A i \in 1 .. Len(t) : Len(s) + i \in Len(s) + 1 .. Len(s) + Len(t) /\ Len(s) + i - Len(s) = i
  BY <1>2
<1> QED
  BY <1>1, <1>2, <1>3, ConcatProperties

LEMMA ListedInsertRest ==
  ASSUME NEW s, Listed(s), NEW i \in 1 .. Len(s) + 1, NEW e
  PROVE  /\ InsertAt(s, i, e)[i] = e
         /\ \A j \in i + 1 .. Len(s) + 1 : InsertAt(s, i, e)[j] = s[j - 1]
<1> DEFINE a == SubSeq(s, 1, i - 1)
           b == SubSeq(s, i, Len(s))
           one == <<e>>
           ab == a \o one
<1>1. Len(s) \in Nat
  BY ListedLen
<1>2. Listed(a) /\ Len(a) = i - 1
  <2>1. i - 1 \in 1 - 1 .. Len(s) /\ 1 \in 1 .. Len(s) + 1 /\ i - 1 - 1 + 1 = i - 1
    BY <1>1
  <2> QED
    BY <2>1, ListedPart
<1>3. Listed(b) /\ Len(b) = Len(s) - i + 1 /\ \A j \in 1 .. Len(s) - i + 1 : b[j] = s[i + j - 1]
  BY <1>1, ListedPart
<1>4. Listed(one) /\ Len(one) = 1 /\ one[1] = e
  BY DEF Listed
<1> HIDE DEF a, b, one
<1>5. Listed(ab) /\ Len(ab) = i /\ ab[i] = e
  <2>1. Listed(ab) /\ Len(ab) = Len(a) + Len(one)
    BY <1>2, <1>4, ListedConcat
  <2>2. ab[Len(a) + 1] = one[1]
    BY <1>2, <1>4, ConcatRest
  <2> HIDE DEF ab
  <2> QED
    BY <1>1, <1>2, <1>4, <2>1, <2>2
<1> HIDE DEF ab
<1>6. /\ \A j \in 1 .. Len(ab) : (ab \o b)[j] = ab[j]
      /\ \A j \in 1 .. Len(b) : (ab \o b)[Len(ab) + j] = b[j]
  BY <1>3, <1>5, ListedConcat, ConcatRest
<1>7. \A j \in i + 1 .. Len(s) + 1 : (ab \o b)[j] = s[j - 1]
  <2> SUFFICES ASSUME NEW j \in i + 1 .. Len(s) + 1
               PROVE  (ab \o b)[j] = s[j - 1]
    OBVIOUS
  <2>1. j - i \in 1 .. Len(b) /\ Len(ab) + (j - i) = j /\ i + (j - i) - 1 = j - 1
    BY <1>1, <1>3, <1>5
  <2> QED
    BY <1>3, <1>6, <2>1
<1>8. (ab \o b)[i] = e
  BY <1>5, <1>6
<1>9. InsertAt(s, i, e) = ab \o b
  BY DEF InsertAt, ab, a, b, one
<1> QED
  BY <1>7, <1>8, <1>9

\* A token in between, that goes with both its neighbours.
LEMMA InsertFollows ==
  ASSUME NEW s, Listed(s), Follow(s), NEW i \in 1 .. Len(s) + 1, NEW e,
         i > 1 => OpensRight(s[i - 1].kind, e.kind),
         i <= Len(s) => OpensRight(e.kind, s[i].kind)
  PROVE  Follow(InsertAt(s, i, e))
<1> DEFINE t == InsertAt(s, i, e)
<1>1. Len(s) \in Nat /\ DOMAIN s = 1 .. Len(s)
  BY ListedLen
<1>2. Listed(t) /\ Len(t) = Len(s) + 1 /\ \A j \in 1 .. i - 1 : t[j] = s[j]
  BY ListedInsert
<1>3. t[i] = e /\ \A j \in i + 1 .. Len(s) + 1 : t[j] = s[j - 1]
  BY ListedInsertRest
<1> HIDE DEF t
<1>4. DOMAIN t = 1 .. Len(s) + 1
  BY <1>2, ListedLen
<1> SUFFICES ASSUME NEW j \in DOMAIN t, j + 1 \in DOMAIN t
             PROVE  OpensRight(t[j].kind, t[j + 1].kind)
  BY DEF Follow, t
<1>5. CASE j + 1 < i
  <2>1. j \in 1 .. i - 1 /\ j + 1 \in 1 .. i - 1 /\ j \in DOMAIN s /\ j + 1 \in DOMAIN s
    BY <1>1, <1>4, <1>5
  <2> QED
    BY <1>2, <2>1 DEF Follow
<1>6. CASE j + 1 = i
  <2>1. j \in 1 .. i - 1 /\ i - 1 = j /\ i > 1
    BY <1>1, <1>4, <1>6
  <2> QED
    BY <1>2, <1>3, <1>6, <2>1
<1>7. CASE j = i
  <2>1. j + 1 \in i + 1 .. Len(s) + 1 /\ j + 1 - 1 = i /\ i <= Len(s)
    BY <1>1, <1>4, <1>7
  <2> QED
    BY <1>3, <1>7, <2>1
<1>8. CASE j > i
  <2>1. /\ j \in i + 1 .. Len(s) + 1 /\ j + 1 \in i + 1 .. Len(s) + 1 /\ j + 1 - 1 = j - 1 + 1
        /\ j - 1 \in DOMAIN s /\ j - 1 + 1 \in DOMAIN s
    BY <1>1, <1>4, <1>8
  <2>2. t[j] = s[j - 1] /\ t[j + 1] = s[j - 1 + 1]
    BY <1>3, <2>1
  <2> QED
    BY <2>1, <2>2 DEF Follow
<1> QED
  BY <1>1, <1>4, <1>5, <1>6, <1>7, <1>8

\* The tokens that end blocks.
LEMMA EndsFollow ==
  ASSUME NEW s, Listed(s), Follow(s), Shut(s),
         NEW t, Listed(t), \A i \in DOMAIN t : t[i].kind = "BlockEnd"
  PROVE  Follow(s \o t) /\ Shut(s \o t)
<1> DEFINE u == s \o t
           m == Len(s)
           n == Len(t)
<1>1. m \in Nat /\ n \in Nat /\ DOMAIN s = 1 .. m /\ DOMAIN t = 1 .. n /\ (s # <<>> <=> m >= 1)
  BY ListedLen
<1>2. Listed(u) /\ Len(u) = m + n /\ \A i \in 1 .. m : u[i] = s[i]
  BY ListedConcat
<1>3. \A i \in 1 .. n : u[m + i] = t[i]
  BY ConcatRest
<1> HIDE DEF u
<1>4. DOMAIN u = 1 .. m + n /\ (u # <<>> <=> m + n >= 1)
  BY <1>2, ListedLen
<1>5. \A i \in m + 1 .. m + n : u[i].kind = "BlockEnd"
  <2>1. \A i \in m + 1 .. m + n : i - m \in 1 .. n /\ m + (i - m) = i
    BY <1>1
  <2> QED
    BY <1>1, <1>3, <2>1
<1>6. \A i \in DOMAIN u : i >= m => u[i].kind \notin BlockStarts
  <2> SUFFICES ASSUME NEW i \in DOMAIN u, i >= m
               PROVE  u[i].kind \notin BlockStarts
    OBVIOUS
  <2>1. CASE i = m
    <3>1. s # <<>> /\ u[i] = s[m]
      BY <1>1, <1>2, <1>4, <2>1
    <3> QED
      BY <3>1 DEF Shut
  <2>2. CASE i # m
    <3>1. i \in m + 1 .. m + n
      BY <1>1, <1>4, <2>2
    <3> QED
      BY <1>5, <3>1 DEF BlockStarts
  <2> QED
    BY <2>1, <2>2
<1>7. Shut(u)
  <2> SUFFICES ASSUME u # <<>>
               PROVE  u[Len(u)].kind \notin BlockStarts
    BY DEF Shut
  <2>1. Len(u) \in DOMAIN u /\ Len(u) >= m
    BY <1>1, <1>2, <1>4
  <2> QED
    BY <1>6, <2>1
<1>8. Follow(u)
  <2> SUFFICES ASSUME NEW i \in DOMAIN u, i + 1 \in DOMAIN u
               PROVE  OpensRight(u[i].kind, u[i + 1].kind)
    BY DEF Follow
  <2>1. CASE i >= m
    BY <1>6, <2>1 DEF OpensRight, BlockStarts
  <2>2. CASE ~(i >= m)
    <3>1. i \in 1 .. m /\ i + 1 \in 1 .. m
      BY <1>1, <1>4, <2>2
    <3>2. u[i] = s[i] /\ u[i + 1] = s[i + 1]
      BY <1>2, <3>1
    <3> QED
      BY <1>1, <3>1, <3>2 DEF Follow
  <2> QED
    BY <2>1, <2>2
<1> QED
  BY <1>7, <1>8 DEF u

\* The same candidates before more tokens.
LEMMA LongerPlaced ==
  ASSUME NEW p, Tidy(p), NEW q, Live(q), q.keys = p.keys, Len(q.tokens) >= Len(p.tokens),
         \A i \in 1 .. Len(p.tokens) : q.tokens[i] = p.tokens[i]
  PROVE  Aimed(q) /\ Placed(q)
<1>1. Possible(q) = Possible(p)
  BY DEF Possible
<1>2. Len(p.tokens) \in Nat /\ Len(q.tokens) \in Nat
  BY LiveLen DEF Tidy
<1>3. \A level \in Possible(p) :
        p.keys[level].number \in 0 .. Len(p.tokens) /\ p.keys[level].number < Len(p.tokens)
  BY DEF Tidy, Placed, Possible, Live, Scanning
<1>4. Placed(q)
  BY <1>1, <1>2, <1>3 DEF Placed
<1>5. \A level \in Possible(p) : q.tokens[p.keys[level].number + 1].kind \in Nodes
  <2>1. \A level \in Possible(p) : p.keys[level].number + 1 \in 1 .. Len(p.tokens)
    BY <1>2, <1>3
  <2> QED
    BY <1>3, <2>1 DEF Tidy, Aimed
<1>6. Aimed(q)
  BY <1>1, <1>5 DEF Tidy, Aimed
<1> QED
  BY <1>4, <1>6

LEMMA UnrollTidy ==
  ASSUME NEW p, Tidy(p), NEW column
  PROVE  Tidy(UnrollIndent(p, column))
<1> DEFINE kept == Keep(p.indents, {i \in DOMAIN p.indents : p.indents[i] <= column})
           ends == [i \in 1 .. Len(p.indents) - Len(kept) |-> Token("BlockEnd", p.pos, p.pos)]
           u == p.tokens \o ends
           q == UnrollIndent(p, column)
<1>1. q = p \/ (q.tokens = u /\ q.keys = p.keys)
  <2> HIDE DEF kept, ends
  <2>1. q = p \/ q = [p EXCEPT !.indents = kept, !.tokens = @ \o ends]
    BY DEF UnrollIndent, kept, ends
  <2> QED
    BY <2>1 DEF Tidy, Live, Scanning
<1>2. Live(p) /\ Live(q)
  BY UnrollKeeps DEF Keeps, Tidy
<1>3. kept \in Seq({p.indents[i] : i \in DOMAIN p.indents})
  <2>1. p.indents \in Seq({p.indents[i] : i \in DOMAIN p.indents})
    BY <1>2 DEF Live, Scanning, Listed
  <2> QED
    BY <2>1, KeepRange
<1> HIDE DEF kept
<1>4. Len(kept) \in Nat /\ Len(p.indents) \in Nat
  BY <1>2, <1>3, ListedIs, LiveLen
<1>5. Listed(ends) /\ \A i \in DOMAIN ends : ends[i].kind = "BlockEnd"
  <2>1. Len(p.indents) - Len(kept) \in Int
    BY <1>4
  <2>2. Listed(ends)
    BY <2>1, ListedConstant
  <2> QED
    BY <2>2, TokenKind
<1> HIDE DEF ends, q
<1>6. Follow(u) /\ Shut(u)
  BY <1>2, <1>5, EndsFollow, LiveLen DEF Tidy
<1>7. Len(u) >= Len(p.tokens) /\ \A i \in 1 .. Len(p.tokens) : u[i] = p.tokens[i]
  BY <1>2, <1>5, ListedConcat, LiveLen, ListedLen
<1> HIDE DEF u
<1>8. ASSUME q.tokens = u, q.keys = p.keys PROVE Tidy(q)
  <2>1. Live(q)
    BY <1>2 DEF q
  <2>2. Aimed(q) /\ Placed(q)
    BY <1>7, <1>8, <2>1, LongerPlaced
  <2> QED
    BY <1>6, <1>8, <2>1, <2>2 DEF Tidy
<1> QED
  BY <1>1, <1>8 DEF q

-----------------------------------------------------------------------------
(* Blocks that begin at the end of the queue.                              *)

\* An indent is no candidate and no token.
LEMMA IndentsWeaker ==
  ASSUME NEW p, Live(p), NEW indents, Listed(indents)
  PROVE  Weaker(Put(p, "indents", indents), p)
<1> DEFINE q == Put(p, "indents", indents)
<1>1. q.tokens = p.tokens /\ q.keys = p.keys
  BY DEF Put, Live, Scanning
<1>2. Live(q)
  BY PutIndents DEF Keeps
<1> HIDE DEF q
<1> QED
  BY <1>1, <1>2 DEF Weaker, Possible, q

\* The start of a block with the kind of token that makes it one.
LEMMA OpenBlockTakes ==
  ASSUME NEW p, Tidy(p), NEW kind, NEW first,
         \/ kind = "BlockSequenceStart" /\ first = "BlockEntry"
         \/ kind = "BlockMappingStart" /\ first \in {"Key", "Value"},
         OpenBlock(p, kind).ok
  PROVE  Takes(OpenBlock(p, kind), first)
<1> DEFINE o == OpenBlock(p, kind)
           indents == Append(p.indents, Col(p))
           q == Put(p, "indents", indents)
           token == Token(kind, p.pos, p.pos)
           r == Add(q, token)
<1>1. Live(p) /\ p.parsed \in Nat /\ first \notin BlockStarts
  BY LiveLen DEF Tidy, BlockStarts
<1>2. o = p \/ o = Error(p) \/ o = Error(q) \/ o = r
  <2>1. [p EXCEPT !.indents = Append(@, Col(p))] = q
    BY DEF Put
  <2>2. OpenBlock(p, kind) \in {p, Error(p), RollIndent(p, Col(p), -1, kind, p.pos)}
    BY DEF OpenBlock
  <2>3. Insert(q, -1, token) = r
    <3>1. q.parsed = p.parsed
      BY <1>1 DEF Put, Live, Scanning
    <3> HIDE DEF q, token
    <3>2. -1 < q.parsed
      BY <1>1, <3>1
    <3> QED
      BY <3>2 DEF Insert, Add
  <2> HIDE DEF q
  <2>4. RollIndent(p, Col(p), -1, kind, p.pos) \in {p, Error(q), r}
    <3> HIDE DEF r
    <3> QED
      BY <2>1, <2>3 DEF RollIndent, token
  <2> QED
    BY <2>2, <2>4
<1>3. Listed(indents)
  BY <1>1, LiveLen, ListedAppend
<1> HIDE DEF indents
<1>4. Weaker(q, p) /\ Tidy(q)
  BY <1>1, <1>3, IndentsWeaker, WeakerAimed
<1> HIDE DEF q
<1>5. ~Error(p).ok /\ ~Error(q).ok
  BY <1>1, <1>4, ErrorKeeps DEF Tidy
<1>6. token.kind = kind
  BY TokenKind
<1> HIDE DEF token
<1>7. OpensRight(kind, first)
  BY DEF OpensRight
<1>8. /\ Live(r) /\ Follow(r.tokens) /\ Aimed(r) /\ Placed(r)
      /\ r.tokens # <<>> /\ r.tokens[Len(r.tokens)] = token
  <2>1. q.tokens # <<>> => OpensRight(q.tokens[Len(q.tokens)].kind, token.kind)
    BY <1>4 DEF Tidy, Shut, OpensRight, BlockStarts
  <2>2. Live(q) /\ Follow(q.tokens) /\ Aimed(q) /\ Placed(q)
    BY <1>4 DEF Tidy
  <2> QED
    BY <2>1, <2>2, AddFollows
<1> HIDE DEF r, o
<1>9. Takes(r, first)
  BY <1>1, <1>6, <1>7, <1>8 DEF Takes
<1>10. Takes(p, first)
  BY <1>1, TidyTakes
<1> QED
  BY <1>2, <1>5, <1>9, <1>10 DEF o

-----------------------------------------------------------------------------
(* A candidate turns out to be a key.                                      *)

\* Where an insertion goes (Insert).
Inserted(tokens, parsed, n, token) ==
  IF n < parsed THEN Append(tokens, token) ELSE InsertAt(tokens, n + 1, token)

LEMMA InsertedIs ==
  ASSUME NEW s, Listed(s), NEW parsed \in 0 .. Len(s), NEW n \in 0 .. Len(s), NEW token
  PROVE  LET t == Inserted(s, parsed, n, token)
         IN /\ Listed(t) /\ Len(t) = Len(s) + 1
            /\ \A i \in 1 .. n : t[i] = s[i]
            /\ n < parsed => /\ t[Len(s) + 1] = token /\ \A i \in 1 .. Len(s) : t[i] = s[i]
            /\ n >= parsed => /\ t[n + 1] = token
                              /\ \A i \in n + 2 .. Len(s) + 1 : t[i] = s[i - 1]
<1> DEFINE a == Append(s, token)
           b == InsertAt(s, n + 1, token)
<1>1. Len(s) \in Nat
  BY ListedLen
<1>2. /\ Listed(a) /\ Len(a) = Len(s) + 1 /\ a[Len(s) + 1] = token
      /\ \A i \in 1 .. Len(s) : a[i] = s[i]
  BY ListedAppend
<1>3. n + 1 \in 1 .. Len(s) + 1
  BY <1>1
<1>4. /\ Listed(b) /\ Len(b) = Len(s) + 1 /\ b[n + 1] = token
      /\ \A i \in 1 .. n + 1 - 1 : b[i] = s[i]
      /\ \A i \in n + 1 + 1 .. Len(s) + 1 : b[i] = s[i - 1]
  BY <1>3, ListedInsert, ListedInsertRest
<1> HIDE DEF a, b
<1>5. CASE n < parsed
  <2>1. Inserted(s, parsed, n, token) = a
    BY <1>5 DEF Inserted, a
  <2>2. (\A i \in 1 .. n : i \in 1 .. Len(s)) /\ ~(n >= parsed)
    BY <1>1, <1>5
  <2> QED
    BY <1>2, <1>5, <2>1, <2>2
<1>6. CASE ~(n < parsed)
  <2>1. Inserted(s, parsed, n, token) = b
    BY <1>6 DEF Inserted, b
  <2>2. n + 1 - 1 = n /\ n + 1 + 1 = n + 2
    OBVIOUS
  <2> QED
    BY <1>4, <1>6, <2>1, <2>2
<1> QED
  BY <1>5, <1>6

\* A queue with more behind its first n tokens, where a VALUE may come next.
Room(s, n, t) ==
  /\ Listed(t) /\ Len(t) > Len(s) /\ t # <<>> /\ \A i \in 1 .. n : t[i] = s[i]
  /\ Follow(t) /\ OpensRight(t[Len(t)].kind, "Value")

\* The KEY and the start of its mapping, in front of a node or, when that has
\* been handed out, at the end, where the VALUE follows.
LEMMA KeyInserted ==
  ASSUME NEW s, Listed(s), Follow(s), Shut(s), NEW parsed \in 0 .. Len(s),
         NEW n \in 0 .. Len(s) - 1, s[n + 1].kind \in Nodes,
         NEW key, key.kind = "Key", NEW start, start.kind = "BlockMappingStart"
  PROVE  LET t == Inserted(s, parsed, n, key)
             u == Inserted(t, parsed, n, start)
         IN Room(s, n, t) /\ Room(s, n, u)
<1> DEFINE t == Inserted(s, parsed, n, key)
           u == Inserted(t, parsed, n, start)
           k == Len(s)
<1>1. /\ k \in Nat /\ k >= 1 /\ DOMAIN s = 1 .. k /\ s # <<>> /\ n \in 0 .. k /\ n < k
      /\ n + 1 \in 1 .. k + 1 /\ n + 1 <= k
  BY ListedLen
<1>2. /\ Listed(t) /\ Len(t) = k + 1
      /\ \A i \in 1 .. n : t[i] = s[i]
      /\ n < parsed => /\ t[k + 1] = key /\ \A i \in 1 .. k : t[i] = s[i]
      /\ n >= parsed => /\ t[n + 1] = key
                        /\ \A i \in n + 2 .. k + 1 : t[i] = s[i - 1]
  BY <1>1, InsertedIs
<1>3. n > 0 => s[n].kind \notin BlockStarts
  <2> SUFFICES ASSUME n > 0 PROVE s[n].kind \notin BlockStarts
    OBVIOUS
  <2>1. n \in DOMAIN s /\ n + 1 \in DOMAIN s
    BY <1>1
  <2>2. OpensRight(s[n].kind, s[n + 1].kind)
    BY <2>1 DEF Follow
  <2> QED
    BY <2>2 DEF OpensRight, Nodes, FlowStarts, BlockStarts
<1>4. s[k].kind \notin BlockStarts
  BY <1>1 DEF Shut
<1>5. Follow(t)
  <2>1. CASE n < parsed
    <3>1. OpensRight(s[k].kind, key.kind)
      BY <1>4 DEF OpensRight, BlockStarts
    <3> QED
      BY <2>1, <3>1, AppendFollows DEF Inserted
  <2>2. CASE ~(n < parsed)
    <3>1. n + 1 > 1 => OpensRight(s[n + 1 - 1].kind, key.kind)
      <4>1. n + 1 - 1 = n /\ (n + 1 > 1 => n > 0)
        BY <1>1
      <4> QED
        BY <1>3, <4>1 DEF OpensRight, BlockStarts
    <3>2. OpensRight(key.kind, s[n + 1].kind)
      BY DEF OpensRight
    <3>3. Follow(InsertAt(s, n + 1, key))
      BY <1>1, <3>1, <3>2, InsertFollows
    <3> QED
      BY <2>2, <3>3 DEF Inserted
  <2> QED
    BY <2>1, <2>2
<1> HIDE DEF t
<1>6. DOMAIN t = 1 .. k + 1 /\ t # <<>> /\ parsed \in 0 .. Len(t) /\ n \in 0 .. Len(t)
  BY <1>1, <1>2, ListedLen
<1>7. t[k + 1].kind \notin BlockStarts
  <2>1. CASE n < parsed
    BY <1>2, <2>1 DEF BlockStarts
  <2>2. CASE ~(n < parsed)
    <3>1. k + 1 \in n + 2 .. k + 1 /\ k + 1 - 1 = k /\ n >= parsed
      BY <1>1, <2>2
    <3> QED
      BY <1>2, <1>4, <3>1
  <2> QED
    BY <2>1, <2>2
<1>8. /\ Listed(u) /\ Len(u) = k + 2
      /\ \A i \in 1 .. n : u[i] = t[i]
      /\ n < parsed => u[k + 2] = start
      /\ n >= parsed => \A i \in n + 2 .. k + 2 : u[i] = t[i - 1]
  <2>1. /\ Listed(u) /\ Len(u) = Len(t) + 1
        /\ \A i \in 1 .. n : u[i] = t[i]
        /\ n < parsed => u[Len(t) + 1] = start
        /\ n >= parsed => \A i \in n + 2 .. Len(t) + 1 : u[i] = t[i - 1]
    <3>1. Listed(t) /\ parsed \in 0 .. Len(t) /\ n \in 0 .. Len(t)
      BY <1>2, <1>6
    <3> HIDE DEF k
    <3> QED
      BY <3>1, InsertedIs
  <2> HIDE DEF u, k
  <2>2. Len(t) + 1 = k + 2
    BY <1>1, <1>2
  <2> QED
    BY <2>1, <2>2
<1>9. Follow(u)
  <2>1. CASE n < parsed
    <3>1. OpensRight(t[k + 1].kind, start.kind)
      BY <1>7 DEF OpensRight, BlockStarts
    <3> QED
      BY <1>2, <1>5, <2>1, <3>1, AppendFollows DEF Inserted
  <2>2. CASE ~(n < parsed)
    <3>1. n + 1 > 1 => OpensRight(t[n + 1 - 1].kind, start.kind)
      <4>1. n + 1 - 1 = n /\ (n + 1 > 1 => n > 0 /\ n \in 1 .. n)
        BY <1>1
      <4> QED
        BY <1>2, <1>3, <4>1 DEF OpensRight, BlockStarts
    <3>2. OpensRight(start.kind, t[n + 1].kind)
      BY <1>1, <1>2, <2>2 DEF OpensRight
    <3>3. Follow(InsertAt(t, n + 1, start))
      <4>1. n + 1 \in 1 .. Len(t) + 1
        BY <1>1, <1>2
      <4> QED
        BY <1>2, <1>5, <3>1, <3>2, <4>1, InsertFollows
    <3> QED
      BY <2>2, <3>3 DEF Inserted
  <2> QED
    BY <2>1, <2>2
<1> HIDE DEF u
<1>10. OpensRight(u[k + 2].kind, "Value")
  <2>1. CASE n < parsed
    BY <1>8, <2>1 DEF OpensRight
  <2>2. CASE ~(n < parsed)
    <3>1. k + 2 \in n + 2 .. k + 2 /\ k + 2 - 1 = k + 1 /\ n >= parsed
      BY <1>1, <2>2
    <3> QED
      BY <1>7, <1>8, <3>1 DEF OpensRight, BlockStarts
  <2> QED
    BY <2>1, <2>2
<1>11. u # <<>>
  BY <1>1, <1>8, ListedLen
<1>12. OpensRight(t[k + 1].kind, "Value")
  BY <1>7 DEF OpensRight, BlockStarts
<1>13. \A i \in 1 .. n : u[i] = s[i]
  BY <1>2, <1>8
<1>14. Room(s, n, t) /\ Room(s, n, u)
  <2> HIDE DEF k
  <2>1. k + 1 > k /\ k + 2 > k
    BY <1>1
  <2> QED
    BY <1>2, <1>5, <1>6, <1>8, <1>9, <1>10, <1>11, <1>12, <1>13, <2>1 DEF Room, k
<1> QED
  BY <1>14 DEF t, u

LEMMA InsertIs ==
  ASSUME NEW p, Live(p), NEW n \in 0 .. Len(p.tokens), NEW token
  PROVE  LET q == Insert(p, n, token)
         IN /\ Live(q) /\ q.keys = p.keys /\ q.parsed = p.parsed
            /\ q.tokens = Inserted(p.tokens, p.parsed, n, token)
<1> DEFINE q == Insert(p, n, token)
<1>1. q.keys = p.keys /\ q.parsed = p.parsed /\ q.tokens = Inserted(p.tokens, p.parsed, n, token)
  BY DEF Insert, Inserted, Live, Scanning
<1>2. n \in -1 .. Len(p.tokens)
  BY LiveLen
<1>3. Live(q)
  BY <1>2, InsertKeeps DEF Keeps
<1> QED
  BY <1>1, <1>3

\* A block that begins at a token of the queue, unless there are too many.
LEMMA RollIs ==
  ASSUME NEW p, Live(p), NEW column, NEW n \in 0 .. Len(p.tokens), NEW kind, NEW at,
         RollIndent(p, column, n, kind, at).ok
  PROVE  LET r == RollIndent(p, column, n, kind, at)
         IN /\ Live(r) /\ r.keys = p.keys
            /\ \/ r.tokens = p.tokens
               \/ r.tokens = Inserted(p.tokens, p.parsed, n, Token(kind, at, at))
<1> DEFINE r == RollIndent(p, column, n, kind, at)
           q == Put(p, "indents", Append(p.indents, column))
           s == Insert(q, n, Token(kind, at, at))
<1>1. r \in {p, Error(q), s}
  <2>1. [p EXCEPT !.indents = Append(@, column)] = q
    BY DEF Put
  <2> HIDE DEF q
  <2> QED
    BY <2>1 DEF RollIndent
<1>2. q.tokens = p.tokens /\ q.keys = p.keys /\ q.parsed = p.parsed
  BY DEF Put, Live, Scanning
<1>3. Live(q)
  <2>1. Listed(Append(p.indents, column))
    BY LiveLen, ListedAppend
  <2> QED
    BY <2>1, PutIndents DEF Keeps
<1> HIDE DEF q, r
<1>4. ~Error(q).ok
  BY <1>3, ErrorKeeps
<1>5. /\ Live(s) /\ s.keys = q.keys
      /\ s.tokens = Inserted(q.tokens, q.parsed, n, Token(kind, at, at))
  BY <1>2, <1>3, InsertIs
<1> QED
  BY <1>1, <1>2, <1>4, <1>5 DEF r

\* What a key in the queue is: a node, and behind the candidates of the levels
\* around.
LEMMA KeyIs ==
  ASSUME NEW p, Tidy(p), Last(p.keys).possible
  PROVE  LET n == Last(p.keys).number
         IN /\ n \in 0 .. Len(p.tokens) - 1 /\ p.tokens[n + 1].kind \in Nodes
            /\ \A level \in Possible(p) : level # Len(p.keys) => p.keys[level].number < n
<1> DEFINE n == Last(p.keys).number
<1>1. /\ Live(p) /\ n = p.keys[Len(p.keys)].number /\ Len(p.keys) \in DOMAIN p.keys
      /\ Len(p.tokens) \in Nat /\ DOMAIN p.keys = 1 .. Len(p.keys) /\ Len(p.keys) \in Nat
  BY LiveLen DEF Tidy, Last
<1>2. Len(p.keys) \in Possible(p)
  BY <1>1 DEF Possible, Last
<1> HIDE DEF n
<1>3. n \in 0 .. Len(p.tokens) /\ n < Len(p.tokens)
  BY <1>1, <1>2 DEF Tidy, Placed, Live, Scanning
<1>4. p.tokens[n + 1].kind \in Nodes
  BY <1>1, <1>2, <1>3 DEF Tidy, Aimed
<1>5. \A level \in Possible(p) : level # Len(p.keys) => level < Len(p.keys)
  BY <1>1 DEF Possible
<1>6. \A level \in Possible(p) : level # Len(p.keys) => p.keys[level].number < n
  BY <1>1, <1>2, <1>5 DEF Tidy, Aimed
<1> QED
  BY <1>1, <1>3, <1>4, <1>6 DEF n

\* The candidates that stay when tokens are put behind them.
LEMMA OthersTake ==
  ASSUME NEW p, Tidy(p), Last(p.keys).possible,
         NEW r, Live(r), r.keys = p.keys, Room(p.tokens, Last(p.keys).number, r.tokens),
         NEW q, Weaker(q, r), Len(p.keys) \notin Possible(q)
  PROVE  Takes(q, "Value")
<1> DEFINE n == Last(p.keys).number
<1>1. /\ n \in 0 .. Len(p.tokens) - 1
      /\ \A level \in Possible(p) : level # Len(p.keys) => p.keys[level].number < n
  BY KeyIs
<1>2. Room(p.tokens, n, r.tokens)
  OBVIOUS
<1> HIDE DEF n
<1>3. Live(q) /\ q.tokens = r.tokens /\ Len(r.tokens) \in Nat /\ Len(p.tokens) \in Nat
  BY LiveLen DEF Weaker, Tidy
<1>4. \A level \in Possible(q) : /\ level \in Possible(p) /\ level # Len(p.keys)
                                 /\ q.keys[level].number = p.keys[level].number
  BY DEF Weaker, Possible
<1>5. \A level \in Possible(q) : q.keys[level].number < n /\ q.keys[level].number \in Nat
  BY <1>1, <1>3, <1>4 DEF Possible, Live, Scanning
<1>6. Placed(q)
  BY <1>1, <1>2, <1>3, <1>5 DEF Placed, Room
<1>7. \A level \in Possible(q) : q.tokens[q.keys[level].number + 1].kind \in Nodes
  <2> SUFFICES ASSUME NEW level \in Possible(q)
               PROVE  q.tokens[q.keys[level].number + 1].kind \in Nodes
    OBVIOUS
  <2>1. q.keys[level].number + 1 \in 1 .. n /\ q.keys[level].number < Len(p.tokens)
    BY <1>1, <1>3, <1>5
  <2>2. p.tokens[p.keys[level].number + 1].kind \in Nodes
    BY <1>4, <2>1 DEF Tidy, Aimed
  <2> QED
    BY <1>2, <1>3, <1>4, <2>1, <2>2 DEF Room
<1>8. Aimed(q)
  <2>1. \A l, m \in Possible(q) : l < m => q.keys[l].number < q.keys[m].number
    BY <1>4 DEF Tidy, Aimed
  <2> QED
    BY <1>7, <2>1 DEF Aimed
<1> QED
  BY <1>2, <1>3, <1>6, <1>8 DEF Takes, BlockStarts, Room

LEMMA ValueOfSimpleKeyTakes ==
  ASSUME NEW p, Tidy(p), Last(p.keys).possible, ValueOfSimpleKey(p).ok
  PROVE  Takes(ValueOfSimpleKey(p), "Value")
<1> DEFINE key == Last(p.keys)
           n == key.number
           token == Token("Key", key.at, key.at)
           column == Column(p.input, key.at)
           start == Token("BlockMappingStart", key.at, key.at)
           q == Insert(p, n, token)
           r == RollIndent(q, column, n, "BlockMappingStart", key.at)
           no == FALSE
           s == Put(r, "keys", SetPossible(r.keys, Len(r.keys), no))
           t == Put(s, "byTok", WithoutToken(r.byTok, n))
           u == Allow(t, no)
           v == ValueOfSimpleKey(p)
           a == Inserted(p.tokens, p.parsed, n, token)
           b == Inserted(a, p.parsed, n, start)
<1>1. /\ Live(p) /\ Len(p.tokens) \in Nat /\ Listed(p.tokens) /\ p.parsed \in 0 .. Len(p.tokens)
      /\ n \in 0 .. Len(p.tokens) - 1 /\ n \in 0 .. Len(p.tokens) /\ p.tokens[n + 1].kind \in Nodes
  <2>1. Live(p) /\ n \in 0 .. Len(p.tokens) - 1 /\ p.tokens[n + 1].kind \in Nodes
    BY KeyIs DEF Tidy
  <2> HIDE DEF n
  <2>2. Len(p.tokens) \in Nat /\ Listed(p.tokens) /\ p.parsed \in 0 .. Len(p.tokens)
    BY <2>1, LiveLen
  <2> QED
    BY <2>1, <2>2
<1>2. v = IF r.ok THEN u ELSE r
  <2>1. [r EXCEPT !.keys[Len(r.keys)].possible = FALSE, !.byTok = WithoutToken(@, key.number)] = t
    <3> HIDE DEF r
    <3> QED
      BY DEF Put, SetPossible
  <2> HIDE DEF t, s
  <2> QED
    BY <2>1 DEF ValueOfSimpleKey, Then
<1>3. token.kind = "Key" /\ start.kind = "BlockMappingStart"
  BY TokenKind
<1>4. ~no
  OBVIOUS
<1>5. Live(q) /\ q.keys = p.keys /\ q.parsed = p.parsed /\ q.tokens = a
  <2> HIDE DEF n, token
  <2> QED
    BY <1>1, InsertIs
<1> HIDE DEF u, v, no, token, start, n
<1>6. r.ok /\ v = u
  BY <1>2 DEF v
<1>7. Room(p.tokens, n, a) /\ Room(p.tokens, n, b)
  <2>1. Follow(p.tokens) /\ Shut(p.tokens)
    BY DEF Tidy
  <2> QED
    BY <1>1, <1>3, <2>1, KeyInserted
<1> HIDE DEF a
<1>8. n \in 0 .. Len(q.tokens)
  BY <1>1, <1>5, <1>7, ListedLen DEF Room
<1> HIDE DEF q, column
<1>9. Live(r) /\ r.keys = p.keys /\ (r.tokens = a \/ r.tokens = b)
  <2>1. Live(r) /\ r.keys = q.keys /\ (r.tokens = q.tokens \/ r.tokens = Inserted(q.tokens, q.parsed, n, start))
    <3> HIDE DEF key
    <3> QED
      BY <1>5, <1>6, <1>8, RollIs DEF start
  <2> QED
    BY <1>5, <2>1
<1> HIDE DEF r, b
<1>10. Room(p.tokens, n, r.tokens)
  BY <1>7, <1>9
<1>11. Weaker(s, r) /\ Len(p.keys) \notin Possible(s)
  BY <1>4, <1>9, DropWeaker
<1> HIDE DEF s
<1>12. Takes(s, "Value")
  BY <1>9, <1>10, <1>11, OthersTake DEF n
<1>13. Weaker(t, s)
  BY <1>11, PutWeaker DEF Weaker
<1> HIDE DEF t
<1>14. Weaker(u, t)
  BY <1>13, AllowWeaker DEF Weaker, u
<1> QED
  BY <1>6, <1>12, <1>13, <1>14, WeakerTakes DEF v

LEMMA ValueTidy ==
  ASSUME NEW p, Tidy(p), Value(p).ok
  PROVE  Tidy(Value(p))
<1> DEFINE q == DropStaleKey(p, Len(p.keys))
           v == ValueOfSimpleKey(q)
           o == OpenBlock(q, "BlockMappingStart")
           b == Flow(o) = 0
           w == Allow(o, b)
<1>1. /\ q.ok
      /\ Value(p) = IF Last(q.keys).possible
                    THEN IF v.ok THEN Indicator(v, "Value", 1) ELSE v
                    ELSE IF o.ok THEN IF w.ok THEN Indicator(w, "Value", 1) ELSE w ELSE o
  <2>1. Value(p) = IF q.ok
                   THEN IF Last(q.keys).possible
                        THEN IF v.ok THEN Indicator(v, "Value", 1) ELSE v
                        ELSE IF o.ok THEN IF w.ok THEN Indicator(w, "Value", 1) ELSE w
                             ELSE IF o.ok THEN Indicator(o, "Value", 1) ELSE o
                   ELSE q
    BY DEF Value, Then
  <2> HIDE DEF q, v, o, w
  <2> QED
    BY <2>1
<1>2. Tidy(q)
  BY DropStaleKeyWeaker, WeakerAimed DEF Tidy
<1> HIDE DEF q, b
<1>3. CASE Last(q.keys).possible
  <2>1. v.ok /\ Value(p) = Indicator(v, "Value", 1)
    BY <1>1, <1>3
  <2>2. Takes(v, "Value")
    BY <1>2, <1>3, <2>1, ValueOfSimpleKeyTakes
  <2> QED
    BY <2>1, <2>2, IndicatorTidy
<1>4. CASE ~Last(q.keys).possible
  <2>1. o.ok /\ w.ok /\ Value(p) = Indicator(w, "Value", 1)
    BY <1>1, <1>4
  <2>2. Takes(o, "Value")
    BY <1>2, <2>1, OpenBlockTakes
  <2> HIDE DEF o
  <2> QED
    BY <2>1, <2>2, AllowedTidy
<1> QED
  BY <1>3, <1>4

-----------------------------------------------------------------------------
(* Each token leaves the queue tidy, unless there is an error.             *)

LEMMA RemoveKeyTidy ==
  ASSUME NEW p, Tidy(p)
  PROVE  Tidy(RemoveKey(p))
BY RemoveKeyWeaker, WeakerAimed DEF Tidy

LEMMA CloseBlocksTidy ==
  ASSUME NEW p, Tidy(p)
  PROVE  Tidy(CloseBlocks(p))
<1> DEFINE q == UnrollIndent(p, -1)
           r == RemoveKey(q)
           no == FALSE
           s == Allow(r, no)
<1>1. CloseBlocks(p) = r \/ CloseBlocks(p) = s
  BY DEF CloseBlocks, Then
<1>2. Tidy(q)
  BY UnrollTidy
<1> HIDE DEF q
<1>3. Tidy(r)
  BY <1>2, RemoveKeyTidy
<1> HIDE DEF r, no
<1>4. Tidy(s)
  BY <1>3, AllowWeaker, WeakerAimed DEF Tidy
<1> QED
  BY <1>1, <1>3, <1>4

LEMMA StreamEndTidy ==
  ASSUME NEW p, Tidy(p)
  PROVE  Tidy(StreamEnd(p))
<1> DEFINE q == CloseBlocks(p)
           r == Indicator(q, "StreamEnd", 0)
<1>1. StreamEnd(p) = q \/ StreamEnd(p) = r
  BY DEF StreamEnd, Then
<1>2. Tidy(q)
  BY CloseBlocksTidy
<1> HIDE DEF q
<1>3. Tidy(r)
  <2>1. Takes(q, "StreamEnd")
    BY <1>2, TidyTakes DEF BlockStarts
  <2> QED
    BY <2>1, IndicatorTidy
<1> QED
  BY <1>1, <1>2, <1>3

LEMMA DocumentTidy ==
  ASSUME NEW p, Tidy(p), NEW kind, kind \notin BlockStarts
  PROVE  Tidy(DocumentIndicator(p, kind))
<1> DEFINE q == CloseBlocks(p)
           r == Indicator(q, kind, 3)
<1>1. DocumentIndicator(p, kind) = q \/ DocumentIndicator(p, kind) = r
  BY DEF DocumentIndicator, Then
<1>2. Tidy(q)
  BY CloseBlocksTidy
<1> HIDE DEF q
<1>3. Tidy(r)
  BY <1>2, TidyTakes, IndicatorTidy
<1> QED
  BY <1>1, <1>2, <1>3

LEMMA FlowStartTidy ==
  ASSUME NEW p, Tidy(p), NEW kind \in FlowStarts, FlowStart(p, kind).ok
  PROVE  Tidy(FlowStart(p, kind))
<1> DEFINE q == SaveKey(p)
           r == IF q.ok THEN IncreaseFlow(q) ELSE q
           yes == TRUE
           s == Indicator(Allow(r, yes), kind, 1)
<1>1. FlowStart(p, kind) = IF r.ok THEN s ELSE r
  BY DEF FlowStart, Then
<1>2. q.ok => Takes(q, kind)
  <2>1. kind \in Nodes
    BY DEF Nodes
  <2> QED
    BY <2>1, SaveKeyTakes
<1> HIDE DEF q
<1>3. r.ok => Takes(r, kind)
  <2>1. CASE q.ok
    <3>1. Live(q)
      BY <1>2, <2>1 DEF Takes
    <3> QED
      BY <1>2, <2>1, <3>1, IncreaseFlowWeaker, WeakerTakes
  <2> QED
    BY <2>1
<1> HIDE DEF r, yes
<1> QED
  BY <1>1, <1>3, AllowedTidy

LEMMA FlowEndTidy ==
  ASSUME NEW p, Tidy(p), NEW kind \in FlowEnds, FlowEnd(p, kind).ok
  PROVE  Tidy(FlowEnd(p, kind))
<1> DEFINE q == RemoveKey(p)
           r == DecreaseFlow(q)
           no == FALSE
           s == Indicator(Allow(r, no), kind, 1)
<1>1. FlowEnd(p, kind) = IF q.ok THEN s ELSE q
  BY DEF FlowEnd, Then
<1>2. Tidy(q)
  BY RemoveKeyTidy
<1> HIDE DEF q
<1>3. Tidy(r)
  BY <1>2, DecreaseFlowWeaker, WeakerAimed DEF Tidy
<1> HIDE DEF r, no
<1>4. Takes(r, kind)
  BY <1>3, TidyTakes DEF FlowEnds, BlockStarts
<1>5. Tidy(s)
  BY <1>4, AllowedTidy
<1> HIDE DEF s
<1> QED
  BY <1>1, <1>2, <1>5

LEMMA FlowEntryTidy ==
  ASSUME NEW p, Tidy(p)
  PROVE  Tidy(FlowEntry(p))
<1> DEFINE q == RemoveKey(p)
           yes == TRUE
           s == Indicator(Allow(q, yes), "FlowEntry", 1)
<1>1. FlowEntry(p) = q \/ FlowEntry(p) = s
  BY DEF FlowEntry, Then
<1>2. Tidy(q)
  BY RemoveKeyTidy
<1> HIDE DEF q, yes
<1>3. Takes(q, "FlowEntry")
  BY <1>2, TidyTakes DEF BlockStarts
<1>4. Tidy(s)
  BY <1>3, AllowedTidy
<1> HIDE DEF s
<1> QED
  BY <1>1, <1>2, <1>4

LEMMA BlockEntryTidy ==
  ASSUME NEW p, Tidy(p), BlockEntry(p).ok
  PROVE  Tidy(BlockEntry(p))
<1> DEFINE q == OpenBlock(p, "BlockSequenceStart")
           r == IF q.ok THEN RemoveKey(q) ELSE q
           yes == TRUE
           s == Indicator(Allow(r, yes), "BlockEntry", 1)
<1>1. BlockEntry(p) = IF r.ok THEN s ELSE r
  BY DEF BlockEntry, Then
<1>2. q.ok => Takes(q, "BlockEntry")
  BY OpenBlockTakes
<1> HIDE DEF q
<1>3. r.ok => Takes(r, "BlockEntry")
  BY <1>2, RemoveKeyWeaker, WeakerTakes DEF Takes
<1> HIDE DEF r, yes
<1> QED
  BY <1>1, <1>3, AllowedTidy

LEMMA ExplicitKeyTidy ==
  ASSUME NEW p, Tidy(p), ExplicitKey(p).ok
  PROVE  Tidy(ExplicitKey(p))
<1> DEFINE q == OpenBlock(p, "BlockMappingStart")
           r == IF q.ok THEN RemoveKey(q) ELSE q
           b == Flow(r) = 0
           s == Indicator(Allow(r, b), "Key", 1)
<1>1. ExplicitKey(p) = IF r.ok THEN s ELSE r
  BY DEF ExplicitKey, Then
<1>2. q.ok => Takes(q, "Key")
  BY OpenBlockTakes
<1> HIDE DEF q
<1>3. r.ok => Takes(r, "Key")
  BY <1>2, RemoveKeyWeaker, WeakerTakes DEF Takes
<1> HIDE DEF r, b
<1> QED
  BY <1>1, <1>3, AllowedTidy

LEMMA KeyCandidateTidy ==
  ASSUME NEW p, Tidy(p), NEW kind \in Nodes, NEW end, KeyCandidate(p, kind, end).ok
  PROVE  Tidy(KeyCandidate(p, kind, end))
<1> DEFINE q == SaveKey(p)
           no == FALSE
           a == Allow(q, no)
           r == Scanned(a, kind, end)
<1>1. KeyCandidate(p, kind, end) = IF q.ok THEN r ELSE q
  BY DEF KeyCandidate, Then
<1>2. q.ok => Takes(q, kind)
  BY SaveKeyTakes
<1> HIDE DEF q, no
<1>3. q.ok => Takes(a, kind)
  BY <1>2, AllowWeaker, WeakerTakes DEF Takes
<1> HIDE DEF a
<1> QED
  BY <1>1, <1>3, ScannedTidy

LEMMA PlainTidy ==
  ASSUME NEW p, Tidy(p), PlainScalar(p).ok
  PROVE  Tidy(PlainScalar(p))
<1> DEFINE q == SaveKey(p)
           scalar == Plain(q.input, q.pos, Indent(q) + 1, Flow(q) > 0)
           r == TakeScalar(q, scalar, scalar.broken)
<1>1. PlainScalar(p) = IF q.ok THEN r ELSE q
  BY DEF PlainScalar, TakePlain, Then
<1>2. q.ok => Takes(q, "Scalar")
  BY SaveKeyTakes DEF Nodes
<1> HIDE DEF q, scalar
<1> QED
  BY <1>1, <1>2, TakeScalarTidy

LEMMA LiteralTidy ==
  ASSUME NEW p, Tidy(p), LiteralOrFolded(p).ok
  PROVE  Tidy(LiteralOrFolded(p))
<1> DEFINE q == RemoveKey(p)
           scalar == BlockScalar(q.input, q.pos, Indent(q))
           yes == TRUE
           r == TakeScalar(q, scalar, yes)
<1>1. LiteralOrFolded(p) = IF q.ok THEN r ELSE q
  BY DEF LiteralOrFolded, Then
<1>2. Tidy(q)
  BY RemoveKeyTidy
<1> HIDE DEF q, scalar, yes
<1>3. Takes(q, "Scalar")
  BY <1>2, TidyTakes DEF BlockStarts
<1> QED
  BY <1>1, <1>2, <1>3, TakeScalarTidy

LEMMA DirectiveTidy ==
  ASSUME NEW p, Tidy(p), DirectiveToken(p).ok
  PROVE  Tidy(DirectiveToken(p))
<1> DEFINE q == CloseBlocks(p)
           d == Directive(q.input, q.pos)
           token == Token(d.kind, q.pos, d.end)
           r == Add(q, token)
           s == Put(r, "pos", d.stop)
<1>1. DirectiveToken(p) = IF q.ok THEN TakeDirective(q, d) ELSE q
  BY DEF DirectiveToken, Then
<1>2. Tidy(q)
  BY CloseBlocksTidy
<1>3. d.kind \notin BlockStarts
  BY DEF Directive, DirectiveNamed, DirectiveTo, DirectiveEnding, BlockStarts
<1>4. token.kind = d.kind
  BY TokenKind
<1> HIDE DEF q, d, token
<1>5. TakeDirective(q, d) = Error(q) \/ TakeDirective(q, d) = s
  <2> HIDE DEF r
  <2> QED
    BY DEF TakeDirective, Put, r, token
<1>6. ~Error(q).ok
  BY <1>2, ErrorKeeps DEF Tidy
<1>7. Tidy(r)
  BY <1>2, <1>3, <1>4, TidyTakes, TakesAdd
<1> HIDE DEF r
<1>8. Tidy(s)
  BY <1>7, PutWeaker, WeakerAimed DEF Tidy
<1> HIDE DEF s
<1> QED
  BY <1>1, <1>2, <1>5, <1>6, <1>8

\* The token that was put into the queue stands at its end.
LEMMA CandidateLast ==
  ASSUME NEW p, Live(p), NEW kind, NEW end, KeyCandidate(p, kind, end).ok
  PROVE  LET q == KeyCandidate(p, kind, end)
         IN \E start, stop : q.tokens[Len(q.tokens)] = Token(kind, start, stop)
<1> DEFINE no == FALSE
           a == Allow(SaveKey(p), no)
           token == Token(kind, a.pos, a.pos + (end - a.pos))
           b == Add(a, token)
           c == Indicator(a, kind, end - a.pos)
           q == KeyCandidate(p, kind, end)
<1>1. Live(a)
  <2> HIDE DEF no
  <2> QED
    BY SaveKeyKeeps, AllowKeeps DEF Keeps
<1>2. q = c
  <2>1. q = IF SaveKey(p).ok THEN Scanned(a, kind, end) ELSE SaveKey(p)
    BY DEF KeyCandidate, Then
  <2> HIDE DEF a
  <2>2. ~Error(a).ok
    BY <1>1, ErrorKeeps
  <2> HIDE DEF q
  <2>3. q.ok
    BY DEF q
  <2> QED
    BY <2>1, <2>2, <2>3 DEF Scanned
<1> HIDE DEF a, token, q
<1>3. c.tokens = b.tokens
  BY DEF Indicator, Add, token, Live, Scanning
<1>4. b.tokens = Append(a.tokens, token)
  BY <1>1 DEF Add, Live, Scanning
<1>5. b.tokens[Len(b.tokens)] = token
  BY <1>1, <1>4, ListedAppend, LiveLen
<1> QED
  BY <1>2, <1>3, <1>5 DEF token, q

\* The queue as it was, but for what else its tokens hold.
LEMMA SameKinds ==
  ASSUME NEW p, Tidy(p), NEW q, Live(q), q.keys = p.keys, DOMAIN q.tokens = DOMAIN p.tokens,
         \A i \in DOMAIN p.tokens : q.tokens[i].kind = p.tokens[i].kind
  PROVE  Tidy(q)
<1>1. /\ Len(q.tokens) \in Nat /\ DOMAIN q.tokens = 1 .. Len(q.tokens)
      /\ Len(p.tokens) \in Nat /\ DOMAIN p.tokens = 1 .. Len(p.tokens)
      /\ (p.tokens # <<>> <=> Len(p.tokens) >= 1) /\ (q.tokens # <<>> <=> Len(q.tokens) >= 1)
  BY LiveLen, ListedLen DEF Tidy
<1>2. Len(q.tokens) = Len(p.tokens)
  <2>1. \A m, n \in Nat : 1 .. m = 1 .. n => m = n
    OBVIOUS
  <2> QED
    BY <1>1, <2>1
<1>3. Possible(q) = Possible(p)
  BY DEF Possible
<1>4. Placed(q)
  BY <1>2, <1>3 DEF Tidy, Placed
<1>5. Follow(q.tokens)
  BY DEF Tidy, Follow
<1>6. Shut(q.tokens)
  <2> SUFFICES ASSUME q.tokens # <<>>
               PROVE  q.tokens[Len(q.tokens)].kind \notin BlockStarts
    BY DEF Shut
  <2>1. p.tokens # <<>> /\ Len(p.tokens) \in DOMAIN p.tokens
    BY <1>1, <1>2
  <2> QED
    BY <1>2, <2>1 DEF Tidy, Shut
<1>7. Aimed(q)
  <2>1. \A level \in Possible(p) :
          p.keys[level].number < Len(p.tokens) => p.keys[level].number + 1 \in DOMAIN p.tokens
    <3>1. \A level \in Possible(p) : p.keys[level].number \in 0 .. Len(p.tokens)
      BY DEF Possible, Tidy, Live, Scanning
    <3>2. \A k \in Nat : \A n \in 0 .. k : n < k => n + 1 \in 1 .. k
      OBVIOUS
    <3> QED
      BY <1>1, <3>1, <3>2
  <2> QED
    BY <1>2, <1>3, <2>1 DEF Tidy, Aimed
<1> QED
  BY <1>4, <1>5, <1>6, <1>7 DEF Tidy

\* A quoted scalar stays one when it is told empty.
LEMMA QuotedTidy ==
  ASSUME NEW p, Tidy(p), QuotedScalar(p).ok
  PROVE  Tidy(QuotedScalar(p))
<1> DEFINE end == QuotedEnd(p.input, p.pos)
           q == KeyCandidate(p, "Scalar", end)
           v == QuotesNothing(p.input, p.pos, end)
           n == Len(q.tokens)
           tokens == SetEmpty(q.tokens, n, v)
           r == Put(q, "tokens", tokens)
<1>1. QuotedScalar(p) = IF q.ok THEN [q EXCEPT !.tokens[Len(q.tokens)].empty = v] ELSE q
  BY DEF QuotedScalar
<1>2. q.ok => Tidy(q)
  BY KeyCandidateTidy DEF Nodes
<1>3. Live(QuotedScalar(p))
  BY QuotedKeeps DEF Keeps, Tidy
<1>4. q.ok => \E start, stop : q.tokens[n] = Token("Scalar", start, stop)
  BY CandidateLast DEF Tidy
<1> HIDE DEF q, v
<1>5. [q EXCEPT !.tokens[Len(q.tokens)].empty = v] = r
  BY DEF Put, SetEmpty
<1>6. CASE q.ok
  <2>1. QuotedScalar(p) = r /\ Tidy(q) /\ Live(r)
    BY <1>1, <1>2, <1>3, <1>5, <1>6
  <2>2. r.tokens = tokens /\ r.keys = q.keys
    BY <2>1 DEF Put, Tidy, Live, Scanning
  <2>3. "kind" \in DOMAIN q.tokens[n]
    <3>1. PICK start, stop : q.tokens[n] = Token("Scalar", start, stop)
      BY <1>4, <1>6
    <3>2. "kind" \in DOMAIN Token("Scalar", start, stop)
      BY DEF Token
    <3> QED
      BY <3>1, <3>2
  <2>4. /\ DOMAIN tokens = DOMAIN q.tokens
        /\ \A i \in DOMAIN q.tokens : tokens[i].kind = q.tokens[i].kind
    BY <2>3 DEF SetEmpty
  <2> HIDE DEF r, tokens
  <2>5. Tidy(r)
    BY <2>1, <2>2, <2>4, SameKinds
  <2> QED
    BY <2>1, <2>5
<1> QED
  BY <1>1, <1>2, <1>6

-----------------------------------------------------------------------------
(* The scanner's steps.                                                    *)

\* Before the first fetch the queue is empty and there is no flow level yet.
ScanInv ==
  \/ Live(parser)
  \/ Scanning(parser) /\ parser.tokens = <<>> /\ ~parser.started

\* What is handed out only grows.
Onward(q, p) ==
  /\ Live(q) /\ p.parsed <= q.parsed
  /\ \A i \in 1 .. p.parsed : q.tokens[i] = p.tokens[i]

LEMMA KeepsOnward ==
  ASSUME NEW p, NEW q, Live(p), Keeps(q, p)
  PROVE  Onward(q, p)
BY LiveLen DEF Keeps, Onward

LEMMA DeliveredGrows ==
  ASSUME NEW p, Scanning(p), NEW q, Onward(q, p)
  PROVE  IsPrefix(Delivered(p), Delivered(q))
<1> DEFINE s == SubSeq(p.tokens, 1, p.parsed)
           t == SubSeq(q.tokens, 1, q.parsed)
           m == p.parsed
           a == SubSeq(s, 1, m)
           b == SubSeq(t, 1, m)
<1>1. /\ m \in 0 .. Len(p.tokens) /\ Len(p.tokens) \in Nat /\ Listed(p.tokens)
      /\ q.parsed \in 0 .. Len(q.tokens) /\ Len(q.tokens) \in Nat /\ Listed(q.tokens)
      /\ m <= q.parsed /\ \A i \in 1 .. m : q.tokens[i] = p.tokens[i]
  BY ListedLen DEF Scanning, Onward, Live
<1>2. Listed(s) /\ Len(s) = m /\ \A i \in 1 .. m : s[i] = p.tokens[i]
  <2>1. /\ Listed(s) /\ Len(s) = m - 1 + 1
        /\ \A i \in 1 .. m - 1 + 1 : s[i] = p.tokens[1 + i - 1]
    BY <1>1, ListedPart
  <2> HIDE DEF s
  <2> QED
    BY <1>1, <2>1
<1>3. Listed(t) /\ Len(t) = q.parsed /\ \A i \in 1 .. q.parsed : t[i] = q.tokens[i]
  <2>1. /\ Listed(t) /\ Len(t) = q.parsed - 1 + 1
        /\ \A i \in 1 .. q.parsed - 1 + 1 : t[i] = q.tokens[1 + i - 1]
    BY <1>1, ListedPart
  <2> HIDE DEF t
  <2> QED
    BY <1>1, <2>1
<1> HIDE DEF s, t, m
<1>4. Listed(a) /\ Len(a) = m /\ \A i \in 1 .. m : a[i] = s[i]
  <2>1. Listed(a) /\ Len(a) = m - 1 + 1 /\ \A i \in 1 .. m - 1 + 1 : a[i] = s[1 + i - 1]
    BY <1>1, <1>2, ListedPart
  <2> HIDE DEF a
  <2> QED
    BY <1>1, <2>1
<1>5. Listed(b) /\ Len(b) = m /\ \A i \in 1 .. m : b[i] = t[i]
  <2>1. Listed(b) /\ Len(b) = m - 1 + 1 /\ \A i \in 1 .. m - 1 + 1 : b[i] = t[1 + i - 1]
    BY <1>1, <1>3, ListedPart
  <2> HIDE DEF b
  <2> QED
    BY <1>1, <2>1
<1> HIDE DEF a, b
<1>6. \A i \in 1 .. m : i \in 1 .. q.parsed /\ a[i] = b[i]
  BY <1>1, <1>2, <1>3, <1>4, <1>5 DEF m
<1>7. a = b
  <2> DEFINE S == {a[i] : i \in DOMAIN a} \cup {b[i] : i \in DOMAIN b}
  <2>1. a \in Seq(S) /\ b \in Seq(S)
    BY <1>4, <1>5 DEF Listed
  <2> HIDE DEF S
  <2> QED
    BY <1>1, <1>4, <1>5, <1>6, <2>1, SeqEqual
<1>8. Len(s) <= Len(t)
  BY <1>1, <1>2, <1>3 DEF m
<1>9. SubSeq(s, 1, Len(s)) = SubSeq(t, 1, Len(s))
  BY <1>2, <1>7 DEF a, b
<1>10. IsPrefix(s, t)
  BY <1>8, <1>9 DEF IsPrefix
<1> QED
  BY <1>10 DEF Delivered, s, t, m

LEMMA SamePrefix ==
  ASSUME NEW p, Scanning(p)
  PROVE  IsPrefix(Delivered(p), Delivered(p))
<1> DEFINE s == Delivered(p)
<1>1. Len(s) <= Len(s)
  <2>1. p.parsed \in 0 .. Len(p.tokens) /\ Len(p.tokens) \in Nat /\ Listed(p.tokens)
    BY ListedLen DEF Scanning
  <2>2. 1 \in 1 .. Len(p.tokens) + 1 /\ p.parsed \in 1 - 1 .. Len(p.tokens)
    BY <2>1
  <2>3. Listed(SubSeq(p.tokens, 1, p.parsed))
    BY <2>1, <2>2, ListedPart
  <2>4. Listed(s)
    BY <2>3 DEF Delivered
  <2> HIDE DEF s
  <2>5. Len(s) \in Nat
    BY <2>4, ListedLen
  <2> QED
    BY <2>5
<1> HIDE DEF s
<1>2. IsPrefix(s, s)
  BY <1>1 DEF IsPrefix
<1> QED
  BY <1>2 DEF s

LEMMA ScanInit ==
  ASSUME NEW text, Start(text)
  PROVE  ScanInv
<1>1. /\ parser.tokens = <<>> /\ parser.keys = <<>> /\ parser.indents = <<>> /\ parser.parsed = 0
      /\ {"input", "tokens", "parsed", "keys", "indents", "byTok", "ok", "pos", "allowed", "started", "ended"}
           \subseteq DOMAIN parser
  BY DEF Start, Fresh
<1>2. ~parser.started
  BY DEF Start, Fresh
<1>3. ASSUME NEW s, s = <<>> PROVE Listed(s) /\ Len(s) = 0 /\ DOMAIN s = {}
  BY <1>3 DEF Listed
<1>4. Scanning(parser)
  BY <1>1, <1>3 DEF Scanning
<1> QED
  BY <1>1, <1>2, <1>4 DEF ScanInv

\* The first fetch puts STREAM-START in the empty queue and opens the first level.
LEMMA FirstIs ==
  ASSUME ScanInv, FetchFirst
  PROVE  \E d : /\ Live(d) /\ d.tokens = parser.tokens /\ d.parsed = parser.parsed
                /\ d.keys = Append(parser.keys, NoKey)
                /\ parser' = Add(d, Token("StreamStart", parser.pos, parser.pos))
<1> DEFINE yes == TRUE
           one == <<-1>>
           keys == Append(parser.keys, NoKey)
           token == Token("StreamStart", parser.pos, parser.pos)
           a == Put(parser, "started", yes)
           b == Put(a, "allowed", yes)
           c == Put(b, "indents", one)
           d == Put(c, "keys", keys)
<1>1. parser' = Add(d, token)
  <2>1. [parser EXCEPT !.started = TRUE, !.allowed = TRUE, !.indents = <<-1>>,
                       !.keys = Append(@, NoKey)] = d
    <3> HIDE DEF yes, one
    <3>1. [parser EXCEPT !.started = yes, !.allowed = yes, !.indents = one,
                         !.keys = Append(@, NoKey)] = d
      BY DEF Put
    <3> QED
      BY <3>1 DEF yes, one
  <2>2. parser' = StreamStart(parser)
    BY DEF FetchFirst
  <2> HIDE DEF d
  <2> QED
    BY <2>1, <2>2 DEF StreamStart
<1>2. Scanning(parser) /\ Len(parser.tokens) \in Nat /\ parser.parsed \in 0 .. Len(parser.tokens)
  BY ListedLen DEF ScanInv, Live, Scanning
<1>3. /\ Listed(keys) /\ Len(keys) = Len(parser.keys) + 1 /\ keys # <<>>
      /\ keys[Len(parser.keys) + 1] = NoKey
      /\ \A i \in 1 .. Len(parser.keys) : keys[i] = parser.keys[i]
  BY <1>2, ListedAppend DEF Scanning
<1> HIDE DEF keys
<1>4. \A level \in DOMAIN keys :
        {"number", "possible"} \subseteq DOMAIN keys[level] /\ keys[level].number \in 0 .. Len(parser.tokens)
  <2>1. {"number", "possible"} \subseteq DOMAIN NoKey /\ NoKey.number = 0
    BY DEF NoKey, Key
  <2>2. /\ Len(parser.keys) \in Nat /\ DOMAIN parser.keys = 1 .. Len(parser.keys)
        /\ DOMAIN keys = 1 .. Len(parser.keys) + 1
    BY <1>2, <1>3, ListedLen DEF Scanning
  <2>3. \A level \in DOMAIN keys : level \in 1 .. Len(parser.keys) \/ level = Len(parser.keys) + 1
    BY <2>2
  <2> QED
    BY <1>2, <1>3, <2>1, <2>2, <2>3 DEF Scanning
<1>5. Listed(one)
  BY DEF Listed
<1> HIDE DEF yes, one
<1>6. Like(b, parser) /\ Scanning(b)
  <2>1. Like(a, parser) /\ Scanning(a)
    BY <1>2, PutLike, LikeKeeps
  <2> HIDE DEF a
  <2>2. Like(b, a)
    BY <2>1, PutLike
  <2> HIDE DEF b
  <2> QED
    BY <2>1, <2>2, LikeKeeps DEF Like
<1> HIDE DEF a, b
<1>7. DOMAIN d = DOMAIN b /\ d.tokens = b.tokens /\ d.parsed = b.parsed /\ d.indents = one /\ d.keys = keys
  BY <1>6 DEF Put, Scanning
<1> HIDE DEF c, d
<1>8. Live(d)
  BY <1>3, <1>4, <1>5, <1>6, <1>7 DEF Live, Scanning, Like
<1> QED
  BY <1>1, <1>6, <1>7, <1>8 DEF Like, keys

LEMMA FirstKeeps ==
  ASSUME ScanInv, FetchFirst
  PROVE  Onward(parser', parser)
<1>1. PICK d : /\ Live(d) /\ d.tokens = parser.tokens /\ d.parsed = parser.parsed
               /\ parser' = Add(d, Token("StreamStart", parser.pos, parser.pos))
  BY FirstIs
<1>2. Keeps(parser', d)
  BY <1>1, AddKeeps
<1>3. parser.parsed \in Nat
  BY <1>1, LiveLen
<1> QED
  BY <1>1, <1>2, <1>3 DEF Keeps, Onward

LEMMA FetchKeeps ==
  ASSUME ScanInv, Fetch
  PROVE  Live(parser) /\ Keeps(parser', parser)
<1>1. Live(parser)
  BY DEF ScanInv, Fetch
<1> DEFINE a == Approach(parser)
           p == UnrollIndent(a, Col(a))
<1>2. Keeps(a, parser)
  BY <1>1, ApproachKeeps
<1>3. Fetch => \E kind :
         \/ parser' = StreamEnd(p) \/ parser' = DirectiveToken(p) \/ parser' = DocumentIndicator(p, kind)
         \/ parser' = LineComment(FlowStart(p, kind)) \/ parser' = LineComment(FlowEnd(p, kind))
         \/ parser' = LineComment(FlowEntry(p)) \/ parser' = LineComment(BlockEntry(p))
         \/ parser' = LineComment(ExplicitKey(p)) \/ parser' = LineComment(Value(p))
         \/ parser' = LineComment(Alias(p)) \/ parser' = LineComment(Anchor(p))
         \/ parser' = LineComment(Tag(p)) \/ parser' = LineComment(LiteralOrFolded(p))
         \/ parser' = LineComment(QuotedScalar(p)) \/ parser' = LineComment(PlainScalar(p))
         \/ parser' = Error(p)
  BY DEF Fetch
<1> HIDE DEF a
<1>4. Keeps(p, parser)
  BY <1>1, <1>2, UnrollKeeps, KeepsOn DEF Keeps
<1> HIDE DEF p
<1>5. Live(p)
  BY <1>4 DEF Keeps
<1>6. \A q : Keeps(q, p) => Keeps(LineComment(q), p)
  BY <1>5, CommentKeeps, KeepsOn DEF Keeps
<1>7. Keeps(Alias(p), p) /\ Keeps(Anchor(p), p) /\ Keeps(Tag(p), p)
  BY <1>5, KeyCandidateKeeps DEF Alias, Anchor, Tag
<1>8. Keeps(parser', p)
  BY <1>3, <1>5, <1>6, <1>7, StreamEndKeeps, DirectiveKeeps, DocumentKeeps, FlowStartKeeps,
     FlowEndKeeps, FlowEntryKeeps, BlockEntryKeeps, ExplicitKeyKeeps, ValueKeeps, LiteralKeeps,
     QuotedKeeps, PlainKeeps, ErrorKeeps
<1> QED
  BY <1>1, <1>4, <1>8, KeepsOn

\* The head is handed out as it stands.
LEMMA ReturnOnward ==
  ASSUME ScanInv, Return
  PROVE  Onward(parser', parser)
<1> DEFINE level == CHOOSE level \in HeadLevel : TRUE
           p == IF HeadLevel = {} THEN parser ELSE DropStaleKey(parser, level)
           over == parser.tokens[parser.parsed + 1].kind = "StreamEnd"
           q == Put(p, "parsed", p.parsed + 1)
           r == Put(q, "ended", over)
<1>1. Behind /\ parser' = [p EXCEPT !.parsed = @ + 1, !.ended = over]
  BY DEF Return
<1>2. Live(parser) /\ parser.parsed < Len(parser.tokens)
  <2>1. parser.parsed \in 0 .. Len(parser.tokens) /\ Len(parser.tokens) \in Nat
    BY ListedLen DEF ScanInv, Live, Scanning
  <2>2. parser.parsed < Len(parser.tokens) - 2
    BY <1>1 DEF Behind
  <2>3. parser.tokens # <<>>
    BY <2>1, <2>2
  <2> QED
    BY <2>1, <2>2, <2>3 DEF ScanInv
<1>3. Keeps(p, parser)
  BY <1>2, KeepsItself, DropStaleKeyKeeps
<1> HIDE DEF p, over
<1>4. parser' = r
  BY <1>1 DEF Put
<1>5. Live(p) /\ p.parsed = parser.parsed /\ p.parsed + 1 \in 0 .. Len(p.tokens)
  BY <1>2, <1>3, LiveLen DEF Keeps
<1>6. /\ DOMAIN q = DOMAIN p /\ q.tokens = p.tokens /\ q.keys = p.keys /\ q.indents = p.indents
      /\ q.parsed = p.parsed + 1
  BY <1>5 DEF Put, Live, Scanning
<1> HIDE DEF q
<1>7. Live(q)
  BY <1>5, <1>6 DEF Live, Scanning
<1>8. Keeps(r, q)
  BY <1>7, PutLike, LikeKeeps DEF Live
<1> HIDE DEF r
<1>9. Onward(r, parser)
  <2>1. parser.parsed \in Nat /\ \A i \in 1 .. parser.parsed : i \in 1 .. q.parsed
    BY <1>2, <1>5, <1>6, LiveLen
  <2> QED
    BY <1>3, <1>5, <1>6, <1>8, <2>1 DEF Keeps, Onward
<1> QED
  BY <1>4, <1>9

LEMMA ScanStep ==
  ASSUME ScanInv, [Next]_vars
  PROVE  ScanInv' /\ IsPrefix(Delivered(parser), Delivered(parser'))
<1>1. Scanning(parser)
  BY DEF ScanInv, Live
<1>2. ASSUME parser' = parser PROVE ScanInv' /\ IsPrefix(Delivered(parser), Delivered(parser'))
  BY <1>1, <1>2, SamePrefix DEF ScanInv
<1>3. ASSUME Onward(parser', parser) PROVE ScanInv' /\ IsPrefix(Delivered(parser), Delivered(parser'))
  <2>1. ScanInv'
    BY <1>3 DEF ScanInv, Onward
  <2> QED
    BY <1>1, <1>3, <2>1, DeliveredGrows
<1>4. CASE Call \/ Fail \/ Finished \/ UNCHANGED vars
  BY <1>2, <1>4 DEF Call, Fail, Finished, vars
<1>5. CASE FetchFirst
  BY <1>3, <1>5, FirstKeeps
<1>6. CASE Fetch
  BY <1>3, <1>6, FetchKeeps, KeepsOnward
<1>7. CASE Return
  BY <1>3, <1>7, ReturnOnward
<1>8. CASE LoseHead
  <2>1. parser' = Error(parser) /\ Behind
    BY <1>8 DEF LoseHead, HeadIsLost
  <2>2. Live(parser)
    <3>1. parser.tokens # <<>>
      BY <1>1, <2>1, ListedLen DEF Behind, Scanning
    <3> QED
      BY <3>1 DEF ScanInv
  <2> QED
    BY <1>3, <2>1, <2>2, ErrorKeeps, KeepsOnward
<1> QED
  BY <1>4, <1>5, <1>6, <1>7, <1>8 DEF Next

\* Nothing that has been handed out is touched again, for every text
\* (yaml_insert_token, whose place may lie behind the head of the queue).
THEOREM NothingTakenBack == Spec => HandedOutStays
<1>1. Init => ScanInv
  BY ScanInit DEF Init
<1>2. ScanInv /\ [Next]_vars => ScanInv' /\ [IsPrefix(Delivered(parser), Delivered(parser'))]_vars
  BY ScanStep
<1> QED
  BY <1>1, <1>2, PTL DEF Spec, HandedOutStays

-----------------------------------------------------------------------------
(* A block begins with its first token.                                    *)

LEMMA CommentTidy ==
  ASSUME NEW p, Live(p), p.ok => Tidy(p), LineComment(p).ok
  PROVE  Tidy(LineComment(p))
<1>1. LineComment(p) = p \/ LineComment(p) = Put(p, "pos", LineCommentEnd(p.input, p.pos))
  BY DEF LineComment, Put
<1>2. p.ok
  BY <1>1 DEF Put, Live, Scanning
<1> QED
  BY <1>2, CommentWeaker, WeakerAimed

LEMMA FetchTidy ==
  ASSUME Tidy(parser), Fetch, parser'.ok
  PROVE  Tidy(parser')
<1> DEFINE a == Approach(parser)
           p == UnrollIndent(a, Col(a))
<1>1. Tidy(a)
  BY ApproachWeaker, WeakerAimed DEF Tidy
<1>2. \/ parser' \in {StreamEnd(p), DirectiveToken(p), DocumentIndicator(p, "DocumentStart"),
                      DocumentIndicator(p, "DocumentEnd"), Error(p)}
      \/ \E q \in {FlowStart(p, "FlowSequenceStart"), FlowStart(p, "FlowMappingStart"),
                   FlowEnd(p, "FlowSequenceEnd"), FlowEnd(p, "FlowMappingEnd"), FlowEntry(p),
                   BlockEntry(p), ExplicitKey(p), Value(p), Alias(p), Anchor(p), Tag(p),
                   LiteralOrFolded(p), QuotedScalar(p), PlainScalar(p)} : parser' = LineComment(q)
  <2> HIDE DEF a
  <2> QED
    BY DEF Fetch, a
<1> HIDE DEF a
<1>3. Tidy(p) /\ Live(p)
  BY <1>1, UnrollTidy DEF Tidy
<1> HIDE DEF p
<1>4. CASE parser' \in {StreamEnd(p), DirectiveToken(p), DocumentIndicator(p, "DocumentStart"),
                        DocumentIndicator(p, "DocumentEnd"), Error(p)}
  <2>1. ~Error(p).ok
    BY <1>3, ErrorKeeps
  <2>2. "DocumentStart" \notin BlockStarts /\ "DocumentEnd" \notin BlockStarts
    BY DEF BlockStarts
  <2> QED
    BY <1>3, <1>4, <2>1, <2>2, StreamEndTidy, DirectiveTidy, DocumentTidy
<1>5. ASSUME NEW q \in {FlowStart(p, "FlowSequenceStart"), FlowStart(p, "FlowMappingStart"),
                        FlowEnd(p, "FlowSequenceEnd"), FlowEnd(p, "FlowMappingEnd"), FlowEntry(p),
                        BlockEntry(p), ExplicitKey(p), Value(p), LiteralOrFolded(p),
                        QuotedScalar(p), PlainScalar(p)}
      PROVE  Live(q) /\ (q.ok => Tidy(q))
  <2>1. Keeps(q, p)
    BY <1>3, <1>5, FlowStartKeeps, FlowEndKeeps, FlowEntryKeeps, BlockEntryKeeps, ExplicitKeyKeeps,
       ValueKeeps, LiteralKeeps, QuotedKeeps, PlainKeeps
  <2>2. /\ {"FlowSequenceStart", "FlowMappingStart"} \subseteq FlowStarts
        /\ {"FlowSequenceEnd", "FlowMappingEnd"} \subseteq FlowEnds
    BY DEF FlowStarts, FlowEnds
  <2>3. q.ok => Tidy(q)
    BY <1>3, <1>5, <2>2, FlowStartTidy, FlowEndTidy, FlowEntryTidy, BlockEntryTidy,
       ExplicitKeyTidy, ValueTidy, LiteralTidy, QuotedTidy, PlainTidy
  <2> QED
    BY <2>1, <2>3 DEF Keeps
<1>6. ASSUME NEW q \in {Alias(p), Anchor(p), Tag(p)}
      PROVE  Live(q) /\ (q.ok => Tidy(q))
  <2>1. \E kind \in Nodes : \E end : q = KeyCandidate(p, kind, end)
    BY <1>6 DEF Alias, Anchor, Tag, Nodes
  <2> QED
    BY <1>3, <2>1, KeyCandidateKeeps, KeyCandidateTidy DEF Keeps
<1> QED
  BY <1>2, <1>4, <1>5, <1>6, CommentTidy

LEMMA FirstTidy ==
  ASSUME ScanInv, FetchFirst, Tidy(parser) \/ (parser.tokens = <<>> /\ parser.keys = <<>>)
  PROVE  Tidy(parser')
<1> DEFINE token == Token("StreamStart", parser.pos, parser.pos)
           keys == Append(parser.keys, NoKey)
<1>1. PICK d : /\ Live(d) /\ d.tokens = parser.tokens
               /\ d.keys = keys /\ parser' = Add(d, token)
  BY FirstIs
<1>2. token.kind \notin BlockStarts
  BY TokenKind DEF BlockStarts
<1> HIDE DEF token
<1>3. Listed(parser.keys) /\ ~NoKey.possible
  BY DEF ScanInv, Live, Scanning, NoKey, Key
<1>4. /\ Len(parser.keys) \in Nat /\ DOMAIN parser.keys = 1 .. Len(parser.keys)
      /\ DOMAIN keys = 1 .. Len(parser.keys) + 1
      /\ keys[Len(parser.keys) + 1] = NoKey /\ \A l \in 1 .. Len(parser.keys) : keys[l] = parser.keys[l]
  BY <1>3, ListedAppend, ListedLen
<1> HIDE DEF keys
<1>5. \A l \in Possible(d) : l \in Possible(parser) /\ d.keys[l] = parser.keys[l]
  <2>1. \A l \in DOMAIN keys : l \in 1 .. Len(parser.keys) \/ l = Len(parser.keys) + 1
    BY <1>4
  <2> QED
    BY <1>1, <1>3, <1>4, <2>1 DEF Possible
<1>6. Tidy(d)
  <2>1. CASE Tidy(parser)
    <3>1. Weaker(d, parser)
      BY <1>1, <1>5 DEF Weaker
    <3> QED
      BY <2>1, <3>1, WeakerAimed
  <2>2. CASE parser.tokens = <<>> /\ parser.keys = <<>>
    <3>1. Possible(d) = {}
      BY <1>4, <1>5, <2>2 DEF Possible
    <3> QED
      BY <1>1, <2>2, <3>1 DEF Tidy, Follow, Shut, Aimed, Placed
  <2> QED
    BY <2>1, <2>2
<1> QED
  BY <1>1, <1>2, <1>6, TidyTakes, TakesAdd

\* Handing the head out changes no token.
LEMMA ReturnTidy ==
  ASSUME ScanInv, Tidy(parser), Return
  PROVE  Tidy(parser')
<1> DEFINE level == CHOOSE level \in HeadLevel : TRUE
           p == IF HeadLevel = {} THEN parser ELSE DropStaleKey(parser, level)
           over == parser.tokens[parser.parsed + 1].kind = "StreamEnd"
<1>1. parser' = [p EXCEPT !.parsed = @ + 1, !.ended = over]
  BY DEF Return
<1>2. Tidy(p)
  BY DropStaleKeyWeaker, WeakerAimed DEF Tidy
<1> HIDE DEF p, over
<1>3. parser'.tokens = p.tokens /\ parser'.keys = p.keys
  BY <1>1, <1>2 DEF Tidy, Live, Scanning
<1>4. Live(parser')
  BY ReturnOnward DEF Onward
<1>5. Weaker(parser', p)
  BY <1>3, <1>4 DEF Weaker, Possible
<1> QED
  BY <1>2, <1>5, WeakerAimed

\* Once it has started, the scanner is between two tokens, or has reported an error.
FirstInv ==
  /\ ScanInv /\ OpensWithItsFirst
  /\ parser.ok => \/ Tidy(parser)
                  \/ ~parser.started /\ parser.tokens = <<>> /\ parser.keys = <<>>

LEMMA TidyOpens ==
  ASSUME NEW p, Tidy(p), NEW i \in 1 .. p.parsed - 1
  PROVE  OpensRight(p.tokens[i].kind, p.tokens[i + 1].kind)
<1>1. i \in DOMAIN p.tokens /\ i + 1 \in DOMAIN p.tokens
  BY LiveLen, ListedLen DEF Tidy
<1> QED
  BY <1>1 DEF Tidy, Follow

LEMMA KeptOpens ==
  ASSUME Live(parser), OpensWithItsFirst, Keeps(parser', parser)
  PROVE  OpensWithItsFirst'
<1>1. parser.parsed \in Nat
  BY LiveLen
<1>2. \A i \in 1 .. parser.parsed - 1 : i \in 1 .. parser.parsed /\ i + 1 \in 1 .. parser.parsed
  BY <1>1
<1> QED
  BY <1>2 DEF OpensWithItsFirst, Keeps

LEMMA FirstInvInit ==
  ASSUME NEW text, Start(text)
  PROVE  FirstInv
<1>1. ScanInv
  BY ScanInit
<1>2. parser.tokens = <<>> /\ parser.keys = <<>> /\ ~parser.started /\ parser.parsed = 0
  BY DEF Start, Fresh
<1>3. OpensWithItsFirst
  BY <1>2 DEF OpensWithItsFirst
<1> QED
  BY <1>1, <1>2, <1>3 DEF FirstInv

LEMMA FirstInvStep ==
  ASSUME FirstInv, [Next]_vars
  PROVE  FirstInv'
<1>1. ScanInv /\ ScanInv'
  BY ScanStep DEF FirstInv
<1>2. ASSUME parser' = parser PROVE FirstInv'
  BY <1>1, <1>2 DEF FirstInv, OpensWithItsFirst
<1>3. ASSUME Tidy(parser') PROVE FirstInv'
  <2>1. OpensWithItsFirst'
    BY <1>3, TidyOpens DEF OpensWithItsFirst, OpensRight
  <2> QED
    BY <1>1, <1>3, <2>1 DEF FirstInv
<1>4. ASSUME Live(parser), Keeps(parser', parser), ~parser'.ok PROVE FirstInv'
  BY <1>1, <1>4, KeptOpens DEF FirstInv
<1>5. CASE Call \/ Fail \/ Finished \/ UNCHANGED vars
  BY <1>2, <1>5 DEF Call, Fail, Finished, vars
<1>6. CASE FetchFirst
  <2>1. parser.ok
    BY <1>6 DEF FetchFirst, Wanting
  <2> QED
    BY <1>1, <1>3, <1>6, <2>1, FirstTidy DEF FirstInv
<1>7. CASE Fetch
  <2>1. parser.ok /\ parser.started
    BY <1>7 DEF Fetch, Wanting
  <2>2. Tidy(parser)
    BY <2>1 DEF FirstInv
  <2>3. CASE parser'.ok
    BY <1>3, <1>7, <2>2, <2>3, FetchTidy
  <2>4. CASE ~parser'.ok
    BY <1>1, <1>4, <1>7, <2>4, FetchKeeps
  <2> QED
    BY <2>3, <2>4
<1>8. ASSUME Behind, parser.ok PROVE Tidy(parser)
  <2>1. parser.tokens # <<>>
    <3>1. parser.parsed \in 0 .. Len(parser.tokens) /\ Len(parser.tokens) \in Nat
      BY <1>1, ListedLen DEF ScanInv, Live, Scanning
    <3> QED
      BY <1>8, <3>1 DEF Behind
  <2> QED
    BY <1>8, <2>1 DEF FirstInv
<1>9. CASE Return
  <2>1. Tidy(parser)
    BY <1>8, <1>9 DEF Return
  <2> QED
    BY <1>1, <1>3, <1>9, <2>1, ReturnTidy
<1>10. CASE LoseHead
  <2>1. parser' = Error(parser) /\ Live(parser)
    BY <1>8, <1>10 DEF LoseHead, HeadIsLost, Tidy
  <2> QED
    BY <1>4, <2>1, ErrorKeeps
<1> QED
  BY <1>5, <1>6, <1>7, <1>9, <1>10 DEF Next

\* A block begins with what made the scanner open it, for every text: the KEY
\* and the start of its mapping are put, one in front of the other, before the
\* token that is the key, or at the end where the VALUE follows
\* (yaml_parser_fetch_value, yaml_insert_token).
THEOREM FirstInFront == Spec => []OpensWithItsFirst
<1>1. Init => FirstInv
  BY FirstInvInit DEF Init
<1>2. FirstInv => OpensWithItsFirst
  BY DEF FirstInv
<1> QED
  BY <1>1, <1>2, FirstInvStep, PTL DEF Spec

-----------------------------------------------------------------------------
(* Characters of a text, and how far a run of them reaches.                *)

\* A text: a sequence of characters.
TextLike(s) == s \in Seq({s[i] : i \in DOMAIN s})

LEMMA TextLen ==
  ASSUME NEW s, TextLike(s)
  PROVE  Len(s) \in Nat /\ DOMAIN s = 1 .. Len(s)
BY DEF TextLike

LEMMA CharIn ==
  ASSUME NEW s, TextLike(s), NEW i \in Int, Ch(s, i) # "z"
  PROVE  i \in 1 .. Len(s) /\ i + 1 \in 1 .. Len(s) + 1
<1>1. i \in DOMAIN s
  BY DEF Ch
<1> QED
  BY <1>1, TextLen

LEMMA CharEnd ==
  ASSUME NEW s, TextLike(s)
  PROVE  Ch(s, Len(s) + 1) = "z"
<1>1. Len(s) + 1 \notin DOMAIN s
  BY TextLen
<1> QED
  BY <1>1 DEF Ch

LEMMA MinIs ==
  ASSUME NEW n \in Nat, NEW S \in SUBSET (0 .. n), S # {}
  PROVE  Min(S) \in S /\ \A k \in S : Min(S) <= k
BY SmallestExists DEF Min

LEMMA MaxIs ==
  ASSUME NEW n \in Nat, NEW S \in SUBSET (0 .. n), S # {}
  PROVE  Max(S) \in S /\ \A k \in S : k <= Max(S)
<1>1. PICK m \in S : \A k \in S : k <= m
  BY LargestExists
<1>2. \A k \in S : m >= k
  BY <1>1
<1>3. Max(S) \in S /\ \A k \in S : Max(S) >= k
  BY <1>2 DEF Max
<1> QED
  BY <1>3

LEMMA PastIs ==
  ASSUME NEW s, TextLike(s), NEW i \in 1 .. Len(s) + 1, NEW C, "z" \notin C
  PROVE  /\ Past(s, i, C) \in i .. Len(s) + 1 /\ Ch(s, Past(s, i, C)) \notin C
         /\ \A j \in i .. Past(s, i, C) - 1 : Ch(s, j) \in C
<1> DEFINE S == {j \in i .. Len(s) + 1 : Ch(s, j) \notin C}
<1>1. Len(s) + 1 \in S
  BY TextLen, CharEnd
<1>2. S \in SUBSET (0 .. Len(s) + 1) /\ Len(s) + 1 \in Nat
  BY TextLen
<1>3. Past(s, i, C) = Min(S)
  BY DEF Past
<1>4. Min(S) \in S /\ \A k \in S : Min(S) <= k
  <2> HIDE DEF S
  <2> QED
    BY <1>1, <1>2, MinIs
<1>5. ASSUME NEW j \in i .. Min(S) - 1 PROVE Ch(s, j) \in C
  <2>1. Min(S) \in i .. Len(s) + 1 /\ Len(s) \in Nat
    BY <1>4, TextLen
  <2>2. j \in i .. Len(s) + 1 /\ ~(Min(S) <= j)
    BY <2>1
  <2> QED
    BY <1>4, <2>2
<1> QED
  BY <1>3, <1>4, <1>5

LEMMA UptoIs ==
  ASSUME NEW s, TextLike(s), NEW i \in 1 .. Len(s) + 1, NEW C
  PROVE  /\ Upto(s, i, C) \in i .. Len(s) + 1
         /\ Ch(s, Upto(s, i, C)) \in C \/ Upto(s, i, C) = Len(s) + 1
         /\ \A j \in i .. Upto(s, i, C) - 1 : Ch(s, j) \notin C
<1> DEFINE S == {j \in i .. Len(s) + 1 : Ch(s, j) \in C} \cup {Len(s) + 1}
<1>1. S \in SUBSET (0 .. Len(s) + 1) /\ Len(s) + 1 \in Nat /\ Len(s) + 1 \in S
  BY TextLen
<1>2. Upto(s, i, C) = Min(S)
  BY DEF Upto
<1>3. Min(S) \in S /\ \A k \in S : Min(S) <= k
  <2> HIDE DEF S
  <2> QED
    BY <1>1, MinIs
<1>4. Min(S) \in i .. Len(s) + 1
  BY <1>1, <1>3
<1>5. ASSUME NEW j \in i .. Min(S) - 1 PROVE Ch(s, j) \notin C
  <2>1. j \in i .. Len(s) + 1 /\ ~(Min(S) <= j)
    BY <1>1, <1>4
  <2> QED
    BY <1>3, <2>1
<1> QED
  BY <1>2, <1>3, <1>4, <1>5

\* Up to the end of a line or of the text.
LEMMA UptoBreakz ==
  ASSUME NEW s, TextLike(s), NEW i \in 1 .. Len(s) + 1
  PROVE  /\ Upto(s, i, Breakz) \in i .. Len(s) + 1 /\ Ch(s, Upto(s, i, Breakz)) \in Breakz
         /\ \A j \in i .. Upto(s, i, Breakz) - 1 : Ch(s, j) \notin Break
<1>1. "z" \in Breakz /\ Break \subseteq Breakz
  BY DEF Breakz
<1> QED
  BY <1>1, UptoIs, CharEnd

LEMMA Classes ==
  /\ "z" \notin Blank \cup Break /\ "z" \notin Blank /\ "z" \notin {" "} /\ "z" \notin {" "} \cup Break
  /\ "z" \notin Digit /\ "z" \notin Hex /\ "z" \notin Alpha /\ "z" \notin Uri
  /\ "#" \notin Breakz /\ "z" \in Breakz /\ "z" \in Blankz /\ Break \subseteq Breakz /\ "#" \notin Blank \cup Break
<1>1. DOMAIN Digits = 1 .. 10 /\ DOMAIN HexDigits = 1 .. 16
  BY DEF Digits, HexDigits
<1>2. \A i \in 1 .. 10 : Digits[i] # "z"
  BY DEF Digits
<1>3. \A i \in 1 .. 16 : HexDigits[i] # "z"
  BY DEF HexDigits, Digits
<1>4. "z" \notin Digit /\ "z" \notin Hex
  BY <1>1, <1>2, <1>3 DEF Digit, Hex
<1>5. "z" \notin Alpha
  BY <1>4 DEF Alpha
<1>6. "z" \notin Uri
  BY <1>5 DEF Uri
<1> QED
  BY <1>4, <1>5, <1>6 DEF Blank, Break, Breakz, Blankz

-----------------------------------------------------------------------------
(* Lines and columns.                                                      *)

\* Two positions with no line break between them are on one line.
LEMMA SameLine ==
  ASSUME NEW s, NEW i \in Nat, NEW j \in Nat, i <= j,
         \A k \in i .. j - 1 : Ch(s, k) \notin Break
  PROVE  Starts(s, j) = Starts(s, i) /\ Line(s, j) = Line(s, i)
<1>1. ASSUME NEW k \in Starts(s, j) PROVE k \in Starts(s, i)
  <2>1. k \in 1 .. j - 1 /\ Ch(s, k) \in Break
    BY DEF Starts
  <2>2. k \notin i .. j - 1
    BY <2>1
  <2> QED
    BY <2>1, <2>2 DEF Starts
<1>2. ASSUME NEW k \in Starts(s, i) PROVE k \in Starts(s, j)
  BY DEF Starts
<1>3. Starts(s, j) = Starts(s, i)
  BY <1>1, <1>2
<1> QED
  BY <1>3 DEF Line

\* The lines are counted in order.
LEMMA LineGrows ==
  ASSUME NEW s, NEW i \in Nat, NEW j \in Nat, i <= j
  PROVE  Line(s, i) \in Nat /\ Line(s, j) \in Nat /\ Line(s, i) <= Line(s, j)
<1>1. Starts(s, i) \subseteq Starts(s, j) /\ Starts(s, j) \subseteq 1 .. j - 1
  BY DEF Starts
<1>2. IsFiniteSet(Starts(s, j)) /\ IsFiniteSet(Starts(s, i))
  <2>1. IsFiniteSet(1 .. j - 1)
    BY FS_Interval
  <2> QED
    BY <1>1, <2>1, FS_Subset
<1> QED
  BY <1>1, <1>2, FS_Subset, FS_CardinalityType DEF Line

\* Where the line of a position starts.
LEMMA ColumnIs ==
  ASSUME NEW s, NEW i \in Nat \ {0}
  PROVE  /\ Column(s, i) \in 0 .. i - 1
         /\ \A j \in i - Column(s, i) .. i - 1 : Ch(s, j) \notin Break
         /\ Column(s, i) # i - 1 => Ch(s, i - Column(s, i) - 1) \in Break
<1> DEFINE S == Starts(s, i) \cup {0}
<1>1. S \in SUBSET (0 .. i - 1) /\ i - 1 \in Nat /\ 0 \in S
  BY DEF Starts
<1>2. Max(S) \in S /\ \A k \in S : k <= Max(S)
  <2> HIDE DEF S
  <2> QED
    BY <1>1, MaxIs
<1>3. Column(s, i) = i - 1 - Max(S)
  BY DEF Column
<1>4. ASSUME NEW j \in i - Column(s, i) .. i - 1 PROVE Ch(s, j) \notin Break
  <2>1. j \in 1 .. i - 1 /\ ~(j <= Max(S)) /\ Max(S) \in 0 .. i - 1
    BY <1>1, <1>2, <1>3
  <2> QED
    BY <1>2, <2>1 DEF Starts
<1>5. Max(S) \in 0 .. i - 1
  BY <1>1, <1>2
<1>6. ASSUME Column(s, i) # i - 1 PROVE Ch(s, i - Column(s, i) - 1) \in Break
  <2>1. Max(S) # 0 /\ i - Column(s, i) - 1 = Max(S)
    BY <1>3, <1>5, <1>6
  <2> QED
    BY <1>2, <2>1 DEF Starts
<1>7. Column(s, i) \in 0 .. i - 1
  <2> HIDE DEF S
  <2> QED
    BY <1>3, <1>5
<1> QED
  BY <1>4, <1>6, <1>7

-----------------------------------------------------------------------------
(* Between two tokens.                                                     *)

Places(s) == 1 .. Len(s) + 1

\* There are only blanks, line breaks and comments from i up to e.
Empty(s, i, e) ==
  \A j \in i .. e - 1 :
    \/ Ch(s, j) \in Blank \cup Break
    \/ \E k \in i .. j : Ch(s, k) = "#" /\ Line(s, k) = Line(s, j)

LEMMA EmptyOn ==
  ASSUME NEW s, NEW i \in Int, NEW e \in Int, NEW f \in Int, i <= e, e <= f,
         Empty(s, i, e), Empty(s, e, f)
  PROVE  Empty(s, i, f)
<1> SUFFICES ASSUME NEW j \in i .. f - 1
             PROVE  \/ Ch(s, j) \in Blank \cup Break
                    \/ \E k \in i .. j : Ch(s, k) = "#" /\ Line(s, k) = Line(s, j)
  BY DEF Empty
<1>1. CASE j < e
  BY <1>1 DEF Empty
<1>2. CASE j >= e
  <2>1. j \in e .. f - 1 /\ \A k \in e .. j : k \in i .. j
    BY <1>2
  <2> QED
    BY <2>1 DEF Empty
<1> QED
  BY <1>1, <1>2

LEMMA EmptyItself ==
  ASSUME NEW s, NEW i \in Int
  PROVE  Empty(s, i, i)
BY DEF Empty

LEMMA EmptyRun ==
  ASSUME NEW s, NEW i, NEW e, \A j \in i .. e - 1 : Ch(s, j) \in Blank \cup Break
  PROVE  Empty(s, i, e)
BY DEF Empty

LEMMA EmptyPast ==
  ASSUME NEW s, TextLike(s), NEW i \in Places(s), NEW C \in SUBSET (Blank \cup Break)
  PROVE  /\ Past(s, i, C) \in i .. Len(s) + 1 /\ Ch(s, Past(s, i, C)) \notin C
         /\ Empty(s, i, Past(s, i, C))
<1>1. "z" \notin C
  BY Classes
<1> QED
  BY <1>1, PastIs, EmptyRun DEF Places

\* The rest of a line from a '#' on.
LEMMA EmptyComment ==
  ASSUME NEW s, NEW i \in Nat, NEW e \in Nat, Ch(s, i) = "#", \A j \in i .. e - 1 : Ch(s, j) \notin Break
  PROVE  Empty(s, i, e)
<1> SUFFICES ASSUME NEW j \in i .. e - 1
             PROVE  \E k \in i .. j : Ch(s, k) = "#" /\ Line(s, k) = Line(s, j)
  BY DEF Empty
<1>1. j \in Nat /\ i <= j /\ i \in i .. j /\ \A k \in i .. j - 1 : k \in i .. e - 1
  OBVIOUS
<1>2. Line(s, j) = Line(s, i)
  BY <1>1, SameLine
<1> QED
  BY <1>1, <1>2

LEMMA CommentsEndIs ==
  ASSUME NEW s, TextLike(s), NEW i \in Places(s), Ch(s, i) = "#"
  PROVE  /\ CommentsEnd(s, i) \in i .. Len(s) + 1 /\ CommentsEnd(s, i) \in Int
         /\ Empty(s, i, CommentsEnd(s, i))
<1> DEFINE S == Places(s)
           val == [j \in S |-> Upto(s, j, Breakz)]
           next == [j \in S |-> Past(s, val[j], Blank \cup Break)]
           stop == {j \in S : ~(Ch(s, next[j]) = "#" /\ next[j] - val[j] < PeekLimit)}
           m == [j \in S |-> Len(s) + 1 - j]
           Is(f) == f = [j \in 1 .. Len(s) + 1 |->
                          LET e == Upto(s, j, Breakz)
                              n == Past(s, e, Blank \cup Break)
                          IN IF Ch(s, n) = "#" /\ n - e < PeekLimit THEN f[n] ELSE e]
           end == CHOOSE f : Is(f)
<1>1. CommentsEnd(s, i) = end[i]
  BY DEF CommentsEnd
<1>2. Len(s) \in Nat
  BY TextLen
<1>3. ASSUME NEW j \in S
      PROVE  /\ val[j] \in j .. Len(s) + 1 /\ Ch(s, val[j]) \in Breakz
             /\ \A k \in j .. val[j] - 1 : Ch(s, k) \notin Break
             /\ next[j] \in val[j] .. Len(s) + 1 /\ Empty(s, val[j], next[j])
  <2>1. /\ val[j] \in j .. Len(s) + 1 /\ Ch(s, val[j]) \in Breakz
        /\ \A k \in j .. val[j] - 1 : Ch(s, k) \notin Break
    BY UptoBreakz DEF Places
  <2>2. val[j] \in Places(s)
    BY <1>2, <2>1 DEF Places
  <2> HIDE DEF val
  <2>3. next[j] \in val[j] .. Len(s) + 1 /\ Empty(s, val[j], next[j])
    BY <2>2, EmptyPast
  <2> QED
    BY <2>1, <2>3
<1>4. \A f : Is(f) <=> Scans(S, stop, val, next, f)
  BY DEF Scans, Places
<1> HIDE DEF val, next
<1>5. m \in [S -> Nat]
  BY <1>2 DEF Places
<1>6. ASSUME NEW j \in S \ stop PROVE next[j] \in S /\ j < next[j] /\ Ch(s, next[j]) = "#"
  <2>1. Ch(s, next[j]) = "#"
    OBVIOUS
  <2>2. val[j] # next[j]
    BY <1>3, <2>1, Classes
  <2> QED
    BY <1>2, <1>3, <2>1, <2>2 DEF Places
<1>7. Nears(S, stop, next, m)
  BY <1>2, <1>6 DEF Nears, Places
<1> HIDE DEF stop, m
<1>8. Is(end)
  <2>1. \E f : Is(f)
    <3> HIDE DEF Is
    <3> QED
      BY <1>4, <1>5, <1>7, ScanExists
  <2> HIDE DEF Is
  <2> QED
    BY <2>1
<1> DEFINE T == {j \in S : Ch(s, j) = "#" => end[j] \in j .. Len(s) + 1 /\ Empty(s, j, end[j])}
<1> HIDE DEF Is, end
<1>9. \A j \in S : end[j] = IF j \in stop THEN val[j] ELSE end[next[j]]
  <2>1. Scans(S, stop, val, next, end)
    BY <1>4, <1>8
  <2> HIDE DEF S
  <2> QED
    BY <2>1 DEF Scans
<1>10. ASSUME NEW j \in S, Ch(s, j) = "#" PROVE Empty(s, j, val[j])
  <2>1. j \in Nat /\ val[j] \in Nat
    BY <1>2, <1>3 DEF Places
  <2> QED
    BY <1>3, <1>10, <2>1, EmptyComment
<1>11. \A j \in S : j \in stop => j \in T
  BY <1>3, <1>9, <1>10
<1>12. ASSUME NEW j \in S \ stop, next[j] \in T PROVE j \in T
  <2> SUFFICES ASSUME Ch(s, j) = "#" PROVE end[j] \in j .. Len(s) + 1 /\ Empty(s, j, end[j])
    OBVIOUS
  <2>1. end[j] = end[next[j]] /\ end[next[j]] \in next[j] .. Len(s) + 1 /\ Empty(s, next[j], end[next[j]])
    BY <1>6, <1>9, <1>12
  <2>2. val[j] \in j .. Len(s) + 1 /\ next[j] \in val[j] .. Len(s) + 1 /\ j \in Int /\ Empty(s, val[j], next[j])
    BY <1>2, <1>3 DEF Places
  <2>3. Empty(s, j, val[j])
    BY <1>10
  <2>4. Empty(s, j, next[j])
    BY <1>2, <2>2, <2>3, EmptyOn
  <2>5. Empty(s, j, end[j])
    BY <1>2, <2>1, <2>2, <2>4, EmptyOn
  <2> QED
    BY <1>2, <2>1, <2>2, <2>5
<1>13. S \subseteq T
  <2> HIDE DEF S, T
  <2> QED
    BY <1>5, <1>7, <1>11, <1>12, ScanInduction
<1>14. end[i] \in i .. Len(s) + 1 /\ Empty(s, i, end[i])
  BY <1>13
<1> QED
  BY <1>1, <1>2, <1>14

LEMMA LineCommentEndIs ==
  ASSUME NEW s, TextLike(s), NEW i \in Places(s)
  PROVE  LineCommentEnd(s, i) \in i .. Len(s) + 1 /\ Empty(s, i, LineCommentEnd(s, i))
<1> DEFINE hash == Past(s, i, Blank)
           end == Upto(s, hash, Breakz)
<1>1. Len(s) \in Nat /\ i \in Nat /\ i \in i .. Len(s) + 1
  BY TextLen DEF Places
<1>2. CASE LineCommentEnd(s, i) = i
  BY <1>1, <1>2, EmptyItself
<1>3. CASE LineCommentEnd(s, i) # i
  <2>1. LineCommentEnd(s, i) = end /\ Ch(s, hash) = "#"
    BY <1>3 DEF LineCommentEnd
  <2>2. hash \in i .. Len(s) + 1 /\ Empty(s, i, hash)
    BY EmptyPast
  <2> HIDE DEF hash
  <2>3. hash \in Places(s)
    BY <1>1, <2>2 DEF Places
  <2>4. end \in hash .. Len(s) + 1 /\ \A j \in hash .. end - 1 : Ch(s, j) \notin Break
    BY <2>3, UptoBreakz DEF Places
  <2> HIDE DEF end
  <2>5. Empty(s, hash, end)
    BY <1>1, <2>1, <2>2, <2>4, EmptyComment
  <2>6. Empty(s, i, end)
    BY <1>1, <2>2, <2>4, <2>5, EmptyOn
  <2> QED
    BY <1>1, <2>1, <2>2, <2>4, <2>6
<1> QED
  BY <1>2, <1>3

-----------------------------------------------------------------------------
(* Anchors, tags and directives.                                           *)

\* A scan from i on stops there or behind it, or fails.
Reaches(s, i, e) == e = Failed \/ e \in i .. Len(s) + 1

LEMMA ReachesOn ==
  ASSUME NEW s, NEW i \in Int, NEW j \in Int, i <= j, NEW e, Reaches(s, j, e)
  PROVE  Reaches(s, i, e)
BY DEF Reaches

LEMMA AnchorEndReaches ==
  ASSUME NEW s, TextLike(s), NEW i \in 1 .. Len(s)
  PROVE  Reaches(s, i, AnchorEnd(s, i))
<1> DEFINE j == Past(s, i + 1, Alpha)
<1>1. Len(s) \in Nat /\ i + 1 \in 1 .. Len(s) + 1
  BY TextLen
<1>2. j \in i + 1 .. Len(s) + 1
  BY <1>1, PastIs, Classes
<1>3. AnchorEnd(s, i) = j \/ AnchorEnd(s, i) = Failed
  BY DEF AnchorEnd
<1> HIDE DEF j
<1> QED
  BY <1>1, <1>2, <1>3 DEF Reaches

LEMMA TagHandleReaches ==
  ASSUME NEW s, TextLike(s), NEW i \in Places(s), NEW directive
  PROVE  Reaches(s, i, TagHandleEnd(s, i, directive))
<1> DEFINE j == Past(s, i + 1, Alpha)
<1>1. Len(s) \in Nat
  BY TextLen
<1>2. CASE Ch(s, i) = "!"
  <2>1. i \in 1 .. Len(s) /\ i + 1 \in 1 .. Len(s) + 1
    BY <1>2, CharIn DEF Places
  <2>2. j \in i + 1 .. Len(s) + 1
    BY <2>1, PastIs, Classes
  <2> HIDE DEF j
  <2>3. Ch(s, j) = "!" => j + 1 \in i .. Len(s) + 1
    BY <1>1, <2>1, <2>2, CharIn
  <2>4. \/ TagHandleEnd(s, i, directive) = Failed \/ TagHandleEnd(s, i, directive) = j
        \/ Ch(s, j) = "!" /\ TagHandleEnd(s, i, directive) = j + 1
    BY Zenon DEF TagHandleEnd, j
  <2> QED
    BY <1>1, <2>1, <2>2, <2>3, <2>4 DEF Reaches
<1>3. CASE Ch(s, i) # "!"
  BY <1>3 DEF TagHandleEnd, Reaches
<1> QED
  BY <1>2, <1>3

LEMMA UriEscapeReaches ==
  ASSUME NEW s, TextLike(s), NEW i \in Places(s)
  PROVE  Reaches(s, i + 1, UriEscapeEnd(s, i))
<1> DEFINE escaped(j) == Ch(s, j) = "%" /\ Ch(s, j + 1) \in Hex /\ Ch(s, j + 2) \in Hex
           octet(j) == 16 * HexValue(Ch(s, j + 1)) + HexValue(Ch(s, j + 2))
           width == CASE octet(i) < 128 -> 1
                      [] octet(i) \in 192 .. 223 -> 2
                      [] octet(i) \in 224 .. 239 -> 3
                      [] octet(i) \in 240 .. 247 -> 4
                      [] OTHER -> 0
<1>1. Len(s) \in Nat /\ i \in Nat
  BY TextLen DEF Places
<1>2. UriEscapeEnd(s, i) = IF /\ escaped(i) /\ width > 0
                              /\ \A k \in 1 .. width - 1 :
                                   escaped(i + 3 * k) /\ octet(i + 3 * k) \in 128 .. 191
                           THEN i + 3 * width ELSE Failed
  BY DEF UriEscapeEnd
<1>3. width \in {0, 1, 2, 3, 4}
  <2> HIDE DEF octet
  <2> QED
    OBVIOUS
<1>4. ASSUME NEW k \in 0 .. 3, escaped(i + 3 * k)
      PROVE  i + 3 * k + 2 <= Len(s)
  <2>1. Ch(s, i + 3 * k + 2) # "z" /\ i + 3 * k + 2 \in Int
    BY <1>1, <1>4, Classes
  <2> QED
    BY <2>1, CharIn
<1> HIDE DEF width, octet
<1>5. ASSUME UriEscapeEnd(s, i) # Failed
      PROVE  UriEscapeEnd(s, i) = i + 3 * width /\ width >= 1 /\ i + 3 * (width - 1) + 2 <= Len(s)
  <2>1. /\ escaped(i) /\ width > 0 /\ \A k \in 1 .. width - 1 : escaped(i + 3 * k)
        /\ UriEscapeEnd(s, i) = i + 3 * width
    <3> HIDE DEF escaped
    <3> QED
      BY <1>2, <1>5
  <2>2. escaped(i + 3 * (width - 1))
    <3> HIDE DEF escaped
    <3>1. CASE width = 1
      <4>1. i + 3 * (width - 1) = i
        BY <1>1, <3>1
      <4> QED
        BY <2>1, <4>1
    <3>2. CASE width # 1
      <4>1. width - 1 \in 1 .. width - 1
        BY <1>3, <2>1, <3>2
      <4> QED
        BY <2>1, <4>1
    <3> QED
      BY <3>1, <3>2
  <2>3. width - 1 \in 0 .. 3
    BY <1>3, <2>1
  <2>4. i + 3 * (width - 1) + 2 <= Len(s)
    <3> HIDE DEF escaped
    <3> QED
      BY <1>4, <2>2, <2>3
  <2> QED
    BY <1>3, <2>1, <2>4
<1> QED
  BY <1>1, <1>3, <1>5 DEF Reaches

LEMMA UriReaches ==
  ASSUME NEW s, TextLike(s), NEW i \in 0 .. Len(s) + 1, NEW head
  PROVE  Reaches(s, i, UriEnd(s, i, head)) /\ (i = Failed => UriEnd(s, i, head) = Failed)
<1> DEFINE S == 0 .. Len(s) + 1
           stop == {j \in S : j = Failed \/ (Ch(s, j) # "%" /\ Ch(s, j) \notin Uri)}
           val == [j \in S |-> IF j = Failed THEN Failed ELSE j]
           next == [j \in S |-> IF Ch(s, j) = "%" THEN UriEscapeEnd(s, j) ELSE j + 1]
           m == [j \in S |-> IF j = 0 THEN 0 ELSE Len(s) + 2 - j]
           Is(f) == f = [j \in 0 .. Len(s) + 1 |->
                          IF j = Failed THEN Failed
                          ELSE IF Ch(s, j) = "%" THEN f[UriEscapeEnd(s, j)]
                          ELSE IF Ch(s, j) \in Uri THEN f[j + 1]
                          ELSE j]
           end == CHOOSE f : Is(f)
<1>1. UriEnd(s, i, head) = IF end[i] = i /\ ~head THEN Failed ELSE end[i]
  BY DEF UriEnd
<1>2. Len(s) \in Nat
  BY TextLen
<1>3. ASSUME NEW f PROVE Is(f) <=> Scans(S, stop, val, next, f)
  <2>1. ASSUME NEW j \in S
        PROVE  (IF j \in stop THEN val[j] ELSE f[next[j]])
               = IF j = Failed THEN Failed
                 ELSE IF Ch(s, j) = "%" THEN f[UriEscapeEnd(s, j)]
                 ELSE IF Ch(s, j) \in Uri THEN f[j + 1] ELSE j
    OBVIOUS
  <2> HIDE DEF stop, val, next
  <2> QED
    BY <2>1 DEF Scans
<1>4. m \in [S -> Nat]
  BY <1>2
<1>5. ASSUME NEW j \in S \ stop
      PROVE  next[j] = Failed \/ next[j] \in j + 1 .. Len(s) + 1
  <2>1. j \in 1 .. Len(s)
    <3>1. Ch(s, j) # "z" /\ j \in Int
      BY <1>2, Classes
    <3> QED
      BY <3>1, CharIn
  <2>2. CASE Ch(s, j) = "%"
    BY <2>1, <2>2, UriEscapeReaches DEF Reaches, Places
  <2>3. CASE Ch(s, j) # "%"
    BY <1>2, <2>1, <2>3
  <2> QED
    BY <2>2, <2>3
<1>6. ASSUME NEW j \in S \ stop PROVE j # 0
  <2>1. j # Failed
    OBVIOUS
  <2> QED
    BY <2>1 DEF Failed
<1> HIDE DEF next, stop
<1>7. Nears(S, stop, next, m)
  <2> SUFFICES ASSUME NEW j \in S \ stop PROVE next[j] \in S /\ m[next[j]] < m[j]
    BY DEF Nears
  <2>1. j \in 1 .. Len(s) + 1
    BY <1>2, <1>6
  <2>2. next[j] \in S
    BY <1>2, <1>5, <2>1 DEF Failed
  <2>3. CASE next[j] = 0
    BY <1>2, <2>1, <2>2, <2>3
  <2>4. CASE next[j] # 0
    <3>1. next[j] \in j + 1 .. Len(s) + 1
      BY <1>5, <2>4 DEF Failed
    <3> QED
      BY <1>2, <2>1, <2>2, <3>1
  <2> QED
    BY <2>2, <2>3, <2>4
<1> HIDE DEF m
<1>8. Is(end)
  <2>1. \E f : Is(f)
    <3> HIDE DEF Is, S, val
    <3> QED
      BY <1>3, <1>4, <1>7, ScanExists
  <2> HIDE DEF Is
  <2> QED
    BY <2>1
<1> HIDE DEF Is, end
<1>9. \A j \in S : end[j] = IF j \in stop THEN val[j] ELSE end[next[j]]
  <2>1. Scans(S, stop, val, next, end)
    BY <1>3, <1>8
  <2> HIDE DEF S
  <2> QED
    BY <2>1 DEF Scans
<1> DEFINE T == {j \in S : Reaches(s, j, end[j])}
<1>10. \A j \in S : j \in stop => j \in T
  <2> SUFFICES ASSUME NEW j \in S, j \in stop PROVE Reaches(s, j, end[j])
    OBVIOUS
  <2>1. end[j] = j
    BY <1>9 DEF Failed
  <2> QED
    BY <1>2, <2>1 DEF Reaches
<1>11. ASSUME NEW j \in S \ stop, next[j] \in T PROVE j \in T
  <2>1. end[j] = end[next[j]] /\ Reaches(s, next[j], end[next[j]])
    BY <1>9, <1>11
  <2>2. CASE next[j] = Failed
    <3>1. next[j] \in stop /\ next[j] \in S
      <4>1. next[j] \in S
        BY <1>11
      <4> QED
        BY <2>2, <4>1 DEF stop
    <3>2. end[next[j]] = Failed
      BY <1>9, <2>2, <3>1
    <3> QED
      BY <2>1, <3>2 DEF Reaches
  <2>3. CASE next[j] # Failed
    BY <1>2, <1>5, <2>1, <2>3 DEF Reaches
  <2> QED
    BY <2>2, <2>3
<1>12. S \subseteq T
  <2> HIDE DEF S, T
  <2> QED
    BY <1>4, <1>7, <1>10, <1>11, ScanInduction
<1>13. Reaches(s, i, end[i])
  BY <1>12
<1>14. ASSUME i = Failed PROVE end[i] = Failed
  <2>1. i \in stop
    BY <1>14 DEF stop
  <2> QED
    BY <1>9, <1>14, <2>1
<1> QED
  BY <1>1, <1>13, <1>14 DEF Reaches

LEMMA BeforeBlankReaches ==
  ASSUME NEW s, NEW i, NEW e, Reaches(s, i, e)
  PROVE  Reaches(s, i, BeforeBlank(s, e))
BY DEF BeforeBlank, Reaches

LEMMA TagEndReaches ==
  ASSUME NEW s, TextLike(s), NEW i \in Places(s)
  PROVE  Reaches(s, i, TagEnd(s, i))
<1> DEFINE uri == UriEnd(s, i + 2, FALSE)
           handle == TagHandleEnd(s, i, FALSE)
<1>1. Len(s) \in Nat /\ i \in Nat
  BY TextLen DEF Places
<1>2. ASSUME Ch(s, i + 1) = "<" PROVE Reaches(s, i, VerbatimEnd(s, uri))
  <2>1. i + 1 \in 1 .. Len(s) /\ i + 2 \in 0 .. Len(s) + 1
    BY <1>1, <1>2, CharIn
  <2>2. Reaches(s, i + 2, uri)
    BY <2>1, UriReaches
  <2> HIDE DEF uri
  <2>3. ASSUME uri # Failed, Ch(s, uri) = ">" PROVE uri + 1 \in i .. Len(s) + 1
    BY <1>1, <2>2, <2>3, CharIn DEF Reaches
  <2> QED
    BY <2>3 DEF VerbatimEnd, Reaches
<1>3. Reaches(s, i, SuffixEnd(s, i, handle))
  <2>1. Reaches(s, i, handle)
    BY TagHandleReaches
  <2> HIDE DEF handle
  <2>2. handle \in 0 .. Len(s) + 1
    BY <1>1, <2>1 DEF Reaches, Failed
  <2>3. Reaches(s, handle, SuffixEnd(s, i, handle))
    BY <2>2, UriReaches DEF SuffixEnd
  <2>4. CASE handle = Failed
    BY <2>2, <2>4, UriReaches DEF SuffixEnd, Reaches
  <2>5. CASE handle # Failed
    BY <1>1, <2>1, <2>2, <2>3, <2>5, ReachesOn DEF Reaches
  <2> QED
    BY <2>4, <2>5
<1> HIDE DEF uri, handle
<1> QED
  BY <1>2, <1>3, BeforeBlankReaches DEF TagEnd, uri, handle

LEMMA VersionNumberReaches ==
  ASSUME NEW s, TextLike(s), NEW i \in Places(s)
  PROVE  Reaches(s, i, VersionNumberEnd(s, i))
<1> DEFINE j == Past(s, i, Digit)
<1>1. j \in i .. Len(s) + 1
  BY PastIs, Classes DEF Places
<1>2. VersionNumberEnd(s, i) = j \/ VersionNumberEnd(s, i) = Failed
  BY DEF VersionNumberEnd
<1> HIDE DEF j
<1> QED
  BY <1>1, <1>2 DEF Reaches

LEMMA VersionReaches ==
  ASSUME NEW s, TextLike(s), NEW i \in Places(s)
  PROVE  Reaches(s, i, VersionEnd(s, i))
<1> DEFINE j == Past(s, i, Blank)
           major == VersionNumberEnd(s, j)
<1>1. Len(s) \in Nat /\ i \in Nat
  BY TextLen DEF Places
<1>2. j \in i .. Len(s) + 1 /\ j \in Places(s)
  BY <1>1, PastIs, Classes DEF Places
<1> HIDE DEF j
<1>3. Reaches(s, j, major)
  BY <1>2, VersionNumberReaches
<1>4. VersionEnd(s, i) = MinorEnd(s, major)
  BY DEF VersionEnd, j
<1> HIDE DEF major
<1>5. CASE major # Failed /\ Ch(s, major) = "."
  <2>1. major \in j .. Len(s) + 1 /\ major + 1 \in Places(s)
    BY <1>1, <1>2, <1>3, <1>5, CharIn DEF Reaches, Places
  <2>2. Reaches(s, major + 1, VersionNumberEnd(s, major + 1))
    BY <2>1, VersionNumberReaches
  <2>3. Reaches(s, i, VersionNumberEnd(s, major + 1))
    BY <1>1, <1>2, <2>1, <2>2, ReachesOn
  <2> QED
    BY <1>4, <1>5, <2>3 DEF MinorEnd
<1>6. CASE ~(major # Failed /\ Ch(s, major) = ".")
  BY <1>4, <1>6 DEF MinorEnd, Reaches
<1> QED
  BY <1>5, <1>6

LEMMA TagDirectiveReaches ==
  ASSUME NEW s, TextLike(s), NEW i \in Places(s)
  PROVE  Reaches(s, i, TagDirectiveEnd(s, i))
<1> DEFINE j == Past(s, i, Blank)
           handle == TagHandleEnd(s, j, TRUE)
           k == Past(s, handle, Blank)
<1>1. Len(s) \in Nat /\ i \in Nat
  BY TextLen DEF Places
<1>2. j \in i .. Len(s) + 1 /\ j \in Places(s)
  BY <1>1, PastIs, Classes DEF Places
<1> HIDE DEF j
<1>3. Reaches(s, j, handle)
  BY <1>2, TagHandleReaches
<1>4. TagDirectiveEnd(s, i) = PrefixEnd(s, handle)
  BY DEF TagDirectiveEnd, j
<1> HIDE DEF handle
<1>5. CASE handle # Failed /\ Ch(s, handle) \in Blank
  <2>1. handle \in j .. Len(s) + 1 /\ handle \in 1 .. Len(s) + 1
    BY <1>1, <1>2, <1>3, <1>5 DEF Reaches, Places
  <2>2. k \in handle .. Len(s) + 1
    BY <2>1, PastIs, Classes
  <2>3. PrefixEnd(s, handle) = BeforeBlank(s, UriEnd(s, k, FALSE))
    BY <1>5 DEF PrefixEnd
  <2> HIDE DEF k
  <2>4. k \in 0 .. Len(s) + 1
    BY <1>1, <2>1, <2>2
  <2>5. Reaches(s, k, UriEnd(s, k, FALSE))
    BY <2>4, UriReaches
  <2>6. k \in Int /\ i <= k
    BY <1>1, <1>2, <2>1, <2>2
  <2>7. Reaches(s, i, UriEnd(s, k, FALSE))
    <3> DEFINE uri == UriEnd(s, k, FALSE)
    <3>1. Reaches(s, k, uri)
      BY <2>5
    <3> HIDE DEF uri
    <3>2. Reaches(s, i, uri)
      BY <1>1, <3>1, <2>6, ReachesOn
    <3> QED
      BY <3>2 DEF uri
  <2> QED
    BY <1>4, <2>3, <2>7, BeforeBlankReaches
<1>6. CASE ~(handle # Failed /\ Ch(s, handle) \in Blank)
  BY <1>4, <1>6 DEF PrefixEnd, Reaches
<1> QED
  BY <1>5, <1>6

LEMMA RestOfLineIs ==
  ASSUME NEW s, TextLike(s), NEW i \in Places(s)
  PROVE  RestOfLineEnd(s, i) \in i .. Len(s) + 1 /\ Empty(s, i, RestOfLineEnd(s, i))
<1>1. Len(s) \in Nat /\ i \in Nat /\ i \in i .. Len(s) + 1
  BY TextLen DEF Places
<1>2. CASE Ch(s, i) = "#"
  <2> DEFINE e == Upto(s, i, Breakz)
  <2>1. e \in i .. Len(s) + 1 /\ \A j \in i .. e - 1 : Ch(s, j) \notin Break
    BY UptoBreakz DEF Places
  <2>2. RestOfLineEnd(s, i) = e
    BY <1>2 DEF RestOfLineEnd
  <2> HIDE DEF e
  <2>3. e \in Nat
    BY <1>1, <2>1
  <2> QED
    BY <1>1, <1>2, <2>1, <2>2, <2>3, EmptyComment
<1>3. CASE Ch(s, i) # "#"
  BY <1>1, <1>3, EmptyItself DEF RestOfLineEnd
<1> QED
  BY <1>2, <1>3

LEMMA NextLineIs ==
  ASSUME NEW s, TextLike(s), NEW i \in Places(s)
  PROVE  NextLine(s, i) \in i .. Len(s) + 1 /\ Empty(s, i, NextLine(s, i))
<1>1. Len(s) \in Nat /\ i \in Nat
  BY TextLen DEF Places
<1>2. CASE Ch(s, i) \in Break
  <2>1. Ch(s, i) # "z"
    BY <1>2, Classes
  <2>2. i + 1 \in i .. Len(s) + 1
    BY <1>1, <2>1, CharIn
  <2>3. Empty(s, i, i + 1)
    BY <1>1, <1>2 DEF Empty
  <2> QED
    BY <1>2, <2>2, <2>3 DEF NextLine
<1>3. CASE Ch(s, i) \notin Break
  BY <1>1, <1>3, EmptyItself DEF NextLine, Places
<1> QED
  BY <1>2, <1>3

\* What a line goes on with behind end: blanks, a comment, its break.
LEMMA LineTailIs ==
  ASSUME NEW s, TextLike(s), NEW i \in Places(s)
  PROVE  LET eol == RestOfLineEnd(s, Past(s, i, Blank))
         IN NextLine(s, eol) \in i .. Len(s) + 1 /\ Empty(s, i, NextLine(s, eol))
<1> DEFINE j == Past(s, i, Blank)
           eol == RestOfLineEnd(s, j)
           stop == NextLine(s, eol)
<1>1. Len(s) \in Nat /\ i \in Nat
  BY TextLen DEF Places
<1>2. j \in i .. Len(s) + 1 /\ Empty(s, i, j)
  BY EmptyPast
<1> HIDE DEF j
<1>3. j \in Places(s)
  BY <1>1, <1>2 DEF Places
<1>4. eol \in j .. Len(s) + 1 /\ Empty(s, j, eol)
  BY <1>3, RestOfLineIs
<1> HIDE DEF eol
<1>5. eol \in Places(s)
  BY <1>1, <1>2, <1>4 DEF Places
<1>6. stop \in eol .. Len(s) + 1 /\ Empty(s, eol, stop)
  BY <1>5, NextLineIs
<1> HIDE DEF stop
<1>7. stop \in i .. Len(s) + 1
  BY <1>1, <1>2, <1>4, <1>6
<1>8. Empty(s, i, eol)
  BY <1>1, <1>2, <1>4, EmptyOn
<1>9. Empty(s, i, stop)
  BY <1>1, <1>2, <1>4, <1>6, <1>8, EmptyOn
<1> QED
  BY <1>7, <1>9 DEF stop, eol, j

\* A directive's token ends in front of what ends its line.
LEMMA DirectiveToIs ==
  ASSUME NEW s, TextLike(s), NEW i \in Places(s), NEW kind, NEW e, Reaches(s, i, e)
  PROVE  LET d == DirectiveTo(s, kind, e)
         IN d.stop # Failed => /\ d.kind = kind /\ d.end \in i .. d.stop /\ d.stop \in i .. Len(s) + 1
                               /\ Empty(s, d.end, d.stop)
<1> DEFINE eol == RestOfLineEnd(s, Past(s, e, Blank))
           d == DirectiveTo(s, kind, e)
<1>1. Len(s) \in Nat /\ i \in Nat
  BY TextLen DEF Places
<1> SUFFICES ASSUME d.stop # Failed
             PROVE  /\ d.kind = kind /\ d.end \in i .. d.stop /\ d.stop \in i .. Len(s) + 1
                    /\ Empty(s, d.end, d.stop)
  OBVIOUS
<1>2. d = DirectiveEnding(s, kind, e, eol)
  BY DEF DirectiveTo
<1> HIDE DEF d, eol
<1>3. e # Failed /\ d = [stop |-> NextLine(s, eol), end |-> e, kind |-> kind]
  BY <1>2 DEF DirectiveEnding
<1>4. e \in i .. Len(s) + 1 /\ e \in Places(s)
  BY <1>1, <1>3 DEF Reaches, Places
<1>5. NextLine(s, eol) \in e .. Len(s) + 1 /\ Empty(s, e, NextLine(s, eol))
  BY <1>4, LineTailIs DEF eol
<1>6. NextLine(s, eol) \in i .. Len(s) + 1 /\ e \in i .. NextLine(s, eol)
  BY <1>1, <1>4, <1>5
<1> QED
  BY <1>3, <1>5, <1>6

DirectiveKinds == {"VersionDirective", "TagDirective"}

LEMMA DirectiveIs ==
  ASSUME NEW s, TextLike(s), NEW i \in 1 .. Len(s)
  PROVE  LET d == Directive(s, i)
         IN d.stop # Failed => /\ d.kind \in DirectiveKinds
                               /\ d.end \in i .. d.stop /\ d.stop \in i .. Len(s) + 1
                               /\ Empty(s, d.end, d.stop)
<1> DEFINE j == Past(s, i + 1, Alpha)
           name == SubSeq(s, i + 1, j - 1)
           d == Directive(s, i)
           none == DirectiveTo(s, "none", Failed)
           version == DirectiveTo(s, "VersionDirective", VersionEnd(s, j))
           tag == DirectiveTo(s, "TagDirective", TagDirectiveEnd(s, j))
           Good(x) == x.stop # Failed => /\ x.kind \in DirectiveKinds
                                         /\ x.end \in i .. x.stop /\ x.stop \in i .. Len(s) + 1
                                         /\ Empty(s, x.end, x.stop)
<1>1. Len(s) \in Nat /\ i \in Nat /\ i + 1 \in Places(s)
  BY TextLen DEF Places
<1>2. j \in i + 1 .. Len(s) + 1 /\ j \in Places(s)
  <2>1. j \in i + 1 .. Len(s) + 1
    BY <1>1, PastIs, Classes DEF Places
  <2> HIDE DEF j
  <2> QED
    BY <1>1, <2>1 DEF Places
<1>3. d = none \/ d = version \/ d = tag
  BY DEF Directive, DirectiveNamed
<1> HIDE DEF j
<1>4. Good(none)
  <2>1. none.stop = Failed
    BY DEF DirectiveTo, DirectiveEnding
  <2> QED
    BY <2>1
<1>5. Good(version)
  <2>1. Reaches(s, j, VersionEnd(s, j))
    BY <1>2, VersionReaches
  <2>2. version.stop # Failed => /\ version.kind = "VersionDirective"
           /\ version.end \in j .. version.stop /\ version.stop \in j .. Len(s) + 1
           /\ Empty(s, version.end, version.stop)
    BY <1>2, <2>1, DirectiveToIs
  <2> HIDE DEF version
  <2> QED
    BY <1>1, <1>2, <2>2 DEF DirectiveKinds
<1>6. Good(tag)
  <2>1. Reaches(s, j, TagDirectiveEnd(s, j))
    BY <1>2, TagDirectiveReaches
  <2>2. tag.stop # Failed => /\ tag.kind = "TagDirective"
           /\ tag.end \in j .. tag.stop /\ tag.stop \in j .. Len(s) + 1
           /\ Empty(s, tag.end, tag.stop)
    BY <1>2, <2>1, DirectiveToIs
  <2> HIDE DEF tag
  <2> QED
    BY <1>1, <1>2, <2>2 DEF DirectiveKinds
<1> HIDE DEF d, none, version, tag, Good
<1>7. Good(d)
  BY <1>3, <1>4, <1>5, <1>6
<1> QED
  BY <1>7 DEF Good, d

-----------------------------------------------------------------------------
(* Scalars.                                                                *)

LEMMA EscapeCodeIs ==
  ASSUME NEW s, NEW i, NEW digits, IsEscapeCode(s, i, digits)
  PROVE  digits > 0 /\ \A k \in 1 .. digits : Ch(s, i + 1 + k) \in Hex
BY DEF IsEscapeCode

LEMMA EscapeReaches ==
  ASSUME NEW s, TextLike(s), NEW i \in 1 .. Len(s), EscapeLength(s, i) # Failed
  PROVE  EscapeLength(s, i) \in Nat \ {0} /\ i + 1 + EscapeLength(s, i) <= Len(s) + 1
<1> DEFINE c == Ch(s, i + 1)
           digits == EscapeDigits(c)
           len == EscapeLength(s, i)
<1>1. Len(s) \in Nat /\ i \in Nat
  BY TextLen
<1>2. \/ c # "z" /\ len = 1
      \/ digits > 0 /\ len = 1 + digits /\ \A k \in 1 .. digits : Ch(s, i + 1 + k) \in Hex
  <2>1. "z" \notin ShortEscapes
    BY DEF ShortEscapes, Break
  <2>2. (c \in ShortEscapes /\ len = 1) \/ (IsEscapeCode(s, i, digits) /\ len = 1 + digits)
    BY DEF EscapeLength
  <2> HIDE DEF digits, len, c
  <2>3. IsEscapeCode(s, i, digits) => digits > 0 /\ \A k \in 1 .. digits : Ch(s, i + 1 + k) \in Hex
    BY EscapeCodeIs
  <2> QED
    BY <2>1, <2>2, <2>3
<1>3. digits \in {0, 2, 4, 8}
  BY DEF EscapeDigits
<1> HIDE DEF digits, len
<1>4. CASE c # "z" /\ len = 1
  <2>1. c # "z" /\ i + 1 \in Int
    BY <1>1, <1>4
  <2>2. i + 1 \in 1 .. Len(s)
    BY <2>1, CharIn
  <2> QED
    BY <1>1, <1>4, <2>2 DEF len
<1>5. CASE digits > 0 /\ len = 1 + digits /\ \A k \in 1 .. digits : Ch(s, i + 1 + k) \in Hex
  <2>1. Ch(s, i + 1 + digits) \in Hex
    BY <1>3, <1>5
  <2>2. i + 1 + digits \in 1 .. Len(s)
    BY <1>1, <1>3, <2>1, CharIn, Classes
  <2> QED
    BY <1>1, <1>3, <1>5, <2>2 DEF len
<1> QED
  BY <1>2, <1>4, <1>5

LEMMA QuotedReaches ==
  ASSUME NEW s, TextLike(s), NEW i \in 1 .. Len(s), Ch(s, i) \in Quotes
  PROVE  Reaches(s, i, QuotedEnd(s, i))
<1> DEFINE one == "'"
           two == "\""
           back == "\\"
           quote == Ch(s, i)
           S == Places(s)
           over(j) == Ch(s, j) = "z" \/ AtDocumentMarker(s, j)
           doubled(j) == Ch(s, j) = one /\ quote = one /\ Ch(s, j + 1) = one
           closes(j) == Ch(s, j) = quote /\ ~(quote = one /\ Ch(s, j + 1) = one)
           escapes(j) == Ch(s, j) = back /\ quote = two
           stop == {j \in S : over(j) \/ closes(j) \/ (escapes(j) /\ EscapeLength(s, j) = Failed)}
           val == [j \in S |-> IF closes(j) THEN j + 1 ELSE Failed]
           next == [j \in S |-> IF doubled(j) THEN j + 2
                                ELSE IF escapes(j) THEN j + 1 + EscapeLength(s, j) ELSE j + 1]
           m == [j \in S |-> Len(s) + 1 - j]
           Is(f) == f = [j \in 1 .. Len(s) + 1 |->
                          CASE Ch(s, j) = "z" \/ AtDocumentMarker(s, j) -> Failed
                            [] Ch(s, j) = one /\ quote = one /\ Ch(s, j + 1) = one -> f[j + 2]
                            [] Ch(s, j) = quote /\ ~(quote = one /\ Ch(s, j + 1) = one) -> j + 1
                            [] Ch(s, j) = back /\ quote = two ->
                                 IF EscapeLength(s, j) = Failed THEN Failed
                                 ELSE f[j + 1 + EscapeLength(s, j)]
                            [] OTHER -> f[j + 1]]
           end == CHOOSE f : Is(f)
<1>1. quote = one \/ quote = two
  BY DEF Quotes
<1>2. /\ one # "z" /\ two # "z" /\ back # "z" /\ one # two /\ one # back /\ two # back
       /\ one \notin {"-", "."} /\ two \notin {"-", "."} /\ back \notin {"-", "."}
  BY Zenon
<1>3. QuotedEnd(s, i) = end[i + 1]
  BY DEF QuotedEnd
<1> HIDE DEF one, two, back, quote
<1>4. Len(s) \in Nat /\ i \in Nat
  BY TextLen
<1>5. ASSUME NEW j \in S, j \notin stop
      PROVE  next[j] \in j + 1 .. Len(s) + 1
  <2>1. j \in 1 .. Len(s) /\ j \in Int
    <3>1. Ch(s, j) # "z" /\ j \in Int
      BY <1>4, <1>5 DEF Places
    <3> QED
      BY <3>1, CharIn
  <2>2. ASSUME doubled(j) PROVE j + 2 <= Len(s) + 1
    <3>1. Ch(s, j + 1) # "z" /\ j + 1 \in Int
      BY <2>1, <2>2, <1>2
    <3>2. j + 1 \in 1 .. Len(s)
      BY <3>1, CharIn
    <3> QED
      BY <1>4, <2>1, <3>2
  <2>3. ASSUME escapes(j)
        PROVE  EscapeLength(s, j) \in Nat /\ j + 1 + EscapeLength(s, j) <= Len(s) + 1
    <3>1. EscapeLength(s, j) # Failed
      BY <1>5, <2>3
    <3> QED
      BY <2>1, <3>1, EscapeReaches
  <2> HIDE DEF doubled, escapes
  <2> QED
    BY <1>4, <2>1, <2>2, <2>3
<1>6. ASSUME NEW f PROVE Is(f) <=> Scans(S, stop, val, next, f)
  <2> DEFINE body(j) == CASE Ch(s, j) = "z" \/ AtDocumentMarker(s, j) -> Failed
                          [] Ch(s, j) = one /\ quote = one /\ Ch(s, j + 1) = one -> f[j + 2]
                          [] Ch(s, j) = quote /\ ~(quote = one /\ Ch(s, j + 1) = one) -> j + 1
                          [] Ch(s, j) = back /\ quote = two ->
                               IF EscapeLength(s, j) = Failed THEN Failed
                               ELSE f[j + 1 + EscapeLength(s, j)]
                          [] OTHER -> f[j + 1]
  <2>1. ASSUME NEW j \in S
        PROVE  body(j) = IF j \in stop THEN val[j] ELSE f[next[j]]
    <3>1. AtDocumentMarker(s, j) => Ch(s, j) \in {"-", "."}
      <4>1. 0 \in 0 .. 2 /\ j + 0 = j
        BY <1>4 DEF Places
      <4> QED
        BY <4>1 DEF AtDocumentMarker, DocumentMarkerAt
    <3>2. CASE over(j)
      BY <3>1, <3>2, <1>1, <1>2
    <3>3. CASE doubled(j)
      BY <3>1, <3>3, <1>1, <1>2
    <3>4. CASE closes(j)
      BY <3>1, <3>4, <1>1, <1>2
    <3>5. CASE escapes(j)
      BY <3>1, <3>5, <1>1, <1>2
    <3>6. CASE ~over(j) /\ ~doubled(j) /\ ~closes(j) /\ ~escapes(j)
      BY <3>6
    <3> QED
      BY <3>2, <3>3, <3>4, <3>5, <3>6
  <2>2. Is(f) <=> f = [j \in 1 .. Len(s) + 1 |-> body(j)]
    OBVIOUS
  <2> HIDE DEF stop, val, next, body, Is
  <2> QED
    BY <2>1, <2>2 DEF Scans, Places
<1>7. m \in [S -> Nat]
  BY <1>4 DEF Places
<1>8. ASSUME NEW j \in S, j \in stop PROVE Reaches(s, j, val[j])
  <2>1. CASE closes(j)
    <3>1. Ch(s, j) # "z" /\ j \in Int
      BY <1>4, <1>1, <1>2, <2>1 DEF Places
    <3>2. j + 1 \in j .. Len(s) + 1
      BY <1>4, <3>1, CharIn
    <3> QED
      BY <2>1, <3>2 DEF Reaches
  <2>2. CASE ~closes(j)
    BY <2>2 DEF Reaches
  <2> QED
    BY <2>1, <2>2
<1> HIDE DEF stop, val, next
<1>9. Nears(S, stop, next, m)
  BY <1>4, <1>5 DEF Nears, Places
<1> HIDE DEF m
<1>10. Is(end)
  <2>1. \E f : Is(f)
    <3> HIDE DEF Is, S
    <3> QED
      BY <1>6, <1>7, <1>9, ScanExists
  <2> HIDE DEF Is
  <2> QED
    BY <2>1
<1> HIDE DEF Is, end
<1>11. \A j \in S : end[j] = IF j \in stop THEN val[j] ELSE end[next[j]]
  <2>1. Scans(S, stop, val, next, end)
    BY <1>6, <1>10
  <2> HIDE DEF S
  <2> QED
    BY <2>1 DEF Scans
<1> DEFINE T == {j \in S : Reaches(s, j, end[j])}
<1>12. \A j \in S : j \in stop => j \in T
  BY <1>8, <1>11
<1>13. ASSUME NEW j \in S \ stop, next[j] \in T PROVE j \in T
  <2>1. end[j] = end[next[j]] /\ Reaches(s, next[j], end[next[j]])
    BY <1>11, <1>13
  <2>2. next[j] \in j + 1 .. Len(s) + 1 /\ j \in Int
    BY <1>4, <1>5 DEF Places
  <2> QED
    BY <1>4, <2>1, <2>2 DEF Reaches
<1>14. S \subseteq T
  <2> HIDE DEF S, T
  <2> QED
    BY <1>7, <1>9, <1>12, <1>13, ScanInduction
<1>15. i + 1 \in S
  BY <1>4 DEF Places
<1>16. Reaches(s, i + 1, end[i + 1])
  BY <1>14, <1>15
<1> QED
  BY <1>3, <1>4, <1>16 DEF Reaches

\* A plain scalar stops at or behind its first character; what it leaves in
\* front of there is blank.
LEMMA PlainIs ==
  ASSUME NEW s, TextLike(s), NEW i \in 1 .. Len(s), NEW indent, NEW inFlow,
         Plain(s, i, indent, inFlow).stop # Failed
  PROVE  LET d == Plain(s, i, indent, inFlow)
         IN d.stop \in i .. Len(s) + 1 /\ d.end \in i .. d.stop /\ Empty(s, d.end, d.stop)
<1> DEFINE S == Places(s)
           run == [j \in S |-> Min({k \in j .. Len(s) + 1 : EndsPlain(s, k, inFlow)})]
           next == [j \in S |-> Past(s, run[j], Blank \cup Break)]
           abused(j, k) ==
             \E n \in j .. k - 1 : /\ Ch(s, n) = "\t" /\ Column(s, n) < indent
                                   /\ \E b \in j .. n - 1 : Ch(s, b) \in Break
           here(j) == AtDocumentMarker(s, j) \/ Ch(s, j) = "#"
           stop == {j \in S : \/ here(j)
                              \/ Ch(s, run[j]) \notin Blank \cup Break
                              \/ abused(run[j], next[j])
                              \/ (~inFlow /\ Column(s, next[j]) < indent)}
           val == [j \in S |-> IF here(j) THEN j
                               ELSE IF Ch(s, run[j]) \notin Blank \cup Break THEN run[j]
                               ELSE IF abused(run[j], next[j]) THEN Failed
                               ELSE next[j]]
           m == [j \in S |-> Len(s) + 1 - j]
           Is(f) == f = [j \in 1 .. Len(s) + 1 |->
                          IF AtDocumentMarker(s, j) \/ Ch(s, j) = "#" THEN j
                          ELSE LET r == Min({k \in j .. Len(s) + 1 : EndsPlain(s, k, inFlow)})
                                   n == Past(s, r, Blank \cup Break)
                               IN IF Ch(s, r) \notin Blank \cup Break THEN r
                                  ELSE IF abused(r, n) THEN Failed
                                  ELSE IF ~inFlow /\ Column(s, n) < indent THEN n
                                  ELSE f[n]]
           end == CHOOSE f : Is(f)
           full == {j \in i .. end[i] - 1 : Ch(s, j) \notin Blank \cup Break} \cup {i - 1}
           d == Plain(s, i, indent, inFlow)
<1>1. d.stop = end[i] /\ d.end = 1 + Max(full)
  BY DEF Plain
<1>2. Len(s) \in Nat /\ i \in Nat
  BY TextLen
<1>3. ASSUME NEW j \in S
      PROVE  run[j] \in j .. Len(s) + 1
  <2> DEFINE ends == {k \in j .. Len(s) + 1 : EndsPlain(s, k, inFlow)}
  <2>1. EndsPlain(s, Len(s) + 1, inFlow)
    BY CharEnd, Classes DEF EndsPlain
  <2>2. ends # {} /\ ends \subseteq j .. Len(s) + 1 /\ ends \in SUBSET (0 .. Len(s) + 1)
    BY <1>2, <2>1 DEF Places
  <2>4. Len(s) + 1 \in Nat
    BY <1>2
  <2> HIDE DEF ends
  <2>3. Min(ends) \in ends
    BY <1>2, <2>2, <2>4, MinIs
  <2> QED
    BY <2>2, <2>3 DEF ends
<1>4. ASSUME NEW j \in S
      PROVE  /\ next[j] \in run[j] .. Len(s) + 1 /\ Ch(s, next[j]) \notin Blank \cup Break
             /\ j \in Int /\ run[j] \in Int
  <2>1. run[j] \in 1 .. Len(s) + 1 /\ j \in Int
    BY <1>2, <1>3 DEF Places
  <2>2. /\ Past(s, run[j], Blank \cup Break) \in run[j] .. Len(s) + 1
        /\ Ch(s, Past(s, run[j], Blank \cup Break)) \notin Blank \cup Break
    <3> HIDE DEF run
    <3> QED
      BY <2>1, PastIs, Classes
  <2>3. next[j] = Past(s, run[j], Blank \cup Break)
    OBVIOUS
  <2> HIDE DEF run, next
  <2> QED
    BY <1>2, <2>1, <2>2, <2>3
<1>5. ASSUME NEW f PROVE Is(f) <=> Scans(S, stop, val, next, f)
  <2> DEFINE body(j) == IF AtDocumentMarker(s, j) \/ Ch(s, j) = "#" THEN j
                        ELSE IF Ch(s, run[j]) \notin Blank \cup Break THEN run[j]
                        ELSE IF abused(run[j], next[j]) THEN Failed
                        ELSE IF ~inFlow /\ Column(s, next[j]) < indent THEN next[j]
                        ELSE f[next[j]]
  <2>1. Is(f) <=> f = [j \in S |-> body(j)]
    BY DEF Places
  <2> HIDE DEF run, next, abused
  <2>2. ASSUME NEW j \in S
        PROVE  body(j) = IF j \in stop THEN val[j] ELSE f[next[j]]
    OBVIOUS
  <2> HIDE DEF stop, val, body, Is
  <2> QED
    BY <2>1, <2>2 DEF Scans
<1>6. m \in [S -> Nat]
  BY <1>2 DEF Places
<1>7. ASSUME NEW j \in S, j \notin stop PROVE next[j] \in j + 1 .. Len(s) + 1
  <2>1. Ch(s, run[j]) \in Blank \cup Break
    BY <1>7
  <2> HIDE DEF run, next
  <2>2. run[j] # next[j]
    BY <1>4, <2>1
  <2> QED
    BY <1>2, <1>3, <1>4, <2>2
<1> HIDE DEF run, next, abused
<1>8. ASSUME NEW j \in S, j \in stop PROVE Reaches(s, j, val[j])
  <2>1. val[j] \in {Failed, j, run[j], next[j]}
    OBVIOUS
  <2>2. j \in j .. Len(s) + 1 /\ run[j] \in j .. Len(s) + 1 /\ next[j] \in j .. Len(s) + 1
    BY <1>2, <1>3, <1>4 DEF Places
  <2> HIDE DEF val
  <2> QED
    BY <2>1, <2>2 DEF Reaches
<1> HIDE DEF stop, val
<1>9. Nears(S, stop, next, m)
  BY <1>2, <1>7 DEF Nears, Places
<1> HIDE DEF m
<1>10. Is(end)
  <2>1. \E f : Is(f)
    <3> HIDE DEF Is, S
    <3> QED
      BY <1>5, <1>6, <1>9, ScanExists
  <2> HIDE DEF Is
  <2> QED
    BY <2>1
<1> HIDE DEF Is, end
<1>11. \A j \in S : end[j] = IF j \in stop THEN val[j] ELSE end[next[j]]
  <2>1. Scans(S, stop, val, next, end)
    BY <1>5, <1>10
  <2> HIDE DEF S
  <2> QED
    BY <2>1 DEF Scans
<1> DEFINE T == {j \in S : Reaches(s, j, end[j])}
<1>12. \A j \in S : j \in stop => j \in T
  BY <1>8, <1>11
<1>13. ASSUME NEW j \in S \ stop, next[j] \in T PROVE j \in T
  <2>1. end[j] = end[next[j]] /\ Reaches(s, next[j], end[next[j]])
    BY <1>11, <1>13
  <2>2. next[j] \in j + 1 .. Len(s) + 1 /\ j \in Int
    BY <1>2, <1>7 DEF Places
  <2> QED
    BY <1>2, <2>1, <2>2 DEF Reaches
<1>14. S \subseteq T
  <2> HIDE DEF S, T
  <2> QED
    BY <1>6, <1>9, <1>12, <1>13, ScanInduction
<1>15. end[i] \in i .. Len(s) + 1
  <2>1. i \in S
    BY <1>2 DEF Places
  <2>2. Reaches(s, i, end[i])
    BY <1>14, <2>1
  <2> QED
    BY <1>1, <2>2 DEF Reaches
<1>16. Len(s) + 1 \in Nat /\ full # {} /\ full \in SUBSET (0 .. Len(s) + 1) /\ full \subseteq i - 1 .. end[i] - 1
  BY <1>2, <1>15
<1>17. ASSUME NEW j \in i .. end[i] - 1, Ch(s, j) \notin Blank \cup Break PROVE j \in full
  BY <1>17
<1> HIDE DEF full, d
<1>18. Max(full) \in full /\ \A k \in full : k <= Max(full)
  BY <1>2, <1>16, MaxIs
<1>19. Max(full) \in i - 1 .. end[i] - 1 /\ end[i] \in Int /\ d.end = 1 + Max(full)
  <2>1. Max(full) \in i - 1 .. end[i] - 1
    BY <1>16, <1>18
  <2>2. end[i] \in Int
    BY <1>2, <1>15
  <2>3. d.end = 1 + Max(full)
    BY <1>1
  <2> HIDE DEF d
  <2> QED
    BY <2>1, <2>2, <2>3
<1> DEFINE last == Max(full)
           stops == end[i]
<1>20. last \in i - 1 .. stops - 1 /\ stops \in i .. Len(s) + 1 /\ d.end = 1 + last
  BY <1>15, <1>19
<1>21. \A k \in full : k <= last
  BY <1>18
<1>22. ASSUME NEW j \in i .. stops - 1, last < j PROVE Ch(s, j) \in Blank \cup Break
  <2> SUFFICES ASSUME Ch(s, j) \notin Blank \cup Break PROVE FALSE
    OBVIOUS
  <2>1. j \in full
    BY <1>17
  <2> HIDE DEF last, stops
  <2>2. j <= last /\ j \in Int /\ last \in Int
    BY <1>2, <1>20, <1>21, <2>1
  <2> QED
    BY <1>22, <2>2
<1> HIDE DEF last, stops
<1>23. d.end \in i .. stops
  BY <1>2, <1>20
<1>24. Empty(s, d.end, stops)
  <2> SUFFICES ASSUME NEW j \in d.end .. stops - 1 PROVE Ch(s, j) \in Blank \cup Break
    BY EmptyRun
  <2>1. last < j /\ j \in i .. stops - 1
    BY <1>2, <1>20
  <2> QED
    BY <1>22, <2>1
<1> QED
  BY <1>1, <1>15, <1>23, <1>24 DEF d, stops

-----------------------------------------------------------------------------
(* Where the lines of a block scalar end.                                  *)

\* A position that only blanks separate from the start of its line.
Indented(s, i) == \A k \in i - Column(s, i) .. i - 1 : Ch(s, k) \in Blank

LEMMA IndentedOn ==
  ASSUME NEW s, NEW i \in Nat \ {0}, NEW e \in Nat \ {0}, i <= e, Indented(s, i),
         \A k \in i .. e - 1 : Ch(s, k) \in Blank \cup Break
  PROVE  Indented(s, e)
<1> DEFINE c == Column(s, e)
           b == Column(s, i)
<1>1. \A j \in e - c .. e - 1 : Ch(s, j) \notin Break
  BY ColumnIs
<1>2. b # i - 1 => Ch(s, i - b - 1) \in Break
  BY ColumnIs
<1>3. c \in 0 .. e - 1 /\ b \in 0 .. i - 1
  BY ColumnIs
<1>4. \A j \in i - b .. i - 1 : Ch(s, j) \in Blank
  BY DEF Indented
<1> HIDE DEF c, b
<1>5. c \in Nat /\ b \in Nat /\ c <= e - 1 /\ b <= i - 1
  BY <1>3
<1>6. ASSUME NEW k \in e - c .. e - 1 PROVE Ch(s, k) \in Blank
  <2>1. k \in Int /\ e - c <= k /\ k <= e - 1
    BY <1>5
  <2>2. CASE k >= i
    <3>1. k \in i .. e - 1
      BY <2>1, <2>2
    <3>2. Ch(s, k) \notin Break
      BY <1>1
    <3> QED
      BY <3>1, <3>2
  <2>3. CASE k < i
    <3>1. k >= i - b
      <4> SUFFICES ASSUME k < i - b PROVE FALSE
        BY <1>5, <2>1
      <4>1. i - b - 1 \in e - c .. e - 1 /\ b # i - 1
        BY <1>5, <2>1, <2>3
      <4> QED
        BY <1>1, <1>2, <4>1
    <3>2. k \in i - b .. i - 1
      BY <1>5, <2>1, <2>3, <3>1
    <3> QED
      BY <1>4, <3>2
  <2> QED
    BY <2>1, <2>2, <2>3
<1> QED
  BY <1>6 DEF Indented, c

\* Right behind a line break.
LEMMA LineStartIndented ==
  ASSUME NEW s, NEW i \in Nat \ {0}, Ch(s, i) \in Break
  PROVE  Indented(s, i + 1)
<1> DEFINE e == i + 1
           c == Column(s, e)
<1>1. e \in Nat \ {0} /\ i = e - 1
  OBVIOUS
<1> HIDE DEF e
<1>2. c \in 0 .. e - 1
  BY <1>1, ColumnIs
<1>3. \A j \in e - c .. e - 1 : Ch(s, j) \notin Break
  BY <1>1, ColumnIs
<1> HIDE DEF c
<1>4. c = 0
  <2> SUFFICES ASSUME c # 0 PROVE FALSE
    OBVIOUS
  <2>1. i \in e - c .. e - 1
    BY <1>1, <1>2
  <2> QED
    BY <1>3, <2>1
<1>5. e - c .. e - 1 = {}
  BY <1>1, <1>4
<1>6. \A k \in e - c .. e - 1 : Ch(s, k) \in Blank
  BY <1>5
<1>7. Indented(s, e)
  BY <1>6 DEF Indented, c
<1> QED
  BY <1>7 DEF e

LEMMA ColumnOn ==
  ASSUME NEW s, NEW i \in Nat \ {0}, NEW e \in Nat \ {0}, i <= e,
         \A k \in i .. e - 1 : Ch(s, k) \notin Break
  PROVE  Column(s, e) = Column(s, i) + (e - i)
<1> DEFINE M == Max(Starts(s, i) \cup {0})
<1>1. Starts(s, e) = Starts(s, i)
  BY SameLine
<1>2. M \in 0 .. i
  <2> DEFINE S == Starts(s, i) \cup {0}
  <2>1. S # {} /\ S \in SUBSET (0 .. i)
    BY DEF Starts
  <2>2. i \in Nat
    OBVIOUS
  <2> HIDE DEF S
  <2>3. Max(S) \in S
    BY <2>1, <2>2, MaxIs
  <2> QED
    BY <2>1, <2>3 DEF S
<1>3. Column(s, e) = e - 1 - M /\ Column(s, i) = i - 1 - M
  BY <1>1 DEF Column
<1> HIDE DEF M
<1> QED
  BY <1>2, <1>3

LEMMA MinOfTwo ==
  ASSUME NEW a \in Int, NEW b \in Int
  PROVE  Min({a, b}) = (IF a <= b THEN a ELSE b)
BY DEF Min

LEMMA MaxOfTwo ==
  ASSUME NEW a \in Int, NEW b \in Int
  PROVE  Max({a, b}) = (IF a >= b THEN a ELSE b)
BY DEF Max

LEMMA BreaksEndIs ==
  ASSUME NEW s, TextLike(s), NEW i \in Places(s), NEW indent \in Nat
  PROVE  /\ Reaches(s, i, BreaksEnd(s, i, indent))
         /\ (Indented(s, i) /\ BreaksEnd(s, i, indent) # Failed) => Indented(s, BreaksEnd(s, i, indent))
         /\ Ch(s, i) = "z" => BreaksEnd(s, i, indent) = i
<1> DEFINE S == Places(s)
           q == [j \in S |-> Min({Past(s, j, {" "}), Max({j, j + indent - Column(s, j)})})]
           tab(j) == Ch(s, q[j]) = "\t" /\ Column(s, q[j]) < indent
           stop == {j \in S : tab(j) \/ Ch(s, q[j]) \notin Break}
           val == [j \in S |-> IF tab(j) THEN Failed ELSE q[j]]
           next == [j \in S |-> q[j] + 1]
           m == [j \in S |-> Len(s) + 1 - j]
           Is(f) == f = [j \in 1 .. Len(s) + 1 |->
                          LET p == Min({Past(s, j, {" "}), Max({j, j + indent - Column(s, j)})})
                          IN IF Ch(s, p) = "\t" /\ Column(s, p) < indent THEN Failed
                             ELSE IF Ch(s, p) \in Break THEN f[p + 1] ELSE p]
           end == CHOOSE f : Is(f)
<1>1. BreaksEnd(s, i, indent) = end[i]
  BY DEF BreaksEnd
<1>2. Len(s) \in Nat
  BY TextLen
<1>3. ASSUME NEW j \in S
      PROVE  /\ q[j] \in j .. Len(s) + 1 /\ \A k \in j .. q[j] - 1 : Ch(s, k) \in Blank
             /\ Ch(s, j) = "z" => q[j] = j
  <2> DEFINE p == Past(s, j, {" "})
             x == Max({j, j + indent - Column(s, j)})
  <2>1. j \in Nat \ {0} /\ j <= Len(s) + 1
    BY <1>2 DEF Places
  <2>2. p \in j .. Len(s) + 1
    BY PastIs, Classes DEF Places
  <2>9. \A k \in j .. p - 1 : Ch(s, k) \in Blank
    <3>1. \A k \in j .. p - 1 : Ch(s, k) \in {" "}
      BY PastIs, Classes DEF Places
    <3> QED
      BY <3>1, Zenon DEF Blank
  <2>3. Column(s, j) \in 0 .. j - 1
    BY <2>1, ColumnIs
  <2>4. x \in Int /\ x >= j
    <3>1. j \in Int /\ j + indent - Column(s, j) \in Int
      BY <2>1, <2>3
    <3> QED
      BY <3>1, MaxOfTwo
  <2>5. Ch(s, j) = "z" => p = j
    <3> SUFFICES ASSUME Ch(s, j) = "z", p # j PROVE FALSE
      OBVIOUS
    <3> HIDE DEF p
    <3>1. j \in j .. p - 1
      BY <1>2, <2>1, <2>2
    <3> QED
      BY <2>9, <3>1, Classes
  <2>6. q[j] = Min({p, x})
    OBVIOUS
  <2> HIDE DEF p, x, q
  <2>10. p \in Int
    BY <1>2, <2>1, <2>2
  <2>7. Min({p, x}) = IF p <= x THEN p ELSE x
    BY <2>4, <2>10, MinOfTwo
  <2>8. q[j] \in j .. p /\ (p = j => q[j] = j)
    BY <1>2, <2>1, <2>2, <2>4, <2>6, <2>7
  <2>11. q[j] \in j .. Len(s) + 1
    BY <1>2, <2>1, <2>2, <2>8
  <2>12. ASSUME NEW k \in j .. q[j] - 1 PROVE Ch(s, k) \in Blank
    <3>1. k \in j .. p - 1
      BY <1>2, <2>1, <2>2, <2>8
    <3> QED
      BY <2>9, <3>1, Zenon
  <2> QED
    BY <2>5, <2>8, <2>11, <2>12
<1>4. ASSUME NEW f PROVE Is(f) <=> Scans(S, stop, val, next, f)
  <2> DEFINE body(j) == IF Ch(s, q[j]) = "\t" /\ Column(s, q[j]) < indent THEN Failed
                        ELSE IF Ch(s, q[j]) \in Break THEN f[q[j] + 1] ELSE q[j]
  <2>1. Is(f) <=> f = [j \in S |-> body(j)]
    BY DEF Places
  <2> HIDE DEF q
  <2>2. ASSUME NEW j \in S
        PROVE  body(j) = IF j \in stop THEN val[j] ELSE f[next[j]]
    OBVIOUS
  <2> HIDE DEF stop, val, body, Is, next
  <2> QED
    BY <2>1, <2>2 DEF Scans
<1> HIDE DEF q
<1>5. ASSUME NEW j \in S
       PROVE  j \in Nat \ {0} /\ q[j] \in Nat \ {0} /\ j <= q[j] /\ q[j] \in j .. Len(s) + 1 /\ q[j] \in Int
  <2>1. q[j] \in j .. Len(s) + 1 /\ j \in 1 .. Len(s) + 1
    BY <1>3 DEF Places
  <2> QED
    BY <1>2, <2>1
<1>6. m \in [S -> Nat]
  BY <1>2 DEF Places
<1>7. ASSUME NEW j \in S, j \notin stop
      PROVE  next[j] \in j + 1 .. Len(s) + 1 /\ Indented(s, next[j]) /\ Ch(s, j) # "z"
  <2>1. Ch(s, q[j]) \in Break /\ Ch(s, q[j]) # "z"
    BY <1>7, Classes
  <2>2. q[j] \in Int /\ q[j] \in Nat \ {0} /\ j \in Int /\ j <= q[j]
    BY <1>5
  <2>3. q[j] + 1 \in 1 .. Len(s) + 1
    BY <2>1, <2>2, CharIn
  <2>4. Indented(s, q[j] + 1)
    BY <2>1, <2>2, LineStartIndented
  <2>5. Ch(s, j) # "z"
    BY <1>3, <2>1
  <2>6. q[j] + 1 \in j + 1 .. Len(s) + 1
    BY <1>2, <2>2, <2>3
  <2> QED
    BY <2>4, <2>5, <2>6
<1>8. ASSUME NEW j \in S, j \in stop
      PROVE  /\ Reaches(s, j, val[j])
             /\ Indented(s, j) /\ val[j] # Failed => Indented(s, val[j])
             /\ Ch(s, j) = "z" => val[j] = j
  <2>1. CASE tab(j)
    <3>1. val[j] = Failed /\ Ch(s, q[j]) # "z"
      BY <2>1
    <3> QED
      BY <1>3, <3>1 DEF Reaches
  <2>2. CASE ~tab(j)
    <3>1. val[j] = q[j]
      BY <2>2
    <3>2. j \in Nat \ {0} /\ q[j] \in Nat \ {0} /\ j <= q[j] /\ q[j] \in j .. Len(s) + 1
      BY <1>5
    <3>3. \A k \in j .. q[j] - 1 : Ch(s, k) \in Blank \cup Break
      BY <1>3
    <3>4. Indented(s, j) => Indented(s, q[j])
      BY <3>2, <3>3, IndentedOn
    <3> QED
      BY <1>3, <3>1, <3>2, <3>4 DEF Reaches
  <2> QED
    BY <2>1, <2>2
<1> HIDE DEF stop, val, next
<1>9. Nears(S, stop, next, m)
  BY <1>2, <1>7 DEF Nears, Places
<1> HIDE DEF m
<1>10. Is(end)
  <2>1. \E f : Is(f)
    <3> HIDE DEF Is, S
    <3> QED
      BY <1>4, <1>6, <1>9, ScanExists
  <2> HIDE DEF Is
  <2> QED
    BY <2>1
<1> HIDE DEF Is, end
<1>11. \A j \in S : end[j] = IF j \in stop THEN val[j] ELSE end[next[j]]
  <2>1. Scans(S, stop, val, next, end)
    BY <1>4, <1>10
  <2> HIDE DEF S
  <2> QED
    BY <2>1 DEF Scans
<1> DEFINE Good(j) == /\ Reaches(s, j, end[j])
                      /\ Indented(s, j) /\ end[j] # Failed => Indented(s, end[j])
                      /\ Ch(s, j) = "z" => end[j] = j
           T == {j \in S : Good(j)}
<1>12. \A j \in S : j \in stop => j \in T
  BY <1>8, <1>11
<1>13. ASSUME NEW j \in S \ stop, next[j] \in T PROVE j \in T
  <2>1. end[j] = end[next[j]] /\ Good(next[j])
    BY <1>11, <1>13
  <2>2. next[j] \in j + 1 .. Len(s) + 1 /\ j \in Int /\ Indented(s, next[j]) /\ Ch(s, j) # "z"
    BY <1>2, <1>7 DEF Places
  <2>3. Reaches(s, j, end[j])
    BY <1>2, <2>1, <2>2 DEF Reaches
  <2> QED
    BY <2>1, <2>2, <2>3
<1>14. S \subseteq T
  <2> HIDE DEF S, T
  <2> QED
    BY <1>6, <1>9, <1>12, <1>13, ScanInduction
<1>15. Good(i)
  BY <1>14
<1> QED
  BY <1>1, <1>15

\* Where the lines of a block scalar may end.
LineStop(s, indent, e) == Indented(s, e) \/ (Ch(s, e) = "z" /\ Column(s, e) > indent)

LEMMA LinesEndIs ==
  ASSUME NEW s, TextLike(s), NEW i \in 0 .. Len(s) + 1, NEW indent \in Nat
  PROVE  /\ Reaches(s, i, LinesEnd(s, i, indent))
         /\ i = Failed => LinesEnd(s, i, indent) = Failed
         /\ \/ LinesEnd(s, i, indent) \in {i, Failed}
            \/ LineStop(s, indent, LinesEnd(s, i, indent))
<1> DEFINE S == 0 .. Len(s) + 1
           eol == [j \in S |-> Upto(s, j, Breakz)]
           outside(j) == j = Failed \/ Column(s, j) # indent \/ Ch(s, j) = "z"
           stop == {j \in S : outside(j) \/ Ch(s, eol[j]) = "z"}
           val == [j \in S |-> IF outside(j) THEN j ELSE eol[j]]
           next == [j \in S |-> BreaksEnd(s, eol[j] + 1, indent)]
           m == [j \in S |-> IF j = 0 THEN 0 ELSE Len(s) + 2 - j]
           Is(f) == f = [j \in 0 .. Len(s) + 1 |->
                          IF j = Failed \/ Column(s, j) # indent \/ Ch(s, j) = "z" THEN j
                          ELSE LET e == Upto(s, j, Breakz)
                               IN IF Ch(s, e) = "z" THEN e ELSE f[BreaksEnd(s, e + 1, indent)]]
           end == CHOOSE f : Is(f)
<1>1. LinesEnd(s, i, indent) = end[i]
  BY DEF LinesEnd
<1>2. Len(s) \in Nat
  BY TextLen
<1>3. ASSUME NEW j \in S, ~outside(j)
      PROVE  /\ j \in Places(s) /\ eol[j] \in j .. Len(s) + 1 /\ j \in Nat \ {0} /\ eol[j] \in Nat \ {0}
             /\ Ch(s, eol[j]) \in Breakz
             /\ Ch(s, eol[j]) = "z" => Column(s, eol[j]) > indent
  <2>1. j # Failed /\ Ch(s, j) # "z" /\ Column(s, j) = indent
    BY <1>3
  <2>2. j \in 1 .. Len(s) /\ j \in Nat \ {0}
    BY <1>2, <2>1, CharIn
  <2>3. eol[j] = Upto(s, j, Breakz)
    OBVIOUS
  <2> HIDE DEF eol
  <2>4. j \in 1 .. Len(s) + 1
    BY <1>2, <2>2
  <2>5. /\ eol[j] \in j .. Len(s) + 1 /\ Ch(s, eol[j]) \in Breakz
        /\ \A k \in j .. eol[j] - 1 : Ch(s, k) \notin Break
    BY <2>3, <2>4, UptoBreakz
  <2>6. eol[j] \in Nat \ {0} /\ j <= eol[j]
    BY <1>2, <2>2, <2>5
  <2>7. Column(s, eol[j]) = Column(s, j) + (eol[j] - j)
    BY <2>2, <2>5, <2>6, ColumnOn
  <2>8. Ch(s, eol[j]) = "z" => j # eol[j]
    BY <2>1
  <2>9. Column(s, j) \in Nat
    BY <2>2, ColumnIs
  <2>10. j # eol[j] => Column(s, eol[j]) > indent
    BY <2>1, <2>2, <2>6, <2>7, <2>9
  <2> QED
    BY <2>2, <2>4, <2>5, <2>6, <2>8, <2>10 DEF Places
<1>4. ASSUME NEW f PROVE Is(f) <=> Scans(S, stop, val, next, f)
  <2> DEFINE body(j) == IF outside(j) THEN j
                        ELSE IF Ch(s, eol[j]) = "z" THEN eol[j] ELSE f[BreaksEnd(s, eol[j] + 1, indent)]
  <2>1. Is(f) <=> f = [j \in S |-> body(j)]
    OBVIOUS
  <2> HIDE DEF eol
  <2>2. ASSUME NEW j \in S
        PROVE  body(j) = IF j \in stop THEN val[j] ELSE f[next[j]]
    <3> HIDE DEF outside
    <3> QED
      OBVIOUS
  <2> HIDE DEF stop, val, body, Is, next
  <2> QED
    BY <2>1, <2>2 DEF Scans
<1> HIDE DEF eol
<1>5. m \in [S -> Nat]
  BY <1>2
<1>6. ASSUME NEW j \in S, j \notin stop
      PROVE  /\ j \in Nat \ {0} /\ eol[j] \in j .. Len(s) /\ eol[j] + 1 \in Places(s)
             /\ Reaches(s, j + 1, next[j])
             /\ next[j] # Failed => Indented(s, next[j])
  <2>1. ~outside(j) /\ Ch(s, eol[j]) # "z"
    BY <1>6
  <2>2. eol[j] \in j .. Len(s) + 1 /\ j \in Nat \ {0} /\ eol[j] \in Nat \ {0} /\ Ch(s, eol[j]) \in Break
    BY <1>3, <2>1 DEF Breakz
  <2>3. eol[j] \in Int
    BY <2>2
  <2>4. eol[j] \in 1 .. Len(s)
    BY <2>1, <2>3, CharIn
  <2>5. eol[j] + 1 \in Places(s) /\ eol[j] + 1 \in Int /\ j + 1 <= eol[j] + 1 /\ j + 1 \in Int
    BY <1>2, <2>2, <2>4 DEF Places
  <2>6. Indented(s, eol[j] + 1)
    BY <2>2, LineStartIndented
  <2>7. next[j] = BreaksEnd(s, eol[j] + 1, indent)
    OBVIOUS
  <2> HIDE DEF next
  <2>8. Reaches(s, eol[j] + 1, next[j]) /\ (next[j] # Failed => Indented(s, next[j]))
    BY <2>5, <2>6, <2>7, BreaksEndIs
  <2>9. Reaches(s, j + 1, next[j])
    BY <2>5, <2>8, ReachesOn
  <2>10. eol[j] \in j .. Len(s)
    BY <1>2, <2>2, <2>4
  <2> QED
    BY <2>2, <2>5, <2>8, <2>9, <2>10
<1>7. ASSUME NEW j \in S, j \in stop
      PROVE  /\ Reaches(s, j, val[j]) /\ (j = Failed => val[j] = Failed)
             /\ val[j] = j \/ LineStop(s, indent, val[j])
  <2>1. CASE outside(j)
    <3>1. val[j] = j
      BY <2>1
    <3>2. j = Failed \/ j \in j .. Len(s) + 1
      BY <1>2
    <3> HIDE DEF val
    <3> QED
      BY <3>1, <3>2 DEF Reaches
  <2>2. CASE ~outside(j)
    <3>1. val[j] = eol[j] /\ Ch(s, eol[j]) = "z" /\ j # Failed
      BY <1>7, <2>2
    <3> HIDE DEF val
    <3>2. eol[j] \in j .. Len(s) + 1 /\ Column(s, eol[j]) > indent
      BY <1>3, <2>2, <3>1
    <3> QED
      BY <3>1, <3>2 DEF Reaches, LineStop
  <2> QED
    BY <2>1, <2>2
<1>8. 0 \in stop
  BY <1>2 DEF Failed
<1> HIDE DEF stop, val, next
<1>9. Nears(S, stop, next, m)
  <2> SUFFICES ASSUME NEW j \in S, j \notin stop PROVE next[j] \in S /\ m[next[j]] < m[j]
    BY DEF Nears
  <2>1. j \in Nat \ {0} /\ j \in 1 .. Len(s) + 1 /\ (next[j] = 0 \/ next[j] \in j + 1 .. Len(s) + 1)
    BY <1>2, <1>6 DEF Reaches, Failed
  <2>2. next[j] \in S
    BY <1>2, <2>1
  <2> QED
    BY <1>2, <2>1, <2>2
<1> HIDE DEF m
<1>10. Is(end)
  <2>1. \E f : Is(f)
    <3> HIDE DEF Is, S
    <3> QED
      BY <1>4, <1>5, <1>9, ScanExists
  <2> HIDE DEF Is
  <2> QED
    BY <2>1
<1> HIDE DEF Is, end
<1>11. \A j \in S : end[j] = IF j \in stop THEN val[j] ELSE end[next[j]]
  <2>1. Scans(S, stop, val, next, end)
    BY <1>4, <1>10
  <2> HIDE DEF S
  <2> QED
    BY <2>1 DEF Scans
<1> DEFINE Good(j) == /\ Reaches(s, j, end[j]) /\ (j = Failed => end[j] = Failed)
                      /\ end[j] \in {j, Failed} \/ LineStop(s, indent, end[j])
           T == {j \in S : Good(j)}
<1>12. \A j \in S : j \in stop => j \in T
  BY <1>7, <1>11
<1>13. ASSUME NEW j \in S \ stop, next[j] \in T PROVE j \in T
  <2>1. end[j] = end[next[j]] /\ Good(next[j])
    BY <1>11, <1>13
  <2>2. /\ j \in Nat \ {0} /\ (next[j] = 0 \/ next[j] \in j + 1 .. Len(s) + 1)
        /\ (next[j] # Failed => Indented(s, next[j]))
    BY <1>6 DEF Reaches, Failed
  <2>3. Reaches(s, j, end[j])
    BY <1>2, <2>1, <2>2 DEF Reaches, Failed
  <2>4. end[j] \in {j, Failed} \/ LineStop(s, indent, end[j])
    BY <2>1, <2>2 DEF LineStop
  <2> QED
    BY <2>1, <2>2, <2>3, <2>4 DEF Failed
<1>14. S \subseteq T
  <2> HIDE DEF S, T
  <2> QED
    BY <1>5, <1>9, <1>12, <1>13, ScanInduction
<1>15. Good(i)
  BY <1>14
<1> QED
  BY <1>1, <1>15

LEMMA DigitValue ==
  ASSUME NEW c \in Digit
  PROVE  HexValue(c) \in Int
<1> DEFINE rest == <<"a", "b", "c", "d", "e", "f">>
<1>1. PICK i \in DOMAIN Digits : c = Digits[i]
  BY DEF Digit
<1>2. Listed(Digits) /\ Listed(rest) /\ DOMAIN Digits = 1 .. Len(Digits) /\ Len(Digits) \in Nat
  BY DEF Listed, Digits
<1>3. HexDigits = Digits \o rest
  BY DEF HexDigits
<1> HIDE DEF rest
<1>4. /\ Listed(HexDigits) /\ Len(HexDigits) = Len(Digits) + Len(rest)
      /\ \A j \in 1 .. Len(Digits) : HexDigits[j] = Digits[j]
  BY <1>2, <1>3, ListedConcat
<1>5. DOMAIN HexDigits = 1 .. Len(HexDigits) /\ Len(HexDigits) \in Nat /\ Len(rest) \in Nat
  BY <1>2, <1>4 DEF Listed
<1>6. i \in DOMAIN HexDigits /\ HexDigits[i] = c
  BY <1>1, <1>2, <1>4, <1>5
<1>7. (CHOOSE j \in DOMAIN HexDigits : HexDigits[j] = c) \in DOMAIN HexDigits
  BY <1>6
<1>8. (CHOOSE j \in DOMAIN HexDigits : HexDigits[j] = c) \in Int
  BY <1>5, <1>7
<1> QED
  BY <1>8 DEF HexValue

\* Where a block scalar's header leaves: at the start of a line or at the end.
HeaderIs(s, i, head) ==
  head.stop # Failed => /\ head.stop \in i .. Len(s) + 1 /\ head.increment \in Nat
                        /\ Indented(s, head.stop) \/ Ch(s, head.stop) = "z"

LEMMA HeaderToIs ==
  ASSUME NEW s, TextLike(s), NEW i \in Places(s), NEW e \in i .. Len(s) + 1,
         NEW increment \in Int, NEW chomp
  PROVE  HeaderIs(s, i, HeaderTo(s, increment, chomp, e))
<1> DEFINE eol == RestOfLineEnd(s, Past(s, e, Blank))
           head == HeaderTo(s, increment, chomp, e)
<1>1. Len(s) \in Nat /\ i \in Nat \ {0} /\ e \in Nat \ {0} /\ i <= e /\ e <= Len(s) + 1
  BY TextLen DEF Places
<1>2. e \in Places(s)
  BY <1>1 DEF Places
<1>3. eol \in e .. Len(s) + 1
  <2> DEFINE j == Past(s, e, Blank)
  <2>1. j \in e .. Len(s) + 1
    BY <1>2, EmptyPast
  <2> HIDE DEF j
  <2>2. j \in Places(s)
    BY <1>1, <2>1 DEF Places
  <2>3. RestOfLineEnd(s, j) \in j .. Len(s) + 1
    BY <2>2, RestOfLineIs
  <2>4. RestOfLineEnd(s, j) \in e .. Len(s) + 1
    BY <1>1, <2>1, <2>3
  <2> QED
    BY <2>4 DEF j
<1>4. head = HeaderEnding(s, increment, chomp, eol)
  BY DEF HeaderTo
<1> HIDE DEF head, eol
<1>5. /\ head.stop = (IF increment = 0 \/ Ch(s, eol) \notin Breakz THEN Failed ELSE NextLine(s, eol))
      /\ head.increment = IF increment > 0 THEN increment ELSE 0
  BY <1>4 DEF HeaderEnding
<1>6. head.increment \in Nat
  BY <1>5
<1>7. ASSUME head.stop # Failed
      PROVE  head.stop \in i .. Len(s) + 1 /\ (Indented(s, head.stop) \/ Ch(s, head.stop) = "z")
  <2>1. Ch(s, eol) \in Breakz /\ head.stop = NextLine(s, eol)
    BY <1>5, <1>7
  <2>2. eol \in Nat \ {0} /\ eol \in Int /\ eol \in i .. Len(s) + 1
    BY <1>1, <1>3
  <2>3. CASE Ch(s, eol) \in Break
    <3>1. Ch(s, eol) # "z" /\ head.stop = eol + 1
      BY <2>1, <2>3, Classes DEF NextLine
    <3>2. Indented(s, eol + 1)
      BY <2>2, <2>3, LineStartIndented
    <3>3. eol \in 1 .. Len(s)
      BY <2>2, <3>1, CharIn
    <3>4. eol + 1 \in i .. Len(s) + 1
      BY <1>1, <2>2, <3>3
    <3> QED
      BY <3>1, <3>2, <3>4
  <2>4. CASE Ch(s, eol) \notin Break
    BY <2>1, <2>2, <2>4 DEF NextLine, Breakz
  <2> QED
    BY <2>3, <2>4
<1> QED
  BY <1>6, <1>7 DEF HeaderIs, head

LEMMA BlockHeaderIs ==
  ASSUME NEW s, TextLike(s), NEW i \in 1 .. Len(s)
  PROVE  HeaderIs(s, i, BlockHeader(s, i))
<1> DEFINE a == IncrementAt(s, i + 2)
           b == IncrementAt(s, i + 1)
           e == IF Ch(s, i + 2) \in Digit THEN i + 3 ELSE i + 2
           f == IF ChompAt(s, i + 2) # "clip" THEN i + 3 ELSE i + 2
           one == HeaderTo(s, a, Ch(s, i + 1), e)
           two == HeaderTo(s, b, ChompAt(s, i + 2), f)
           none == HeaderTo(s, -1, "clip", i + 1)
           chomped == ChompAt(s, i + 1) # "clip"
           digit == Ch(s, i + 1) \in Digit
           head == BlockHeader(s, i)
<1>1. Len(s) \in Nat /\ i \in Nat \ {0} /\ i <= Len(s) /\ i \in Places(s) /\ i + 1 \in i .. Len(s) + 1
  BY TextLen DEF Places
<1>2. a \in Int /\ b \in Int /\ -1 \in Int
  BY DigitValue DEF IncrementAt
<1>3. (chomped /\ head = one) \/ (digit /\ head = two) \/ head = none
  <2> HIDE DEF a, b, e, f
  <2> QED
    BY DEF BlockHeader, a, b, e, f
<1>4. ASSUME NEW j \in Nat, j > 0, Ch(s, j) # "z" PROVE j + 1 \in i .. Len(s) + 1 \/ j < i
  <2>1. j \in 1 .. Len(s)
    BY <1>4, CharIn
  <2> QED
    BY <1>1, <2>1
<1>5. chomped => Ch(s, i + 1) # "z"
  BY DEF ChompAt
<1>6. digit => Ch(s, i + 1) # "z"
  BY Classes
<1>7. Ch(s, i + 2) \in Digit => Ch(s, i + 2) # "z"
  BY Classes
<1>8. ChompAt(s, i + 2) # "clip" => Ch(s, i + 2) # "z"
  BY DEF ChompAt
<1>9. i + 1 \in Nat /\ i + 1 > 0 /\ i + 2 \in Nat /\ i + 2 > 0 /\ (i + 1) + 1 = i + 2 /\ (i + 2) + 1 = i + 3
  BY <1>1
<1>10. chomped \/ digit => i + 2 \in i .. Len(s) + 1
  <2> HIDE DEF chomped, digit
  <2> SUFFICES ASSUME chomped \/ digit PROVE i + 2 \in i .. Len(s) + 1
    OBVIOUS
  <2>1. i + 1 \in Int /\ Ch(s, i + 1) # "z"
    BY <1>5, <1>6, <1>9
  <2>2. i + 1 \in 1 .. Len(s)
    BY <2>1, CharIn
  <2> QED
    BY <1>1, <2>2
<1>11. Ch(s, i + 2) # "z" => i + 3 \in i .. Len(s) + 1
  <2> SUFFICES ASSUME Ch(s, i + 2) # "z" PROVE i + 3 \in i .. Len(s) + 1
    OBVIOUS
  <2>1. i + 2 \in Int
    BY <1>1
  <2>2. i + 2 \in 1 .. Len(s)
    BY <2>1, CharIn
  <2> QED
    BY <1>1, <2>2
<1>12. chomped \/ digit => e \in i .. Len(s) + 1 /\ f \in i .. Len(s) + 1
  <2> HIDE DEF chomped, digit
  <2> QED
    BY <1>7, <1>8, <1>10, <1>11
<1> HIDE DEF a, b, e, f
<1>13. chomped \/ digit => HeaderIs(s, i, one) /\ HeaderIs(s, i, two)
  <2> HIDE DEF chomped, digit
  <2> QED
    BY <1>1, <1>2, <1>12, HeaderToIs
<1>14. HeaderIs(s, i, none)
  BY <1>1, <1>2, HeaderToIs
<1> HIDE DEF head, one, two, none, chomped, digit
<1>15. HeaderIs(s, i, head)
  BY <1>3, <1>13, <1>14
<1> QED
  BY <1>15 DEF head

LEMMA DetectedIndentIs ==
  ASSUME NEW s, TextLike(s), NEW i \in Places(s), NEW parent \in Int, parent >= -1
  PROVE  DetectedIndent(s, i, parent) \in Nat
<1> DEFINE q == Past(s, i, {" "} \cup Break)
           lineEnds == {m \in i .. q : m = q \/ Ch(s, m) \in Break}
           S == {Column(s, m) : m \in lineEnds} \cup {parent + 1, 1}
           n == Len(s) + parent + 3
<1>1. Len(s) \in Nat /\ i \in Nat \ {0}
  BY TextLen DEF Places
<1>2. q \in i .. Len(s) + 1
  BY PastIs, Classes DEF Places
<1>3. DetectedIndent(s, i, parent) = Failed \/ DetectedIndent(s, i, parent) = Max(S)
  BY DEF DetectedIndent
<1> HIDE DEF q
<1>4. ASSUME NEW m \in lineEnds PROVE Column(s, m) \in 0 .. n
  <2>1. m \in Nat \ {0} /\ m <= Len(s) + 1
    BY <1>1, <1>2
  <2>2. Column(s, m) \in 0 .. m - 1
    BY <2>1, ColumnIs
  <2> QED
    BY <1>1, <2>1, <2>2
<1> HIDE DEF lineEnds
<1>5. parent + 1 \in 0 .. n /\ 1 \in 0 .. n /\ n \in Nat
  BY <1>1
<1> HIDE DEF n
<1>6. S # {} /\ S \in SUBSET (0 .. n)
  BY <1>4, <1>5
<1> HIDE DEF S
<1>7. Max(S) \in S
  BY <1>5, <1>6, MaxIs
<1>8. Max(S) \in Nat
  <2>1. Max(S) \in 0 .. n
    BY <1>6, <1>7
  <2> QED
    BY <1>5, <2>1
<1> QED
  BY <1>3, <1>8 DEF Failed

\* Where a block scalar's first line starts.
LEMMA FirstLineIs ==
  ASSUME NEW s, TextLike(s), NEW i \in 1 .. Len(s), NEW head, HeaderIs(s, i, head), head.stop # Failed,
         NEW indent \in Nat
  PROVE  LET first == FirstLine(s, head, indent)
         IN /\ Reaches(s, head.stop, first)
            /\ first \in {Failed, head.stop} \/ Indented(s, first)
<1> DEFINE h == head.stop
           breaks == BreaksEnd(s, h, indent)
           past == Past(s, h, {" "} \cup Break)
           first == FirstLine(s, head, indent)
<1>1. Len(s) \in Nat /\ i \in Nat \ {0}
  BY TextLen
<1>2. h \in i .. Len(s) + 1 /\ (Indented(s, h) \/ Ch(s, h) = "z")
  BY DEF HeaderIs
<1>3. first = breaks \/ first = past
  BY DEF FirstLine
<1>4. past \in h .. Len(s) + 1 /\ \A k \in h .. past - 1 : Ch(s, k) \in Blank \cup Break
  <2> HIDE DEF h
  <2>1. h \in 1 .. Len(s) + 1
    BY <1>1, <1>2
  <2>2. past \in h .. Len(s) + 1 /\ \A k \in h .. past - 1 : Ch(s, k) \in {" "} \cup Break
    BY <2>1, PastIs, Classes
  <2>3. {" "} \cup Break \subseteq Blank \cup Break
    BY Zenon DEF Blank
  <2>4. \A k \in h .. past - 1 : Ch(s, k) \in Blank \cup Break
    BY <2>2, <2>3, Zenon
  <2> QED
    BY <2>2, <2>4
<1>5. Ch(s, h) = "z" => past = h
  <2> HIDE DEF past, h
  <2> SUFFICES ASSUME Ch(s, h) = "z", past # h PROVE FALSE
    OBVIOUS
  <2>1. h \in h .. past - 1
    BY <1>1, <1>2, <1>4
  <2> QED
    BY <1>4, <2>1, Classes
<1> HIDE DEF h, past
<1>6. h \in Places(s) /\ h \in Nat \ {0}
  BY <1>1, <1>2 DEF Places
<1>7. past \in Nat \ {0} /\ h <= past
  BY <1>1, <1>4, <1>6
<1>8. Indented(s, h) => Indented(s, past)
  BY <1>4, <1>6, <1>7, IndentedOn
<1>9. Reaches(s, h, past)
  BY <1>4 DEF Reaches
<1>10. /\ Reaches(s, h, breaks)
       /\ (Indented(s, h) /\ breaks # Failed) => Indented(s, breaks)
       /\ Ch(s, h) = "z" => breaks = h
  BY <1>6, BreaksEndIs
<1> HIDE DEF first, breaks
<1>11. Reaches(s, h, first) /\ (first \in {Failed, h} \/ Indented(s, first))
  BY <1>2, <1>3, <1>5, <1>8, <1>9, <1>10
<1> QED
  BY <1>11 DEF first, h

\* A block scalar ends behind its last line; only blanks may follow there.
LEMMA BlockScalarIs ==
  ASSUME NEW s, TextLike(s), NEW i \in 1 .. Len(s), NEW parent \in Int, parent >= -1,
         BlockScalar(s, i, parent).stop # Failed
  PROVE  LET d == BlockScalar(s, i, parent)
         IN d.stop \in i .. Len(s) + 1 /\ d.end \in i .. d.stop /\ Empty(s, d.end, d.stop)
<1> DEFINE head == BlockHeader(s, i)
           h == head.stop
           indent == BlockIndent(s, head, parent)
           first == FirstLine(s, head, indent)
           last == LinesEnd(s, first, indent)
           over == Ch(s, last) = "z" /\ Column(s, last) > indent
           d == BlockScalar(s, i, parent)
<1>1. Len(s) \in Nat /\ i \in Nat \ {0}
  BY TextLen
<1>2. HeaderIs(s, i, head)
  BY BlockHeaderIs
<1>3. d = BlockAfter(s, head, parent)
  BY DEF BlockScalar
<1> HIDE DEF head, d
<1>4. h # Failed /\ d = BlockIndented(s, head, indent)
  <2>1. CASE h = Failed
    <3>1. d.stop = Failed
      BY <1>3, <2>1 DEF BlockAfter, NoScalar
    <3> QED
      BY <3>1 DEF d
  <2> QED
    BY <1>3, <2>1 DEF BlockAfter
<1>5. h \in i .. Len(s) + 1 /\ head.increment \in Nat /\ h \in Places(s)
  <2>1. h \in i .. Len(s) + 1 /\ head.increment \in Nat
    BY <1>2, <1>4 DEF HeaderIs
  <2> HIDE DEF h
  <2> QED
    BY <1>1, <2>1 DEF Places
<1>6. indent \in Nat
  <2>1. DetectedIndent(s, h, parent) \in Nat
    BY <1>5, DetectedIndentIs
  <2> QED
    BY <1>5, <2>1 DEF BlockIndent
<1> HIDE DEF indent
<1>7. d = BlockFrom(s, head, indent, first)
  <2>1. CASE indent = Failed
    <3>1. d.stop = Failed
      BY <1>4, <2>1 DEF BlockIndented, NoScalar
    <3> QED
      BY <3>1 DEF d
  <2> QED
    BY <1>4, <2>1 DEF BlockIndented
<1>8. Reaches(s, h, first) /\ (first \in {Failed, h} \/ Indented(s, first))
  BY <1>2, <1>4, <1>6, FirstLineIs
<1> HIDE DEF h, first
<1>9. first \in 0 .. Len(s) + 1
  BY <1>1, <1>5, <1>8 DEF Reaches, Failed
<1>10. /\ Reaches(s, first, last) /\ (first = Failed => last = Failed)
       /\ last \in {first, Failed} \/ LineStop(s, indent, last)
  BY <1>6, <1>9, LinesEndIs
<1>11. d = BlockEnding(s, head, indent, first, last)
  BY <1>7 DEF BlockFrom
<1> HIDE DEF last
<1>12. last # Failed /\ d.stop = last /\ d.end = IF over THEN last ELSE Max({last - Column(s, last), h})
  <2>1. CASE last = Failed
    <3>1. d.stop = Failed
      BY <1>11, <2>1 DEF BlockEnding, NoScalar
    <3> QED
      BY <3>1 DEF d
  <2>2. CASE last # Failed
    BY <1>11, <2>2 DEF BlockEnding, h
  <2> QED
    BY <2>1, <2>2
<1>13. first \in h .. Len(s) + 1 /\ last \in first .. Len(s) + 1
  BY <1>8, <1>10, <1>12 DEF Reaches
<1>14. last \in h .. Len(s) + 1 /\ last \in i .. Len(s) + 1 /\ last \in Nat \ {0} /\ h \in Int /\ h <= last
  BY <1>1, <1>5, <1>13
<1>15. CASE over
  <2>1. d.end = last
    BY <1>12, <1>15
  <2>2. Empty(s, last, last)
    BY <1>14, EmptyItself
  <2> QED
    BY <1>12, <1>14, <2>1, <2>2 DEF d
<1>16. CASE ~over
  <2> DEFINE c == Column(s, last)
             a == last - c
  <2>1. c \in 0 .. last - 1
    BY <1>14, ColumnIs
  <2>2. last = h \/ Indented(s, last)
    BY <1>8, <1>10, <1>12, <1>16 DEF LineStop
  <2>3. Indented(s, last) => \A k \in last - c .. last - 1 : Ch(s, k) \in Blank
    BY DEF Indented
  <2>4. d.end = Max({a, h})
    BY <1>12, <1>16
  <2> HIDE DEF over, c
  <2>5. a \in Int
    BY <1>14, <2>1
  <2>6. d.end = IF a >= h THEN a ELSE h
    BY <1>14, <2>4, <2>5, MaxOfTwo
  <2>7. d.end \in h .. last /\ d.end >= a /\ d.end \in Int
    BY <1>14, <2>1, <2>6
  <2>8. d.end \in i .. last
    BY <1>1, <1>5, <1>14, <2>7
  <2> DEFINE e == d.end
  <2> HIDE DEF e
  <2>9. Empty(s, e, last)
    <3>1. CASE last = h
      <4>1. e = last
        BY <1>14, <2>7, <3>1 DEF e
      <4> QED
        BY <1>14, <4>1, EmptyItself
    <3>2. CASE Indented(s, last)
      <4> SUFFICES ASSUME NEW k \in e .. last - 1 PROVE Ch(s, k) \in Blank \cup Break
        BY EmptyRun
      <4>1. k \in last - c .. last - 1
        BY <1>14, <2>1, <2>7 DEF e
      <4> QED
        BY <2>3, <3>2, <4>1
    <3> QED
      BY <2>2, <3>1, <3>2
  <2> QED
    BY <1>12, <1>14, <2>8, <2>9 DEF d, e
<1> QED
  BY <1>15, <1>16

\* Where the next token starts: in front of it there are only blanks and comments.
LEMMA NextStartIs ==
  ASSUME NEW p, TextLike(p.input), p.pos \in Places(p.input)
  PROVE  /\ NextStart(p)[1] \in p.pos .. Len(p.input) + 1
         /\ Empty(p.input, p.pos, NextStart(p)[1])
         /\ p.allowed => NextStart(p)[2]
<1> DEFINE s == p.input
           S == Places(s)
           allowed(j) == p.allowed \/ (j # p.pos /\ Flow(p) = 0)
           C(j) == IF Flow(p) > 0 \/ ~allowed(j) THEN Blank ELSE {" "}
           hash == [j \in S |-> Past(s, j, C(j))]
           eol == [j \in S |-> IF Ch(s, hash[j]) = "#" THEN CommentsEnd(s, hash[j]) ELSE hash[j]]
           stop == {j \in S : Ch(s, eol[j]) \notin Break}
           val == [j \in S |-> <<eol[j], allowed(j)>>]
           next == [j \in S |-> eol[j] + 1]
           m == [j \in S |-> Len(s) + 1 - j]
           Is(f) == f = [j \in 1 .. Len(s) + 1 |->
                          LET a == p.allowed \/ (j # p.pos /\ Flow(p) = 0)
                              n == Past(s, j, IF Flow(p) > 0 \/ ~a THEN Blank ELSE {" "})
                              e == IF Ch(s, n) = "#" THEN CommentsEnd(s, n) ELSE n
                          IN IF Ch(s, e) \in Break THEN f[e + 1] ELSE <<e, a>>]
           end == CHOOSE f : Is(f)
<1>1. NextStart(p) = end[p.pos]
  BY DEF NextStart
<1>2. Len(s) \in Nat
  BY TextLen
<1>3. ASSUME NEW j \in S
      PROVE  /\ hash[j] \in j .. Len(s) + 1 /\ Empty(s, j, hash[j]) /\ hash[j] \in S
  <2> DEFINE D == C(j)
  <2>1. hash[j] = Past(s, j, D)
    OBVIOUS
  <2>2. D = Blank \/ D = {" "}
    OBVIOUS
  <2>3. Blank \in SUBSET (Blank \cup Break) /\ {" "} \in SUBSET (Blank \cup Break)
    BY Zenon DEF Blank
  <2> HIDE DEF D, hash
  <2>4. D \in SUBSET (Blank \cup Break)
    BY <2>2, <2>3, Zenon
  <2>5. hash[j] \in j .. Len(s) + 1 /\ Empty(s, j, hash[j])
    <3> HIDE DEF s
    <3> QED
      BY <2>1, <2>4, EmptyPast DEF s
  <2>6. hash[j] \in S
    BY <1>2, <2>5 DEF Places
  <2> QED
    BY <2>5, <2>6
<1>4. ASSUME NEW f PROVE Is(f) <=> Scans(S, stop, val, next, f)
  <2> DEFINE body(j) == IF Ch(s, eol[j]) \in Break THEN f[eol[j] + 1] ELSE <<eol[j], allowed(j)>>
  <2>1. Is(f) <=> f = [j \in S |-> body(j)]
    BY DEF Places
  <2> HIDE DEF eol
  <2>2. ASSUME NEW j \in S
        PROVE  body(j) = IF j \in stop THEN val[j] ELSE f[next[j]]
    <3> HIDE DEF allowed
    <3> QED
      OBVIOUS
  <2> HIDE DEF stop, val, body, Is, next
  <2> QED
    BY <2>1, <2>2 DEF Scans
<1> HIDE DEF hash, C, allowed
<1>5. ASSUME NEW j \in S
      PROVE  /\ eol[j] \in j .. Len(s) + 1 /\ Empty(s, j, eol[j])
             /\ j \in Nat \ {0} /\ eol[j] \in Nat \ {0} /\ eol[j] \in Int /\ j <= eol[j]
  <2> DEFINE n == hash[j]
  <2>1. n \in j .. Len(s) + 1 /\ Empty(s, j, n) /\ n \in S
    BY <1>3
  <2>2. eol[j] = IF Ch(s, n) = "#" THEN CommentsEnd(s, n) ELSE n
    OBVIOUS
  <2> HIDE DEF n, eol
  <2>3. j \in Nat \ {0} /\ n \in Nat \ {0} /\ j <= n /\ n <= Len(s) + 1
    BY <1>2, <2>1 DEF Places
  <2>4. CASE Ch(s, n) = "#"
    <3> DEFINE e == CommentsEnd(s, n)
    <3>1. e \in n .. Len(s) + 1 /\ e \in Int /\ Empty(s, n, e)
      BY <2>1, <2>4, CommentsEndIs
    <3>2. eol[j] = e
      BY <2>2, <2>4
    <3> HIDE DEF e
    <3>3. e \in j .. Len(s) + 1 /\ e \in Nat \ {0} /\ j <= e /\ n <= e
      BY <1>2, <2>3, <3>1
    <3>4. Empty(s, j, e)
      BY <2>1, <2>3, <3>1, <3>3, EmptyOn
    <3> QED
      BY <2>3, <3>2, <3>3, <3>4
  <2>5. CASE Ch(s, n) # "#"
    BY <1>2, <2>1, <2>2, <2>3, <2>5
  <2> QED
    BY <2>4, <2>5
<1> HIDE DEF eol
<1>6. m \in [S -> Nat]
  BY <1>2 DEF Places
<1>7. ASSUME NEW j \in S, j \notin stop
      PROVE  /\ next[j] \in j + 1 .. Len(s) + 1 /\ Empty(s, j, next[j]) /\ next[j] \in S /\ next[j] \in Int
  <2>1. Ch(s, eol[j]) \in Break /\ Ch(s, eol[j]) # "z"
    BY <1>7, Classes
  <2>2. eol[j] \in 1 .. Len(s)
    BY <1>5, <2>1, CharIn
  <2>3. eol[j] + 1 \in j + 1 .. Len(s) + 1 /\ eol[j] + 1 \in S
    BY <1>2, <1>5, <2>2 DEF Places
  <2>4. Empty(s, eol[j], eol[j] + 1)
    BY <1>5, <2>1 DEF Empty
  <2>5. Empty(s, j, eol[j] + 1)
    <3> DEFINE e == eol[j]
               f == e + 1
    <3>1. j \in Int /\ e \in Int /\ f \in Int /\ j <= e /\ e <= f /\ Empty(s, j, e) /\ Empty(s, e, f)
      BY <1>5, <2>4
    <3> HIDE DEF e, f, s
    <3>2. Empty(s, j, f)
      BY <3>1, EmptyOn
    <3> QED
      BY <3>2 DEF e, f, s
  <2>6. next[j] = eol[j] + 1
    OBVIOUS
  <2> HIDE DEF next
  <2> QED
    BY <1>2, <1>5, <2>3, <2>5, <2>6
<1>8. ASSUME NEW j \in S, j \in stop
      PROVE  val[j][1] \in j .. Len(s) + 1 /\ Empty(s, j, val[j][1]) /\ (p.allowed => val[j][2])
  <2>1. val[j][1] = eol[j] /\ val[j][2] = allowed(j)
    OBVIOUS
  <2>2. p.allowed => allowed(j)
    BY Zenon DEF allowed
  <2> HIDE DEF val
  <2>3. p.allowed => val[j][2]
    BY <2>1, <2>2, Zenon
  <2> QED
    BY <1>5, <2>1, <2>3
<1> HIDE DEF stop, val, next
<1>9. Nears(S, stop, next, m)
  BY <1>2, <1>7 DEF Nears, Places
<1> HIDE DEF m
<1>10. Is(end)
  <2>1. \E f : Is(f)
    <3> HIDE DEF Is, S
    <3> QED
      BY <1>4, <1>6, <1>9, ScanExists
  <2> HIDE DEF Is
  <2> QED
    BY <2>1
<1> HIDE DEF Is, end
<1>11. \A j \in S : end[j] = IF j \in stop THEN val[j] ELSE end[next[j]]
  <2>1. Scans(S, stop, val, next, end)
    BY <1>4, <1>10
  <2> HIDE DEF S
  <2> QED
    BY <2>1 DEF Scans
<1> DEFINE T == {j \in S : end[j][1] \in j .. Len(s) + 1 /\ Empty(s, j, end[j][1]) /\ (p.allowed => end[j][2])}
<1>12. \A j \in S : j \in stop => j \in T
  BY <1>8, <1>11
<1>13. ASSUME NEW j \in S \ stop, next[j] \in T PROVE j \in T
  <2> DEFINE n == next[j]
             e == end[j][1]
  <2>1. end[j] = end[n] /\ e \in n .. Len(s) + 1 /\ Empty(s, n, e)
    BY <1>11, <1>13
  <2>5. p.allowed => end[j][2]
    BY <1>11, <1>13
  <2>2. n \in j + 1 .. Len(s) + 1 /\ Empty(s, j, n) /\ n \in Int /\ j \in Nat
    BY <1>5, <1>7
  <2> HIDE DEF n, e, s
  <2>3. e \in j .. Len(s) + 1 /\ e \in Int /\ j <= n /\ n <= e /\ j \in Int
    BY <1>2, <2>1, <2>2 DEF s
  <2>4. Empty(s, j, e)
    BY <2>1, <2>2, <2>3, EmptyOn
  <2> QED
    BY <2>3, <2>4, <2>5 DEF e, s
<1>14. S \subseteq T
  <2> HIDE DEF S, T
  <2> QED
    BY <1>6, <1>9, <1>12, <1>13, ScanInduction
<1>15. p.pos \in T
  BY <1>14
<1> QED
  BY <1>1, <1>15

-----------------------------------------------------------------------------
(* What the scanner has read.                                              *)

\* A token of the first n - 1 characters.
Spot(t, n) ==
  {"kind", "start", "end"} \subseteq DOMAIN t /\ t.start \in 1 .. n /\ t.end \in t.start .. n

Cov(tokens, j) == \E i \in DOMAIN tokens : j \in tokens[i].start .. tokens[i].end - 1

\* A character that needs no token, or has one.
Clear(s, tokens, j) ==
  \/ Ch(s, j) \in Blank \cup Break
  \/ Cov(tokens, j)
  \/ \E k \in 1 .. j : Ch(s, k) = "#" /\ ~Cov(tokens, k) /\ Line(s, k) = Line(s, j)

\* The blocks the scanner is in: all of them inside the document's column, -1.
Deepens(s) ==
  -1 \in {s[i] : i \in DOMAIN s} /\ \A i \in DOMAIN s : s[i] \in Int /\ s[i] >= -1

\* A candidate that began in the first n - 1 characters.
Candidate(key, n) == "at" \in DOMAIN key /\ key.at \in 1 .. n /\ key.possible \in BOOLEAN

\* The stacks are inside their limits; one more entry is where an error stops.
Limited(p) ==
  /\ Len(p.keys) <= MaxFlowLevel + 2 /\ Len(p.indents) <= MaxIndents + 2
  /\ p.ok => Len(p.keys) <= MaxFlowLevel + 1 /\ Len(p.indents) <= MaxIndents + 1

Spanned(p) ==
  /\ Live(p) /\ "input" \in DOMAIN p /\ TextLike(p.input) /\ p.pos \in Places(p.input)
  /\ \A i \in DOMAIN p.tokens : Spot(p.tokens[i], p.pos)
  /\ \A l \in DOMAIN p.keys : Candidate(p.keys[l], p.pos)
  /\ Deepens(p.indents) /\ Limited(p)

Ends(tokens) == \E i \in DOMAIN tokens : tokens[i].kind = "StreamEnd"

\* The text has been read from one position to the next: nothing but blanks and
\* comments has no token, and the tokens from before are those there were.
Reading(q, p) ==
  /\ Spanned(q) /\ q.input = p.input /\ q.started = p.started /\ q.ended = p.ended /\ p.pos <= q.pos /\ (q.ok => p.ok)
  /\ \A j \in 1 .. p.pos - 1 : Cov(q.tokens, j) <=> Cov(p.tokens, j)
  /\ \A j \in p.pos .. q.pos - 1 : Clear(q.input, q.tokens, j)
  /\ Ends(q.tokens) => Ends(p.tokens)

LEMMA ReadingItself ==
  ASSUME NEW p, Spanned(p)
  PROVE  Reading(p, p)
<1>1. p.pos \in Nat
  BY TextLen DEF Spanned, Places
<1> QED
  BY <1>1 DEF Reading

LEMMA SpannedPos ==
  ASSUME NEW p, Spanned(p)
  PROVE  p.pos \in Nat /\ p.pos >= 1 /\ p.pos \in Int /\ p.pos <= Len(p.input) + 1 /\ Len(p.input) \in Nat
BY TextLen DEF Spanned, Places

LEMMA ReadingOn ==
  ASSUME NEW p, Spanned(p), NEW q, NEW r, Reading(q, p), Reading(r, q)
  PROVE  Reading(r, p)
<1>1. Spanned(q) /\ Spanned(r)
  BY DEF Reading
<1>2. p.pos \in Nat /\ p.pos >= 1 /\ q.pos \in Nat /\ r.pos \in Nat /\ p.pos <= q.pos /\ q.pos <= r.pos
  BY <1>1, SpannedPos DEF Reading
<1>3. \A j \in 1 .. p.pos - 1 : Cov(r.tokens, j) <=> Cov(p.tokens, j)
  <2>1. \A j \in 1 .. p.pos - 1 : j \in 1 .. q.pos - 1
    BY <1>2
  <2> QED
    BY <2>1 DEF Reading
<1>4. ASSUME NEW j \in p.pos .. r.pos - 1 PROVE Clear(r.input, r.tokens, j)
  <2>1. CASE j >= q.pos
    <3>1. j \in q.pos .. r.pos - 1
      BY <1>2, <2>1
    <3> QED
      BY <3>1 DEF Reading
  <2>2. CASE j < q.pos
    <3>1. j \in p.pos .. q.pos - 1 /\ \A k \in 1 .. j : k \in 1 .. q.pos - 1
      BY <1>2, <2>2
    <3>2. j \in 1 .. q.pos - 1
      BY <1>2, <2>2
    <3>3. Clear(q.input, q.tokens, j)
      BY <3>1 DEF Reading
    <3> QED
      BY <3>1, <3>2, <3>3 DEF Reading, Clear
  <2> QED
    BY <1>2, <2>1, <2>2
<1> QED
  BY <1>1, <1>2, <1>3, <1>4 DEF Reading

\* The tokens of a queue t, and others that reach nowhere.
Same(u, t, n) ==
  /\ \A i \in DOMAIN u : Spot(u[i], n) /\ (u[i].kind = "StreamEnd" => Ends(t))
  /\ \A j \in 1 .. n - 1 : Cov(u, j) <=> Cov(t, j)

\* Nothing more has been read.
Staying(q, p) == Reading(q, p) /\ q.pos = p.pos

LEMMA StayingItself ==
  ASSUME NEW p, Spanned(p)
  PROVE  Staying(p, p)
BY ReadingItself DEF Staying

LEMMA StayingOn ==
  ASSUME NEW p, Spanned(p), NEW q, NEW r, Staying(q, p), Staying(r, q)
  PROVE  Staying(r, p)
BY ReadingOn DEF Staying

\* A step that stays where it is.
LEMMA StaysHere ==
  ASSUME NEW p, Spanned(p), NEW q, Live(q), "input" \in DOMAIN q, q.input = p.input, q.pos = p.pos,
         q.started = p.started, q.ended = p.ended,
         q.ok => p.ok, Same(q.tokens, p.tokens, p.pos), Deepens(q.indents), Limited(q),
         \A l \in DOMAIN q.keys : Candidate(q.keys[l], p.pos)
  PROVE  Staying(q, p)
<1>1. Spanned(q)
  BY DEF Spanned, Same
<1>2. p.pos \in Nat
  BY SpannedPos
<1>3. Ends(q.tokens) => Ends(p.tokens)
  BY DEF Same, Ends
<1> QED
  BY <1>1, <1>2, <1>3 DEF Staying, Reading, Same

LEMMA SameItself ==
  ASSUME NEW p, Spanned(p)
  PROVE  Same(p.tokens, p.tokens, p.pos)
BY DEF Spanned, Same, Ends

\* The fields of a state with one of them set.
LEMMA PutRest ==
  ASSUME NEW p, Spanned(p), NEW x,
         NEW field \in {"ok", "pos", "allowed", "byTok", "tokens", "keys", "indents"}
  PROVE  LET q == Put(p, field, x)
         IN /\ "input" \in DOMAIN q /\ q.input = p.input /\ q.started = p.started /\ q.ended = p.ended
            /\ (field # "pos" => q.pos = p.pos) /\ (field # "ok" => q.ok = p.ok)
            /\ (field # "tokens" => q.tokens = p.tokens) /\ (field # "keys" => q.keys = p.keys)
            /\ (field # "indents" => q.indents = p.indents) /\ q[field] = x
            /\ (field # "allowed" => q.allowed = p.allowed)
BY DEF Put, Spanned, Live, Scanning

LEMMA PutStays ==
  ASSUME NEW p, Spanned(p), NEW x, NEW field \in {"allowed", "byTok"}
  PROVE  Staying(Put(p, field, x), p)
<1> DEFINE q == Put(p, field, x)
<1>1. Live(q)
  BY PutLike, LikeKeeps DEF Spanned, Live, Keeps
<1>2. /\ "input" \in DOMAIN q /\ q.input = p.input /\ q.started = p.started /\ q.ended = p.ended /\ q.pos = p.pos /\ q.ok = p.ok
      /\ q.tokens = p.tokens /\ q.keys = p.keys /\ q.indents = p.indents
  BY PutRest
<1> HIDE DEF q
<1>3. Limited(q) /\ Deepens(q.indents) /\ \A l \in DOMAIN q.keys : Candidate(q.keys[l], p.pos)
  BY <1>2 DEF Limited, Spanned
<1> QED
  BY <1>1, <1>2, <1>3, StaysHere, SameItself DEF q

LEMMA ErrorStays ==
  ASSUME NEW p, Spanned(p)
  PROVE  Staying(Error(p), p) /\ ~Error(p).ok
<1> DEFINE no == FALSE
           q == Put(p, "ok", no)
<1>1. Error(p) = q /\ ~no
  BY DEF Error, Put
<1>2. Live(q)
  BY PutLike, LikeKeeps DEF Spanned, Live, Keeps
<1> HIDE DEF no
<1>3. /\ "input" \in DOMAIN q /\ q.input = p.input /\ q.started = p.started /\ q.ended = p.ended /\ q.pos = p.pos /\ q.ok = no
      /\ q.tokens = p.tokens /\ q.keys = p.keys /\ q.indents = p.indents
  BY PutRest
<1> HIDE DEF q
<1>4. Limited(q) /\ Deepens(q.indents) /\ \A l \in DOMAIN q.keys : Candidate(q.keys[l], p.pos)
  BY <1>1, <1>3 DEF Limited, Spanned
<1> QED
  BY <1>1, <1>2, <1>3, <1>4, StaysHere, SameItself

LEMMA AllowStays ==
  ASSUME NEW p, Spanned(p), NEW b
  PROVE  Staying(Allow(p, b), p) /\ Allow(p, b).keys = p.keys /\ Allow(p, b).pos = p.pos
<1>1. Allow(p, b) = Put(p, "allowed", b)
  BY DEF Allow, Put
<1> QED
  BY <1>1, PutStays, PutRest

\* Only the candidates change.
LEMMA KeysStay ==
  ASSUME NEW p, Spanned(p), NEW keys, Live(Put(p, "keys", keys)),
         Len(keys) <= MaxFlowLevel + 2, p.ok => Len(keys) <= MaxFlowLevel + 1,
         \A l \in DOMAIN keys : Candidate(keys[l], p.pos)
  PROVE  Staying(Put(p, "keys", keys), p)
<1> DEFINE q == Put(p, "keys", keys)
<1>1. /\ "input" \in DOMAIN q /\ q.input = p.input /\ q.started = p.started /\ q.ended = p.ended /\ q.pos = p.pos /\ q.ok = p.ok
      /\ q.tokens = p.tokens /\ q.keys = keys /\ q.indents = p.indents
  BY PutRest
<1> HIDE DEF q
<1>2. Limited(q) /\ Deepens(q.indents)
  BY <1>1 DEF Limited, Spanned
<1> QED
  BY <1>1, <1>2, StaysHere, SameItself DEF q

\* Only the tokens change.
LEMMA TokensStay ==
  ASSUME NEW p, Spanned(p), NEW tokens, Live(Put(p, "tokens", tokens)), Same(tokens, p.tokens, p.pos)
  PROVE  Staying(Put(p, "tokens", tokens), p)
<1> DEFINE q == Put(p, "tokens", tokens)
<1>1. /\ "input" \in DOMAIN q /\ q.input = p.input /\ q.started = p.started /\ q.ended = p.ended /\ q.pos = p.pos /\ q.ok = p.ok
      /\ q.tokens = tokens /\ q.keys = p.keys /\ q.indents = p.indents
  BY PutRest
<1> HIDE DEF q
<1>2. Limited(q) /\ Deepens(q.indents) /\ \A l \in DOMAIN q.keys : Candidate(q.keys[l], p.pos)
  BY <1>1 DEF Limited, Spanned
<1> QED
  BY <1>1, <1>2, StaysHere DEF q

\* The position moves on over blanks and comments.
LEMMA PosReads ==
  ASSUME NEW p, Spanned(p), NEW e \in p.pos .. Len(p.input) + 1, Empty(p.input, p.pos, e)
  PROVE  Reading(Put(p, "pos", e), p)
<1> DEFINE q == Put(p, "pos", e)
           s == p.input
<1>1. Live(q)
  BY PutLike, LikeKeeps DEF Spanned, Live, Keeps
<1>2. /\ "input" \in DOMAIN q /\ q.input = s /\ q.started = p.started /\ q.ended = p.ended /\ q.pos = e /\ q.ok = p.ok
      /\ q.tokens = p.tokens /\ q.keys = p.keys /\ q.indents = p.indents
  BY PutRest
<1> HIDE DEF q
<1>3. p.pos \in Nat /\ p.pos >= 1 /\ Len(s) \in Nat /\ e \in Nat /\ p.pos <= e /\ e <= Len(s) + 1
  BY SpannedPos
<1>4. Spanned(q)
  <2>1. e \in Places(s)
    BY <1>3 DEF Places
  <2>2. \A n \in 1 .. p.pos : n \in 1 .. e
    BY <1>3
  <2>3. ASSUME NEW t, Spot(t, p.pos) PROVE Spot(t, e)
    <3>1. t.start \in 1 .. p.pos /\ t.end \in t.start .. p.pos
      BY <2>3 DEF Spot
    <3>2. t.start \in 1 .. e /\ t.end \in t.start .. e
      BY <1>3, <3>1
    <3> QED
      BY <2>3, <3>2 DEF Spot
  <2>4. ASSUME NEW key, Candidate(key, p.pos) PROVE Candidate(key, e)
    BY <2>2, <2>4 DEF Candidate
  <2> QED
    BY <1>1, <1>2, <2>1, <2>3, <2>4 DEF Spanned, Limited
<1>5. ASSUME NEW j \in p.pos .. e - 1 PROVE Clear(s, p.tokens, j)
  <2>1. CASE Ch(s, j) \in Blank \cup Break
    BY <2>1 DEF Clear
  <2>2. CASE Ch(s, j) \notin Blank \cup Break
    <3>1. PICK k \in p.pos .. j : Ch(s, k) = "#" /\ Line(s, k) = Line(s, j)
      BY <2>2 DEF Empty
    <3>2. k \in 1 .. j
      BY <1>3, <3>1
    <3>3. ~Cov(p.tokens, k)
      <4>1. \A i \in DOMAIN p.tokens : p.tokens[i].start \in 1 .. p.pos /\ p.tokens[i].end \in p.tokens[i].start .. p.pos
        BY DEF Spanned, Spot
      <4> QED
        BY <1>3, <3>1, <4>1 DEF Cov
    <3> QED
      BY <3>1, <3>2, <3>3 DEF Clear
  <2> QED
    BY <2>1, <2>2
<1> QED
  BY <1>2, <1>3, <1>4, <1>5 DEF Reading, q

-----------------------------------------------------------------------------
(* The candidates, the stacks and the queue.                               *)

LEMMA MarkIs ==
  ASSUME NEW kind, NEW at
  PROVE  /\ Token(kind, at, at).kind = kind /\ Token(kind, at, at).start = at
         /\ Token(kind, at, at).end = at /\ {"kind", "start", "end"} \subseteq DOMAIN Token(kind, at, at)
BY DEF Token

\* The tokens of u are those of p, but for some that reach nowhere.
LEMMA SameByMarks ==
  ASSUME NEW p, Spanned(p), NEW u,
         \A i \in DOMAIN p.tokens : \E k \in DOMAIN u : u[k] = p.tokens[i],
         \A k \in DOMAIN u : \/ \E i \in DOMAIN p.tokens : u[k] = p.tokens[i]
                             \/ Spot(u[k], p.pos) /\ u[k].end = u[k].start /\ u[k].kind # "StreamEnd"
  PROVE  Same(u, p.tokens, p.pos)
<1>1. \A i \in DOMAIN p.tokens : Spot(p.tokens[i], p.pos)
  BY DEF Spanned
<1>2. ASSUME NEW k \in DOMAIN u PROVE Spot(u[k], p.pos) /\ (u[k].kind = "StreamEnd" => Ends(p.tokens))
  BY <1>1 DEF Ends
<1>3. \A j \in 1 .. p.pos - 1 : Cov(p.tokens, j) => Cov(u, j)
  BY DEF Cov
<1>4. ASSUME NEW j \in 1 .. p.pos - 1, Cov(u, j) PROVE Cov(p.tokens, j)
  <2>1. PICK k \in DOMAIN u : j \in u[k].start .. u[k].end - 1
    BY <1>4 DEF Cov
  <2>2. Spot(u[k], p.pos) /\ p.pos \in Nat
    BY <1>2, SpannedPos
  <2>3. u[k].end # u[k].start
    BY <2>1, <2>2 DEF Spot
  <2>4. PICK i \in DOMAIN p.tokens : u[k] = p.tokens[i]
    BY <2>3
  <2> QED
    BY <2>1, <2>4 DEF Cov
<1> QED
  BY <1>2, <1>3, <1>4 DEF Same

LEMMA InsertStays ==
  ASSUME NEW p, Spanned(p), NEW number \in -1 .. Len(p.tokens), NEW kind, kind # "StreamEnd",
         NEW at \in 1 .. p.pos
  PROVE  Staying(Insert(p, number, Token(kind, at, at)), p)
<1> DEFINE token == Token(kind, at, at)
           u == IF number < p.parsed THEN Append(p.tokens, token)
                ELSE InsertAt(p.tokens, number + 1, token)
           q == Put(p, "tokens", u)
<1>1. Insert(p, number, token) = q
  BY DEF Insert, Put
<1>2. Live(p) /\ p.pos \in Nat
  BY SpannedPos DEF Spanned
<1>3. Live(q)
  BY <1>1, <1>2, InsertKeeps DEF Keeps
<1>4. Spot(token, p.pos) /\ token.end = token.start /\ token.kind # "StreamEnd"
  BY <1>2, MarkIs DEF Spot
<1> HIDE DEF token
<1>5. /\ Len(p.tokens) \in Nat /\ Listed(p.tokens) /\ DOMAIN p.tokens = 1 .. Len(p.tokens)
      /\ p.parsed \in 0 .. Len(p.tokens)
  BY <1>2, LiveLen, ListedLen
<1>6. /\ \A i \in 1 .. Len(p.tokens) : \E k \in DOMAIN u : u[k] = p.tokens[i]
      /\ \A k \in DOMAIN u : u[k] = token \/ \E i \in 1 .. Len(p.tokens) : u[k] = p.tokens[i]
  <2>1. CASE number < p.parsed
    <3> DEFINE a == Append(p.tokens, token)
    <3>1. u = a
      BY <2>1
    <3> HIDE DEF u
    <3>2. /\ Listed(u) /\ Len(u) = Len(p.tokens) + 1 /\ u[Len(p.tokens) + 1] = token
          /\ \A i \in 1 .. Len(p.tokens) : u[i] = p.tokens[i]
      BY <1>5, <3>1, ListedAppend
    <3>3. DOMAIN u = 1 .. Len(p.tokens) + 1
      BY <3>2, ListedLen
    <3>4. /\ \A i \in 1 .. Len(p.tokens) : i \in DOMAIN u
          /\ \A k \in DOMAIN u : k \in 1 .. Len(p.tokens) \/ k = Len(p.tokens) + 1
      BY <1>5, <3>3
    <3> QED
      BY <3>2, <3>4
  <2>2. CASE ~(number < p.parsed)
    <3> DEFINE m == number + 1
               b == InsertAt(p.tokens, m, token)
    <3>1. u = b
      BY <2>2
    <3> HIDE DEF u, token
    <3>2. m \in 1 .. Len(p.tokens) + 1 /\ number \in 0 .. Len(p.tokens) /\ m - 1 = number
          /\ m + 1 = number + 2 /\ m = number + 1
      BY <1>5, <2>2
    <3>3. /\ Listed(u) /\ Len(u) = Len(p.tokens) + 1 /\ u[number + 1] = token
          /\ \A i \in 1 .. number : u[i] = p.tokens[i]
          /\ \A i \in number + 2 .. Len(p.tokens) + 1 : u[i] = p.tokens[i - 1]
      <4> HIDE DEF m
      <4>1. /\ Listed(b) /\ Len(b) = Len(p.tokens) + 1
            /\ \A i \in 1 .. m - 1 : b[i] = p.tokens[i]
        BY <1>5, <3>2, ListedInsert
      <4>2. b[m] = token /\ \A i \in m + 1 .. Len(p.tokens) + 1 : b[i] = p.tokens[i - 1]
        BY <1>5, <3>2, ListedInsertRest
      <4> HIDE DEF b
      <4> QED
        BY <3>1, <3>2, <4>1, <4>2
    <3> HIDE DEF b, m
    <3>4. DOMAIN u = 1 .. Len(p.tokens) + 1
      BY <3>3, ListedLen
    <3>5. ASSUME NEW i \in 1 .. Len(p.tokens) PROVE \E k \in DOMAIN u : u[k] = p.tokens[i]
      <4>1. CASE i <= number
        <5>1. i \in 1 .. number /\ i \in DOMAIN u
          BY <1>5, <3>2, <3>4, <4>1
        <5> QED
          BY <3>3, <5>1
      <4>2. CASE i > number
        <5>1. i + 1 \in number + 2 .. Len(p.tokens) + 1 /\ i + 1 \in DOMAIN u /\ i + 1 - 1 = i
          BY <1>5, <3>2, <3>4, <4>2
        <5> QED
          BY <3>3, <5>1
      <4> QED
        BY <3>2, <4>1, <4>2
    <3>6. ASSUME NEW k \in DOMAIN u PROVE u[k] = token \/ \E i \in 1 .. Len(p.tokens) : u[k] = p.tokens[i]
      <4>1. CASE k <= number
        <5>1. k \in 1 .. number /\ k \in 1 .. Len(p.tokens)
          BY <1>5, <3>2, <3>4, <4>1
        <5> QED
          BY <3>3, <5>1
      <4>2. CASE k = number + 1
        BY <3>3, <4>2
      <4>3. CASE k > number + 1
        <5>1. k \in number + 2 .. Len(p.tokens) + 1 /\ k - 1 \in 1 .. Len(p.tokens)
          BY <1>5, <3>2, <3>4, <4>3
        <5> QED
          BY <3>3, <5>1
      <4> QED
        BY <3>2, <3>4, <4>1, <4>2, <4>3
    <3> QED
      BY <3>5, <3>6
  <2> QED
    BY <2>1, <2>2
<1> HIDE DEF u
<1>7. Same(u, p.tokens, p.pos)
  BY <1>4, <1>5, <1>6, SameByMarks
<1> QED
  BY <1>1, <1>3, <1>7, TokensStay DEF token

\* Candidates are given up.
LEMMA PossibleStays ==
  ASSUME NEW p, Spanned(p), NEW level, NEW v \in BOOLEAN
  PROVE  Staying(Put(p, "keys", SetPossible(p.keys, level, v)), p)
<1> DEFINE keys == SetPossible(p.keys, level, v)
<1>1. Live(Put(p, "keys", keys))
  BY PossibleKeeps DEF Keeps, Spanned
<1>2. DOMAIN keys = DOMAIN p.keys
  BY DEF SetPossible
<1>3. /\ Len(p.keys) \in Nat /\ DOMAIN p.keys = 1 .. Len(p.keys)
      /\ \A l \in DOMAIN p.keys : {"possible"} \subseteq DOMAIN p.keys[l]
  BY LiveLen DEF Spanned, Live, Scanning
<1>4. Len(keys) = Len(p.keys)
  <2>1. keys = [l \in 1 .. Len(p.keys) |-> keys[l]]
    BY <1>2, <1>3 DEF SetPossible
  <2> HIDE DEF keys
  <2> QED
    BY <1>3, <2>1
<1>5. ASSUME NEW l \in DOMAIN keys PROVE Candidate(keys[l], p.pos)
  <2>1. Candidate(p.keys[l], p.pos)
    BY <1>2 DEF Spanned
  <2>2. keys[l] = p.keys[l] \/ keys[l] = [p.keys[l] EXCEPT !.possible = v]
    BY <1>2 DEF SetPossible
  <2>3. Candidate([p.keys[l] EXCEPT !.possible = v], p.pos)
    <3>1. DOMAIN [p.keys[l] EXCEPT !.possible = v] = DOMAIN p.keys[l]
      OBVIOUS
    <3>2. [p.keys[l] EXCEPT !.possible = v].possible = v
      BY <1>2, <1>3
    <3>3. [p.keys[l] EXCEPT !.possible = v].at = p.keys[l].at
      BY <2>1 DEF Candidate
    <3> QED
      BY <2>1, <3>1, <3>2, <3>3, Zenon DEF Candidate
  <2> HIDE DEF keys
  <2> QED
    BY <2>1, <2>2, <2>3
<1>6. Len(keys) <= MaxFlowLevel + 2 /\ (p.ok => Len(keys) <= MaxFlowLevel + 1)
  BY <1>4 DEF Spanned, Limited
<1> QED
  BY <1>1, <1>5, <1>6, KeysStay

LEMMA SetKeyStays ==
  ASSUME NEW p, Spanned(p), NEW level, NEW key, Candidate(key, p.pos),
         Live(Put(p, "keys", SetKey(p.keys, level, key)))
  PROVE  Staying(Put(p, "keys", SetKey(p.keys, level, key)), p)
<1> DEFINE keys == SetKey(p.keys, level, key)
<1>1. DOMAIN keys = DOMAIN p.keys /\ Len(p.keys) \in Nat /\ DOMAIN p.keys = 1 .. Len(p.keys)
  BY LiveLen DEF SetKey, Spanned
<1>2. Len(keys) = Len(p.keys)
  <2>1. keys = [l \in 1 .. Len(p.keys) |-> keys[l]]
    BY <1>1 DEF SetKey
  <2> HIDE DEF keys
  <2> QED
    BY <1>1, <2>1
<1>3. ASSUME NEW l \in DOMAIN keys PROVE Candidate(keys[l], p.pos)
  <2>1. Candidate(p.keys[l], p.pos)
    BY <1>1 DEF Spanned
  <2>2. keys[l] = p.keys[l] \/ keys[l] = key
    BY <1>1 DEF SetKey
  <2> QED
    BY <2>1, <2>2
<1>4. Len(keys) <= MaxFlowLevel + 2 /\ (p.ok => Len(keys) <= MaxFlowLevel + 1)
  BY <1>2 DEF Spanned, Limited
<1> QED
  BY <1>3, <1>4, KeysStay

LEMMA DropStaleKeyStays ==
  ASSUME NEW p, Spanned(p), NEW level
  PROVE  Staying(DropStaleKey(p, level), p)
<1> DEFINE no == FALSE
           q == Put(p, "keys", SetPossible(p.keys, level, no))
<1>1. [p EXCEPT !.keys[level].possible = FALSE] = q
  BY DEF Put, SetPossible
<1>2. no \in BOOLEAN
  OBVIOUS
<1> HIDE DEF no
<1>3. Staying(q, p)
  BY <1>2, PossibleStays
<1> HIDE DEF q
<1>4. DropStaleKey(p, level) = p \/ DropStaleKey(p, level) = Error(p) \/ DropStaleKey(p, level) = q
  BY <1>1 DEF DropStaleKey
<1> QED
  BY <1>3, <1>4, StayingItself, ErrorStays

LEMMA RemoveKeyStays ==
  ASSUME NEW p, Spanned(p)
  PROVE  Staying(RemoveKey(p), p)
<1> DEFINE key == Last(p.keys)
           no == FALSE
           q == Put(p, "keys", SetPossible(p.keys, Len(p.keys), no))
           r == Put(q, "byTok", WithoutToken(p.byTok, key.number))
<1>1. [p EXCEPT !.keys[Len(p.keys)].possible = FALSE, !.byTok = WithoutToken(@, key.number)] = r
  BY DEF Put, SetPossible
<1>2. RemoveKey(p) = p \/ RemoveKey(p) = Error(p) \/ RemoveKey(p) = r
  BY <1>1 DEF RemoveKey
<1>3. no \in BOOLEAN
  OBVIOUS
<1> HIDE DEF no
<1>4. Staying(q, p)
  BY <1>3, PossibleStays
<1> HIDE DEF q
<1>5. Staying(r, q)
  BY <1>4, PutStays DEF Staying, Reading
<1> HIDE DEF r
<1> QED
  BY <1>2, <1>4, <1>5, StayingItself, ErrorStays, StayingOn

LEMMA SaveKeyStays ==
  ASSUME NEW p, Spanned(p)
  PROVE  Staying(SaveKey(p), p)
<1> DEFINE yes == TRUE
           key == Key(yes, Flow(p) = 0 /\ Indent(p) = Col(p), Len(p.tokens), p.pos)
           q == RemoveKey(p)
           x == [n \in DOMAIN q.byTok \cup {key.number} |->
                   IF n = key.number THEN Len(q.keys) ELSE q.byTok[n]]
           r == Put(q, "keys", SetKey(q.keys, Len(q.keys), key))
           s == Put(r, "byTok", x)
<1>1. {"number", "possible"} \subseteq DOMAIN key /\ key.number = Len(p.tokens)
  BY DEF Key
<1>2. Candidate(key, p.pos)
  <2>1. p.pos \in 1 .. p.pos /\ yes \in BOOLEAN
    BY SpannedPos
  <2> HIDE DEF yes
  <2>2. key.at = p.pos /\ "at" \in DOMAIN key /\ key.possible = yes
    BY DEF Key
  <2> HIDE DEF key
  <2> QED
    BY <2>1, <2>2, Zenon DEF Candidate
<1> HIDE DEF key
<1>3. [q EXCEPT !.keys[Len(q.keys)] = key,
                !.byTok = [n \in DOMAIN @ \cup {key.number} |->
                             IF n = key.number THEN Len(q.keys) ELSE @[n]]] = s
  <2> HIDE DEF q
  <2> QED
    BY DEF Put, SetKey
<1>4. SaveKey(p) = p \/ SaveKey(p) = q \/ SaveKey(p) = s
  <2> HIDE DEF s, r
  <2> QED
    BY <1>3 DEF SaveKey, Then, key
<1>5. Staying(q, p) /\ Keeps(q, p)
  BY RemoveKeyStays, RemoveKeyKeeps DEF Spanned
<1> HIDE DEF q, x
<1>6. Spanned(q) /\ Live(q) /\ q.pos = p.pos /\ key.number \in 0 .. Len(q.tokens)
  <2>1. Live(q) /\ Len(q.tokens) >= Len(p.tokens) /\ Len(p.tokens) \in Nat /\ Len(q.tokens) \in Nat
    BY <1>5, LiveLen DEF Keeps, Spanned
  <2> QED
    BY <1>1, <1>5, <2>1 DEF Staying, Reading
<1>7. Live(r)
  BY <1>1, <1>6, SetKeyKeeps DEF Keeps
<1>8. Staying(r, q)
  BY <1>2, <1>6, <1>7, SetKeyStays
<1> HIDE DEF r
<1>9. Staying(s, r)
  BY <1>8, PutStays DEF Staying, Reading
<1> HIDE DEF s
<1>10. Staying(s, p)
  <2>1. Staying(r, p)
    BY <1>5, <1>8, StayingOn
  <2> QED
    BY <1>9, <2>1, StayingOn
<1> QED
  BY <1>4, <1>5, <1>10, StayingItself

LEMMA IncreaseFlowStays ==
  ASSUME NEW p, Spanned(p), p.ok
  PROVE  Staying(IncreaseFlow(p), p)
<1> DEFINE no == FALSE
           key == Key(no, no, Len(p.tokens), p.pos)
           keys == Append(p.keys, key)
           q == Put(p, "keys", keys)
           r == Put(q, "ok", no)
           d == IncreaseFlow(p)
<1>1. Candidate(key, p.pos)
  <2>1. p.pos \in 1 .. p.pos /\ no \in BOOLEAN
    BY SpannedPos
  <2> HIDE DEF no
  <2>2. key.at = p.pos /\ "at" \in DOMAIN key /\ key.possible = no
    BY DEF Key
  <2> HIDE DEF key
  <2> QED
    BY <2>1, <2>2, Zenon DEF Candidate
<1> HIDE DEF key
<1>2. [p EXCEPT !.keys = Append(@, key)] = q
  BY DEF Put
<1>3. Error(q) = r /\ ~no
  BY DEF Error, Put
<1>4. d = IF Len(keys) - 1 > MaxFlowLevel THEN Error(q) ELSE q
  <2>1. q.keys = keys
    <3> HIDE DEF keys
    <3> QED
      BY DEF Put, Spanned, Live, Scanning
  <2>2. d = IF Flow(q) > MaxFlowLevel THEN Error(q) ELSE q
    <3> HIDE DEF q
    <3> QED
      BY <1>2 DEF IncreaseFlow, key
  <2> HIDE DEF q
  <2> QED
    BY <2>1, <2>2 DEF Flow
<1>5. /\ Listed(p.keys) /\ Len(p.keys) \in Nat /\ DOMAIN p.keys = 1 .. Len(p.keys)
  BY LiveLen DEF Spanned
<1>6. /\ Listed(keys) /\ keys # <<>> /\ Len(keys) = Len(p.keys) + 1
      /\ keys[Len(p.keys) + 1] = key /\ \A l \in 1 .. Len(p.keys) : keys[l] = p.keys[l]
  BY <1>5, ListedAppend
<1>7. Live(d)
  BY IncreaseFlowKeeps DEF Keeps, Spanned
<1>8. /\ "input" \in DOMAIN q /\ q.input = p.input /\ q.started = p.started /\ q.ended = p.ended /\ q.pos = p.pos /\ q.ok = p.ok
      /\ q.tokens = p.tokens /\ q.keys = keys /\ q.indents = p.indents
  <2> HIDE DEF keys
  <2> QED
    BY DEF Put, Spanned, Live, Scanning
<1> HIDE DEF keys, no
<1>9. /\ "input" \in DOMAIN r /\ r.input = p.input /\ r.started = p.started /\ r.ended = p.ended /\ r.pos = p.pos /\ r.ok = no
      /\ r.tokens = p.tokens /\ r.keys = keys /\ r.indents = p.indents
  <2>1. {"ok", "input", "pos", "tokens", "keys", "indents", "started", "ended"} \subseteq DOMAIN q
    BY DEF Put, Spanned, Live, Scanning
  <2> HIDE DEF q
  <2> QED
    BY <1>8, <2>1 DEF Put
<1> HIDE DEF q, r
<1>10. DOMAIN keys = 1 .. Len(p.keys) + 1
  BY <1>6, ListedLen
<1>11. \A l \in DOMAIN keys : Candidate(keys[l], p.pos)
  <2>1. \A l \in DOMAIN keys : l \in 1 .. Len(p.keys) \/ l = Len(p.keys) + 1
    BY <1>5, <1>10
  <2> QED
    BY <1>1, <1>5, <1>6, <2>1 DEF Spanned
<1>12. Len(keys) <= MaxFlowLevel + 2 /\ (d.ok => Len(keys) <= MaxFlowLevel + 1)
  <2>1. Len(p.keys) <= MaxFlowLevel + 1
    BY DEF Spanned, Limited
  <2>2. Len(keys) <= MaxFlowLevel + 2
    BY <1>5, <1>6, <2>1, LimitsAreNaturals
  <2>3. Len(keys) - 1 > MaxFlowLevel => ~d.ok
    BY <1>3, <1>4, <1>9
  <2>4. ~(Len(keys) - 1 > MaxFlowLevel) => Len(keys) <= MaxFlowLevel + 1
    BY <1>5, <1>6, LimitsAreNaturals
  <2> QED
    BY <2>2, <2>3, <2>4
<1>13. /\ "input" \in DOMAIN d /\ d.input = p.input /\ d.started = p.started /\ d.ended = p.ended /\ d.pos = p.pos /\ (d.ok => p.ok)
       /\ d.tokens = p.tokens /\ d.keys = keys /\ d.indents = p.indents
  BY <1>3, <1>4, <1>8, <1>9
<1> HIDE DEF d
<1>14. Limited(d) /\ Deepens(d.indents)
  BY <1>12, <1>13 DEF Limited, Spanned
<1> QED
  BY <1>7, <1>11, <1>13, <1>14, StaysHere, SameItself DEF d

LEMMA DecreaseFlowStays ==
  ASSUME NEW p, Spanned(p)
  PROVE  Staying(DecreaseFlow(p), p)
<1>1. CASE Flow(p) = 0
  BY <1>1, StayingItself DEF DecreaseFlow
<1>2. CASE Flow(p) # 0
  <2> DEFINE keys == SubSeq(p.keys, 1, Len(p.keys) - 1)
             x == WithoutToken(p.byTok, Last(p.keys).number)
             q == Put(p, "keys", keys)
             r == Put(q, "byTok", x)
  <2>1. [p EXCEPT !.keys = Front(@), !.byTok = WithoutToken(@, Last(p.keys).number)] = r
    BY DEF Put, Front
  <2>2. DecreaseFlow(p) = r
    <3> HIDE DEF r
    <3> QED
      BY <1>2, <2>1 DEF DecreaseFlow
  <2>3. /\ Len(p.keys) \in Nat /\ Len(p.keys) >= 1 /\ DOMAIN p.keys = 1 .. Len(p.keys) /\ Listed(p.keys)
    BY LiveLen DEF Spanned
  <2>4. /\ Listed(keys) /\ Len(keys) = Len(p.keys) - 1 - 1 + 1
        /\ \A i \in 1 .. Len(p.keys) - 1 - 1 + 1 : keys[i] = p.keys[1 + i - 1]
    <3>1. 1 \in 1 .. Len(p.keys) + 1 /\ Len(p.keys) - 1 \in 1 - 1 .. Len(p.keys)
      BY <2>3
    <3> QED
      BY <2>3, <3>1, ListedPart
  <2> HIDE DEF keys
  <2>5. Len(keys) = Len(p.keys) - 1 /\ \A i \in 1 .. Len(keys) : keys[i] = p.keys[i] /\ i \in DOMAIN p.keys
    <3>1. Len(keys) = Len(p.keys) - 1
      BY <2>3, <2>4
    <3>2. \A i \in 1 .. Len(keys) : i \in 1 .. Len(p.keys) - 1 - 1 + 1 /\ 1 + i - 1 = i /\ i \in 1 .. Len(p.keys)
      BY <2>3, <3>1
    <3> QED
      BY <2>3, <2>4, <3>1, <3>2
  <2>6. \A l \in DOMAIN keys : l \in 1 .. Len(keys)
    BY <2>4, ListedLen
  <2>7. \A l \in DOMAIN keys : Candidate(keys[l], p.pos)
    BY <2>5, <2>6 DEF Spanned
  <2>8. Len(keys) # 0 /\ keys # <<>>
    <3>1. Len(p.keys) - 1 # 0
      BY <1>2 DEF Flow
    <3>2. Len(keys) # 0
      BY <2>5, <3>1
    <3>3. Len(keys) \in Nat /\ (keys # <<>> <=> Len(keys) >= 1)
      BY <2>4, ListedLen
    <3> QED
      BY <3>2, <3>3
  <2>9. Live(q)
    <3>1. \A l \in DOMAIN keys :
        {"number", "possible"} \subseteq DOMAIN keys[l] /\ keys[l].number \in 0 .. Len(p.tokens)
      BY <2>5, <2>6 DEF Spanned, Live, Scanning
    <3> QED
      BY <2>4, <2>8, <3>1, PutKeys DEF Spanned, Keeps
  <2>10. Len(keys) <= MaxFlowLevel + 2 /\ (p.ok => Len(keys) <= MaxFlowLevel + 1)
    <3>1. Len(p.keys) <= MaxFlowLevel + 2 /\ (p.ok => Len(p.keys) <= MaxFlowLevel + 1)
      BY DEF Spanned, Limited
    <3> QED
      BY <2>3, <2>5, <3>1, LimitsAreNaturals
  <2>11. Staying(q, p)
    BY <2>7, <2>9, <2>10, KeysStay
  <2> HIDE DEF q
  <2>12. Staying(r, q)
    BY <2>11, PutStays DEF Staying, Reading
  <2> HIDE DEF r
  <2> QED
    BY <2>2, <2>11, <2>12, StayingOn
<1> QED
  BY <1>1, <1>2

LEMMA RollStays ==
  ASSUME NEW p, Spanned(p), p.ok, NEW column \in Nat, NEW number \in -1 .. Len(p.tokens),
         NEW kind, kind # "StreamEnd", NEW at \in 1 .. p.pos
  PROVE  Staying(RollIndent(p, column, number, kind, at), p)
<1> DEFINE indents == Append(p.indents, column)
           q == Put(p, "indents", indents)
           no == FALSE
           e == Put(q, "ok", no)
           r == Insert(q, number, Token(kind, at, at))
<1>1. [p EXCEPT !.indents = Append(@, column)] = q
  BY DEF Put
<1>2. Error(q) = e /\ ~no
  BY DEF Error, Put
<1>3. \/ RollIndent(p, column, number, kind, at) = p
      \/ RollIndent(p, column, number, kind, at) = e
      \/ RollIndent(p, column, number, kind, at) = r /\ ~(Len(indents) - 1 > MaxIndents)
  <2>1. q.indents = indents
    <3> HIDE DEF indents
    <3> QED
      BY DEF Put, Spanned, Live, Scanning
  <2> HIDE DEF q, e
  <2> QED
    BY <1>1, <1>2, <2>1 DEF RollIndent
<1>4. Listed(p.indents) /\ Len(p.indents) \in Nat /\ DOMAIN p.indents = 1 .. Len(p.indents)
  BY LiveLen, ListedLen DEF Spanned
<1>5. /\ Listed(indents) /\ Len(indents) = Len(p.indents) + 1 /\ indents[Len(p.indents) + 1] = column
      /\ \A i \in 1 .. Len(p.indents) : indents[i] = p.indents[i]
  BY <1>4, ListedAppend
<1> HIDE DEF indents, no
<1>6. Live(q) /\ Live(e)
  <2>1. Live(q)
    BY <1>5, PutIndents DEF Keeps, Spanned
  <2> QED
    BY <1>2, <2>1, ErrorKeeps DEF Keeps
<1>7. /\ "input" \in DOMAIN q /\ q.input = p.input /\ q.started = p.started /\ q.ended = p.ended /\ q.pos = p.pos /\ q.ok = p.ok
      /\ q.tokens = p.tokens /\ q.keys = p.keys /\ q.indents = indents
  BY DEF Put, Spanned, Live, Scanning
<1>8. /\ "input" \in DOMAIN e /\ e.input = p.input /\ e.started = p.started /\ e.ended = p.ended /\ e.pos = p.pos /\ e.ok = no
      /\ e.tokens = p.tokens /\ e.keys = p.keys /\ e.indents = indents
  <2>1. {"ok", "input", "pos", "tokens", "keys", "indents", "started", "ended"} \subseteq DOMAIN q
    BY DEF Put, Spanned, Live, Scanning
  <2> HIDE DEF q
  <2> QED
    BY <1>7, <2>1 DEF Put
<1> HIDE DEF q, e
<1>9. Deepens(indents)
  <2>1. DOMAIN indents = 1 .. Len(p.indents) + 1
    BY <1>5, ListedLen
  <2>2. \A i \in DOMAIN indents : i \in 1 .. Len(p.indents) \/ i = Len(p.indents) + 1
    BY <1>4, <2>1
  <2>3. column \in Int /\ column >= -1
    OBVIOUS
  <2>4. \A i \in DOMAIN indents : indents[i] \in Int /\ indents[i] >= -1
    BY <1>4, <1>5, <2>2, <2>3 DEF Spanned, Deepens
  <2>5. PICK i \in 1 .. Len(p.indents) : p.indents[i] = -1
    BY <1>4 DEF Spanned, Deepens
  <2>6. i \in DOMAIN indents /\ indents[i] = -1
    BY <1>4, <1>5, <2>1, <2>5
  <2> QED
    BY <2>4, <2>6 DEF Deepens
<1>10. /\ \A l \in DOMAIN p.keys : Candidate(p.keys[l], p.pos)
       /\ Len(p.keys) <= MaxFlowLevel + 1 /\ Len(p.indents) <= MaxIndents + 1
       /\ Len(p.keys) \in Nat
  BY LiveLen DEF Spanned, Limited
<1>11. Len(p.keys) <= MaxFlowLevel + 2 /\ Len(indents) <= MaxIndents + 2
  BY <1>4, <1>5, <1>10, LimitsAreNaturals
<1>12. Staying(e, p)
  <2>1. Limited(e)
    BY <1>2, <1>8, <1>11 DEF Limited
  <2> QED
    BY <1>2, <1>6, <1>8, <1>9, <1>10, <2>1, StaysHere, SameItself
<1>13. ASSUME ~(Len(indents) - 1 > MaxIndents) PROVE Staying(r, p)
  <2>1. Len(indents) <= MaxIndents + 1
    BY <1>4, <1>5, <1>13, LimitsAreNaturals
  <2>2. Limited(q)
    BY <1>7, <1>10, <1>11, <2>1 DEF Limited
  <2>3. Staying(q, p)
    BY <1>6, <1>7, <1>9, <1>10, <2>2, StaysHere, SameItself
  <2>4. Staying(r, q)
    <3>1. Spanned(q)
      BY <2>3 DEF Staying, Reading
    <3>2. number \in -1 .. Len(q.tokens) /\ at \in 1 .. q.pos
      BY <1>7
    <3> HIDE DEF r
    <3>3. Staying(Insert(q, number, Token(kind, at, at)), q)
      BY <3>1, <3>2, InsertStays
    <3> QED
      BY <3>3 DEF r
  <2> HIDE DEF r
  <2> QED
    BY <2>3, <2>4, StayingOn
<1> HIDE DEF r
<1> QED
  BY <1>3, <1>12, <1>13, StayingItself

\* The elements behind those of s.
LEMMA ConcatTail ==
  ASSUME NEW s, Listed(s), NEW t, Listed(t)
  PROVE  /\ DOMAIN (s \o t) = 1 .. Len(s) + Len(t)
         /\ \A k \in 1 .. Len(s) + Len(t) :
              k \in 1 .. Len(s) \/ (k - Len(s) \in DOMAIN t /\ (s \o t)[k] = t[k - Len(s)])
<1>1. Len(s) \in Nat /\ Len(t) \in Nat /\ DOMAIN t = 1 .. Len(t) /\ DOMAIN s = 1 .. Len(s)
  BY ListedLen
<1>2. Listed(s \o t) /\ Len(s \o t) = Len(s) + Len(t)
  BY ListedConcat
<1>3. DOMAIN (s \o t) = 1 .. Len(s) + Len(t)
  BY <1>2, ListedLen
<1>4. ASSUME NEW k \in 1 .. Len(s) + Len(t), k \notin 1 .. Len(s)
      PROVE  k - Len(s) \in DOMAIN t /\ (s \o t)[k] = t[k - Len(s)]
  <2> DEFINE S == {s[i] : i \in DOMAIN s} \cup {t[i] : i \in DOMAIN t}
  <2>1. s \in Seq(S) /\ t \in Seq(S)
    BY DEF Listed
  <2> HIDE DEF S
  <2>2. k - Len(s) \in DOMAIN t
    BY <1>1, <1>4
  <2>3. k > Len(s) /\ k \in 1 .. Len(s) + Len(t)
    BY <1>1, <1>4
  <2> QED
    BY <2>1, <2>2, <2>3, ConcatProperties
<1> QED
  BY <1>3, <1>4

LEMMA IndentIs ==
  ASSUME NEW p, Spanned(p)
  PROVE  Indent(p) \in Int /\ Indent(p) >= -1
<1>1. Len(p.indents) \in Nat /\ DOMAIN p.indents = 1 .. Len(p.indents)
  BY LiveLen, ListedLen DEF Spanned
<1>2. PICK i \in DOMAIN p.indents : p.indents[i] = -1
  BY DEF Spanned, Deepens
<1>3. Len(p.indents) \in DOMAIN p.indents
  BY <1>1, <1>2
<1> QED
  BY <1>3 DEF Spanned, Deepens, Indent, Last

LEMMA UnrollStays ==
  ASSUME NEW p, Spanned(p), NEW column \in Int, column >= -1
  PROVE  Staying(UnrollIndent(p, column), p)
<1> DEFINE S == {i \in DOMAIN p.indents : p.indents[i] <= column}
           kept == Keep(p.indents, S)
           T == {p.indents[i] : i \in DOMAIN p.indents}
           ends == [i \in 1 .. Len(p.indents) - Len(kept) |-> Token("BlockEnd", p.pos, p.pos)]
           q == Put(p, "indents", kept)
           r == Put(q, "tokens", p.tokens \o ends)
<1>1. [p EXCEPT !.indents = kept, !.tokens = @ \o ends] = r
  <2> HIDE DEF kept, ends
  <2> QED
    BY DEF Put
<1>2. UnrollIndent(p, column) = p \/ UnrollIndent(p, column) = r
  <2> HIDE DEF r
  <2> QED
    BY <1>1 DEF UnrollIndent
<1>3. p.indents \in Seq(T) /\ Len(p.indents) \in Nat /\ DOMAIN p.indents = 1 .. Len(p.indents)
  BY LiveLen, ListedLen DEF Spanned, Live, Scanning, Listed
<1>4. kept \in Seq(T) /\ Range(kept) = {p.indents[i] : i \in S \cap DOMAIN p.indents}
      /\ Len(kept) <= Len(p.indents)
  <2> HIDE DEF T, S
  <2> QED
    BY <1>3, KeepRange, KeepShorter
<1>5. Deepens(kept)
  <2>1. PICK i \in DOMAIN p.indents : p.indents[i] = -1
    BY DEF Spanned, Deepens
  <2>2. i \in S \cap DOMAIN p.indents
    BY <2>1
  <2>3. -1 \in Range(kept)
    <3> HIDE DEF kept, S
    <3> QED
      BY <1>4, <2>1, <2>2
  <2>4. \A n \in Range(kept) : n \in Int /\ n >= -1
    <3> HIDE DEF kept, S
    <3> QED
      BY <1>4 DEF Spanned, Deepens
  <2> HIDE DEF kept, S
  <2>5. \A k \in DOMAIN kept : kept[k] \in Range(kept)
    BY DEF Range
  <2>6. -1 \in {kept[k] : k \in DOMAIN kept}
    BY <2>3 DEF Range
  <2> QED
    BY <2>4, <2>5, <2>6 DEF Deepens
<1> HIDE DEF S, kept
<1>6. Listed(kept) /\ Len(kept) \in Nat
  BY <1>4, ListedIs
<1> HIDE DEF T
<1>7. Listed(ends) /\ Len(ends) \in Nat /\ \A i \in DOMAIN ends : ends[i] = Token("BlockEnd", p.pos, p.pos)
  <2>1. Len(p.indents) - Len(kept) \in Int
    BY <1>3, <1>6
  <2> QED
    BY <2>1, ListedConstant, ListedLen
<1> HIDE DEF ends
<1>8. Live(q)
  BY <1>6, PutIndents DEF Spanned, Keeps
<1>9. /\ "input" \in DOMAIN q /\ q.input = p.input /\ q.started = p.started /\ q.ended = p.ended /\ q.pos = p.pos /\ q.ok = p.ok
      /\ q.tokens = p.tokens /\ q.keys = p.keys /\ q.indents = kept
  BY PutRest
<1> HIDE DEF q
<1>10. Staying(q, p)
  <2>1. Limited(q)
    <3>1. Len(p.indents) <= MaxIndents + 2 /\ (p.ok => Len(p.indents) <= MaxIndents + 1)
      BY DEF Spanned, Limited
    <3>2. Len(kept) <= MaxIndents + 2 /\ (p.ok => Len(kept) <= MaxIndents + 1)
      BY <1>3, <1>4, <1>6, <3>1, LimitsAreNaturals
    <3> QED
      BY <1>9, <3>2 DEF Spanned, Limited
  <2>2. \A l \in DOMAIN p.keys : Candidate(p.keys[l], p.pos)
    BY DEF Spanned
  <2> QED
    BY <1>5, <1>8, <1>9, <2>1, <2>2, StaysHere, SameItself
<1>11. Spanned(q)
  BY <1>10 DEF Staying, Reading
<1> DEFINE u == p.tokens \o ends
<1>12. r = Put(q, "tokens", u)
  OBVIOUS
<1> HIDE DEF r
<1>13. Listed(p.tokens) /\ Len(p.tokens) \in Nat /\ DOMAIN p.tokens = 1 .. Len(p.tokens)
       /\ p.parsed \in 0 .. Len(p.tokens)
  BY LiveLen, ListedLen DEF Spanned
<1>14. /\ Listed(u) /\ Len(u) = Len(p.tokens) + Len(ends) /\ DOMAIN u = 1 .. Len(p.tokens) + Len(ends)
       /\ \A i \in 1 .. Len(p.tokens) : u[i] = p.tokens[i]
       /\ \A k \in 1 .. Len(p.tokens) + Len(ends) :
            k \in 1 .. Len(p.tokens) \/ (k - Len(p.tokens) \in DOMAIN ends /\ u[k] = ends[k - Len(p.tokens)])
  BY <1>7, <1>13, ListedConcat, ConcatTail
<1> HIDE DEF u
<1>15. Same(u, q.tokens, q.pos)
  <2> DEFINE t == Token("BlockEnd", p.pos, p.pos)
  <2>1. Spot(t, p.pos) /\ t.end = t.start /\ t.kind # "StreamEnd"
    BY MarkIs, SpannedPos DEF Spot
  <2> HIDE DEF t
  <2>2. \A k \in DOMAIN u : k \in 1 .. Len(p.tokens) \/ u[k] = t
    BY <1>7, <1>14 DEF t
  <2>3. \A i \in DOMAIN p.tokens : i \in DOMAIN u /\ u[i] = p.tokens[i]
    BY <1>7, <1>13, <1>14
  <2>4. \A k \in DOMAIN u : u[k] = t \/ \E i \in DOMAIN p.tokens : u[k] = p.tokens[i]
    BY <1>13, <2>2, <2>3
  <2> QED
    BY <1>9, <1>11, <2>1, <2>3, <2>4, SameByMarks
<1>16. Live(r)
  <2>1. Len(u) >= Len(q.tokens) /\ \A i \in 1 .. q.parsed : i \in 1 .. Len(p.tokens)
    <3>1. q.parsed \in 0 .. Len(p.tokens)
      BY <1>9, <1>8, LiveLen
    <3> QED
      BY <1>7, <1>9, <1>13, <1>14, <3>1
  <2> QED
    BY <1>8, <1>9, <1>12, <1>14, <2>1, PutTokens DEF Keeps
<1>17. Staying(r, q)
  BY <1>11, <1>12, <1>15, <1>16, TokensStay
<1> QED
  BY <1>2, <1>10, <1>17, StayingItself, StayingOn

-----------------------------------------------------------------------------
(* A token and the text behind it.                                         *)

\* A token is taken from the text, with what stands behind it.
Taken(q, p, t, e) ==
  /\ Live(q) /\ "input" \in DOMAIN q /\ q.input = p.input /\ q.started = p.started /\ q.ended = p.ended /\ q.pos = e /\ (q.ok => p.ok)
  /\ q.tokens = Append(p.tokens, t) /\ q.keys = p.keys /\ q.indents = p.indents
  /\ {"kind", "start", "end"} \subseteq DOMAIN t /\ t.start = p.pos
  /\ e \in p.pos .. Len(p.input) + 1 /\ t.end \in p.pos .. e /\ Empty(p.input, t.end, e)

LEMMA TakenReads ==
  ASSUME NEW p, Spanned(p), NEW q, NEW t, NEW e, Taken(q, p, t, e)
  PROVE  /\ Spanned(q) /\ \A j \in 1 .. p.pos - 1 : Cov(q.tokens, j) <=> Cov(p.tokens, j)
         /\ t.kind # "StreamEnd" => Reading(q, p)
<1> DEFINE u == Append(p.tokens, t)
           s == p.input
           n == Len(p.tokens)
<1>1. Listed(p.tokens) /\ n \in Nat /\ DOMAIN p.tokens = 1 .. n
  BY LiveLen, ListedLen DEF Spanned
<1>2. /\ Listed(u) /\ Len(u) = n + 1 /\ u[n + 1] = t /\ \A i \in 1 .. n : u[i] = p.tokens[i]
  BY <1>1, ListedAppend
<1>3. q.tokens = u
  BY DEF Taken
<1> HIDE DEF u, n
<1>4. DOMAIN u = 1 .. n + 1 /\ \A i \in 1 .. n : i \in DOMAIN u
  BY <1>1, <1>2, ListedLen
<1>5. /\ p.pos \in Nat /\ p.pos >= 1 /\ Len(s) \in Nat /\ e \in Nat /\ p.pos <= e /\ e <= Len(s) + 1
      /\ t.end \in Nat /\ p.pos <= t.end /\ t.end <= e
  <2>1. p.pos \in Nat /\ p.pos >= 1 /\ Len(s) \in Nat
    BY SpannedPos
  <2>2. e \in p.pos .. Len(s) + 1 /\ t.end \in p.pos .. e
    BY DEF Taken
  <2> QED
    BY <2>1, <2>2
<1>6. \A i \in 1 .. n : Spot(p.tokens[i], p.pos)
  BY <1>1 DEF Spanned
<1>7. ASSUME NEW i \in DOMAIN u PROVE i \in 1 .. n \/ i = n + 1
  BY <1>1, <1>4
<1>8. Spanned(q)
  <2>1. e \in Places(s)
    BY <1>5 DEF Places
  <2>2. \A m \in 1 .. p.pos : m \in 1 .. e
    BY <1>5
  <2>3. ASSUME NEW o, Spot(o, p.pos) PROVE Spot(o, e)
    <3>1. o.start \in 1 .. p.pos /\ o.end \in o.start .. p.pos
      BY <2>3 DEF Spot
    <3>2. o.start \in 1 .. e /\ o.end \in o.start .. e
      BY <1>5, <3>1
    <3> QED
      BY <2>3, <3>2 DEF Spot
  <2>4. ASSUME NEW key, Candidate(key, p.pos) PROVE Candidate(key, e)
    BY <2>2, <2>4 DEF Candidate
  <2>5. Spot(t, e)
    <3>1. t.start \in 1 .. e /\ t.end \in t.start .. e
      BY <1>5 DEF Taken
    <3> QED
      BY <3>1 DEF Taken, Spot
  <2>6. \A i \in DOMAIN u : Spot(u[i], e)
    BY <1>2, <1>6, <1>7, <2>3, <2>5
  <2>7. /\ Live(q) /\ "input" \in DOMAIN q /\ q.input = s /\ q.pos = e /\ (q.ok => p.ok)
        /\ q.keys = p.keys /\ q.indents = p.indents
    BY DEF Taken
  <2>8. Limited(q) /\ Deepens(q.indents)
    BY <2>7 DEF Spanned, Limited
  <2>9. \A l \in DOMAIN q.keys : Candidate(q.keys[l], e)
    BY <2>4, <2>7 DEF Spanned
  <2> QED
    BY <1>3, <2>1, <2>6, <2>7, <2>8, <2>9 DEF Spanned
<1>9. ASSUME NEW j, Cov(p.tokens, j) PROVE Cov(u, j)
  <2>1. PICK i \in 1 .. n : j \in p.tokens[i].start .. p.tokens[i].end - 1
    BY <1>1, <1>9 DEF Cov
  <2> QED
    BY <1>2, <1>4, <2>1 DEF Cov
<1>10. ASSUME NEW j, Cov(u, j) PROVE Cov(p.tokens, j) \/ j \in p.pos .. t.end - 1
  <2>1. PICK i \in DOMAIN u : j \in u[i].start .. u[i].end - 1
    BY <1>10 DEF Cov
  <2>2. CASE i \in 1 .. n
    BY <1>1, <1>2, <2>1, <2>2 DEF Cov
  <2>3. CASE i = n + 1
    BY <1>2, <2>1, <2>3 DEF Taken
  <2> QED
    BY <1>7, <2>2, <2>3
<1>11. ASSUME NEW j \in 1 .. p.pos - 1 PROVE Cov(u, j) <=> Cov(p.tokens, j)
  <2>1. j \notin p.pos .. t.end - 1
    BY <1>5
  <2> QED
    BY <1>9, <1>10, <2>1
<1>12. ASSUME NEW j \in p.pos .. e - 1 PROVE Clear(s, u, j)
  <2>1. CASE j < t.end
    <3>1. j \in u[n + 1].start .. u[n + 1].end - 1 /\ n + 1 \in DOMAIN u
      BY <1>1, <1>2, <1>4, <1>5, <2>1 DEF Taken
    <3> QED
      BY <3>1 DEF Clear, Cov
  <2>2. CASE j >= t.end
    <3>1. j \in t.end .. e - 1
      BY <1>5, <2>2
    <3>2. CASE Ch(s, j) \in Blank \cup Break
      BY <3>2 DEF Clear
    <3>3. CASE Ch(s, j) \notin Blank \cup Break
      <4>1. PICK k \in t.end .. j : Ch(s, k) = "#" /\ Line(s, k) = Line(s, j)
        BY <3>1, <3>3 DEF Taken, Empty
      <4>2. k \in 1 .. j /\ k \notin p.pos .. t.end - 1 /\ k \in Nat /\ k >= p.pos
        BY <1>5, <4>1
      <4>3. ~Cov(p.tokens, k)
        <5>1. \A i \in 1 .. n : p.tokens[i].start \in 1 .. p.pos /\ p.tokens[i].end \in p.tokens[i].start .. p.pos
          BY <1>6 DEF Spot
        <5> QED
          BY <1>1, <1>5, <4>2, <5>1 DEF Cov
      <4>4. ~Cov(u, k)
        BY <1>10, <4>2, <4>3
      <4> QED
        BY <4>1, <4>2, <4>4 DEF Clear
    <3> QED
      BY <3>2, <3>3
  <2> QED
    BY <1>5, <2>1, <2>2
<1>13. ASSUME t.kind # "StreamEnd", Ends(u) PROVE Ends(p.tokens)
  <2>1. PICK i \in DOMAIN u : u[i].kind = "StreamEnd"
    BY <1>13 DEF Ends
  <2>2. i \in 1 .. n
    BY <1>2, <1>7, <1>13, <2>1
  <2> QED
    BY <1>1, <1>2, <2>1, <2>2 DEF Ends
<1>14. q.input = s /\ q.pos = e /\ (q.ok => p.ok) /\ q.started = p.started /\ q.ended = p.ended
  BY DEF Taken
<1>15. t.kind # "StreamEnd" => Reading(q, p)
  BY <1>3, <1>5, <1>8, <1>11, <1>12, <1>13, <1>14 DEF Reading
<1> QED
  BY <1>3, <1>8, <1>11, <1>15

LEMMA IndicatorTaken ==
  ASSUME NEW p, Spanned(p), NEW kind, NEW n \in Nat, p.pos + n <= Len(p.input) + 1
  PROVE  Taken(Indicator(p, kind, n), p, Token(kind, p.pos, p.pos + n), p.pos + n)
<1> DEFINE t == Token(kind, p.pos, p.pos + n)
           u == Append(p.tokens, t)
           a == Put(p, "tokens", u)
           e == p.pos + n
           q == Put(a, "pos", e)
<1>1. Indicator(p, kind, n) = q
  <2>1. Add(p, t) = a
    BY DEF Add, Put
  <2>2. a.pos = p.pos
    <3> HIDE DEF u
    <3> QED
      BY DEF Put, Spanned, Live, Scanning
  <2> HIDE DEF a, t
  <2>3. [a EXCEPT !.pos = @ + n] = Put(a, "pos", a.pos + n)
    BY DEF Put
  <2> QED
    BY <2>1, <2>2, <2>3 DEF Indicator, t
<1>2. t.kind = kind /\ t.start = p.pos /\ t.end = e /\ {"kind", "start", "end"} \subseteq DOMAIN t
  BY DEF Token
<1> HIDE DEF t
<1>3. Live(q)
  BY <1>1, IndicatorKeeps DEF Keeps, Spanned
<1>4. p.pos \in Nat /\ Len(p.input) \in Nat /\ e \in p.pos .. Len(p.input) + 1 /\ e \in p.pos .. e /\ e \in Int
  BY SpannedPos
<1> HIDE DEF u, e
<1>5. /\ "input" \in DOMAIN q /\ q.input = p.input /\ q.started = p.started /\ q.ended = p.ended /\ q.pos = e /\ q.ok = p.ok
      /\ q.tokens = u /\ q.keys = p.keys /\ q.indents = p.indents
  BY DEF Put, Spanned, Live, Scanning
<1> HIDE DEF q
<1>6. Empty(p.input, e, e)
  BY <1>4, EmptyItself
<1>7. Taken(q, p, t, e)
  BY <1>2, <1>3, <1>4, <1>5, <1>6 DEF Taken, u
<1> QED
  BY <1>1, <1>7 DEF t, e

LEMMA IndicatorReads ==
  ASSUME NEW p, Spanned(p), NEW kind, kind # "StreamEnd", NEW n \in Nat, p.pos + n <= Len(p.input) + 1
  PROVE  Reading(Indicator(p, kind, n), p)
<1>1. Token(kind, p.pos, p.pos + n).kind = kind
  BY DEF Token
<1> QED
  BY <1>1, IndicatorTaken, TakenReads

\* Where a character is, there is room for it.
LEMMA CharRoom ==
  ASSUME NEW p, Spanned(p), At(p) # "z"
  PROVE  p.pos \in 1 .. Len(p.input) /\ p.pos + 1 <= Len(p.input) + 1
BY SpannedPos, CharIn DEF At, Spanned

\* The states that have read as far as p does, in the same text.
LEMMA StayingIs ==
  ASSUME NEW p, NEW q, Staying(q, p)
  PROVE  /\ Spanned(q) /\ Live(q) /\ Reading(q, p) /\ q.pos = p.pos /\ q.input = p.input /\ q.started = p.started /\ q.ended = p.ended
         /\ At(q) = At(p) /\ After(q) = After(p) /\ (q.ok => p.ok)
BY DEF Staying, Reading, Spanned, At, After

LEMMA IndicatorStep ==
  ASSUME NEW p, Spanned(p), At(p) # "z", NEW q, Staying(q, p), NEW kind, kind # "StreamEnd"
  PROVE  Reading(Indicator(q, kind, 1), p)
<1>1. Spanned(q) /\ At(q) # "z" /\ Reading(q, p)
  BY StayingIs
<1>2. q.pos + 1 <= Len(q.input) + 1
  BY <1>1, CharRoom
<1>3. Reading(Indicator(q, kind, 1), q)
  BY <1>1, <1>2, IndicatorReads
<1> QED
  BY <1>1, <1>3, ReadingOn

LEMMA AllowedStep ==
  ASSUME NEW p, Spanned(p), At(p) # "z", NEW q, Staying(q, p), NEW b, NEW kind, kind # "StreamEnd"
  PROVE  Reading(Indicator(Allow(q, b), kind, 1), p)
<1>1. Staying(Allow(q, b), p)
  BY AllowStays, StayingIs, StayingOn
<1> QED
  BY <1>1, IndicatorStep

LEMMA ScannedReads ==
  ASSUME NEW p, Spanned(p), NEW kind, kind # "StreamEnd", NEW end, Reaches(p.input, p.pos, end)
  PROVE  Reading(Scanned(p, kind, end), p)
<1>1. CASE end = Failed
  BY <1>1, ErrorStays DEF Scanned, Staying
<1>2. CASE end # Failed
  <2> DEFINE n == end - p.pos
  <2>1. end \in p.pos .. Len(p.input) + 1 /\ p.pos \in Nat /\ Len(p.input) \in Nat
    BY <1>2, SpannedPos DEF Reaches
  <2>2. n \in Nat /\ p.pos + n <= Len(p.input) + 1
    BY <2>1
  <2> HIDE DEF n
  <2>3. Reading(Indicator(p, kind, n), p)
    BY <2>2, IndicatorReads
  <2> QED
    BY <1>2, <2>3 DEF Scanned, n
<1> QED
  BY <1>1, <1>2

\* A token and the text behind it, as the scans of a scalar and of a directive
\* return them.
Reached(s, i, d) ==
  d.stop # Failed => d.stop \in i .. Len(s) + 1 /\ d.end \in i .. d.stop /\ Empty(s, d.end, d.stop)

LEMMA TakeScalarReads ==
  ASSUME NEW p, Spanned(p), NEW scalar, Reached(p.input, p.pos, scalar), NEW allowed
  PROVE  Reading(TakeScalar(p, scalar, allowed), p)
<1> DEFINE t == [Token("Scalar", p.pos, scalar.end) EXCEPT !.empty = scalar.empty]
           u == Append(p.tokens, t)
           a == Put(p, "tokens", u)
           b == Put(a, "pos", scalar.stop)
           q == Put(b, "allowed", allowed)
<1>1. CASE scalar.stop = Failed
  BY <1>1, ErrorStays DEF TakeScalar, Staying
<1>2. CASE scalar.stop # Failed
  <2>1. TakeScalar(p, scalar, allowed) = q
    <3>1. Add(p, t) = a
      BY DEF Add, Put
    <3>2. [a EXCEPT !.pos = scalar.stop, !.allowed = allowed] = q
      BY DEF Put
    <3> HIDE DEF a, q, t
    <3> QED
      BY <1>2, <3>1, <3>2 DEF TakeScalar, t
  <2>2. /\ t.kind = "Scalar" /\ t.start = p.pos /\ t.end = scalar.end
        /\ {"kind", "start", "end"} \subseteq DOMAIN t
    BY DEF Token
  <2> HIDE DEF t
  <2>3. Live(q)
    BY <2>1, TakeScalarKeeps DEF Keeps, Spanned
  <2> HIDE DEF u
  <2>4. /\ "input" \in DOMAIN q /\ q.input = p.input /\ q.started = p.started /\ q.ended = p.ended /\ q.pos = scalar.stop /\ q.ok = p.ok
        /\ q.tokens = u /\ q.keys = p.keys /\ q.indents = p.indents
    BY DEF Put, Spanned, Live, Scanning
  <2> HIDE DEF q
  <2>5. Taken(q, p, t, scalar.stop)
    BY <1>2, <2>2, <2>3, <2>4 DEF Taken, Reached, u
  <2>6. t.kind # "StreamEnd"
    BY <2>2
  <2> QED
    BY <2>1, <2>5, <2>6, TakenReads
<1> QED
  BY <1>1, <1>2

LEMMA TakeDirectiveReads ==
  ASSUME NEW p, Spanned(p), NEW d, Reached(p.input, p.pos, d), d.stop # Failed => d.kind # "StreamEnd"
  PROVE  Reading(TakeDirective(p, d), p)
<1> DEFINE t == Token(d.kind, p.pos, d.end)
           u == Append(p.tokens, t)
           a == Put(p, "tokens", u)
           q == Put(a, "pos", d.stop)
<1>1. CASE d.stop = Failed
  BY <1>1, ErrorStays DEF TakeDirective, Staying
<1>2. CASE d.stop # Failed
  <2>1. TakeDirective(p, d) = q /\ Add(p, t) = a
    <3>1. Add(p, t) = a
      BY DEF Add, Put
    <3>2. [a EXCEPT !.pos = d.stop] = q
      BY DEF Put
    <3> HIDE DEF a, q, t
    <3> QED
      BY <1>2, <3>1, <3>2 DEF TakeDirective, t
  <2>2. /\ t.kind = d.kind /\ t.start = p.pos /\ t.end = d.end
        /\ {"kind", "start", "end"} \subseteq DOMAIN t
    BY DEF Token
  <2> HIDE DEF t
  <2>3. Live(q)
    <3>1. Live(a)
      BY <2>1, AddKeeps DEF Keeps, Spanned
    <3> HIDE DEF a
    <3> QED
      BY <3>1, PosKeeps DEF Keeps
  <2> HIDE DEF u
  <2>4. /\ "input" \in DOMAIN q /\ q.input = p.input /\ q.started = p.started /\ q.ended = p.ended /\ q.pos = d.stop /\ q.ok = p.ok
        /\ q.tokens = u /\ q.keys = p.keys /\ q.indents = p.indents
    BY DEF Put, Spanned, Live, Scanning
  <2> HIDE DEF q
  <2>5. Taken(q, p, t, d.stop)
    BY <1>2, <2>2, <2>3, <2>4 DEF Taken, Reached, u
  <2>6. t.kind # "StreamEnd"
    BY <1>2, <2>2
  <2> QED
    BY <2>1, <2>5, <2>6, TakenReads
<1> QED
  BY <1>1, <1>2

LEMMA CloseBlocksStays ==
  ASSUME NEW p, Spanned(p)
  PROVE  Staying(CloseBlocks(p), p)
<1> DEFINE q == UnrollIndent(p, -1)
           r == RemoveKey(q)
           no == FALSE
           s == Allow(r, no)
<1>1. CloseBlocks(p) = r \/ CloseBlocks(p) = s
  BY DEF CloseBlocks, Then
<1>2. Staying(q, p)
  BY UnrollStays
<1> HIDE DEF q
<1>3. Staying(r, p)
  BY <1>2, RemoveKeyStays, StayingOn, StayingIs
<1> HIDE DEF r, no
<1>4. Staying(s, p)
  BY <1>3, AllowStays, StayingOn, StayingIs
<1> QED
  BY <1>1, <1>3, <1>4

LEMMA ColIs ==
  ASSUME NEW p, Spanned(p)
  PROVE  Col(p) \in Nat
<1>1. Column(p.input, p.pos) \in 0 .. p.pos - 1 /\ p.pos \in Nat
  BY SpannedPos, ColumnIs
<1> QED
  BY <1>1 DEF Col

LEMMA OpenBlockStays ==
  ASSUME NEW p, Spanned(p), p.ok, NEW kind, kind # "StreamEnd"
  PROVE  Staying(OpenBlock(p, kind), p)
<1>1. -1 \in -1 .. Len(p.tokens) /\ p.pos \in 1 .. p.pos
  BY LiveLen, SpannedPos DEF Spanned
<1>2. Staying(RollIndent(p, Col(p), -1, kind, p.pos), p)
  BY <1>1, ColIs, RollStays
<1>3. \/ OpenBlock(p, kind) = p \/ OpenBlock(p, kind) = Error(p)
      \/ OpenBlock(p, kind) = RollIndent(p, Col(p), -1, kind, p.pos)
  BY DEF OpenBlock
<1> QED
  BY <1>2, <1>3, StayingItself, ErrorStays

-----------------------------------------------------------------------------
(* What each token reads.                                                  *)

LEMMA DirectiveReads ==
  ASSUME NEW p, Spanned(p), At(p) # "z"
  PROVE  Reading(DirectiveToken(p), p)
<1> DEFINE q == CloseBlocks(p)
           d == Directive(q.input, q.pos)
           r == TakeDirective(q, d)
<1>1. DirectiveToken(p) = q \/ DirectiveToken(p) = r
  BY DEF DirectiveToken, Then
<1>2. Staying(q, p)
  BY CloseBlocksStays
<1> HIDE DEF q
<1>3. Spanned(q) /\ Reading(q, p) /\ At(q) # "z"
  BY <1>2, StayingIs
<1>4. TextLike(q.input) /\ q.pos \in 1 .. Len(q.input)
  BY <1>3, CharRoom DEF Spanned
<1>5. d.stop # Failed => /\ d.kind \in DirectiveKinds
                         /\ d.end \in q.pos .. d.stop /\ d.stop \in q.pos .. Len(q.input) + 1
                         /\ Empty(q.input, d.end, d.stop)
  BY <1>4, DirectiveIs
<1> HIDE DEF d
<1>6. Reached(q.input, q.pos, d)
  BY <1>5 DEF Reached
<1>7. d.stop # Failed => d.kind # "StreamEnd"
  BY <1>5 DEF DirectiveKinds
<1>8. Reading(r, q)
  BY <1>3, <1>6, <1>7, TakeDirectiveReads
<1> HIDE DEF r
<1> QED
  BY <1>1, <1>3, <1>8, ReadingOn

LEMMA DocumentReads ==
  ASSUME NEW p, Spanned(p), NEW c, c # "z", DocumentMarkerAt(p.input, p.pos, c),
         NEW kind, kind # "StreamEnd"
  PROVE  Reading(DocumentIndicator(p, kind), p)
<1> DEFINE q == CloseBlocks(p)
           r == Indicator(q, kind, 3)
<1>1. DocumentIndicator(p, kind) = q \/ DocumentIndicator(p, kind) = r
  BY DEF DocumentIndicator, Then
<1>2. Staying(q, p)
  BY CloseBlocksStays
<1> HIDE DEF q
<1>3. Spanned(q) /\ Reading(q, p) /\ q.input = p.input /\ q.started = p.started /\ q.ended = p.ended /\ q.pos = p.pos
  BY <1>2, StayingIs
<1>4. Ch(p.input, p.pos + 2) # "z"
  <2>1. 2 \in 0 .. 2
    OBVIOUS
  <2> QED
    BY <2>1 DEF DocumentMarkerAt
<1>5. p.pos + 2 \in 1 .. Len(p.input)
  <2>1. p.pos + 2 \in Int /\ TextLike(p.input)
    BY SpannedPos DEF Spanned
  <2> QED
    BY <1>4, <2>1, CharIn
<1>6. q.pos + 3 <= Len(q.input) + 1
  <2>1. p.pos \in Nat /\ Len(p.input) \in Nat
    BY SpannedPos
  <2>2. p.pos + 3 <= Len(p.input) + 1
    BY <1>5, <2>1
  <2> QED
    BY <1>3, <2>2
<1>7. Reading(r, q)
  BY <1>3, <1>6, IndicatorReads
<1> HIDE DEF r
<1> QED
  BY <1>1, <1>3, <1>7, ReadingOn

LEMMA FlowStartReads ==
  ASSUME NEW p, Spanned(p), At(p) # "z", NEW kind, kind # "StreamEnd"
  PROVE  Reading(FlowStart(p, kind), p)
<1> DEFINE q == SaveKey(p)
           r == IF q.ok THEN IncreaseFlow(q) ELSE q
           yes == TRUE
           s == Indicator(Allow(r, yes), kind, 1)
<1>1. FlowStart(p, kind) = r \/ FlowStart(p, kind) = s
  BY DEF FlowStart, Then
<1>2. Staying(q, p)
  BY SaveKeyStays
<1> HIDE DEF q
<1>3. Staying(r, p)
  BY <1>2, IncreaseFlowStays, StayingIs, StayingOn
<1> HIDE DEF r, yes
<1>4. Reading(s, p)
  BY <1>3, AllowedStep
<1> HIDE DEF s
<1> QED
  BY <1>1, <1>3, <1>4, StayingIs

LEMMA FlowEndReads ==
  ASSUME NEW p, Spanned(p), At(p) # "z", NEW kind, kind # "StreamEnd"
  PROVE  Reading(FlowEnd(p, kind), p)
<1> DEFINE q == RemoveKey(p)
           r == DecreaseFlow(q)
           no == FALSE
           s == Indicator(Allow(r, no), kind, 1)
<1>1. FlowEnd(p, kind) = q \/ FlowEnd(p, kind) = s
  BY DEF FlowEnd, Then
<1>2. Staying(q, p)
  BY RemoveKeyStays
<1> HIDE DEF q
<1>3. Staying(r, p)
  BY <1>2, DecreaseFlowStays, StayingIs, StayingOn
<1> HIDE DEF r, no
<1>4. Reading(s, p)
  BY <1>3, AllowedStep
<1> HIDE DEF s
<1> QED
  BY <1>1, <1>2, <1>4, StayingIs

LEMMA FlowEntryReads ==
  ASSUME NEW p, Spanned(p), At(p) # "z"
  PROVE  Reading(FlowEntry(p), p)
<1> DEFINE q == RemoveKey(p)
           yes == TRUE
           s == Indicator(Allow(q, yes), "FlowEntry", 1)
<1>1. FlowEntry(p) = q \/ FlowEntry(p) = s
  BY DEF FlowEntry, Then
<1>2. Staying(q, p)
  BY RemoveKeyStays
<1> HIDE DEF q, yes
<1>3. Reading(s, p)
  BY <1>2, AllowedStep
<1> HIDE DEF s
<1> QED
  BY <1>1, <1>2, <1>3, StayingIs

LEMMA BlockEntryReads ==
  ASSUME NEW p, Spanned(p), p.ok, At(p) # "z"
  PROVE  Reading(BlockEntry(p), p)
<1> DEFINE q == OpenBlock(p, "BlockSequenceStart")
           r == IF q.ok THEN RemoveKey(q) ELSE q
           yes == TRUE
           s == Indicator(Allow(r, yes), "BlockEntry", 1)
<1>1. BlockEntry(p) = r \/ BlockEntry(p) = s
  BY DEF BlockEntry, Then
<1>2. Staying(q, p)
  BY OpenBlockStays
<1> HIDE DEF q
<1>3. Staying(r, p)
  BY <1>2, RemoveKeyStays, StayingIs, StayingOn
<1> HIDE DEF r, yes
<1>4. Reading(s, p)
  BY <1>3, AllowedStep
<1> HIDE DEF s
<1> QED
  BY <1>1, <1>3, <1>4, StayingIs

LEMMA ExplicitKeyReads ==
  ASSUME NEW p, Spanned(p), p.ok, At(p) # "z"
  PROVE  Reading(ExplicitKey(p), p)
<1> DEFINE q == OpenBlock(p, "BlockMappingStart")
           r == IF q.ok THEN RemoveKey(q) ELSE q
           b == Flow(r) = 0
           s == Indicator(Allow(r, b), "Key", 1)
<1>1. ExplicitKey(p) = r \/ ExplicitKey(p) = s
  BY DEF ExplicitKey, Then
<1>2. Staying(q, p)
  BY OpenBlockStays
<1> HIDE DEF q
<1>3. Staying(r, p)
  BY <1>2, RemoveKeyStays, StayingIs, StayingOn
<1> HIDE DEF r, b
<1>4. Reading(s, p)
  BY <1>3, AllowedStep
<1> HIDE DEF s
<1> QED
  BY <1>1, <1>3, <1>4, StayingIs

LEMMA ValueOfSimpleKeyStays ==
  ASSUME NEW p, Spanned(p), p.ok
  PROVE  Staying(ValueOfSimpleKey(p), p)
<1> DEFINE key == Last(p.keys)
           q == Insert(p, key.number, Token("Key", key.at, key.at))
           column == Column(p.input, key.at)
           r == RollIndent(q, column, key.number, "BlockMappingStart", key.at)
           no == FALSE
           s == Put(r, "keys", SetPossible(r.keys, Len(r.keys), no))
           t == Put(s, "byTok", WithoutToken(r.byTok, key.number))
           u == Allow(t, no)
<1>1. key.number \in -1 .. Len(p.tokens) /\ key.at \in 1 .. p.pos
  <2>1. key = p.keys[Len(p.keys)] /\ Len(p.keys) \in DOMAIN p.keys
    BY LiveLen DEF Last, Spanned
  <2>2. key.number \in 0 .. Len(p.tokens) /\ Len(p.tokens) \in Nat
    BY <2>1, LiveLen DEF Spanned, Live, Scanning
  <2>3. Candidate(p.keys[Len(p.keys)], p.pos)
    BY <2>1 DEF Spanned
  <2> QED
    BY <2>1, <2>2, <2>3 DEF Candidate
<1>2. column \in Nat
  <2>1. Column(p.input, key.at) \in 0 .. key.at - 1
    BY <1>1, ColumnIs
  <2> QED
    BY <2>1
<1> HIDE DEF key, column
<1>3. Staying(q, p)
  BY <1>1, InsertStays
<1>4. [r EXCEPT !.keys[Len(r.keys)].possible = FALSE, !.byTok = WithoutToken(@, key.number)] = t
  <2> HIDE DEF r
  <2> QED
    BY DEF Put, SetPossible
<1>5. ValueOfSimpleKey(p) = r \/ ValueOfSimpleKey(p) = u
  <2> HIDE DEF t, s
  <2> QED
    BY <1>4 DEF ValueOfSimpleKey, Then, key, column
<1>6. q.ok /\ Len(q.tokens) >= Len(p.tokens)
  <2>1. Keeps(q, p)
    BY <1>1, InsertKeeps DEF Spanned
  <2>2. q.ok = p.ok
    BY DEF Insert, Spanned, Live, Scanning
  <2> QED
    BY <2>1, <2>2 DEF Keeps
<1> HIDE DEF q
<1>7. Spanned(q) /\ q.pos = p.pos
  BY <1>3, StayingIs
<1>8. key.number \in -1 .. Len(q.tokens) /\ key.at \in 1 .. q.pos
  <2>1. Len(q.tokens) \in Nat /\ Len(p.tokens) \in Nat
    BY <1>7, LiveLen DEF Spanned
  <2> QED
    BY <1>1, <1>6, <1>7, <2>1
<1>9. Staying(r, q)
  BY <1>2, <1>6, <1>7, <1>8, RollStays
<1>10. no \in BOOLEAN
  OBVIOUS
<1> HIDE DEF r, no
<1>11. Staying(r, p) /\ Spanned(r)
  BY <1>3, <1>9, StayingIs, StayingOn
<1>12. Staying(s, r)
  BY <1>10, <1>11, PossibleStays
<1> HIDE DEF s
<1>13. Staying(s, p) /\ Spanned(s)
  BY <1>11, <1>12, StayingIs, StayingOn
<1>14. Staying(t, s)
  BY <1>13, PutStays
<1> HIDE DEF t
<1>15. Staying(t, p) /\ Spanned(t)
  BY <1>13, <1>14, StayingIs, StayingOn
<1>16. Staying(u, t)
  BY <1>15, AllowStays
<1> HIDE DEF u
<1>17. Staying(u, p)
  BY <1>15, <1>16, StayingOn
<1> QED
  BY <1>5, <1>11, <1>17

LEMMA ValueReads ==
  ASSUME NEW p, Spanned(p), p.ok, At(p) # "z"
  PROVE  Reading(Value(p), p)
<1> DEFINE q == DropStaleKey(p, Len(p.keys))
           o == OpenBlock(q, "BlockMappingStart")
           b == Flow(o) = 0
           a == Allow(o, b)
           v == ValueOfSimpleKey(q)
           r == IF Last(q.keys).possible THEN v ELSE IF o.ok THEN a ELSE o
           s == Indicator(r, "Value", 1)
<1>1. Value(p) = IF ~q.ok THEN q ELSE IF r.ok THEN s ELSE r
  BY DEF Value, Then
<1>2. Staying(q, p)
  BY DropStaleKeyStays
<1> HIDE DEF q
<1>3. Spanned(q) /\ Reading(q, p)
  BY <1>2, StayingIs
<1>4. CASE ~q.ok
  BY <1>1, <1>3, <1>4
<1>5. CASE q.ok
  <2>1. Staying(v, q)
    BY <1>3, <1>5, ValueOfSimpleKeyStays
  <2>2. Staying(o, q)
    BY <1>3, <1>5, OpenBlockStays
  <2> HIDE DEF v, o, b
  <2>3. Staying(a, q)
    BY <1>3, <2>2, AllowStays, StayingIs, StayingOn
  <2> HIDE DEF a
  <2>4. Staying(r, q)
    BY <2>1, <2>2, <2>3
  <2> HIDE DEF r
  <2>5. Staying(r, p)
    BY <1>2, <2>4, StayingOn
  <2>6. Reading(s, p)
    BY <2>5, IndicatorStep
  <2> HIDE DEF s
  <2> QED
    BY <1>1, <1>5, <2>5, <2>6, StayingIs
<1> QED
  BY <1>4, <1>5

LEMMA KeyCandidateReads ==
  ASSUME NEW p, Spanned(p), NEW kind, kind # "StreamEnd", NEW end, Reaches(p.input, p.pos, end)
  PROVE  Reading(KeyCandidate(p, kind, end), p)
<1> DEFINE q == SaveKey(p)
           no == FALSE
           a == Allow(q, no)
           r == Scanned(a, kind, end)
<1>1. KeyCandidate(p, kind, end) = IF q.ok THEN r ELSE q
  BY DEF KeyCandidate, Then
<1>2. Staying(q, p)
  BY SaveKeyStays
<1> HIDE DEF q, no
<1>3. Staying(a, p)
  BY <1>2, AllowStays, StayingIs, StayingOn
<1> HIDE DEF a
<1>4. Spanned(a) /\ Reading(a, p) /\ Reaches(a.input, a.pos, end)
  BY <1>3, StayingIs
<1>5. Reading(r, a)
  BY <1>4, ScannedReads
<1> HIDE DEF r
<1>6. Reading(r, p)
  BY <1>4, <1>5, ReadingOn
<1> QED
  BY <1>1, <1>2, <1>6, StayingIs

LEMMA AnchorReads ==
  ASSUME NEW p, Spanned(p), At(p) # "z"
  PROVE  Reading(Alias(p), p) /\ Reading(Anchor(p), p) /\ Reading(Tag(p), p)
<1>1. p.pos \in 1 .. Len(p.input) /\ TextLike(p.input) /\ p.pos \in Places(p.input)
  BY CharRoom DEF Spanned
<1>2. Reaches(p.input, p.pos, AnchorEnd(p.input, p.pos))
  BY <1>1, AnchorEndReaches
<1>3. Reaches(p.input, p.pos, TagEnd(p.input, p.pos))
  BY <1>1, TagEndReaches
<1>4. "Alias" # "StreamEnd" /\ "Anchor" # "StreamEnd" /\ "Tag" # "StreamEnd"
  OBVIOUS
<1> QED
  BY <1>2, <1>3, <1>4, KeyCandidateReads DEF Alias, Anchor, Tag

\* Whether a scalar is empty says nothing of where it is.
LEMMA EmptyStays ==
  ASSUME NEW p, Spanned(p), NEW v, Live(Put(p, "tokens", SetEmpty(p.tokens, Len(p.tokens), v)))
  PROVE  Staying(Put(p, "tokens", SetEmpty(p.tokens, Len(p.tokens), v)), p)
<1> DEFINE u == SetEmpty(p.tokens, Len(p.tokens), v)
           n == Len(p.tokens)
<1>1. DOMAIN u = DOMAIN p.tokens
  BY DEF SetEmpty
<1>2. ASSUME NEW i \in DOMAIN u
      PROVE  /\ DOMAIN u[i] = DOMAIN p.tokens[i] /\ u[i].kind = p.tokens[i].kind
             /\ u[i].start = p.tokens[i].start /\ u[i].end = p.tokens[i].end
  <2>1. {"kind", "start", "end"} \subseteq DOMAIN p.tokens[i]
    BY <1>1 DEF Spanned, Spot
  <2>2. u[i] = p.tokens[i] \/ u[i] = [p.tokens[i] EXCEPT !.empty = v]
    BY <1>1 DEF SetEmpty
  <2> QED
    BY <2>1, <2>2
<1> HIDE DEF u
<1>3. \A i \in DOMAIN u : Spot(u[i], p.pos)
  BY <1>1, <1>2 DEF Spanned, Spot
<1>4. \A j : Cov(u, j) <=> Cov(p.tokens, j)
  BY <1>1, <1>2 DEF Cov
<1>5. \A i \in DOMAIN u : u[i].kind = "StreamEnd" => Ends(p.tokens)
  BY <1>1, <1>2 DEF Ends
<1>6. Same(u, p.tokens, p.pos)
  BY <1>3, <1>4, <1>5 DEF Same
<1> QED
  BY <1>6, TokensStay DEF u

LEMMA QuotedReads ==
  ASSUME NEW p, Spanned(p), At(p) \in Quotes
  PROVE  Reading(QuotedScalar(p), p)
<1> DEFINE end == QuotedEnd(p.input, p.pos)
           q == KeyCandidate(p, "Scalar", end)
           v == QuotesNothing(p.input, p.pos, end)
           r == Put(q, "tokens", SetEmpty(q.tokens, Len(q.tokens), v))
<1>1. QuotedScalar(p) = IF q.ok THEN r ELSE q
  <2>1. [q EXCEPT !.tokens[Len(q.tokens)].empty = v] = r
    <3> HIDE DEF q, v
    <3> QED
      BY DEF Put, SetEmpty
  <2> HIDE DEF r
  <2> QED
    BY <2>1 DEF QuotedScalar
<1>2. At(p) # "z"
  BY DEF Quotes
<1>3. Reaches(p.input, p.pos, end)
  <2>1. p.pos \in 1 .. Len(p.input) /\ TextLike(p.input)
    BY <1>2, CharRoom DEF Spanned
  <2> QED
    BY <2>1, QuotedReaches DEF At
<1> HIDE DEF end
<1>4. Reading(q, p)
  <2>1. "Scalar" # "StreamEnd"
    OBVIOUS
  <2> QED
    BY <1>3, <2>1, KeyCandidateReads
<1>5. Live(QuotedScalar(p))
  BY QuotedKeeps DEF Keeps, Spanned
<1> HIDE DEF q, v
<1>6. Spanned(q)
  BY <1>4 DEF Reading
<1>7. CASE q.ok
  <2>1. Live(r)
    BY <1>1, <1>5, <1>7
  <2>2. Staying(r, q)
    BY <1>6, <2>1, EmptyStays
  <2> HIDE DEF r
  <2>3. Reading(r, q)
    BY <2>2, StayingIs
  <2> QED
    BY <1>1, <1>4, <1>7, <2>3, ReadingOn
<1>8. CASE ~q.ok
  BY <1>1, <1>4, <1>8
<1> QED
  BY <1>7, <1>8

LEMMA PlainReads ==
  ASSUME NEW p, Spanned(p), At(p) # "z"
  PROVE  Reading(PlainScalar(p), p)
<1> DEFINE q == SaveKey(p)
           indent == Indent(q) + 1
           inFlow == Flow(q) > 0
           scalar == Plain(q.input, q.pos, indent, inFlow)
           r == TakeScalar(q, scalar, scalar.broken)
<1>1. PlainScalar(p) = q \/ PlainScalar(p) = r
  BY DEF PlainScalar, TakePlain, Then
<1>2. Staying(q, p)
  BY SaveKeyStays
<1> HIDE DEF q, indent, inFlow
<1>3. Spanned(q) /\ Reading(q, p) /\ At(q) # "z"
  BY <1>2, StayingIs
<1>4. TextLike(q.input) /\ q.pos \in 1 .. Len(q.input)
  BY <1>3, CharRoom DEF Spanned
<1>5. scalar.stop # Failed =>
        /\ scalar.stop \in q.pos .. Len(q.input) + 1 /\ scalar.end \in q.pos .. scalar.stop
        /\ Empty(q.input, scalar.end, scalar.stop)
  BY <1>4, PlainIs
<1> HIDE DEF scalar
<1>6. Reached(q.input, q.pos, scalar)
  BY <1>5 DEF Reached
<1>7. Reading(r, q)
  BY <1>3, <1>6, TakeScalarReads
<1> HIDE DEF r
<1> QED
  BY <1>1, <1>3, <1>7, ReadingOn

LEMMA LiteralReads ==
  ASSUME NEW p, Spanned(p), At(p) # "z"
  PROVE  Reading(LiteralOrFolded(p), p)
<1> DEFINE q == RemoveKey(p)
           parent == Indent(q)
           scalar == BlockScalar(q.input, q.pos, parent)
           yes == TRUE
           r == TakeScalar(q, scalar, yes)
<1>1. LiteralOrFolded(p) = q \/ LiteralOrFolded(p) = r
  BY DEF LiteralOrFolded, Then
<1>2. Staying(q, p)
  BY RemoveKeyStays
<1> HIDE DEF q, yes
<1>3. Spanned(q) /\ Reading(q, p) /\ At(q) # "z"
  BY <1>2, StayingIs
<1>4. TextLike(q.input) /\ q.pos \in 1 .. Len(q.input)
  BY <1>3, CharRoom DEF Spanned
<1>5. parent \in Int /\ parent >= -1
  BY <1>3, IndentIs
<1> HIDE DEF parent
<1>6. scalar.stop # Failed =>
        /\ scalar.stop \in q.pos .. Len(q.input) + 1 /\ scalar.end \in q.pos .. scalar.stop
        /\ Empty(q.input, scalar.end, scalar.stop)
  BY <1>4, <1>5, BlockScalarIs
<1> HIDE DEF scalar
<1>7. Reached(q.input, q.pos, scalar)
  BY <1>6 DEF Reached
<1>8. Reading(r, q)
  BY <1>3, <1>7, TakeScalarReads
<1> HIDE DEF r
<1> QED
  BY <1>1, <1>3, <1>8, ReadingOn

LEMMA ApproachReads ==
  ASSUME NEW p, Spanned(p)
  PROVE  Reading(Approach(p), p)
<1> DEFINE e == NextStart(p)[1]
           b == NextStart(p)[2]
           q == Put(p, "pos", e)
           r == Put(q, "allowed", b)
<1>1. Approach(p) = r
  BY DEF Approach, Put
<1>2. e \in p.pos .. Len(p.input) + 1 /\ Empty(p.input, p.pos, e)
  BY NextStartIs DEF Spanned
<1> HIDE DEF e, b
<1>3. Reading(q, p)
  BY <1>2, PosReads
<1> HIDE DEF q
<1>4. Spanned(q)
  BY <1>3 DEF Reading
<1>5. Staying(r, q)
  BY <1>4, PutStays
<1> HIDE DEF r
<1>6. Reading(r, q)
  BY <1>5, StayingIs
<1> QED
  BY <1>1, <1>3, <1>6, ReadingOn

LEMMA CommentReads ==
  ASSUME NEW p, Spanned(p)
  PROVE  Reading(LineComment(p), p)
<1> DEFINE e == LineCommentEnd(p.input, p.pos)
<1>1. LineComment(p) = p \/ LineComment(p) = Put(p, "pos", e)
  BY DEF LineComment, Put
<1>2. e \in p.pos .. Len(p.input) + 1 /\ Empty(p.input, p.pos, e)
  BY LineCommentEndIs DEF Spanned
<1> HIDE DEF e
<1>3. Reading(Put(p, "pos", e), p)
  BY <1>2, PosReads
<1> QED
  BY <1>1, <1>3, ReadingItself

\* The comment behind a token.
LEMMA CommentStep ==
  ASSUME NEW p, Spanned(p), NEW q, Reading(q, p)
  PROVE  Reading(LineComment(q), p)
<1>1. Spanned(q)
  BY DEF Reading
<1>2. Reading(LineComment(q), q)
  BY <1>1, CommentReads
<1> QED
  BY <1>2, ReadingOn

-----------------------------------------------------------------------------
(* One fetch.                                                              *)

\* What stands where a token of the kind begins.
LEMMA MarkerIs ==
  ASSUME NEW p, p.pos \in Nat, NEW c, DocumentMarkerAt(p.input, p.pos, c)
  PROVE  At(p) = c
<1>1. 0 \in 0 .. 2 /\ p.pos + 0 = p.pos
  OBVIOUS
<1> QED
  BY <1>1 DEF DocumentMarkerAt, At

LEMMA KindIs ==
  ASSUME NEW p, p.pos \in Nat
  PROVE  /\ NextKind(p) = "StreamEnd" <=> At(p) = "z"
         /\ NextKind(p) = "DocumentStart" => DocumentMarkerAt(p.input, p.pos, "-")
         /\ NextKind(p) = "DocumentEnd" => DocumentMarkerAt(p.input, p.pos, ".")
         /\ NextKind(p) = "Quoted" => At(p) \in Quotes
<1>1. NextKind(p) = "StreamEnd" => At(p) = "z"
  BY DEF NextKind
<1>2. NextKind(p) = "DocumentStart" => DocumentMarkerAt(p.input, p.pos, "-")
  BY DEF NextKind
<1>3. NextKind(p) = "DocumentEnd" => DocumentMarkerAt(p.input, p.pos, ".")
  BY DEF NextKind
<1>4. NextKind(p) = "Quoted" => At(p) \in Quotes
  BY DEF NextKind
<1>5. ASSUME At(p) = "z" PROVE NextKind(p) = "StreamEnd"
  <2>1. "z" \notin Quotes
    BY DEF Quotes
  <2>2. ~DocumentMarkerAt(p.input, p.pos, "-") /\ ~DocumentMarkerAt(p.input, p.pos, ".")
    BY <1>5, MarkerIs
  <2> QED
    BY <1>5, <2>1, <2>2 DEF NextKind
<1> QED
  BY <1>1, <1>2, <1>3, <1>4, <1>5

\* The tokens of p, and behind them some that reach nowhere.
Marks(u, t) ==
  /\ DOMAIN t \subseteq DOMAIN u
  /\ \A i \in DOMAIN u : \/ i \in DOMAIN t /\ u[i] = t[i]
                         \/ i \notin DOMAIN t /\ u[i].start = u[i].end

LEMMA MarksItself ==
  ASSUME NEW t
  PROVE  Marks(t, t)
BY DEF Marks

LEMMA MarksOn ==
  ASSUME NEW t, NEW u, NEW v, Marks(u, t), Marks(v, u)
  PROVE  Marks(v, t)
BY DEF Marks

LEMMA UnrollMarks ==
  ASSUME NEW p, Spanned(p), NEW column
  PROVE  Marks(UnrollIndent(p, column).tokens, p.tokens)
<1> DEFINE S == {i \in DOMAIN p.indents : p.indents[i] <= column}
           kept == Keep(p.indents, S)
           T == {p.indents[i] : i \in DOMAIN p.indents}
           ends == [i \in 1 .. Len(p.indents) - Len(kept) |-> Token("BlockEnd", p.pos, p.pos)]
           u == p.tokens \o ends
           r == [p EXCEPT !.indents = kept, !.tokens = @ \o ends]
<1>1. UnrollIndent(p, column) = p \/ UnrollIndent(p, column) = r
  BY DEF UnrollIndent
<1>2. Len(kept) \in Nat /\ Len(p.indents) \in Nat
  <2>1. p.indents \in Seq(T) /\ Len(p.indents) \in Nat
    BY LiveLen, ListedLen DEF Spanned, Live, Scanning, Listed
  <2>2. kept \in Seq(T)
    <3> HIDE DEF T, S
    <3> QED
      BY <2>1, KeepRange
  <2> HIDE DEF kept
  <2> QED
    BY <2>1, <2>2
<1> HIDE DEF S, kept, T
<1>3. Listed(ends) /\ Len(ends) \in Nat /\ \A i \in DOMAIN ends : ends[i] = Token("BlockEnd", p.pos, p.pos)
  <2>1. Len(p.indents) - Len(kept) \in Int
    BY <1>2
  <2> QED
    BY <2>1, ListedConstant, ListedLen
<1> HIDE DEF ends
<1>4. r.tokens = u
  BY DEF Spanned, Live, Scanning
<1>5. Listed(p.tokens) /\ Len(p.tokens) \in Nat /\ DOMAIN p.tokens = 1 .. Len(p.tokens)
  BY LiveLen, ListedLen DEF Spanned
<1>6. /\ DOMAIN u = 1 .. Len(p.tokens) + Len(ends)
      /\ \A i \in 1 .. Len(p.tokens) : u[i] = p.tokens[i]
      /\ \A k \in 1 .. Len(p.tokens) + Len(ends) :
           k \in 1 .. Len(p.tokens) \/ (k - Len(p.tokens) \in DOMAIN ends /\ u[k] = ends[k - Len(p.tokens)])
  BY <1>3, <1>5, ListedConcat, ConcatTail
<1> HIDE DEF u, r
<1>7. Marks(u, p.tokens)
  <2>1. DOMAIN p.tokens \subseteq DOMAIN u
    BY <1>3, <1>5, <1>6
  <2>2. \A i \in DOMAIN u : i \notin DOMAIN p.tokens => u[i].start = u[i].end
    BY <1>3, <1>5, <1>6, MarkIs
  <2> QED
    BY <1>5, <1>6, <2>1, <2>2 DEF Marks
<1> QED
  BY <1>1, <1>4, <1>7, MarksItself

LEMMA CloseBlocksMarks ==
  ASSUME NEW p, Spanned(p)
  PROVE  Marks(CloseBlocks(p).tokens, p.tokens)
<1> DEFINE q == UnrollIndent(p, -1)
           r == RemoveKey(q)
           no == FALSE
           s == Allow(r, no)
<1>1. CloseBlocks(p) = r \/ CloseBlocks(p) = s
  BY DEF CloseBlocks, Then
<1>2. Marks(q.tokens, p.tokens)
  BY UnrollMarks
<1>3. Spanned(q)
  BY UnrollStays, StayingIs
<1> HIDE DEF q
<1>4. r.tokens = q.tokens
  BY <1>3, RemoveKeyWeaker DEF Spanned, Weaker
<1>5. Spanned(r)
  BY <1>3, RemoveKeyStays, StayingIs
<1> HIDE DEF r, no
<1>6. s.tokens = r.tokens
  BY <1>5, AllowWeaker DEF Spanned, Weaker
<1> QED
  BY <1>1, <1>2, <1>4, <1>6

\* The end of the text, with what has been read the same as before.
Finishes(q, p) ==
  /\ Spanned(q) /\ q.input = p.input /\ q.started = p.started /\ q.ended = p.ended
  /\ q.pos = p.pos /\ (q.ok => p.ok)
  /\ \A j \in 1 .. p.pos - 1 : Cov(q.tokens, j) <=> Cov(p.tokens, j)
  /\ Marks(q.tokens, p.tokens)

LEMMA StreamEndEnds ==
  ASSUME NEW p, Spanned(p)
  PROVE  Finishes(StreamEnd(p), p)
<1> DEFINE q == CloseBlocks(p)
           r == Indicator(q, "StreamEnd", 0)
           t == Token("StreamEnd", q.pos, q.pos + 0)
           e == q.pos + 0
<1>1. StreamEnd(p) = q \/ StreamEnd(p) = r
  BY DEF StreamEnd, Then
<1>2. Staying(q, p) /\ Marks(q.tokens, p.tokens)
  BY CloseBlocksStays, CloseBlocksMarks
<1> HIDE DEF q
<1>3. Spanned(q) /\ Reading(q, p) /\ q.pos = p.pos
  BY <1>2, StayingIs
<1>4. /\ q.input = p.input /\ q.started = p.started /\ q.ended = p.ended /\ (q.ok => p.ok)
      /\ \A j \in 1 .. p.pos - 1 : Cov(q.tokens, j) <=> Cov(p.tokens, j)
  BY <1>3 DEF Reading
<1>5. q.pos \in Nat /\ e = q.pos /\ q.pos + 0 <= Len(q.input) + 1 /\ 0 \in Nat
  BY <1>3, SpannedPos
<1>6. Taken(r, q, t, e)
  BY <1>3, <1>5, IndicatorTaken
<1>7. t.start = q.pos /\ t.end = e
  BY DEF Token
<1> HIDE DEF r, t, e
<1>8. Spanned(r) /\ \A j \in 1 .. q.pos - 1 : Cov(r.tokens, j) <=> Cov(q.tokens, j)
  BY <1>3, <1>6, TakenReads
<1>9. /\ r.input = q.input /\ r.started = q.started /\ r.ended = q.ended /\ r.pos = q.pos /\ (r.ok => q.ok)
      /\ r.tokens = Append(q.tokens, t)
  BY <1>5, <1>6 DEF Taken
<1>10. Marks(r.tokens, q.tokens)
  <2> DEFINE u == Append(q.tokens, t)
  <2>1. Listed(q.tokens) /\ Len(q.tokens) \in Nat /\ DOMAIN q.tokens = 1 .. Len(q.tokens)
    BY <1>3, LiveLen, ListedLen DEF Spanned
  <2>2. /\ Listed(u) /\ Len(u) = Len(q.tokens) + 1 /\ u[Len(q.tokens) + 1] = t
        /\ \A i \in 1 .. Len(q.tokens) : u[i] = q.tokens[i]
    BY <2>1, ListedAppend
  <2> HIDE DEF u
  <2>3. DOMAIN u = 1 .. Len(q.tokens) + 1
    BY <2>2, ListedLen
  <2>4. \A i \in DOMAIN u : i \in DOMAIN q.tokens \/ i = Len(q.tokens) + 1
    BY <2>1, <2>3
  <2>5. DOMAIN q.tokens \subseteq DOMAIN u /\ Len(q.tokens) + 1 \notin DOMAIN q.tokens
    BY <2>1, <2>3
  <2>6. Marks(u, q.tokens)
    BY <1>5, <1>7, <2>1, <2>2, <2>4, <2>5 DEF Marks
  <2> QED
    BY <1>9, <2>6 DEF u
<1>11. Finishes(q, p)
  BY <1>2, <1>3, <1>4 DEF Finishes
<1>12. Finishes(r, p)
  <2>1. Marks(r.tokens, p.tokens)
    BY <1>2, <1>10, MarksOn
  <2>2. \A j \in 1 .. p.pos - 1 : Cov(r.tokens, j) <=> Cov(p.tokens, j)
    BY <1>3, <1>4, <1>8
  <2> QED
    BY <1>3, <1>4, <1>8, <1>9, <2>1, <2>2 DEF Finishes
<1> QED
  BY <1>1, <1>11, <1>12

\* What a fetch reads: up to the end of the text, or one token, or nothing.
LEMMA FetchReads ==
  ASSUME Spanned(parser), Fetch
  PROVE  \E p : /\ Reading(p, parser) /\ Marks(p.tokens, parser.tokens)
                /\ \/ At(p) = "z" /\ Finishes(parser', p)
                   \/ At(p) # "z" /\ Reading(parser', p)
<1> DEFINE a == Approach(parser)
           p == UnrollIndent(a, Col(a))
<1>1. Reading(a, parser) /\ Spanned(a) /\ a.tokens = parser.tokens
  <2>1. Reading(a, parser)
    BY ApproachReads
  <2>2. Weaker(a, parser)
    BY ApproachWeaker DEF Spanned
  <2> HIDE DEF a
  <2> QED
    BY <2>1, <2>2 DEF Reading, Weaker
<1>2. \E kind \in {NextKind(p)} :
         \/ kind = "StreamEnd" /\ parser' = StreamEnd(p)
         \/ kind = "Directive" /\ parser' = DirectiveToken(p)
         \/ kind \in {"DocumentStart", "DocumentEnd"} /\ parser' = DocumentIndicator(p, kind)
         \/ \E q \in {FlowStart(p, "FlowSequenceStart"), FlowStart(p, "FlowMappingStart"),
                      FlowEnd(p, "FlowSequenceEnd"), FlowEnd(p, "FlowMappingEnd"), FlowEntry(p),
                      BlockEntry(p), ExplicitKey(p), Value(p), Alias(p), Anchor(p), Tag(p),
                      LiteralOrFolded(p), PlainScalar(p)} :
              kind # "StreamEnd" /\ parser' = LineComment(q)
         \/ kind = "Quoted" /\ parser' = LineComment(QuotedScalar(p))
         \/ kind = "None" /\ parser' = Error(p)
  <2> HIDE DEF a
  <2> QED
    BY DEF Fetch, a
<1>3. parser.ok /\ a.ok /\ p.ok
  <2>1. parser.ok
    BY DEF Fetch, Wanting
  <2>2. a.ok = parser.ok
    BY DEF Approach, Spanned, Live, Scanning
  <2> HIDE DEF a
  <2>3. p.ok = a.ok
    BY <1>1 DEF UnrollIndent, Spanned, Live, Scanning
  <2> QED
    BY <2>1, <2>2, <2>3
<1> HIDE DEF a
<1>4. Staying(p, a) /\ Marks(p.tokens, a.tokens)
  <2>1. Col(a) \in Int /\ Col(a) >= -1
    BY <1>1, ColIs
  <2> QED
    BY <1>1, <2>1, UnrollStays, UnrollMarks
<1> HIDE DEF p
<1>5. Spanned(p) /\ Reading(p, parser) /\ p.pos \in Nat
  BY <1>1, <1>4, StayingIs, ReadingOn, SpannedPos
<1> DEFINE kind == NextKind(p)
<1>6. /\ kind = "StreamEnd" <=> At(p) = "z"
      /\ kind = "DocumentStart" => DocumentMarkerAt(p.input, p.pos, "-")
      /\ kind = "DocumentEnd" => DocumentMarkerAt(p.input, p.pos, ".")
      /\ kind = "Quoted" => At(p) \in Quotes
  BY <1>5, KindIs
<1> HIDE DEF kind
<1>7. CASE kind = "StreamEnd"
  <2>1. parser' = StreamEnd(p)
    BY <1>2, <1>7 DEF kind
  <2> QED
    BY <1>1, <1>4, <1>5, <1>6, <1>7, <2>1, StreamEndEnds
<1>8. CASE kind # "StreamEnd"
  <2>1. At(p) # "z"
    BY <1>6, <1>8
  <2>2. /\ Reading(FlowStart(p, "FlowSequenceStart"), p) /\ Reading(FlowStart(p, "FlowMappingStart"), p)
        /\ Reading(FlowEnd(p, "FlowSequenceEnd"), p) /\ Reading(FlowEnd(p, "FlowMappingEnd"), p)
    BY <1>5, <2>1, FlowStartReads, FlowEndReads
  <2>3. /\ Reading(FlowEntry(p), p) /\ Reading(BlockEntry(p), p) /\ Reading(ExplicitKey(p), p)
        /\ Reading(Value(p), p) /\ Reading(Alias(p), p) /\ Reading(Anchor(p), p) /\ Reading(Tag(p), p)
        /\ Reading(LiteralOrFolded(p), p) /\ Reading(PlainScalar(p), p)
    BY <1>3, <1>5, <2>1, FlowEntryReads, BlockEntryReads, ExplicitKeyReads, ValueReads, AnchorReads,
       LiteralReads, PlainReads
  <2>4. kind = "Quoted" => Reading(QuotedScalar(p), p)
    BY <1>5, <1>6, QuotedReads
  <2>5. Reading(DirectiveToken(p), p)
    BY <1>5, <2>1, DirectiveReads
  <2>6. kind \in {"DocumentStart", "DocumentEnd"} => Reading(DocumentIndicator(p, kind), p)
    <3>1. "-" # "z" /\ "." # "z"
      OBVIOUS
    <3> QED
      BY <1>5, <1>6, <1>8, <3>1, DocumentReads
  <2>7. Reading(Error(p), p)
    BY <1>5, ErrorStays, StayingIs
  <2>8. \A q : Reading(q, p) => Reading(LineComment(q), p)
    BY <1>5, CommentStep
  <2>9. Reading(parser', p)
    BY <1>2, <1>8, <2>2, <2>3, <2>4, <2>5, <2>6, <2>7, <2>8 DEF kind
  <2> QED
    BY <1>1, <1>4, <1>5, <2>1, <2>9
<1> QED
  BY <1>7, <1>8

\* What is clear stays clear.
LEMMA StaysClear ==
  ASSUME NEW s, NEW n \in Nat, NEW t, NEW u, \A j \in 1 .. n - 1 : Cov(u, j) <=> Cov(t, j),
         \A j \in 1 .. n - 1 : Clear(s, t, j)
  PROVE  \A j \in 1 .. n - 1 : Clear(s, u, j)
<1> SUFFICES ASSUME NEW j \in 1 .. n - 1 PROVE Clear(s, u, j)
  OBVIOUS
<1>1. \A k \in 1 .. j : k \in 1 .. n - 1
  OBVIOUS
<1>2. Clear(s, t, j)
  OBVIOUS
<1> QED
  BY <1>1, <1>2 DEF Clear

-----------------------------------------------------------------------------
(* The invariant of reading.                                               *)

\* Everything up to the position has been read.
ReadTo(p) == \A j \in 1 .. p.pos - 1 : Clear(p.input, p.tokens, j)

\* Where STREAM-END is in the queue, the text has been read to its end, and no
\* token from there on reaches anywhere.
Ending(p) ==
  \A i \in DOMAIN p.tokens : p.tokens[i].kind = "StreamEnd" =>
    /\ p.pos = Len(p.input) + 1
    /\ \A j \in DOMAIN p.tokens : i <= j => p.tokens[j].start = p.tokens[j].end

\* The stream is over when STREAM-END has been handed out.
Handed(p) == p.ended => p.parsed > 0 /\ p.tokens[p.parsed].kind = "StreamEnd"

Unread(p) ==
  /\ ~p.started /\ p.tokens = <<>> /\ p.keys = <<>> /\ p.indents = <<>> /\ p.pos = 1
  /\ "input" \in DOMAIN p /\ TextLike(p.input) /\ ~p.ended

NoNul(p) == \A i \in DOMAIN p.input : p.input[i] # "z"

ReadAll(p) == NoNul(p) /\ ReadTo(p) /\ Ending(p) /\ Handed(p)

ReadInv ==
  /\ ScanInv /\ calling \in BOOLEAN /\ done \in BOOLEAN
  /\ ReadAll(parser)
  /\ Unread(parser) \/ (Spanned(parser) /\ parser.started)

\* Only the end of a text is its end.
LEMMA AtEnd ==
  ASSUME NEW p, Spanned(p), NoNul(p)
  PROVE  At(p) = "z" <=> p.pos = Len(p.input) + 1
<1>1. DOMAIN p.input = 1 .. Len(p.input) /\ Len(p.input) \in Nat /\ p.pos \in 1 .. Len(p.input) + 1
  BY TextLen DEF Spanned, Places
<1>2. CASE p.pos = Len(p.input) + 1
  <2>1. p.pos \notin DOMAIN p.input
    BY <1>1, <1>2
  <2> QED
    BY <1>2, <2>1 DEF At, Ch
<1>3. CASE p.pos # Len(p.input) + 1
  <2>1. p.pos \in DOMAIN p.input
    BY <1>1, <1>3
  <2> QED
    BY <1>3, <2>1 DEF At, Ch, NoNul
<1> QED
  BY <1>2, <1>3

\* One token more.
LEMMA ReadingReadsAll ==
  ASSUME NEW p, Spanned(p), ReadAll(p), NEW q, Reading(q, p), Keeps(q, p), ~Ends(p.tokens)
  PROVE  ReadAll(q)
<1>1. NoNul(q)
  BY DEF ReadAll, NoNul, Reading
<1>2. p.pos \in Nat /\ p.pos >= 1 /\ q.pos \in Nat /\ q.input = p.input
  BY SpannedPos DEF Reading
<1>3. \A j \in 1 .. p.pos - 1 : Clear(q.input, q.tokens, j)
  BY <1>2, StaysClear DEF ReadAll, ReadTo, Reading
<1>4. ReadTo(q)
  <2>1. \A j \in 1 .. q.pos - 1 : j \in 1 .. p.pos - 1 \/ j \in p.pos .. q.pos - 1
    BY <1>2
  <2> QED
    BY <1>3, <2>1 DEF ReadTo, Reading
<1>5. Ending(q)
  BY DEF Reading, Ends, Ending
<1>6. Handed(q)
  <2>1. q.parsed = p.parsed /\ q.ended = p.ended /\ p.parsed \in Nat
    BY LiveLen DEF Keeps, Reading, Spanned
  <2>2. p.parsed > 0 => p.parsed \in 1 .. p.parsed
    BY <2>1
  <2> QED
    BY <2>1, <2>2 DEF Keeps, Handed, ReadAll
<1> QED
  BY <1>1, <1>4, <1>5, <1>6 DEF ReadAll

\* The end of the text.
LEMMA EndingReadsAll ==
  ASSUME NEW p, Spanned(p), NoNul(p), ReadTo(p), Ending(p), p.pos = Len(p.input) + 1,
         NEW q, Finishes(q, p), NEW o, Handed(o), Keeps(q, o), q.ended = o.ended, Live(o)
  PROVE  ReadAll(q)
<1>1. NoNul(q)
  BY DEF NoNul, Finishes
<1>2. p.pos \in Nat
  BY SpannedPos
<1>3. ReadTo(q)
  <2>1. q.input = p.input /\ q.pos = p.pos
    BY DEF Finishes
  <2>2. \A j \in 1 .. p.pos - 1 : Cov(q.tokens, j) <=> Cov(p.tokens, j)
    BY DEF Finishes
  <2>3. \A j \in 1 .. p.pos - 1 : Clear(p.input, p.tokens, j)
    BY DEF ReadTo
  <2>4. \A j \in 1 .. p.pos - 1 : Clear(p.input, q.tokens, j)
    BY <1>2, <2>2, <2>3, StaysClear
  <2> QED
    BY <2>1, <2>4 DEF ReadTo
<1>4. Ending(q)
  <2>1. /\ DOMAIN p.tokens = 1 .. Len(p.tokens) /\ Len(p.tokens) \in Nat
        /\ DOMAIN q.tokens = 1 .. Len(q.tokens) /\ Len(q.tokens) \in Nat
    BY LiveLen, ListedLen DEF Finishes, Spanned
  <2>2. q.pos = Len(q.input) + 1
    BY DEF Finishes
  <2>3. ASSUME NEW i \in DOMAIN q.tokens, q.tokens[i].kind = "StreamEnd",
               NEW j \in DOMAIN q.tokens, i <= j
        PROVE  q.tokens[j].start = q.tokens[j].end
    <3>1. CASE j \notin DOMAIN p.tokens
      BY <3>1 DEF Finishes, Marks
    <3>2. CASE j \in DOMAIN p.tokens
      <4>1. i \in DOMAIN p.tokens
        BY <2>1, <2>3, <3>2
      <4>2. q.tokens[i] = p.tokens[i] /\ q.tokens[j] = p.tokens[j]
        BY <3>2, <4>1 DEF Finishes, Marks
      <4> QED
        BY <2>3, <3>2, <4>1, <4>2 DEF Ending
    <3> QED
      BY <3>1, <3>2
  <2> QED
    BY <2>2, <2>3 DEF Ending
<1>5. Handed(q)
  <2>1. q.parsed = o.parsed /\ o.parsed \in Nat
    BY LiveLen DEF Keeps
  <2>2. o.parsed > 0 => o.parsed \in 1 .. o.parsed
    BY <2>1
  <2> QED
    BY <2>1, <2>2 DEF Keeps, Handed
<1> QED
  BY <1>1, <1>3, <1>4, <1>5 DEF ReadAll

\* A text: characters that can stand in a file, "z" for the NUL behind it not among them.
TextIs(text) == TextLike(text) /\ \A i \in DOMAIN text : text[i] # "z"

LEMMA ReadInvInit ==
  ASSUME NEW text, TextIs(text), Start(text)
  PROVE  ReadInv
<1>1. ScanInv
  BY ScanInit
<1>2. /\ parser = Fresh(text) /\ calling = FALSE /\ done = FALSE
  BY DEF Start
<1>3. /\ parser.input = text /\ parser.pos = 1 /\ parser.tokens = <<>> /\ parser.keys = <<>>
      /\ parser.indents = <<>> /\ ~parser.started /\ ~parser.ended /\ "input" \in DOMAIN parser
  BY <1>2 DEF Fresh
<1>4. NoNul(parser)
  BY <1>3 DEF TextIs, NoNul
<1>5. ReadTo(parser)
  BY <1>3 DEF ReadTo
<1>6. Ending(parser)
  <2>1. DOMAIN <<>> = {}
    OBVIOUS
  <2> QED
    BY <1>3, <2>1 DEF Ending
<1>7. Handed(parser)
  BY <1>3 DEF Handed
<1>8. Unread(parser)
  BY <1>3 DEF Unread, TextIs
<1>9. calling \in BOOLEAN /\ done \in BOOLEAN
  BY <1>2
<1> QED
  BY <1>1, <1>4, <1>5, <1>6, <1>7, <1>8, <1>9 DEF ReadInv, ReadAll

LEMMA FirstReads ==
  ASSUME ScanInv, Unread(parser), ReadAll(parser), FetchFirst
  PROVE  Spanned(parser') /\ parser'.started /\ ReadAll(parser')
<1> DEFINE token == Token("StreamStart", parser.pos, parser.pos)
           keys == Append(parser.keys, NoKey)
           one == <<-1>>
           q == [parser EXCEPT !.started = TRUE, !.allowed = TRUE, !.indents = one, !.keys = keys]
           s == parser.input
<1>1. parser' = Add(q, token)
  BY DEF FetchFirst, StreamStart
<1>2. Scanning(parser)
  BY DEF ScanInv, Live
<1>3. Live(parser')
  BY FirstKeeps DEF Onward
<1>4. /\ parser.tokens = <<>> /\ parser.keys = <<>> /\ parser.pos = 1 /\ TextLike(s) /\ ~parser.ended
      /\ "input" \in DOMAIN parser
  BY DEF Unread
<1>5. /\ DOMAIN q = DOMAIN parser /\ q.input = s /\ q.pos = parser.pos /\ q.tokens = parser.tokens
      /\ q.keys = keys /\ q.indents = one /\ q.started /\ q.ended = parser.ended
      /\ q.parsed = parser.parsed
  BY <1>2, <1>4 DEF Scanning
<1>6. keys = <<NoKey>>
  BY <1>4
<1> HIDE DEF q, keys
<1>7. /\ "input" \in DOMAIN parser' /\ parser'.input = s /\ parser'.pos = 1
      /\ parser'.tokens = <<token>> /\ parser'.keys = keys /\ parser'.indents = one
      /\ parser'.started /\ ~parser'.ended
  <2>1. Append(parser.tokens, token) = <<token>>
    BY <1>4
  <2> QED
    BY <1>1, <1>2, <1>4, <1>5, <2>1 DEF Add, Scanning
<1>8. {"kind", "start", "end"} \subseteq DOMAIN token /\ token.start = 1 /\ token.end = 1 /\ token.kind = "StreamStart"
  BY <1>4 DEF Token
<1> HIDE DEF token
<1>9. Len(s) \in Nat
  BY <1>4, TextLen
<1>10. DOMAIN <<token>> = {1} /\ <<token>>[1] = token
  OBVIOUS
<1>11. \A i \in DOMAIN parser'.tokens : Spot(parser'.tokens[i], parser'.pos)
  <2>1. Spot(token, 1)
    BY <1>8 DEF Spot
  <2> QED
    BY <1>7, <1>10, <2>1
<1>12. \A l \in DOMAIN keys : Candidate(keys[l], 1)
  <2>1. Candidate(NoKey, 1)
    BY DEF NoKey, Key, Candidate
  <2> QED
    BY <1>6, <2>1
<1>13. Deepens(one)
  BY DEF Deepens
<1>14. Limited(parser')
  <2>1. Len(keys) = 1 /\ Len(one) = 1
    BY <1>6
  <2>2. MaxFlowLevel \in Nat /\ MaxIndents \in Nat
    BY LimitsAreNaturals
  <2> HIDE DEF one
  <2> QED
    BY <1>7, <2>1, <2>2 DEF Limited
<1> HIDE DEF one
<1>15. Spanned(parser')
  <2>1. 1 \in Places(s)
    BY <1>9 DEF Places
  <2> QED
    BY <1>3, <1>4, <1>7, <1>11, <1>12, <1>13, <1>14, <2>1 DEF Spanned
<1>16. ReadAll(parser')
  <2>1. NoNul(parser')
    BY <1>7 DEF ReadAll, NoNul
  <2>2. ReadTo(parser')
    BY <1>7 DEF ReadTo
  <2>3. Ending(parser')
    BY <1>7, <1>8, <1>10 DEF Ending
  <2>4. Handed(parser')
    BY <1>7 DEF Handed
  <2> QED
    BY <2>1, <2>2, <2>3, <2>4 DEF ReadAll
<1> QED
  BY <1>7, <1>15, <1>16

\* The tokens of p, with others behind them that reach nowhere.
LEMMA MarksEnding ==
  ASSUME NEW p, Spanned(p), Ending(p), NEW q, Spanned(q), Marks(q.tokens, p.tokens),
         p.pos <= q.pos, q.input = p.input, Ends(q.tokens) => Ends(p.tokens)
  PROVE  Ending(q)
<1>1. /\ DOMAIN p.tokens = 1 .. Len(p.tokens) /\ Len(p.tokens) \in Nat
      /\ DOMAIN q.tokens = 1 .. Len(q.tokens) /\ Len(q.tokens) \in Nat
  BY LiveLen, ListedLen DEF Spanned
<1>2. ASSUME Ends(q.tokens) PROVE q.pos = Len(q.input) + 1
  <2>1. PICK i \in DOMAIN p.tokens : p.tokens[i].kind = "StreamEnd"
    BY <1>2 DEF Ends
  <2>2. p.pos = Len(q.input) + 1
    BY <2>1 DEF Ending
  <2> QED
    BY <2>2, SpannedPos
<1>3. ASSUME NEW i \in DOMAIN q.tokens, q.tokens[i].kind = "StreamEnd",
             NEW j \in DOMAIN q.tokens, i <= j
      PROVE  q.tokens[j].start = q.tokens[j].end
  <2>1. CASE j \notin DOMAIN p.tokens
    BY <2>1 DEF Marks
  <2>2. CASE j \in DOMAIN p.tokens
    <3>1. i \in DOMAIN p.tokens
      BY <1>1, <1>3, <2>2
    <3>2. q.tokens[i] = p.tokens[i] /\ q.tokens[j] = p.tokens[j]
      BY <2>2, <3>1 DEF Marks
    <3> QED
      BY <1>3, <2>2, <3>1, <3>2 DEF Ending
  <2> QED
    BY <2>1, <2>2
<1> QED
  BY <1>2, <1>3 DEF Ending, Ends

LEMMA FetchReadsAll ==
  ASSUME ScanInv, Spanned(parser), ReadAll(parser), Fetch
  PROVE  Spanned(parser') /\ parser'.started = parser.started /\ ReadAll(parser')
<1>1. PICK p : /\ Reading(p, parser) /\ Marks(p.tokens, parser.tokens)
               /\ \/ At(p) = "z" /\ Finishes(parser', p)
                  \/ At(p) # "z" /\ Reading(parser', p)
  BY FetchReads
<1>2. Keeps(parser', parser) /\ Live(parser)
  BY FetchKeeps
<1>3. /\ Spanned(p) /\ p.input = parser.input /\ p.started = parser.started /\ p.ended = parser.ended
      /\ parser.pos <= p.pos
  BY <1>1 DEF Reading
<1>4. NoNul(p)
  BY <1>3 DEF ReadAll, NoNul
<1>5. Ending(parser) /\ Handed(parser)
  BY DEF ReadAll
<1>6. Ends(p.tokens) => Ends(parser.tokens)
  BY <1>1 DEF Reading
<1>7. Ending(p)
  BY <1>1, <1>3, <1>5, <1>6, MarksEnding
<1>8. CASE At(p) = "z"
  <2>1. Finishes(parser', p)
    BY <1>1, <1>8
  <2>2. p.pos = Len(p.input) + 1
    BY <1>3, <1>4, <1>8, AtEnd
  <2>3. ReadTo(p)
    <3>1. parser.pos \in Nat /\ p.pos \in Nat
      BY <1>3, SpannedPos
    <3>2. \A j \in 1 .. parser.pos - 1 : Cov(p.tokens, j) <=> Cov(parser.tokens, j)
      BY <1>1 DEF Reading
    <3>3. \A j \in 1 .. parser.pos - 1 : Clear(p.input, parser.tokens, j)
      BY <1>3 DEF ReadAll, ReadTo
    <3>4. \A j \in 1 .. parser.pos - 1 : Clear(p.input, p.tokens, j)
      BY <3>1, <3>2, <3>3, StaysClear
    <3>5. \A j \in parser.pos .. p.pos - 1 : Clear(p.input, p.tokens, j)
      BY <1>1 DEF Reading
    <3>6. \A j \in 1 .. p.pos - 1 : j \in 1 .. parser.pos - 1 \/ j \in parser.pos .. p.pos - 1
      BY <3>1
    <3> QED
      BY <3>4, <3>5, <3>6 DEF ReadTo
  <2>4. parser'.ended = p.ended /\ parser'.started = p.started /\ Spanned(parser')
    BY <2>1 DEF Finishes
  <2>5. ReadAll(parser')
    BY <1>2, <1>3, <1>4, <1>5, <1>7, <2>1, <2>2, <2>3, <2>4, EndingReadsAll
  <2> QED
    BY <1>3, <2>4, <2>5
<1>9. CASE At(p) # "z"
  <2>1. Reading(parser', parser)
    BY <1>1, <1>9, ReadingOn
  <2>2. ~Ends(parser.tokens)
    <3>1. SUFFICES ASSUME Ends(parser.tokens) PROVE FALSE
      OBVIOUS
    <3>2. parser.pos = Len(parser.input) + 1
      BY <1>5, <3>1 DEF Ends, Ending
    <3>3. p.pos = Len(p.input) + 1
      BY <1>3, <3>2, SpannedPos
    <3> QED
      BY <1>3, <1>4, <1>9, <3>3, AtEnd
  <2>3. ReadAll(parser')
    BY <1>2, <2>1, <2>2, ReadingReadsAll
  <2> QED
    BY <2>1, <2>3 DEF Reading
<1> QED
  BY <1>8, <1>9

-----------------------------------------------------------------------------
(* Every step of the scanner.                                              *)

\* Handing the head out reads nothing.
LEMMA ReturnReads ==
  ASSUME ScanInv, Spanned(parser), ReadAll(parser), Return
  PROVE  Spanned(parser') /\ parser'.started = parser.started /\ ReadAll(parser')
<1> DEFINE level == CHOOSE level \in HeadLevel : TRUE
           p == IF HeadLevel = {} THEN parser ELSE DropStaleKey(parser, level)
           over == parser.tokens[parser.parsed + 1].kind = "StreamEnd"
           q == parser'
<1>1. parser' = [p EXCEPT !.parsed = @ + 1, !.ended = over]
  BY DEF Return
<1>2. Staying(p, parser) /\ p.tokens = parser.tokens /\ p.parsed = parser.parsed
  <2>1. Staying(p, parser)
    BY StayingItself, DropStaleKeyStays
  <2>2. p.tokens = parser.tokens
    BY DropStaleKeyWeaker DEF Weaker, Spanned
  <2>3. p.parsed = parser.parsed
    BY KeepsItself, DropStaleKeyKeeps DEF Keeps, Spanned
  <2> QED
    BY <2>1, <2>2, <2>3
<1> HIDE DEF p, over
<1>3. Spanned(p) /\ p.input = parser.input /\ p.started = parser.started /\ p.pos = parser.pos
  BY <1>2 DEF Staying, Reading
<1>4. /\ DOMAIN q = DOMAIN p /\ q.input = p.input /\ q.pos = p.pos /\ q.ok = p.ok /\ q.tokens = p.tokens
      /\ q.keys = p.keys /\ q.indents = p.indents /\ q.started = p.started
      /\ q.parsed = p.parsed + 1 /\ q.ended = over
  <2>1. {"input", "tokens", "parsed", "keys", "indents", "ok", "pos", "started", "ended"} \subseteq DOMAIN p
    BY <1>3 DEF Spanned, Live, Scanning
  <2> QED
    BY <1>1, <2>1
<1>5. Live(q)
  BY ReturnOnward DEF Onward
<1>6. Spanned(q)
  BY <1>3, <1>4, <1>5 DEF Spanned, Limited
<1>7. NoNul(q) /\ ReadTo(q) /\ Ending(q)
  <2>1. q.input = parser.input /\ q.pos = parser.pos /\ q.tokens = parser.tokens
    BY <1>2, <1>3, <1>4
  <2> HIDE DEF q
  <2> QED
    BY <2>1 DEF ReadAll, NoNul, ReadTo, Ending
<1>8. Handed(q)
  <2>1. parser.parsed \in Nat
    BY LiveLen DEF Spanned
  <2>2. q.parsed = parser.parsed + 1 /\ q.tokens = parser.tokens
    BY <1>2, <1>4
  <2>3. q.parsed > 0
    BY <2>1, <2>2
  <2>4. q.ended => q.tokens[q.parsed].kind = "StreamEnd"
    BY <1>4, <2>2 DEF over
  <2> QED
    BY <2>3, <2>4 DEF Handed
<1> QED
  BY <1>3, <1>4, <1>6, <1>7, <1>8 DEF ReadAll

LEMMA ErrorReads ==
  ASSUME Spanned(parser), ReadAll(parser)
  PROVE  LET q == Error(parser) IN Spanned(q) /\ q.started = parser.started /\ ReadAll(q)
<1> DEFINE q == Error(parser)
<1>1. Spanned(q) /\ q.started = parser.started
  BY ErrorStays DEF Staying, Reading
<1>2. /\ q.input = parser.input /\ q.pos = parser.pos /\ q.tokens = parser.tokens
      /\ q.parsed = parser.parsed /\ q.ended = parser.ended
  BY DEF Error, Spanned, Live, Scanning
<1> HIDE DEF q
<1>3. ReadAll(q)
  BY <1>2 DEF ReadAll, NoNul, ReadTo, Ending, Handed
<1> QED
  BY <1>1, <1>3 DEF q

LEMMA ReadInvStep ==
  ASSUME ReadInv, [Next]_vars
  PROVE  ReadInv'
<1>1. ScanInv /\ ScanInv'
  BY ScanStep DEF ReadInv
<1>2. ReadAll(parser) /\ calling \in BOOLEAN /\ done \in BOOLEAN
  BY DEF ReadInv
<1>3. ASSUME parser' = parser, calling' \in BOOLEAN, done' \in BOOLEAN PROVE ReadInv'
  BY <1>1, <1>3 DEF ReadInv
<1>4. ASSUME Spanned(parser'), parser'.started, ReadAll(parser'), calling' \in BOOLEAN, done' \in BOOLEAN
      PROVE  ReadInv'
  BY <1>1, <1>4 DEF ReadInv
<1>5. ASSUME parser.tokens # <<>> \/ parser.started PROVE Spanned(parser) /\ parser.started
  BY <1>5 DEF ReadInv, Unread
<1>6. ASSUME Behind PROVE parser.tokens # <<>>
  <2>1. parser.parsed \in 0 .. Len(parser.tokens) /\ Len(parser.tokens) \in Nat
    BY <1>1, ListedLen DEF ScanInv, Live, Scanning
  <2> QED
    BY <1>6, <2>1 DEF Behind
<1>7. CASE Call \/ Fail \/ Finished \/ UNCHANGED vars
  BY <1>2, <1>3, <1>7 DEF Call, Fail, Finished, vars
<1>8. CASE FetchFirst
  <2>1. Unread(parser) /\ calling' \in BOOLEAN /\ done' \in BOOLEAN
    BY <1>2, <1>8 DEF FetchFirst, ReadInv
  <2> QED
    BY <1>1, <1>2, <1>4, <1>8, <2>1, FirstReads
<1>9. CASE Fetch
  <2>1. parser.started /\ calling' \in BOOLEAN /\ done' \in BOOLEAN
    BY <1>2, <1>9 DEF Fetch
  <2> QED
    BY <1>1, <1>2, <1>4, <1>5, <1>9, <2>1, FetchReadsAll
<1>10. CASE Return
  <2>1. Behind /\ calling' \in BOOLEAN /\ done' \in BOOLEAN
    BY <1>2, <1>10 DEF Return
  <2> QED
    BY <1>1, <1>2, <1>4, <1>5, <1>6, <1>10, <2>1, ReturnReads
<1>11. CASE LoseHead
  <2>1. Behind /\ calling' \in BOOLEAN /\ done' \in BOOLEAN /\ parser' = Error(parser)
    BY <1>2, <1>11 DEF LoseHead, HeadIsLost
  <2> QED
    BY <1>2, <1>4, <1>5, <1>6, <2>1, ErrorReads
<1> QED
  BY <1>7, <1>8, <1>9, <1>10, <1>11 DEF Next

LEMMA ReadInvBounds ==
  ASSUME ReadInv
  PROVE  TypeOK
<1>1. calling \in BOOLEAN /\ done \in BOOLEAN
  BY DEF ReadInv
<1>2. MaxFlowLevel \in Nat /\ MaxIndents \in Nat
  BY LimitsAreNaturals
<1>3. CASE Unread(parser)
  <2>1. Len(parser.input) \in Nat /\ parser.pos = 1
    BY <1>3, TextLen DEF Unread
  <2>2. /\ Len(parser.tokens) = 0 /\ Len(parser.keys) = 0 /\ Len(parser.indents) = 0
        /\ DOMAIN parser.tokens = {} /\ DOMAIN parser.keys = {}
    BY <1>3 DEF Unread
  <2>3. parser.parsed \in 0 .. Len(parser.tokens)
    BY DEF ReadInv, ScanInv, Live, Scanning
  <2>4. parser.pos \in 1 .. Len(parser.input) + 1
    BY <2>1
  <2>5. Len(parser.keys) \in 0 .. MaxFlowLevel + 2 /\ Len(parser.indents) \in 0 .. MaxIndents + 2
    BY <1>2, <2>2
  <2> QED
    BY <1>1, <2>2, <2>3, <2>4, <2>5 DEF TypeOK
<1>4. CASE Spanned(parser)
  <2>1. parser.pos \in Nat /\ parser.pos <= Len(parser.input) + 1 /\ Len(parser.input) \in Nat
        /\ parser.pos \in 1 .. Len(parser.input) + 1
    BY <1>4, SpannedPos
  <2>2. parser.parsed \in 0 .. Len(parser.tokens)
    BY <1>4 DEF Spanned, Live, Scanning
  <2>3. ASSUME NEW i \in DOMAIN parser.tokens
        PROVE  /\ parser.tokens[i].start \in 1 .. Len(parser.input) + 1
               /\ parser.tokens[i].end \in parser.tokens[i].start .. Len(parser.input) + 1
    <3>1. /\ parser.tokens[i].start \in 1 .. parser.pos
          /\ parser.tokens[i].end \in parser.tokens[i].start .. parser.pos
      BY <1>4 DEF Spanned, Spot
    <3> QED
      BY <2>1, <3>1
  <2>4. Len(parser.keys) \in 0 .. MaxFlowLevel + 2 /\ Len(parser.indents) \in 0 .. MaxIndents + 2
    <3>1. Len(parser.keys) \in Nat /\ Len(parser.indents) \in Nat
      BY <1>4, ListedLen DEF Spanned, Live, Scanning
    <3>2. Len(parser.keys) <= MaxFlowLevel + 2 /\ Len(parser.indents) <= MaxIndents + 2
      BY <1>4 DEF Spanned, Limited
    <3> QED
      BY <1>2, <3>1, <3>2
  <2>5. \A l \in DOMAIN parser.keys : parser.keys[l].possible \in BOOLEAN
    BY <1>4 DEF Spanned, Candidate
  <2> QED
    BY <1>1, <2>1, <2>2, <2>3, <2>4, <2>5 DEF TypeOK
<1> QED
  BY <1>3, <1>4 DEF ReadInv

\* When the stream is over, the tokens handed out are those that cover the text.
LEMMA ReadInvSkips ==
  ASSUME ReadInv
  PROVE  NothingSkipped
<1> SUFFICES ASSUME parser.ended, NEW j \in DOMAIN parser.input
             PROVE  \/ Ch(parser.input, j) \in Blank \cup Break
                    \/ Covered(j)
                    \/ \E k \in 1 .. j : /\ Ch(parser.input, k) = "#" /\ ~Covered(k)
                                         /\ Line(parser.input, k) = Line(parser.input, j)
  BY DEF NothingSkipped
<1>1. Spanned(parser)
  BY DEF ReadInv, Unread
<1>2. /\ parser.parsed \in 0 .. Len(parser.tokens) /\ Len(parser.tokens) \in Nat
      /\ DOMAIN parser.tokens = 1 .. Len(parser.tokens)
  BY <1>1, LiveLen, ListedLen DEF Spanned, Live, Scanning
<1>3. parser.parsed > 0 /\ parser.tokens[parser.parsed].kind = "StreamEnd"
  BY DEF ReadInv, ReadAll, Handed
<1>4. parser.parsed \in DOMAIN parser.tokens
  BY <1>2, <1>3
<1>5. /\ parser.pos = Len(parser.input) + 1
      /\ \A i \in DOMAIN parser.tokens : parser.parsed <= i => parser.tokens[i].start = parser.tokens[i].end
  BY <1>3, <1>4 DEF ReadInv, ReadAll, Ending
<1>6. DOMAIN parser.input = 1 .. Len(parser.input) /\ Len(parser.input) \in Nat
  BY <1>1, TextLen DEF Spanned
<1>7. j \in 1 .. parser.pos - 1 /\ j \in Nat
  BY <1>5, <1>6
<1>8. ASSUME NEW k \in 1 .. j PROVE Covered(k) <=> Cov(parser.tokens, k)
  <2>1. Covered(k) => Cov(parser.tokens, k)
    BY <1>2 DEF Covered, Cov
  <2>2. ASSUME NEW i \in DOMAIN parser.tokens, k \in parser.tokens[i].start .. parser.tokens[i].end - 1
        PROVE  i \in 1 .. parser.parsed
    <3>1. parser.tokens[i].start \in Int /\ parser.tokens[i].end \in Int
      <4>1. /\ parser.tokens[i].start \in 1 .. parser.pos
            /\ parser.tokens[i].end \in parser.tokens[i].start .. parser.pos
        BY <1>1 DEF Spanned, Spot
      <4> QED
        BY <4>1
    <3>2. parser.tokens[i].start # parser.tokens[i].end
      BY <2>2, <3>1
    <3>3. ~(parser.parsed <= i)
      BY <1>5, <3>2
    <3> QED
      BY <1>2, <3>3
  <2> QED
    BY <2>1, <2>2 DEF Covered, Cov
<1>9. Clear(parser.input, parser.tokens, j)
  BY <1>7 DEF ReadInv, ReadAll, ReadTo
<1>10. j \in 1 .. j
  BY <1>7
<1> QED
  BY <1>8, <1>9, <1>10 DEF Clear

\* The positions of the text and the queue stay inside their bounds, and the
\* stacks inside their limits, for every text and every limit
\* (yaml_parser_increase_flow_level, yaml_parser_roll_indent, the scans that take
\* a token from the text).
THEOREM ScannerTypes == Spec => []TypeOK
<1>1. Init => ReadInv
  BY ReadInvInit, TextsAreText DEF Init, TextIs, TextLike
<1> QED
  BY <1>1, ReadInvBounds, ReadInvStep, PTL DEF Spec

\* A stream that reaches its end has a token for every character that is neither
\* blank nor part of a comment, for every text: each fetch takes the text from
\* where it stands, and what lies between two tokens is empty
\* (yaml_parser_scan_to_next_token, yaml_parser_scan_line_comment and the
\* look-ahead of the block scalars).
THEOREM NothingIsSkipped == Spec => []NothingSkipped
<1>1. Init => ReadInv
  BY ReadInvInit, TextsAreText DEF Init, TextIs, TextLike
<1> QED
  BY <1>1, ReadInvSkips, ReadInvStep, PTL DEF Spec

=============================================================================
