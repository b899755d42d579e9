---------------------------- MODULE YamllintProofs ----------------------------
(***************************************************************************)
(* For any number of workers, files, texts and configurations: a linter    *)
(* serves one pass at a time (LinterIsOwned), the rules always see the     *)
(* stream through the ring (WindowIsStream), and the state keeps its shape *)
(* (TypeOK).                                                               *)
(***************************************************************************)
EXTENDS YamllintPass, TLAPS

Busy == {"loop", "token", "gap", "rest", "put"}

(***************************************************************************)
(* The invariant behind LinterIsOwned.  A linter is named by the file it   *)
(* was built for, so a new one is fresh because its file was never taken   *)
(* before.                                                                 *)
(***************************************************************************)
Shape ==
  /\ pc \in [Worker -> {"idle", "get"} \cup Busy]
  /\ file \in [Worker -> File \cup {NoFile}]
  /\ ln \in [Worker -> File \cup {NoFile}]
  /\ result = [f \in File |-> result[f]]
  /\ linter = [p \in DOMAIN linter |-> linter[p]]
  /\ DOMAIN linter \subseteq File
  /\ pool \subseteq DOMAIN linter
  /\ \A p \in DOMAIN linter : "conf" \in DOMAIN linter[p]

Held ==
  /\ \A w \in Worker : pc[w] = "idle" <=> file[w] = NoFile
  /\ \A w \in Worker : pc[w] \in Busy <=> ln[w] # NoFile
  /\ \A w \in Worker : ln[w] # NoFile =>
       /\ ln[w] \in DOMAIN linter
       /\ ln[w] \notin pool
       /\ linter[ln[w]].conf = conf[file[w]]

Apart ==
  /\ \A v, w \in Worker : v # w /\ file[v] # NoFile => file[v] # file[w]
  /\ \A v, w \in Worker : v # w /\ ln[v] # NoFile => ln[v] # ln[w]

Fresh ==
  /\ \A w \in Worker : pc[w] = "get" => file[w] \notin DOMAIN linter
  /\ \A w \in Worker : pc[w] = "put" => result[file[w]].done
  /\ \A f \in DOMAIN linter : result[f].done \/ \E w \in Worker : file[w] = f

OwnInv == Shape /\ Held /\ Apart /\ Fresh

(* None of the linter's handlers changes the configuration it was built    *)
(* for, and a new linter has the configuration it is built for.            *)
LEMMA ConfIsKept ==
  ASSUME NEW l, "conf" \in DOMAIN l
  PROVE /\ \A v : LET m == OnToken(l, v) IN "conf" \in DOMAIN m /\ m.conf = l.conf
        /\ \A t, c, b, a, q :
             LET m == OnComment(l, t, c, b, a, q) IN "conf" \in DOMAIN m /\ m.conf = l.conf
        /\ \A t, n : LET m == OnLine(l, t, n) IN "conf" \in DOMAIN m /\ m.conf = l.conf
        /\ LET m == Reset(l) IN "conf" \in DOMAIN m /\ m.conf = l.conf
        /\ LET m == [l EXCEPT !.out = <<>>] IN "conf" \in DOMAIN m /\ m.conf = l.conf
<1>1. \A v : LET m == OnToken(l, v) IN "conf" \in DOMAIN m /\ m.conf = l.conf
  BY DEF OnToken
<1>2. \A t, c, b, a, q :
        LET m == OnComment(l, t, c, b, a, q) IN "conf" \in DOMAIN m /\ m.conf = l.conf
  BY DEF OnComment
<1>3. \A t, n : LET m == OnLine(l, t, n) IN "conf" \in DOMAIN m /\ m.conf = l.conf
  BY DEF OnLine
<1>4. LET m == Reset(l) IN "conf" \in DOMAIN m /\ m.conf = l.conf
  BY DEF Reset
<1>5. LET m == [l EXCEPT !.out = <<>>] IN "conf" \in DOMAIN m /\ m.conf = l.conf
  OBVIOUS
<1> QED BY <1>1, <1>2, <1>3, <1>4, <1>5

LEMMA NewLinterConf ==
  ASSUME NEW id
  PROVE "conf" \in DOMAIN NewLinter(id) /\ NewLinter(id).conf = id
BY DEF NewLinter

LEMMA OwnInit == Init => OwnInv
<1> SUFFICES ASSUME Init PROVE OwnInv
  OBVIOUS
<1> USE DEF Init
<1>1. Shape
  BY DEF Shape, Unlinted, NoEntries
<1>2. Held
  BY DEF Held, Busy
<1>3. Apart
  BY DEF Apart
<1>4. Fresh
  BY DEF Fresh, NoEntries
<1> QED BY <1>1, <1>2, <1>3, <1>4 DEF OwnInv

(* A handler changes the worker's own linter only, and keeps what it was   *)
(* built for.                                                              *)
LEMMA OwnHandler ==
  ASSUME OwnInv, NEW w \in Worker, pc[w] \in Busy \ {"put"},
         NEW m, "conf" \in DOMAIN m, m.conf = linter[ln[w]].conf,
         linter' = [linter EXCEPT ![ln[w]] = m],
         NEW there \in Busy \ {"put"}, pc' = [pc EXCEPT ![w] = there],
         UNCHANGED <<conf, result, pool, file, ln>>
  PROVE OwnInv'
<1> USE DEF OwnInv, Busy
<1>1. ln[w] \in DOMAIN linter
  BY DEF Held
<1>2. DOMAIN linter' = DOMAIN linter
  BY <1>1 DEF Shape
<1>3. \A p \in DOMAIN linter : linter'[p] = IF p = ln[w] THEN m ELSE linter[p]
  BY <1>1 DEF Shape
<1>4. Shape'
  BY <1>2, <1>3 DEF Shape
<1>5. Held'
  <2>1. \A v \in Worker : pc'[v] \in Busy <=> pc[v] \in Busy
    BY DEF Shape
  <2>2. \A v \in Worker : pc'[v] = "idle" <=> pc[v] = "idle"
    BY DEF Shape
  <2>3. \A v \in Worker : ln[v] # NoFile => linter'[ln[v]].conf = conf[file[v]]
    BY <1>3 DEF Held
  <2> QED BY <2>1, <2>2, <2>3, <1>2 DEF Held
<1>6. Apart'
  BY DEF Apart
<1>7. Fresh'
  BY <1>2 DEF Fresh, Shape
<1> QED BY <1>4, <1>5, <1>6, <1>7

LEMMA OwnSkip ==
  ASSUME OwnInv, NEW w \in Worker, NEW f \in File, Skip(w, f) PROVE OwnInv'
<1> USE DEF OwnInv, Skip, input, scan
<1>1. \A g \in File : result[g].done => result'[g].done
  BY DEF Linted, Shape
<1>2. Shape'
  BY DEF Shape
<1>3. Held'
  BY DEF Held
<1>4. Apart'
  BY DEF Apart
<1>5. Fresh'
  <2>1. \A v \in Worker : pc[v] = "put" => file[v] \in File
    BY DEF Shape, Held
  <2> QED BY <1>1, <2>1 DEF Fresh, Shape
<1> QED BY <1>2, <1>3, <1>4, <1>5

LEMMA OwnTake ==
  ASSUME OwnInv, NEW w \in Worker, NEW f \in File, Take(w, f) PROVE OwnInv'
<1> USE NamesAssumption DEF OwnInv, Take, GoTo, Waiting, input, scan, Busy
<1>1. file[w] = NoFile /\ f # NoFile
  BY DEF Held, NamesAssumption
<1>2. f \notin DOMAIN linter
  BY DEF Fresh
<1>3. Shape'
  BY DEF Shape
<1>4. Held'
  BY <1>1 DEF Held, Shape
<1>5. Apart'
  BY <1>1 DEF Apart, Shape
<1>6. Fresh'
  BY <1>1, <1>2 DEF Fresh, Shape
<1> QED BY <1>3, <1>4, <1>5, <1>6

LEMMA OwnGetPooled ==
  ASSUME OwnInv, NEW w \in Worker, NEW p \in pool, GetPooled(w, p) PROVE OwnInv'
<1> USE NamesAssumption DEF OwnInv, GetPooled, StartScan, GoTo, input, Busy
<1>1. p \in DOMAIN linter /\ p \in File /\ p # NoFile
  BY DEF Shape, NamesAssumption
<1>2. "conf" \in DOMAIN Reset(linter[p]) /\ Reset(linter[p]).conf = linter[p].conf
  BY <1>1, ConfIsKept DEF Shape
<1>3. DOMAIN linter' = DOMAIN linter
  BY <1>1 DEF Shape
<1>4. \A q \in DOMAIN linter : linter'[q] = IF q = p THEN Reset(linter[p]) ELSE linter[q]
  BY <1>1 DEF Shape
<1>5. Shape'
  BY <1>1, <1>2, <1>3, <1>4 DEF Shape
<1>6. \A v \in Worker : ln[v] # p
  BY <1>1 DEF Held
<1>7. Held'
  <2>1. \A v \in Worker : ln'[v] = IF v = w THEN p ELSE ln[v]
    BY DEF Shape
  <2>2. \A v \in Worker : pc'[v] = IF v = w THEN "loop" ELSE pc[v]
    BY DEF Shape
  <2>3. \A v \in Worker : ln'[v] # NoFile =>
          ln'[v] \in DOMAIN linter' /\ ln'[v] \notin pool'
    BY <1>1, <1>3, <1>6, <2>1 DEF Held
  <2>4. \A v \in Worker : ln'[v] # NoFile => linter'[ln'[v]].conf = conf'[file'[v]]
    BY <1>1, <1>2, <1>4, <1>6, <2>1 DEF Held
  <2> QED BY <1>1, <2>1, <2>2, <2>3, <2>4 DEF Held
<1>8. Apart'
  BY <1>1, <1>6 DEF Apart, Shape
<1>9. Fresh'
  BY <1>3 DEF Fresh, Shape
<1> QED BY <1>5, <1>7, <1>8, <1>9

LEMMA OwnGetNew ==
  ASSUME OwnInv, NEW w \in Worker, GetNew(w) PROVE OwnInv'
<1> USE NamesAssumption DEF OwnInv, GetNew, StartScan, GoTo, input, Busy
<1> DEFINE f == file[w]
<1>1. f \in File /\ f # NoFile /\ f \notin DOMAIN linter
  BY DEF Shape, Held, Fresh, NamesAssumption
<1>2. DOMAIN linter' = DOMAIN linter \cup {f}
  OBVIOUS
<1>3. \A q \in DOMAIN linter' :
        linter'[q] = IF q = f THEN NewLinter(conf[f]) ELSE linter[q]
  BY <1>1
<1>4. pool' \subseteq pool
  OBVIOUS
<1>5. linter' = [q \in DOMAIN linter' |-> linter'[q]]
  OBVIOUS
<1>6. Shape'
  <2>1. \A q \in DOMAIN linter' : "conf" \in DOMAIN linter'[q]
    BY <1>1, <1>2, <1>3, NewLinterConf DEF Shape
  <2> QED BY <1>1, <1>2, <1>4, <1>5, <2>1 DEF Shape
<1>7. \A v \in Worker : ln[v] # f
  BY <1>1 DEF Held
<1>8. Held'
  <2>1. \A v \in Worker : ln'[v] = IF v = w THEN f ELSE ln[v]
    BY DEF Shape
  <2>2. \A v \in Worker : pc'[v] = IF v = w THEN "loop" ELSE pc[v]
    BY DEF Shape
  <2>3. \A v \in Worker : ln'[v] # NoFile =>
          ln'[v] \in DOMAIN linter' /\ ln'[v] \notin pool'
    BY <1>1, <1>2, <1>4, <1>7, <2>1 DEF Held, Shape
  <2>4. \A v \in Worker : ln'[v] # NoFile => linter'[ln'[v]].conf = conf'[file'[v]]
    BY <1>1, <1>2, <1>3, <1>7, <2>1, NewLinterConf DEF Held
  <2>5. \A v \in Worker : pc'[v] = "idle" <=> file'[v] = NoFile
    BY <1>1, <2>2 DEF Held
  <2>6. \A v \in Worker : pc'[v] \in Busy <=> ln'[v] # NoFile
    BY <1>1, <2>1, <2>2 DEF Held
  <2> HIDE DEF GetNew
  <2> QED BY <2>3, <2>4, <2>5, <2>6 DEF Held
<1>9. Apart'
  BY <1>1, <1>7 DEF Apart, Shape
<1>10. Fresh'
  <2>1. \A v \in Worker : pc'[v] = IF v = w THEN "loop" ELSE pc[v]
    BY DEF Shape
  <2>2. \A v \in Worker : v # w /\ pc[v] = "get" => file[v] # f
    BY <1>1 DEF Apart
  <2> QED BY <1>1, <1>2, <2>1, <2>2 DEF Fresh
<1> QED BY <1>6, <1>8, <1>9, <1>10

LEMMA OwnDetach ==
  ASSUME OwnInv, NEW w \in Worker, Detach(w) PROVE OwnInv'
<1> USE DEF OwnInv, Detach, GoTo, input, scan, Busy
<1> DEFINE m == [linter[ln[w]] EXCEPT !.out = <<>>]
<1>1. ln[w] # NoFile /\ ln[w] \in DOMAIN linter /\ "conf" \in DOMAIN linter[ln[w]]
  BY DEF Held, Shape
<1>2. "conf" \in DOMAIN m /\ m.conf = linter[ln[w]].conf
  BY <1>1, ConfIsKept
<1>3. DOMAIN linter' = DOMAIN linter
  BY DEF Shape
<1>4. \A p \in DOMAIN linter : linter'[p] = IF p = ln[w] THEN m ELSE linter[p]
  BY DEF Shape
<1>5. linter' = [p \in DOMAIN linter' |-> linter'[p]]
  BY DEF Shape
<1>6. file[w] \in File
  BY DEF Held, Shape
<1>7. \A f \in File : result'[f].done <=> (f = file[w] \/ result[f].done)
  BY <1>6 DEF Shape, Linted
<1> HIDE DEF m
<1>8. Shape'
  <2>1. result' = [f \in File |-> result'[f]]
    BY DEF Shape
  <2>2. \A p \in DOMAIN linter' : "conf" \in DOMAIN linter'[p]
    BY <1>2, <1>3, <1>4 DEF Shape
  <2> QED BY <1>3, <1>5, <2>1, <2>2 DEF Shape
<1>9. Held'
  <2>1. \A v \in Worker : pc'[v] \in Busy <=> pc[v] \in Busy
    BY DEF Shape
  <2>2. \A v \in Worker : pc'[v] = "idle" <=> pc[v] = "idle"
    BY DEF Shape
  <2>3. \A v \in Worker : ln[v] # NoFile => linter'[ln[v]].conf = conf[file[v]]
    BY <1>2, <1>4 DEF Held
  <2> QED BY <2>1, <2>2, <2>3, <1>3 DEF Held
<1>10. Apart'
  BY DEF Apart
<1>11. Fresh'
  <2>1. \A v \in Worker : pc'[v] = IF v = w THEN "put" ELSE pc[v]
    BY DEF Shape
  <2>2. \A v \in Worker : pc[v] = "put" => file[v] \in File
    BY DEF Shape, Held
  <2>3. \A v \in Worker : pc'[v] = "put" => result'[file'[v]].done
    BY <1>6, <1>7, <2>1, <2>2 DEF Fresh
  <2>4. \A f \in DOMAIN linter' : result'[f].done \/ \E v \in Worker : file'[v] = f
    BY <1>3, <1>7 DEF Fresh, Shape
  <2>5. \A v \in Worker : pc'[v] = "get" => file'[v] \notin DOMAIN linter'
    BY <1>3, <2>1 DEF Fresh
  <2> QED BY <2>3, <2>4, <2>5 DEF Fresh
<1> QED BY <1>8, <1>9, <1>10, <1>11

LEMMA OwnPut ==
  ASSUME OwnInv, NEW w \in Worker, Put(w) PROVE OwnInv'
<1> USE NamesAssumption DEF OwnInv, Put, GoTo, input, Busy
<1>1. ln[w] \in DOMAIN linter /\ ln[w] # NoFile /\ file[w] \in File /\ result[file[w]].done
  <2>1. pc[w] = "put" /\ ln[w] # NoFile /\ file[w] # NoFile
    BY DEF Held
  <2>2. result[file[w]].done
    BY <2>1 DEF Fresh
  <2>3. file[w] \in File
    BY <2>1 DEF Shape
  <2>4. ln[w] \in DOMAIN linter
    BY <2>1 DEF Held
  <2> QED BY <2>1, <2>2, <2>3, <2>4
<1>2. \A v \in Worker : /\ pc'[v] = IF v = w THEN "idle" ELSE pc[v]
                        /\ file'[v] = IF v = w THEN NoFile ELSE file[v]
                        /\ ln'[v] = IF v = w THEN NoFile ELSE ln[v]
  BY DEF Shape
<1>3. Shape'
  BY <1>1 DEF Shape
<1>4. Held'
  <2>1. \A v \in Worker : ln'[v] # NoFile => ln'[v] \notin pool'
    BY <1>1, <1>2 DEF Held, Apart
  <2>2. \A v \in Worker : pc'[v] = "idle" <=> file'[v] = NoFile
    BY <1>2 DEF Held
  <2>3. \A v \in Worker : pc'[v] \in Busy <=> ln'[v] # NoFile
    BY <1>2 DEF Held
  <2>4. \A v \in Worker : ln'[v] # NoFile =>
          ln'[v] \in DOMAIN linter' /\ linter'[ln'[v]].conf = conf'[file'[v]]
    BY <1>2 DEF Held
  <2> QED BY <2>1, <2>2, <2>3, <2>4 DEF Held
<1>5. Apart'
  BY <1>2 DEF Apart
<1>6. Fresh'
  <2>1. \A f \in DOMAIN linter : result[f].done \/ \E v \in Worker : v # w /\ file[v] = f
    BY <1>1 DEF Fresh
  <2> QED BY <1>2, <2>1 DEF Fresh
<1> QED BY <1>3, <1>4, <1>5, <1>6

LEMMA OwnStep ==
  ASSUME OwnInv, NEW w \in Worker, Step(w) PROVE OwnInv'
<1>0. pc[w] \in Busy => ln[w] \in DOMAIN linter /\ "conf" \in DOMAIN linter[ln[w]]
  BY DEF OwnInv, Held, Shape
<1>1. CASE \E f \in File : Skip(w, f) \/ Take(w, f)
  BY <1>1, OwnSkip, OwnTake
<1>2. CASE \E p \in pool : GetPooled(w, p)
  BY <1>2, OwnGetPooled
<1>3. CASE GetNew(w)
  BY <1>3, OwnGetNew
<1>4. CASE Advance(w)
  <2>1. PICK there \in {"token", "rest"} : pc' = [pc EXCEPT ![w] = there]
    BY <1>4 DEF Advance, GoTo
  <2>2. linter' = [linter EXCEPT ![ln[w]] = linter[ln[w]]]
    BY <1>4 DEF Advance, OwnInv, Shape
  <2>3. pc[w] \in Busy \ {"put"}
    BY <1>4 DEF Advance, Busy
  <2>4. UNCHANGED <<conf, result, pool, file, ln>>
    BY <1>4 DEF Advance, input
  <2> QED BY <1>0, <2>1, <2>2, <2>3, <2>4, OwnHandler DEF Busy
<1>5. CASE EndLine(w)
  <2>1. pc[w] \in Busy \ {"put"} /\ pc' = [pc EXCEPT ![w] = pc[w]]
    BY <1>5 DEF EndLine, Handling, Busy, OwnInv, Shape
  <2>2. linter' = [linter EXCEPT ![ln[w]] = OnLine(linter[ln[w]], Text(w), li[w])]
    BY <1>5 DEF EndLine
  <2>3. UNCHANGED <<conf, result, pool, file, ln>>
    BY <1>5 DEF EndLine, input
  <2> QED BY <1>0, <2>1, <2>2, <2>3, OwnHandler, ConfIsKept DEF Busy
<1>6. CASE Token(w)
  <2>1. pc[w] \in Busy \ {"put"} /\ pc' = [pc EXCEPT ![w] = "gap"]
    BY <1>6 DEF Token, GoTo, Busy
  <2>2. linter' = [linter EXCEPT ![ln[w]] = OnToken(linter[ln[w]], View(w))]
    BY <1>6 DEF Token
  <2>3. UNCHANGED <<conf, result, pool, file, ln>>
    BY <1>6 DEF Token, input
  <2> QED BY <1>0, <2>1, <2>2, <2>3, OwnHandler, ConfIsKept DEF Busy
<1>7. CASE Comment(w)
  <2>1. pc[w] \in Busy \ {"put"} /\ pc' = [pc EXCEPT ![w] = pc[w]]
    BY <1>7 DEF Comment, Busy, OwnInv, Shape
  <2>2. linter' = [linter EXCEPT
          ![ln[w]] = OnComment(linter[ln[w]], Text(w), gap[w][1], View(w).curr, View(w).next, prev[w])]
    BY <1>7 DEF Comment
  <2>3. UNCHANGED <<conf, result, pool, file, ln>>
    BY <1>7 DEF Comment, input
  <2> QED BY <1>0, <2>1, <2>2, <2>3, OwnHandler, ConfIsKept DEF Busy
<1>8. CASE NextToken(w)
  <2>1. pc[w] \in Busy \ {"put"} /\ pc' = [pc EXCEPT ![w] = "loop"]
    BY <1>8 DEF NextToken, GoTo, Busy
  <2>2. linter' = [linter EXCEPT ![ln[w]] = linter[ln[w]]]
    BY <1>8 DEF NextToken, OwnInv, Shape
  <2>3. UNCHANGED <<conf, result, pool, file, ln>>
    BY <1>8 DEF NextToken, input
  <2> QED BY <1>0, <2>1, <2>2, <2>3, OwnHandler DEF Busy
<1>9. CASE Detach(w)
  BY <1>9, OwnDetach
<1>10. CASE Put(w)
  BY <1>10, OwnPut
<1> QED
  BY <1>1, <1>2, <1>3, <1>4, <1>5, <1>6, <1>7, <1>8, <1>9, <1>10 DEF Step

LEMMA OwnNext == OwnInv /\ [Next]_vars => OwnInv'
<1> SUFFICES ASSUME OwnInv, [Next]_vars PROVE OwnInv'
  OBVIOUS
<1>1. CASE UNCHANGED vars
  <2>1. UNCHANGED <<pc, file, ln, result, linter, pool, conf>>
    BY <1>1 DEF vars
  <2>2. Shape'
    BY <2>1 DEF OwnInv, Shape
  <2>3. Held'
    BY <2>1 DEF OwnInv, Held
  <2>4. Apart' /\ Fresh'
    BY <2>1 DEF OwnInv, Apart, Fresh
  <2> QED BY <2>2, <2>3, <2>4 DEF OwnInv
<1>2. CASE Finished
  BY <1>1, <1>2 DEF Finished
<1>3. CASE \E w \in Worker : Step(w)
  BY <1>3, OwnStep
<1> QED BY <1>1, <1>2, <1>3 DEF Next

(* cosmeticProblems, yamllint.go:330-372: no two passes ever share a       *)
(* linter, a pooled linter is nobody's, and a pass runs under its own      *)
(* file's configuration, however many workers and files there are.         *)
THEOREM LinterOwnership == Spec => []LinterIsOwned
<1>1. OwnInv => LinterIsOwned
  BY DEF OwnInv, Held, Apart, LinterIsOwned
<1> QED BY <1>1, OwnInit, OwnNext, PTL DEF Spec

(***************************************************************************)
(* The ring.  Whatever was loaded last is still there: the four newest     *)
(* tokens sit in their slots, and the pass never loads further than two    *)
(* tokens ahead, so the previous token is among the four.                  *)
(***************************************************************************)
Newest(r, last) ==
  /\ r.loaded \in 0 .. last
  /\ r.eof \in BOOLEAN
  /\ r.eof => r.loaded = last
  /\ \A j \in 1 .. r.loaded : j > r.loaded - 4 => r.slots[j % 4] = j

RingAt(w) ==
  pc[w] \in {"loop", "token", "gap"} =>
    /\ at[w] \in Nat \ {0}
    /\ Newest(ring[w], LastToken(w))
    /\ pc[w] = "loop" => /\ Least(at[w] + 1, LastToken(w)) <= ring[w].loaded
                         /\ ring[w].loaded <= at[w] + 2
    /\ pc[w] # "loop" => /\ at[w] <= ring[w].loaded
                         /\ ring[w].loaded = Least(at[w] + 2, LastToken(w))

RingInv ==
  /\ \E i \in Inputs : text = i.text
  /\ at = [w \in Worker |-> at[w]]
  /\ ring = [w \in Worker |-> ring[w]]
  /\ \A w \in Worker : RingAt(w)

(* tokenRing.fill (yamllint.go:382-391), for any token it is asked for.    *)
LEMMA FillKeepsNewest ==
  ASSUME NEW r, NEW i \in Nat, NEW last \in Nat, Newest(r, last)
  PROVE /\ Newest(Fill(r, i, last), last)
        /\ Fill(r, i, last).loaded = IF r.eof THEN r.loaded ELSE Largest(r.loaded, Least(i, last))
<1> DEFINE upto == IF r.eof THEN r.loaded ELSE Largest(r.loaded, Least(i, last))
           newest(t) == upto - ((upto - t) % 4)
           q == Fill(r, i, last)
<1>1. upto \in 0 .. last /\ r.loaded \in 0 .. last /\ r.loaded <= upto
  BY DEF Newest, Largest, Least
<1>2. /\ q.loaded = upto
      /\ q.eof = (r.eof \/ i > last)
      /\ \A t \in 0 .. 3 : q.slots[t] = IF newest(t) > r.loaded THEN newest(t) ELSE r.slots[t]
  BY DEF Fill
<1>3. q.eof \in BOOLEAN
  BY <1>2 DEF Newest
<1>4. q.eof => upto = last
  BY <1>1, <1>2 DEF Newest, Largest, Least
<1>5. \A j \in 1 .. upto : j > upto - 4 => q.slots[j % 4] = j
  <2> SUFFICES ASSUME NEW j \in 1 .. upto, j > upto - 4 PROVE q.slots[j % 4] = j
    OBVIOUS
  <2> HIDE DEF upto
  <2>1. j % 4 \in 0 .. 3 /\ (upto - (j % 4)) % 4 = upto - j
    BY <1>1
  <2>2. newest(j % 4) = j
    BY <1>1, <2>1
  <2>3. q.slots[j % 4] = IF j > r.loaded THEN j ELSE r.slots[j % 4]
    BY <1>2, <2>1, <2>2
  <2>4. j <= r.loaded => r.slots[j % 4] = j
    BY <1>1 DEF Newest
  <2> QED BY <1>1, <2>3, <2>4
<1> HIDE DEF upto, q
<1>6. Newest(q, last)
  BY <1>1, <1>2, <1>3, <1>4, <1>5 DEF Newest
<1> QED BY <1>2, <1>6 DEF upto, q

LEMMA TokensOf ==
  ASSUME RingInv, NEW w \in Worker, file[w] \in File
  PROVE /\ LastToken(w) \in Nat
        /\ DOMAIN Text(w).tokens = 1 .. LastToken(w)
<1>1. PICK i \in Inputs : text = i.text
  BY DEF RingInv
<1>2. Text(w).tokens = Content[i.text[file[w]]].tokens
  BY <1>1 DEF Text
<1> QED BY <1>2, TextsAssumption DEF LastToken, TextsAssumption

(* A worker that is past get lints a file.                                 *)
LEMMA LintsAFile ==
  ASSUME OwnInv, NEW w \in Worker, pc[w] # "idle"
  PROVE file[w] \in File
BY DEF OwnInv, Held, Shape

(* The workers' own variables: a step of w leaves the others' as they are. *)
LEMMA RingFrame ==
  ASSUME RingInv, OwnInv, NEW w \in Worker, NEW v \in Worker, v # w,
         pc'[v] = pc[v], file'[v] = file[v], at'[v] = at[v], ring'[v] = ring[v], text' = text
  PROVE RingAt(v)'
BY DEF RingInv, RingAt, Newest, LastToken, Text

LEMMA RingStart ==
  ASSUME RingInv, OwnInv, NEW w \in Worker, pc[w] = "get", StartScan(w),
         text' = text, file' = file
  PROVE RingAt(w)'
<1> USE DEF StartScan, GoTo
<1>1. LastToken(w) \in Nat /\ LastToken(w)' = LastToken(w)
  BY LintsAFile, TokensOf DEF LastToken, Text
<1>2. Newest(EmptyRing, LastToken(w)) /\ EmptyRing.loaded = 0 /\ EmptyRing.eof = FALSE
  BY <1>1 DEF Newest, EmptyRing
<1>3. pc'[w] = "loop" /\ at'[w] = 1 /\ ring'[w] = Fill(EmptyRing, 3, LastToken(w))
  BY DEF RingInv, OwnInv, Shape
<1>4. /\ Newest(ring'[w], LastToken(w))
      /\ ring'[w].loaded = Largest(0, Least(3, LastToken(w)))
  <2> HIDE DEF StartScan
  <2>1. 3 \in Nat
    OBVIOUS
  <2>2. /\ Newest(Fill(EmptyRing, 3, LastToken(w)), LastToken(w))
        /\ Fill(EmptyRing, 3, LastToken(w)).loaded =
             IF EmptyRing.eof THEN EmptyRing.loaded
             ELSE Largest(EmptyRing.loaded, Least(3, LastToken(w)))
    BY <1>1, <1>2, <2>1, FillKeepsNewest
  <2> QED BY <1>2, <1>3, <2>2
<1>5. Newest(ring[w], LastToken(w))'
  BY <1>1, <1>4 DEF Newest
<1> QED BY <1>1, <1>3, <1>4, <1>5 DEF RingAt, Largest, Least

LEMMA RingAdvance ==
  ASSUME RingInv, OwnInv, NEW w \in Worker, Advance(w)
  PROVE RingAt(w)'
<1> USE DEF Advance, GoTo, input
<1>1. LastToken(w) \in Nat /\ LastToken(w)' = LastToken(w)
  BY LintsAFile, TokensOf DEF LastToken, Text
<1>2. /\ at[w] \in Nat \ {0}
      /\ Newest(ring[w], LastToken(w))
      /\ Least(at[w] + 1, LastToken(w)) <= ring[w].loaded
      /\ ring[w].loaded <= at[w] + 2
  BY DEF RingInv, RingAt
<1>3. CASE at[w] <= ring[w].loaded
  <2>1. /\ pc'[w] = "token" /\ at'[w] = at[w]
        /\ ring'[w] = Fill(ring[w], at[w] + 2, LastToken(w))
    BY <1>3 DEF RingInv, OwnInv, Shape
  <2>2. /\ Newest(ring'[w], LastToken(w))
        /\ ring'[w].loaded = IF ring[w].eof THEN ring[w].loaded
                             ELSE Largest(ring[w].loaded, Least(at[w] + 2, LastToken(w)))
    <3> HIDE DEF Advance
    <3>1. at[w] + 2 \in Nat
      BY <1>2
    <3>2. /\ Newest(Fill(ring[w], at[w] + 2, LastToken(w)), LastToken(w))
          /\ Fill(ring[w], at[w] + 2, LastToken(w)).loaded =
               IF ring[w].eof THEN ring[w].loaded
               ELSE Largest(ring[w].loaded, Least(at[w] + 2, LastToken(w)))
      BY <1>1, <1>2, <3>1, FillKeepsNewest
    <3> QED BY <2>1, <3>2
  <2>3. ring'[w].loaded = Least(at[w] + 2, LastToken(w)) /\ at[w] <= ring'[w].loaded
    BY <1>1, <1>2, <1>3, <2>2 DEF Newest, Largest, Least
  <2>4. Newest(ring[w], LastToken(w))'
    BY <1>1, <2>2 DEF Newest
  <2> QED BY <1>1, <1>2, <2>1, <2>3, <2>4 DEF RingAt
<1>4. CASE ~(at[w] <= ring[w].loaded)
  BY <1>4 DEF RingAt, OwnInv, Shape
<1> QED BY <1>3, <1>4

LEMMA RingNextToken ==
  ASSUME RingInv, OwnInv, NEW w \in Worker, NextToken(w)
  PROVE RingAt(w)'
<1> USE DEF NextToken, GoTo, input
<1>1. LastToken(w) \in Nat /\ LastToken(w)' = LastToken(w)
  BY LintsAFile, TokensOf DEF LastToken, Text
<1>2. /\ at[w] \in Nat \ {0}
      /\ Newest(ring[w], LastToken(w))
      /\ ring[w].loaded = Least(at[w] + 2, LastToken(w))
  BY DEF RingInv, RingAt
<1>3. pc'[w] = "loop" /\ at'[w] = at[w] + 1 /\ ring'[w] = ring[w]
  BY DEF RingInv, OwnInv, Shape
<1>4. Newest(ring[w], LastToken(w))'
  BY <1>1, <1>2, <1>3 DEF Newest
<1> QED BY <1>1, <1>2, <1>3, <1>4 DEF RingAt, Least

(* A step that moves no ring keeps RingAt, provided the worker does not    *)
(* enter the loop by it.                                                   *)
LEMMA RingStays ==
  ASSUME RingInv, OwnInv, NEW w \in Worker, text' = text,
         at'[w] = at[w], ring'[w] = ring[w],
         \/ pc'[w] \notin {"loop", "token", "gap"}
         \/ file'[w] = file[w] /\ pc'[w] = pc[w]
         \/ file'[w] = file[w] /\ pc[w] = "token" /\ pc'[w] = "gap"
  PROVE RingAt(w)'
BY DEF RingInv, RingAt, Newest, LastToken, Text

(* A step of w moves only w's position and window.                         *)
LEMMA OthersUntouched ==
  ASSUME RingInv, OwnInv, NEW w \in Worker, Step(w)
  PROVE /\ text' = text
        /\ at' = [v \in Worker |-> at'[v]] /\ ring' = [v \in Worker |-> ring'[v]]
        /\ \A v \in Worker \ {w} :
             pc'[v] = pc[v] /\ file'[v] = file[v] /\ at'[v] = at[v] /\ ring'[v] = ring[v]
<1> USE DEF RingInv, OwnInv, Shape, GoTo, input, scan
<1>1. CASE \E f \in File : Skip(w, f) \/ Take(w, f)
  BY <1>1 DEF Skip, Take
<1>2. CASE \E p \in pool : GetPooled(w, p)
  BY <1>2 DEF GetPooled, StartScan
<1>3. CASE GetNew(w)
  BY <1>3 DEF GetNew, StartScan
<1>4. CASE Advance(w)
  BY <1>4 DEF Advance
<1>5. CASE EndLine(w) \/ Token(w) \/ Comment(w)
  BY <1>5 DEF EndLine, Token, Comment
<1>6. CASE NextToken(w) \/ Detach(w)
  BY <1>6 DEF NextToken, Detach
<1>7. CASE Put(w)
  BY <1>7 DEF Put
<1> QED BY <1>1, <1>2, <1>3, <1>4, <1>5, <1>6, <1>7 DEF Step

LEMMA RingStep ==
  ASSUME RingInv, OwnInv, NEW w \in Worker, Step(w)
  PROVE RingInv'
<1>1. RingAt(w)'
  <2>0. pc \in [Worker -> {"idle", "get"} \cup Busy] /\ text' = text
    BY OthersUntouched DEF OwnInv, Shape
  <2>1. CASE \E f \in File : Skip(w, f) \/ Take(w, f)
    <3>1. at'[w] = at[w] /\ ring'[w] = ring[w] /\ pc'[w] \notin {"loop", "token", "gap"}
      BY <2>0, <2>1 DEF Skip, Take, GoTo, scan
    <3> QED BY <2>0, <3>1, RingStays
  <2>2. CASE (\E p \in pool : GetPooled(w, p)) \/ GetNew(w)
    BY <2>0, <2>2, RingStart DEF GetPooled, GetNew
  <2>3. CASE Advance(w)
    BY <2>3, RingAdvance
  <2>4. CASE EndLine(w) \/ Comment(w)
    <3>1. at'[w] = at[w] /\ ring'[w] = ring[w] /\ pc'[w] = pc[w] /\ file'[w] = file[w]
      BY <2>4 DEF EndLine, Comment, scan
    <3> QED BY <2>0, <3>1, RingStays
  <2>5. CASE Token(w)
    <3>1. /\ at'[w] = at[w] /\ ring'[w] = ring[w] /\ file'[w] = file[w]
          /\ pc[w] = "token" /\ pc'[w] = "gap"
      BY <2>0, <2>5 DEF Token, GoTo
    <3> QED BY <2>0, <3>1, RingStays
  <2>6. CASE NextToken(w)
    BY <2>6, RingNextToken
  <2>7. CASE Detach(w)
    <3>1. at'[w] = at[w] /\ ring'[w] = ring[w] /\ pc'[w] = "put"
      BY <2>0, <2>7 DEF Detach, GoTo, scan
    <3> QED BY <2>0, <3>1, RingStays
  <2>8. CASE Put(w)
    <3>1. pc'[w] = "idle"
      BY <2>0, <2>8 DEF Put, GoTo
    <3> QED BY <3>1 DEF RingAt
  <2> QED BY <2>1, <2>2, <2>3, <2>4, <2>5, <2>6, <2>7, <2>8 DEF Step
<1>2. \A v \in Worker \ {w} : RingAt(v)'
  BY OthersUntouched, RingFrame
<1>3. \E i \in Inputs : text' = i.text
  BY OthersUntouched DEF RingInv
<1>4. \A v \in Worker : RingAt(v)'
  BY <1>1, <1>2
<1> QED BY <1>3, <1>4, OthersUntouched DEF RingInv

LEMMA RingGivesWindow == OwnInv /\ RingInv => WindowIsStream
<1> SUFFICES ASSUME OwnInv, RingInv, NEW w \in Worker, pc[w] \in {"token", "gap"}
             PROVE View(w) = [curr |-> TokenAt(Text(w), at[w]),
                              prev |-> TokenAt(Text(w), at[w] - 1),
                              next |-> TokenAt(Text(w), at[w] + 1),
                              nextnext |-> TokenAt(Text(w), at[w] + 2)]
  BY DEF WindowIsStream
<1> DEFINE i == at[w]
           last == LastToken(w)
           r == ring[w]
<1>1. last \in Nat /\ DOMAIN Text(w).tokens = 1 .. last
  BY LintsAFile, TokensOf
<1>2. i \in Nat \ {0} /\ Newest(r, last) /\ i <= r.loaded /\ r.loaded = Least(i + 2, last)
  BY DEF RingInv, RingAt
<1> HIDE DEF i, last, r
<1>3. \A j \in 1 .. r.loaded : j >= i - 1 => r.slots[j % 4] = j
  BY <1>1, <1>2 DEF Newest, Least
<1>4. TokenAt(Text(w), r.slots[i % 4]) = TokenAt(Text(w), i)
  BY <1>2, <1>3, <1>1 DEF Newest
<1>5. (IF i > 1 THEN TokenAt(Text(w), r.slots[(i - 1) % 4]) ELSE Nil) = TokenAt(Text(w), i - 1)
  <2>1. CASE i > 1
    BY <1>1, <1>2, <1>3, <2>1 DEF Newest
  <2>2. CASE ~(i > 1)
    BY <1>1, <1>2, <2>2 DEF TokenAt
  <2> QED BY <2>1, <2>2
<1>6. (IF i + 1 <= r.loaded THEN TokenAt(Text(w), r.slots[(i + 1) % 4]) ELSE Nil)
      = TokenAt(Text(w), i + 1)
  <2>1. CASE i + 1 <= r.loaded
    BY <1>1, <1>2, <1>3, <2>1 DEF Newest
  <2>2. CASE ~(i + 1 <= r.loaded)
    BY <1>1, <1>2, <2>2 DEF TokenAt, Least
  <2> QED BY <2>1, <2>2
<1>7. (IF i + 2 <= r.loaded THEN TokenAt(Text(w), r.slots[(i + 2) % 4]) ELSE Nil)
      = TokenAt(Text(w), i + 2)
  <2>1. CASE i + 2 <= r.loaded
    BY <1>1, <1>2, <1>3, <2>1 DEF Newest
  <2>2. CASE ~(i + 2 <= r.loaded)
    BY <1>1, <1>2, <2>2 DEF TokenAt, Least
  <2> QED BY <2>1, <2>2
<1> QED BY <1>4, <1>5, <1>6, <1>7 DEF View, Window, i, r

LEMMA RingInit == Init => RingInv
BY DEF Init, RingInv, RingAt

LEMMA RingNext == OwnInv /\ RingInv /\ [Next]_vars => RingInv'
<1> SUFFICES ASSUME OwnInv, RingInv, [Next]_vars PROVE RingInv'
  OBVIOUS
<1>1. CASE UNCHANGED vars
  BY <1>1 DEF vars, RingInv, RingAt, Newest, LastToken, Text
<1>2. CASE Finished
  BY <1>1, <1>2 DEF Finished
<1>3. CASE \E w \in Worker : Step(w)
  BY <1>3, RingStep
<1> QED BY <1>1, <1>2, <1>3 DEF Next

(* cosmeticProblems' comment (yamllint.go:357-358), for every text: filling*)
(* the ring up to token i+2 never overwrites a neighbour still in use.     *)
THEOREM WindowFollowsStream == Spec => []WindowIsStream
BY OwnInit, OwnNext, RingInit, RingNext, RingGivesWindow, PTL DEF Spec

(***************************************************************************)
(* The types.  A ring is empty while its worker has no linter, and counts  *)
(* and holds only tokens of the file that is linted.                       *)
(***************************************************************************)
Fits(r, last) ==
  /\ r.loaded \in 0 .. last
  /\ \A s \in 0 .. 3 : r.slots[s] \in 0 .. r.loaded

Loadable(w) == IF file[w] = NoFile THEN 0 ELSE LastToken(w)

FitsAt(w) ==
  /\ Fits(ring[w], Loadable(w))
  /\ pc[w] \in {"idle", "get"} => ring[w] = EmptyRing

FitInv == \A w \in Worker : FitsAt(w)

(* An empty ring fits every file, and filling keeps a ring within its file.*)
LEMMA FillFits ==
  ASSUME NEW last \in Nat
  PROVE  /\ Fits(EmptyRing, last)
         /\ \A r, i : i \in Nat /\ Fits(r, last) => Fits(Fill(r, i, last), last)
<1>1. Fits(EmptyRing, last)
  BY DEF Fits, EmptyRing
<1>2. ASSUME NEW r, NEW i \in Nat, Fits(r, last) PROVE Fits(Fill(r, i, last), last)
  <2> DEFINE upto == IF r.eof THEN r.loaded ELSE Largest(r.loaded, Least(i, last))
             newest(t) == upto - ((upto - t) % 4)
             q == Fill(r, i, last)
  <2>1. upto \in 0 .. last /\ r.loaded \in 0 .. last /\ r.loaded <= upto
    BY <1>2 DEF Fits, Largest, Least
  <2>2. /\ q.loaded = upto
        /\ \A t \in 0 .. 3 : q.slots[t] = IF newest(t) > r.loaded THEN newest(t) ELSE r.slots[t]
    BY DEF Fill
  <2> HIDE DEF upto, q
  <2>3. ASSUME NEW t \in 0 .. 3 PROVE q.slots[t] \in 0 .. upto
    <3>1. newest(t) \in Int /\ newest(t) <= upto
      BY <2>1
    <3>2. r.slots[t] \in 0 .. r.loaded
      BY <1>2 DEF Fits
    <3> QED BY <2>1, <2>2, <3>1, <3>2
  <2>4. Fits(q, last)
    BY <2>1, <2>2, <2>3 DEF Fits
  <2> QED BY <2>4 DEF q
<1> QED BY <1>1, <1>2

(* A step that leaves w's ring and file alone keeps them fitting, unless   *)
(* it sends w back to where the ring must be empty.                        *)
LEMMA FitStays ==
  ASSUME FitInv, NEW w \in Worker, text' = text, file'[w] = file[w], ring'[w] = ring[w],
         pc'[w] \in {"idle", "get"} => pc[w] \in {"idle", "get"}
  PROVE  FitsAt(w)'
BY DEF FitInv, FitsAt, Fits, Loadable, LastToken, Text

LEMMA FitStep ==
  ASSUME FitInv, RingInv, OwnInv, NEW w \in Worker, Step(w)
  PROVE  FitInv'
<1>0. /\ text' = text /\ pc \in [Worker -> {"idle", "get"} \cup Busy]
      /\ file \in [Worker -> File \cup {NoFile}] /\ ring = [v \in Worker |-> ring[v]]
  BY OthersUntouched DEF OwnInv, Shape, RingInv
<1>1. FitsAt(w)'
  <2>1. CASE \E f \in File : Skip(w, f)
    BY <1>0, <2>1, FitStays DEF Skip, scan
  <2>2. CASE \E f \in File : Take(w, f)
    <3>1. PICK f \in File : Take(w, f)
      BY <2>2
    <3>2. /\ file'[w] = f /\ pc'[w] = "get"
          /\ ring' = ring /\ ring[w] = EmptyRing
      BY <1>0, <3>1 DEF Take, GoTo, scan, FitInv, FitsAt
    <3>3. f # NoFile /\ LastToken(w)' \in Nat
      <4>1. PICK i \in Inputs : text = i.text
        BY DEF RingInv
      <4>2. LastToken(w)' = Len(Content[i.text[f]].tokens)
        BY <1>0, <3>2, <4>1 DEF LastToken, Text
      <4> QED BY <4>2, TextsAssumption, NamesAssumption DEF TextsAssumption, NamesAssumption
    <3>4. Fits(ring'[w], Loadable(w)')
      BY <3>2, <3>3, FillFits DEF Loadable
    <3> QED BY <3>2, <3>4 DEF FitsAt, Fits
  <2>3. CASE (\E p \in pool : GetPooled(w, p)) \/ GetNew(w)
    <3>1. /\ pc[w] = "get" /\ file' = file /\ pc'[w] = "loop"
          /\ ring'[w] = Fill(EmptyRing, 3, LastToken(w))
      BY <1>0, <2>3 DEF GetPooled, GetNew, StartScan, GoTo
    <3>2. file[w] \in File /\ LastToken(w) \in Nat /\ Loadable(w) = LastToken(w) /\ Loadable(w)' = Loadable(w)
      BY <1>0, <3>1, LintsAFile, TokensOf, NamesAssumption DEF Loadable, LastToken, Text
    <3>3. Fits(ring'[w], Loadable(w)')
      BY <3>1, <3>2, FillFits
    <3> QED BY <3>1, <3>3 DEF FitsAt, Fits
  <2>4. CASE Advance(w)
    <3>1. /\ pc[w] = "loop" /\ file' = file /\ pc'[w] \in {"token", "rest"}
          /\ \/ ring'[w] = Fill(ring[w], at[w] + 2, LastToken(w))
             \/ ring'[w] = ring[w]
      BY <1>0, <2>4 DEF Advance, GoTo
    <3>2. file[w] \in File /\ LastToken(w) \in Nat /\ Loadable(w) = LastToken(w) /\ Loadable(w)' = Loadable(w)
      BY <1>0, <3>1, LintsAFile, TokensOf, NamesAssumption DEF Loadable, LastToken, Text
    <3>3. at[w] + 2 \in Nat
      BY <3>1 DEF RingInv, RingAt
    <3>4. Fits(ring[w], Loadable(w))
      BY DEF FitInv, FitsAt
    <3>5. Fits(ring'[w], Loadable(w)')
      BY <3>1, <3>2, <3>3, <3>4, FillFits
    <3> QED BY <3>1, <3>5 DEF FitsAt, Fits
  <2>5. CASE EndLine(w) \/ Comment(w)
    BY <1>0, <2>5, FitStays DEF EndLine, Comment, scan
  <2>6. CASE Token(w) \/ NextToken(w) \/ Detach(w)
    <3>1. file'[w] = file[w] /\ ring'[w] = ring[w] /\ pc'[w] \notin {"idle", "get"}
      BY <1>0, <2>6 DEF Token, NextToken, Detach, GoTo, scan
    <3> QED BY <1>0, <3>1, FitStays
  <2>7. CASE Put(w)
    <3>1. ring'[w] = EmptyRing /\ file'[w] = NoFile
      BY <1>0, <2>7 DEF Put
    <3>2. Fits(ring'[w], Loadable(w)')
      BY <3>1, FillFits DEF Loadable
    <3> QED BY <3>1, <3>2 DEF FitsAt, Fits
  <2> QED BY <2>1, <2>2, <2>3, <2>4, <2>5, <2>6, <2>7 DEF Step
<1>2. \A v \in Worker \ {w} : FitsAt(v)'
  <2> TAKE v \in Worker \ {w}
  <2>1. pc'[v] = pc[v] /\ file'[v] = file[v] /\ ring'[v] = ring[v]
    BY OthersUntouched
  <2> QED BY <1>0, <2>1, FitStays
<1> QED BY <1>1, <1>2 DEF FitInv

(* linterPool and tokenRing keep to their shape for every text: a linter   *)
(* is pooled or held only once it was built, and no ring counts or holds a *)
(* token the scanner did not produce.                                      *)
THEOREM YamllintTypes == Spec => []TypeOK
<1>1. Init => FitInv
  <2> SUFFICES ASSUME Init PROVE FitInv
    OBVIOUS
  <2>1. \A w \in Worker : ring[w] = EmptyRing /\ Loadable(w) = 0
    BY DEF Init, Loadable
  <2> QED BY <2>1, FillFits DEF FitInv, FitsAt
<1>2. OwnInv /\ RingInv /\ FitInv /\ [Next]_vars => FitInv'
  <2> SUFFICES ASSUME OwnInv, RingInv, FitInv, [Next]_vars PROVE FitInv'
    OBVIOUS
  <2>1. CASE UNCHANGED vars
    BY <2>1, FitStays DEF vars, FitInv
  <2>2. CASE Finished
    BY <2>1, <2>2 DEF Finished
  <2>3. CASE \E w \in Worker : Step(w)
    BY <2>3, FitStep
  <2> QED BY <2>1, <2>2, <2>3 DEF Next
<1>3. OwnInv /\ FitInv => TypeOK
  <2> SUFFICES ASSUME OwnInv, FitInv PROVE TypeOK
    OBVIOUS
  <2>1. ln \in [Worker -> DOMAIN linter \cup {NoFile}]
    BY DEF OwnInv, Shape, Held
  <2>2. \A w \in Worker :
          /\ ring[w].loaded \in 0 .. (IF file[w] = NoFile THEN 0 ELSE LastToken(w))
          /\ \A s \in 0 .. 3 : ring[w].slots[s] \in 0 .. ring[w].loaded
    BY DEF FitInv, FitsAt, Fits, Loadable
  <2> QED BY <2>1, <2>2 DEF OwnInv, Shape, TypeOK, Pc, Busy
<1> QED
  BY <1>1, <1>2, <1>3, OwnInit, OwnNext, RingInit, RingNext, PTL DEF Spec
=============================================================================
