----------------------------- MODULE YamllintPass -----------------------------
(***************************************************************************)
(* The streaming yamllint pass: workers lint files side by side, each with *)
(* a linter from a shared pool.  A pass walks the scanner's tokens through *)
(* a ring of four slots, the comments after each token and the lines,      *)
(* interleaved by line number; problems wait in a cache until the end of   *)
(* the line, where the comment directives decide what is reported.         *)
(***************************************************************************)
EXTENDS YamllintRules

CONSTANTS
  Worker,    \* goroutines of the round
  File,      \* files of the run
  Content,   \* [names of texts -> texts]
  Options,   \* [configuration identities -> option records]
  NoConf,    \* ForFile's answer for a file the configuration ignores
  NoFile,    \* the file of an idle worker
  Inputs     \* possible inputs: [text: [File -> names], conf: [File -> identities]]

ASSUME NamesAssumption == NoFile \notin File

(* Every file holds a text the scanner turned into a sequence of tokens.   *)
ASSUME TextsAssumption ==
  \A i \in Inputs, f \in File :
    LET tokens == Content[i.text[f]].tokens
    IN Len(tokens) \in Nat /\ DOMAIN tokens = 1 .. Len(tokens)

VARIABLES
  text,      \* the name of what each file holds
  conf,      \* the configuration each file is linted under
  result,    \* what each finished pass reported
  pool,      \* linterPool; a linter is named by the file it was built for
  linter,    \* the linters built so far
  pc,        \* where each worker is
  file,      \* the file it lints
  ln,        \* the linter it lints it with
  at,        \* the token it is on
  ring,      \* its token window: [slots, loaded, eof]
  gap,       \* comments of the current gap it has not handled
  prev,      \* the comment handled before, in the same gap
  li         \* the next line to end

vars == <<text, conf, result, pool, linter, pc, file, ln, at, ring, gap, prev, li>>
scan == <<at, ring, gap, prev>>
input == <<text, conf>>

Unlinted == [done |-> FALSE, problems |-> <<>>]
Linted(ps) == [done |-> TRUE, problems |-> ps]

(***************************************************************************)
(* Directives                                                              *)
(***************************************************************************)
(* Naming no rule silences all of them; naming one the configuration       *)
(* switched off is inert.                                                  *)
Silence(d, vocabulary, ids) == d \cup (IF ids = {} THEN vocabulary ELSE ids \cap vocabulary)

ProcessComment(d, vocabulary, c) ==
  CASE c.dir = "disable" -> Silence(d, vocabulary, c.ids)
    [] c.dir = "enable" -> IF c.ids = {} THEN {} ELSE d \ c.ids
    [] OTHER -> d

ProcessLineComment(d, vocabulary, c) ==
  IF c.dir = "disable-line" THEN Silence(d, vocabulary, c.ids) ELSE d

(***************************************************************************)
(* Linters                                                                 *)
(***************************************************************************)
NewLinter(id) ==
  [conf |-> id, cache |-> <<>>, out |-> <<>>,
   disabled |-> {}, forLine |-> {}, forNextLine |-> {},
   anchors |-> AnchorsReset, keys |-> [depth |-> 0, frames |-> <<>>], truthy |-> TruthyReset]

(* Mutant: the YAML version of the last file stays in force.               *)
ResetKeepsVersion(l) ==
  [l EXCEPT !.cache = <<>>, !.disabled = {}, !.forLine = {}, !.forNextLine = {},
            !.anchors = AnchorsReset, !.keys = KeysReset(@)]

Reset(l) ==
  [l EXCEPT !.cache = <<>>, !.disabled = {}, !.forLine = {}, !.forNextLine = {},
            !.anchors = AnchorsReset, !.keys = KeysReset(@), !.truthy = TruthyReset]

Enabled(l) == Options[l.conf].rules

Reported(l, rule, ps) == IF rule \in Enabled(l) THEN ps ELSE <<>>

(* Each enabled token rule sees the window, in allRuleIDs' order; a rule   *)
(* that is off is not instantiated, so its state stays as it was.          *)
OnToken(l, w) ==
  LET options == Options[l.conf]
      a == AnchorsCheck(l.anchors, w, options)
      k == KeyDuplicatesCheck(l.keys, w, options)
      t == TruthyCheck(l.truthy, w, options)
  IN [l EXCEPT !.anchors = IF "anchors" \in Enabled(l) THEN a.st ELSE @,
               !.keys = IF "key-duplicates" \in Enabled(l) THEN k.st ELSE @,
               !.truthy = IF "truthy" \in Enabled(l) THEN t.st ELSE @,
               !.cache = @ \o Reported(l, "anchors", a.problems)
                           \o Reported(l, "key-duplicates", k.problems)
                           \o Reported(l, "truthy", t.problems)]

OnComment(l, txt, c, before, after, previous) ==
  [l EXCEPT
     !.cache = @ \o Reported(l, "comments", CommentsCheck(c, before, Options[l.conf]))
                 \o Reported(l, "comments-indentation",
                             CommentIndentationCheck(txt, c, before, after, previous)),
     !.disabled = ProcessComment(@, Enabled(l), c),
     !.forLine = IF IsInline(c, before) THEN ProcessLineComment(@, Enabled(l), c) ELSE @,
     !.forNextLine = IF IsInline(c, before) THEN @ ELSE ProcessLineComment(@, Enabled(l), c)]

LineCheck(l, txt, n) ==
  [i \in DOMAIN SetToSeq({o \in txt.offences : o[1] = n /\ o[2] \in Enabled(l)}) |->
     Problem(n * PerLine,
             SetToSeq({o \in txt.offences : o[1] = n /\ o[2] \in Enabled(l)})[i][2], "line")]

(* The line rules, then the cached problems through the directives, then   *)
(* the rotation: what was meant for the next line is now for this one.     *)
OnLine(l, txt, n) ==
  [l EXCEPT !.out = @ \o SelectSeq(l.cache \o LineCheck(l, txt, n),
                                   LAMBDA p : p.rule \notin l.forLine \cup l.disabled),
            !.cache = <<>>,
            !.forLine = l.forNextLine,
            !.forNextLine = {}]

(***************************************************************************)
(* The token window                                                        *)
(***************************************************************************)
Least(a, b) == IF a < b THEN a ELSE b
Largest(a, b) == IF a > b THEN a ELSE b

EmptyRing == [slots |-> [s \in 0 .. 3 |-> 0], loaded |-> 0, eof |-> FALSE]

(* Mutant: the lookahead goes one token further, over the previous token.  *)
FillFurther(r, i, last) ==
  LET upto == IF r.eof THEN r.loaded ELSE Largest(r.loaded, Least(i + 1, last))
      newest(s) == upto - ((upto - s) % 4)
  IN [slots |-> [s \in 0 .. 3 |-> IF newest(s) > r.loaded THEN newest(s) ELSE r.slots[s]],
      loaded |-> upto,
      eof |-> r.eof \/ i + 1 > last]

(* Mutant: a token is counted before the scanner is asked for it.          *)
FillBlindly(r, i, last) ==
  LET upto == IF r.eof THEN r.loaded ELSE Largest(r.loaded, i)
      newest(s) == upto - ((upto - s) % 4)
  IN [slots |-> [s \in 0 .. 3 |-> IF newest(s) > r.loaded THEN newest(s) ELSE r.slots[s]],
      loaded |-> upto,
      eof |-> r.eof \/ i > last]

(* Tokens are numbered from 1; slot s holds the number of the token copied *)
(* into it.  Scanning ahead to token i leaves in each slot the newest      *)
(* token that falls on it.                                                 *)
Fill(r, i, last) ==
  LET upto == IF r.eof THEN r.loaded ELSE Largest(r.loaded, Least(i, last))
      newest(s) == upto - ((upto - s) % 4)
  IN [slots |-> [s \in 0 .. 3 |-> IF newest(s) > r.loaded THEN newest(s) ELSE r.slots[s]],
      loaded |-> upto,
      eof |-> r.eof \/ i > last]

Window(txt, r, i) ==
  [curr |-> TokenAt(txt, r.slots[i % 4]),
   prev |-> IF i > 1 THEN TokenAt(txt, r.slots[(i - 1) % 4]) ELSE Nil,
   next |-> IF i + 1 <= r.loaded THEN TokenAt(txt, r.slots[(i + 1) % 4]) ELSE Nil,
   nextnext |-> IF i + 2 <= r.loaded THEN TokenAt(txt, r.slots[(i + 2) % 4]) ELSE Nil]

(***************************************************************************)
(* The workers                                                             *)
(***************************************************************************)
Init ==
  /\ \E i \in Inputs : text = i.text /\ conf = i.conf
  /\ result = [f \in File |-> Unlinted]
  /\ pool = {}
  /\ linter = NoEntries
  /\ pc = [w \in Worker |-> "idle"]
  /\ file = [w \in Worker |-> NoFile]
  /\ ln = [w \in Worker |-> NoFile]
  /\ at = [w \in Worker |-> 0]
  /\ ring = [w \in Worker |-> EmptyRing]
  /\ gap = [w \in Worker |-> <<>>]
  /\ prev = [w \in Worker |-> <<>>]
  /\ li = [w \in Worker |-> 0]

GoTo(w, there) == pc' = [pc EXCEPT ![w] = there]

Text(w) == Content[text[file[w]]]
LastToken(w) == Len(Text(w).tokens)
View(w) == Window(Text(w), ring[w], at[w])

(* A file no worker has taken and no pass has finished.                    *)
Waiting(f) == ~result[f].done /\ \A w \in Worker : file[w] # f

(* A file the configuration ignores, or whose first line disables it,      *)
(* reports nothing and takes no linter.                                    *)
Silent(f) == conf[f] = NoConf \/ Content[text[f]].disableFile

Skip(w, f) ==
  /\ pc[w] = "idle" /\ Waiting(f) /\ Silent(f)
  /\ result' = [result EXCEPT ![f] = Linted(<<>>)]
  /\ UNCHANGED <<input, pool, linter, pc, file, ln, scan, li>>

Take(w, f) ==
  /\ pc[w] = "idle" /\ Waiting(f) /\ ~Silent(f)
  /\ file' = [file EXCEPT ![w] = f]
  /\ GoTo(w, "get")
  /\ UNCHANGED <<input, result, pool, linter, ln, scan, li>>

StartScan(w) ==
  /\ at' = [at EXCEPT ![w] = 1]
  /\ ring' = [ring EXCEPT ![w] = Fill(EmptyRing, 3, LastToken(w))]
  /\ li' = [li EXCEPT ![w] = 1]
  /\ GoTo(w, "loop")
  /\ UNCHANGED <<gap, prev>>

(* The pool may hand out any linter it holds or none.  One built for       *)
(* another configuration is dropped and a new one is built.                *)
GetPooled(w, p) ==
  /\ pc[w] = "get" /\ p \in pool
  /\ linter[p].conf = conf[file[w]]
  /\ pool' = pool \ {p}
  /\ linter' = [linter EXCEPT ![p] = Reset(@)]
  /\ ln' = [ln EXCEPT ![w] = p]
  /\ StartScan(w)
  /\ UNCHANGED <<input, result, file>>

GetNew(w) ==
  /\ pc[w] = "get"
  /\ \/ UNCHANGED pool
     \/ \E p \in pool : linter[p].conf # conf[file[w]] /\ pool' = pool \ {p}
  /\ linter' = [p \in DOMAIN linter \cup {file[w]} |->
                  IF p = file[w] THEN NewLinter(conf[p]) ELSE linter[p]]
  /\ ln' = [ln EXCEPT ![w] = file[w]]
  /\ StartScan(w)
  /\ UNCHANGED <<input, result, file>>

(* The head of the loop over the tokens: top up the window, or leave.      *)
Advance(w) ==
  /\ pc[w] = "loop"
  /\ IF at[w] <= ring[w].loaded
     THEN /\ ring' = [ring EXCEPT ![w] = Fill(@, at[w] + 2, LastToken(w))]
          /\ GoTo(w, "token")
     ELSE UNCHANGED ring /\ GoTo(w, "rest")
  /\ UNCHANGED <<input, result, pool, linter, file, ln, at, gap, prev, li>>

(* The lines before the next token or comment end first; after the last    *)
(* token, all of them do.                                                  *)
Handling(w) == pc[w] \in {"token", "rest"} \/ (pc[w] = "gap" /\ gap[w] # <<>>)

Upcoming(w) ==
  CASE pc[w] = "token" -> Line(View(w).curr.start)
    [] pc[w] = "gap" -> Line(gap[w][1].at)
    [] OTHER -> Text(w).lines + 1

LineIsOver(w) == li[w] <= Text(w).lines /\ li[w] < Upcoming(w)

EndLine(w) ==
  /\ Handling(w) /\ LineIsOver(w)
  /\ linter' = [linter EXCEPT ![ln[w]] = OnLine(@, Text(w), li[w])]
  /\ li' = [li EXCEPT ![w] = @ + 1]
  /\ UNCHANGED <<input, result, pool, pc, file, ln, scan>>

Token(w) ==
  /\ pc[w] = "token" /\ ~LineIsOver(w)
  /\ linter' = [linter EXCEPT ![ln[w]] = OnToken(@, View(w))]
  /\ gap' = [gap EXCEPT ![w] = Gap(Text(w), View(w).curr, View(w).next)]
  /\ prev' = [prev EXCEPT ![w] = <<>>]
  /\ GoTo(w, "gap")
  /\ UNCHANGED <<input, result, pool, file, ln, at, ring, li>>

Comment(w) ==
  /\ pc[w] = "gap" /\ gap[w] # <<>> /\ ~LineIsOver(w)
  /\ linter' = [linter EXCEPT
        ![ln[w]] = OnComment(@, Text(w), gap[w][1], View(w).curr, View(w).next, prev[w])]
  /\ prev' = [prev EXCEPT ![w] = <<gap[w][1]>>]
  /\ gap' = [gap EXCEPT ![w] = Tail(@)]
  /\ UNCHANGED <<input, result, pool, pc, file, ln, at, ring, li>>

NextToken(w) ==
  /\ pc[w] = "gap" /\ gap[w] = <<>>
  /\ at' = [at EXCEPT ![w] = @ + 1]
  /\ GoTo(w, "loop")
  /\ UNCHANGED <<input, result, pool, linter, file, ln, ring, gap, prev, li>>

(* Mutant: the linter is pooled before its result is detached.             *)
DetachPooled(w) ==
  /\ pc[w] = "rest" /\ ~LineIsOver(w)
  /\ result' = [result EXCEPT ![file[w]] = Linted(linter[ln[w]].out)]
  /\ linter' = [linter EXCEPT ![ln[w]].out = <<>>]
  /\ pool' = pool \cup {ln[w]}
  /\ GoTo(w, "put")
  /\ UNCHANGED <<input, file, ln, scan, li>>

(* The result is detached from the linter, then the linter is pooled and   *)
(* the pass's locals are gone.                                             *)
Detach(w) ==
  /\ pc[w] = "rest" /\ ~LineIsOver(w)
  /\ result' = [result EXCEPT ![file[w]] = Linted(linter[ln[w]].out)]
  /\ linter' = [linter EXCEPT ![ln[w]].out = <<>>]
  /\ GoTo(w, "put")
  /\ UNCHANGED <<input, pool, file, ln, scan, li>>

Put(w) ==
  /\ pc[w] = "put"
  /\ pool' = pool \cup {ln[w]}
  /\ file' = [file EXCEPT ![w] = NoFile]
  /\ ln' = [ln EXCEPT ![w] = NoFile]
  /\ at' = [at EXCEPT ![w] = 0]
  /\ ring' = [ring EXCEPT ![w] = EmptyRing]
  /\ prev' = [prev EXCEPT ![w] = <<>>]
  /\ li' = [li EXCEPT ![w] = 0]
  /\ GoTo(w, "idle")
  /\ UNCHANGED <<input, result, linter, gap>>

Finished ==
  /\ \A f \in File : result[f].done
  /\ \A w \in Worker : pc[w] = "idle"
  /\ UNCHANGED vars

Step(w) ==
  \/ \E f \in File : Skip(w, f) \/ Take(w, f)
  \/ \E p \in pool : GetPooled(w, p)
  \/ GetNew(w) \/ Advance(w) \/ EndLine(w) \/ Token(w) \/ Comment(w) \/ NextToken(w)
  \/ Detach(w) \/ Put(w)

Next == Finished \/ \E w \in Worker : Step(w)

Spec == Init /\ [][Next]_vars

(***************************************************************************)
(* Properties                                                              *)
(***************************************************************************)
Pc == {"idle", "get", "loop", "token", "gap", "rest", "put"}

(* The state of the workers, the pool and the rings has its shape          *)
(* (yamllint.go's linterPool and tokenRing): a linter is pooled or held    *)
(* only after it was built, and a ring never counts a token the scanner    *)
(* did not produce.                                                        *)
TypeOK ==
  /\ pc \in [Worker -> Pc]
  /\ file \in [Worker -> File \cup {NoFile}]
  /\ ln \in [Worker -> DOMAIN linter \cup {NoFile}]
  /\ pool \subseteq DOMAIN linter /\ DOMAIN linter \subseteq File
  /\ \A w \in Worker :
       /\ ring[w].loaded \in 0 .. (IF file[w] = NoFile THEN 0 ELSE LastToken(w))
       /\ \A s \in 0 .. 3 : ring[w].slots[s] \in 0 .. ring[w].loaded

(* The rules see the token, its neighbour on each side and the one after   *)
(* next exactly as the stream has them, from the dispatch of the token to  *)
(* its last comment: no slot of the ring is overwritten while it is in     *)
(* use, and none is missing (cosmeticProblems, yamllint.go:352-356).       *)
WindowIsStream ==
  \A w \in Worker : pc[w] \in {"token", "gap"} =>
    View(w) = [curr |-> TokenAt(Text(w), at[w]), prev |-> TokenAt(Text(w), at[w] - 1),
               next |-> TokenAt(Text(w), at[w] + 1), nextnext |-> TokenAt(Text(w), at[w] + 2)]

(* A linter serves one pass at a time: no two workers hold the same one,   *)
(* none is held and pooled, and a held one was built for the configuration *)
(* of the file it lints (linterPool, yamllint.go:320-337).                 *)
LinterIsOwned ==
  /\ \A w \in Worker : ln[w] # NoFile =>
       /\ ln[w] \notin pool
       /\ linter[ln[w]].conf = conf[file[w]]
  /\ \A v, w \in Worker : v # w /\ ln[v] # NoFile => ln[v] # ln[w]

(* The promise: the passes, streaming side by side through recycled        *)
(* linters, report for each file, once, the problems its whole text has    *)
(* and no directive silences, each exactly once (Lint, yamllint.go:38-46). *)
Promise == INSTANCE YamlProblems WITH
  report <- [f \in File |-> [done |-> result[f].done,
                             count |-> Len(result[f].problems),
                             problems |-> ToSet(result[f].problems)]]

KeepsPromise == Promise!Spec
=============================================================================
