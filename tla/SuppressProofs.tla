------------------------------ MODULE SuppressProofs ------------------------------
(***************************************************************************)
(* What the passes of parseNoqa and applySkips come to, for every file and *)
(* every set of findings: exactly the findings that the rule of            *)
(* suppression, said without the passes, silences.                         *)
(*                                                                         *)
(* The order of the lines decides an entry: a comment line hands its       *)
(* tokens on to a line that is read later, and that line's own comment     *)
(* takes their place.  So an entry can be told at every moment from the    *)
(* lines read so far, and the ranges from the tasks covered so far.        *)
(***************************************************************************)
EXTENDS Suppress, SumProofs

LineType == [text : {"blank", "content", "comment"}, noqa : SUBSET DOMAIN Canonical]
TaskType == [first : Nat, last : Nat, header : Nat, block : BOOLEAN, skipTag : BOOLEAN]

LEMMA FileHas ==
  ASSUME file \in Files
  PROVE  /\ file.lines \in Seq(LineType) /\ file.tasks \in Seq(TaskType)
         /\ Len(file.lines) \in Nat /\ Lines = 1 .. Len(file.lines)
         /\ Len(file.tasks) \in Nat /\ DOMAIN file.tasks = 1 .. Len(file.tasks)
         /\ ToSet(file.tasks) = {file.tasks[i] : i \in DOMAIN file.tasks}
         /\ \A i \in DOMAIN file.tasks : file.tasks[i].first \in Nat /\ file.tasks[i].last \in Nat
<1>1. file.lines \in Seq(LineType) /\ file.tasks \in Seq(TaskType)
  BY FilesHaveLines DEF LineType, TaskType
<1>2. \A i \in DOMAIN file.tasks : file.tasks[i] \in TaskType
  BY <1>1
<1> QED
  BY <1>1, <1>2 DEF Lines, ToSet, TaskType

-----------------------------------------------------------------------------
(* Entries.                                                                *)

LEMMA AtSet ==
  ASSUME NEW entries, NEW n, NEW tokens, NEW k
  PROVE  At(SetAt(entries, n, tokens), k) = IF k = n THEN tokens ELSE At(entries, k)
BY DEF At, SetAt

LEMMA AtMerge ==
  ASSUME NEW entries, NEW ns, NEW tokens, NEW k
  PROVE  At(MergeAt(entries, ns, tokens), k) = At(entries, k) \cup (IF k \in ns THEN tokens ELSE {})
<1> DEFINE merged == MergeAt(entries, ns, tokens)
<1>1. DOMAIN merged = DOMAIN entries \cup ns
  BY DEF MergeAt
<1>2. CASE k \in DOMAIN entries \cup ns
  <2>1. merged[k] = At(entries, k) \cup (IF k \in ns THEN tokens ELSE {})
    BY <1>2 DEF MergeAt
  <2> QED
    BY <1>1, <1>2, <2>1 DEF At
<1>3. CASE k \notin DOMAIN entries \cup ns
  BY <1>1, <1>3 DEF At
<1> QED
  BY <1>2, <1>3

LEMMA NextIsLater ==
  ASSUME file \in Files, NEW n, NEW k \in NextContentLine(n)
  PROVE  k \in Lines /\ k > n
<1> DEFINE later == {j \in Lines : j > n /\ file.lines[j].text # "blank"}
<1>1. later # {} /\ k = Min(later)
  BY DEF NextContentLine
<1>2. later \in SUBSET (0 .. Len(file.lines)) /\ Len(file.lines) \in Nat
  BY FileHas
<1>3. \E m \in later : \A j \in later : m <= j
  <2> HIDE DEF later
  <2> QED
    BY <1>1, <1>2, SmallestExists
<1>4. Min(later) \in later
  <2> HIDE DEF later
  <2> QED
    BY <1>3 DEF Min
<1> QED
  BY <1>1, <1>4

-----------------------------------------------------------------------------
(* The lines read so far.                                                  *)

\* What lines before l hand on to n, and what is recorded for n.
Handed(n, l) == UNION {NoqaSet(j) : j \in {j \in Lines : j < l /\ NoqaOnly(j) /\ n \in NextContentLine(j)}}
Recorded(n, l) == IF n \in Lines /\ n < l /\ NoqaSet(n) # {} THEN NoqaSet(n) ELSE Handed(n, l)

EntryInv ==
  /\ file \in Files
  /\ lineNo \in 1 .. Len(file.lines) + 1
  /\ pc # "noqa" => lineNo = Len(file.lines) + 1
  /\ DOMAIN skips \subseteq Lines
  /\ \A n \in Lines : At(skips, n) = Recorded(n, lineNo)

\* Line l hands on its tokens or nothing.
LEMMA HandedStep ==
  ASSUME file \in Files, NEW l \in Lines, NEW n \in Lines
  PROVE  Handed(n, l + 1) = Handed(n, l) \cup (IF NoqaOnly(l) /\ n \in NextContentLine(l)
                                               THEN NoqaSet(l) ELSE {})
<1>1. \A j \in Lines : j < l + 1 <=> j < l \/ j = l
  BY FileHas
<1> QED
  BY <1>1 DEF Handed

\* Nothing is handed on to a line before the one that hands it on.
LEMMA HandedLater ==
  ASSUME file \in Files, NEW n \in Lines, NEW l \in Nat, n <= l
  PROVE  Handed(n, l) = Handed(n, n)
<1>1. ASSUME NEW j \in Lines, n \in NextContentLine(j) PROVE j < n
  BY <1>1, NextIsLater, FileHas
<1>2. \A j \in Lines : n \in NextContentLine(j) => (j < l <=> j < n)
  BY <1>1, FileHas
<1> QED
  BY <1>2 DEF Handed

LEMMA EntryInit ==
  ASSUME Init
  PROVE  EntryInv
<1>1. file \in Files /\ lineNo = 1 /\ pc = "noqa" /\ skips = [k \in {} |-> {}]
  BY DEF Init
<1>2. Len(file.lines) \in Nat /\ Lines = 1 .. Len(file.lines)
  BY <1>1, FileHas
<1>3. DOMAIN skips = {} /\ \A n : At(skips, n) = {}
  BY <1>1 DEF At
<1>4. ASSUME NEW n \in Lines PROVE Recorded(n, lineNo) = {}
  <2>1. \A j \in Lines : ~(j < lineNo)
    BY <1>1, <1>2
  <2> QED
    BY <2>1 DEF Recorded, Handed
<1>5. \A n \in Lines : At(skips, n) = Recorded(n, lineNo)
  BY <1>3, <1>4
<1>6. lineNo \in 1 .. Len(file.lines) + 1 /\ DOMAIN skips \subseteq Lines
  BY <1>1, <1>2, <1>3
<1> QED
  BY <1>1, <1>5, <1>6 DEF EntryInv

LEMMA EntryStep ==
  ASSUME EntryInv, RecordNoqa
  PROVE  EntryInv'
<1> DEFINE l == lineNo
           own == SetAt(skips, l, NoqaSet(l))
           both == MergeAt(own, NextContentLine(l), NoqaSet(l))
<1>1. /\ file \in Files /\ l \in Lines /\ lineNo' = l + 1 /\ file' = file /\ pc' = pc /\ pc = "noqa"
      /\ skips' = IF NoqaSet(l) = {} THEN skips ELSE IF NoqaOnly(l) THEN both ELSE own
  BY DEF RecordNoqa, EntryInv
<1>2. Len(file.lines) \in Nat /\ Lines = 1 .. Len(file.lines) /\ l \in Nat
  BY <1>1, FileHas
<1>3. DOMAIN skips' \subseteq Lines
  <2>1. DOMAIN skips \subseteq Lines
    BY DEF EntryInv
  <2>2. DOMAIN own \subseteq Lines
    BY <1>1, <2>1 DEF SetAt
  <2>3. NextContentLine(l) \subseteq Lines
    BY <1>1, NextIsLater
  <2>4. DOMAIN both \subseteq Lines
    BY <2>2, <2>3 DEF MergeAt
  <2> QED
    BY <1>1, <2>1, <2>2, <2>4
<1>4. ASSUME NEW n \in Lines PROVE At(skips', n) = Recorded(n, l + 1)
  <2> DEFINE gets == NoqaOnly(l) /\ n \in NextContentLine(l)
  <2>1. At(skips, n) = Recorded(n, l)
    BY DEF EntryInv
  <2>2. Handed(n, l + 1) = Handed(n, l) \cup (IF gets THEN NoqaSet(l) ELSE {})
    BY <1>1, HandedStep
  <2>3. At(own, n) = IF n = l THEN NoqaSet(l) ELSE At(skips, n)
    BY AtSet
  <2>4. At(both, n) = At(own, n) \cup (IF n \in NextContentLine(l) THEN NoqaSet(l) ELSE {})
    BY AtMerge
  <2>5. gets => n > l
    BY <1>1, NextIsLater
  <2> HIDE DEF own, both
  <2>6. CASE n = l
    <3>1. ~gets /\ n \notin NextContentLine(l) /\ n < l + 1 /\ ~(n < l)
      BY <1>1, <1>2, <2>6, NextIsLater
    <3>2. Handed(n, l + 1) = Handed(n, l)
      BY <2>2, <3>1
    <3> QED
      BY <1>1, <2>1, <2>3, <2>4, <2>6, <3>1, <3>2 DEF Recorded
  <2>7. CASE n < l
    <3>1. ~gets /\ n < l + 1
      BY <1>2, <2>5, <2>7
    <3>2. n \notin NextContentLine(l)
      BY <1>1, <1>2, <2>7, NextIsLater
    <3>3. Handed(n, l + 1) = Handed(n, l)
      BY <2>2, <3>1
    <3>4. n # l
      BY <1>2, <2>7
    <3> QED
      BY <1>1, <2>1, <2>3, <2>4, <2>7, <3>1, <3>2, <3>3, <3>4 DEF Recorded
  <2>8. CASE n > l
    <3>1. ~(n < l + 1) /\ ~(n < l) /\ n # l
      BY <1>2, <2>8
    <3>2. Recorded(n, l) = Handed(n, l) /\ Recorded(n, l + 1) = Handed(n, l + 1)
      BY <3>1 DEF Recorded
    <3>3. NoqaOnly(l) => NoqaSet(l) # {}
      BY DEF NoqaOnly
    <3> QED
      BY <1>1, <2>1, <2>2, <2>3, <2>4, <3>1, <3>2, <3>3
  <2> QED
    BY <1>2, <2>6, <2>7, <2>8
<1>5. /\ lineNo' \in 1 .. Len(file.lines) + 1
      /\ Lines' = Lines /\ \A n \in Lines : Recorded(n, l + 1) = Recorded(n, lineNo)'
  BY <1>1, <1>2 DEF Lines, Recorded, Handed, NoqaSet, NoqaOnly, NextContentLine
<1>6. \A n \in Lines : At(skips', n) = At(skips, n)'
  BY DEF At
<1> HIDE DEF l, own, both
<1> QED
  BY <1>1, <1>3, <1>4, <1>5, <1>6 DEF EntryInv, l

\* When every line is read, the entry of a line is what is in force on it.
LEMMA EntryEnd ==
  ASSUME EntryInv, pc # "noqa" \/ lineNo \notin Lines, NEW n
  PROVE  At(skips, n) = InForce(n)
<1>1. Len(file.lines) \in Nat /\ Lines = 1 .. Len(file.lines) /\ file \in Files
  BY FileHas DEF EntryInv
<1>2. lineNo = Len(file.lines) + 1
  BY <1>1 DEF EntryInv
<1>3. \A j \in Lines : j < lineNo
  BY <1>1, <1>2
<1>4. Recorded(n, lineNo) = InForce(n)
  BY <1>3 DEF Recorded, Handed, InForce, Inherited
<1>5. CASE n \in Lines
  BY <1>4, <1>5 DEF EntryInv
<1>6. CASE n \notin Lines
  <2>1. At(skips, n) = {}
    BY <1>6 DEF At, EntryInv
  <2>2. \A j \in Lines : n \notin NextContentLine(j)
    BY <1>1, <1>6, NextIsLater
  <2>3. InForce(n) = {}
    BY <1>6, <2>2 DEF InForce, Inherited
  <2> QED
    BY <2>1, <2>3
<1> QED
  BY <1>5, <1>6

-----------------------------------------------------------------------------
(* The tasks covered so far.                                               *)

\* What task t is silenced by, and what the tasks before the m-th and, when
\* they are covered, the plays silence on line n.
Collected(t) == CanonicalSkips(SkipsInRange(skips, t.first, CollectTo(t)))
                \cup (IF t.skipTag THEN {Wild} ELSE {})
OfTasks(n, m) ==
  UNION {Collected(file.tasks[i]) :
         i \in {i \in DOMAIN file.tasks : i < m /\ n \in file.tasks[i].first .. file.tasks[i].last}}
OfPlays(n) == IF pc \in {"filter", "done"} /\ n \in file.plays THEN CanonicalSkips(At(skips, n)) ELSE {}

RangeInv ==
  /\ pc \in {"noqa", "tasks", "filter", "done"}
  /\ taskNo \in 1 .. Len(file.tasks) + 1
  /\ pc = "noqa" => taskNo = 1
  /\ pc = "filter" => taskNo = Len(file.tasks) + 1
  /\ Lines \subseteq DOMAIN ranges
  /\ pc # "done" => \A fd \in Findings : At(ranges, fd.line) = OfTasks(fd.line, taskNo) \cup OfPlays(fd.line)
  /\ pc # "done" => kept = Findings

SuppressInv == EntryInv /\ RangeInv /\ DropsTheSilenced

LEMMA OfTasksStep ==
  ASSUME file \in Files, NEW m \in DOMAIN file.tasks, NEW n
  PROVE  OfTasks(n, m + 1) = OfTasks(n, m) \cup
           (IF n \in file.tasks[m].first .. file.tasks[m].last THEN Collected(file.tasks[m]) ELSE {})
<1>1. \A i \in DOMAIN file.tasks : i < m + 1 <=> i < m \/ i = m
  BY FileHas
<1> QED
  BY <1>1 DEF OfTasks

LEMMA RangeInit ==
  ASSUME Init
  PROVE  RangeInv
<1>1. /\ file \in Files /\ pc = "noqa" /\ taskNo = 1 /\ kept = Findings
      /\ ranges = [k \in Lines |-> {}]
  BY DEF Init
<1>2. Len(file.tasks) \in Nat /\ DOMAIN file.tasks = 1 .. Len(file.tasks)
  BY <1>1, FileHas
<1>3. ASSUME NEW n PROVE OfTasks(n, 1) = {} /\ OfPlays(n) = {} /\ At(ranges, n) = {}
  <2>1. \A i \in DOMAIN file.tasks : ~(i < 1)
    BY <1>2
  <2> QED
    BY <1>1, <2>1 DEF OfTasks, OfPlays, At
<1>4. \A fd \in Findings : At(ranges, fd.line) = OfTasks(fd.line, taskNo) \cup OfPlays(fd.line)
  BY <1>1, <1>3
<1>5. Lines \subseteq DOMAIN ranges /\ taskNo \in 1 .. Len(file.tasks) + 1
  BY <1>1, <1>2
<1> QED
  BY <1>1, <1>4, <1>5 DEF RangeInv

-----------------------------------------------------------------------------
(* The filter.                                                             *)

\* When the entries are complete, so is what is read off them.
LEMMA ScopeIs ==
  ASSUME EntryInv, pc # "noqa" \/ lineNo \notin Lines, NEW n, NEW fd
  PROVE  /\ fd.tag \in LineScope(n) <=> NamesTag(n, fd)
         /\ Skipped(LineScope(n), fd) <=> Names(n, fd)
<1>1. At(skips, n) = InForce(n)
  BY EntryEnd
<1>2. LineScope(n) = {Canonical[t] : t \in InForce(n)}
  BY <1>1 DEF LineScope, CanonicalSkips
<1> QED
  BY <1>2 DEF NamesTag, Names, Skipped

LEMMA RangeIs ==
  ASSUME EntryInv, pc # "noqa" \/ lineNo \notin Lines, NEW from \in Nat, NEW to, NEW fd
  PROVE  Skipped(CanonicalSkips(SkipsInRange(skips, from, to)), fd)
           <=> \E n \in from .. to : Names(n, fd)
<1> DEFINE ids == CanonicalSkips(SkipsInRange(skips, from, to))
<1>1. \A n : At(skips, n) = InForce(n)
  BY EntryEnd
<1>2. ASSUME NEW id PROVE id \in ids <=> \E n \in from .. to : \E t \in InForce(n) : Canonical[t] = id
  <2>1. id \in ids <=> \E t \in SkipsInRange(skips, from, to) : Canonical[t] = id
    BY DEF CanonicalSkips
  <2>2. ASSUME NEW t
        PROVE  t \in SkipsInRange(skips, from, to) <=> \E n \in from .. to : t \in At(skips, n)
    BY DEF SkipsInRange, At
  <2> QED
    BY <1>1, <2>1, <2>2
<1> HIDE DEF ids
<1>3. Skipped(ids, fd) <=> \E n \in from .. to : \E t \in InForce(n) : Canonical[t] \in {Wild, fd.tag, fd.rule}
  BY <1>2 DEF Skipped
<1> QED
  BY <1>3 DEF ids, Names

\* What the tasks silence on a line, asked of one finding.
LEMMA TasksSilence ==
  ASSUME EntryInv, pc # "noqa" \/ lineNo \notin Lines, NEW fd
  PROVE  Skipped(OfTasks(fd.line, Len(file.tasks) + 1), fd)
           <=> \E t \in ToSet(file.tasks) :
                 /\ fd.line \in t.first .. t.last
                 /\ t.skipTag \/ \E n \in t.first .. CollectTo(t) : Names(n, fd)
<1>1. /\ file \in Files /\ Len(file.tasks) \in Nat /\ DOMAIN file.tasks = 1 .. Len(file.tasks)
      /\ ToSet(file.tasks) = {file.tasks[i] : i \in DOMAIN file.tasks}
      /\ \A i \in DOMAIN file.tasks : file.tasks[i].first \in Nat
  BY FileHas DEF EntryInv
<1> DEFINE over == {i \in DOMAIN file.tasks : fd.line \in file.tasks[i].first .. file.tasks[i].last}
<1>2. OfTasks(fd.line, Len(file.tasks) + 1) = UNION {Collected(file.tasks[i]) : i \in over}
  <2>1. \A i \in DOMAIN file.tasks : i < Len(file.tasks) + 1
    BY <1>1
  <2> QED
    BY <2>1 DEF OfTasks
<1>3. ASSUME NEW i \in over
      PROVE  Skipped(Collected(file.tasks[i]), fd)
               <=> \/ file.tasks[i].skipTag
                   \/ \E n \in file.tasks[i].first .. CollectTo(file.tasks[i]) : Names(n, fd)
  <2> DEFINE t == file.tasks[i]
             ids == CanonicalSkips(SkipsInRange(skips, t.first, CollectTo(t)))
  <2>1. t.first \in Nat
    BY <1>1
  <2>2. Skipped(ids, fd) <=> \E n \in t.first .. CollectTo(t) : Names(n, fd)
    <3> HIDE DEF t
    <3> QED
      BY <2>1, RangeIs
  <2>3. Collected(t) = ids \cup (IF t.skipTag THEN {Wild} ELSE {})
    BY DEF Collected
  <2> HIDE DEF t, ids
  <2>4. Skipped(Collected(t), fd) <=> Skipped(ids, fd) \/ t.skipTag
    BY <2>3 DEF Skipped
  <2> QED
    BY <2>2, <2>4 DEF t
<1>4. Skipped(UNION {Collected(file.tasks[i]) : i \in over}, fd)
        <=> \E i \in over : Skipped(Collected(file.tasks[i]), fd)
  BY DEF Skipped
<1> QED
  BY <1>1, <1>2, <1>3, <1>4

LEMMA ScopeOfFile ==
  ASSUME EntryInv, pc # "noqa" \/ lineNo \notin Lines, NEW fd
  PROVE  Skipped(FileScope, fd) <=> file.metadata /\ \E n \in Lines : Names(n, fd)
<1>1. ASSUME NEW id
      PROVE  id \in CanonicalSkips(AllSkips(skips))
               <=> \E n \in Lines : \E t \in InForce(n) : Canonical[t] = id
  <2>1. id \in CanonicalSkips(AllSkips(skips)) <=> \E t \in AllSkips(skips) : Canonical[t] = id
    BY DEF CanonicalSkips
  <2>2. ASSUME NEW t PROVE t \in AllSkips(skips) <=> \E n \in Lines : t \in At(skips, n)
    BY DEF AllSkips, At, EntryInv
  <2>3. \A n \in Lines : At(skips, n) = InForce(n)
    BY EntryEnd
  <2> QED
    BY <2>1, <2>2, <2>3
<1>2. Skipped(CanonicalSkips(AllSkips(skips)), fd)
        <=> \E n \in Lines : \E t \in InForce(n) : Canonical[t] \in {Wild, fd.tag, fd.rule}
  <2> DEFINE ids == CanonicalSkips(AllSkips(skips))
  <2>1. \A id : id \in ids <=> \E n \in Lines : \E t \in InForce(n) : Canonical[t] = id
    BY <1>1
  <2> HIDE DEF ids
  <2>2. Skipped(ids, fd)
          <=> \E n \in Lines : \E t \in InForce(n) : Canonical[t] \in {Wild, fd.tag, fd.rule}
    BY <2>1 DEF Skipped
  <2> QED
    BY <2>2 DEF ids
<1>3. ~Skipped({}, fd)
  BY DEF Skipped
<1> QED
  BY <1>2, <1>3 DEF FileScope, Names

\* The filter drops what is silenced.
LEMMA FilterIs ==
  ASSUME EntryInv, RangeInv, pc = "filter", NEW fd \in Findings
  PROVE  Silence(fd) <=> Silenced(fd)
<1> DEFINE n == fd.line
           tasks == OfTasks(n, Len(file.tasks) + 1)
           byTask == \E t \in ToSet(file.tasks) :
                       /\ n \in t.first .. t.last
                       /\ t.skipTag \/ \E k \in t.first .. CollectTo(t) : Names(k, fd)
<1>1. fd.tag \in LineScope(n) <=> NamesTag(n, fd)
  BY ScopeIs
<1>2. Skipped(LineScope(n), fd) <=> Names(n, fd)
  BY ScopeIs
<1>3. Skipped(FileScope, fd) <=> file.metadata /\ \E k \in Lines : Names(k, fd)
  BY ScopeOfFile
<1>4. At(ranges, n) = tasks \cup (IF n \in file.plays THEN LineScope(n) ELSE {})
  BY DEF RangeInv, OfPlays, LineScope
<1>5. Skipped(tasks, fd) <=> byTask
  BY TasksSilence
<1> HIDE DEF tasks, byTask
<1>6. Skipped(At(ranges, n), fd) <=> byTask \/ (n \in file.plays /\ Names(n, fd))
  BY <1>2, <1>4, <1>5 DEF Skipped
<1> QED
  BY <1>1, <1>2, <1>3, <1>6 DEF Silence, Silenced, byTask

-----------------------------------------------------------------------------
(* The steps.                                                              *)

LEMMA SuppressInit ==
  ASSUME Init
  PROVE  SuppressInv
<1>1. DropsTheSilenced
  BY DEF Init, DropsTheSilenced
<1> QED
  BY <1>1, EntryInit, RangeInit DEF SuppressInv

LEMMA NoqaKeeps ==
  ASSUME SuppressInv, RecordNoqa
  PROVE  SuppressInv'
<1>1. EntryInv'
  BY EntryStep DEF SuppressInv
<1>2. /\ file' = file /\ pc' = pc /\ pc = "noqa" /\ taskNo' = taskNo /\ ranges' = ranges /\ kept' = kept
      /\ file \in Files /\ taskNo = 1
  BY DEF RecordNoqa, SuppressInv, EntryInv, RangeInv
<1>3. ASSUME NEW n PROVE OfTasks(n, 1) = {} /\ OfTasks(n, 1)' = {}
  <2>1. \A i \in DOMAIN file.tasks : ~(i < 1)
    BY <1>2, FileHas
  <2> QED
    BY <1>2, <2>1 DEF OfTasks
<1>4. ASSUME NEW n PROVE OfPlays(n) = {} /\ OfPlays(n)' = {}
  BY <1>2 DEF OfPlays
<1>5. \A fd \in Findings : At(ranges, fd.line)' = (OfTasks(fd.line, taskNo) \cup OfPlays(fd.line))'
  <2>1. \A fd \in Findings : At(ranges, fd.line) = OfTasks(fd.line, 1) \cup OfPlays(fd.line)
    BY <1>2 DEF SuppressInv, RangeInv
  <2>2. \A fd \in Findings : At(ranges, fd.line)' = At(ranges, fd.line)
    BY <1>2 DEF At
  <2> QED
    BY <1>2, <1>3, <1>4, <2>1, <2>2
<1>6. RangeInv'
  BY <1>2, <1>5 DEF SuppressInv, RangeInv, Lines
<1>7. DropsTheSilenced'
  BY <1>2 DEF DropsTheSilenced
<1> QED
  BY <1>1, <1>6, <1>7 DEF SuppressInv

\* Steps that leave the file, the entries and their line alone.
LEMMA EntryKept ==
  ASSUME EntryInv, file' = file, lineNo' = lineNo, skips' = skips, pc' # "noqa" => pc # "noqa" \/ lineNo \notin Lines
  PROVE  EntryInv' /\ (\A n : At(skips, n)' = At(skips, n)) /\ (\A m, n : OfTasks(n, m)' = OfTasks(n, m))
<1>1. file \in Files /\ Len(file.lines) \in Nat /\ Lines = 1 .. Len(file.lines)
  BY FileHas DEF EntryInv
<1>2. pc' # "noqa" => lineNo = Len(file.lines) + 1
  BY <1>1 DEF EntryInv
<1>3. \A n : At(skips, n)' = At(skips, n)
  BY DEF At
<1>4. \A n \in Lines : Recorded(n, lineNo)' = Recorded(n, lineNo)
  BY DEF Lines, Recorded, Handed, NoqaSet, NoqaOnly, NextContentLine
<1>5. EntryInv'
  BY <1>2, <1>3, <1>4 DEF EntryInv, Lines
<1>6. \A m, n : OfTasks(n, m)' = OfTasks(n, m)
  BY DEF OfTasks, Collected, SkipsInRange, CanonicalSkips, CollectTo
<1> QED
  BY <1>3, <1>5, <1>6

LEMMA NoqaDoneKeeps ==
  ASSUME SuppressInv, NoqaDone
  PROVE  SuppressInv'
<1>1. /\ EntryInv /\ RangeInv /\ pc = "noqa" /\ lineNo \notin Lines
      /\ pc' = IF DOMAIN skips = {} /\ ~HasSkipTag THEN "done" ELSE "tasks"
      /\ file' = file /\ lineNo' = lineNo /\ skips' = skips
      /\ taskNo' = taskNo /\ ranges' = ranges /\ kept' = kept
  BY DEF NoqaDone, SuppressInv
<1>2. EntryInv' /\ (\A n : At(skips, n)' = At(skips, n)) /\ (\A m, n : OfTasks(n, m)' = OfTasks(n, m))
  BY <1>1, EntryKept
<1>3. \A n : OfPlays(n) = {} /\ (pc' = "tasks" => OfPlays(n)' = {})
  BY <1>1 DEF OfPlays
<1>4. pc' = "tasks" =>
        \A fd \in Findings : At(ranges, fd.line)' = OfTasks(fd.line, taskNo)' \cup OfPlays(fd.line)'
  <2>1. \A fd \in Findings : At(ranges, fd.line)' = At(ranges, fd.line)
    BY <1>1 DEF At
  <2>2. \A fd \in Findings : OfTasks(fd.line, taskNo)' = OfTasks(fd.line, taskNo)
    BY <1>1 DEF OfTasks, Collected, SkipsInRange, CanonicalSkips, CollectTo
  <2> QED
    BY <1>1, <1>3, <2>1, <2>2 DEF RangeInv
<1>5. RangeInv'
  BY <1>1, <1>4 DEF RangeInv, Lines
<1>6. DropsTheSilenced'
  <2> SUFFICES ASSUME pc' = "done" PROVE (kept = {fd \in Findings : ~Silenced(fd)})'
    BY DEF DropsTheSilenced
  <2>1. DOMAIN skips = {} /\ ~HasSkipTag /\ kept' = Findings
    BY <1>1 DEF RangeInv
  <2>2. ASSUME NEW n, NEW fd PROVE ~Names(n, fd) /\ ~NamesTag(n, fd)
    <3>1. InForce(n) = {}
      BY <1>1, <2>1, EntryEnd DEF At
    <3> QED
      BY <3>1 DEF Names, NamesTag
  <2>3. \A fd : ~Silenced(fd)
    BY <2>1, <2>2 DEF Silenced, HasSkipTag
  <2>4. \A fd : Silenced(fd)' = Silenced(fd)
    BY <1>1 DEF Silenced, Names, NamesTag, InForce, Inherited, NoqaSet, NoqaOnly, NextContentLine,
                Lines, CollectTo
  <2> QED
    BY <2>1, <2>3, <2>4
<1> QED
  BY <1>2, <1>5, <1>6 DEF SuppressInv

LEMMA CoverTaskKeeps ==
  ASSUME SuppressInv, CoverTask
  PROVE  SuppressInv'
<1> DEFINE t == file.tasks[taskNo]
<1>1. /\ EntryInv /\ RangeInv /\ pc = "tasks" /\ taskNo \in DOMAIN file.tasks
      /\ ranges' = MergeAt(ranges, t.first .. t.last, Collected(t)) /\ taskNo' = taskNo + 1
      /\ file' = file /\ lineNo' = lineNo /\ skips' = skips /\ pc' = pc /\ kept' = kept
  BY DEF CoverTask, SuppressInv, Collected
<1>2. EntryInv' /\ (\A n : At(skips, n)' = At(skips, n)) /\ (\A m, n : OfTasks(n, m)' = OfTasks(n, m))
  BY <1>1, EntryKept
<1>3. file \in Files /\ Len(file.tasks) \in Nat /\ DOMAIN file.tasks = 1 .. Len(file.tasks)
  BY <1>1, FileHas DEF EntryInv
<1>4. \A n : OfPlays(n) = {} /\ OfPlays(n)' = {}
  BY <1>1 DEF OfPlays
<1>5. \A fd \in Findings : At(ranges, fd.line)' = OfTasks(fd.line, taskNo)' \cup OfPlays(fd.line)'
  <2> SUFFICES ASSUME NEW fd \in Findings
               PROVE  At(ranges, fd.line)' = OfTasks(fd.line, taskNo)' \cup OfPlays(fd.line)'
    OBVIOUS
  <2> DEFINE n == fd.line
  <2>1. At(ranges, n) = OfTasks(n, taskNo)
    BY <1>1, <1>4 DEF RangeInv
  <2>2. OfTasks(n, taskNo + 1) = OfTasks(n, taskNo) \cup (IF n \in t.first .. t.last THEN Collected(t) ELSE {})
    BY <1>1, <1>3, OfTasksStep
  <2>3. At(ranges', n) = At(ranges, n) \cup (IF n \in t.first .. t.last THEN Collected(t) ELSE {})
    <3> DEFINE ids == Collected(t)
               ns == t.first .. t.last
    <3>1. ranges' = MergeAt(ranges, ns, ids)
      BY <1>1
    <3> HIDE DEF ids, ns
    <3>2. At(ranges', n) = At(ranges, n) \cup (IF n \in ns THEN ids ELSE {})
      BY <3>1, AtMerge
    <3> QED
      BY <3>2 DEF ids, ns
  <2>4. OfTasks(n, taskNo)' = OfTasks(n, taskNo + 1)
    BY <1>1 DEF OfTasks, Collected, SkipsInRange, CanonicalSkips, CollectTo
  <2>5. At(ranges, n)' = At(ranges', n)
    BY DEF At
  <2> QED
    BY <1>4, <2>1, <2>2, <2>3, <2>4, <2>5
<1>6. Lines' \subseteq DOMAIN ranges' /\ taskNo' \in 1 .. Len(file.tasks) + 1
  BY <1>1, <1>3 DEF RangeInv, MergeAt, Lines
<1>7. RangeInv'
  BY <1>1, <1>5, <1>6 DEF RangeInv
<1>8. DropsTheSilenced'
  BY <1>1 DEF DropsTheSilenced
<1> QED
  BY <1>2, <1>7, <1>8 DEF SuppressInv

LEMMA CoverPlaysKeeps ==
  ASSUME SuppressInv, CoverPlays
  PROVE  SuppressInv'
<1>1. /\ EntryInv /\ RangeInv /\ pc = "tasks" /\ taskNo \notin DOMAIN file.tasks /\ pc' = "filter"
      /\ ranges' = [k \in DOMAIN ranges |->
                      ranges[k] \cup (IF k \in file.plays THEN CanonicalSkips(At(skips, k)) ELSE {})]
      /\ file' = file /\ lineNo' = lineNo /\ skips' = skips /\ taskNo' = taskNo /\ kept' = kept
  BY DEF CoverPlays, SuppressInv
<1>2. EntryInv' /\ (\A n : At(skips, n)' = At(skips, n)) /\ (\A m, n : OfTasks(n, m)' = OfTasks(n, m))
  BY <1>1, EntryKept
<1>3. file \in Files /\ Len(file.tasks) \in Nat /\ DOMAIN file.tasks = 1 .. Len(file.tasks)
  BY <1>1, FileHas DEF EntryInv
<1>4. taskNo = Len(file.tasks) + 1
  BY <1>1, <1>3 DEF RangeInv
<1>5. ASSUME NEW n
      PROVE  At(ranges, n)' = At(ranges, n) \cup OfPlays(n)' /\ OfPlays(n) = {}
  <2>1. OfPlays(n)' = IF n \in file.plays THEN CanonicalSkips(At(skips, n)) ELSE {}
    BY <1>1 DEF OfPlays, At, CanonicalSkips
  <2>2. CASE n \in DOMAIN ranges
    BY <1>1, <2>1, <2>2 DEF At, OfPlays
  <2>3. CASE n \notin DOMAIN ranges
    <3>1. At(skips, n) = {}
      BY <1>1, <2>3 DEF RangeInv, EntryInv, At
    <3>2. OfPlays(n)' = {}
      BY <2>1, <3>1 DEF CanonicalSkips
    <3> QED
      BY <1>1, <2>3, <3>2 DEF At, OfPlays
  <2> QED
    BY <2>2, <2>3
<1>6. \A fd \in Findings : At(ranges, fd.line)' = OfTasks(fd.line, taskNo)' \cup OfPlays(fd.line)'
  <2>1. \A fd \in Findings : OfTasks(fd.line, taskNo)' = OfTasks(fd.line, taskNo)
    BY <1>1 DEF OfTasks, Collected, SkipsInRange, CanonicalSkips, CollectTo
  <2> QED
    BY <1>1, <1>5, <2>1 DEF RangeInv
<1>7. RangeInv'
  BY <1>1, <1>4, <1>6 DEF RangeInv, Lines
<1>8. DropsTheSilenced'
  BY <1>1 DEF DropsTheSilenced
<1> QED
  BY <1>2, <1>7, <1>8 DEF SuppressInv

LEMMA ApplyKeeps ==
  ASSUME SuppressInv, ApplySkips
  PROVE  SuppressInv'
<1>1. /\ EntryInv /\ RangeInv /\ pc = "filter" /\ pc' = "done" /\ kept' = {fd \in kept : ~Silence(fd)}
      /\ file' = file /\ lineNo' = lineNo /\ skips' = skips /\ taskNo' = taskNo /\ ranges' = ranges
  BY DEF ApplySkips, SuppressInv
<1>2. EntryInv'
  BY <1>1, EntryKept
<1>3. RangeInv'
  BY <1>1 DEF RangeInv, Lines
<1>4. kept' = {fd \in Findings : ~Silenced(fd)}
  BY <1>1, FilterIs DEF RangeInv
<1>5. \A fd : Silenced(fd)' = Silenced(fd)
  BY <1>1 DEF Silenced, Names, NamesTag, InForce, Inherited, NoqaSet, NoqaOnly, NextContentLine,
              Lines, CollectTo
<1> QED
  BY <1>2, <1>3, <1>4, <1>5 DEF SuppressInv, DropsTheSilenced

LEMMA SuppressIdle ==
  ASSUME SuppressInv, UNCHANGED vars
  PROVE  SuppressInv'
<1>1. /\ file' = file /\ pc' = pc /\ lineNo' = lineNo /\ skips' = skips /\ taskNo' = taskNo
      /\ ranges' = ranges /\ kept' = kept
  BY DEF vars
<1>2. EntryInv'
  BY <1>1, EntryKept DEF SuppressInv
<1>3. RangeInv'
  <2>1. \A n : OfTasks(n, taskNo)' = OfTasks(n, taskNo) /\ OfPlays(n)' = OfPlays(n) /\ At(ranges, n)' = At(ranges, n)
    BY <1>1 DEF OfTasks, OfPlays, At, Collected, SkipsInRange, CanonicalSkips, CollectTo
  <2> QED
    BY <1>1, <2>1 DEF SuppressInv, RangeInv, Lines
<1>4. DropsTheSilenced'
  <2>1. \A fd : Silenced(fd)' = Silenced(fd)
    BY <1>1 DEF Silenced, Names, NamesTag, InForce, Inherited, NoqaSet, NoqaOnly, NextContentLine,
                Lines, CollectTo
  <2> QED
    BY <1>1, <2>1 DEF SuppressInv, DropsTheSilenced
<1> QED
  BY <1>2, <1>3, <1>4 DEF SuppressInv

LEMMA SuppressStep ==
  ASSUME SuppressInv, [Next]_vars
  PROVE  SuppressInv'
<1>1. CASE RecordNoqa
  BY <1>1, NoqaKeeps
<1>2. CASE NoqaDone
  BY <1>2, NoqaDoneKeeps
<1>3. CASE CoverTask
  BY <1>3, CoverTaskKeeps
<1>4. CASE CoverPlays
  BY <1>4, CoverPlaysKeeps
<1>5. CASE ApplySkips
  BY <1>5, ApplyKeeps
<1>6. CASE Finished \/ UNCHANGED vars
  BY <1>6, SuppressIdle DEF Finished
<1> QED
  BY <1>1, <1>2, <1>3, <1>4, <1>5, <1>6 DEF Next

\* For every file, and whatever the rules report, the passes drop a finding
\* exactly when a comment in force on its line, in its task, on its play or,
\* in a metadata file, anywhere names it (parseNoqa, noqa.go; applySkips and
\* taskSkipRanges, run.go:74-166).
THEOREM SuppressionIs == Spec => []DropsTheSilenced
<1>1. SuppressInv => DropsTheSilenced
  BY DEF SuppressInv
<1> QED
  BY <1>1, SuppressInit, SuppressStep, PTL DEF Spec

-----------------------------------------------------------------------------
(* The fence.                                                              *)

\* Files written one task to a line or more: what another task collects over
\* is not inside a plain task. A block's header ends before its children do
\* begin. A metadata file has no tasks.
TasksApart ==
  \A f \in Files :
    /\ f.metadata => f.tasks = <<>>
    /\ \A t, u \in ToSet(f.tasks) :
         ~t.block /\ t # u => \A n \in u.first .. CollectTo(u) : n \notin t.first .. t.last

\* A comment that is confined to a task is in force on its lines only.
LEMMA ConfinedForce ==
  ASSUME NEW t, Confined(t), NEW n, InForce(n) # {}
  PROVE  n \in t.first .. t.last
<1>1. CASE n \in Lines /\ NoqaSet(n) # {}
  BY <1>1 DEF Confined
<1>2. CASE ~(n \in Lines /\ NoqaSet(n) # {})
  <2>1. Inherited(n) # {}
    BY <1>2 DEF InForce
  <2>2. PICK j \in Lines : NoqaOnly(j) /\ n \in NextContentLine(j)
    BY <2>1 DEF Inherited
  <2>3. NoqaSet(j) # {}
    BY <2>2 DEF NoqaOnly
  <2> QED
    BY <2>2, <2>3 DEF Confined
<1> QED
  BY <1>1, <1>2

LEMMA OutsideIsFree ==
  ASSUME TasksApart, file \in Files, ~HasSkipTag, NEW t \in PlainTasks, Confined(t),
         NEW fd \in Findings, fd.line \notin t.first .. t.last
  PROVE  ~Silenced(fd)
<1>1. \A n : Names(n, fd) \/ NamesTag(n, fd) => n \in t.first .. t.last
  BY ConfinedForce DEF Names, NamesTag
<1>2. t \in ToSet(file.tasks) /\ ~t.block
  BY DEF PlainTasks
<1>3. ~file.metadata
  <2>1. file.tasks # <<>>
    BY <1>2 DEF ToSet
  <2> QED
    BY <2>1 DEF TasksApart
<1>4. ASSUME NEW u \in ToSet(file.tasks), fd.line \in u.first .. u.last
      PROVE  ~(u.skipTag \/ \E n \in u.first .. CollectTo(u) : Names(n, fd))
  <2>1. t # u
    BY <1>4
  <2>2. \A n \in u.first .. CollectTo(u) : n \notin t.first .. t.last
    BY <1>2, <2>1 DEF TasksApart
  <2> QED
    BY <1>1, <2>2 DEF HasSkipTag
<1> QED
  BY <1>1, <1>3, <1>4 DEF Silenced

\* Where tasks do not share lines, the comments of one plain task silence no
\* finding outside it (taskSkipRanges, run.go:125-166). Two tasks written on
\* one line share their comments: the hypothesis is needed.
THEOREM TaskFence ==
  ASSUME TasksApart
  PROVE  Spec => []TaskIsFence
<1>1. SuppressInv => TaskIsFence
  <2> SUFFICES ASSUME SuppressInv, pc = "done", ~HasSkipTag, NEW t \in PlainTasks, Confined(t),
                      NEW fd \in Findings, fd.line \notin t.first .. t.last
               PROVE  fd \in kept
    BY DEF TaskIsFence
  <2>1. file \in Files /\ kept = {f \in Findings : ~Silenced(f)}
    BY DEF SuppressInv, EntryInv, DropsTheSilenced
  <2> QED
    BY <2>1, OutsideIsFree
<1> QED
  BY <1>1, SuppressInit, SuppressStep, PTL DEF Spec
=============================================================================
