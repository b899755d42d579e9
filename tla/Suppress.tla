------------------------------- MODULE Suppress -------------------------------
(***************************************************************************)
(* Inline suppression.  parseNoqa reads the `# noqa` comments of a file    *)
(* line by line; applySkips spreads them over the tasks and plays they     *)
(* stand in and drops the findings they silence.                           *)
(*                                                                         *)
(* A file is [lines, tasks, plays, metadata]: a line is [text, noqa], text *)
(* being "blank", "content" or "comment" and noqa the tokens of its noqa   *)
(* comment, {} when it has none; a task is [first, last, header, block,    *)
(* skipTag], its source lines, the last line of its header when it is a    *)
(* block, and whether it is tagged skip_ansible_lint; plays are the lines  *)
(* plays start on.  A finding is [line, tag, rule, scoped].                *)
(***************************************************************************)
EXTENDS Integers, Sequences, FiniteSets, SequencesExt, FiniteSetsExt

CONSTANTS
  Files,     \* files a run may meet
  Findings,  \* findings the rules may report, on any file
  Canonical, \* [tokens -> upstream ids]
  Wild,      \* the token of a bare `# noqa`
  Yaml       \* the rule id of the yaml[*] findings

ASSUME WildIsNoId == Canonical[Wild] = Wild

ASSUME FilesHaveLines ==
  \A f \in Files :
    /\ f.lines \in Seq([text : {"blank", "content", "comment"}, noqa : SUBSET DOMAIN Canonical])
    /\ f.tasks \in Seq([first : Nat, last : Nat, header : Nat, block : BOOLEAN, skipTag : BOOLEAN])
    /\ f.plays \subseteq Nat /\ f.metadata \in BOOLEAN

VARIABLES
  file,
  pc,        \* "noqa", "tasks", "filter" or "done"
  lineNo,    \* the line parseNoqa reads next
  skips,     \* File.Noqa: [lines with an entry -> tokens]
  taskNo,    \* the task taskSkipRanges covers next
  ranges,    \* [lines -> ids skipped by the tasks and plays over them]
  kept       \* the findings that survive

vars == <<file, pc, lineNo, skips, taskNo, ranges, kept>>

Lines == DOMAIN file.lines
NoqaSet(n) == file.lines[n].noqa
NoqaOnly(n) == file.lines[n].text = "comment" /\ NoqaSet(n) # {}

(* The first non-blank line after n, if any.                               *)
NextContentLine(n) ==
  LET later == {k \in Lines : k > n /\ file.lines[k].text # "blank"}
  IN IF later = {} THEN {} ELSE {Min(later)}

At(entries, n) == IF n \in DOMAIN entries THEN entries[n] ELSE {}

SetAt(entries, n, tokens) ==
  [k \in DOMAIN entries \cup {n} |-> IF k = n THEN tokens ELSE entries[k]]

MergeAt(entries, ns, tokens) ==
  [k \in DOMAIN entries \cup ns |-> At(entries, k) \cup (IF k \in ns THEN tokens ELSE {})]

CanonicalSkips(tokens) == {Canonical[t] : t \in tokens}

SkipsInRange(entries, from, to) == UNION {entries[k] : k \in DOMAIN entries \cap from .. to}

AllSkips(entries) == UNION {entries[k] : k \in DOMAIN entries}

Skipped(ids, fd) == Wild \in ids \/ fd.tag \in ids \/ fd.rule \in ids

Init ==
  /\ file \in Files
  /\ pc = "noqa" /\ lineNo = 1 /\ taskNo = 1
  /\ skips = [k \in {} |-> {}]
  /\ ranges = [k \in Lines |-> {}]
  /\ kept = Findings

(* Mutant: a comment line does not share its tokens with the next line.    *)
RecordOwnLine ==
  /\ pc = "noqa" /\ lineNo \in Lines
  /\ skips' = IF NoqaSet(lineNo) = {} THEN skips ELSE SetAt(skips, lineNo, NoqaSet(lineNo))
  /\ lineNo' = lineNo + 1
  /\ UNCHANGED <<file, pc, taskNo, ranges, kept>>

(* recordNoqa: the line's own comment is its entry; a line that holds      *)
(* nothing else shares it with the next non-blank line.                    *)
RecordNoqa ==
  /\ pc = "noqa" /\ lineNo \in Lines
  /\ skips' = IF NoqaSet(lineNo) = {} THEN skips
              ELSE LET own == SetAt(skips, lineNo, NoqaSet(lineNo))
                   IN IF NoqaOnly(lineNo)
                      THEN MergeAt(own, NextContentLine(lineNo), NoqaSet(lineNo))
                      ELSE own
  /\ lineNo' = lineNo + 1
  /\ UNCHANGED <<file, pc, taskNo, ranges, kept>>

HasSkipTag == \E t \in ToSet(file.tasks) : t.skipTag

(* With no entry and no skip tag the findings are returned as they are.    *)
NoqaDone ==
  /\ pc = "noqa" /\ lineNo \notin Lines
  /\ pc' = IF DOMAIN skips = {} /\ ~HasSkipTag THEN "done" ELSE "tasks"
  /\ UNCHANGED <<file, lineNo, skips, taskNo, ranges, kept>>

(* Mutant: a block collects over its children too.                         *)
CollectToEnd(t) == t.last

(* A task collects the entries over its lines, a block over its header     *)
(* only, and is silenced by them on all of its lines.                      *)
CollectTo(t) == IF t.block THEN t.header ELSE t.last

CoverTask ==
  /\ pc = "tasks" /\ taskNo \in DOMAIN file.tasks
  /\ LET t == file.tasks[taskNo]
         set == CanonicalSkips(SkipsInRange(skips, t.first, CollectTo(t)))
                \cup (IF t.skipTag THEN {Wild} ELSE {})
     IN ranges' = MergeAt(ranges, t.first .. t.last, set)
  /\ taskNo' = taskNo + 1
  /\ UNCHANGED <<file, pc, lineNo, skips, kept>>

CoverPlays ==
  /\ pc = "tasks" /\ taskNo \notin DOMAIN file.tasks
  /\ ranges' = [k \in DOMAIN ranges |->
                  ranges[k] \cup (IF k \in file.plays THEN CanonicalSkips(At(skips, k)) ELSE {})]
  /\ pc' = "filter"
  /\ UNCHANGED <<file, lineNo, skips, taskNo, kept>>

FileScope == IF file.metadata THEN CanonicalSkips(AllSkips(skips)) ELSE {}
LineScope(n) == CanonicalSkips(At(skips, n))

Silence(fd) ==
  IF fd.tag \in LineScope(fd.line) THEN TRUE
  ELSE IF fd.scoped THEN Skipped(LineScope(fd.line), fd)
  ELSE fd.rule # Yaml /\ (Skipped(FileScope, fd) \/ Skipped(At(ranges, fd.line), fd))

ApplySkips ==
  /\ pc = "filter"
  /\ kept' = {fd \in kept : ~Silence(fd)}
  /\ pc' = "done"
  /\ UNCHANGED <<file, lineNo, skips, taskNo, ranges>>

Finished == pc = "done" /\ UNCHANGED vars

Next == RecordNoqa \/ NoqaDone \/ CoverTask \/ CoverPlays \/ ApplySkips \/ Finished

Spec == Init /\ [][Next]_vars

(***************************************************************************)
(* What silences a finding, said without the passes                        *)
(***************************************************************************)
(* The tokens in force on line n: its own comment, or that of a comment    *)
(* line right above it, blank lines aside.                                 *)
Inherited(n) == UNION {NoqaSet(k) : k \in {j \in Lines : NoqaOnly(j) /\ n \in NextContentLine(j)}}
InForce(n) == IF n \in Lines /\ NoqaSet(n) # {} THEN NoqaSet(n) ELSE Inherited(n)

Names(n, fd) == \E t \in InForce(n) : Canonical[t] \in {Wild, fd.tag, fd.rule}
NamesTag(n, fd) == \E t \in InForce(n) : Canonical[t] = fd.tag

Silenced(fd) ==
  \/ NamesTag(fd.line, fd)
  \/ fd.scoped /\ Names(fd.line, fd)
  \/ /\ ~fd.scoped /\ fd.rule # Yaml
     /\ \/ file.metadata /\ \E n \in Lines : Names(n, fd)
        \/ fd.line \in file.plays /\ Names(fd.line, fd)
        \/ \E t \in ToSet(file.tasks) :
             /\ fd.line \in t.first .. t.last
             /\ t.skipTag \/ \E n \in t.first .. CollectTo(t) : Names(n, fd)

(***************************************************************************)
(* Properties                                                              *)
(***************************************************************************)
(* applySkips (run.go:74-123) drops a finding exactly when a comment in    *)
(* force on its line, in its task, on its play or, in a metadata file,     *)
(* anywhere, names it; yaml[*] and line-scoped findings heed their own     *)
(* line only.                                                              *)
DropsTheSilenced == pc = "done" => kept = {fd \in Findings : ~Silenced(fd)}

(* When every noqa comment of a file stands in one plain task, and none is *)
(* passed on to a line behind it, no finding outside the task is silenced  *)
(* (taskSkipRanges, run.go:125-166): neither through the block the task is *)
(* in, nor through its play, nor through a range that ends too late.       *)
PlainTasks == {t \in ToSet(file.tasks) : ~t.block}
Confined(t) ==
  \A n \in Lines : NoqaSet(n) # {} =>
    /\ n \in t.first .. t.last
    /\ NoqaOnly(n) => NextContentLine(n) \subseteq t.first .. t.last

TaskIsFence ==
  pc = "done" /\ ~HasSkipTag =>
    \A t \in PlainTasks : Confined(t) =>
      {fd \in Findings : fd.line \notin t.first .. t.last} \subseteq kept

(* run.go:133-134: a block does not collect over its children, for that    *)
(* would let "one child's noqa suppress siblings": a comment standing      *)
(* right above a child silences nothing on the lines of another.           *)
SiblingsApart ==
  pc = "done" /\ ~file.metadata =>
    \A fd \in Findings, t, u \in PlainTasks :
      /\ t # u /\ fd.line \in u.first .. u.last
      /\ \A n \in Lines : NoqaSet(n) # {} => NoqaOnly(n) /\ NextContentLine(n) = {t.first}
      /\ ~HasSkipTag
      => fd \in kept
=============================================================================
