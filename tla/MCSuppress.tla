------------------------------ MODULE MCSuppress ------------------------------
(***************************************************************************)
(* Small files for Suppress: one playbook                                  *)
(*                                                                         *)
(*   1 - hosts: all            6       - name: child, lines 6 and 7        *)
(*   2   tasks:                7         git: ...                          *)
(*   3     - name: block       8       blank, or a comment                 *)
(*   4       block:            9       - name: child                       *)
(*   5       comment          10     - name: task                          *)
(*                                                                         *)
(* in which up to two lines carry a noqa comment, and the same text as a   *)
(* metadata file, which has no tasks and no plays.                         *)
(***************************************************************************)
EXTENDS Suppress

MCWild == "*"
MCYaml == "yaml"

(* A rule's id and its native alias, a rule with a subtag, yaml, the       *)
(* wildcard and a token that names nothing.                                *)
Tokens == {"role-name", "meta.role-name", "latest", "latest[git]", "yaml[truthy]", "*", "other"}
MCCanonical == [t \in Tokens |-> IF t = "meta.role-name" THEN "role-name" ELSE t]

Fd(n, tag, rule, scoped) == [line |-> n, tag |-> tag, rule |-> rule, scoped |-> scoped]
MCFindings ==
  UNION {{Fd(n, "role-name", "role-name", FALSE), Fd(n, "latest[git]", "latest", FALSE),
          Fd(n, "latest[git]", "latest", TRUE), Fd(n, "yaml[truthy]", "yaml", FALSE)} : n \in 1 .. 10}

Task(first, last, block, skipTag) ==
  [first |-> first, last |-> last, header |-> IF block THEN 5 ELSE first,
   block |-> block, skipTag |-> skipTag]
Tasks(tagged) ==
  <<Task(3, 9, TRUE, FALSE), Task(6, 7, FALSE, tagged), Task(9, 9, FALSE, FALSE),
    Task(10, 10, FALSE, FALSE)>>

Texts(eighth) == [n \in 1 .. 10 |-> CASE n = 5 -> "comment" [] n = 8 -> eighth [] OTHER -> "content"]

File(texts, noqa, tasks, plays, metadata) ==
  [lines |-> [n \in 1 .. 10 |-> [text |-> texts[n], noqa |-> IF n \in DOMAIN noqa THEN noqa[n] ELSE {}]],
   tasks |-> tasks, plays |-> plays, metadata |-> metadata]

(* Comments on one or two lines, each with one token, or two on one line.  *)
Noqas(lines, tokens) ==
  UNION {[{m, n} -> {{t} : t \in tokens}] : m, n \in lines}
  \cup [{6} -> kSubset(2, tokens)] \cup {[n \in {} |-> {}]}

Playbooks(eighth, lines, tokens, tags) ==
  {File(Texts(eighth), noqa, Tasks(tagged), {1}, FALSE) : noqa \in Noqas(lines, tokens), tagged \in tags}
Metadata ==
  {File(Texts("comment"), noqa, <<>>, {}, TRUE) : noqa \in Noqas({1, 5, 6, 10}, Tokens)}

MCFiles ==
  Playbooks("comment", 1 .. 10, Tokens, {FALSE})
  \cup Playbooks("blank", {3, 5, 7, 9}, Tokens, {FALSE, TRUE})
  \cup Metadata

(* For the statements the code does not keep.                              *)
FewFiles == Playbooks("comment", {5, 6, 8, 9}, {"role-name", "latest[git]"}, {FALSE})
=============================================================================
