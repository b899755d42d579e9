----------------------------- MODULE MCLintRounds -----------------------------
(***************************************************************************)
(* Small file trees for LintRounds. Files are numbers in path order and    *)
(* findings are numbers, the file times ten and an index.                  *)
(***************************************************************************)
EXTENDS LintRounds

Name(f, s) == [to |-> f, section |-> s]
Doc(err, play, names) == [err |-> err, playbook |-> play, names |-> names]
It(f, k) == [abs |-> f, kind |-> k]

KindRank == [playbook |-> 3, tasks |-> 6, handlers |-> 2, yaml |-> 7, role |-> 5,
             pre_tasks |-> 4, post_tasks |-> 8, jinja2 |-> 1]
MCKind == DOMAIN KindRank

MCBefore(a, b) ==
  a.abs < b.abs \/ (a.abs = b.abs /\ KindRank[a.kind] < KindRank[b.kind])

MCFinding == {10 * f + n : f \in 1 .. 8, n \in 0 .. 1}
Plain(f) == [k \in MCKind |-> IF k = "role" THEN <<>> ELSE <<10 * f>>]

(* Two playbooks share a task list, which names itself, a broken file the  *)
(* first playbook also runs as handlers, a file that is not there, one     *)
(* outside the project and an excluded one. The second playbook is walked  *)
(* as yaml, is a stream of documents, is over the budget, and is imported  *)
(* by the first one too. The template is no YAML and need not be, and the  *)
(* role directory weighs nothing.                                          *)
SharedFile == 1 .. 8
SharedWalk == <<It(1, "playbook"), It(2, "yaml"), It(5, "jinja2"), It(8, "role")>>
SharedSize == <<3, 6, 2, 0, 1, 1, 1, 0>>
SharedContent ==
  << Doc("none", TRUE, <<Name(3, "tasks"), Name(4, "handlers")>>),
     Doc("multidoc", TRUE, <<Name(3, "tasks"), Name(2, Own)>>),
     Doc("none", FALSE, <<Name(4, Own), Name(3, Own), Name(Missing, Own), Name(6, Own), Name(7, Own)>>),
     Doc("unreadable", FALSE, <<>>),
     Doc("invalid", FALSE, <<>>),
     Doc("none", FALSE, <<>>), Doc("none", FALSE, <<>>), Doc("none", FALSE, <<>>) >>
SharedFinds == << Plain(1), Plain(2), Plain(3), [k \in MCKind |-> <<>>],
                  [k \in MCKind |-> <<50, 51, 50>>], Plain(6), Plain(7),
                  [k \in MCKind |-> <<80, 81>>] >>
SharedInside == SharedFile \ {6}
SharedExcluded == {7}

(* A chain of task lists, each naming the next, one longer than the rounds *)
(* of maxIncludeRounds reach.                                              *)
ChainFile == 1 .. 34
ChainWalk == <<It(1, "tasks")>>
ChainSize == [f \in ChainFile |-> 1]
ChainContent ==
  [f \in ChainFile |->
     Doc("none", FALSE, IF f = 34 THEN <<>> ELSE <<Name(f + 1, Own)>>)]
ChainFinds == [f \in ChainFile |-> [k \in MCKind |-> <<>>]]
ChainInside == ChainFile
ChainExcluded == {}
=============================================================================
