-------------------------------- MODULE MCAstl --------------------------------
(***************************************************************************)
(* A small repository and the policies and ignore files it is run under.   *)
(* A playbook, a task list that it includes as handlers too, and a third   *)
(* file that only the task list names.                                     *)
(***************************************************************************)
EXTENDS Astl, TLC

CONSTANT Empty

MCKind == {"playbook", "tasks", "handlers", "yaml", "role", "pre_tasks", "post_tasks"}
MCRank == [playbook |-> 4, tasks |-> 6, handlers |-> 1, yaml |-> 7, role |-> 5,
           pre_tasks |-> 3, post_tasks |-> 2]
MCBefore(a, b) == a.abs < b.abs \/ (a.abs = b.abs /\ MCRank[a.kind] < MCRank[b.kind])

MCFile == 1 .. 3
MCWalk == <<[abs |-> 1, kind |-> "playbook"], [abs |-> 2, kind |-> "tasks"]>>
MCSize == <<3, 1, 0>>
Doc(err, play, names) == [err |-> err, playbook |-> play, names |-> names]
MCContent ==
  << Doc("none", TRUE, <<[to |-> 2, section |-> "handlers"]>>),
     Doc("none", FALSE, <<[to |-> 3, section |-> "own"]>>),
     Doc("none", FALSE, <<>>) >>

(* Rule 3 is opt-in, and findings of rule 2 start out as warnings.         *)
MCRule == 1 .. 3
MCSub == {"a", Empty}
MCOptIn == {3}

F(p, l, r, s) == [path |-> p, line |-> l, col |-> 0, rule |-> r, sub |-> s, msg |-> 1,
                  warning |-> (r = 2), ignored |-> FALSE]
Found1 == <<F(1, 2, 1, "a")>>
Found2 == <<F(2, 2, 1, "a"), F(2, 1, 2, Empty)>>
MCFinds ==
  << [k \in MCKind |-> Found1], [k \in MCKind |-> Found2],
     [k \in MCKind |-> <<>>] >>
MCFinding == UNION {{Found1[i] : i \in DOMAIN Found1}, {Found2[i] : i \in DOMAIN Found2}}

MCOption == [version : {FALSE}, format : {"pep8", "sarif"}, ids : {"upstream"}]
            \cup {[version |-> TRUE, format |-> "pep8", ids |-> "upstream"],
                  [version |-> FALSE, format |-> "bad", ids |-> "upstream"],
                  [version |-> FALSE, format |-> "pep8", ids |-> "bad"]}

Sel(prof, en, sk, wa, wild) ==
  [known |-> prof # {}, profile |-> prof, enable |-> en, skip |-> sk, warn |-> wa, warnAll |-> wild]
MCPolicy ==
  { Sel({}, {}, {}, {}, FALSE),
    Sel({2}, {<<1, "a">>}, {}, {}, FALSE),
    Sel({2}, {}, {}, {}, FALSE),
    Sel({}, {<<1, Empty>>}, {<<1, "a">>}, {<<1, "a">>}, TRUE),
    Sel({}, {}, {}, {<<1, Empty>>}, FALSE) }

MCIgnoreFile ==
  { (<<1, <<1, "a">>>> :> FALSE),
    (<<2, <<1, "a">>>> :> TRUE),
    (<<1, <<1, "a">>>> :> FALSE @@ <<2, <<1, "a">>>> :> FALSE),
    (<<2, <<1, Empty>>>> :> TRUE) }
=============================================================================
