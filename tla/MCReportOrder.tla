---------------------------- MODULE MCReportOrder ----------------------------
(***************************************************************************)
(* Findings of three rules, the third opt-in; rule 1 has two subtags whose *)
(* findings on one line tie, as latest[git] and latest[hg] do.             *)
(***************************************************************************)
EXTENDS ReportOrder, TLC

CONSTANT Empty

F(p, l, c, r, s) == [path |-> p, line |-> l, col |-> c, rule |-> r, sub |-> s, msg |-> 1,
                     warning |-> (r = 2), ignored |-> FALSE]

MCRule == 1 .. 3
MCSub == {"git", "hg", Empty}
MCOptIn == {3}

MCPool == {F(1, 1, 0, 1, "git"), F(1, 1, 0, 1, "hg"), F(1, 1, 4, 2, Empty), F(2, 1, 0, 3, Empty),
           F(2, 1, 0, 1, "git")}

Sel(prof, en, sk, wa, wild) ==
  [known |-> prof # {}, profile |-> prof, enable |-> en, skip |-> sk, warn |-> wa, warnAll |-> wild]

MCPolicy ==
  { Sel({}, {}, {}, {}, FALSE),
    Sel({2}, {<<1, "git">>, <<3, Empty>>}, {}, {<<1, Empty>>}, FALSE),
    Sel({2, 3}, {<<1, Empty>>}, {<<1, "hg">>}, {<<1, "git">>}, FALSE),
    Sel({}, {<<3, Empty>>}, {<<2, Empty>>, <<3, Empty>>}, {<<2, Empty>>}, TRUE) }

MCIgnoreFile ==
  { <<>>,
    (<<1, <<1, "hg">>>> :> TRUE),
    (<<1, <<1, "git">>>> :> FALSE @@ <<2, <<1, "git">>>> :> TRUE),
    (<<1, <<1, Empty>>>> :> TRUE) }
=============================================================================
