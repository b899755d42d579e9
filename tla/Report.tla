-------------------------------- MODULE Report --------------------------------
(***************************************************************************)
(* From the findings of a run to what it prints: rules.Select, rules.Sort, *)
(* rules.Dedupe (internal/rules), ignore.Rules.Apply (internal/ignore) and *)
(* exitStatus (cmd/astl), and the rule list a report declares.             *)
(*                                                                         *)
(* A finding's path, rule and message are numbers standing for strings in  *)
(* byte order. A tag is a rule and a subtag, Bare when it has none; the    *)
(* ids of the lists are tags already in the upstream taxonomy.             *)
(***************************************************************************)
EXTENDS Loops, FiniteSets, Functions

CONSTANTS
  Rule,            (* rule ids, as numbers                                 *)
  Sub,             (* subtags, Bare among them                             *)
  Bare,            (* no subtag                                            *)
  OptIn            (* optIn: the rules that run only when named            *)

ASSUME ReportAssumption ==
  /\ Rule \subseteq Nat
  /\ Bare \in Sub
  /\ OptIn \subseteq Rule

Id == Rule \X Sub

\* A `.ansible-lint` selection. An unknown or absent profile restricts
\* nothing; all says that warn_list holds the wildcard.
Selection == [known   : BOOLEAN, profile : SUBSET Rule,
              enable  : SUBSET Id, skip : SUBSET Id,
              warn    : SUBSET Id, warnAll : BOOLEAN]

\* rules.Finding, up to what only the formats read.
FindingType == [path : Nat, line : Nat, col : Nat, rule : Rule, sub : Sub, msg : Nat,
                warning : BOOLEAN, ignored : BOOLEAN]

Tag(f) == <<f.rule, f.sub>>

\* What rules may report: no finding starts out ignored, and whether one starts
\* out a warning is a matter of its tag.
Emitted(fs) ==
  /\ fs \subseteq FindingType
  /\ \A f \in fs : ~f.ignored
  /\ \A f, g \in fs : Tag(f) = Tag(g) => f.warning = g.warning

\* A list names a finding by its tag or by its bare rule id.
Named(ids, f) == Tag(f) \in ids \/ <<f.rule, Bare>> \in ids

-----------------------------------------------------------------------------
InProfile(sel, rule) == sel.known => rule \in sel.profile

\* enabled: an opt-in rule looks for findings only when enable_list names
\* its bare id; every other rule always does.
Runs(rule, sel) == rule \in OptIn => <<rule, Bare>> \in sel.enable

\* Mutant: skip_list consulted only by rule id.
FilterByRule(fs, skip) == Keep(fs, {k \in DOMAIN fs : <<fs[k].rule, Bare>> \notin skip})

Filter(fs, skip) == Keep(fs, {k \in DOMAIN fs : ~Named(skip, fs[k])})

Selects(sel, f) == Named(sel.enable, f) \/ InProfile(sel, f.rule)

Demote(sel, f) ==
  IF sel.warnAll \/ Named(sel.warn, f) THEN [f EXCEPT !.warning = TRUE] ELSE f

\* The profile, then enable_list, then skip_list, then warn_list.
Select(fs, sel) ==
  LET left == Filter(fs, sel.skip)
      kept == Keep(left, {k \in DOMAIN left : Selects(sel, left[k])})
  IN [k \in DOMAIN kept |-> Demote(sel, kept[k])]

\* Mutant: enable_list not consulted.
EnabledByProfile(sel) ==
  {r \in Rule : <<r, Bare>> \notin sel.skip /\ InProfile(sel, r) /\ r \notin OptIn}

\* The bare rule ids a report declares this selection can report.
EnabledRules(sel) ==
  {r \in Rule : /\ <<r, Bare>> \notin sel.skip
                /\ \/ <<r, Bare>> \in sel.enable
                   \/ InProfile(sel, r) /\ r \notin OptIn}

-----------------------------------------------------------------------------
\* The sort key. An unset column, 0, sorts first.
SortKey(f) == <<f.path, f.line, f.rule, f.msg, IF f.col = 0 THEN -1 ELSE f.col>>

Less(a, b) ==
  LET ka == SortKey(a)  kb == SortKey(b)
  IN \E i \in DOMAIN ka : ka[i] < kb[i] /\ \A j \in 1 .. i - 1 : ka[j] = kb[j]

\* A stable sort by SortKey: a finding's place is how many are ahead of it.
Ahead(fs, i, j) == Less(fs[i], fs[j]) \/ (~Less(fs[j], fs[i]) /\ i < j)

Place(fs, j) == 1 + Cardinality({i \in DOMAIN fs : Ahead(fs, i, j)})

Sort(fs) == [k \in DOMAIN fs |-> fs[CHOOSE j \in DOMAIN fs : Place(fs, j) = k]]

\* What makes two findings one.
Same(f, g) == /\ f.path = g.path /\ f.line = g.line /\ f.col = g.col
              /\ f.msg = g.msg /\ Tag(f) = Tag(g)

\* Drops a finding that repeats the one before it.
Dedupe(fs) == Keep(fs, {k \in DOMAIN fs : k = 1 \/ ~Same(fs[k], fs[k - 1])})

\* An ignore file maps a path and a tag to whether the entry says skip.
IgnoreKey(f) == <<f.path, Tag(f)>>

Skipped(ignores, f) == IgnoreKey(f) \in DOMAIN ignores /\ ignores[IgnoreKey(f)]

Mark(ignores, f) ==
  IF IgnoreKey(f) \in DOMAIN ignores
  THEN [f EXCEPT !.ignored = TRUE, !.warning = TRUE] ELSE f

\* A skipped finding is dropped, any other one named is kept and marked.
Apply(fs, ignores) ==
  LET kept == Keep(fs, {k \in DOMAIN fs : ~Skipped(ignores, fs[k])})
  IN [k \in DOMAIN kept |-> Mark(ignores, kept[k])]

\* The block of ignored findings is printed ahead of the rest.
Printed(fs) ==
  Keep(fs, {k \in DOMAIN fs : fs[k].ignored}) \o Keep(fs, {k \in DOMAIN fs : ~fs[k].ignored})

\* Findings equal under the sort key are equal: no two tags share a line and
\* a message.
TieFree(fs) ==
  \A i, j \in DOMAIN fs : SortKey(fs[i]) = SortKey(fs[j]) => fs[i] = fs[j]

\* Mutant: violations looked at before unchecked files.
ExitByFindings(fs, unchecked) ==
  IF \E k \in DOMAIN fs : ~fs[k].warning THEN 2
  ELSE IF unchecked > 0 THEN 3 ELSE 0

ExitStatus(fs, unchecked) ==
  IF unchecked > 0 THEN 3
  ELSE IF \E k \in DOMAIN fs : ~fs[k].warning THEN 2 ELSE 0
=============================================================================
