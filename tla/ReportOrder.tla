----------------------------- MODULE ReportOrder -----------------------------
(***************************************************************************)
(* The report pipeline under every order in which workers may append       *)
(* findings: lintRound appends whole files in whatever order they finish,  *)
(* and the output must not show it. Findings arrive one at a time, and a   *)
(* finding may overtake the one before it.                                 *)
(***************************************************************************)
EXTENDS Report

CONSTANTS
  Pool,            (* the findings that may arrive                         *)
  MaxArrivals,     (* bound: how many arrive                               *)
  SelectionPool,   (* the selections tried                                 *)
  IgnorePool       (* the ignore files tried                               *)

ASSUME ReportOrderAssumption ==
  /\ MaxArrivals \in Nat
  /\ Emitted(Pool)
  /\ SelectionPool \subseteq Selection
  /\ \A file \in IgnorePool : file \in [DOMAIN file -> BOOLEAN]

VARIABLES
  arrived,         (* what lintRound and lint have appended                *)
  selecting,       (* the selection in force                               *)
  ignoring,        (* the ignore file in force                             *)
  linted,          (* what lint returns for them                           *)
  final            (* what is printed for them                             *)

reportVars == <<arrived, selecting, ignoring, linted, final>>

ReportInit ==
  /\ arrived = <<>> /\ linted = <<>> /\ final = <<>>
  /\ selecting \in SelectionPool
  /\ ignoring \in IgnorePool

\* Mutants: the report deduplicated before it is sorted, or not sorted.
ReportDedupedFirst(fs) ==
  \E selected \in {Select(fs, selecting)} : \E deduped \in {Dedupe(selected)} :
    \E sorted \in {Sort(deduped)} :
      /\ linted' = sorted
      /\ \E applied \in {Apply(linted', ignoring)} : final' = Printed(applied)

ReportUnsorted(fs) ==
  \E selected \in {Select(fs, selecting)} :
    /\ linted' = Dedupe(selected)
    /\ \E applied \in {Apply(linted', ignoring)} : final' = Printed(applied)

\* The tail of lint, then what run does with the result. Each stage is bound
\* to a name before the next one reads it.
Report(fs) ==
  \E selected \in {Select(fs, selecting)} : \E sorted \in {Sort(selected)} :
    /\ linted' = Dedupe(sorted)
    /\ \E applied \in {Apply(linted', ignoring)} : final' = Printed(applied)

\* A rule reports a finding, an opt-in rule only when it runs.
Arrive ==
  /\ Len(arrived) < MaxArrivals
  /\ \E f \in Pool : Runs(f.rule, selecting) /\ arrived' = Append(arrived, f)
  /\ Report(arrived')
  /\ UNCHANGED <<selecting, ignoring>>

\* Another schedule: one worker appends before another.
Overtake ==
  /\ \E i \in 1 .. Len(arrived) - 1 :
       arrived' = [arrived EXCEPT ![i] = arrived[i + 1], ![i + 1] = arrived[i]]
  /\ Report(arrived')
  /\ UNCHANGED <<selecting, ignoring>>

ReportNext == Arrive \/ Overtake

ReportSpec == ReportInit /\ [][ReportNext]_reportVars

-----------------------------------------------------------------------------
\* Includes.Found: what a run records "is the same whatever order the round's
\* files arrive in"; so is what it prints.
ScheduleFree ==
  [][Overtake /\ TieFree(arrived) => final' = final]_reportVars

\* run: applying the ignore file after sorting and dedup "equals upstream's
\* mid-pipeline order", unless findings tie under the sort key: an entry that
\* drops one of them then leaves two equal neighbours.
MidPipelineTieFree ==
  TieFree(arrived) =>
  \E selected \in {Select(arrived, selecting)} : \E applied \in {Apply(selected, ignoring)} :
    \E sorted \in {Sort(applied)} : final = Printed(Dedupe(sorted))

\* include.go: "the duplicate findings that produces are removed by
\* rules.Dedupe"; finding.go: "Dedupe drops findings identical under the sort
\* key", as sorted(set(matches)) does: it drops neighbours, which is all of
\* them unless a finding that ties with them stands in between.
NoDuplicatesTieFree ==
  TieFree(arrived) => \A i, j \in DOMAIN final : i # j => ~Same(final[i], final[j])

\* EnabledRules "lists the rules a run under sel can report": a finding that
\* survives selection belongs to a declared rule.
ReportedIsEnabled ==
  \A k \in DOMAIN linted : linted[k].rule \in EnabledRules(selecting)

\* It does when enable_list names whole rules.
ReportedIsEnabledBare ==
  (\A id \in selecting.enable : id[2] = Bare) => ReportedIsEnabled

\* Select: "a repository can enable a rule and still silence one of its
\* subtags", "demoting a rule that is also skipped cannot resurrect it", and a
\* profile drops nothing that enable_list names.
SkipThenEnable ==
  /\ \A k \in DOMAIN linted : ~Named(selecting.skip, linted[k])
  /\ \A k \in DOMAIN arrived :
       Named(selecting.enable, arrived[k]) /\ ~Named(selecting.skip, arrived[k]) =>
         \E j \in DOMAIN linted : Same(linted[j], arrived[k])
=============================================================================
