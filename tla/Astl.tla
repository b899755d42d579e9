--------------------------------- MODULE Astl ---------------------------------
(***************************************************************************)
(* A whole run of the command line, from its arguments to its exit code:   *)
(* run, lint's prologue and epilogue, emit (cmd/astl/main.go), composed    *)
(* with the parallel engine (LintRounds) and the report pipeline (Report). *)
(*                                                                         *)
(* Everything outside the process is chosen by the environment when the    *)
(* code asks for it: the arguments, whether the configuration, the ignore  *)
(* file, the walk and the yamllint configuration can be read, how many     *)
(* soft errors the walk meets, and whether stdout takes what is written.   *)
(***************************************************************************)
EXTENDS LintRounds, Report

CONSTANTS
  Option,          (* parsed command lines, see OptionType                 *)
  Policy,          (* the selections a `.ansible-lint` may give            *)
  IgnoreFile,      (* what ignore.Load may return                          *)
  MaxSoft          (* bound: soft errors of the walk                       *)

OptionType == [version : BOOLEAN, format : {"pep8", "sarif", "bad"},
               ids : {"upstream", "native", "bad"}]

ASSUME AstlAssumption ==
  /\ Option \subseteq OptionType
  /\ Policy \subseteq Selection
  /\ Emitted(Finding)
  /\ \A file \in IgnoreFile : file \in [DOMAIN file -> BOOLEAN]
  /\ MaxSoft \in Nat

VARIABLES
  stage,           (* the step of run the main goroutine is at             *)
  opts,            (* the parsed command line                              *)
  sel,             (* the selection in force                               *)
  ignores,         (* the ignore file in force                             *)
  report,          (* the findings once lint has returned                  *)
  stdout,          (* the findings written so far                          *)
  broken,          (* stdout refused a write                               *)
  exit             (* the exit code, None while running                    *)

None == -1

\* No configuration: nothing is enabled, skipped or demoted.
NoPolicy == [known |-> FALSE, profile |-> {}, enable |-> {}, skip |-> {},
             warn |-> {}, warnAll |-> FALSE]

runVars == <<opts, sel, ignores, report, stdout, broken, exit>>
astlVars == <<stage, runVars, lintVars>>

exitClean == 0
exitError == 1
exitViolations == 2
exitIncomplete == 3

AstlInit ==
  /\ LintInit(0)
  /\ stage = "args"
  /\ opts \in Option
  /\ sel = NoPolicy
  /\ ignores = <<>>
  /\ report = <<>> /\ stdout = <<>>
  /\ broken = FALSE
  /\ exit = None

-----------------------------------------------------------------------------
Exit(code) ==
  /\ stage' = "exited"
  /\ exit' = code

\* parseArgs: a flag that does not parse, or no path, ends the run.
ParseArgs ==
  /\ stage = "args"
  /\ \/ Exit(exitError)
     \/ stage' = (IF opts.version THEN "version" ELSE "config") /\ UNCHANGED exit
  /\ UNCHANGED <<opts, sel, ignores, report, stdout, broken, lintVars>>

\* -version prints one line and needs nothing else.
Version ==
  /\ stage = "version"
  /\ broken' \in BOOLEAN
  /\ Exit(IF broken' THEN exitError ELSE exitClean)
  /\ UNCHANGED <<opts, sel, ignores, report, stdout, lintVars>>

\* loadConfig: a named file that is missing, or any that is malformed, is fatal.
LoadConfig ==
  /\ stage = "config"
  /\ \/ Exit(exitError) /\ UNCHANGED sel
     \/ sel' \in Policy \cup {NoPolicy} /\ stage' = "ignores" /\ UNCHANGED exit
  /\ UNCHANGED <<opts, ignores, report, stdout, broken, lintVars>>

\* loadIgnores: a missing file is no ignore file, a malformed one is fatal.
LoadIgnores ==
  /\ stage = "ignores"
  /\ \/ Exit(exitError) /\ UNCHANGED ignores
     \/ ignores' \in IgnoreFile \cup {<<>>} /\ stage' = "walk" /\ UNCHANGED exit
  /\ UNCHANGED <<opts, sel, report, stdout, broken, lintVars>>

\* The head of lint: the walk's soft errors are counted, then a fatal one ends
\* the run.
Discover ==
  /\ stage = "walk"
  /\ \/ Exit(exitError) /\ UNCHANGED lintVars
     \/ /\ \E soft \in 0 .. MaxSoft : unchecked' = unchecked + soft
        /\ stage' = "options"
        /\ UNCHANGED <<exit, sized, round, roundVars, all, semVars, incVars>>
  /\ UNCHANGED <<opts, sel, ignores, report, stdout, broken>>

\* ruleOptions: the yamllint configuration.
RuleOptions ==
  /\ stage = "options"
  /\ \/ Exit(exitError)
     \/ stage' = "lint" /\ UNCHANGED exit
  /\ UNCHANGED <<opts, sel, ignores, report, stdout, broken, lintVars>>

\* The rounds.
Lint ==
  /\ stage = "lint"
  /\ LintNext
  /\ UNCHANGED <<stage, runVars>>

\* Mutant: the report deduplicated before it is sorted.
CollectUnsorted ==
  /\ stage = "lint" /\ LintDone
  /\ \E selected \in {Select(all, sel)} : \E deduped \in {Dedupe(selected)} :
       report' = Sort(deduped)
  /\ stage' = "apply"
  /\ UNCHANGED <<opts, sel, ignores, stdout, broken, exit, lintVars>>

\* The tail of lint.
Collect ==
  /\ stage = "lint" /\ LintDone
  /\ \E selected \in {Select(all, sel)} : \E sorted \in {Sort(selected)} :
       report' = Dedupe(sorted)
  /\ stage' = "apply"
  /\ UNCHANGED <<opts, sel, ignores, stdout, broken, exit, lintVars>>

ApplyIgnores ==
  /\ stage = "apply"
  /\ report' = Apply(report, ignores)
  /\ stage' = "emit"
  /\ UNCHANGED <<opts, sel, ignores, stdout, broken, exit, lintVars>>

\* The order of the lines: pep8 prints the ignored block first.
Lines == IF opts.format = "pep8" THEN Printed(report) ELSE report

\* Mutant: a report written before its taxonomy and format are looked at.

EmitFirst ==
  /\ stage = "emit"
  /\ stdout' = Lines
  /\ IF opts.ids = "bad" \/ opts.format = "bad"
     THEN Exit(exitError) ELSE stage' = "status" /\ UNCHANGED exit
  /\ UNCHANGED <<opts, sel, ignores, report, broken, lintVars>>

\* emit: the taxonomy and the format are looked at only now. A buffered
\* writer may have passed on part of the report when stdout fails.
Emit ==
  /\ stage = "emit"
  /\ \/ /\ opts.ids = "bad" \/ opts.format = "bad"
        /\ Exit(exitError)
        /\ UNCHANGED <<stdout, broken>>
     \/ /\ opts.ids # "bad" /\ opts.format # "bad"
        /\ \/ /\ stdout' = Lines
              /\ stage' = "status"
              /\ UNCHANGED <<broken, exit>>
           \/ /\ \E n \in 0 .. Len(Lines) : stdout' = SubSeq(Lines, 1, n)
              /\ broken' = TRUE
              /\ Exit(exitError)
  /\ UNCHANGED <<opts, sel, ignores, report, lintVars>>

\* exitStatus, over the findings already printed.
Status ==
  /\ stage = "status"
  /\ Exit(ExitStatus(report, unchecked))
  /\ UNCHANGED <<opts, sel, ignores, report, stdout, broken, lintVars>>

Exited == stage = "exited" /\ UNCHANGED astlVars

Step ==
  \/ ParseArgs \/ Version \/ LoadConfig \/ LoadIgnores \/ Discover \/ RuleOptions
  \/ Lint \/ Collect \/ ApplyIgnores \/ Emit \/ Status

AstlNext == Step \/ Exited

\* Some goroutine that can run does. No goroutine of a run can run forever
\* while another waits, so nothing stronger is needed.
AstlSpec == AstlInit /\ [][AstlNext]_astlVars /\ WF_astlVars(Step)

-----------------------------------------------------------------------------
(* What a run promises its caller.                                         *)

Raw == UNION {Range(Findings(i)) : i \in Reachable}

\* What the selection and the ignore file leave of one finding, and the level
\* they leave it at.
Reported(f) ==
  ~Named(sel.skip, f) /\ Selects(sel, f) /\ ~Skipped(ignores, f)

Level(f) ==
  LET ign == IgnoreKey(f) \in DOMAIN ignores
  IN [f EXCEPT !.warning = @ \/ sel.warnAll \/ Named(sel.warn, f) \/ ign, !.ignored = ign]

AstlTypeOK ==
  /\ TypeOK
  /\ stage \in {"args", "version", "config", "ignores", "walk", "options", "lint",
                "apply", "emit", "status", "exited"}
  /\ opts \in Option /\ sel \in Policy \cup {NoPolicy}
  /\ exit \in {None, exitClean, exitError, exitViolations, exitIncomplete}
  /\ (exit = None) = (stage # "exited")

\* exit-codes.md, 0: a clean exit means that every lintable the run can reach
\* was checked and that nothing the policy reports at error level was found in
\* any of them, whatever the schedule.
CleanMeansChecked ==
  exit = exitClean /\ ~opts.version =>
    /\ unchecked = 0
    /\ \A i \in Reachable : ~Failure(i)
    /\ \A f \in Raw : Reported(f) => Level(f).warning

\* exit-codes.md, "Why exit code 3 exists": 3 tells exactly the runs that
\* completed with a file they could not check, it takes precedence over 2, and
\* the findings of the files around it are still written.
IncompleteStillReports ==
  stage = "exited" /\ exit # exitError /\ ~opts.version =>
    /\ (exit = exitIncomplete) = (unchecked > 0)
    /\ Range(stdout) = {Level(f) : f \in {g \in Raw : Reported(g)}}

\* The exit code tells the caller what the run found and what it missed
\* (exit-codes.md).
ExitCodeIsHonest == CleanMeansChecked /\ IncompleteStillReports

\* A completed report is sorted, with the block the ignore file marked first
\* under pep8 (format.PEP8), and names each finding once unless findings tie
\* under the sort key (rules.Dedupe).
ReportInOrder ==
  stage = "status" =>
    \A j, k \in DOMAIN stdout : j < k =>
      /\ TieFree(all) => ~Same(stdout[j], stdout[k])
      /\ IF opts.format = "pep8" /\ stdout[j].ignored # stdout[k].ignored
         THEN stdout[j].ignored ELSE ~Less(stdout[k], stdout[j])

\* An exit of 1 wrote no report that reads as whole: only a write that failed
\* part way leaves findings on stdout.
ErrorsPrintNothing ==
  stage = "exited" /\ exit = exitError => stdout = <<>> \/ broken

\* Every run ends with an exit code.
EventuallyExits == <>(stage = "exited")
=============================================================================
