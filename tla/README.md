# astl in TLA+

`astl` (ansible-static-lint) is a command-line linter for Ansible content that
reproduces ansible-lint's findings without an Ansible runtime. This directory
holds TLA+ models of its control: the modules, the TLC configurations that
check them on small instances, and proofs that hold for every instance.

    tlc -workers 2 -config Lint_shared.cfg MCLintRounds     one run
    tlapm AstlProofs.tla                                    proofs: the engine, a whole run
    tlapm ReportProofs.tla                                  the report pipeline
    tlapm SuppressProofs.tla
    tlapm YamllintProofs.tla
    tlapm DiscoveryProofs.tla
    tlapm YamlScanProofs.tla                                the scanner
    tlapm YamlIndentProofs.tla                              its order, the indentation rule
    tlapm SumProofs.tla                                     lemmas about loops and sums

## 1. The system

One process, one run: read the policy, find the files, lint them in parallel
rounds, select and order the findings, print them, exit with a verdict.

    main -> run -> parseArgs
                -> loadConfig, loadIgnores           (policy)
                -> lint -> WalkWithin                (discovery)
                        -> ruleOptions               (yamllint configuration)
                        -> rounds: lintRound -> goroutine per item:
                             semaphore.Acquire
                             parse.Load -> Includes.Found -> admit
                             rules.File -> yamllint, rule passes, applySkips
                             counts and findings under the round's mutex
                             semaphore.Release
                           Includes.Next
                        -> Select, Sort, Dedupe
                -> ignore.Apply -> emit -> exitStatus

### Components

| component | source | state it keeps | operations | what makes it correct |
|---|---|---|---|---|
| run driver | `cmd/astl/main.go` | options, selection, ignores, findings, unchecked count | `run`, `parseArgs`, `loadConfig`, `loadIgnores`, `emit`, `exitStatus` | exit 0 only when everything reachable was checked and nothing at error level was found; 3 outranks 2; an error prints no report |
| parallel rounds | `lint`, `lintRound`, `lintItem` | findings and failures of the round and in all, the round, goroutines, semaphore | start, acquire, load, record includes, count, append, release, wait | nothing lost, nothing twice, memory budget kept, always ends, output free of the schedule |
| include resolver | `internal/discover/include.go` | `seen`, `next`, `round` | `NewIncludes`, `Found`, `admit`, `Next` | each (file, kind) once; a round is the include distance; closed under includes within the bound |
| file loading | `internal/parse/file.go` | none | `Load`, `LoadBytes`, promotion of yaml to playbook | the loaded kind decides what is scanned and linted |
| selection and order | `internal/rules/run.go`, `finding.go`, `options.go`, `profiles.go` | none | `Select`, `Filter`, `EnabledRules`, `Sort`, `Dedupe` | list precedence; each finding printed once, in an order no schedule shows |
| inline suppression | `internal/parse/noqa.go`, `rules/run.go` | skips per line, per task, per file | `parseNoqa`, `applySkips` | a comment silences its line, its task or the next line, and nothing else |
| ignore file | `internal/ignore` | entries | `Load`, `parse`, `Apply` | marked findings stay, skipped ones go, malformed files are refused |
| discovery | `internal/discover/discover.go`, `glob.go` | seen, items, soft errors, `.gitignore` specs | `WalkWithin`, `visit`, `add`, `KindOf` | finds what is there, whatever the order of the roots; confined to the project; one item per resolved file; what it could not look at is a soft error |
| project root | `internal/discover/project.go` | none | `ProjectRoot` | the nearest marked directory above every argument |
| configuration | `internal/config` | none | `Find`, `Load`, `LoadFile` | first file name wins; a named file must exist |
| bounded reads | `internal/safeio` | none | `ReadFile` | only regular files, never more than the limit |
| yamllint linter | `internal/yamllint/yamllint.go`, `lines.go`, `comments.go` | problem cache, three directives, pool of linters | `onToken`, `onComment`, `onLine`, `reset` | a directive silences its scope only; nothing leaks from file to file |
| yamllint configuration | `load.go`, `config.go`, `ignore.go`, `pathspec.go` | rule options | `Load`, `extend`, `ForFile` | extends terminates; a file's scope never changes the shared configuration |
| yamllint token rules | `tokens.go`, `indentation.go` | stacks per document | `check`, `resetState` | stacks follow the nesting of every well-formed stream; a line is judged once; silence means the layout is as configured |
| YAML scanner | `internal/yamlscan` | indents, simple keys, flow level, token queue | `Next` | tokens nest and come out in order; keys are inserted where they started; nothing is skipped; every call answers |
| report formats | `internal/format` | none | `PEP8`, `SARIF`, `renderBB` | ignored findings first under pep8 |
| rules | `internal/rules/*.go` | none | predicates over a file | outside these models |

The components interact by calls inside one process. The only concurrency is
the goroutines of a round, which share the include resolver (its mutex), the
semaphore, the round's totals (its mutex) and the pool of yamllint linters.
Nothing is persisted and there are no timeouts; failure means a file, a
directory, a configuration or stdout that cannot be read or written.

The behaviours that are hard to test, each with its line and the properties
that watch it, are the `hazards` of `PROJECT.json`.

## 2. Modules

| module | models | checked by |
|---|---|---|
| `Semaphore` | `x/sync/semaphore.Weighted`, a library, as `lintRound` uses it | through `LintRounds` |
| `Includes` | `discover.Includes` | through `LintRounds` |
| `LintRounds` | `lint`'s loop, `lintRound`, `lintItem`, `loadFailure` | `MCLintRounds` |
| `IncludeRounds` | what the resolver promises: rounds that happen at once | refined by `LintRounds` |
| `Loops` | the loop that appends what it keeps of a slice, as a recursive function | through those that use it |
| `SumProofs` | lemmas: induction on numbers and on sets, loops, sums | TLAPS |
| `Report` | `Select` to `exitStatus`, as operators | through the next two |
| `ReportOrder` | the report under every order in which findings arrive | `MCReportOrder` |
| `ReportProofs` | lemmas about `Report`, theorems about `ReportOrder` | TLAPS |
| `Astl` | a whole run: `LintRounds` and `Report` composed under `run` | `MCAstl` |
| `AstlProofs` | theorems about `LintRounds` and `Astl` | TLAPS |
| `YamlTokens` | a text as tokens and comments; `forEachCommentBetween`, the comment rules | through the next three |
| `YamllintRules` | the token rules that keep state: anchors, key-duplicates, truthy | through the next two |
| `YamllintPass` | `cosmeticProblems`, `linter`, `tokenRing`, `directive`, `linterPool` | `MCYamllintPass` |
| `YamlProblems` | what a lint of a text promises, with no pass, cache or pool | refined by `YamllintPass` |
| `YamllintProofs` | theorems about `YamllintPass` | TLAPS |
| `Suppress` | `parseNoqa`, `taskSkipRanges`, `applySkips` | `MCSuppress` |
| `SuppressProofs` | theorems about `Suppress` | TLAPS |
| `FileTree` | the operating system: `Lstat`, `Stat`, `EvalSymlinks`, `ReadDir`, `Open` | through `Discovery` |
| `PathSpec` | pattern lists: `exclude_paths`, `.gitignore`, yamllint's `ignore:` | through `Discovery` |
| `KindTable` | `kindTable`, `KindOf` | through `Discovery` |
| `ProjectRoot` | `ProjectRoot`, `config.Find` | through `Discovery` |
| `Discovery` | `WalkWithin`, `visit`, `visitDir`, `add`, the start of `run` | `MCDiscovery` |
| `DiscoveryProofs` | theorems about `Discovery` and `PathSpec` | TLAPS |
| `YamlLex` | the characters and scalars of `scannerc.go`: how far each token reaches | through `YamlScan` |
| `YamlScan` | the token queue, simple keys, indents and flow level; `Scanner.Next` | `MCYamlIndent`, `MCYamlLine` |
| `TokenStream` | what the scanner promises its callers | refined by `YamlScan` |
| `YamlGrammar` | which token streams are YAML | through `YamlIndent` |
| `YamlIndent` | the indentation rule reading the scanner's stream | `MCYamlIndent` |
| `YamlScanProofs` | theorems about `YamlScan` | TLAPS |
| `YamlIndentProofs` | theorems about `YamlScan`'s order and about `YamlIndent` | TLAPS |

### LintRounds, Includes, Semaphore

An *item* is a resolved file and the kind it is linted under; the same file
under two kinds is two items, as in the code's `abs + "\x00" + kind` key. A
goroutine is its place in the round, and `pc[g]` follows the closure of
`lintRound`:

    unborn -> acquire -> (queued ->) load -> admit* -> (fail ->) (append ->) release -> notify -> done

Each label ends where the code takes or gives up a lock, so every interleaving
that two goroutines can observe is explored: `Acquire`, one `admit` per target,
the two critical sections of the round's mutex, and `Release`. The library's
`Release` wakes waiters one by one while it holds its mutex; `notifying` is
that mutex held. `Spawn` is `g.Go`, which blocks while `NumCPU` goroutines run.
`EndRound` is `g.Wait` returning, the totals, `Includes.Next`, and the start of
the next round with a fresh semaphore.

A file's content is data: `Content[f]` says how the file parses and which
files it names, with the play section that names each. That is what
`mayBeScanned`, the promotion of `LoadBytes`, `seqTargets` and `nestedKind`
tell apart. A name resolves to a file, or to `Missing`; `resolveInclude`'s
search up the tree and the textual rules of `includedFile` decide which, and
are not modelled. Paths are numbers in path order.

### Report, ReportOrder

Findings are records with numbers for path, rule and message. A tag is a rule
and a subtag. `Sort` is a stable sort by the code's key, which has the rule and
not the subtag; `Dedupe` compares neighbours and does look at the subtag: the
two keys differ, which is what `TieFree` is about.

`ReportOrder` feeds findings into the pipeline one at a time and lets a finding
overtake its neighbour, so a step compares two schedules of the same findings.

### Astl

`stage` is the line of `run` the main goroutine is at. What is outside the
process (arguments, readable or malformed files, soft errors, stdout) is chosen
when the code asks. `lint`'s rounds are the actions of `LintRounds` while
`stage = "lint"`.

### YamllintPass, YamllintRules, YamlTokens, YamlProblems

A worker lints one file at a time: it takes a linter from the pool or builds
one (`GetPooled`, `GetNew`), walks the tokens (`Advance`, `Token`,
`NextToken`), the comments behind each (`Comment`) and, strictly by line
number, the lines that end before either (`EndLine`), detaches the result and
pools the linter (`Detach`, `Put`). The labels of `pc` are the points at which
`cosmeticProblems` calls into the linter; the pool is the only thing two
workers share, so a finer grain would show nothing more. The ring is the
code's: four slots, an index modulo 4, a count of tokens loaded.

A text is what the scanner makes of it: tokens with marks, comments with the
directive they spell, if any, and the offences the stateless line rules find. Marks are
single numbers, 100 per line. Its YAML is not modelled: `MCYamllintPass` writes
out the tokens of each text beside the text.

`YamlProblems` says what a lint reports with no pass at all: the problems of a
text are a set, each with the line at whose end it is decided, and a directive
covers a line when it is inline there, stands on the line before, or is a
block directive not yet taken back. `KeepsPromise` is the refinement: when a
pass ends its result is that set, with nothing lost, doubled, or left over from
another file.

### Suppress

A file is a sequence of lines, each blank, content or comment, with the tokens
of its noqa comment; its tasks are line ranges with the last line of a block's
header. `RecordNoqa` is one call of `recordNoqa`, `CoverTask` one turn of
`taskSkipRanges`' loop, `ApplySkips` the filter. `DropsTheSilenced` compares
what is left with a reading of the comments that has no passes in it.

### Discovery, FileTree, PathSpec, KindTable, ProjectRoot

A *world* is a file tree, a working directory, the paths of the command line,
the file `-c` names, the exclusions, and the paths that may vanish. A path is
the sequence of its names; a node of the tree is a file, directory, link or
device with the permissions `list`, `enter` and `read`. `FileTree` says what
the operating system answers; everything above it is the program's.

`agenda` is where `filepath.WalkDir` stands: entries to come, depth first, each
with the type the listing of its directory gave. One step visits one entry:

    Begin -> NextRoot -> EnterRoot -> (VisitDir -> ListDir | VisitFile | VisitExcluded)* -> ... -> Finish

`VisitDir` is `visitDir` (the role check and `loadGitignore`), `ListDir` the
`ReadDir` that follows it and whose failure comes back to `visit`. `Vanish`
removes one path between any two steps, which is where a listing goes stale:
`regularSize` and `resolveLink` look again, and find less.

A pattern is kept as its segments and three flags, a segment as the set of
names it matches; `*` matches the empty name too, as `[^/]*` does. A kind row
stands for its braces multiplied out. The text of patterns and globs, classes
and escapes are left out.

`FindsWhatIsThere` is the specification of the walk: the files and roles that a
declarative reading of the tree, the exclusions and the roots gives. When a path
vanishes, every way to them (`Ways`: the root, the entry, what it leads to) that
both trees give must be found, and nothing that neither gives.
`SilentMeansWhole` compares with the same tree under every permission: no soft
error, nothing missed. Its premise leaves out links that cannot be resolved for
want of a permission (see "Also seen").

### YamlLex, YamlScan, TokenStream

A text is a sequence of one-character symbols, its positions are indices, and
an operator of `YamlLex` says where a scan stops. `parser` is `yaml_parser_t`
between two fetches: `Call` is a call of `Next`, `Fetch` one turn of
`yaml_parser_fetch_more_tokens`, `Return` the head of the queue handed out,
`LoseHead` a required key that went stale, `Fail` the error that ends a stream.
The queue keeps what was handed out, so that an insertion behind its head
(`HandedOutStays`) would show. `keys` has one candidate for each flow level and
`byTok` is `simple_keys_by_tok` with its entries left behind.

`TokenStream` promises that blocks nest and open to the right of the block
around them, that entries and explicit keys stand in the column of their block,
that no block begins inside a flow collection, and that the stream ends with
every block closed. `KeepsNesting` is the refinement, token by token, for every
text: broken ones too.

The values of tokens, the reader's buffers and encodings, and the text of
comments are left out: a text is decoded characters.

### YamlIndent, YamlGrammar

The indentation rule sees a token when the two behind it are there. `rule.stack`
is its stack of parents, `Judge` the check of a line's first token, `Open` and
`Close` what a token opens and ends, both by the next token that `PastProperty`
leaves (a value's anchor or tag alone on the key's line is passed over), `Unstack` one turn of the loop that takes
parents off (a turn takes one or ends it, so the stack's length bounds the
turns); an assertion of the code is an entry
"cannot infer indentation". The scanner is lenient and nothing behind it
parses, so what the rule owes is stated for streams that are YAML: that is
`YamlGrammar`, with a KEY for every VALUE and a node for every entry of a
sequence that opens no block. `check-multi-line-strings` is not modelled.

## 3. Runs

| run | result | what it shows |
|---|---|---|
| `lint_shared` | pass, 2,924 states | two playbooks share a task list that includes itself, a broken file is included as tasks and as handlers, a yaml file that is over the budget is promoted to playbook and imported again, a name has no file, one is outside the project, one is excluded; a template and a role beside them; 3 workers, budget 4. `TypeOK`, the inductive invariant `Inv`, `BytesInFlight`, `EachItemOnce`, `FixpointWithinBound`, `NothingLost`, refinement of `IncludeRounds`, `Termination` |
| `lint_chain` | violation | a chain of 34 includes against the bound of 32 |
| `astl_whole` | pass, 32,349 | whole runs over a readable tree: every policy, ignore file and failure of the environment. `ExitCodeIsHonest`, `ReportInOrder`, `ErrorsPrintNothing`, `EventuallyExits` |
| `report_order` | pass, 8,976 | 4 arrivals from a pool of 5 findings, two of which tie; 4 policies, 4 ignore files. `ScheduleFree` and what must hold for the output to hide the schedule |
| `report_enabled` | violation | a reported rule that is not declared enabled |
| `yamllint` | pass, about 491,000 | two workers, three files: 582 texts alone (a flat mapping with any three of eight directives on its comments, two documents likewise, texts that leave state behind), and files that follow each other through the pool under one or two configurations. `TypeOK`, `WindowIsStream`, `LinterIsOwned`, `KeepsPromise` |
| `suppress_files` | pass, 58,532 | 3,329 files: a playbook with a block, and the same text as metadata, with noqa comments on up to two lines. `DropsTheSilenced`, `TaskIsFence` |
| `suppress_siblings` | violation | a noqa comment line between `block:` and its first child |
| `discovery` | pass, 69,555 | 3,692 worlds: permissions of two directories, links and devices, lists of exclusions over nested roles, project markers and configuration files, overlapping roots, a path that vanishes, alone or with what a pattern list is linked to. `FindsWhatIsThere`, `EachFileOnce`, `SilentMeansWhole`, `RootsInside` |
| `discovery_git` | violation | `roles/*` with `!roles/y.yml` behind it |
| `yaml_scan` | pass, 1,694,024 | the scanner and the indentation rule over every text put together from five layout pieces, five of anchored values, four of flow collections, or three of every kind of token, under four settings of the rule: eleven properties of tokens, keys, nesting and judged lines |
| `yaml_line` | violation | seven lines scanned on their own, as line-length does |

### Bounds

`MaxIncludeRounds` is the code's 32 in every run; only `lint_chain` reaches it.
`Budget` is 4 bytes where the code has 4 MiB: sizes are chosen below, at and
above it, and unknown (0). Three workers on a round of four items are enough
for a worker to be starting, one to be queued behind another, one to be
releasing, and one to wait for the errgroup's limit; `astl_whole` uses two.
Two goroutines that race for one child need two parents naming it in one
round, which `lint_shared` has, and the race for one that a finished round
already holds, which it has too. `MaxSoft` is 1 because only zero or not
matters. Four arrivals are the fewest that let two equal findings be separated
by a third under a tie and still leave one finding elsewhere. Texts of the
yamllint run have up to eleven lines and 33 tokens, enough for the ring to
wrap, for one or two documents and for a directive to be on, before and behind
the line of a problem; three files are the fewest in which a linter is built,
pooled and handed on while another is in use. Two commented lines let one
comment override, join or miss another; ten lines hold a play, a block with two
children and a task outside it.

The worlds of `discovery` vary one thing at a time, in six families, so that
what varies meets all the rest: `MCDiscovery` names them. One path vanishes in a
walk, between any two of its steps; what two do together is not explored. `MaxLinks` is 3
where Linux gives up at 40 and `filepath.EvalSymlinks` at 255: a chain either
ends or runs in a circle, and no tree has a longer one.

In `yaml_scan` the limit for a key is 4 characters, for the look-ahead 6, for
flow levels 2 and for indents 3 (in the code 1024, 512, 10000 and 10000), so
that texts of four and five pieces go beyond each. `yaml_line` has the code's
values.

The arrivals of `ReportOrder` are bounded, so its configurations switch
deadlock checking off; every other run checks for deadlock, with a finished run
stuttering explicitly.

### Fairness

`LintRounds` assumes weak fairness of starting goroutines, of ending a round
and of each goroutine: the Go scheduler runs what can run, and the semaphore is
first come first served. No strong fairness is needed: nothing that is enabled
in a goroutine can be disabled for ever by another. `Astl` needs only that some
step that can be taken is taken, because no goroutine can run for ever.
`YamlScan` assumes the same: it is one sequential call, which goes on until it
returns. `YamllintPass`, `Suppress`, `ReportOrder` and `Discovery` state no
liveness and assume none; every step of `Discovery` shortens what is left to
visit in a finite tree.

## 4. What the violations say

1. `lint_chain`. README.md:242 says includes are followed "to a fixpoint", and
   `Next` says an empty result is one. At `maxIncludeRounds` `admit` drops
   children with no diagnostic, and an empty result then means the bound.
   `FixpointWithinBound` is the statement that holds.
2. `report_enabled`. `Select` honours a subtag in `enable_list`, `EnabledRules`
   only a bare id; with a profile that lacks the rule the SARIF report declares
   as not enabled a rule it reports. `ReportedIsEnabledBare` is what holds.
3. `suppress_siblings`. The header of a block ends one line before its first
   child, so a comment line in between, which is the child's by the
   next-line rule, is collected for the block and silences all its children.
   `TaskIsFence` is what holds: comments that stand inside one task.
4. `discovery_git`. `ignore.go` compiles `*` to `[^/]*`, which matches the empty
   name behind the slash that `matchEntry` appends to a directory. So `a/*`
   matches the directory a itself, the walk skips it, and `!a/keep.yml`
   re-includes nothing; the file says its syntax is git's. The statement holds
   for all lists of the `discovery` run; lists of this shape break it.
5. `yaml_line`. `fetch_stream_end` no longer forces a new line, so when a text
   ends inside a flow collection without a final line break the candidate of that
   collection never goes stale, and `fetch_more_tokens` appends STREAM-END for
   ever. The rule line-length scans a long line without its line break
   (`lines.go:77`), so it can meet such a text. The run needs fairness, and
   states that of Section 3.

Two properties hold under a premise that says where they would not.
`TieFree` excludes findings that are equal under the sort key and differ in
their subtag (`latest[git]` and `latest[hg]` on one line): without it one can
stand between two equal findings and keep `Dedupe`, which compares neighbours,
from merging them, and dropping it afterwards through the ignore file leaves
the two side by side. And in `YamlProblems` an unused anchor is decided at the
end of its document, with the directives in force there and not on its line:
the promise states what the code does.

### Also seen

Smaller points that no run is spent on:

- `recordNoqa` assigns a line's own comment over what the comment line above
  merged there, so only one of the two applies (`noqa.go:48`).
- The kind rows `.github/**` and `.config/molecule/config` begin with no `**/`
  and never match the absolute path `KindOf` is given, although
  `discover.go:78` says that absolute and relative paths both work.
- A link that leads through a directory which may not be entered is dropped
  with no soft error, as if it were broken (`discover.go:250`).
- `a/**` does not match the files directly in `a`: the walk finds more than git
  would keep.
- A directory that may not be entered gives two soft errors, one for its
  `.gitignore` and one for its listing; overlapping roots give each again. Only
  zero or not reaches the exit code.
- In `{? a : b}: c` the collection's KEY comes after the tokens it should stand
  in front of: closing the level forgets the candidate of the collection around
  it (`scannerc.go:969`). `TokensInOrder` and `KeepsNesting` name this case.
- An error of the scanner drops the tokens queued before it.
- The indentation rule keeps the value of a pair on its stack while an anchor or
  a tag without content is the last token of it, so what follows is judged
  against the value: in `? a`, `: &x`, `? b` on three lines, and at a `]` below
  `&x` that is not in column 0, it reports a wrong indentation. `Inside`, what
  `FollowsTheNesting` expects on the stack, leaves these tokens open.

## 5. Proofs

What is assumed are the named `ASSUME`s of the modules, which say what the code
hands them: well-typed constants, a positive budget and worker count, a walk
that holds each file once, a tree whose paths have their parents, findings with
the columns the rules emit, files whose tasks have line numbers. TLC evaluates
each on the runs. Everything else holds for every value of the constants: any
number of files, workers, findings, arguments and patterns, texts of any length.

### The engine and a whole run (`AstlProofs`)

Two inductive invariants carry the theorems about `LintRounds`.

`Inv` is about items. `EachItemOnce` alone is not inductive: it needs to know
that the next round is disjoint from every round so far and that both are what
the seen set holds (`SeenOnce`). `FixpointWithinBound` needs that a goroutine
past loading still has in `pending` every target not yet seen (`PendingRead`,
`NextIsChildren`), so that when all goroutines are done the next round is
complete and the rounds behind are closed (`PastIsClosed`).

`Ledger` is about counts: goroutines are started in order, the semaphore's
counter is the weight of the goroutines between `Acquire` and `Release`
(`CurIsHeld`), the queue holds the blocked ones, and what was counted and
gathered is what the goroutines past those steps have handed in
(`FailuresCounted`, `FindingsKept`). `IndInv` is both, and a run checks it.

- `Invariance`, `TypeCorrect`: `Spec => [](TypeOK /\ IndInv)`.
- `NoItemTwice`, `NoByteLeaked`, `NothingIsLost`, `FixpointReached`: the
  properties of `lint_shared`, each from `IndInv`.
- `RoundsImplemented`: initial states map to `Rounds!Init`, and each step maps
  to a `Rounds!Next` step (`EndRound`) or a stutter (all others).

For a whole run, `WholeRun` proves `AstlSpec => []AstlInv`. `EngineInv` says the
engine's invariant holds while `run` drives it, whatever soft errors the walk
adds; `PhaseInv` says what the main goroutine knows at each line of `run`: that
the report is the pipeline's answer for all the rounds gathered, that stdout is
empty until the report is whole, and that the exit code is `exitStatus` of both.

- `ExitCodeHonest`: the meaning of exit 0, 2 and 3, and that a completed run
  prints exactly what the policy leaves of every reachable file's findings. It
  joins `NothingIsLost` with what the pipeline keeps (`LintedIs`, `ApplyIs`).
- `ReportOrdered`, `ErrorsAreSilent`, `AstlTypes`.

### The report (`ReportProofs`)

The lemmas say what each stage returns for any findings: `SortIs` (a
permutation, in order), `DedupeIs`, `SelectIs`, `ApplyIs`, and, when no findings
tie, that a sorted report without repeats is determined by the set of its
findings (`IncreasingUnique`), so that a stage may be moved past another
(`ApplyCommutes`). In `ReportOrder` what is printed is therefore always the
pipeline's answer for what has arrived (`OrderInv`), which gives all five
properties of `report_order`: `ScheduleNotSeen`, `MidPipeline`, `NoneTwice`,
`SkipWinsThenEnable` and `DeclaredWhatIsReported`.

### Suppression (`SuppressProofs`)

- `SuppressionIs`: `Spec => []DropsTheSilenced`. While the lines are read, the
  entry of each line is told by the lines before the current one (`EntryInv`:
  its own comment if that has been read, otherwise what the lines above hand
  on); while the tasks are covered, the range of a line is that of the tasks so
  far (`RangeInv`).
- `TaskFence`: `Spec => []TaskIsFence`, for files that satisfy `TasksApart`:
  what a task collects over is not inside another plain task. Two tasks written
  on one line do share their comments, so the hypothesis is needed; the files
  of `suppress_files` satisfy it.

### yamllint's linter (`YamllintProofs`)

- `LinterOwnership`: `Spec => []LinterIsOwned`. The invariant (`OwnInv`) adds
  that a linter bears the name of a file taken, that busy workers hold linters
  that exist and are not pooled, and that no handler changes the configuration
  a linter was built for.
- `WindowFollowsStream`: `Spec => []WindowIsStream`. `RingInv`: the slots hold
  the last four tokens loaded and loading stays two tokens ahead of the one
  served, so that the slot of the previous token is intact.
- `YamllintTypes`: `Spec => []TypeOK`, no index leaves its array. `FitInv`: what
  a worker counts stays within the file it has taken.

### Discovery (`DiscoveryProofs`)

- `FoundOnce`: `Spec => []EachFileOnce`. The invariant adds that items and
  walked roots are sequences, that nothing is found before the project is
  known, and that an entry at hand has a root it was come to from, which `add`
  exempts from the project. It discharges what `LintRounds` assumes of its
  walk, that it holds each file once.
- `ProjectHoldsRoots`: `Spec => []RootsInside`. What is left of a tree resolves
  a path as the whole did or not at all, so the project, decided by the whole
  tree (`RootInv`), still holds the roots the walk comes to. That rests on
  `Chain`, the links `EvalSymlinks` follows one by one, and on the common base
  of the arguments being a prefix of each (`IsBase`).
- `DiscoveryTypes`: `Spec => []TypeOK`.
- `WalkFinds`: `Spec => []FindsWhatIsThere`, and `SilentWalksFindAll`: `Spec =>
  []SilentMeansWhole`. The reference reads a tree at once (`Reached`), the walk
  along an agenda onto which links put what lies elsewhere, so the invariant
  (`WalkInv`) says what the agenda still owes. Whatever waits on it was led there
  by an entry that is reached (`AgendaLed`), and each item was found from one
  (`ItemsLed`); a directory left in the tree has all above it left
  (`TreeClosed`); roots are taken in order, as they first resolved, and the lists
  compiled are those of the first tree (`RootsTaken`, `ListsKept`). For each tree
  owed (`Owed`), every entry reached that is still there is `Handled`, all it
  leads to found, or `Pending`, it or a directory above it waiting (`Covered`).
  The first theorem owes the first tree, the second the tree with every
  permission as long as nothing was noticed or lost. Two lemmas carry them:
  what is left of a tree is reached as before and its lists are the same or gone
  (`ReachedRemains`, `ListWithin`), and a walk without a soft error sees as much as
  one with every permission (`FullRole`, `FullFinds`).

  The proof changed the property. It used to say that what both the first and the
  last tree give is found, which is false when one directory holds the
  `.gitignore` that another one links to and a link to a file which that list
  ignores. The first tree gives the file through the link, the last one directly,
  the list being gone; the walk may have read the list before and look for the
  link after, and finds neither. `VanishingLists` holds such trees.
  `FindsWhatIsThere` now speaks of each way, the root, the entry and what is found
  there, and takes the roots as they resolved when the run began: one that is
  lost later ends the run.
- `LaterWins`: a pattern list is decided by its last match. `MatchSpec` says so
  with a quantifier, `ignoreSpec.match` with a loop: one pattern more takes the
  same step in both.

### The scanner (`YamlScanProofs`)

- `NothingTakenBack`: `Spec => HandedOutStays`. The invariant (`ScanInv`) is that the number of
  a candidate is that of a token still in the queue or of the next one, so that
  no insertion is behind what was handed out.
- `FirstInFront`: `Spec => []OpensWithItsFirst`. A KEY and the start of its
  mapping are inserted in the middle of the queue, so what follows a block's
  start is told by where the candidates aim. The invariant (`Tidy`) is that
  every start in the queue is followed by the token that opens it and none is
  left open at the end, and that the candidates aim at nodes in the queue (a
  scalar, an alias, an anchor, a tag, a flow collection's start), those of a
  deeper level behind those of a shallower one (`Aimed`, `Placed`). It holds
  between tokens; `Value` puts the KEY in front of its node, then the mapping's
  start in front of the KEY, and leaves a queue a VALUE may follow
  (`ValueOfSimpleKeyTakes`). When the scanner reports an error the queue may be
  left half done, and only what was handed out before is claimed.
- `ScannerTypes`: `Spec => []TypeOK`, and `NothingIsSkipped`: `Spec =>
  []NothingSkipped`. Both rest on one invariant (`ReadInv`), about what has been
  read of the text: positions, tokens and candidates lie in front of the
  position, which lies in the text (`Spanned`); up to there every character that
  has no token is blank or in a comment (`ReadTo`); and STREAM-END is in the
  queue only when the position is at the end (`Ending`), which is how a token
  handed out speaks of the whole text. A fetch is followed part by part
  (`Reading`): an operation either reads nothing (`Staying`), or takes one token
  and the text behind it (`Taken`). Underneath is where each scan of `YamlLex`
  stops: that it does not turn back, stays inside the text and, where it goes on
  behind its token, passes only blanks, line breaks and comments (`Reaches`,
  `Empty`). The scans are recursive functions that follow no counter; `Scans`,
  `ScanExists` and `ScanInduction` in `SumProofs` give them their equation and
  an induction, from a measure that each turn lowers. `TextsAreText` says that
  no text holds the NUL that ends the buffer: the reader refuses control
  characters (`yaml_parser_update_buffer`).

### Tokens in order, keys with their values, and the indentation rule (`YamlIndentProofs`)

- `TokensKeepOrder`: `Spec => []TokensInOrder`. That the part handed out is in
  order is not inductive: the tokens still queued, and those that come, decide
  where a KEY goes. `Settles` says of the whole queue that a token behind one
  that starts later begins with a collection that does not start with a node
  (`Ordered`), that each candidate begins where its token does and that the head
  waits for it, unless its number was forgotten, which
  `yaml_parser_decrease_flow_level` does only when the collection is such a one;
  and that a candidate farther in aims at a later node. `Opened` says that where
  a collection has just begun a key is allowed, so that the first node in it is
  a candidate of its own. Both are followed through every operation that adds
  or inserts a token (`GrownSettle`, `InsertSettles`), begins or ends a level
  (`ReadyIncrease`, `ReadyDecrease`) or gives a candidate up (`FewerSettles`),
  and hold until an error.
- `KeysStayShort`: `Spec => []KeysAreShort`. The property joins a KEY with the
  first VALUE behind it that stands in as many collections, and says nothing of
  how the two came about; `Nested`, the rest of what `Settles` says of the queue,
  does. With the depth after each token (`Depths`), every KEY without `?` has a
  VALUE at its own depth, on its line and within the limit (`Paired`), and a
  candidate on level *l* of *k* is *k - l* collections less deep than the next
  token (`Hanging`). So the candidate of the innermost level, which a `:` makes a
  key, is at the depth of the `:` (`KeyOwed`, `ValueAnswers`), and near it unless
  it was stale (`FreshIsNear`). `PairedShort` brings it to the property: the
  first VALUE at the key's depth is that one or in front of it, and values stand
  in the order of the text. It holds after an error as well, of what was handed
  out before.
- `RuleReadsOnly`: all of it holds of the scanner with the rule reading beside it.
- `StackHolds`: `IndentSpec => []StackShape`. The rule's stack is well formed
  (`Stacked`) after every token, YAML or not. `Close` is proved to leave a
  prefix of the stack, turn by turn.
- `GivesUpAtTheHead`: the rule gives up on a token only by the tests at its
  head; the assertion inside the loop that takes parents off never fails.

### Induction

The library's induction theorems take an operator, which the provers cannot
instantiate. `SumProofs` states induction for a set in its place
(`NatSetInduction`, `SubsetInduction`) and proves that a recursive function is
what its equation says for every number (`NatRecursion`, `StepRecursion`). With
these the loops the models write as recursive functions are proved about for
all inputs: `Keep`, `Sort`'s insertions, the links of `Chain`, `Unstack`, and
`SumFunctionOnSet` as a sum (`SumAdd`, `SumBounds`, `SumEqual`).

### Model-checked only

- `YamlIndent`: `FollowsTheNesting`, `JudgedOnce`, `SilentMeansUniform`. Their
  reference is `YamlGrammar`, a fold over the whole stream.
- The refinements `KeepsPromise` and `KeepsNesting`, for the same reasons: both
  map a state to a fold over a text.
- `Termination` and `EventuallyExits`: liveness under fairness is out of the
  reach of the provers.

## 6. Not modelled

In parts that are modelled:

- **Includes**: `includedFile`'s reading of a YAML value and
  `resolveInclude`'s search up the tree; a name answers to a file or to none.
- **Ignore file**: the line parser, which reads each line on its own and keeps
  no state but the entries read. `Apply` is modelled.
- **Discovery**: the text of patterns and globs (classes, escapes, braces);
  volumes other than one; two paths that vanish in one walk. `Astl` keeps its
  free choice of walk: what it needs of discovery is `EachFileOnce`, and that
  is proved.
- **YAML scanner**: token values, encodings, the reader's buffers, the text of
  comments. `TokenStream` covers what the rules read.
- **Token rules**: the rules that look at one token and its neighbour and keep
  nothing; `check-multi-line-strings`.

Whole components:

- **Configuration and yamllint configuration**: decoding is a library's and
  `extends` a merge of mappings along a chain of at most 32 links; the models
  take the result. Which file is found, and that an unreadable one ends the run, is
  in `Discovery`.
- **Bounded reads**: a read is its outcome, read, absent or refused, at the
  place where it is used; what changes between its `stat`, `open` and `fstat`
  is not followed.
- **Report formats**: wording and JSON layout of one finding at a time. The two
  blocks of pep8, the only order a format decides, are in `Report`.
- **Rules**: predicates over one node, file or role, with nothing shared
  between files or kept between calls; their findings are constants of the models.
- **Identifier tables, memory ceiling, version, release scripts**: tables, a
  sum, build information, packaging.

What would be worth adding next: `KeepsPromise`, along the passes
over a text; the ignore file's parser against a declarative reading of what an
entry covers; `extends` chains and whether a file's scope can alias the shared
configuration.
