------------------------------ MODULE LintRounds ------------------------------
(***************************************************************************)
(* The parallel engine of a run: the round loop of lint and the workers of *)
(* lintRound and lintItem (cmd/astl/main.go), over the semaphore and the   *)
(* include resolver.                                                       *)
(*                                                                         *)
(* A round starts one goroutine per item, in order, through an errgroup    *)
(* that lets at most NumCPU run at once. A goroutine buys its file's bytes *)
(* from the semaphore, loads the file, offers what it names to the include *)
(* resolver one name at a time, and takes the round's mutex twice: to      *)
(* count a failure, then to append findings. The round ends when every     *)
(* goroutine is done; the children it found are the next round.            *)
(***************************************************************************)
EXTENDS Semaphore, Includes

CONSTANTS
  NumCPU,          (* runtime.NumCPU: the errgroup's limit                 *)
  Walk,            (* the items of discovery, in path order                *)
  Size,            (* file -> the size discovery gave it, 0 when unknown   *)
  Finding,         (* every finding                                        *)
  Finds            (* file -> loaded kind -> findings, in emission order   *)

\* The kinds whose files are not YAML documents.
NonYAMLKinds == {"jinja2", "text", "python", "sanity-ignore-file"}

ASSUME LintAssumption ==
  /\ NumCPU \in Nat \ {0}
  /\ Walk \in Seq(Item)
  /\ \A i, j \in DOMAIN Walk : Walk[i].abs = Walk[j].abs => i = j
  /\ Size \in [File -> Nat]
  /\ Finds \in [File -> [Kind -> Seq(Finding)]]

VARIABLES
  sized,           (* every item of the rounds begun so far                *)
  round,           (* the items of the current round; <<>> ends the loop   *)
  spawned,         (* how many of them the loop has handed to g.Go         *)
  pc,              (* where each goroutine of the round is                 *)
  pending,         (* the targets each goroutine has yet to admit          *)
  found,           (* the findings of the round                            *)
  failed,          (* the failures of the round                            *)
  all,             (* the findings of the rounds before                    *)
  unchecked        (* walk errors, and the failures of the rounds before   *)

roundVars == <<spawned, pc, pending, found, failed>>
totals == <<all, unchecked>>
lintVars == <<sized, round, roundVars, totals, semVars, incVars>>

\* A goroutine is known by its place in the round.
Places == {"unborn", "acquire", "queued", "load", "admit", "fail", "append",
           "release", "notify", "done"}

Goroutine == DOMAIN round

-----------------------------------------------------------------------------
\* What loading an item gives: whether it counts as not checked, and the
\* findings. A multi-document file is checked, and a file that was never
\* YAML is checked whatever it holds, once it could be read.
Failure(item) ==
  /\ item.kind # "role"
  /\ \/ Content[item.abs].err = "unreadable"
     \/ Content[item.abs].err = "invalid" /\ LoadedKind(item) \notin NonYAMLKinds

Findings(item) == Finds[item.abs][LoadedKind(item)]

\* Mutant: no clamp to the budget.
WeightUnclamped(item) == IF Size[item.abs] = 0 THEN 1 ELSE Size[item.abs]

\* The clamp of a goroutine's weight into 1 .. bytesInFlight.
Weight(item) ==
  IF Size[item.abs] = 0 THEN 1
  ELSE IF Size[item.abs] > Budget THEN Budget ELSE Size[item.abs]

-----------------------------------------------------------------------------
Running(g) == pc[g] \notin {"unborn", "done"}
InFlight == {g \in Goroutine : Running(g)}

Goto(g, place) == pc' = [pc EXCEPT ![g] = place]

\* The places left of lintRound's closure, once the includes are recorded.
AfterFound(g) ==
  IF Failure(round[g]) THEN "fail"
  ELSE IF Findings(round[g]) # <<>> THEN "append" ELSE "release"

AfterFailure(g) == IF Findings(round[g]) # <<>> THEN "append" ELSE "release"

\* g.Go starts the next goroutine, waiting while NumCPU of them run.
Spawn(g) ==
  /\ spawned < Len(round) /\ g = spawned + 1
  /\ Cardinality(InFlight) < NumCPU
  /\ spawned' = g
  /\ Goto(g, "acquire")
  /\ UNCHANGED <<sized, round, pending, found, failed, totals, semVars, incVars>>

\* sem.Acquire: granted at once, or queued behind the others.
Acquire(g) ==
  /\ pc[g] = "acquire"
  /\ \/ AcquireNow(Weight(round[g])) /\ Goto(g, "load")
     \/ AcquireLater(g, Weight(round[g])) /\ Goto(g, "queued")
  /\ UNCHANGED <<sized, round, spawned, pending, found, failed, totals, incVars>>

\* parse.Load, and the targets Found reads off the parsed file.
Load(g) ==
  /\ pc[g] = "load"
  /\ pending' = [pending EXCEPT ![g] = Targets(round[g])]
  /\ Goto(g, IF Targets(round[g]) = <<>> THEN AfterFound(g) ELSE "admit")
  /\ UNCHANGED <<sized, round, spawned, found, failed, totals, semVars, incVars>>

\* Mutant: Found stops at the first name it follows.
AdmitFirst(g) ==
  /\ pc[g] = "admit"
  /\ Admit(Head(pending[g]))
  /\ pending' = [pending EXCEPT ![g] = <<>>]
  /\ Goto(g, AfterFound(g))
  /\ UNCHANGED <<sized, round, spawned, found, failed, totals, semVars>>

\* Found admits one target after another.
AdmitNext(g) ==
  /\ pc[g] = "admit"
  /\ Admit(Head(pending[g]))
  /\ pending' = [pending EXCEPT ![g] = Tail(@)]
  /\ Goto(g, IF Len(pending[g]) = 1 THEN AfterFound(g) ELSE "admit")
  /\ UNCHANGED <<sized, round, spawned, found, failed, totals, semVars>>

\* The first critical section: report and count a file not checked.
Fail(g) ==
  /\ pc[g] = "fail"
  /\ failed' = failed + 1
  /\ Goto(g, AfterFailure(g))
  /\ UNCHANGED <<sized, round, spawned, pending, found, totals, semVars, incVars>>

\* Mutant: append without the round's mutex, the last writer winning.
AppendRacing(g) ==
  /\ pc[g] = "append"
  /\ \/ found' = found \o Findings(round[g])
     \/ found' = Findings(round[g])
  /\ Goto(g, "release")
  /\ UNCHANGED <<sized, round, spawned, pending, failed, totals, semVars, incVars>>

\* The second critical section: append the findings.
AppendFound(g) ==
  /\ pc[g] = "append"
  /\ found' = found \o Findings(round[g])
  /\ Goto(g, "release")
  /\ UNCHANGED <<sized, round, spawned, pending, failed, totals, semVars, incVars>>

\* The deferred sem.Release, up to the waiters it wakes.
Release(g) ==
  /\ pc[g] = "release"
  /\ ReleaseBegin(Weight(round[g]))
  /\ Goto(g, "notify")
  /\ UNCHANGED <<sized, round, spawned, pending, found, failed, totals, incVars>>

\* Inside Release: wake the front waiter, which goes on to load its file.
Notify(g) ==
  /\ pc[g] = "notify"
  /\ Wake
  /\ Goto(Head(waiters).who, "load")
  /\ UNCHANGED <<sized, round, spawned, pending, found, failed, totals, incVars>>

\* Release returns and the goroutine gives its errgroup slot back.
Return(g) ==
  /\ pc[g] = "notify"
  /\ ReleaseEnd
  /\ Goto(g, "done")
  /\ UNCHANGED <<sized, round, spawned, pending, found, failed, totals, incVars>>

Work(g) ==
  \/ Acquire(g) \/ Load(g) \/ AdmitNext(g) \/ Fail(g)
  \/ AppendFound(g) \/ Release(g) \/ Notify(g) \/ Return(g)

-----------------------------------------------------------------------------
\* The body of the round loop up to the first g.Go: a round has totals, a
\* mutex and a semaphore of its own.
Begin(r) ==
  /\ round' = r
  /\ sized' = sized \o r
  /\ spawned' = 0
  /\ pc' = [g \in DOMAIN r |-> "unborn"]
  /\ pending' = [g \in DOMAIN r |-> <<>>]
  /\ found' = <<>> /\ failed' = 0
  /\ SemReset

\* Mutant: a round that does not wait for its goroutines.
EndRoundEarly(r) ==
  /\ round # <<>>
  /\ spawned = Len(round)
  /\ NextRound(r)
  /\ all' = all \o found
  /\ unchecked' = unchecked + failed
  /\ Begin(r)

\* g.Wait returns: total the round up and begin the next, r.
EndRound(r) ==
  /\ round # <<>>
  /\ spawned = Len(round)
  /\ \A g \in Goroutine : pc[g] = "done"
  /\ NextRound(r)
  /\ all' = all \o found
  /\ unchecked' = unchecked + failed
  /\ Begin(r)

LintInit(soft) ==
  /\ sized = Walk
  /\ round = Walk
  /\ spawned = 0
  /\ pc = [g \in DOMAIN Walk |-> "unborn"]
  /\ pending = [g \in DOMAIN Walk |-> <<>>]
  /\ found = <<>> /\ failed = 0
  /\ all = <<>> /\ unchecked = soft
  /\ SemInit
  /\ IncludesInit(Walk)

LintNext ==
  \/ \E g \in Goroutine : Spawn(g) \/ Work(g)
  \/ \E r \in [DOMAIN next -> Range(next)] : EndRound(r)

\* The loop of lint is over.
LintDone == round = <<>>

Init == LintInit(0)

Finished == LintDone /\ UNCHANGED lintVars

Next == LintNext \/ Finished

\* The Go scheduler runs every goroutine that can run, the main one included.
\* No round holds more goroutines than there are items.
Fairness ==
  /\ WF_lintVars(\E g \in Goroutine : Spawn(g))
  /\ WF_lintVars(\E r \in [DOMAIN next -> Range(next)] : EndRound(r))
  /\ \A g \in 1 .. Cardinality(Item) : WF_lintVars(g \in Goroutine /\ Work(g))

Spec == Init /\ [][Next]_lintVars /\ Fairness

-----------------------------------------------------------------------------
(* What the engine promises.                                               *)

\* What one item leads to, and the items within n includes of the walk.
Children(S) == {t \in UNION {Range(Targets(i)) : i \in S} : Followed(t)}

Within[n \in Nat] ==
  IF n = 0 THEN Range(Walk)
  ELSE LET before == Within[n - 1] IN before \cup Children(before)

Reachable == Within[MaxIncludeRounds]

\* The goroutines at the given places.
At(places) == {g \in Goroutine : pc[g] \in places}

\* Those between Acquire and Release.
Holding == {"load", "admit", "fail", "append", "release"}
Holders == At(Holding)

\* Types of the engine's state (lintRound, Includes, Weighted).
TypeOK ==
  /\ cur \in Int /\ cur <= Budget
  /\ waiters \in Seq([who : Goroutine, weight : 1 .. Budget])
  /\ notifying \in BOOLEAN
  /\ seen \subseteq Item
  /\ next \in Seq(Item)
  /\ roundNo \in Nat
  /\ sized \in Seq(Item) /\ round \in Seq(Item)
  /\ spawned \in 0 .. Len(round)
  /\ pc \in [Goroutine -> Places]
  /\ pending \in [Goroutine -> Seq([abs : File \cup {Missing}, kind : Kind])]
  /\ found \in Seq(Finding) /\ all \in Seq(Finding)
  /\ failed \in Nat
  /\ unchecked \in Nat

\* Weighted.cur is what the goroutines between Acquire and Release weigh.
CurIsHeld == cur = SumFunctionOnSet([g \in Goroutine |-> Weight(round[g])], Holders)

\* The semaphore's counter is the weight of the goroutines between Acquire
\* and Release, neither leaked nor released twice, and never over budget; and
\* "a file over the whole budget must still run ... it holds the budget alone"
\* (lintRound): nothing else is loaded beside it.
BytesInFlight ==
  /\ CurIsHeld
  /\ cur <= Budget
  /\ \A g \in Holders : Size[round[g].abs] >= Budget => Holders = {g}

\* However the workers race in admit, no item is linted twice in a run.
EachItemOnce == IsInjective(sized)

\* How often a sequence of findings holds f.
Times(f, s) == Cardinality({k \in DOMAIN s : s[k] = f})

\* When the loop ends, every item within the round bound was linted, every
\* failure was counted, and every finding of every item was kept, once per
\* item, whatever the schedule.
NothingLost ==
  LintDone =>
    /\ Range(sized) = Reachable
    /\ unchecked = Cardinality({i \in Reachable : Failure(i)})
    /\ \A f \in Finding :
         Times(f, all) = SumFunction([i \in Reachable |-> Times(f, Findings(i))])

\* Every run ends: the include rounds run out and no goroutine is stuck on
\* the semaphore, whatever its file weighs.
Termination == <>LintDone

\* Includes.Next: "An empty result is the fixpoint". It is one whenever the
\* loop ended before maxIncludeRounds rounds of children were read: nothing a
\* linted file names is left out.
FixpointWithinBound ==
  LintDone /\ roundNo <= MaxIncludeRounds => Children(Range(sized)) \subseteq Range(sized)

\* README.md:242: includes are followed "to a fixpoint".
FollowedToFixpoint == LintDone => Children(Range(sized)) \subseteq Range(sized)

-----------------------------------------------------------------------------
(* The inductive invariant: why no race in admit loses or repeats an item. *)

\* A goroutine past Load has handed Found every target it read.
PastLoad == {"admit", "fail", "append", "release", "notify", "done"}

\* The seen set is what was linted and what will be, each item once.
SeenOnce ==
  /\ seen = Range(sized) \cup Range(next)
  /\ Range(sized) \cap Range(next) = {}
  /\ EachItemOnce
  /\ IsInjective(next) /\ IsInjective(round)
  /\ Range(round) \subseteq Range(sized)

\* What a goroutine has still to admit was read off its own file.
PendingRead ==
  \A g \in Goroutine :
    /\ Range(pending[g]) \subseteq Range(Targets(round[g]))
    /\ pc[g] = "admit" => pending[g] # <<>>

\* The next round holds only children of this one, and while the bound allows
\* it every child read so far is seen or still to be admitted.
NextIsChildren ==
  /\ Range(next) \subseteq Children(Range(round))
  /\ roundNo >= MaxIncludeRounds => next = <<>>
  /\ roundNo < MaxIncludeRounds =>
       \A g \in Goroutine : pc[g] \in PastLoad =>
         \A t \in Range(Targets(round[g])) : Followed(t) =>
           \/ t \in seen
           \/ pc[g] = "admit" /\ t \in Range(pending[g])

\* The rounds before are closed under includes up to the current round.
PastIsClosed ==
  roundNo <= MaxIncludeRounds =>
    Children(Range(sized) \ Range(round)) \subseteq Range(sized)

Inv == SeenOnce /\ PendingRead /\ NextIsChildren /\ PastIsClosed

-----------------------------------------------------------------------------
(* The rest of it: what the counters count while the workers run, when the *)
(* walk itself met soft errors.                                            *)

\* The loop starts the goroutines in order.
SpawnedInOrder == \A g \in Goroutine : pc[g] = "unborn" <=> g > spawned

\* The semaphore's queue holds goroutines blocked in Acquire, each once and
\* with the weight it asked for.
QueueIsBlocked ==
  /\ \A k \in DOMAIN waiters :
       /\ pc[waiters[k].who] = "queued"
       /\ waiters[k].weight = Weight(round[waiters[k].who])
  /\ \A j, k \in DOMAIN waiters : waiters[j].who = waiters[k].who => j = k

\* The rounds begun so far hold the items within as many includes of the walk.
SizedIsWithin ==
  Range(sized) = Within[IF roundNo <= MaxIncludeRounds THEN roundNo ELSE MaxIncludeRounds]

\* The items of the rounds before, and those of this one at the given places.
ItemsAt(places) == (Range(sized) \ Range(round)) \cup {round[g] : g \in At(places)}

\* The places after each of the two critical sections.
PastFail == {"append", "release", "notify", "done"}
PastAppend == {"release", "notify", "done"}

\* A failure is counted exactly when its goroutine has left the first section.
FailuresCounted(soft) ==
  /\ \A g \in Goroutine : pc[g] = "fail" => Failure(round[g])
  /\ unchecked + failed = soft + Cardinality({i \in ItemsAt(PastFail) : Failure(i)})

\* The findings kept are those of the items whose goroutine has left the second.
FindingsKept ==
  \A f \in Finding :
    Times(f, all) + Times(f, found) =
      SumFunctionOnSet([i \in Item |-> Times(f, Findings(i))], ItemsAt(PastAppend))

\* A round of nobody has no totals.
EmptyRound == round = <<>> => found = <<>> /\ failed = 0

Ledger(soft) ==
  /\ EmptyRound /\ SpawnedInOrder /\ QueueIsBlocked /\ CurIsHeld
  /\ SizedIsWithin /\ FailuresCounted(soft) /\ FindingsKept

IndInv == Inv /\ Ledger(0)

-----------------------------------------------------------------------------
\* The engine implements rounds that each happen at once.
Rounds == INSTANCE IncludeRounds
            WITH Start    <- Range(Walk),
                 MaxRound <- MaxIncludeRounds,
                 linted   <- Range(sized) \ Range(round),
                 frontier <- Range(round),
                 depth    <- roundNo

RoundsSpec == Rounds!Spec
=============================================================================
