------------------------------- MODULE Includes -------------------------------
(***************************************************************************)
(* discover.Includes: the set of files named by other files, found round   *)
(* by round (internal/discover/include.go).                                *)
(*                                                                         *)
(* A lintable is an item: a resolved file and the kind it is linted under. *)
(* A worker that has loaded an item calls Found, which offers each file    *)
(* the item names to admit; admit looks the file up outside the lock and   *)
(* records it under the lock. Next ends the round.                         *)
(*                                                                         *)
(* The file tree does not change during a run. A file's YAML is reduced to *)
(* how it parses and, in document order, to the files it names and the     *)
(* section that names each.                                                *)
(***************************************************************************)
EXTENDS Integers, Sequences, FiniteSets, Functions

CONSTANTS
  File,            (* resolved regular files and role directories          *)
  Kind,            (* every kind an item may have                          *)
  Content,         (* file -> [err, playbook, names], what parsing yields  *)
  Inside,          (* the files insideDir the project root                 *)
  Excluded,        (* the files exclude_paths matches                      *)
  Before(_,_),     (* the order of items by path, then kind                *)
  MaxIncludeRounds,(* maxIncludeRounds                                     *)
  Missing          (* what a name that no file answers resolves to         *)

Item == [abs : File, kind : Kind]

\* The sections of a play that hold tasks, and the place of a name that is
\* not in one: directly in a play, in a task, or in a block.
PlaySections == {"tasks", "pre_tasks", "post_tasks", "handlers"}
Own == "own"

\* A file of a kind that can name children.
ScannedKinds == {"playbook", "tasks", "handlers"}

\* How a file parses: well, as several documents, not as YAML, or not read.
ParseErrors == {"none", "multidoc", "invalid", "unreadable"}

ASSUME IncludesAssumption ==
  /\ {"yaml", "role"} \cup ScannedKinds \cup PlaySections \subseteq Kind
  /\ \A f \in File :
       /\ Content[f].err \in ParseErrors
       /\ Content[f].playbook \in BOOLEAN
       /\ Content[f].names \in Seq([to : File \cup {Missing},
                                    section : PlaySections \cup {Own}])
  /\ Inside \subseteq File
  /\ Excluded \subseteq File
  /\ MaxIncludeRounds \in Nat
  /\ Missing \notin File

VARIABLES
  seen,            (* Includes.seen: the items admitted or walked          *)
  next,            (* Includes.next: the children of the current round     *)
  roundNo          (* Includes.round                                       *)

incVars == <<seen, next, roundNo>>

-----------------------------------------------------------------------------
\* parse.Load: the kind an item has once parsed. Only a file that decoded to
\* one document is promoted.
LoadedKind(item) ==
  IF item.kind = "yaml" /\ Content[item.abs].err = "none" /\ Content[item.abs].playbook
  THEN "playbook" ELSE item.kind

MayBeScanned(kind) == kind \in ScannedKinds \cup {"yaml"}

Scanned(item) ==
  /\ MayBeScanned(item.kind)
  /\ Content[item.abs].err = "none"
  /\ LoadedKind(item) \in ScannedKinds

\* The kind a child inherits: the section it was named in, or its parent's
\* kind. A block does not change it.
ChildKind(section, own) == IF section = Own THEN own ELSE section

\* What Found offers to admit, in document order.
Targets(item) ==
  IF Scanned(item)
  THEN [i \in DOMAIN Content[item.abs].names |->
          [abs  |-> Content[item.abs].names[i].to,
           kind |-> ChildKind(Content[item.abs].names[i].section, LoadedKind(item))]]
  ELSE <<>>

\* The lookups of admit that need no lock. A name that resolves to nothing
\* names Missing.
Followed(t) == t.abs \in Inside \ Excluded

-----------------------------------------------------------------------------
IncludesInit(walk) ==
  /\ seen = Range(walk)
  /\ next = <<>>
  /\ roundNo = 0

Record(t) ==
  /\ seen' = seen \cup {t}
  /\ next' = Append(next, t)
  /\ UNCHANGED roundNo

\* Mutant: the seen set is not consulted.
AdmitUnseen(t) ==
  IF Followed(t) /\ roundNo < MaxIncludeRounds
  THEN Record(t) ELSE UNCHANGED incVars

\* admit: a followed target that is new to the run joins the next round.
Admit(t) ==
  IF Followed(t) /\ t \notin seen /\ roundNo < MaxIncludeRounds
  THEN Record(t) ELSE UNCHANGED incVars

\* r is s sorted by path, then kind.
SortedFrom(r, s) ==
  /\ Range(r) = Range(s)
  /\ \A i, j \in DOMAIN r : i < j => ~Before(r[j], r[i])

\* Next: the round is over and r is the next one.
NextRound(r) ==
  /\ SortedFrom(r, next)
  /\ next' = <<>>
  /\ roundNo' = roundNo + 1
  /\ UNCHANGED seen
=============================================================================
