------------------------------ MODULE Semaphore ------------------------------
(***************************************************************************)
(* The weighted semaphore that meters source bytes in flight.              *)
(*                                                                         *)
(* lintRound (cmd/astl/main.go) admits every file through                  *)
(* golang.org/x/sync/semaphore.Weighted, a library outside the repository. *)
(* The library keeps a counter of granted weight and a FIFO list of        *)
(* waiters behind one mutex; Acquire and the head of Release are single    *)
(* critical sections, while Release goes on waking waiters, one at a time, *)
(* before it gives the mutex back.                                         *)
(***************************************************************************)
EXTENDS Integers, Sequences

CONSTANT
  Budget           (* bytesInFlight: the weight the semaphore may grant    *)

ASSUME BudgetAssumption == Budget \in Nat \ {0}

VARIABLES
  cur,             (* Weighted.cur: weight granted and not yet released    *)
  waiters,         (* Weighted.waiters: FIFO of [who, weight]              *)
  notifying        (* a Release holds the mutex and is waking waiters      *)

semVars == <<cur, waiters, notifying>>

SemInit ==
  /\ cur = 0
  /\ waiters = <<>>
  /\ notifying = FALSE

-----------------------------------------------------------------------------
\* A fresh Weighted, as every round makes.
SemReset ==
  /\ cur' = 0
  /\ waiters' = <<>>
  /\ notifying' = FALSE

\* Mutant: the budget overdrawn by one.
FitsLoosely(n) == cur + n <= Budget + 1

Fits(n) == cur + n <= Budget

\* Acquire, the path that does not block. Nobody overtakes a waiter.
AcquireNow(n) ==
  /\ ~notifying
  /\ Fits(n) /\ waiters = <<>>
  /\ cur' = cur + n
  /\ UNCHANGED <<waiters, notifying>>

\* Acquire, the path that queues. A weight over the whole budget is never
\* queued: the library parks it until the context is cancelled.
AcquireLater(g, n) ==
  /\ ~notifying
  /\ ~(Fits(n) /\ waiters = <<>>)
  /\ n <= Budget
  /\ waiters' = Append(waiters, [who |-> g, weight |-> n])
  /\ UNCHANGED <<cur, notifying>>

\* Mutant: a release of one byte whatever was acquired.
ReleaseOne(n) ==
  /\ ~notifying
  /\ cur' = cur - 1
  /\ notifying' = TRUE
  /\ UNCHANGED waiters

\* Release up to its call of notifyWaiters.
ReleaseBegin(n) ==
  /\ ~notifying
  /\ cur' = cur - n
  /\ notifying' = TRUE
  /\ UNCHANGED waiters

\* One turn of the loop of notifyWaiters: the front waiter fits and is woken.
Wake ==
  /\ notifying
  /\ waiters # <<>> /\ Fits(Head(waiters).weight)
  /\ cur' = cur + Head(waiters).weight
  /\ waiters' = Tail(waiters)
  /\ UNCHANGED notifying

\* notifyWaiters finds nobody to wake; a large front waiter blocks the rest.
ReleaseEnd ==
  /\ notifying
  /\ ~(waiters # <<>> /\ Fits(Head(waiters).weight))
  /\ notifying' = FALSE
  /\ UNCHANGED <<cur, waiters>>
=============================================================================
