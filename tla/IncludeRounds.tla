----------------------------- MODULE IncludeRounds -----------------------------
(***************************************************************************)
(* What the include resolver promises (Includes, internal/discover): the   *)
(* items of a run are linted in rounds, the first being the walk and each  *)
(* other the children of the one before that no earlier round held. Who    *)
(* lints what, and in what order the children are found, makes no          *)
(* difference.                                                             *)
(***************************************************************************)
EXTENDS Integers

CONSTANTS
  Start,           (* the items of the walk                                *)
  Children(_),     (* the followed children of a set of items              *)
  MaxRound         (* no round after this one has children                 *)

VARIABLES
  linted,          (* the items of the rounds before                       *)
  frontier,        (* the items of the current round                       *)
  depth            (* how many rounds ended                                *)

vars == <<linted, frontier, depth>>

Init ==
  /\ linted = {}
  /\ frontier = Start
  /\ depth = 0

Round ==
  /\ frontier # {}
  /\ linted' = linted \cup frontier
  /\ frontier' = IF depth < MaxRound
                 THEN Children(frontier) \ (linted \cup frontier) ELSE {}
  /\ depth' = depth + 1

Next == Round

Spec == Init /\ [][Next]_vars /\ WF_vars(Next)
=============================================================================
