------------------------------ MODULE TokenStream ------------------------------
(***************************************************************************)
(* What the scanner promises the rules about the order of tokens: blocks   *)
(* nest, each further right than the one around it; an entry or an         *)
(* explicit key stands in the column of its block; inside a flow           *)
(* collection no block begins or ends; the stream ends with every block    *)
(* closed, unless a flow collection was left open, or breaks off.          *)
(***************************************************************************)
EXTENDS Integers, Sequences, SequencesExt

VARIABLES
  open,   \* the columns of the open blocks
  flows,  \* how many flow collections are open
  token,  \* what was handed out last, and in which column
  over    \* nothing more will come

vars == <<open, flows, token, over>>

What(class, column) == [class |-> class, column |-> column]

Init == open = <<>> /\ flows = 0 /\ token = What("none", 0) /\ over = FALSE

Opens ==
  /\ token'.class = "opens" /\ flows = 0
  /\ \A i \in DOMAIN open : open[i] < token'.column
  /\ open' = Append(open, token'.column)
  /\ UNCHANGED <<flows, over>>

Closes ==
  /\ token'.class = "closes" /\ flows = 0 /\ open # <<>>
  /\ open' = Front(open)
  /\ UNCHANGED <<flows, over>>

Item ==
  /\ token'.class = "item"
  /\ flows = 0 => open # <<>> /\ Last(open) = token'.column
  /\ UNCHANGED <<open, flows, over>>

Enters == token'.class = "enters" /\ flows' = flows + 1 /\ UNCHANGED <<open, over>>

Leaves ==
  /\ token'.class = "leaves"
  /\ flows' = IF flows > 0 THEN flows - 1 ELSE 0
  /\ UNCHANGED <<open, over>>

Content == token'.class = "content" /\ UNCHANGED <<open, flows, over>>

Ends ==
  /\ token'.class = "ends"
  /\ flows = 0 => open = <<>>
  /\ over' = TRUE
  /\ UNCHANGED <<open, flows>>

BreaksOff == over' = TRUE /\ UNCHANGED <<open, flows, token>>

Next == ~over /\ (Opens \/ Closes \/ Item \/ Enters \/ Leaves \/ Content \/ Ends \/ BreaksOff)

Spec == Init /\ [][Next]_vars
=============================================================================
