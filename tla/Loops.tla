--------------------------------- MODULE Loops ---------------------------------
(***************************************************************************)
(* The loop that appends, to an empty slice, what it keeps of another: the *)
(* stages of the report are such loops, and so is the listing of a         *)
(* directory. Written as a recursive function, so that it can be proved    *)
(* about.                                                                  *)
(***************************************************************************)
EXTENDS Integers, Sequences

\* What a loop keeps that appends the elements of fs at the places S.
Keep(fs, S) ==
  LET kept[i \in 0 .. Len(fs)] ==
        IF i = 0 THEN <<>>
        ELSE IF i \in S THEN Append(kept[i - 1], fs[i]) ELSE kept[i - 1]
  IN kept[Len(fs)]
=============================================================================
