------------------------------ MODULE YamlTokens ------------------------------
(***************************************************************************)
(* What the yamllint pass reads: a text as the scanner's tokens, its       *)
(* comments and its lines.  A position is one number, PerLine * line +     *)
(* column, so that comparing positions compares rune offsets.              *)
(*                                                                         *)
(* A token is [kind, start, end, value, plain]; a comment is               *)
(* [at, dir, ids, spaced]: where its '#' stands, which yamllint directive  *)
(* it spells ("none" for an ordinary comment), the rule ids the directive  *)
(* names, and whether a space follows the '#'.  A text is                  *)
(* [tokens, comments, lines, offences, disableFile]: offences are the      *)
(* <<line, rule>> pairs the line rules complain about.                     *)
(***************************************************************************)
EXTENDS Integers, Sequences, FiniteSets, SequencesExt, FiniteSetsExt

PerLine == 100

Line(at) == at \div PerLine
Column(at) == at % PerLine

Nil == [kind |-> "nil", start |-> 0, end |-> 0, value |-> "", plain |-> FALSE]

Problem(at, rule, what) == [at |-> at, rule |-> rule, what |-> what]

TokenAt(text, i) == IF i \in DOMAIN text.tokens THEN text.tokens[i] ELSE Nil

(* A comment shares its line with the token before it, unless that token   *)
(* ends at the start of the line, as a block scalar does.                  *)
IsInline(c, before) ==
  /\ before.kind # "StreamStart"
  /\ Line(c.at) = Line(before.end)
  /\ before.end = PerLine \/ Column(before.end) # 0

(* The comments of the gap between two consecutive tokens; two tokens that *)
(* share a line leave none.                                                *)
Gap(text, curr, next) ==
  IF /\ next # Nil
     /\ Line(curr.end) = Line(next.start)
     /\ curr.kind # "StreamStart" /\ next.kind # "StreamEnd"
  THEN <<>>
  ELSE SelectSeq(text.comments, LAMBDA c : c.at >= curr.end /\ (next = Nil \/ c.at < next.start))

(* The rule comments: too close to the content before it, then no space    *)
(* after the '#'.  minSpaces is -1 when the configuration switches it off. *)
CommentsCheck(c, before, conf) ==
  (IF conf.minSpaces # -1 /\ IsInline(c, before) /\ c.at - before.end < conf.minSpaces
   THEN <<Problem(c.at, "comments", "too few spaces")>> ELSE <<>>)
  \o (IF conf.startingSpace /\ ~c.spaced
      THEN <<Problem(c.at, "comments", "missing starting space")>> ELSE <<>>)

LineIndent(text, at) ==
  Min({Column(t.start) : t \in {u \in ToSet(text.tokens) : Line(u.start) = Line(at)}})

(* The rule comments-indentation.  prev is the comment before c in the     *)
(* same gap, if any.                                                       *)
CommentIndentationCheck(text, c, before, after, prev) ==
  LET next == IF after.kind \in {"nil", "StreamEnd"} THEN 0 ELSE Column(after.start)
      above == IF before.kind = "StreamStart" THEN 0 ELSE LineIndent(text, before.start)
      expected == IF prev # <<>> /\ ~IsInline(prev[1], before)
                  THEN Column(prev[1].at)
                  ELSE Max({above, next})
  IN IF \/ before.kind # "StreamStart" /\ Line(before.end) = Line(c.at)
        \/ Column(c.at) \in {expected, next}
     THEN <<>>
     ELSE <<Problem(c.at, "comments-indentation", "not indented like content")>>
=============================================================================
