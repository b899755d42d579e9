------------------------------ MODULE YamlIndent ------------------------------
(***************************************************************************)
(* yamllint's indentation rule on the scanner's stream.  The rule sees a   *)
(* token when the two after it have been handed out, or the stream is      *)
(* over.  It keeps a stack of what the token is inside: block and flow     *)
(* collections, the entry of a sequence, the key and the value of a pair,  *)
(* each with the column its lines must start at.                           *)
(***************************************************************************)
EXTENDS YamlScan

CONSTANTS Spaces,    \* settings of `spaces`: numbers or Consistent
          Consistent,
          Sequences  \* settings of `indent-sequences`

ASSUME SettingsAreYamllints ==
  /\ Spaces \subseteq Nat \cup {Consistent}
  /\ Sequences \subseteq {"true", "false", "consistent", "whatever"}

VARIABLES
  rule,    \* the rule's state
  checked  \* how many tokens it has seen

indentVars == <<vars, rule, checked>>

Parent(typ, indent) ==
  [typ |-> typ, indent |-> indent, line |-> 0, explicit |-> FALSE, implicit |-> FALSE]

(* The state a file starts with under the two settings.                    *)
FreshRule(spaces, sequences) ==
  [stack |-> <<Parent("ROOT", 0)>>, curLine |-> -1, curLineIndent |-> 0,
   spaces |-> spaces, sequences |-> sequences, problems |-> <<>>,
   setting |-> [spaces |-> spaces, sequences |-> sequences]]

NoToken == Token("none", 1, 1)

TokenAt(i) == IF i \in 1..parser.parsed THEN parser.tokens[i] ELSE NoToken

Window(i) == [curr |-> TokenAt(i), prev |-> TokenAt(i - 1),
              next |-> TokenAt(i + 1), nextnext |-> TokenAt(i + 2)]

StartLine(token) == Line(parser.input, token.start)
EndLine(token) == Line(parser.input, token.end)
StartColumn(token) == Column(parser.input, token.start)

Top(r) == Last(r.stack)
Push(r, parent) == [r EXCEPT !.stack = Append(@, parent)]

Complain(r, token, what) ==
  [r EXCEPT !.problems = Append(@, [line |-> StartLine(token), what |-> what])]

Assertion(r, token) == Complain(r, token, "cannot infer indentation")

(* Mutant: every step decides.                                             *)
SettleAgain(r, base, token) == [r EXCEPT !.spaces = StartColumn(token) - base]

(* The first step that is taken decides what the steps are.                *)
Settle(r, base, token) ==
  IF r.spaces = Consistent THEN [r EXCEPT !.spaces = StartColumn(token) - base] ELSE r

PushDetected(r, parent, base, token) ==
  LET q == Settle(r, base, token)
  IN Push(q, [parent EXCEPT !.indent = base + q.spaces])

(* The line a token really ends on, counted from 1: a scalar's end mark    *)
(* may stand on a later line.                                              *)
RealEndLine(token) ==
  LET s == parser.input
      low == IF token.start > 1 THEN token.start - 1 ELSE 1
      text == Max({k \in low..(token.end - 1) : Ch(s, k) \notin Blank \cup Break} \cup {low - 1})
      trailing == {k \in (text + 1)..(token.end - 1) : Ch(s, k) \in Break}
  IN IF token.kind = "Scalar" THEN EndLine(token) + 1 - Cardinality(trailing) ELSE EndLine(token) + 1

IsExplicitKey(token) == token.start < token.end

Visible(token) == token.kind \notin {"StreamStart", "StreamEnd", "BlockEnd"} /\ ~token.empty

-----------------------------------------------------------------------------
(* Where the first token of a line must stand: what closes a flow          *)
(* collection under the line that opened it, the content of an explicit    *)
(* key one step further than its '?'.                                      *)
Judge(r, token) ==
  LET top == Top(r)
      closes == token.kind \in FlowEnds
      underKey == ~closes /\ top.typ = "KEY" /\ top.explicit /\ token.kind # "Value"
      q == IF underKey THEN Settle(r, top.indent, token) ELSE r
      expected == IF closes THEN top.line ELSE IF underKey THEN top.indent + q.spaces ELSE top.indent
      found == StartColumn(token)
  IN IF ~Visible(token) \/ StartLine(token) + 1 <= r.curLine THEN r
     ELSE [(IF found = expected THEN q ELSE Complain(q, token, "wrong indentation"))
             EXCEPT !.curLineIndent = found]

(* Mutant: lines are counted from 0.                                       *)
PassedZeroBased(r, token) == IF Visible(token) THEN [r EXCEPT !.curLine = EndLine(token)] ELSE r

Passed(r, token) == IF Visible(token) THEN [r EXCEPT !.curLine = RealEndLine(token)] ELSE r

-----------------------------------------------------------------------------
(* What each token opens.                                                  *)

(* The scanner promises an opened block's first token on the same line.    *)
OpensWrongly(w) ==
  /\ w.curr.kind \in {"BlockMappingStart", "BlockSequenceStart"}
  /\ \/ w.next.kind # IF w.curr.kind = "BlockMappingStart" THEN "Key" ELSE "BlockEntry"
     \/ StartLine(w.next) # StartLine(w.curr)

PushFlow(r, w, typ) ==
  LET parent == [Parent(typ, StartColumn(w.next)) EXCEPT !.line = r.curLineIndent]
  IN IF StartLine(w.next) = StartLine(w.curr) THEN Push(r, parent)
     ELSE PushDetected(r, parent, r.curLineIndent, w.next)

(* Mutant: the implied sequence is forgotten.                              *)
PushEntryBare(r, w) ==
  LET column == StartColumn(w.curr)
  IN IF StartLine(w.next) = EndLine(w.curr) \/ StartColumn(w.next) = column
     THEN Push(r, Parent("BENT", StartColumn(w.next)))
     ELSE PushDetected(r, Parent("BENT", 0), column, w.next)

(* An entry without a block sequence around it is in one that its key's    *)
(* column implies.                                                         *)
PushEntry(r, w) ==
  LET column == StartColumn(w.curr)
      q == IF Top(r).typ = "BSEQ" THEN r
           ELSE Push(r, [Parent("BSEQ", column) EXCEPT !.implicit = TRUE])
  IN IF StartLine(w.next) = EndLine(w.curr) \/ StartColumn(w.next) = column
     THEN Push(q, Parent("BENT", StartColumn(w.next)))
     ELSE PushDetected(q, Parent("BENT", 0), column, w.next)

PushKey(r, w) == Push(r, [Parent("KEY", Top(r).indent) EXCEPT !.explicit = IsExplicitKey(w.curr)])

(* A sequence under a key.  -1 asks for any column further than the key's. *)
PushSequence(r, next) ==
  LET parent == Top(r).indent
      level == StartColumn(next) = parent
      q == IF r.sequences = "consistent"
           THEN [r EXCEPT !.sequences = IF level THEN "false" ELSE "true"] ELSE r
  IN IF r.sequences = "false" \/ (r.sequences # "true" /\ level)
     THEN Push(q, Parent("VAL", parent))
     ELSE IF r.sequences = "true" /\ r.spaces = Consistent /\ level
     THEN Push(r, Parent("VAL", -1))
     ELSE PushDetected(q, Parent("VAL", 0), parent, next)

PushValue(r, w) ==
  IF w.next.kind \in {"BlockEnd", "Key"} \cup FlowEnds THEN r
  ELSE IF Top(r).explicit THEN PushDetected(r, Parent("VAL", 0), Top(r).indent, w.next)
  ELSE IF w.prev # NoToken /\ StartLine(w.next) = StartLine(w.prev)
  THEN Push(r, Parent("VAL", StartColumn(w.next)))
  ELSE IF w.next.kind \in {"BlockSequenceStart", "BlockEntry"} THEN PushSequence(r, w.next)
  ELSE PushDetected(r, Parent("VAL", 0), Top(r).indent, w.next)

Open(r, w) ==
  CASE w.curr.kind = "BlockMappingStart" -> Push(r, Parent("BMAP", StartColumn(w.curr)))
    [] w.curr.kind = "BlockSequenceStart" -> Push(r, Parent("BSEQ", StartColumn(w.curr)))
    [] w.curr.kind = "FlowMappingStart" -> PushFlow(r, w, "FMAP")
    [] w.curr.kind = "FlowSequenceStart" -> PushFlow(r, w, "FSEQ")
    [] w.curr.kind = "BlockEntry" ->
         IF w.next.kind \in {"BlockEntry", "BlockEnd"} THEN r ELSE PushEntry(r, w)
    [] w.curr.kind = "Key" -> PushKey(r, w)
    [] w.curr.kind = "Value" -> PushValue(r, w)
    [] OTHER -> r

-----------------------------------------------------------------------------
(* What a token ends: the collection it closes, and every entry, key and   *)
(* value that is complete with it.  A collection is closed once.  One turn *)
(* of the loop leaves the stack of a certain height.                       *)
Unstack(stack, w, left) ==
  LET curr == w.curr.kind
      next == w.next.kind
      n == left.height
      top == stack[n]
      below == stack[n - 1]
      closed == /\ ~left.consumed
                /\ \/ top.typ = "FSEQ" /\ curr = "FlowSequenceEnd"
                   \/ top.typ = "FMAP" /\ curr = "FlowMappingEnd"
                   \/ top.typ \in {"BMAP", "BSEQ"} /\ curr = "BlockEnd" /\ ~top.implicit
      implied == top.typ = "BENT" /\ below.implicit /\ curr \notin {"BlockEntry", "Anchor", "Tag"}
                 /\ next # "BlockEntry"
      entered == top.typ = "BENT" /\ next \in {"BlockEntry", "BlockEnd"}
      valued == top.typ = "VAL" /\ curr \notin {"Value", "Anchor", "Tag"}
      keyed == top.typ = "KEY" /\ next \in {"BlockEnd", "Key"} \cup FlowEnds
  IN IF closed THEN [height |-> n - 1, consumed |-> TRUE]
     ELSE IF implied \/ (valued /\ below.typ = "KEY") THEN [height |-> n - 2, consumed |-> left.consumed]
     ELSE IF entered \/ keyed THEN [height |-> n - 1, consumed |-> left.consumed]
     ELSE left

(* Every turn that does anything lowers the stack.                         *)
Close(r, w) ==
  LET left[turns \in 0..Len(r.stack)] ==
        IF turns = 0 THEN [height |-> Len(r.stack), consumed |-> FALSE]
        ELSE Unstack(r.stack, w, left[turns - 1])
      q == [r EXCEPT !.stack = SubSeq(@, 1, left[Len(r.stack)].height)]
  IN IF Top(q).typ = "VAL" /\ w.curr.kind \notin {"Value", "Anchor", "Tag"}
     THEN Assertion(q, w.curr) ELSE q

(* A truncated stream has no token after one that needs it.                *)
Truncated(w) ==
  w.next = NoToken /\ w.curr.kind \in FlowStarts \cup {"BlockEntry", "Value"}

(* Mutant: whatever stays on the key's line is passed over.                *)
PastTheLine(w) ==
  IF /\ w.curr.kind = "Value" /\ w.prev # NoToken /\ w.nextnext # NoToken
     /\ StartLine(w.next) = StartLine(w.prev) /\ StartLine(w.next) < StartLine(w.nextnext)
  THEN [w EXCEPT !.next = w.nextnext] ELSE w

(* A value whose anchor or tag alone stays on the key's line: what stands  *)
(* on a later line is what comes next, for what the value opens and for    *)
(* what it ends.                                                           *)
PastProperty(w) ==
  IF /\ w.curr.kind = "Value" /\ w.next.kind \in {"Anchor", "Tag"}
     /\ w.prev # NoToken /\ w.nextnext # NoToken
     /\ StartLine(w.next) = StartLine(w.prev) /\ StartLine(w.next) < StartLine(w.nextnext)
  THEN [w EXCEPT !.next = w.nextnext] ELSE w

CheckToken(r, w) ==
  LET q == Passed(Judge(r, w.curr), w.curr)
      v == PastProperty(w)
  IN IF Truncated(w) THEN Assertion(r, w.curr)
     ELSE IF OpensWrongly(w) \/ (w.curr.kind = "Value" /\ Top(q).typ # "KEY")
     THEN Assertion(q, w.curr)
     ELSE Close(Open(q, v), v)

-----------------------------------------------------------------------------
IndentStart(text, spaces, sequences) ==
  /\ Start(text)
  /\ checked = 0
  /\ rule = FreshRule(spaces, sequences)

IndentInit ==
  \E text \in Texts, spaces \in Spaces, sequences \in Sequences :
    IndentStart(text, spaces, sequences)

Ready == checked < parser.parsed /\ (done \/ checked + 2 < parser.parsed)

Check ==
  /\ ~calling /\ Ready
  /\ \E r \in {CheckToken(rule, Window(checked + 1))} : rule' = r
  /\ checked' = checked + 1
  /\ UNCHANGED vars

Scan ==
  /\ ~Ready \/ calling
  /\ Call \/ FetchFirst \/ Fetch \/ Return \/ LoseHead \/ Fail
  /\ UNCHANGED <<rule, checked>>

IndentFinished == done /\ ~Ready /\ UNCHANGED indentVars

IndentNext == Scan \/ Check \/ IndentFinished

IndentSpec == IndentInit /\ [][IndentNext]_indentVars

-----------------------------------------------------------------------------
Over == done /\ checked = parser.parsed

Complained(what) == {i \in DOMAIN rule.problems : rule.problems[i].what = what}

(* What the stack is made of: an entry lies on its sequence, a value on    *)
(* its key, and the root under everything.  The rule pops two parents at   *)
(* once and looks at the one below the top (checkToken).                   *)
StackShape ==
  \A n \in DOMAIN rule.stack :
    LET typ == rule.stack[n].typ
        below == IF n = 1 THEN "none" ELSE rule.stack[n - 1].typ
    IN /\ (typ = "ROOT") = (n = 1)
       /\ typ = "BENT" => below = "BSEQ"
       /\ typ = "VAL" => below = "KEY"

Grammar == INSTANCE YamlGrammar

WellFormed == parser.ended /\ Grammar!IsYaml([i \in 1..parser.parsed |-> parser.tokens[i].kind])

(* The states of the rule before each token, and after the last.           *)
History ==
  FoldLeft(LAMBDA rs, i : Append(rs, CheckToken(Last(rs), Window(i))),
           <<FreshRule(rule.setting.spaces, rule.setting.sequences)>>, [i \in 1..parser.parsed |-> i])

(* What a token stands in, by the tokens: the content of a node in the key *)
(* or the value or the entry that it belongs to, what begins the next pair *)
(* or ends a collection in that collection itself.  Behind an anchor or a  *)
(* tag with no content the value may be there still.                       *)
Inside(i) ==
  LET kind == parser.tokens[i].kind
      place == Max({j \in 1..(i - 1) : parser.tokens[j].kind \notin {"Anchor", "Tag"}})
      content == kind \in {"Scalar", "Alias"} \cup BlockStarts \cup FlowStarts
      ends == kind \in {"Key", "BlockEnd"} \cup FlowEnds /\ place = i - 1
  IN CASE content /\ parser.tokens[place].kind = "Key" -> {"KEY"}
       [] content /\ parser.tokens[place].kind = "Value" -> {"VAL"}
       [] content /\ parser.tokens[place].kind = "BlockEntry" -> {"BENT"}
       [] ends -> {"BMAP", "BSEQ", "FMAP", "FSEQ"}
       [] OTHER -> {"ROOT", "BMAP", "BSEQ", "FMAP", "FSEQ", "BENT", "KEY", "VAL"}

(* On well-formed YAML the rule follows the nesting of the tokens to the   *)
(* end: it never reports that it cannot infer the indentation, each token  *)
(* finds on top of the stack what it stands in, and at the end of the      *)
(* stream nothing is left that a later document would be judged against.   *)
FollowsTheNesting ==
  Over /\ WellFormed =>
    /\ rule.stack = <<Parent("ROOT", 0)>> /\ Complained("cannot infer indentation") = {}
    /\ LET before == History IN \A i \in 2..parser.parsed : Top(before[i]).typ \in Inside(i)

(* A line is judged once, by its first token, wherever the tokens before   *)
(* it ended.                                                               *)
JudgedOnce ==
  \A i, j \in Complained("wrong indentation") :
    i # j => rule.problems[i].line # rule.problems[j].line

(* How far each block mapping stands inside the mapping around it, and how *)
(* the sequences that are values of a mapping stand below their key, read  *)
(* off the tokens.                                                         *)
Layout ==
  FoldLeft(LAMBDA l, i :
             LET t == parser.tokens[i]
                 inMapping == l.open # <<>> /\ Last(l.open).kind = "BlockMappingStart"
                 isValue == inMapping /\ parser.tokens[i - 1].kind = "Value"
             IN CASE t.kind = "BlockMappingStart" ->
                       [l EXCEPT !.open = Append(@, t),
                                 !.steps = @ \cup IF isValue THEN {StartColumn(t) - StartColumn(Last(l.open))}
                                                  ELSE {}]
                  [] t.kind = "BlockSequenceStart" ->
                       [l EXCEPT !.open = Append(@, t),
                                 !.sequences = @ \cup IF isValue THEN {"indented"} ELSE {}]
                  [] t.kind = "BlockEntry" /\ inMapping -> [l EXCEPT !.sequences = @ \cup {"level"}]
                  [] t.kind = "BlockEnd" -> [l EXCEPT !.open = Front(@)]
                  [] OTHER -> l,
           [open |-> <<>>, steps |-> {}, sequences |-> {}], [i \in 1..parser.parsed |-> i])

Silent ==
  /\ Over /\ WellFormed /\ rule.problems = <<>>
  /\ \A i \in 1..parser.parsed : parser.tokens[i].kind = "Key" => ~IsExplicitKey(parser.tokens[i])

(* When the rule says nothing of a text, every mapping inside a mapping is *)
(* indented by the same number of columns, the configured one or under     *)
(* "consistent" that of the first one (the option spaces), and sequences   *)
(* under keys are indented or not as indent-sequences says, under          *)
(* "consistent" all of them alike.                                         *)
SilentMeansUniform ==
  Silent => LET steps == Layout.steps
                found == Layout.sequences
            IN /\ Cardinality(steps) <= 1
               /\ rule.setting.spaces # Consistent => steps \subseteq {rule.setting.spaces}
               /\ CASE rule.setting.sequences = "true" -> found \subseteq {"indented"}
                    [] rule.setting.sequences = "false" -> found \subseteq {"level"}
                    [] rule.setting.sequences = "consistent" -> Cardinality(found) <= 1
                    [] OTHER -> TRUE
=============================================================================
