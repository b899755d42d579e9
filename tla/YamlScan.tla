------------------------------- MODULE YamlScan -------------------------------
(***************************************************************************)
(* The scanner that yamllint's rules read: Scanner.Next over the libyaml   *)
(* scanner.  parser is the scanner's structure between two fetches.  Its   *)
(* queue keeps the tokens already handed out, so the first parser.parsed   *)
(* of parser.tokens are the stream the rules have seen, and a token number *)
(* is an index into it, counted from 0.                                    *)
(***************************************************************************)
EXTENDS YamlLex, Loops, SequencesExt, Functions

CONSTANTS Texts,          \* the texts to scan
          SimpleKeyLimit, \* how far a ':' may be from the key it makes
          MaxFlowLevel, MaxIndents

ASSUME LimitsAreNaturals ==
  /\ SimpleKeyLimit \in Nat \ {0}
  /\ MaxFlowLevel \in Nat \ {0} /\ MaxIndents \in Nat \ {0}

(* No text holds a NUL, which "z" stands for: a file with control          *)
(* characters in it is not read.                                           *)
ASSUME TextsAreText ==
  \A text \in Texts :
    text \in Seq({text[i] : i \in DOMAIN text}) /\ \A i \in DOMAIN text : text[i] # "z"

VARIABLES
  parser,
  calling, \* a call of Next is in progress
  done     \* Next has answered that there is nothing more

vars == <<parser, calling, done>>

Key(possible, required, number, at) ==
  [possible |-> possible, required |-> required, number |-> number, at |-> at]

NoKey == Key(FALSE, FALSE, 0, 1)

Token(kind, start, end) == [kind |-> kind, start |-> start, end |-> end, empty |-> FALSE]

Fresh(text) ==
  [input |-> text, pos |-> 1, ok |-> TRUE, started |-> FALSE, ended |-> FALSE,
   tokens |-> <<>>, parsed |-> 0, indents |-> <<>>,
   keys |-> <<>>, byTok |-> <<>>, allowed |-> FALSE]

At(p) == Ch(p.input, p.pos)
After(p) == Ch(p.input, p.pos + 1)
Col(p) == Column(p.input, p.pos)
Flow(p) == Len(p.keys) - 1
Indent(p) == Last(p.indents)
Error(p) == [p EXCEPT !.ok = FALSE]
Allow(p, b) == [p EXCEPT !.allowed = b]

(* One step after another, unless an error has stopped the scanner.        *)
Then(p, Step(_)) == IF p.ok THEN Step(p) ELSE p

Delivered(p) == SubSeq(p.tokens, 1, p.parsed)

(* Mutant: every number is taken for a place in the queue.                 *)
InsertAnywhere(p, number, token) ==
  [p EXCEPT !.tokens = IF number < 0 THEN Append(@, token) ELSE InsertAt(@, number + 1, token)]

(* The token number of an insertion that comes too late lies before the    *)
(* head of the queue; such a token is appended like one with no number.    *)
Insert(p, number, token) ==
  [p EXCEPT !.tokens = IF number < p.parsed THEN Append(@, token)
                       ELSE InsertAt(@, number + 1, token)]

Add(p, token) == [p EXCEPT !.tokens = Append(@, token)]

-----------------------------------------------------------------------------
(* Simple keys: a token that turns out to be a mapping key when a ':'      *)
(* follows it, one candidate for each flow level.                          *)

(* Mutant: only the distance counts.                                       *)
FarAway(p, key) == key.at + SimpleKeyLimit < p.pos

Stale(p, key) ==
  \/ Line(p.input, key.at) < Line(p.input, p.pos)
  \/ key.at + SimpleKeyLimit < p.pos

(* A candidate that the scanner has moved too far from is dropped; that is *)
(* an error when the block it stands in needs it to be a key.              *)
DropStaleKey(p, level) ==
  IF ~p.keys[level].possible \/ ~Stale(p, p.keys[level]) THEN p
  ELSE IF p.keys[level].required THEN Error(p)
  ELSE [p EXCEPT !.keys[level].possible = FALSE]

WithoutToken(byTok, number) == Restrict(byTok, DOMAIN byTok \ {number})

RemoveKey(p) ==
  LET key == Last(p.keys)
  IN IF ~key.possible THEN p
     ELSE IF key.required THEN Error(p)
     ELSE [p EXCEPT !.keys[Len(p.keys)].possible = FALSE,
                    !.byTok = WithoutToken(@, key.number)]

SaveKey(p) ==
  LET required == Flow(p) = 0 /\ Indent(p) = Col(p)
      key == Key(TRUE, required, Len(p.tokens), p.pos)
  IN IF ~p.allowed THEN p
     ELSE Then(RemoveKey(p), LAMBDA q :
            [q EXCEPT !.keys[Len(q.keys)] = key,
                      !.byTok = [n \in DOMAIN @ \cup {key.number} |->
                                   IF n = key.number THEN Len(q.keys) ELSE @[n]]])

(* Mutant: no limit.                                                       *)
IncreaseFlowFreely(p) == [p EXCEPT !.keys = Append(@, Key(FALSE, FALSE, Len(p.tokens), p.pos))]

IncreaseFlow(p) ==
  LET q == [p EXCEPT !.keys = Append(@, Key(FALSE, FALSE, Len(p.tokens), p.pos))]
  IN IF Flow(q) > MaxFlowLevel THEN Error(q) ELSE q

DecreaseFlow(p) ==
  IF Flow(p) = 0 THEN p
  ELSE [p EXCEPT !.keys = Front(@), !.byTok = WithoutToken(@, Last(p.keys).number)]

-----------------------------------------------------------------------------
(* Indentation: a deeper column opens a block, a shallower one closes all  *)
(* the blocks it leaves.  In a flow collection columns mean nothing.       *)

(* Mutant: a block in the same column opens another one.                   *)
RollIndentAgain(p, column, number, kind, at) ==
  LET q == [p EXCEPT !.indents = Append(@, column)]
  IN IF Flow(p) > 0 \/ Indent(p) > column THEN p
     ELSE IF Len(q.indents) - 1 > MaxIndents THEN Error(q)
     ELSE Insert(q, number, Token(kind, at, at))

RollIndent(p, column, number, kind, at) ==
  LET q == [p EXCEPT !.indents = Append(@, column)]
  IN IF Flow(p) > 0 \/ Indent(p) >= column THEN p
     ELSE IF Len(q.indents) - 1 > MaxIndents THEN Error(q)
     ELSE Insert(q, number, Token(kind, at, at))

UnrollIndent(p, column) ==
  LET kept == Keep(p.indents, {i \in DOMAIN p.indents : p.indents[i] <= column})
      closed == Len(p.indents) - Len(kept)
  IN IF Flow(p) > 0 THEN p
     ELSE [p EXCEPT !.indents = kept,
                    !.tokens = @ \o [i \in 1..closed |-> Token("BlockEnd", p.pos, p.pos)]]

-----------------------------------------------------------------------------
(* Between two tokens: blanks, comments and line breaks.  A tab counts as  *)
(* blank where no simple key may start.  A new line of a block may start a *)
(* key again.                                                              *)
NextStart(p) ==
  LET s == p.input
      step[i \in 1..(Len(s) + 1)] ==
        LET allowed == p.allowed \/ (i # p.pos /\ Flow(p) = 0)
            next == Past(s, i, IF Flow(p) > 0 \/ ~allowed THEN Blank ELSE {" "})
            eol == IF Ch(s, next) = "#" THEN CommentsEnd(s, next) ELSE next
        IN IF Ch(s, eol) \in Break THEN step[eol + 1] ELSE <<eol, allowed>>
  IN step[p.pos]

Approach(p) ==
  LET reached == NextStart(p)
  IN [p EXCEPT !.pos = reached[1], !.allowed = reached[2]]

(* A comment right behind a token is consumed with it, but not behind the  *)
(* '-' of a block entry.                                                   *)
LineComment(p) ==
  IF ~p.ok \/ Last(p.tokens).kind = "BlockEntry" THEN p
  ELSE [p EXCEPT !.pos = LineCommentEnd(p.input, @)]

(* Every block is closed, and a key that was still expected is an error.   *)
CloseBlocks(p) == Then(RemoveKey(UnrollIndent(p, -1)), LAMBDA q : Allow(q, FALSE))

(* The token of an indicator that is n characters long.                    *)
Indicator(p, kind, n) == [Add(p, Token(kind, p.pos, p.pos + n)) EXCEPT !.pos = @ + n]

(* A token that reaches to end, unless scanning it failed.                 *)
Scanned(p, kind, end) ==
  IF end = Failed THEN Error(p) ELSE Indicator(p, kind, end - p.pos)

-----------------------------------------------------------------------------
(* One operator for each kind of token.                                    *)

StreamStart(p) ==
  Add([p EXCEPT !.started = TRUE, !.allowed = TRUE, !.indents = <<-1>>, !.keys = Append(@, NoKey)],
      Token("StreamStart", p.pos, p.pos))

(* Nothing stops the scanner from reaching the end again; of its copies of *)
(* this token, three are enough to hand the first one out, and the model   *)
(* keeps no more.                                                          *)
StreamEnd(p) ==
  Then(CloseBlocks(p), LAMBDA q :
       IF Cardinality({i \in DOMAIN q.tokens : q.tokens[i].kind = "StreamEnd"}) < 3
       THEN Indicator(q, "StreamEnd", 0) ELSE q)

TakeDirective(p, d) ==
  IF d.stop = Failed THEN Error(p)
  ELSE [Add(p, Token(d.kind, p.pos, d.end)) EXCEPT !.pos = d.stop]

DirectiveToken(p) ==
  Then(CloseBlocks(p), LAMBDA q : TakeDirective(q, Directive(q.input, q.pos)))

DocumentIndicator(p, kind) == Then(CloseBlocks(p), LAMBDA q : Indicator(q, kind, 3))

FlowStart(p, kind) ==
  Then(Then(SaveKey(p), IncreaseFlow), LAMBDA q : Indicator(Allow(q, TRUE), kind, 1))

FlowEnd(p, kind) ==
  Then(RemoveKey(p), LAMBDA q : Indicator(Allow(DecreaseFlow(q), FALSE), kind, 1))

FlowEntry(p) == Then(RemoveKey(p), LAMBDA q : Indicator(Allow(q, TRUE), "FlowEntry", 1))

(* An entry, an explicit key or a value without a key opens its block at   *)
(* its own column, where a new line has made a key possible.               *)
OpenBlock(p, kind) ==
  IF Flow(p) > 0 THEN p
  ELSE IF ~p.allowed THEN Error(p)
  ELSE RollIndent(p, Col(p), -1, kind, p.pos)

BlockEntry(p) ==
  Then(Then(OpenBlock(p, "BlockSequenceStart"), RemoveKey), LAMBDA q :
       Indicator(Allow(q, TRUE), "BlockEntry", 1))

ExplicitKey(p) ==
  Then(Then(OpenBlock(p, "BlockMappingStart"), RemoveKey), LAMBDA q :
       Indicator(Allow(q, Flow(q) = 0), "Key", 1))

(* Mutant: the start of the mapping is inserted first, behind the KEY.     *)
ValueBlockFirst(p) ==
  LET key == Last(p.keys)
  IN Then(RollIndent(p, Column(p.input, key.at), key.number, "BlockMappingStart", key.at),
          LAMBDA q :
            LET r == Insert(q, key.number, Token("Key", key.at, key.at))
            IN Allow([r EXCEPT !.keys[Len(r.keys)].possible = FALSE,
                               !.byTok = WithoutToken(@, key.number)], FALSE))

(* The ':' after a candidate inserts the KEY, and the start of the mapping *)
(* when the key opens one, in front of the token that is the key.          *)
ValueOfSimpleKey(p) ==
  LET key == Last(p.keys)
      q == Insert(p, key.number, Token("Key", key.at, key.at))
  IN Then(RollIndent(q, Column(p.input, key.at), key.number, "BlockMappingStart", key.at),
          LAMBDA r : Allow([r EXCEPT !.keys[Len(r.keys)].possible = FALSE,
                                     !.byTok = WithoutToken(@, key.number)], FALSE))

Value(p) ==
  Then(DropStaleKey(p, Len(p.keys)), LAMBDA q :
       Then(IF Last(q.keys).possible THEN ValueOfSimpleKey(q)
            ELSE Then(OpenBlock(q, "BlockMappingStart"), LAMBDA r : Allow(r, Flow(r) = 0)),
            LAMBDA r : Indicator(r, "Value", 1)))

(* Aliases, anchors, tags and quoted scalars: each may be a key, and none  *)
(* may be followed by one.                                                 *)
KeyCandidate(p, kind, end) ==
  Then(SaveKey(p), LAMBDA q : Scanned(Allow(q, FALSE), kind, end))

Alias(p) == KeyCandidate(p, "Alias", AnchorEnd(p.input, p.pos))
Anchor(p) == KeyCandidate(p, "Anchor", AnchorEnd(p.input, p.pos))
Tag(p) == KeyCandidate(p, "Tag", TagEnd(p.input, p.pos))

QuotedScalar(p) ==
  LET end == QuotedEnd(p.input, p.pos)
      q == KeyCandidate(p, "Scalar", end)
  IN IF q.ok THEN [q EXCEPT !.tokens[Len(q.tokens)].empty = QuotesNothing(p.input, p.pos, end)] ELSE q

TakeScalar(p, scalar, allowed) ==
  IF scalar.stop = Failed THEN Error(p)
  ELSE [Add(p, [Token("Scalar", p.pos, scalar.end) EXCEPT !.empty = scalar.empty])
          EXCEPT !.pos = scalar.stop, !.allowed = allowed]

(* A plain scalar stops at the character that ends it, which may be on a   *)
(* later line: then a key may follow after all.                            *)
TakePlain(p, scalar) == TakeScalar(p, scalar, scalar.broken)

PlainScalar(p) ==
  Then(SaveKey(p), LAMBDA q : TakePlain(q, Plain(q.input, q.pos, Indent(q) + 1, Flow(q) > 0)))

LiteralOrFolded(p) ==
  Then(RemoveKey(p), LAMBDA q : TakeScalar(q, BlockScalar(q.input, q.pos, Indent(q)), TRUE))

-----------------------------------------------------------------------------
(* Which of them the characters at the position call for.                  *)

Indicators == Blankz \cup {"-", "?", ":", ",", "[", "]", "{", "}", "#", "&", "*", "!", "|",
                           ">", "'", "\"", "%", "@", "grave"}

StartsPlain(p) ==
  \/ At(p) \notin Indicators
  \/ At(p) = "-" /\ After(p) \notin Blank
  \/ Flow(p) = 0 /\ At(p) \in {"?", ":"} /\ After(p) \notin Blankz

InFlowOrBeforeBlank(p) == Flow(p) > 0 \/ After(p) \in Blankz

NextKind(p) ==
  LET c == At(p)
  IN CASE c = "z" -> "StreamEnd"
       [] c = "%" /\ Col(p) = 0 -> "Directive"
       [] DocumentMarkerAt(p.input, p.pos, "-") -> "DocumentStart"
       [] DocumentMarkerAt(p.input, p.pos, ".") -> "DocumentEnd"
       [] c = "[" -> "FlowSequenceStart"
       [] c = "{" -> "FlowMappingStart"
       [] c = "]" -> "FlowSequenceEnd"
       [] c = "}" -> "FlowMappingEnd"
       [] c = "," -> "FlowEntry"
       [] c = "-" /\ After(p) \in Blankz -> "BlockEntry"
       [] c = "?" /\ InFlowOrBeforeBlank(p) -> "Key"
       [] c = ":" /\ InFlowOrBeforeBlank(p) -> "Value"
       [] c = "*" -> "Alias"
       [] c = "&" -> "Anchor"
       [] c = "!" -> "Tag"
       [] c \in {"|", ">"} /\ Flow(p) = 0 -> "Block"
       [] c \in Quotes -> "Quoted"
       [] OTHER -> IF StartsPlain(p) THEN "Plain" ELSE "None"

-----------------------------------------------------------------------------
Start(text) ==
  /\ parser = Fresh(text)
  /\ calling = FALSE
  /\ done = FALSE

Init == \E text \in Texts : Start(text)

(* Next is called again, and answers at once when the stream is over or an *)
(* error has ended it.                                                     *)
Call ==
  /\ ~calling /\ ~done
  /\ IF parser.ended \/ ~parser.ok
     THEN done' = TRUE /\ UNCHANGED calling
     ELSE calling' = TRUE /\ UNCHANGED done
  /\ UNCHANGED parser

(* The head of the queue can be handed out when two tokens follow it and   *)
(* it cannot become a key any more.                                        *)
Behind == parser.parsed < Len(parser.tokens) - 2

HeadLevel == IF parser.parsed \in DOMAIN parser.byTok THEN {parser.byTok[parser.parsed]} ELSE {}

(* Mutant: the head does not wait.                                         *)
HeadNeverWaits == FALSE

HeadMayBeKey ==
  Behind /\ \E level \in HeadLevel : LET q == DropStaleKey(parser, level)
                                     IN q.ok /\ q.keys[level].possible

HeadIsLost == Behind /\ \E level \in HeadLevel : ~DropStaleKey(parser, level).ok

Wanting == calling /\ parser.ok /\ (~Behind \/ HeadMayBeKey)

FetchFirst ==
  /\ Wanting /\ ~parser.started
  /\ parser' = StreamStart(parser)
  /\ UNCHANGED <<calling, done>>

(* One token is fetched, with what stands before it and the blocks its     *)
(* column closes.                                                          *)
Fetch ==
  /\ Wanting /\ parser.started
  /\ \E a \in {Approach(parser)} : \E p \in {UnrollIndent(a, Col(a))} :
       \E kind \in {NextKind(p)} :
         \/ kind = "StreamEnd" /\ parser' = StreamEnd(p)
         \/ kind = "Directive" /\ parser' = DirectiveToken(p)
         \/ kind \in {"DocumentStart", "DocumentEnd"} /\ parser' = DocumentIndicator(p, kind)
         \/ /\ kind \in {"FlowSequenceStart", "FlowMappingStart"}
            /\ parser' = LineComment(FlowStart(p, kind))
         \/ /\ kind \in {"FlowSequenceEnd", "FlowMappingEnd"}
            /\ parser' = LineComment(FlowEnd(p, kind))
         \/ kind = "FlowEntry" /\ parser' = LineComment(FlowEntry(p))
         \/ kind = "BlockEntry" /\ parser' = LineComment(BlockEntry(p))
         \/ kind = "Key" /\ parser' = LineComment(ExplicitKey(p))
         \/ kind = "Value" /\ parser' = LineComment(Value(p))
         \/ kind = "Alias" /\ parser' = LineComment(Alias(p))
         \/ kind = "Anchor" /\ parser' = LineComment(Anchor(p))
         \/ kind = "Tag" /\ parser' = LineComment(Tag(p))
         \/ kind = "Block" /\ parser' = LineComment(LiteralOrFolded(p))
         \/ kind = "Quoted" /\ parser' = LineComment(QuotedScalar(p))
         \/ kind = "Plain" /\ parser' = LineComment(PlainScalar(p))
         \/ kind = "None" /\ parser' = Error(p)
  /\ UNCHANGED <<calling, done>>

(* The head goes to the caller.                                            *)
Return ==
  /\ calling /\ parser.ok /\ Behind /\ ~HeadMayBeKey /\ ~HeadIsLost
  /\ LET token == parser.tokens[parser.parsed + 1]
         p == IF HeadLevel = {} THEN parser
              ELSE DropStaleKey(parser, CHOOSE level \in HeadLevel : TRUE)
     IN parser' = [p EXCEPT !.parsed = @ + 1, !.ended = (token.kind = "StreamEnd")]
  /\ calling' = FALSE
  /\ UNCHANGED done

(* A key that had to come did not: nothing more is handed out.             *)
LoseHead ==
  /\ calling /\ parser.ok /\ HeadIsLost
  /\ parser' = Error(parser)
  /\ UNCHANGED <<calling, done>>

(* The error ends the call and the stream, with what was still queued.     *)
Fail ==
  /\ calling /\ ~parser.ok
  /\ calling' = FALSE /\ done' = TRUE
  /\ UNCHANGED parser

Finished == done /\ UNCHANGED vars

(* A caller that asks for tokens until there are no more.                  *)
Next == Call \/ FetchFirst \/ Fetch \/ Return \/ LoseHead \/ Fail \/ Finished

Spec == Init /\ [][Next]_vars /\ WF_vars(Next)

-----------------------------------------------------------------------------
FlowStarts == {"FlowSequenceStart", "FlowMappingStart"}
FlowEnds == {"FlowSequenceEnd", "FlowMappingEnd"}
BlockStarts == {"BlockSequenceStart", "BlockMappingStart"}

(* The positions of the text and the queue stay inside their bounds, and   *)
(* the stacks inside their limits; one more entry is where an error stops. *)
TypeOK ==
  /\ calling \in BOOLEAN /\ done \in BOOLEAN
  /\ parser.pos \in 1..(Len(parser.input) + 1)
  /\ parser.parsed \in 0..Len(parser.tokens)
  /\ \A i \in DOMAIN parser.tokens :
       /\ parser.tokens[i].start \in 1..(Len(parser.input) + 1)
       /\ parser.tokens[i].end \in parser.tokens[i].start..(Len(parser.input) + 1)
  /\ Len(parser.keys) \in 0..(MaxFlowLevel + 2)
  /\ Len(parser.indents) \in 0..(MaxIndents + 2)
  /\ \A level \in DOMAIN parser.keys : parser.keys[level].possible \in BOOLEAN

(* A flow collection that does not start with a node: the level it opens   *)
(* had no candidate, and closing it forgets the candidacy of the           *)
(* collection itself.                                                      *)
StartsWithoutNode(i) ==
  /\ parser.tokens[i].kind \in FlowStarts
  /\ i < Len(parser.tokens)
  /\ parser.tokens[i + 1].kind \notin {"Scalar", "Alias", "Anchor", "Tag"} \cup FlowStarts

(* A token that comes after the token it stands in front of.               *)
Late(i) ==
  \E j \in 1..(i - 1) : parser.tokens[j].start > parser.tokens[i].start

(* Tokens are handed out in the order of their positions: a KEY is never   *)
(* noticed when the token that is the key has left the queue, unless that  *)
(* token is a flow collection that does not start with a node              *)
(* (yaml_parser_fetch_value, yaml_parser_decrease_flow_level).             *)
TokensInOrder ==
  \A i \in 1..parser.parsed :
    Late(i) => \E j \in 1..(i - 1) : /\ StartsWithoutNode(j)
                                     /\ parser.tokens[j].start = parser.tokens[i].start

(* What has been handed out is not touched again: no insertion reaches     *)
(* behind the head of the queue (yaml_insert_token).                       *)
HandedOutStays == [][IsPrefix(Delivered(parser), Delivered(parser'))]_vars

(* A block begins with what made the scanner open it, even when its start  *)
(* is put in front of a token fetched long before.                         *)
OpensWithItsFirst ==
  \A i \in 1..(parser.parsed - 1) :
    /\ parser.tokens[i].kind = "BlockSequenceStart" => parser.tokens[i + 1].kind = "BlockEntry"
    /\ parser.tokens[i].kind = "BlockMappingStart" => parser.tokens[i + 1].kind \in {"Key", "Value"}

FlowDepth(i, j) ==
  Cardinality({k \in i..j : parser.tokens[k].kind \in FlowStarts})
  - Cardinality({k \in i..j : parser.tokens[k].kind \in FlowEnds})

(* A key without '?' has its ':' on its own line and no further than the   *)
(* limit, also when the limit is passed while its token waits in the queue *)
(* (yaml_simple_key_is_valid).                                             *)
KeysAreShort ==
  \A i \in 1..parser.parsed :
    LET key == parser.tokens[i]
        values == {j \in (i + 1)..parser.parsed :
                     parser.tokens[j].kind = "Value" /\ FlowDepth(i, j) = 0}
    IN key.kind = "Key" /\ key.start = key.end /\ values # {} =>
         LET value == parser.tokens[Min(values)]
         IN /\ Line(parser.input, value.start) = Line(parser.input, key.start)
            /\ value.start - key.start <= SimpleKeyLimit

Covered(j) ==
  \E i \in 1..parser.parsed : j \in parser.tokens[i].start..(parser.tokens[i].end - 1)

(* A stream that reaches its end has a token for every character that is   *)
(* neither blank nor part of a comment: the look-ahead of the comment      *)
(* scanners consumes no content.                                           *)
NothingSkipped ==
  parser.ended =>
    \A j \in DOMAIN parser.input :
      \/ Ch(parser.input, j) \in Blank \cup Break
      \/ Covered(j)
      \/ \E k \in 1..j : /\ Ch(parser.input, k) = "#" /\ ~Covered(k)
                         /\ Line(parser.input, k) = Line(parser.input, j)

(* Every call of Next comes back (Scanner.Next).                           *)
Answers == calling ~> ~calling

-----------------------------------------------------------------------------
Class(p, i) ==
  LET kind == p.tokens[i].kind
      late == \E j \in 1..(i - 1) : p.tokens[j].start > p.tokens[i].start
  IN CASE kind \in BlockStarts -> "opens"
       [] kind = "BlockEnd" -> "closes"
       [] kind \in FlowStarts -> "enters"
       [] kind \in FlowEnds -> "leaves"
       [] kind \in {"Key", "BlockEntry"} /\ ~late -> "item"
       [] kind = "StreamEnd" -> "ends"
       [] OTHER -> "content"

Nesting(p) ==
  LET after[i \in 0..p.parsed] ==
        IF i = 0 THEN [open |-> <<>>, flows |-> 0]
        ELSE LET kind == p.tokens[i].kind
             IN CHOOSE m \in {
                  CASE kind \in BlockStarts ->
                         [n EXCEPT !.open = Append(@, Column(p.input, p.tokens[i].start))]
                    [] kind = "BlockEnd" /\ n.open # <<>> -> [n EXCEPT !.open = Front(@)]
                    [] kind \in FlowStarts -> [n EXCEPT !.flows = @ + 1]
                    [] kind \in FlowEnds /\ n.flows > 0 -> [n EXCEPT !.flows = @ - 1]
                    [] OTHER -> n : n \in {after[i - 1]}} : TRUE
  IN after[p.parsed]

Promise == INSTANCE TokenStream WITH
  open <- Nesting(parser).open,
  flows <- Nesting(parser).flows,
  token <- IF parser.parsed = 0 THEN [class |-> "none", column |-> 0]
           ELSE [class |-> Class(parser, parser.parsed),
                 column |-> Column(parser.input, parser.tokens[parser.parsed].start)],
  over <- parser.ended \/ ~parser.ok

(* Every token the scanner hands out is one that the token stream allows.  *)
KeepsNesting == Promise!Spec
=============================================================================
