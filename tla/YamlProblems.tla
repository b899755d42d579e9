----------------------------- MODULE YamlProblems -----------------------------
(***************************************************************************)
(* What the yamllint pass promises, with no streaming, no cache, no linter *)
(* and no worker: each file is linted once, and what it reports is a set   *)
(* of problems read off the whole text.  A problem belongs to the line at  *)
(* whose end it is decided, and is dropped when a directive in force there *)
(* names its rule.                                                         *)
(***************************************************************************)
EXTENDS YamlTokens

CONSTANTS
  File,
  Content,   \* [names of texts -> texts]
  Options,   \* [configuration identities -> option records]
  NoConf     \* the configuration of an ignored file

VARIABLES text, conf, report

vars == <<text, conf, report>>

Tokens(t) == DOMAIN t.tokens
Kind(t, i) == TokenAt(t, i).kind
Value(t, i) == TokenAt(t, i).value

(***************************************************************************)
(* Problems of the tokens                                                  *)
(***************************************************************************)
SegmentStart(t, i) ==
  Max({j \in 1 .. i : Kind(t, j) \in {"StreamStart", "DocumentStart", "DocumentEnd"}})

(* Anchors of the name v declared before token i in its document.          *)
DeclaredBefore(t, i, v) ==
  {j \in SegmentStart(t, i) .. i - 1 : Kind(t, j) = "Anchor" /\ Value(t, j) = v}

Names(t) == {Value(t, i) : i \in {j \in Tokens(t) : Kind(t, j) = "Anchor"}}

Ends(t, i) == Kind(t, i + 1) \in {"StreamEnd", "DocumentStart", "DocumentEnd"}

When(condition, problem) == IF condition THEN {problem} ELSE {}

UnusedAt(t, i, v) ==
  LET declared == DeclaredBefore(t, i, v)
  IN /\ declared # {}
     /\ \A j \in Max(declared) .. i - 1 : ~(Kind(t, j) = "Alias" /\ Value(t, j) = v)

AnchorProblems(t, o, i) ==
  LET known == DeclaredBefore(t, i, Value(t, i))
      here == TokenAt(t, i).start
  IN When(o.undeclared /\ Kind(t, i) = "Alias" /\ known = {},
          Problem(here, "anchors", "undeclared alias"))
     \cup When(o.duplicated /\ Kind(t, i) = "Anchor" /\ known # {},
               Problem(here, "anchors", "duplicated anchor"))
     \cup {Problem(TokenAt(t, Max(DeclaredBefore(t, i, v))).start, "anchors", "unused anchor") :
             v \in {n \in Names(t) : o.unused /\ Ends(t, i) /\ UnusedAt(t, i, n)}}

Openers == {"BlockMappingStart", "FlowMappingStart", "BlockSequenceStart", "FlowSequenceStart"}
Closers == {"BlockEnd", "FlowMappingEnd", "FlowSequenceEnd"}

Balance(t, i, j) ==
  Cardinality({k \in i .. j : Kind(t, k) \in Openers})
    - Cardinality({k \in i .. j : Kind(t, k) \in Closers})

(* The opener of the innermost collection that token i is inside.          *)
Enclosing(t, i) ==
  {j \in 1 .. i : /\ Kind(t, j) \in Openers
                  /\ Balance(t, j, i) = 1
                  /\ \A k \in j .. i : Balance(t, j, k) >= 1}

IsKeyOf(t, i, m, v) ==
  /\ Kind(t, i) = "Key" /\ Enclosing(t, i) = m
  /\ Kind(t, i + 1) = "Scalar" /\ Value(t, i + 1) = v

KeyProblems(t, o, i) ==
  LET m == Enclosing(t, i)
      v == Value(t, i + 1)
  IN When(/\ IsKeyOf(t, i, m, v)
          /\ \E j \in m : Kind(t, j) \in {"BlockMappingStart", "FlowMappingStart"}
          /\ v = "<<" => o.mergeKeys
          /\ \E j \in 1 .. i - 1 : IsKeyOf(t, j, m, v),
          Problem(TokenAt(t, i + 1).start, "key-duplicates", "duplication of key"))

Booleans12 == {"TRUE", "True", "true", "FALSE", "False", "false"}
Booleans11 == Booleans12 \cup {"YES", "Yes", "yes", "NO", "No", "no",
                               "ON", "On", "on", "OFF", "Off", "off"}

(* A %YAML 1.2 directive governs until the next one or the end of its      *)
(* document.                                                               *)
Is12(t, i) ==
  \E j \in 1 .. i :
    /\ Kind(t, j) = "VersionDirective" /\ Value(t, j) = "1.2"
    /\ \A k \in j + 1 .. i : Kind(t, k) \notin {"VersionDirective", "DocumentEnd"}

TruthyProblems(t, o, i) ==
  When(/\ Kind(t, i) = "Scalar" /\ TokenAt(t, i).plain
       /\ Value(t, i) \in (IF Is12(t, i) THEN Booleans12 ELSE Booleans11) \ o.allowed
       /\ Kind(t, i - 1) # "Tag"
       /\ o.checkKeys \/ Kind(t, i - 1) # "Key",
       Problem(TokenAt(t, i).start, "truthy", "not an allowed boolean"))

(***************************************************************************)
(* Problems of the comments                                                *)
(***************************************************************************)
BeforeComment(t, c) == TokenAt(t, Max({i \in Tokens(t) : TokenAt(t, i).end <= c.at}))
AfterComment(t, c) ==
  LET later == {i \in Tokens(t) : TokenAt(t, i).start > c.at}
  IN IF later = {} THEN Nil ELSE TokenAt(t, Min(later))

CommentBefore(t, c) ==
  LET same == SelectSeq(t.comments, LAMBDA d : d.at < c.at
                                      /\ BeforeComment(t, d) = BeforeComment(t, c))
  IN IF same = <<>> THEN <<>> ELSE <<same[Len(same)]>>

CommentProblems(t, o, c) ==
  ToSet(CommentsCheck(c, BeforeComment(t, c), o)
        \o CommentIndentationCheck(t, c, BeforeComment(t, c), AfterComment(t, c),
                                   CommentBefore(t, c)))

(***************************************************************************)
(* Every problem of a text, as <<line it is decided on, problem>>          *)
(***************************************************************************)
Raised(t, o) ==
  {r \in
     UNION {{<<Line(TokenAt(t, i).start), p>> :
               p \in AnchorProblems(t, o, i) \cup KeyProblems(t, o, i) \cup TruthyProblems(t, o, i)} :
            i \in Tokens(t)}
     \cup UNION {{<<Line(c.at), p>> : p \in CommentProblems(t, o, c)} : c \in ToSet(t.comments)}
     \cup {<<x[1], Problem(x[1] * PerLine, x[2], "line")>> : x \in t.offences} :
   r[2].rule \in o.rules}

Covers(c, rule) == c.ids = {} \/ rule \in c.ids

(* Off since the last disable that names it, up to the end of line n.      *)
DisabledThrough(t, n, rule) ==
  \E c \in ToSet(t.comments) :
    /\ c.dir = "disable" /\ Covers(c, rule) /\ Line(c.at) <= n
    /\ \A d \in ToSet(t.comments) :
         d.dir = "enable" /\ Covers(d, rule) /\ d.at > c.at => Line(d.at) > n

(* Off on line n alone: a disable-line on it, or standing on the line      *)
(* above.                                                                  *)
DisabledOn(t, n, rule) ==
  \E c \in ToSet(t.comments) :
    /\ c.dir = "disable-line" /\ Covers(c, rule)
    /\ Line(c.at) = IF IsInline(c, BeforeComment(t, c)) THEN n ELSE n - 1

Silenced(t, n, rule) == DisabledThrough(t, n, rule) \/ DisabledOn(t, n, rule)

Problems(t, id) ==
  IF id = NoConf \/ t.disableFile THEN {}
  ELSE {r[2] : r \in {x \in Raised(t, Options[id]) : ~Silenced(t, x[1], x[2].rule)}}

(***************************************************************************)
(* The promise                                                             *)
(***************************************************************************)
Pending == [done |-> FALSE, count |-> 0, problems |-> {}]
Answer(f) == [done |-> TRUE, count |-> Cardinality(Problems(Content[text[f]], conf[f])),
              problems |-> Problems(Content[text[f]], conf[f])]

Init == report = [f \in File |-> Pending]

Lint(f) ==
  /\ ~report[f].done /\ report'[f].done
  /\ report' = [report EXCEPT ![f] = Answer(f)]
  /\ UNCHANGED <<text, conf>>

Next == \E f \in File : Lint(f)

Spec == Init /\ [][Next]_vars
=============================================================================
