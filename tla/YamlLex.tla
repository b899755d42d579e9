------------------------------- MODULE YamlLex -------------------------------
(***************************************************************************)
(* The characters of a YAML text and how far each kind of token reaches.   *)
(* A text s is a sequence of one-character symbols and a position is an    *)
(* index into it; Len(s) + 1 is the end, where the buffer holds a NUL.     *)
(* "crlf" is the two-character line break.                                 *)
(*                                                                         *)
(* A scan answers the position where it stops, or Failed.                  *)
(***************************************************************************)
EXTENDS Integers, Sequences, FiniteSets, FiniteSetsExt

CONSTANT PeekLimit \* how far the comment scanners look ahead

ASSUME PeekLimitIsPositive == PeekLimit \in Nat \ {0}

Failed == 0

Blank == {" ", "\t"}
Break == {"\n", "crlf"}
Breakz == Break \cup {"z"}
Blankz == Blank \cup Breakz
Digits == <<"0", "1", "2", "3", "4", "5", "6", "7", "8", "9">>
Digit == {Digits[i] : i \in DOMAIN Digits}
HexDigits == Digits \o <<"a", "b", "c", "d", "e", "f">>
Hex == {HexDigits[i] : i \in DOMAIN HexDigits}
Alpha == Hex \cup {"-", "_", "x", "n", "u", "U", "Y", "A", "M", "L", "T", "G"}
Uri == Alpha \cup {";", "/", "?", ":", "@", "&", "=", "+", "$", ",", ".", "!",
                   "~", "*", "'", "(", ")", "[", "]", "%"}

HexValue(c) == (CHOOSE i \in DOMAIN HexDigits : HexDigits[i] = c) - 1

Ch(s, i) == IF i \in DOMAIN s THEN s[i] ELSE "z"

(* The lines and columns of a position, both counted from 0.               *)
Starts(s, i) == {j \in 1..(i - 1) : Ch(s, j) \in Break}
Line(s, i) == Cardinality(Starts(s, i))
Column(s, i) == i - 1 - Max(Starts(s, i) \cup {0})

(* Past the characters of C, and up to the first one of C.                 *)
Past(s, i, C) == Min({j \in i..(Len(s) + 1) : Ch(s, j) \notin C})
Upto(s, i, C) == Min({j \in i..(Len(s) + 1) : Ch(s, j) \in C} \cup {Len(s) + 1})

(* Line breaks since the last character that was neither blank nor break.  *)
NewLines(s, i) ==
  LET last == Max({j \in 1..(i - 1) : Ch(s, j) \notin Blank \cup Break} \cup {0})
  IN Line(s, i) - Line(s, last + 1)

DocumentMarkerAt(s, i, c) ==
  /\ Column(s, i) = 0
  /\ \A k \in 0..2 : Ch(s, i + k) = c
  /\ Ch(s, i + 3) \in Blankz

AtDocumentMarker(s, i) == DocumentMarkerAt(s, i, "-") \/ DocumentMarkerAt(s, i, ".")

(* The comment lines from the '#' at i on, with what is blank between      *)
(* them: they end before the last comment's line break.                    *)
CommentsEnd(s, i) ==
  LET end[j \in 1..(Len(s) + 1)] ==
        LET e == Upto(s, j, Breakz)
            next == Past(s, e, Blank \cup Break)
        IN IF Ch(s, next) = "#" /\ next - e < PeekLimit THEN end[next] ELSE e
  IN end[i]

(* Mutant: the rest of the line is taken for a comment.                    *)
RestOfLine(s, i) == IF NewLines(s, i) = 0 THEN Upto(s, i, Breakz) ELSE i

(* A comment on the line of the token that ends at i, if it has one.       *)
LineCommentEnd(s, i) ==
  LET hash == Past(s, i, Blank)
  IN IF NewLines(s, i) = 0 /\ Ch(s, hash) = "#" /\ hash - i < PeekLimit
     THEN Upto(s, hash, Breakz)
     ELSE i

(* The alias or anchor whose indicator is at i.                            *)
AnchorEnd(s, i) ==
  LET j == Past(s, i + 1, Alpha)
  IN IF j > i + 1 /\ Ch(s, j) \in Blankz \cup {"?", ":", ",", "]", "}", "%", "@", "grave"}
     THEN j ELSE Failed

(* The handle of a tag at i: '!', '!word' or '!word!'.  A %TAG directive   *)
(* takes only the first and the last.                                      *)
TagHandleEnd(s, i, directive) ==
  LET j == Past(s, i + 1, Alpha)
  IN IF Ch(s, i) # "!" THEN Failed
     ELSE IF Ch(s, j) = "!" THEN j + 1
     ELSE IF directive /\ j # i + 1 THEN Failed ELSE j

(* One %-escaped character of a tag: as many escaped octets as its first   *)
(* octet announces.                                                        *)
UriEscapeEnd(s, i) ==
  LET escaped(j) == Ch(s, j) = "%" /\ Ch(s, j + 1) \in Hex /\ Ch(s, j + 2) \in Hex
      octet(j) == 16 * HexValue(Ch(s, j + 1)) + HexValue(Ch(s, j + 2))
      width == CASE octet(i) < 128 -> 1
                 [] octet(i) \in 192..223 -> 2
                 [] octet(i) \in 224..239 -> 3
                 [] octet(i) \in 240..247 -> 4
                 [] OTHER -> 0
  IN IF /\ escaped(i) /\ width > 0
        /\ \A k \in 1..(width - 1) : escaped(i + 3 * k) /\ octet(i + 3 * k) \in 128..191
     THEN i + 3 * width ELSE Failed

(* The characters of a tag from i on; there may be none only if a head     *)
(* was read before.                                                        *)
UriEnd(s, i, head) ==
  LET end[j \in 0..(Len(s) + 1)] ==
        IF j = Failed THEN Failed
        ELSE IF Ch(s, j) = "%" THEN end[UriEscapeEnd(s, j)]
        ELSE IF Ch(s, j) \in Uri THEN end[j + 1]
        ELSE j
  IN IF end[i] = i /\ ~head THEN Failed ELSE end[i]

(* What a tag is made of: a uri in angle brackets, or the suffix of a      *)
(* handle, which may be empty only behind a named one.                     *)
VerbatimEnd(s, uri) == IF uri # Failed /\ Ch(s, uri) = ">" THEN uri + 1 ELSE Failed

SuffixEnd(s, i, handle) ==
  UriEnd(s, handle, ~(handle > i + 1 /\ Ch(s, handle - 1) = "!"))

BeforeBlank(s, end) == IF end # Failed /\ Ch(s, end) \in Blankz THEN end ELSE Failed

(* The tag at i: '!<uri>', '!handle!suffix' or '!suffix'.                  *)
TagEnd(s, i) ==
  BeforeBlank(s, IF Ch(s, i + 1) = "<" THEN VerbatimEnd(s, UriEnd(s, i + 2, FALSE))
                 ELSE SuffixEnd(s, i, TagHandleEnd(s, i, FALSE)))

(* The number of a version at i: one or two digits.                        *)
VersionNumberEnd(s, i) ==
  LET j == Past(s, i, Digit) IN IF j - i \in 1..2 THEN j ELSE Failed

MinorEnd(s, major) ==
  IF major # Failed /\ Ch(s, major) = "." THEN VersionNumberEnd(s, major + 1) ELSE Failed

VersionEnd(s, i) == MinorEnd(s, VersionNumberEnd(s, Past(s, i, Blank)))

(* The prefix behind a %TAG directive's handle.                            *)
PrefixEnd(s, handle) ==
  IF handle # Failed /\ Ch(s, handle) \in Blank
  THEN BeforeBlank(s, UriEnd(s, Past(s, handle, Blank), FALSE)) ELSE Failed

TagDirectiveEnd(s, i) == PrefixEnd(s, TagHandleEnd(s, Past(s, i, Blank), TRUE))

(* The end of a line that has nothing but a comment from i on.             *)
RestOfLineEnd(s, i) == IF Ch(s, i) = "#" THEN Upto(s, i, Breakz) ELSE i

NextLine(s, eol) == IF Ch(s, eol) \in Break THEN eol + 1 ELSE eol

DirectiveEnding(s, kind, end, eol) ==
  IF end = Failed \/ Ch(s, eol) \notin Breakz
  THEN [stop |-> Failed, end |-> Failed, kind |-> "none"]
  ELSE [stop |-> NextLine(s, eol), end |-> end, kind |-> kind]

DirectiveTo(s, kind, end) ==
  DirectiveEnding(s, kind, end, RestOfLineEnd(s, Past(s, end, Blank)))

DirectiveNamed(s, name, j) ==
  CASE Ch(s, j) \notin Blankz -> DirectiveTo(s, "none", Failed)
    [] name = <<"Y", "A", "M", "L">> -> DirectiveTo(s, "VersionDirective", VersionEnd(s, j))
    [] name = <<"T", "A", "G">> -> DirectiveTo(s, "TagDirective", TagDirectiveEnd(s, j))
    [] OTHER -> DirectiveTo(s, "none", Failed)

(* The directive whose '%' is at i.  "end" is where its token ends; the    *)
(* rest of the line, a comment included, belongs to it.                    *)
Directive(s, i) ==
  LET j == Past(s, i + 1, Alpha) IN DirectiveNamed(s, SubSeq(s, i + 1, j - 1), j)

(* The escapes of one character, an escaped line break among them.         *)
ShortEscapes == {"0", "a", "b", "t", "\t", "n", "v", "f", "r", "e", " ", "\"", "'", "\\",
                 "N", "_", "L", "P"} \cup Break

(* How many hexadecimal digits the escapes \x, \u and \U take, and what     *)
(* number they write.                                                      *)
EscapeDigits(c) == CASE c = "x" -> 2 [] c = "u" -> 4 [] c = "U" -> 8 [] OTHER -> 0

EscapeValue(s, i, digits) ==
  LET value[k \in 0..digits] ==
        IF k = 0 THEN 0 ELSE 16 * value[k - 1] + HexValue(Ch(s, i + 1 + k))
  IN value[digits]

IsEscapeCode(s, i, digits) ==
  /\ digits > 0
  /\ \A k \in 1..digits : Ch(s, i + 1 + k) \in Hex
  /\ EscapeValue(s, i, digits) \notin 55296..57343 /\ EscapeValue(s, i, digits) <= 1114111

(* How many characters an escape in a double-quoted scalar takes after the *)
(* backslash at i, Failed if there is no such escape.                      *)
EscapeLength(s, i) ==
  LET digits == EscapeDigits(Ch(s, i + 1))
  IN IF Ch(s, i + 1) \in ShortEscapes THEN 1
     ELSE IF IsEscapeCode(s, i, digits) THEN 1 + digits ELSE Failed

Quotes == {"'", "\""}

(* The quoted scalar whose opening quote is at i: a doubled single quote   *)
(* and an escaped character do not close it, the end of the text and a     *)
(* document marker at the start of a line are errors.                      *)
QuotedEnd(s, i) ==
  LET quote == Ch(s, i)
      end[j \in 1..(Len(s) + 1)] ==
        CASE Ch(s, j) = "z" \/ AtDocumentMarker(s, j) -> Failed
          [] Ch(s, j) = "'" /\ quote = "'" /\ Ch(s, j + 1) = "'" -> end[j + 2]
          [] Ch(s, j) = quote /\ ~(quote = "'" /\ Ch(s, j + 1) = "'") -> j + 1
          [] Ch(s, j) = "\\" /\ quote = "\"" ->
               IF EscapeLength(s, j) = Failed THEN Failed ELSE end[j + 1 + EscapeLength(s, j)]
          [] OTHER -> end[j + 1]
  IN end[i + 1]

(* Nothing but escaped line breaks, and the blanks behind them, is quoted. *)
QuotesNothing(s, i, end) ==
  LET nothing[j \in 1..end] ==
        \/ j = end - 1
        \/ Ch(s, j) = "\\" /\ Ch(s, j + 1) \in Break /\ nothing[Past(s, j + 2, Blank)]
  IN nothing[i + 1]

(* What ends a run of a plain scalar's characters.                         *)
EndsPlain(s, j, inFlow) ==
  \/ Ch(s, j) \in Blankz
  \/ Ch(s, j) = ":" /\ Ch(s, j + 1) \in Blankz
  \/ inFlow /\ Ch(s, j) \in {",", "?", "[", "]", "{", "}"}

(* The plain scalar at i under indentation indent: it goes on over blanks  *)
(* and breaks until a line that is less indented than its block.  "end" is *)
(* past its last character, "broken" says that a line break follows it.    *)
Plain(s, i, indent, inFlow) ==
  LET abused(j, k) ==
        \E m \in j..(k - 1) : /\ Ch(s, m) = "\t" /\ Column(s, m) < indent
                              /\ \E b \in j..(m - 1) : Ch(s, b) \in Break
      stop[j \in 1..(Len(s) + 1)] ==
        IF AtDocumentMarker(s, j) \/ Ch(s, j) = "#" THEN j
        ELSE LET run == Min({k \in j..(Len(s) + 1) : EndsPlain(s, k, inFlow)})
                 next == Past(s, run, Blank \cup Break)
             IN IF Ch(s, run) \notin Blank \cup Break THEN run
                ELSE IF abused(run, next) THEN Failed
                ELSE IF ~inFlow /\ Column(s, next) < indent THEN next
                ELSE stop[next]
      end == 1 + Max({j \in i..(stop[i] - 1) : Ch(s, j) \notin Blank \cup Break} \cup {i - 1})
  IN [stop |-> stop[i], end |-> end, empty |-> FALSE,
      broken |-> stop[i] # Failed /\ \E j \in end..(stop[i] - 1) : Ch(s, j) \in Break]

(* The header of a block scalar: a chomping and an indentation indicator   *)
(* in either order, blanks, a comment, the end of the line.                *)
HeaderEnding(s, increment, chomp, eol) ==
  [stop |-> IF increment = 0 \/ Ch(s, eol) \notin Breakz THEN Failed ELSE NextLine(s, eol),
   increment |-> IF increment > 0 THEN increment ELSE 0, chomp |-> chomp]

HeaderTo(s, increment, chomp, end) ==
  HeaderEnding(s, increment, chomp, RestOfLineEnd(s, Past(s, end, Blank)))

(* The indentation at i, less than 0 when there is none.                   *)
IncrementAt(s, i) == IF Ch(s, i) \in Digit THEN HexValue(Ch(s, i)) ELSE -1

ChompAt(s, i) == IF Ch(s, i) \in {"+", "-"} THEN Ch(s, i) ELSE "clip"

BlockHeader(s, i) ==
  IF ChompAt(s, i + 1) # "clip"
  THEN HeaderTo(s, IncrementAt(s, i + 2), Ch(s, i + 1), IF Ch(s, i + 2) \in Digit THEN i + 3 ELSE i + 2)
  ELSE IF Ch(s, i + 1) \in Digit
  THEN HeaderTo(s, IncrementAt(s, i + 1), ChompAt(s, i + 2),
                IF ChompAt(s, i + 2) # "clip" THEN i + 3 ELSE i + 2)
  ELSE HeaderTo(s, -1, "clip", i + 1)

(* The indentation spaces and empty lines from the line start i on, for a  *)
(* block scalar indented by indent.                                        *)
BreaksEnd(s, i, indent) ==
  LET end[j \in 1..(Len(s) + 1)] ==
        LET q == Min({Past(s, j, {" "}), Max({j, j + indent - Column(s, j)})})
        IN IF Ch(s, q) = "\t" /\ Column(s, q) < indent THEN Failed
           ELSE IF Ch(s, q) \in Break THEN end[q + 1] ELSE q
  IN end[i]

(* Without an indicator the indentation is that of the first line that is  *)
(* not empty, or of the longest empty one before it, and always more than  *)
(* the block around it; a tab among those spaces is an error.              *)
DetectedIndent(s, i, parent) ==
  LET q == Past(s, i, {" "} \cup Break)
      lineEnds == {m \in i..q : m = q \/ Ch(s, m) \in Break}
  IN IF Ch(s, q) = "\t" THEN Failed
     ELSE Max({Column(s, m) : m \in lineEnds} \cup {parent + 1, 1})

NoScalar == [stop |-> Failed, end |-> Failed, empty |-> FALSE]

BlockIndent(s, head, parent) ==
  IF head.increment > 0 THEN head.increment + (IF parent >= 0 THEN parent ELSE 0)
  ELSE DetectedIndent(s, head.stop, parent)

(* Where the scalar's first line starts, and where its lines stop.         *)
FirstLine(s, head, indent) ==
  IF head.increment > 0 THEN BreaksEnd(s, head.stop, indent)
  ELSE Past(s, head.stop, {" "} \cup Break)

LinesEnd(s, first, indent) ==
  LET stop[j \in 0..(Len(s) + 1)] ==
        IF j = Failed \/ Column(s, j) # indent \/ Ch(s, j) = "z" THEN j
        ELSE LET eol == Upto(s, j, Breakz)
             IN IF Ch(s, eol) = "z" THEN eol ELSE stop[BreaksEnd(s, eol + 1, indent)]
  IN stop[first]

BlockEnding(s, head, indent, first, last) ==
  IF last = Failed THEN NoScalar
  ELSE [stop |-> last,
        end |-> IF Ch(s, last) = "z" /\ Column(s, last) > indent THEN last
                ELSE Max({last - Column(s, last), head.stop}),
        empty |-> last = first
                  /\ (head.chomp = "+" => Line(s, first) = Line(s, head.stop))]

BlockFrom(s, head, indent, first) ==
  BlockEnding(s, head, indent, first, LinesEnd(s, first, indent))

BlockIndented(s, head, indent) ==
  IF indent = Failed THEN NoScalar ELSE BlockFrom(s, head, indent, FirstLine(s, head, indent))

BlockAfter(s, head, parent) ==
  IF head.stop = Failed THEN NoScalar ELSE BlockIndented(s, head, BlockIndent(s, head, parent))

(* The block scalar at i inside a block indented by parent: whole lines    *)
(* that start at its column, empty lines included.                         *)
BlockScalar(s, i, parent) == BlockAfter(s, BlockHeader(s, i), parent)
=============================================================================
