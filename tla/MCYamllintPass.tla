---------------------------- MODULE MCYamllintPass ----------------------------
(***************************************************************************)
(* Four small YAML files, token by token as the scanner gives them, with   *)
(* comments whose directives vary.                                         *)
(***************************************************************************)
EXTENDS YamllintPass

CONSTANTS f1, f2, f3, w1, w2

T(kind, start, end) == [kind |-> kind, start |-> start, end |-> end, value |-> "", plain |-> FALSE]
V(kind, start, end, value) ==
  [kind |-> kind, start |-> start, end |-> end, value |-> value, plain |-> kind = "Scalar"]
Quoted(t) == [t EXCEPT !.plain = FALSE]

C(pos, dir, ids, spaced) == [at |-> pos, dir |-> dir, ids |-> ids, spaced |-> spaced]
Remark(pos) == C(pos, "none", {}, FALSE)

Plain(tokens, comments, lines, offences) ==
  [tokens |-> tokens, comments |-> comments, lines |-> lines, offences |-> offences,
   disableFile |-> FALSE]

(* ---                                                                     *)
(* a: &x yes  # c[1]                                                       *)
(* # c[2]                                                                  *)
(* b: *y # c[3]                                                            *)
(* a: on                                                                   *)
Flat(c) ==
  Plain(<<T("StreamStart", 100, 100), T("DocumentStart", 100, 103), T("BlockMappingStart", 200, 200),
          T("Key", 200, 200), V("Scalar", 200, 201, "a"), T("Value", 201, 202),
          V("Anchor", 203, 205, "x"), V("Scalar", 206, 209, "yes"),
          T("Key", 400, 400), V("Scalar", 400, 401, "b"), T("Value", 401, 402),
          V("Alias", 403, 405, "y"),
          T("Key", 500, 500), V("Scalar", 500, 501, "a"), T("Value", 501, 502),
          V("Scalar", 503, 505, "on"), T("BlockEnd", 600, 600), T("StreamEnd", 600, 600)>>,
        c, 6, {<<4, "trailing-spaces">>})

FlatAt == <<211, 300, 406>>

Directives ==
  {<<"none", {}>>, <<"disable", {}>>, <<"disable", {"truthy"}>>, <<"enable", {}>>,
   <<"enable", {"truthy"}>>, <<"disable-line", {}>>, <<"disable-line", {"anchors"}>>,
   <<"disable", {"braces"}>>}

FlatText(d) == Flat([i \in 1 .. 3 |-> C(FlatAt[i], d[i][1], d[i][2], TRUE)])

(* %YAML 1.2                                                               *)
(* ---                                                                     *)
(* - {k: yes, k: True}                                                     *)
(* - &x |                                                                  *)
(*   text                                                                  *)
(* # after the block scalar                                                *)
(* - *x                                                                    *)
(* ...                                                                     *)
(* ---                                                                     *)
(* - [*x, yes]                                                             *)
Documents(c) ==
  Plain(<<T("StreamStart", 100, 100), V("VersionDirective", 100, 109, "1.2"),
          T("DocumentStart", 200, 203), T("BlockSequenceStart", 300, 300),
          T("BlockEntry", 300, 301), T("FlowMappingStart", 302, 303), T("Key", 303, 303),
          V("Scalar", 303, 304, "k"), T("Value", 304, 305), V("Scalar", 306, 309, "yes"),
          T("FlowEntry", 309, 310), T("Key", 311, 311), V("Scalar", 311, 312, "k"),
          T("Value", 312, 313), V("Scalar", 314, 318, "True"), T("FlowMappingEnd", 318, 319),
          T("BlockEntry", 400, 401), V("Anchor", 402, 404, "x"),
          Quoted(V("Scalar", 405, 600, "text")), T("BlockEntry", 700, 701),
          V("Alias", 702, 704, "x"), T("BlockEnd", 800, 800), T("DocumentEnd", 800, 803),
          T("DocumentStart", 900, 903), T("BlockSequenceStart", 1000, 1000),
          T("BlockEntry", 1000, 1001), T("FlowSequenceStart", 1002, 1003),
          V("Alias", 1003, 1005, "x"), T("FlowEntry", 1005, 1006),
          V("Scalar", 1007, 1010, "yes"), T("FlowSequenceEnd", 1010, 1011),
          T("BlockEnd", 1100, 1100), T("StreamEnd", 1100, 1100)>>,
        c, 11, {<<6, "trailing-spaces">>, <<10, "line-length">>})

DocumentsText(d) ==
  Documents(<<C(600, d[1][1], d[1][2], TRUE), C(805, d[2][1], d[2][2], FALSE)>>)

(* %YAML 1.2                                                               *)
(* ---                                                                     *)
(* a:                                                                      *)
(*   k: &x !!str True                                                      *)
(* b:                                                                      *)
(*     #stray                                                              *)
(*   k: *x                                                                 *)
(*   k: &x 1                                                               *)
Nested(c) ==
  Plain(<<T("StreamStart", 100, 100), V("VersionDirective", 100, 109, "1.2"),
          T("DocumentStart", 200, 203), T("BlockMappingStart", 300, 300),
          T("Key", 300, 300), V("Scalar", 300, 301, "a"), T("Value", 301, 302),
          T("BlockMappingStart", 402, 402), T("Key", 402, 402), V("Scalar", 402, 403, "k"),
          T("Value", 403, 404), V("Anchor", 405, 407, "x"), V("Tag", 408, 413, "!!str"),
          V("Scalar", 414, 418, "True"), T("BlockEnd", 500, 500),
          T("Key", 500, 500), V("Scalar", 500, 501, "b"), T("Value", 501, 502),
          T("BlockMappingStart", 702, 702), T("Key", 702, 702), V("Scalar", 702, 703, "k"),
          T("Value", 703, 704), V("Alias", 705, 707, "x"),
          T("Key", 802, 802), V("Scalar", 802, 803, "k"), T("Value", 803, 804),
          V("Anchor", 805, 807, "x"), V("Scalar", 808, 809, "1"),
          T("BlockEnd", 900, 900), T("BlockEnd", 900, 900), T("StreamEnd", 900, 900)>>,
        c, 9, {<<5, "trailing-spaces">>})

(* %YAML 1.2                                                               *)
(* ---                                                                     *)
(* # yamllint disable rule:anchors                                         *)
(* - &x True                                                               *)
Leaving ==
  Plain(<<T("StreamStart", 100, 100), V("VersionDirective", 100, 109, "1.2"),
          T("DocumentStart", 200, 203), T("BlockSequenceStart", 400, 400),
          T("BlockEntry", 400, 401), V("Anchor", 402, 404, "x"), V("Scalar", 405, 409, "True"),
          T("BlockEnd", 500, 500), T("StreamEnd", 500, 500)>>,
        <<C(300, "disable", {"anchors"}, TRUE)>>, 5, {})

(* - [*x, yes]                                                             *)
Finding ==
  Plain(<<T("StreamStart", 100, 100), T("BlockSequenceStart", 100, 100), T("BlockEntry", 100, 101),
          T("FlowSequenceStart", 102, 103), V("Alias", 103, 105, "x"), T("FlowEntry", 105, 106),
          V("Scalar", 107, 110, "yes"), T("FlowSequenceEnd", 110, 111), T("BlockEnd", 200, 200),
          T("StreamEnd", 200, 200)>>,
        <<>>, 2, {<<1, "trailing-spaces">>})

Stock == "stock"
Scoped == "scoped"

Opts(rules) ==
  [rules |-> rules, undeclared |-> TRUE, duplicated |-> TRUE, unused |-> TRUE, mergeKeys |-> FALSE,
   allowed |-> {"true", "false"}, checkKeys |-> TRUE, minSpaces |-> 2, startingSpace |-> TRUE]

All == {"anchors", "key-duplicates", "truthy", "comments", "comments-indentation",
        "trailing-spaces", "line-length"}

MCOptions ==
  (Stock :> Opts(All)) @@ (Scoped :> [Opts(All \ {"anchors", "comments"}) EXCEPT !.checkKeys = FALSE])


(* A text is named by its shape and the directives of its comments.        *)
Named(shape, directives) == [shape |-> shape, directives |-> directives]
Only(shape) == Named(shape, <<>>)

Names == {Named("flat", d) : d \in [1 .. 3 -> Directives]}
         \cup {Named("documents", d) : d \in [1 .. 2 -> Directives]}
Others == {Only("stray"), Only("leaving"), Only("finding")}

MCContent ==
  [n \in Names \cup Others \cup {Only("disabled")} |->
     CASE n.shape = "flat" -> FlatText(n.directives)
       [] n.shape = "documents" -> DocumentsText(n.directives)
       [] n.shape = "stray" -> Nested(<<Remark(604)>>)
       [] n.shape = "leaving" -> Leaving
       [] n.shape = "finding" -> Finding
       [] n.shape = "disabled" -> [Finding EXCEPT !.disableFile = TRUE]]

(* One file under every directive, beside files no configuration covers.  *)
ThreeFiles == {f1, f2, f3}
Alone(n, c) ==
  [text |-> [f \in ThreeFiles |-> IF f = f1 THEN n ELSE Only("finding")],
   conf |-> [f \in ThreeFiles |-> IF f = f1 THEN c ELSE NoConf]]
AloneInputs ==
  {Alone(n, Stock) : n \in Names} \cup {Alone(n, c) : n \in Others, c \in {Stock, Scoped}}

(* Three files that follow each other through the pool.                    *)
PooledInputs ==
  {[text |-> (f1 :> Only("leaving")) @@ (f2 :> b) @@ (f3 :> Only("finding")),
    conf |-> (f1 :> Stock) @@ (f2 :> y) @@ (f3 :> Stock)] :
     b \in {Only("leaving"), Only("finding"), Only("disabled")}, y \in {Stock, Scoped}}
  \cup {[text |-> [f \in ThreeFiles |-> Only("finding")],
         conf |-> (f1 :> NoConf) @@ (f2 :> Stock) @@ (f3 :> Stock)]}

MCInputs == AloneInputs \cup PooledInputs
=============================================================================
