---------------------------- MODULE MCYamlIndent ----------------------------
(***************************************************************************)
(* Texts for the scanner and the indentation rule, put together from       *)
(* fragments: nested blocks under several settings of the rule, flow       *)
(* collections, anchored values, and one of each token.                    *)
(***************************************************************************)
EXTENDS YamlIndent

CONSTANTS Deep, Wide, Anchored, Short \* how many fragments a text of each family has

Blocks == {<<"a">>, <<"a", ":">>, <<"\n">>, <<"\n", " ", " ">>, <<"\n", " ", " ", " ", " ">>,
           <<"-", " ">>, <<"?", " ">>}

Flows == {<<"a">>, <<":", " ">>, <<"\n">>, <<" ", " ">>, <<"-", " ">>, <<"?", " ">>,
          <<"[">>, <<"]">>, <<"{">>, <<"}">>, <<",">>, <<"#", "a">>}

Anchors == {<<"a", ":", " ", "&", "a", " ">>, <<"a", ":", " ">>, <<"\n">>, <<"-", " ">>, <<"[">>, <<"]">>}

Others == {<<"&", "a", " ">>, <<"*", "a", " ">>, <<"!", "a", " ">>, <<"'", "a", "'">>,
           <<"\"", "\\", "\n", "\"">>, <<"|", "\n">>, <<"-", "-", "-", " ">>,
           <<".", ".", ".", "\n">>, <<"%", "Y", "A", "M", "L", " ", "1", ".", "1", "\n">>,
           <<"a", " ", "a", " ", "a">>, <<"\t">>, <<"crlf">>, <<"a">>, <<":", " ">>, <<"\n">>,
           <<" ", " ">>, <<"#", "a">>, <<"-", " ">>, <<"[">>, <<"]">>}

Text(f) == FlattenSeq(f) \o <<"\n">>

MCTexts == {Text(f) : f \in [1..Deep -> Blocks] \cup [1..Wide -> Flows]
                            \cup [1..Anchored -> Anchors] \cup [1..Short -> Others]}

MCInit ==
  \/ \E f \in [1..Deep -> Blocks] :
       \/ IndentStart(Text(f), Consistent, "true")
       \/ IndentStart(Text(f), 2, "consistent")
  \/ \E f \in [1..Wide -> Flows] : IndentStart(Text(f), Consistent, "false")
  \/ \E f \in [1..Anchored -> Anchors] : IndentStart(Text(f), Consistent, "true")
  \/ \E f \in [1..Short -> Others] : IndentStart(Text(f), 2, "whatever")

MCSpec == MCInit /\ [][IndentNext]_indentVars
=============================================================================
