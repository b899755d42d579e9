------------------------------ MODULE YamlGrammar ------------------------------
(***************************************************************************)
(* Which streams of token kinds are YAML with a KEY for every VALUE and a  *)
(* node for every entry of a sequence that opens no block.  The scanner    *)
(* hands out the tokens of many a text that is not YAML, and nothing       *)
(* behind it parses them; this grammar says for which streams its readers  *)
(* owe an answer.                                                          *)
(***************************************************************************)
LOCAL INSTANCE Integers
LOCAL INSTANCE Sequences
LOCAL INSTANCE FiniteSetsExt

LOCAL Wrong == 0

(* Reading the kinds k as a nonterminal from i on gives the index behind   *)
(* it, or Wrong.  A node may be empty.                                     *)
IsYaml(k) ==
  LET at(i) == IF i \in DOMAIN k THEN k[i] ELSE "none"
      skip(i) == Min({j \in i..(Len(k) + 1) : at(j) \notin {"Anchor", "Tag"}})
      begins(i) == at(i) \in {"Alias", "Scalar", "FlowSequenceStart", "FlowMappingStart",
                              "BlockSequenceStart", "BlockMappingStart"}
      read[what \in {"content", "items", "entries", "pairs", "sequence", "mapping", "documents"},
           i \in 0..(Len(k) + 1)] ==
        LET node(j) == IF begins(skip(j)) THEN read["content", skip(j)] ELSE skip(j)
            inPair(j) == IF at(skip(j)) = "BlockEntry" THEN read["entries", skip(j)] ELSE node(j)
            pair(j) == IF at(j) = "Value" THEN inPair(j + 1) ELSE j
            single == IF at(i) = "Key" THEN node(i + 1) ELSE node(i)
            flow == IF at(i) = "Key" /\ at(single) = "Value" THEN node(single + 1) ELSE single
            end == IF what = "sequence" THEN "FlowSequenceEnd" ELSE "FlowMappingEnd"
        IN CASE what = "content" /\ at(i) \in {"Alias", "Scalar"} -> i + 1
             [] what = "content" /\ at(i) = "BlockSequenceStart" -> read["items", i + 1]
             [] what = "content" /\ at(i) = "BlockMappingStart" -> read["pairs", i + 1]
             [] what = "content" /\ at(i) = "FlowSequenceStart" -> read["sequence", i + 1]
             [] what = "content" /\ at(i) = "FlowMappingStart" -> read["mapping", i + 1]
             [] what = "items" /\ at(i) = "BlockEntry" -> read["items", node(i + 1)]
             [] what = "entries" ->
                  IF at(i) # "BlockEntry" THEN i
                  ELSE IF node(i + 1) > i + 1 THEN read["entries", node(i + 1)] ELSE Wrong
             [] what = "pairs" /\ at(i) = "Key" -> read["pairs", pair(inPair(i + 1))]
             [] what \in {"items", "pairs"} /\ at(i) = "BlockEnd" -> i + 1
             [] what \in {"sequence", "mapping"} /\ at(i) = end -> i + 1
             [] what \in {"sequence", "mapping"} /\ at(i) # end /\ flow > i ->
                  IF at(flow) = "FlowEntry" THEN read[what, flow + 1]
                  ELSE IF at(flow) = end THEN flow + 1 ELSE Wrong
             [] what = "documents" /\ at(i) \in {"StreamStart", "DocumentStart"} ->
                  read["documents", node(i + 1)]
             [] what = "documents" /\ at(i) \in {"DocumentEnd", "VersionDirective", "TagDirective"} ->
                  read["documents", i + 1]
             [] what = "documents" /\ at(i) = "StreamEnd" -> i
             [] OTHER -> Wrong
  IN read["documents", 1] = Len(k)
=============================================================================
