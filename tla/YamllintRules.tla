----------------------------- MODULE YamllintRules -----------------------------
(***************************************************************************)
(* The token rules that keep state between tokens: anchors, key-duplicates *)
(* and truthy.  Each check takes the rule's state, the token with its      *)
(* neighbours and the configuration, and returns the state it leaves and   *)
(* the problems it reports.                                                *)
(***************************************************************************)
EXTENDS YamlTokens

Outcome(st, ps) == [st |-> st, problems |-> ps]

NoEntries == [x \in {} |-> x]

(***************************************************************************)
(* anchors: where each anchor was last declared, whether an alias used it  *)
(* since, and the order of first declarations.                             *)
(***************************************************************************)
AnchorsReset == [anchors |-> NoEntries, order |-> <<>>]

Declared(st, name) == name \in DOMAIN st.anchors

Misuse(st, c, conf) ==
  IF conf.undeclared /\ c.kind = "Alias" /\ ~Declared(st, c.value)
  THEN <<Problem(c.start, "anchors", "undeclared alias")>>
  ELSE IF conf.duplicated /\ c.kind = "Anchor" /\ Declared(st, c.value)
       THEN <<Problem(c.start, "anchors", "duplicated anchor")>>
       ELSE <<>>

DocumentEnders == {"StreamEnd", "DocumentStart", "DocumentEnd"}

(* At the end of a document every anchor no alias used is reported, where  *)
(* it was declared; any other alias marks its anchor used.                 *)
Unused(st, c, next) ==
  IF next.kind \in DocumentEnders
  THEN Outcome(st, [i \in DOMAIN SelectSeq(st.order, LAMBDA n : ~st.anchors[n].used) |->
                      Problem(st.anchors[SelectSeq(st.order, LAMBDA n : ~st.anchors[n].used)[i]].at,
                              "anchors", "unused anchor")])
  ELSE IF c.kind = "Alias" /\ Declared(st, c.value)
       THEN Outcome([st EXCEPT !.anchors[c.value].used = TRUE], <<>>)
       ELSE Outcome(st, <<>>)

Register(st, c) ==
  IF c.kind # "Anchor" THEN st
  ELSE [anchors |-> (c.value :> [at |-> c.start, used |-> FALSE]) @@ st.anchors,
        order |-> IF Declared(st, c.value) THEN st.order ELSE Append(st.order, c.value)]

AnchorsCheck(st, w, conf) ==
  LET fresh == IF w.curr.kind \in {"StreamStart", "DocumentStart", "DocumentEnd"}
               THEN AnchorsReset ELSE st
      wrong == Misuse(fresh, w.curr, conf)
      unused == IF conf.unused THEN Unused(fresh, w.curr, w.next) ELSE Outcome(fresh, <<>>)
  IN Outcome(Register(unused.st, w.curr), wrong \o unused.problems)

(***************************************************************************)
(* key-duplicates: the open collections, each with the keys seen in it.    *)
(* frames keeps the popped ones past depth: push takes them up again.      *)
(***************************************************************************)
KeysReset(st) == [st EXCEPT !.depth = 0]

Push(st, isMap) ==
  LET frame == [isMap |-> isMap, keys |-> {}]
  IN [depth |-> st.depth + 1,
      frames |-> IF st.depth < Len(st.frames)
                 THEN [st.frames EXCEPT ![st.depth + 1] = frame]
                 ELSE Append(st.frames, frame)]

Pop(st) == [st EXCEPT !.depth = IF @ > 0 THEN @ - 1 ELSE 0]

CheckKey(st, next, conf) ==
  IF next.kind # "Scalar" \/ st.depth = 0 \/ ~st.frames[st.depth].isMap
  THEN Outcome(st, <<>>)
  ELSE IF next.value \in st.frames[st.depth].keys /\ (next.value # "<<" \/ conf.mergeKeys)
       THEN Outcome(st, <<Problem(next.start, "key-duplicates", "duplication of key")>>)
       ELSE Outcome([st EXCEPT !.frames[st.depth].keys = @ \cup {next.value}], <<>>)

KeyDuplicatesCheck(st, w, conf) ==
  CASE w.curr.kind \in {"BlockMappingStart", "FlowMappingStart"} -> Outcome(Push(st, TRUE), <<>>)
    [] w.curr.kind \in {"BlockSequenceStart", "FlowSequenceStart"} -> Outcome(Push(st, FALSE), <<>>)
    [] w.curr.kind \in {"BlockEnd", "FlowMappingEnd", "FlowSequenceEnd"} -> Outcome(Pop(st), <<>>)
    [] w.curr.kind = "Key" -> CheckKey(st, w.next, conf)
    [] OTHER -> Outcome(st, <<>>)

(***************************************************************************)
(* truthy: the YAML version whose booleans count, "1.1" unless a directive *)
(* says 1.2, until the end of the document it governs.                     *)
(***************************************************************************)
Truthy12 == {"TRUE", "True", "true", "FALSE", "False", "false"}
Truthy11 == Truthy12 \cup {"YES", "Yes", "yes", "NO", "No", "no",
                           "ON", "On", "on", "OFF", "Off", "off"}

TruthyReset == "1.1"

FollowDirectives(st, c) ==
  CASE c.kind = "VersionDirective" -> IF c.value = "1.2" THEN "1.2" ELSE "1.1"
    [] c.kind = "DocumentEnd" -> "1.1"
    [] OTHER -> st

BadValues(version, conf) == (IF version = "1.2" THEN Truthy12 ELSE Truthy11) \ conf.allowed

TruthyCheck(st, w, conf) ==
  LET version == FollowDirectives(st, w.curr)
  IN Outcome(version,
       IF /\ w.prev.kind # "Tag"
          /\ conf.checkKeys \/ w.prev.kind # "Key"
          /\ w.curr.kind = "Scalar" /\ w.curr.plain
          /\ w.curr.value \in BadValues(version, conf)
       THEN <<Problem(w.curr.start, "truthy", "not an allowed boolean")>>
       ELSE <<>>)
=============================================================================
