------------------------------- MODULE PathSpec -------------------------------
(***************************************************************************)
(* The gitignore-style pattern lists of exclude_paths, `.gitignore` and    *)
(* yamllint's ignore: options (internal/yamllint/ignore.go, pathspec.go),  *)
(* by the regular expressions the code compiles them to. A line is a       *)
(* record of its parts, a path the sequence of its names; a directory's    *)
(* path ends in an empty name, which is what is behind the slash that      *)
(* matchEntry appends.                                                     *)
(***************************************************************************)
EXTENDS Naturals, Sequences, SequencesExt, FiniteSets

CONSTANT Wild      (* what each glob with a `*` matches: a set of names    *)

\* The names a segment matches: a segment without a wildcard is its name.
\* "*" is [^/]*, which also matches the empty name.
Fits(glob) == IF glob \in DOMAIN Wild THEN Wild[glob] ELSE {glob}

\* A line of a list: `!` in front, `/` in front, `/` behind. A comment and a
\* blank line have no segments and are dropped.
Pattern(negate, rooted, segs, dirOnly) ==
  [negate |-> negate, rooted |-> rooted, segs |-> segs, dirOnly |-> dirOnly]
NoPattern == Pattern(FALSE, FALSE, <<>>, FALSE)

ParsePathSpec(lines) == SelectSeq(lines, LAMBDA line : line.segs # <<>>)

Anchored(pattern) == pattern.rooted \/ Len(pattern.segs) > 1

\* `(?:/.*)?$`, or `/.*$` for a directory pattern, behind the name at j.
Ends(pattern, cand, j) == pattern.dirOnly => j < Len(cand)

\* The regular expression from segment i on matches the path from name j on.
\* A `**` takes whole names with the slash behind each.
MatchesFrom(pattern, cand, start) ==
  LET segs == pattern.segs
      match[i \in 1 .. Len(segs), j \in 1 .. Len(cand)] ==
        IF segs[i] = "**"
        THEN \/ IF i < Len(segs) THEN match[i + 1, j]
                ELSE cand[j] = "" /\ Ends(pattern, cand, j)
             \/ cand[j] # "" /\ j < Len(cand) /\ match[i, j + 1]
        ELSE /\ cand[j] \in Fits(segs[i])
             /\ IF i < Len(segs) THEN j < Len(cand) /\ match[i + 1, j + 1]
                ELSE Ends(pattern, cand, j)
  IN match[1, start]

\* Without an anchor the pattern may start at any name.
Matches(pattern, cand) ==
  \E start \in IF Anchored(pattern) THEN {1} ELSE DOMAIN cand : MatchesFrom(pattern, cand, start)

\* The last pattern that matches decides.
MatchSpec(spec, cand) ==
  \E k \in DOMAIN spec :
    /\ Matches(spec[k], cand) /\ ~spec[k].negate
    /\ \A l \in k + 1 .. Len(spec) : ~Matches(spec[l], cand)

-----------------------------------------------------------------------------
(* Git's own reading of a list, which the code's comments name as the      *)
(* reference: a pattern is about the path itself, a name is never empty,   *)
(* and what lies in an ignored directory is not looked at.                 *)

GitFits(glob) == Fits(glob) \ {""}

GitMatchesFrom(pattern, path, start) ==
  LET segs == pattern.segs
      match[i \in 1 .. Len(segs) + 1, j \in 1 .. Len(path) + 1] ==
        IF i = Len(segs) + 1 THEN j = Len(path) + 1
        ELSE IF segs[i] = "**"
        THEN \/ i < Len(segs) /\ match[i + 1, j]
             \/ j <= Len(path) /\ (IF i = Len(segs) THEN TRUE ELSE match[i, j + 1])
        ELSE j <= Len(path) /\ path[j] \in GitFits(segs[i]) /\ match[i + 1, j + 1]
  IN match[1, start]

GitMatches(pattern, path, isDir) ==
  /\ pattern.dirOnly => isDir
  /\ \E start \in IF Anchored(pattern) THEN {1} ELSE DOMAIN path : GitMatchesFrom(pattern, path, start)

GitIgnores(spec, path, isDir) ==
  \E k \in DOMAIN spec :
    /\ GitMatches(spec[k], path, isDir) /\ ~spec[k].negate
    /\ \A l \in k + 1 .. Len(spec) : ~GitMatches(spec[l], path, isDir)
=============================================================================
