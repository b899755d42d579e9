------------------------------ MODULE ProjectRoot ------------------------------
(***************************************************************************)
(* The directory a run is confined to (internal/discover/project.go), and  *)
(* the configuration file that may decide it (config.Find and projectRoot  *)
(* in cmd/astl/main.go). No directory is the empty set.                    *)
(***************************************************************************)
EXTENDS FileTree

resolvePath(tree, p) ==
  IF EvalSymlinks(tree, p) = {} THEN p ELSE CHOOSE q \in EvalSymlinks(tree, p) : TRUE

\* insideDir, by path component.
insideDir(dir, abs) == IsPrefix(dir, abs)
InProject(project, abs) == \E dir \in project : insideDir(dir, abs)

\* The resolved directory a source contributes.
SrcDirOf(tree, abs) == IF IsType(tree, abs, "dir") THEN abs ELSE Parent(abs)
srcDir(tree, src) == SrcDirOf(tree, resolvePath(tree, src))

\* Mutant: one step up where the loop goes on until the directory is inside.
WidenOnce(base, dir) == IF insideDir(base, dir) THEN base ELSE Parent(base)

\* base, moved up until dir lies in it.
Widen(base, dir) == LongestCommonPrefix({base, dir})

commonBase(tree, srcs) ==
  LET base[n \in 1 .. Len(srcs)] ==
        IF n = 1 THEN srcDir(tree, srcs[1]) ELSE Widen(base[n - 1], srcDir(tree, srcs[n]))
  IN IF srcs = <<>> THEN {} ELSE {base[Len(srcs)]}

\* existingFile: the regular file p stands for, if it is one.
existingFile(tree, p) == {q \in EvalSymlinks(tree, p) : tree[q].type = "file"}

configDir(cfg) == IF Base(Parent(cfg)) = ".config" THEN Parent(Parent(cfg)) ELSE Parent(cfg)

\* The root that dir marks: itself, or what an absolute configuration file
\* names, whichever directory is being tried.
projectMarker(tree, dir, relative, absolute) ==
  IF \/ Stat(tree, Append(dir, ".git")) # {}
     \/ IsType(tree, Append(dir, ".hg"), "dir")
     \/ \E cfg \in relative : existingFile(tree, dir \o cfg) # {}
  THEN {dir}
  ELSE UNION {{configDir(q) : q \in existingFile(tree, cfg)} : cfg \in absolute}

\* The deepest of base and its ancestors that marks a root, or base itself.
RootAbove(tree, base, relative, absolute) ==
  LET marked == {k \in 0 .. Len(base) : projectMarker(tree, Upto(base, k), relative, absolute) # {}}
  IN IF marked = {} THEN {base}
     ELSE projectMarker(tree, Upto(base, CHOOSE k \in marked : \A l \in marked : l <= k),
                        relative, absolute)

ProjectDir(tree, srcs, relative, absolute) ==
  UNION {RootAbove(tree, base, relative, absolute) : base \in commonBase(tree, srcs)}

filenames == << <<".ansible-lint">>, <<".ansible-lint.yml">>, <<".ansible-lint.yaml">>,
                <<".config", "ansible-lint.yml">>, <<".config", "ansible-lint.yaml">> >>

\* config.Find: the first name that is there, or that cannot be looked at.
Find(tree, dir) ==
  LET there == {i \in DOMAIN filenames : ~NotExist(tree, Followed(tree, dir \o filenames[i]))}
  IN {dir \o filenames[i] : i \in {i \in there : \A j \in there : i <= j}}

\* projectRoot: only without a configuration file in use do the names of
\* configuration files mark a root.
projectRoot(tree, srcs, inUse) ==
  IF inUse = {} THEN ProjectDir(tree, srcs, {filenames[i] : i \in DOMAIN filenames}, {})
  ELSE ProjectDir(tree, srcs, {}, inUse)
=============================================================================
