------------------------------- MODULE Discovery -------------------------------
(***************************************************************************)
(* The walk that finds what a run lints (internal/discover/discover.go:    *)
(* WalkWithin), from the configuration file that confines it to the last   *)
(* entry of the last root.                                                 *)
(*                                                                         *)
(* filepath.WalkDir is depth first and takes the type of an entry from the *)
(* listing of its directory; what is asked of the entry itself is asked    *)
(* when its turn comes. Until then it may be gone: Vanish removes one path *)
(* of the tree, with what lies below it, between any two steps.            *)
(***************************************************************************)
EXTENDS ProjectRoot, KindTable

CONSTANTS
  World,           (* the trees and command lines a run may meet           *)
  Before(_, _)     (* the order of two display paths, as strings           *)

\* A world is a tree, the working directory, the paths on the command line,
\* the file -c names if any, exclude_paths, and the paths that may vanish.
ASSUME WorldAssumption ==
  \A w \in World : IsTree(w.tree) /\ w.roots \in Seq(Seq(Name))

VARIABLES
  world,           (* the world the run started in                         *)
  tree,            (* the tree as it is now                                *)
  wd,              (* the directory display paths are relative to          *)
  project,         (* the directory the walk is confined to, if any        *)
  todo,            (* the roots still to be walked                         *)
  walked,          (* the roots walked so far, the current one last        *)
  agenda,          (* entries still to be visited, in WalkDir's order      *)
  gitignores,      (* what the `.gitignore` of each directory compiled to  *)
  items,           (* what was found                                       *)
  soft,            (* errors the walk went on after                        *)
  status           (* "start", "walking", "done" or "failed"               *)

vars == <<world, tree, wd, project, todo, walked, agenda, gitignores, items, soft, status>>
found == <<gitignores, items>>
setting == <<world, wd, project>>

Init ==
  /\ world \in World
  /\ tree = world.tree
  /\ wd = <<>> /\ project = {}
  /\ todo = world.roots /\ walked = <<>>
  /\ agenda = <<>> /\ gitignores = <<>> /\ items = <<>>
  /\ soft = 0
  /\ status = "start"

-----------------------------------------------------------------------------
builtin == <<".ansible", ".git", ".tox", ".mypy_cache", "__pycache__", ".DS_Store",
             ".coverage", ".pytest_cache", ".ruff_cache">>
builtinExcludes == [i \in DOMAIN builtin |-> Pattern(FALSE, FALSE, <<builtin[i]>>, FALSE)]

excluded == ParsePathSpec(builtinExcludes \o world.excludes)

\* displayPath, and the slash behind a directory. The slash in front of an
\* absolute path and the dot of the working directory itself are trimmed.
Display(base, p) == IF IsPrefix(base, p) THEN SubSeq(p, Len(base) + 1, Len(p)) ELSE p
Candidate(base, p, isDir) == Display(base, p) \o (IF isDir THEN <<"">> ELSE <<>>)

\* The display path of an item, absolute when it is not below base.
Shown(base, p) == [absolute |-> ~IsPrefix(base, p), path |-> Display(base, p)]

\* The entry is dropped: by exclude_paths, or by its own directory's
\* `.gitignore`; a root never is.
isExcluded(gitignore, root, p, isDir) ==
  /\ p # root
  /\ \/ MatchSpec(excluded, Candidate(wd, p, isDir))
     \/ MatchSpec(gitignore, Candidate(wd, p, isDir))

roleMarkers == {"tasks", "meta", "defaults", "handlers", "vars", "templates", "files"}
roleSubdirsStrict == {"tasks", "meta", "vars", "defaults", "handlers"}

HasDir(t, dir, names) == \E name \in names : IsType(t, Append(dir, name), "dir")

\* A child of `roles`, or a grandchild below a directory that is no role.
isRoleDir(t, dir) ==
  /\ HasDir(t, dir, roleSubdirsStrict)
  /\ \/ Base(Parent(dir)) = "roles"
     \/ Base(Parent(Parent(dir))) = "roles" /\ ~HasDir(t, Parent(dir), roleMarkers)

\* An entry of the agenda. Of a root WalkDir already holds the size.
Entry(path, type, sizes) == [path |-> path, type |-> type, sizes |-> sizes]

Item(abs, kind, size) == [abs |-> abs, kind |-> kind, size |-> size]

\* Mutant: an item for every way the walk comes to it.
AddAgain(abs, kind, size) ==
  IF abs # Last(walked) /\ ~InProject(project, abs) THEN items ELSE Append(items, Item(abs, kind, size))

\* add: once, and from inside the project unless it is the root itself.
Add(abs, kind, size) ==
  IF \/ \E i \in DOMAIN items : items[i].abs = abs
     \/ abs # Last(walked) /\ ~InProject(project, abs)
  THEN items ELSE Append(items, Item(abs, kind, size))

-----------------------------------------------------------------------------
InUse == IF world.config # {} THEN world.config ELSE Find(tree, world.cwd)

\* run up to the walk: a configuration file that cannot be read is fatal, and
\* decides the project root when it can.
Begin ==
  /\ status = "start"
  /\ IF \A cfg \in InUse : Readable(tree, cfg)
     THEN /\ status' = "walking"
          /\ wd' = resolvePath(tree, world.cwd)
          /\ project' = projectRoot(tree, world.roots, InUse)
     ELSE status' = "failed" /\ UNCHANGED <<wd, project>>
  /\ UNCHANGED <<world, tree, todo, walked, agenda, found, soft>>

\* The next root: one that cannot be looked at ends the run.
NextRoot ==
  /\ status = "walking" /\ agenda = <<>> /\ todo # <<>>
  /\ \E abs \in {resolvePath(tree, Head(todo))} :
       IF Stat(tree, abs) = {}
       THEN status' = "failed" /\ UNCHANGED <<walked, agenda>>
       ELSE /\ walked' = Append(walked, abs)
            /\ agenda' = <<Entry(abs, "root", {})>>
            /\ UNCHANGED status
  /\ todo' = Tail(todo)
  /\ UNCHANGED <<setting, tree, found, soft>>

At(type) == status = "walking" /\ agenda # <<>> /\ Head(agenda).type = type
Here == Head(agenda).path
Pass(isDir) ==
  isExcluded(IF Parent(Here) \in DOMAIN gitignores THEN gitignores[Parent(Here)] ELSE <<>>,
             Last(walked), Here, isDir)

\* WalkDir's own look at the root.
EnterRoot ==
  /\ At("root")
  /\ IF Seen(tree, Here)
     THEN agenda' = <<Entry(Here, tree[Here].type, {tree[Here].size})>> /\ UNCHANGED soft
     ELSE agenda' = <<>> /\ soft' = soft + 1
  /\ UNCHANGED <<setting, tree, todo, walked, found, status>>

\* loadGitignore: what the file holds, and whether reading it is an error. A
\* file that is not there is neither.
GitignoreOf(t, dir) ==
  IF Readable(t, Append(dir, ".gitignore"))
  THEN ParsePathSpec((CHOOSE node \in Stat(t, Append(dir, ".gitignore")) : TRUE).lines)
  ELSE <<>>

GitignoreFails(t, dir) ==
  LET p == Append(dir, ".gitignore") IN ~Readable(t, p) /\ ~NotExist(t, Followed(t, p))

\* Mutant: kept under the name of the directory.
CompiledByName(spec, dir) ==
  IF spec = <<>> THEN gitignores
  ELSE [d \in DOMAIN gitignores \cup {<<Base(dir)>>} |->
          IF d = <<Base(dir)>> THEN spec ELSE gitignores[d]]

Compiled(spec, dir) ==
  IF spec = <<>> THEN gitignores
  ELSE [d \in DOMAIN gitignores \cup {dir} |-> IF d = dir THEN spec ELSE gitignores[d]]

\* visitDir, for a directory that is not excluded. Its entries come next.
VisitDir ==
  /\ At("dir") /\ ~Pass(TRUE)
  /\ soft' = soft + (IF GitignoreFails(tree, Here) THEN 1 ELSE 0)
  /\ gitignores' = Compiled(GitignoreOf(tree, Here), Here)
  /\ items' = (IF isRoleDir(tree, Here) THEN Add(Here, "role", 0) ELSE items)
  /\ agenda' = <<Entry(Here, "listing", {})>> \o Tail(agenda)
  /\ UNCHANGED <<setting, tree, todo, walked, status>>

\* A directory that cannot be listed is a soft error, reported to visit.
Entries(t, dir) ==
  LET names == Listing(t, dir)
  IN [i \in DOMAIN names |-> Entry(Append(dir, names[i]), t[Append(dir, names[i])].type, {})]

\* Mutant: the error of the listing swallowed.
ListDirQuietly ==
  /\ At("listing")
  /\ agenda' = (IF Listable(tree, Here) THEN Entries(tree, Here) ELSE <<>>) \o Tail(agenda)
  /\ UNCHANGED <<setting, tree, todo, walked, found, soft, status>>

ListDir ==
  /\ At("listing")
  /\ IF Listable(tree, Here)
     THEN agenda' = Entries(tree, Here) \o Tail(agenda) /\ UNCHANGED soft
     ELSE agenda' = Tail(agenda) /\ soft' = soft + 1
  /\ UNCHANGED <<setting, tree, todo, walked, found, status>>

\* resolveLink: an entry that is no link stands for itself.
resolveLink(t, entry) ==
  IF entry.type = "link" THEN EvalSymlinks(t, entry.path) ELSE {entry.path}

\* regularSize: of a regular entry 0 when it cannot be looked at any more, of
\* any other entry only what is a regular file now.
regularSize(t, target, entry) ==
  IF entry.type # "file" THEN {node.size : node \in {n \in Stat(t, target) : n.type = "file"}}
  ELSE IF entry.sizes # {} THEN entry.sizes
  ELSE {IF Seen(t, target) THEN t[target].size ELSE 0}

Lintable(t, entry) ==
  UNION {{Item(target, kind, size) : kind \in KindOf(target), size \in regularSize(t, target, entry)}
         : target \in resolveLink(t, entry)}

\* visit, for anything but a directory.
AtFile == \E type \in {"file", "link", "device"} : At(type)

VisitFile ==
  /\ AtFile /\ ~Pass(FALSE)
  /\ \E lintable \in {Lintable(tree, Head(agenda))} :
       items' = (IF lintable = {} THEN items
                 ELSE LET i == CHOOSE i \in lintable : TRUE IN Add(i.abs, i.kind, i.size))
  /\ agenda' = Tail(agenda)
  /\ UNCHANGED <<setting, tree, todo, walked, gitignores, soft, status>>

\* Mutant: SkipDir for a file too, which drops what is left of its directory.
VisitExcludedBySkipDir ==
  /\ (At("dir") /\ Pass(TRUE)) \/ (AtFile /\ Pass(FALSE))
  /\ agenda' = SelectSeq(Tail(agenda), LAMBDA e : Parent(e.path) # Parent(Here))
  /\ UNCHANGED <<setting, tree, todo, walked, found, soft, status>>

\* visit, for an entry that is excluded, with all that lies below it.
VisitExcluded ==
  /\ (At("dir") /\ Pass(TRUE)) \/ (AtFile /\ Pass(FALSE))
  /\ agenda' = Tail(agenda)
  /\ UNCHANGED <<setting, tree, todo, walked, found, soft, status>>

\* The end of WalkWithin: the items are sorted by the path they are shown as.
Finish ==
  /\ status = "walking" /\ agenda = <<>> /\ todo = <<>>
  /\ \E order \in Injection(DOMAIN items, DOMAIN items) :
       /\ \A i, j \in DOMAIN items :
            Before(Shown(wd, items[order[i]].abs), Shown(wd, items[order[j]].abs)) => i < j
       /\ items' = [i \in DOMAIN items |-> items[order[i]]]
  /\ status' = "done"
  /\ UNCHANGED <<setting, tree, todo, walked, agenda, gitignores, soft>>

\* Some other process removes a file or a directory.
Vanish ==
  /\ status = "walking"
  /\ tree = world.tree
  /\ \E p \in world.fragile \cap DOMAIN tree : tree' = Without(tree, p)
  /\ UNCHANGED <<setting, todo, walked, agenda, found, soft, status>>

Stopped == status \in {"done", "failed"} /\ UNCHANGED vars

Next ==
  \/ Begin \/ NextRoot \/ EnterRoot \/ VisitDir \/ ListDir \/ VisitFile \/ VisitExcluded
  \/ Finish \/ Vanish \/ Stopped

Spec == Init /\ [][Next]_vars

-----------------------------------------------------------------------------
(* What the walk promises.                                                 *)

\* The entries a walk of root comes to when the tree stays as it is: every
\* directory on the way is listed, nothing on the way is excluded.
Reached(t, root) ==
  {p \in DOMAIN t :
     /\ IsPrefix(root, p)
     /\ \A k \in Len(root) .. Len(p) - 1 :
          Upto(p, k) \in DOMAIN t /\ t[Upto(p, k)].type = "dir" /\ Listable(t, Upto(p, k))
     /\ \A k \in Len(root) + 1 .. Len(p) :
          ~isExcluded(GitignoreOf(t, Upto(p, k - 1)), root, Upto(p, k), t[Upto(p, k)].type = "dir")}

\* What an entry leads to: a file of a kind, or a role.
FindsAt(t, p) ==
  IF t[p].type = "dir" THEN {<<dir, "role">> : dir \in {q \in {p} : isRoleDir(t, q)}}
  ELSE {<<i.abs, i.kind>> : i \in Lintable(t, Entry(p, t[p].type, {}))}

\* Where the walk starts: what the command line named when the run did.
Roots == UNION {EvalSymlinks(world.tree, world.roots[i]) : i \in DOMAIN world.roots}

\* Every way to something to be found: the root, the entry, and what it is.
Ways(t) ==
  UNION {UNION {{<<root, p, f>> : f \in {f \in FindsAt(t, p) : f[1] = root \/ InProject(project, f[1])}}
                : p \in Reached(t, root)}
         : root \in Roots}

Wanted(t) == {way[3] : way \in Ways(t)}

Found == {<<items[i].abs, items[i].kind>> : i \in DOMAIN items}

\* Every permission given: what could be found.
Granted(t) == [p \in DOMAIN t |-> [t[p] EXCEPT !.grants = {"list", "enter", "read"}]]

EntryType == {"root", "listing", "dir", "file", "link", "device"}

\* Every variable keeps to its type, and only directories of the project that
\* the run started in have a compiled `.gitignore`.
TypeOK ==
  /\ DOMAIN tree \subseteq DOMAIN world.tree
  /\ todo \in Seq(Seq(Name)) /\ walked \in Seq(Seq(Name))
  /\ \A i \in DOMAIN agenda : agenda[i].path \in Seq(Name) /\ agenda[i].type \in EntryType
  /\ DOMAIN gitignores \subseteq DOMAIN world.tree
  /\ \A i \in DOMAIN items : items[i].abs \in DOMAIN world.tree /\ items[i].size \in Nat
  /\ soft \in Nat
  /\ status \in {"start", "walking", "done", "failed"}

\* WalkWithin: whatever the order of the roots and however they overlap, the
\* walk finds every file and role that is below one of them, with its kind. A
\* path that vanishes meanwhile takes along only the ways that led through it,
\* and a `.gitignore` that vanishes is obeyed or not, as a whole.
FindsWhatIsThere ==
  status = "done" =>
    /\ {way[3] : way \in Ways(world.tree) \cap Ways(tree)} \subseteq Found
    /\ Found \subseteq Wanted(world.tree) \cup Wanted(tree)

\* What the rounds of linting rely on (walk.add): no two items are the same
\* file, through whatever links and roots it was come to, and an item outside
\* the project is one of the paths of the command line.
EachFileOnce ==
  /\ \A i, j \in DOMAIN items : items[i].abs = items[j].abs => i = j
  /\ \A i \in DOMAIN items :
       InProject(project, items[i].abs) \/ \E k \in DOMAIN walked : walked[k] = items[i].abs

\* A walk without a soft error has found all there is: no permission it lacks
\* hides a file from the exit code (exit-codes.md, 3). Links are left out that
\* lead through a directory it may not enter: resolveLink drops them as broken.
SilentMeansWhole ==
  /\ status = "done" /\ soft = 0 /\ tree = world.tree
  /\ \A p \in DOMAIN tree :
       tree[p].type = "link" /\ EvalSymlinks(tree, p) = {} => EvalSymlinks(Granted(tree), p) = {}
  => Wanted(Granted(tree)) \subseteq Found

\* ProjectRoot: unless a configuration file in use puts the project somewhere
\* else, everything named on the command line lies inside it, so that nothing
\* below a root but a link can lead out of it.
RootsInside ==
  status # "start" /\ world.config = {} /\ Find(world.tree, world.cwd) = {} =>
    \A i \in DOMAIN walked : InProject(project, walked[i])

\* ignore.go: "the syntax is git's". A file of a kind below a root that git,
\* given the same list, would not ignore is found.
GitWouldKeepIt ==
  status = "done" /\ tree = world.tree /\ soft = 0 /\ gitignores = <<>> =>
    \A i \in DOMAIN walked : \A p \in DOMAIN tree :
      /\ IsPrefix(walked[i], p) /\ tree[p].type = "file" /\ KindOf(p) # {}
      /\ InProject(project, p)
      /\ \A k \in 1 .. Len(p) :
           ~GitIgnores(excluded, Display(wd, Upto(p, k)), tree[Upto(p, k)].type = "dir")
      => \E j \in DOMAIN items : items[j].abs = p
=============================================================================
