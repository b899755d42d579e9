------------------------------ MODULE MCDiscovery ------------------------------
(***************************************************************************)
(* Small file systems with one project, /p, and one directory outside it,  *)
(* /o. What stands at /p/a.yml, the permissions of two directories, the    *)
(* shape of the roles, the exclusions and the command line vary.           *)
(***************************************************************************)
EXTENDS Discovery, TLC

MCNames == <<".ansible-lint", ".config", ".git", ".gitignore", ".hg", ".tox", "a.yml",
             "ansible-lint.yml", "d", "m.yml", "n", "o", "p", "r", "roles", "tasks", "x.yml", "y.yml">>

\* Byte order, of paths in which no name that differs starts the other. The
\* slash of an absolute path comes behind a dot and before a letter.
MCBefore(a, b) ==
  LET at(c, k) == CHOOSE i \in DOMAIN MCNames : MCNames[i] = c.path[k]
      dotted(c) == c.path = <<>> \/ at(c, 1) <= 6
      same == {k \in 1 .. Len(a.path) : k <= Len(b.path) /\ SubSeq(a.path, 1, k) = SubSeq(b.path, 1, k)}
      k == Cardinality(same) + 1
  IN IF a.absolute # b.absolute THEN (IF a.absolute THEN ~dotted(b) ELSE dotted(a))
     ELSE k <= Len(b.path) /\ (k <= Len(a.path) => at(a, k) < at(b, k))

MCWild ==
  LET yml == {"a.yml", "ansible-lint.yml", "m.yml", "x.yml", "y.yml"}
  IN [glob \in {"*.yml", "**.yml"} |-> yml] @@
     [glob \in {"*.*", ".*.yml"} |-> IF glob = "*.*" THEN yml \cup {".ansible-lint", ".config", ".git",
                                       ".gitignore", ".hg", ".tox"} ELSE {}] @@
     [glob \in {"*.yaml", "**.yaml", "*.meta.yaml", "*.meta.yml", "*playbook*.yml", "*playbook*.yaml",
                "*.j2", "*.j2.*", ".*.yaml", "ignore-*.txt", "*.py"} |-> {}] @@
     ("*" :> (Name \cup {""}))

All == {"list", "enter"}
R == <<"p", "roles", "r">>
A == <<"p", "a.yml">>
M == <<"p", "roles", "r", "tasks", "m.yml">>
X == <<"o", "x.yml">>

\* A role, a role below a directory that is none, and one below a role.
Role == (Append(R, "tasks") :> OpenDir) @@ (M :> File(2))
Nested == (R \o <<"n">> :> OpenDir) @@ (R \o <<"n", "tasks">> :> OpenDir)
          @@ (R \o <<"n", "tasks", "y.yml">> :> File(1))

\* The tree around them.
Tree(a, roles, r, more) ==
  more @@ (A :> a) @@ (<<"p", "roles">> :> roles) @@ (R :> r)
  @@ (<<>> :> OpenDir) @@ (<<"p">> :> OpenDir) @@ (<<"o">> :> OpenDir) @@ (X :> File(3))

Git == <<"p", ".git">> :> OpenDir
Ignoring(grants, lines) == <<"p", ".gitignore">> :> TextFile(grants, lines)

Case(t, cwd, roots, config, excludes, fragile) ==
  [tree |-> t, cwd |-> cwd, roots |-> roots, config |-> config,
   excludes |-> excludes, fragile |-> fragile]

Anywhere(name) == Pattern(FALSE, FALSE, <<name>>, FALSE)
Unless(name) == Pattern(TRUE, FALSE, <<name>>, FALSE)
DirOnly(name) == Pattern(FALSE, FALSE, <<name>>, TRUE)
Rooted(segs) == Pattern(FALSE, TRUE, segs, FALSE)

P == <<"p">>
Orders == {<<P>>, <<P, R>>, <<R, P>>, <<P, X>>, <<X, P>>, <<A, P>>, <<A, M>>, <<R, <<"p", "roles">>, R>>, <<R, X>>,
           <<<<"p", "y.yml">>>>}

\* Permissions, and what the walk reads and lists under them.
Permissions ==
  {Case(Tree(File(1), Dir(g), Dir(h), more @@ Role @@ Git), P, roots, {}, <<>>, {})
   : g \in SUBSET All, h \in SUBSET All, roots \in {<<P>>, <<R, P>>, <<M>>},
     more \in {<<>>, Ignoring({}, <<>>), Ignoring({"read"}, <<Anywhere("a.yml")>>),
               <<"p", ".gitignore">> :> Device, <<"p", ".gitignore">> :> Link(X),
               <<"p", ".gitignore">> :> Link(<<"p", ".gitignore">>)}}

\* What an entry is: a file, a device, and where a link leads.
Links ==
  {Case(Tree(a, OpenDir, Dir(h), Role @@ more), cwd, roots, {}, excludes, {})
   : a \in {File(1), Device, Link(M), Link(X), Link(A), Link(<<"p", "m.yml">>), Link(R)},
     h \in {All, {"list"}},
     more \in {Git, <<"p", "m.yml">> :> Link(M), <<"p", ".hg">> :> OpenDir,
               (<<"p", ".tox">> :> OpenDir) @@ (<<"p", ".tox", "y.yml">> :> File(1))},
     cwd \in {P, <<>>}, roots \in Orders, excludes \in {<<>>, <<Anywhere("m.yml")>>}}

\* Lists of exclusions over nested roles.
Exclusions ==
  {Case(Tree(File(1), OpenDir, OpenDir, shape @@ Git @@ more), cwd, roots, {}, excludes, {})
   : shape \in {Role, Nested, Role @@ Nested}, cwd \in {P, <<"p", "roles">>},
     roots \in {<<P>>, <<R, P>>, <<P, M>>},
     more \in {<<>>, Ignoring({"read"}, <<Anywhere("*.yml"), Unless("a.yml")>>),
               <<"p", "roles", ".gitignore">> :> TextFile({"read"}, <<Rooted(<<"roles", "r">>)>>)},
     excludes \in {<<>>, <<NoPattern, Anywhere("*")>>, <<Anywhere("*.yml"), Unless("m.yml")>>, <<DirOnly("r")>>,
                   <<Rooted(<<"a.yml">>)>>, <<Rooted(<<"roles", "**", "m.yml">>)>>, <<Unless(".git")>>,
                   <<Rooted(<<"roles", "r", "**">>)>>}}

\* Configuration files and project markers.
Projects ==
  {Case(Tree(File(1), OpenDir, OpenDir, Role @@ more), cwd, roots, config, <<>>, {})
   : more \in {<<>>, Git, <<".git">> :> File(0), <<"p", ".ansible-lint">> :> TextFile({"read"}, <<>>),
               <<"p", ".ansible-lint">> :> TextFile({}, <<>>), <<"p", ".ansible-lint">> :> OpenDir,
               (<<"p", ".config">> :> OpenDir)
               @@ (<<"p", ".config", "ansible-lint.yml">> :> TextFile({"read"}, <<>>)),
               R \o <<".ansible-lint">> :> TextFile({"read"}, <<>>)},
     cwd \in {<<>>, P, R},
     config \in {{}, {<<"p", ".config", "ansible-lint.yml">>}, {X}}, roots \in Orders}

\* Walks during which a path vanishes.
Vanishing ==
  {Case(t, P, roots, {}, <<>>, DOMAIN t \ {<<>>})
   : t \in {Tree(a, OpenDir, OpenDir, shape @@ more)
               : a \in {File(1), Link(M)}, shape \in {Role, Nested, Role @@ Nested},
                 more \in {Git, Ignoring({"read"}, <<Anywhere("a.yml")>>)}},
     roots \in {<<P>>, <<R, P>>, <<A, P>>}}

\* Walks during which the directory vanishes that holds what a `.gitignore`
\* links to: with the only other way to what it ignores, or with the link the
\* command line names the project by.
VanishingLists ==
  LET kept == <<"p", "r">> :> OpenDir
      list(dir) == Append(dir, ".gitignore") :> TextFile({"read"}, <<Anywhere("a.yml")>>)
      linked(dir, to) == Append(dir, ".gitignore") :> Link(Append(to, ".gitignore"))
      D == <<"p", "d">>
  IN {Case(Tree(File(1), OpenDir, OpenDir,
                kept @@ list(<<"p", "r">>) @@ linked(D, <<"p", "r">>) @@ (D :> OpenDir)
                @@ (D \o <<"a.yml">> :> File(1)) @@ (<<"p", "r", "m.yml">> :> Link(D \o <<"a.yml">>))),
           P, <<P>>, {}, <<>>, {<<"p", "r">>}),
      Case(Tree(File(1), OpenDir, OpenDir,
                Git @@ list(<<"o">>) @@ linked(P, <<"o">>) @@ (<<"o", "r">> :> Link(P))),
           P, <<<<"o", "r">>>>, {}, <<>>, {<<"o">>})}

\* A list that ignores what is in a directory and re-includes one file.
MCReincluded ==
  {Case(Tree(File(1), OpenDir, OpenDir, Role @@ Git @@ (<<"p", "roles", "y.yml">> :> File(1))), P, <<P>>, {},
        <<Pattern(FALSE, FALSE, <<"roles", "*">>, FALSE), Pattern(TRUE, FALSE, <<"roles", "y.yml">>, FALSE)>>, {})}

MCWorld == Permissions \cup Links \cup Exclusions \cup Projects \cup Vanishing \cup VanishingLists
=============================================================================
