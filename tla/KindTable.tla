------------------------------- MODULE KindTable -------------------------------
(***************************************************************************)
(* The ordered table that gives a path its kind (internal/discover:        *)
(* kindTable, KindOf, glob.go). A row stands for its braces multiplied     *)
(* out: the directories a pattern may start with, and the names it may end *)
(* with.                                                                   *)
(***************************************************************************)
EXTENDS PathSpec

Row(kind, dirs, names) == [kind |-> kind, dirs |-> dirs, names |-> names]

\* `{yaml,yml}` behind what the names of the row share.
Yaml == {"*.yaml", "*.yml"}

kindTable == <<
  Row("jinja2", {<<"**">>}, {"*.j2"}),
  Row("jinja2", {<<"**">>}, {"*.j2.*"}),
  Row("yaml", {<<".github", "**">>}, Yaml),
  Row("text", {<<"**", "templates", "**">>}, {"*.*"}),
  Row("execution-environment", {<<"**">>}, {"execution-environment.yml"}),
  Row("ansible-lint-config", {<<"**">>}, {".ansible-lint"}),
  Row("ansible-lint-config", {<<"**">>}, {".ansible-lint.yaml", ".ansible-lint.yml"}),
  Row("ansible-lint-config", {<<"**", ".config">>}, {"ansible-lint.yaml", "ansible-lint.yml"}),
  Row("ansible-navigator-config", {<<"**">>}, {"ansible-navigator.yaml", "ansible-navigator.yml"}),
  Row("inventory", {<<"**", "inventory">>}, {"**.yaml", "**.yml"}),
  Row("requirements", {<<"**", "meta">>}, {"requirements.yaml", "requirements.yml"}),
  Row("galaxy", {<<"**">>}, {"galaxy.yml"}),
  Row("reno", {<<"**", "releasenotes", "*">>}, Yaml),
  Row("vars", {<<"**", d, "**">> : d \in {"host_vars", "group_vars", "vars", "defaults"}}, Yaml),
  Row("tasks", {<<"**", "tasks", "**">>}, Yaml),
  Row("rulebook", {<<"**", "rulebooks">>}, Yaml),
  Row("play-argspec", {<<"**">>}, {"*.meta.yaml", "*.meta.yml"}),
  Row("playbook", {<<"**", "playbooks">>}, Yaml),
  Row("playbook", {<<"**">>}, {"*playbook*.yml", "*playbook*.yaml"}),
  Row("playbook", {<<"**", "extensions", "patterns", "*", "playbooks">>}, Yaml),
  Row("handlers", {<<"**", "handlers">>}, Yaml),
  Row("test-meta", {<<"**", "tests", "integration", "targets", "*", "meta">>}, {"main.yaml", "main.yml"}),
  Row("meta", {<<"**", "meta">>}, {"main.yaml", "main.yml"}),
  Row("meta-runtime", {<<"**", "meta">>}, {"runtime.yaml", "runtime.yml"}),
  Row("role-arg-spec", {<<"**", "meta">>}, {"argument_specs.yaml", "argument_specs.yml"}),
  Row("yaml", {<<".config", "molecule">>}, {"config.yaml", "config.yml"}),
  Row("requirements", {<<"**", "molecule", "*">>},
      {"collections.yaml", "collections.yml", "requirements.yaml", "requirements.yml"}),
  Row("yaml", {<<"**", "molecule", "*">>}, {"base.yaml", "base.yml", "molecule.yaml", "molecule.yml"}),
  Row("requirements", {<<"**">>}, {"requirements.yaml", "requirements.yml"}),
  Row("playbook", {<<"**", "molecule", "*">>}, Yaml),
  Row("yaml", {<<"**">>}, {".ansible-lint", ".yamllint"}),
  Row("changelog", {<<"**", "changelogs">>}, {"changelog.yaml", "changelog.yml"}),
  Row("yaml", {<<"**">>}, Yaml),
  Row("yaml", {<<"**">>}, {".*.yaml", ".*.yml"}),
  Row("sanity-ignore-file", {<<"**", "tests", "sanity">>}, {"ignore-*.txt"}),
  Row("python", {<<"**">>}, {"*.py"}) >>

\* `**` takes any number of segments, anything else exactly one.
matchSegments(pat, seg) ==
  LET match[i \in 1 .. Len(pat) + 1, j \in 1 .. Len(seg) + 1] ==
        IF i > Len(pat) THEN j > Len(seg)
        ELSE IF pat[i] = "**" THEN match[i + 1, j] \/ (j <= Len(seg) /\ match[i, j + 1])
        ELSE j <= Len(seg) /\ seg[j] \in Fits(pat[i]) /\ match[i + 1, j + 1]
  IN match[1, 1]

\* A row matches segments when one of its alternations does. The name is last,
\* so it is looked at first.
RowMatches(row, seg) ==
  \E name \in row.names : /\ Last(seg) \in Fits(name)
                          /\ \E dir \in row.dirs : matchSegments(Append(dir, name), seg)

\* The kind of an absolute path, if it has one: the first row that matches.
\* Split at its slashes the path starts with an empty segment.
KindOf(path) ==
  LET seg == <<"">> \o path
      rows == {k \in DOMAIN kindTable : RowMatches(kindTable[k], seg)}
  IN {kindTable[k].kind : k \in {k \in rows : \A l \in rows : k <= l}}
=============================================================================
