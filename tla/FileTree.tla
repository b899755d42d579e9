------------------------------- MODULE FileTree -------------------------------
(***************************************************************************)
(* The file system as discovery sees it: what the os and path/filepath     *)
(* packages answer to Lstat, Stat, EvalSymlinks, ReadDir and Open. A path  *)
(* is the sequence of its names from the root, a tree the function from    *)
(* its paths to nodes. Relative link targets are written out as absolute.  *)
(***************************************************************************)
EXTENDS Loops, SequencesExt, FiniteSets

CONSTANTS
  Names,           (* every name, in the order ReadDir sorts them          *)
  MaxLinks         (* bound: links followed before a chain is given up     *)

ASSUME FileTreeAssumption ==
  /\ Names \in Seq({Names[i] : i \in DOMAIN Names})
  /\ \A i, j \in DOMAIN Names : Names[i] = Names[j] => i = j
  /\ MaxLinks \in Nat

Name == {Names[i] : i \in DOMAIN Names}

Node(type, grants) == [type |-> type, grants |-> grants, size |-> 0, to |-> <<>>, lines |-> <<>>]
Dir(grants) == Node("dir", grants)
File(size) == [Node("file", {"read"}) EXCEPT !.size = size]
TextFile(grants, lines) == [Node("file", grants) EXCEPT !.lines = lines]
Link(to) == [Node("link", {}) EXCEPT !.to = to]
Device == Node("device", {})

OpenDir == Dir({"list", "enter"})

\* What every file system is: nodes of four types below paths made of names.
IsTree(tree) ==
  /\ DOMAIN tree \subseteq Seq(Name)
  /\ \A p \in DOMAIN tree :
       tree[p] \in [type : {"dir", "file", "link", "device"}, grants : SUBSET {"list", "enter", "read"},
                   size : Nat, to : Seq(Name), lines : {tree[p].lines}]

Parent(p) == IF p = <<>> THEN <<>> ELSE Front(p)
Base(p) == IF p = <<>> THEN "/" ELSE Last(p)
Upto(p, k) == SubSeq(p, 1, k)

\* Every directory above p can be passed through.
Entered(tree, p) ==
  \A k \in 0 .. Len(p) - 1 :
    Upto(p, k) \in DOMAIN tree /\ tree[Upto(p, k)].type = "dir" /\ "enter" \in tree[Upto(p, k)].grants

\* Lstat finds a node at p.
Seen(tree, p) == p \in DOMAIN tree /\ Entered(tree, p)

\* The failure to look p up says that it does not exist.
NotExist(tree, p) ==
  \E k \in 0 .. Len(p) : Upto(p, k) \notin DOMAIN tree /\ Entered(tree, Upto(p, k))

\* The first link on the way to p, followed.
Follow(tree, p) ==
  LET links == {k \in 1 .. Len(p) : Seen(tree, Upto(p, k)) /\ tree[Upto(p, k)].type = "link"}
  IN IF links = {} THEN p
     ELSE LET k == CHOOSE k \in links : \A l \in links : k <= l
          IN tree[Upto(p, k)].to \o SubSeq(p, k + 1, Len(p))

Followed(tree, p) ==
  LET after[n \in 0 .. MaxLinks] == IF n = 0 THEN p ELSE Follow(tree, after[n - 1])
  IN after[MaxLinks]

\* EvalSymlinks: the path without links that p stands for, if there is one.
EvalSymlinks(tree, p) ==
  {q \in {Followed(tree, p)} : Seen(tree, q) /\ tree[q].type # "link"}

Stat(tree, p) == {tree[q] : q \in EvalSymlinks(tree, p)}
IsType(tree, p, type) == \E node \in Stat(tree, p) : node.type = type

Readable(tree, p) == \E node \in Stat(tree, p) : node.type = "file" /\ "read" \in node.grants

\* ReadDir: the names below p in order, when p can be listed.
Listable(tree, p) ==
  \E node \in Stat(tree, p) : node.type = "dir" /\ "list" \in node.grants
Listing(tree, p) == Keep(Names, {i \in DOMAIN Names : Append(p, Names[i]) \in DOMAIN tree})

\* The tree without p and what lies below it.
Without(tree, p) == [q \in {q \in DOMAIN tree : ~IsPrefix(p, q)} |-> tree[q]]
=============================================================================
