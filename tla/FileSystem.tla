---------------------------- MODULE FileSystem ----------------------------
(***************************************************************************)
(* What quickfish uses of the operating system: rename(2), and mv, rm and  *)
(* mkdir run through system(3).  None of it is in the repository; it is    *)
(* modelled from the calls in file.c and tui.c.                            *)
(*                                                                         *)
(* A file system is a function from the paths that exist to what is there: *)
(* Dir, or the content of a file.  A path is the sequence of its names.    *)
(* An empty name in front stands for a doubled slash: "//a" is             *)
(* <<NoName, a>>, a different string from "/a" that names the same file.   *)
(***************************************************************************)
EXTENDS Naturals, Sequences, SequencesExt

CONSTANT Dir

Root == <<>>
NoName == <<>>

\* The path as the kernel walks it, without the slash in front that is doubled.
Resolve(p) == IF p # Root /\ Head(p) = NoName THEN Tail(p) ELSE p

Exists(f, p) == p \in DOMAIN f

IsDir(f, p) == Exists(f, p) /\ f[p] = Dir

\* Everything but the root is in a directory.
IsTree(f) == IsDir(f, Root) /\ \A p \in DOMAIN f \ {Root} : IsDir(f, Front(p))

\* Everything at p and under it.
Tree(f, p) == {q \in DOMAIN f : IsPrefix(p, q)}

Children(f, p) == {q \in Tree(f, p) : Len(q) = Len(p) + 1}

\* rename(2) succeeds: the source is there, the directory of the target is
\* there, a directory does not go under itself, and only a file replaces a
\* file, only a directory an empty directory.
CanRename(f, src, dst) ==
  /\ Exists(f, src)
  /\ src # Root
  /\ dst # Root
  /\ IsDir(f, Front(dst))
  /\ ~IsStrictPrefix(src, dst)
  /\ Exists(f, dst) /\ dst # src =>
       IF IsDir(f, src) THEN IsDir(f, dst) /\ Children(f, dst) = {}
       ELSE ~IsDir(f, dst)

\* The tree at src is now at dst, in place of what was there.
Renamed(f, src, dst) ==
  LET under(q) == SubSeq(q, Len(src) + 1, Len(q))
      moved == {dst \o under(q) : q \in Tree(f, src)}
  IN  [q \in (DOMAIN f \ (Tree(f, src) \cup Tree(f, dst))) \cup moved |->
         IF q \in moved THEN f[src \o SubSeq(q, Len(dst) + 1, Len(q))] ELSE f[q]]

Rename(f, src, dst) == IF CanRename(f, src, dst) THEN Renamed(f, src, dst) ELSE f

\* mv src dst: into dst when that is a directory, and refused when source
\* and target are the same.
Mv(f, src, dst) ==
  LET target == IF IsDir(f, dst) THEN Append(dst, Last(src)) ELSE dst
  IN  IF src = target THEN f ELSE Rename(f, src, target)

\* rm -rf
RemoveTree(f, p) == [q \in DOMAIN f \ Tree(f, p) |-> f[q]]

\* rm -f, which refuses a directory.
RemoveFile(f, p) == IF IsDir(f, p) THEN f ELSE RemoveTree(f, p)

\* mkdir -p
MkdirP(f, p) ==
  LET way == {SubSeq(p, 1, i) : i \in 0..Len(p)}
  IN  IF \E q \in way : Exists(f, q) /\ ~IsDir(f, q) THEN f
      ELSE [q \in DOMAIN f \cup way |-> IF Exists(f, q) THEN f[q] ELSE Dir]

Create(f, p, content) == [q \in DOMAIN f \cup {p} |-> IF q = p THEN content ELSE f[q]]

\* The contents of the files, wherever they are.
Contents(f) == {f[p] : p \in DOMAIN f} \ {Dir}
===========================================================================
