------------------------------ MODULE FileTree ------------------------------
(* The file system that LinuxFileSystem calls: a tree of directories and   *)
(* files below a base directory that nobody removes, and what the calls    *)
(* answer. Modelled from the calls in linux_file_system.cc; symbolic links *)
(* are left out. An operator named for a call gives its errno, "OK" on     *)
(* success; one named for what it leaves gives the tree.                   *)
EXTENDS Naturals, Sequences, SequencesExt

CONSTANTS
  Paths,  \* sequences of names, closed under prefixes, <<>> the base
  Files   \* identities of files (inodes)

ASSUME PathAssumption ==
  /\ Paths \subseteq Seq(STRING)
  /\ <<>> \in Paths /\ \A p \in Paths : p # <<>> => Front(p) \in Paths

None == "none"
Dir == "dir"

ASSUME FileAssumption == None \notin Files /\ Dir \notin Files

Absent(tree, p) == tree[p] = None
ChildrenOf(tree, p) == {c \in Paths : c # <<>> /\ Front(c) = p /\ ~Absent(tree, c)}
Below(p) == {c \in Paths : IsPrefix(p, c)}

(* What is there is in a directory, and the base is one.                   *)
IsTree(tree) ==
  /\ tree \in [Paths -> Files \cup {None, Dir}]
  /\ tree[<<>>] = Dir
  /\ \A p \in Paths : p # <<>> /\ ~Absent(tree, p) => tree[Front(p)] = Dir

(* Why a path cannot be followed to its last name                          *)
Walk(tree, p) ==
  IF p = <<>> THEN "OK"
  ELSE IF tree[Front(p)] = Dir THEN "OK"
  ELSE IF Absent(tree, Front(p)) THEN "ENOENT" ELSE "ENOTDIR"

Find(tree, p) ==
  IF Walk(tree, p) # "OK" THEN Walk(tree, p) ELSE IF Absent(tree, p) THEN "ENOENT" ELSE "OK"

access(tree, p) == Find(tree, p)
stat(tree, p) == Find(tree, p)
opendir(tree, p) ==
  IF Find(tree, p) = "OK" /\ tree[p] # Dir THEN "ENOTDIR" ELSE Find(tree, p)
mkdir(tree, p) ==
  IF Find(tree, p) = "OK" THEN "EEXIST" ELSE Walk(tree, p)
rmdir(tree, p) ==
  IF Find(tree, p) # "OK" THEN Find(tree, p)
  ELSE IF tree[p] # Dir THEN "ENOTDIR"
  ELSE IF ChildrenOf(tree, p) # {} THEN "ENOTEMPTY" ELSE "OK"
unlink(tree, p) ==
  IF Find(tree, p) = "OK" /\ tree[p] = Dir THEN "EISDIR" ELSE Find(tree, p)
openToRead(tree, p) == Find(tree, p)
openToWrite(tree, p) ==
  IF Walk(tree, p) = "OK" /\ tree[p] = Dir THEN "EISDIR" ELSE Walk(tree, p)

(* rename of a file or of an empty directory                               *)
rename(tree, p, q) ==
  IF Find(tree, p) # "OK" THEN Find(tree, p)
  ELSE IF Walk(tree, q) # "OK" THEN Walk(tree, q)
  ELSE IF tree[p] = Dir
  THEN IF ChildrenOf(tree, p) # {} THEN "EXDEV"  \* left out
       ELSE IF IsPrefix(p, q) /\ p # q THEN "EINVAL"
       ELSE IF tree[q] \in Files THEN "ENOTDIR"
       ELSE IF tree[q] = Dir /\ ChildrenOf(tree, q) # {} THEN "ENOTEMPTY" ELSE "OK"
  ELSE IF tree[q] = Dir THEN "EISDIR" ELSE "OK"

Made(tree, p, what) == [tree EXCEPT ![p] = what]
Removed(tree, p) == [tree EXCEPT ![p] = None]
Renamed(tree, p, q) == IF p = q THEN tree ELSE [tree EXCEPT ![p] = None, ![q] = tree[p]]
=============================================================================
