---------------------------- MODULE FileCounter ----------------------------
(***************************************************************************)
(* file_counter.c: the regular files below a directory, counted by         *)
(* recursion.  A directory stays open while those below it are counted.    *)
(*                                                                         *)
(* A tree is a record: up[d] is the directory that d is listed in (0 for   *)
(* the one asked about, directory 1), files[d] how many entries lstat()    *)
(* says are regular files, seen the directories lstat() succeeds on,       *)
(* closed those opendir() fails on.  Names are abstracted away.            *)
(***************************************************************************)
EXTENDS Integers, FiniteSetsExt

CONSTANT Dirs         \* each comes after the one it is listed in

ASSUME DirsAssumption == IsFiniteSet(Dirs) /\ Dirs = 1..Cardinality(Dirs)

Sum(f, S) == MapThenSumSet(LAMBDA d : f[d], S)

(* The entries of d that lstat() says are directories.                     *)
Subdirs(tree, d) == {s \in tree.seen : tree.up[s] = d}

(* Mutant: a failure below is added like a count.                          *)
countFiles_Adds(tree, descriptors) ==
  LET count[d \in Dirs] == [held \in 0..Cardinality(Dirs) |->
        IF d \in tree.closed \/ held >= descriptors THEN -1
        ELSE tree.files[d]
               + Sum([s \in Subdirs(tree, d) |-> count[s][held + 1]], Subdirs(tree, d))]
  IN  count[1][0]

(* The count, or -1 if opendir() fails anywhere; held is the number of     *)
(* directories open above d.                                               *)
countFiles(tree, descriptors) ==
  LET count[d \in Dirs] == [held \in 0..Cardinality(Dirs) |->
        LET below == [s \in Subdirs(tree, d) |-> count[s][held + 1]] IN
        IF \/ d \in tree.closed \/ held >= descriptors
           \/ \E s \in Subdirs(tree, d) : below[s] = -1
        THEN -1
        ELSE tree.files[d] + Sum(below, Subdirs(tree, d))]
  IN  count[1][0]

-----------------------------------------------------------------------------
(* Reference: d and the directories above it; the directories found are    *)
(* those that are seen, and so are all above them.                         *)
Above(tree, d) ==
  LET above[e \in {0} \union Dirs] ==
        IF e = 0 THEN {} ELSE {e} \union above[tree.up[e]]
  IN  above[d]
Found(tree) == {d \in Dirs : Above(tree, d) \ {1} \subseteq tree.seen}
=============================================================================
