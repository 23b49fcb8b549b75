---------------------------- MODULE MCDirtyQueue ----------------------------
(* DirtyQueue for TLC: interchangeable hooks, projects and inodes.         *)
EXTENDS DirtyQueue, TLC

CONSTANTS h1, h2, w1, w2, a, b, i1, i2, i3

Symmetry == Permutations(Hook) \cup Permutations(Worker) \cup Permutations(Proj)
              \cup Permutations(Inode)
=============================================================================
