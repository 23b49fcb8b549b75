---------------------------- MODULE MCSkillCache ----------------------------
\* SkillCache for TLC: one entry from before, its body not compressed.
EXTENDS SkillCache, TLC

CONSTANTS s1, s2, b1, b2, h1, h2, r1

MCBefore == {<<s2, b1>>}
\* Bound: of an edit, an entry that ages and a fault, two in one behaviour.
TwoDisturbances == edits + ages + faults <= 2
\* No action reads misled, so a reader that was misled once need not be followed.
NobodyMisled == misled = {}
Symmetry == Permutations(Hook)
=============================================================================
