-------------------------- MODULE MCSkillRaceSearch --------------------------
EXTENDS SkillRaceSearch, TLC

\* Neither the purposes nor the mutations are told apart by anything but equality.
Symmetry == Permutations(Purposes) \cup Permutations(Mutations)
=============================================================================
