------------------------------ MODULE MCEngine ------------------------------
\* Symmetry for TLC: IDs of one kind are interchangeable.
EXTENDS Engine

Symmetry == Permutations(TankId) \cup Permutations(BulletId) \cup Permutations(FoodId)
=============================================================================
