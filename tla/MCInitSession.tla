--------------------------- MODULE MCInitSession ----------------------------
EXTENDS InitSession, TLC
CONSTANTS o1, o2, c1, c2, p1, p2, null
Symmetric == Permutations({o1, o2}) \cup Permutations({c1, c2}) \cup Permutations({p1, p2})
=============================================================================
