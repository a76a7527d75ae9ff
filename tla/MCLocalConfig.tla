--------------------------- MODULE MCLocalConfig ---------------------------
EXTENDS LocalConfig

CONSTANTS n1, n2, r1, r2, k, m1, m2, s1, s2, p1, p2
=============================================================================
