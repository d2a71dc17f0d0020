--------------------------- MODULE MCConnManager ----------------------------
\* Three objects, two addresses and connection numbers of two bits: addresses
\* of objects and numbers are both used again.
EXTENDS Writer, TLC

Symmetry == Permutations(Conns)
=============================================================================
