------------------------------ MODULE MCBuffer ------------------------------
\* CBuffer with blocks of three bytes and at most seven bytes of contents, so
\* that one to three blocks are in use and every branch of growth is taken.
EXTENDS CBuffer

MCChunks == {<<1>>, <<2, 3>>, <<1, 2, 3, 2>>}
=============================================================================
