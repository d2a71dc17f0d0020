------------------------- MODULE MCAsyncDataHandler -------------------------
\* Two or three workers and up to four requests: fewer, as many and more requests
\* than sleeping workers.
EXTENDS AsyncDataHandler
=============================================================================
