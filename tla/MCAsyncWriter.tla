--------------------------- MODULE MCAsyncWriter ----------------------------
\* Two threads with two packets each: a second packet is pushed and a second
\* flush() begins while the first is under way.
EXTENDS AsyncWriter
=============================================================================
