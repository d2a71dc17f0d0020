--------------------------- MODULE MCDataHandler ----------------------------
\* A header of two bytes: lengths below it, equal to it, at the limit, above it
\* and above what m_Input holds.
EXTENDS DataHandler
=============================================================================
