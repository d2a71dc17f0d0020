---------------------------- MODULE MCClientConn ----------------------------
\* CClientConn with blocks and limits of two bytes: a message is sent at once,
\* waits in m_Output, or exceeds MAX_OUTPUT_SIZE before or after a part of it
\* has been sent; the peer's data fits one round of reading, needs two, or
\* exceeds MAX_INPUT_SIZE.
EXTENDS ClientConn

MCMessages   == {<<1>>, <<2, 3>>, <<1, 2, 3, 1>>}
MCPeerChunks == {<<1>>, <<2, 3>>}
=============================================================================
