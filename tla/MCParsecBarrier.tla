-------------------------- MODULE MCParsecBarrier ---------------------------
EXTENDS ParsecBarrier
=============================================================================
