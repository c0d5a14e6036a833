---------------------------- MODULE MCFirstSync ----------------------------
EXTENDS FirstSync

CONSTANTS A, B, p1, p2
=============================================================================
