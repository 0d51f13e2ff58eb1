--------------------------- MODULE MCSlingerPool ---------------------------
(* Small instances of MessageRefs.                                         *)
EXTENDS MessageRefs, TLC

CONSTANTS t1, t2, t3, p1, p2, b1, b2, b3

MCThreads == {t1, t2, t3}
MCPools   == {p1, p2}
MCBuffers == {b1, b2, b3}

Symmetric == Permutations(MCThreads) \cup Permutations(MCPools) \cup Permutations(MCBuffers)
=============================================================================
