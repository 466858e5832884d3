--------------------------- MODULE MCInboundOutbox ---------------------------
(* InboundOutbox on small instances.                                       *)
EXTENDS InboundOutbox, TLC

CONSTANTS d1, d2

MCDispatcher == {d1, d2}
Symmetry == Permutations(MCDispatcher)
=============================================================================
