--------------------------- MODULE MCInboundInbox ---------------------------
(* InboundInbox on small instances.                                        *)
EXTENDS InboundInbox, TLC

CONSTANTS w1, w2

MCWorker == {w1, w2}
Symmetry == Permutations(MCWorker)
=============================================================================
