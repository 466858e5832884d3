-------------------------- MODULE MCInboundIngress --------------------------
(* InboundIngress on small instances.                                      *)
EXTENDS InboundIngress, TLC

CONSTANTS w1, w2

MCWorker == {w1, w2}
Symmetry == Permutations(MCWorker)
=============================================================================
