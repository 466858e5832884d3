------------------------------ MODULE MCEventBus ------------------------------
(* EventBus on small instances.                                            *)
EXTENDS EventBus, TLC

CONSTANTS p1, p2, s1, s2, v1, v2

MCProcess == {p1, p2}
MCSub     == {s1, s2}
Symmetry  == Permutations(MCProcess) \cup Permutations(MCSub)
=============================================================================
