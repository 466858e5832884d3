----------------------------- MODULE MCAiGateway -----------------------------
(* AiGateway on small instances.                                           *)
EXTENDS AiGateway, TLC

CONSTANTS r1, r2, t1, t2, s1, c1

MCRequest == {r1, r2}
MCTick    == {t1, t2}
MCInvoice == {<<s1, 1>>, <<s1, 2>>}
Symmetry  == Permutations(MCRequest) \cup Permutations(MCTick)
=============================================================================
