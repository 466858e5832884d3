-------------------------- MODULE MCInboundDelivery --------------------------
(* InboundDelivery on small instances: mail and hook are leased consumers, *)
(* note is the transactional one; hook and note swallow an un-gated error. *)
EXTENDS InboundDelivery, TLC

CONSTANTS h1, h2, e1, e2, mail, hook, note

MCHandler == {h1, h2}
MCEntry   == {e1, e2}
MCEntry1  == {e1}
Symmetry  == Permutations(MCHandler) \cup Permutations(MCEntry)
=============================================================================
