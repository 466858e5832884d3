---------------------------- MODULE MCInboundQueue ----------------------------
(* InboundQueue on a small instance.                                       *)
EXTENDS InboundQueue, TLC

CONSTANTS c1, c2, j1

MCConsumer == {c1, c2}
=============================================================================
