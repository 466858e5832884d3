--------------------------- MODULE InboundMessage ---------------------------
(***************************************************************************)
(* What the durable inbound e-mail pipeline promises for one staged        *)
(* message, whatever the workers, leases, retries and crashes in between:  *)
(* the message is decided once, and its ticket and comments are written by *)
(* that decision or not at all.  The transactional consumers of its events *)
(* promise the same of each delivery and of what it notifies.              *)
(***************************************************************************)
EXTENDS Naturals

CONSTANT Message        \* the staged messages (inbound_email_inbox rows), or deliveries

VARIABLES outcome,      \* outcome[m]: what the pipeline has decided about m
          made          \* made[m]: how many times m's entities were created

vars == <<outcome, made>>

Open     == "open"
Outcomes == {Open, "succeeded", "skipped", "terminal_failed"}

Init == /\ outcome = [m \in Message |-> Open]
        /\ made    = [m \in Message |-> 0]

\* The message becomes a ticket or a reply (n = 1), or is linked to the
\* ticket and comment that already exist for it (n = 0).
Succeed(m, n) == /\ outcome[m] = Open
                 /\ outcome' = [outcome EXCEPT ![m] = "succeeded"]
                 /\ made'    = [made EXCEPT ![m] = @ + n]

\* The message is skipped by policy or given up: nothing is created.
Close(m, o) == /\ outcome[m] = Open
               /\ outcome' = [outcome EXCEPT ![m] = o]
               /\ UNCHANGED made

Next == \E m \in Message : \/ \E n \in {0, 1} : Succeed(m, n)
                           \/ \E o \in {"skipped", "terminal_failed"} : Close(m, o)

Spec == Init /\ [][Next]_vars
=============================================================================
