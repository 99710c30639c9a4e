----------------------------- MODULE MCMailbox -----------------------------
(* A mailbox of two slots, three priorities and two producers: the smallest *)
(* instance in which a displacement has a choice of tier, a producer can be *)
(* overtaken by the other one, and coalescing can change a priority.        *)
EXTENDS Mailbox
============================================================================
