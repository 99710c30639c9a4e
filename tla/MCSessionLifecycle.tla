------------------------- MODULE MCSessionLifecycle -------------------------
(* A session with up to three child tasks and two stop() calls: enough for  *)
(* a failing child, a second one and a third that the cleanup waits for.    *)
EXTENDS SessionLifecycle
=============================================================================
