------------------------ MODULE MCForegroundSession ------------------------
(* One session with mailboxes of one or two slots, so that every put can    *)
(* find its mailbox full, and two foreground submissions, so that a turn    *)
(* can be superseded by another turn, a cancellation or a barge-in.         *)
EXTENDS ForegroundSession
============================================================================
