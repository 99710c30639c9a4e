--------------------------- MODULE UtteranceStream ---------------------------
(* What dialogue/pipeline.py promises the turn that iterates over it: the    *)
(* events of one utterance, segment by segment and chunk by chunk, nothing   *)
(* once the generation is superseded, and behind everything a completion     *)
(* whose plan has as many segments as were yielded. last is the event        *)
(* yielded latest; segments and chunks count from 0.                         *)
EXTENDS Naturals

VARIABLES current, last, outcome

streamVars == <<current, last, outcome>>

Nothing == [kind |-> "nothing", segment |-> 0, chunk |-> 0, final |-> TRUE]
SegmentReady(s) == [kind |-> "segment", segment |-> s, chunk |-> 0, final |-> FALSE]
AudioReady(s, c, final) == [kind |-> "audio", segment |-> s, chunk |-> c, final |-> final]
Completed(count) == [kind |-> "completed", segment |-> count, chunk |-> 0, final |-> FALSE]

Init == current = TRUE /\ last = Nothing /\ outcome = "running"

\* The generation moves on: a newer turn, a cancellation or a stop.
Supersede ==
    /\ current
    /\ current' = FALSE
    /\ UNCHANGED <<last, outcome>>

\* The number of the next segment: each one follows the final chunk of the one before.
NextSegment == IF last.kind = "nothing" THEN 0 ELSE last.segment + 1

NextChunk == IF last.kind = "segment" THEN 0 ELSE last.chunk + 1

Yield ==
    /\ current
    /\ outcome = "running"
    /\ \/ last.final /\ last' = SegmentReady(NextSegment)
       \/ last.kind \in {"segment", "audio"} /\ ~last.final
          /\ \E final \in BOOLEAN : last' = AudioReady(last.segment, NextChunk, final)
       \/ last.final /\ last' = Completed(NextSegment)
    /\ UNCHANGED <<current, outcome>>

\* The iteration ends: after the completion, with a provider's failure, because the
\* generation moved on, or because its consumer was cancelled.
End ==
    /\ outcome = "running"
    /\ \/ last.kind = "completed" /\ outcome' = "completed"
       \/ outcome' = "failed"
       \/ ~current /\ outcome' = "cancelled"
       \/ outcome' = "closed"
    /\ UNCHANGED <<current, last>>

Next == Supersede \/ Yield \/ End

Spec == Init /\ [][Next]_streamVars
=============================================================================
