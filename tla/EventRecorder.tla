---------------------------- MODULE EventRecorder ----------------------------
(* AsyncEventRecorder (application/event_recorder.py): a bounded queue of    *)
(* session events and the task that appends them to the event journal. An    *)
(* event is whether its retention class may give way to others: audio and    *)
(* operational traces may, transcripts may not.                              *)
EXTENDS Naturals, Sequences, SequencesExt

CONSTANTS RecorderCapacity

ASSUME RecorderAssumption == RecorderCapacity \in Nat \ {0}

VARIABLE recorder

\* start() has created the task, which looks at the queue as if it had been woken.
RecorderInit == recorder = [pending |-> <<>>, task |-> "asleep", wake |-> TRUE, closed |-> FALSE]

Displaceable(pending) == {i \in DOMAIN pending : pending[i]}

\* observe, with _make_room. voice.transcript_partial is not an event here: it is never queued.
Observe(r, displaceable) ==
    LET oldest == CHOOSE k \in Displaceable(r.pending) :
                      \A j \in Displaceable(r.pending) : k <= j
        queued(pending) == [r EXCEPT !.pending = Append(pending, displaceable), !.wake = TRUE]
    IN  IF r.closed THEN r
        ELSE IF Len(r.pending) < RecorderCapacity THEN queued(r.pending)
        ELSE IF displaceable \/ Displaceable(r.pending) = {} THEN r
        ELSE queued(RemoveAt(r.pending, oldest))

\* _run, between two awaits: it takes the next event to the sink, ends, or goes to sleep.
Looks(r) ==
    IF r.pending /= <<>> THEN [r EXCEPT !.pending = Tail(@), !.task = "persisting"]
    ELSE IF r.closed THEN [r EXCEPT !.task = "ended"]
    ELSE [r EXCEPT !.wake = FALSE, !.task = "asleep"]

\* The wake event is set, or _persist is over: the sink appended the event or raised, and the
\* task goes on in either case.
RecorderStep ==
    /\ \/ recorder.task = "asleep" /\ recorder.wake
       \/ recorder.task = "persisting"
    /\ recorder' = Looks(recorder)

\* close(), up to its wait for the task.
Closed(r) == [r EXCEPT !.closed = TRUE, !.wake = TRUE]
=============================================================================
