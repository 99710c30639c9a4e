------------------------ MODULE ConversationStorage ------------------------
(* ConversationStorageCoordinator (application/conversation_storage.py) with *)
(* the turns of a foreground session that use it, its SQLite workers, the    *)
(* event recorder and the stop of the session. Turn n has generation n; its  *)
(* messages have the sequence numbers 2n-1 (user) and 2n (assistant). What   *)
(* the turns do with the outbox and the pipeline is in ForegroundSession and *)
(* DialoguePipeline: here a turn speaks, completes or gives up.              *)
EXTENDS EventRecorder, RecentHistory, FiniteSets

CONSTANTS MaxTurns,       \* bound: the turns of the session
          MaxFaults,      \* bound: the calls of SQLite that fail
          MessageChars    \* the length of each message's text (MessageRecord refuses a blank one)

Turns == 1..MaxTurns
Sequences == 1..(2 * MaxTurns)

ASSUME ConversationAssumption ==
    /\ MaxTurns \in Nat \ {0} /\ MaxFaults \in Nat
    /\ MessageChars \in [Sequences -> Nat \ {0}]

VARIABLES generation,   \* of the session: the turns submitted so far
          accepted,     \* the turns the actor has handled
          turn,         \* the turns' tasks
          lock,         \* the turn that holds registration_lock, or 0
          writes,       \* message writes: none, running, stored, failed
          saves,        \* how many context snapshots are being saved
          orphans,      \* how many history reads run on that no turn awaits
          faults,       \* the calls of SQLite that failed
          published,    \* the turns whose utterance.completed is in the outbox
          phase,        \* of the session: up, failing (a worker failed), closing (no
                        \* generation is current), down (the turns are over), closed
                        \* (drained), stopped
          stopping      \* the endpoint has called stop()

workers == <<writes, saves, orphans, faults>>
session == <<phase, stopping>>
vars == <<generation, accepted, turn, lock, workers, published, session, recorder>>

Idle == [pc |-> "new", prior |-> {}, history |-> <<>>]
Over == [Idle EXCEPT !.pc = "over"]

Init ==
    /\ generation = 0 /\ accepted = 0 /\ lock = 0
    /\ turn = [t \in Turns |-> Idle]
    /\ writes = [s \in Sequences |-> "none"]
    /\ saves = 0 /\ orphans = 0 /\ faults = 0
    /\ published = {}
    /\ phase = "up" /\ stopping = FALSE
    /\ RecorderInit

\* The session takes commands: its actor has not been cancelled.
Live == phase \in {"up", "failing"}

\* CancellationSource.accepts
Current(t) == Live /\ t = generation

Goto(t, pc) == turn' = [turn EXCEPT ![t].pc = pc]
Ends(t) == turn' = [turn EXCEPT ![t] = Over]

\* SessionActorContext.publish: a superseded turn's event is neither sent nor observed.
Publishes(t, displaceable) ==
    recorder' = IF Current(t) THEN Observe(recorder, displaceable) ELSE recorder

\* One more call of SQLite raises.
Faulty == faults < MaxFaults /\ faults' = faults + 1

-----------------------------------------------------------------------------
(* The turns                                                                *)

\* A client submits a turn, which the inbox takes: everything older is superseded.
Submit ==
    /\ Live /\ generation < MaxTurns
    /\ generation' = generation + 1
    /\ recorder' = Observe(recorder, FALSE)
    /\ UNCHANGED <<accepted, turn, lock, workers, published, session>>

\* _accept_turn: both sequence numbers, the user message's write, turn.accepted, the task.
Accept ==
    LET t == accepted + 1
    IN  /\ Live /\ accepted < generation
        /\ accepted' = t
        /\ writes' = [writes EXCEPT ![2 * t - 1] = "running"]
        /\ Publishes(t, TRUE)
        /\ Goto(t, "locking")
        /\ UNCHANGED <<generation, lock, saves, orphans, faults, published, session>>

\* The older messages whose writes are not done.
PriorWrites(t) == {s \in Sequences : s < 2 * t - 1 /\ writes[s] = "running"}

\* The lock is free, and no older turn was there first: asyncio.Lock is handed on in order.
LockFree(t) == lock = 0 /\ \A u \in Turns : u < t => turn[u].pc /= "locking"

Collects(t) ==
    /\ turn' = [turn EXCEPT ![t].pc = IF PriorWrites(t) = {} THEN "reading" ELSE "waiting",
                            ![t].prior = PriorWrites(t)]
    /\ UNCHANGED <<generation, accepted, lock, workers, published, session, recorder>>

\* Seeded fault: the writes are collected without registration_lock.
CollectUnlocked(t) == turn[t].pc = "locking" /\ Collects(t)

\* load_recent_history takes registration_lock for the moment it collects the writes, then
\* waits for them or reads at once.
CollectPriorWrites(t) == turn[t].pc = "locking" /\ LockFree(t) /\ Collects(t)

PriorWritesDone(t) ==
    /\ turn[t].pc = "waiting"
    /\ \A s \in turn[t].prior : writes[s] /= "running"
    /\ turn' = [turn EXCEPT ![t].pc = "reading", ![t].prior = {}]
    /\ UNCHANGED <<generation, accepted, lock, workers, published, session, recorder>>

\* The turn goes on with its history: its context snapshot is compiled (ContextCompiler) and
\* handed to a worker.
GoesOn(t, pc, found) ==
    /\ turn' = [turn EXCEPT ![t] = [pc |-> pc, prior |-> {}, history |-> found]]
    /\ saves' = saves + 1
    /\ UNCHANGED <<generation, accepted, lock, writes, faults, published, session, recorder>>

\* ORDER BY sequence
InOrder(sequences) ==
    LET sorted[n \in 0..2 * MaxTurns] ==
            IF n = 0 THEN <<>>
            ELSE IF n \in sequences THEN Append(sorted[n - 1], n) ELSE sorted[n - 1]
    IN  sorted[2 * MaxTurns]

StoredBefore(t) == InOrder({s \in Sequences : s < 2 * t - 1 /\ writes[s] = "stored"})

\* list_recent_before
ReadArrives(t) ==
    /\ turn[t].pc = "reading"
    /\ GoesOn(t, "recalling", Newest(StoredBefore(t), FetchLimit))
    /\ UNCHANGED orphans

\* load_timeout_ms is over while the turn waits, or before it reads: it goes on without a
\* history, and a read that has begun runs on.
HistoryTimesOut(t) ==
    /\ turn[t].pc \in {"waiting", "reading"}
    /\ GoesOn(t, "speaking", <<>>)
    /\ orphans' \in IF turn[t].pc = "reading" THEN {orphans, orphans + 1} ELSE {orphans}

\* The read raised: turn.failed.
ReadRaises(t) ==
    /\ turn[t].pc = "reading" /\ Faulty
    /\ Publishes(t, TRUE)
    /\ Ends(t)
    /\ UNCHANGED <<generation, accepted, lock, writes, saves, orphans, published, session>>

Speaking(t) == turn[t].pc \in {"speaking", "recalling"}

\* What a turn publishes on its way, all of it displaceable: context.snapshot_published,
\* utterance.segment_ready, speech.audio_chunk.
Speaks(t) ==
    /\ Speaking(t) /\ Current(t)
    /\ Publishes(t, TRUE)
    /\ UNCHANGED <<generation, accepted, turn, lock, workers, published, session>>

\* The pipeline ends without an utterance: superseded, or failed or empty with turn.failed.
GivesUp(t) ==
    /\ Speaking(t)
    /\ Publishes(t, TRUE)
    /\ Ends(t)
    /\ UNCHANGED <<generation, accepted, lock, workers, published, session>>

\* UtteranceCompleted: the turn takes registration_lock and publishes utterance.completed.
TakesLock(t) ==
    /\ Speaking(t) /\ LockFree(t)
    /\ lock' = t
    /\ Goto(t, "publishing")
    /\ UNCHANGED <<generation, accepted, workers, published, session, recorder>>

\* The outbox takes the event, as soon as it has room and if the turn is still current.
PublishCommits(t) ==
    /\ turn[t].pc = "publishing" /\ Current(t)
    /\ published' = published \cup {t}
    /\ Goto(t, "committed")
    /\ UNCHANGED <<generation, accepted, lock, workers, session, recorder>>

\* Back in the turn: the event is recorded, the message's write registered, the lock released.
Registers(t) ==
    /\ turn[t].pc = "committed"
    /\ recorder' = Observe(recorder, FALSE)
    /\ writes' = [writes EXCEPT ![2 * t] = "running"]
    /\ lock' = 0
    /\ Ends(t)
    /\ UNCHANGED <<generation, accepted, saves, orphans, faults, published, session>>

\* Seeded fault: the turn whose publication is refused keeps the lock.
PublishRefusedHolding(t) ==
    /\ turn[t].pc = "publishing" /\ ~Current(t)
    /\ Ends(t)
    /\ UNCHANGED <<generation, accepted, lock, workers, published, session, recorder>>

\* A superseded publication returns false: nothing to register.
PublishRefused(t) ==
    /\ turn[t].pc = "publishing" /\ ~Current(t)
    /\ lock' = 0
    /\ Ends(t)
    /\ UNCHANGED <<generation, accepted, workers, published, session, recorder>>

-----------------------------------------------------------------------------
(* The workers, on threads                                                  *)

\* A worker that fails fails the child task that awaits it, and that task cancels the actor.
ChildFails == phase' = IF phase = "up" THEN "failing" ELSE phase

WriteEnds(s) ==
    /\ writes[s] = "running"
    /\ \/ writes' = [writes EXCEPT ![s] = "stored"] /\ UNCHANGED <<faults, phase>>
       \/ Faulty /\ writes' = [writes EXCEPT ![s] = "failed"] /\ ChildFails
    /\ UNCHANGED <<generation, accepted, turn, lock, saves, orphans, published, stopping, recorder>>

SaveEnds ==
    /\ saves > 0
    /\ saves' = saves - 1
    /\ \/ UNCHANGED <<faults, phase>>
       \/ Faulty /\ ChildFails
    /\ UNCHANGED <<generation, accepted, turn, lock, writes, orphans, published, stopping,
                   recorder>>

\* A read nobody awaits ends: what it found, or its error, is dropped.
OrphanEnds ==
    /\ orphans > 0
    /\ orphans' = orphans - 1
    /\ UNCHANGED <<generation, accepted, turn, lock, writes, saves, faults, published, session,
                   recorder>>

\* Seeded fault: the reads are not tracked.
DrainedOfWrites == saves = 0 /\ \A s \in Sequences : writes[s] /= "running"

\* drain: the set of tracked workers is empty.
WorkersDrained == saves = 0 /\ orphans = 0 /\ \A s \in Sequences : writes[s] /= "running"

-----------------------------------------------------------------------------
(* The stop of the session                                                  *)

\* The endpoint stops the session: its client has left or sent what it refuses, such as any
\* command to a session that has failed.
StopBegins ==
    /\ ~stopping /\ stopping' = TRUE
    /\ phase' = IF Live THEN "closing" ELSE phase
    /\ UNCHANGED <<generation, accepted, turn, lock, workers, published, recorder>>

\* The failed session's actor ends: no generation is current any more.
ActorEnds ==
    /\ phase = "failing"
    /\ phase' = "closing"
    /\ UNCHANGED <<generation, accepted, turn, lock, workers, published, stopping, recorder>>

\* The actor cancels the turns' tasks, which release the lock; the shielded workers go on.
ChildrenCancelled ==
    /\ phase = "closing"
    /\ phase' = "down"
    /\ turn' = [t \in Turns |-> IF turn[t].pc = "new" THEN turn[t] ELSE Over]
    /\ orphans' = orphans + Cardinality({t \in Turns : turn[t].pc = "reading"})
    /\ lock' = 0
    /\ UNCHANGED <<generation, accepted, writes, saves, faults, published, stopping, recorder>>

\* drain returns and the recorder is closed, both of them by stop().
Drained ==
    /\ phase = "down" /\ stopping /\ WorkersDrained
    /\ phase' = "closed"
    /\ recorder' = Closed(recorder)
    /\ UNCHANGED <<generation, accepted, turn, lock, workers, published, stopping>>

StopReturns ==
    /\ phase = "closed" /\ recorder.task = "ended"
    /\ phase' = "stopped"
    /\ UNCHANGED <<generation, accepted, turn, lock, workers, published, stopping, recorder>>

Recorder ==
    /\ RecorderStep
    /\ UNCHANGED <<generation, accepted, turn, lock, workers, published, session>>

\* The steps of a turn's task that wait for no one outside the server.
TurnSteps(t) ==
    \/ CollectPriorWrites(t) \/ PriorWritesDone(t) \/ ReadArrives(t) \/ HistoryTimesOut(t)
    \/ ReadRaises(t) \/ GivesUp(t) \/ TakesLock(t) \/ Registers(t) \/ PublishRefused(t)

Workers == SaveEnds \/ OrphanEnds \/ \E s \in Sequences : WriteEnds(s)

Ending == ActorEnds \/ ChildrenCancelled \/ Drained \/ StopReturns

Next ==
    \/ Submit \/ Accept \/ StopBegins
    \/ \E t \in Turns : TurnSteps(t) \/ Speaks(t) \/ PublishCommits(t)
    \/ Workers \/ Recorder \/ Ending
    \/ phase = "stopped" /\ UNCHANGED vars

Spec == Init /\ [][Next]_vars

\* The event loop runs every task that can go on and SQLite calls end. Nothing is assumed of
\* the client: it need not read its outbox (PublishCommits), submit, send or leave, so the
\* endpoint, which waits for its next message, may never call stop (StopBegins).
Fairness ==
    /\ \A t \in Turns : WF_vars(TurnSteps(t))
    /\ WF_vars(Workers) /\ WF_vars(Recorder) /\ WF_vars(Ending)

FairSpec == Spec /\ Fairness

-----------------------------------------------------------------------------
(* Properties                                                               *)

Message(s) == [sequence |-> s, generation |-> (s + 1) \div 2, chars |-> MessageChars[s]]

\* What turn t's prompt shows of the conversation.
History(t) ==
    CompileHistory([i \in DOMAIN turn[t].history |-> Message(turn[t].history[i])], t)

\* The conversation before turn t as its client saw it: the user's messages and the
\* utterances that were published, but for those whose write failed.
Conversation(t) ==
    InOrder({s \in Sequences :
                /\ s < 2 * t - 1 /\ writes[s] /= "failed"
                /\ IF s % 2 = 1 THEN (s + 1) \div 2 <= accepted ELSE s \div 2 \in published})

\* A turn that recalls the conversation recalls all of it (conversation_storage.py): what the
\* compiler makes of the whole conversation its client saw, with no hole where a write was
\* still under way or a published utterance not yet registered (registration_lock); and the
\* text is within the policy's bounds and in order.
HistoryComplete ==
    \A t \in Turns : turn[t].pc = "recalling" =>
        /\ History(t) = CompileHistory([i \in DOMAIN Conversation(t) |-> Message(Conversation(t)[i])], t)
        /\ Len(History(t)) <= MaxMessages
        /\ History(t) /= <<>> => RenderedSize(History(t)) <= MaxChars
        /\ \A i, j \in DOMAIN History(t) : i < j => History(t)[i].sequence < History(t)[j].sequence

\* When stop() returns no SQLite worker is running, not even a read that timed out, no task
\* holds registration_lock and no event is left in the recorder (drain, close).
StopIsQuiet ==
    phase = "stopped" =>
        /\ saves = 0 /\ orphans = 0 /\ \A s \in Sequences : writes[s] /= "running"
        /\ lock = 0
        /\ recorder.pending = <<>> /\ recorder.task = "ended"

\* No turn waits for registration_lock or its history for ever, whatever the client leaves in
\* the outbox the holder waits for (it is superseded by then); a session whose worker failed
\* ends its turns; and once the endpoint calls stop, it returns with everything drained.
StorageSettles ==
    /\ \A t \in Turns : turn[t].pc \in {"locking", "waiting", "reading"} ~>
                            turn[t].pc \notin {"locking", "waiting", "reading"}
    /\ phase \in {"failing", "closing"} ~> phase \in {"down", "closed", "stopped"}
    /\ stopping ~> phase = "stopped"
=============================================================================
