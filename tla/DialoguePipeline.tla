-------------------------- MODULE DialoguePipeline --------------------------
(* One run of DialoguePipeline (dialogue/pipeline.py): the model producer,   *)
(* the synthesis dispatcher, one synthesis task per segment and the          *)
(* generator that publishes, joined by bounded queues and a semaphore. Each  *)
(* action is the code between two suspension points of one task.             *)
(*                                                                           *)
(* Providers are external. They stream any text and any chunks, fail, or     *)
(* ignore a cancelled token; they raise CancelledError only once the token   *)
(* is cancelled, as the adapters under adapters/ do. Abstracted: identifiers,*)
(* audio bytes, token counts and the stop reason.                            *)
EXTENDS Assembler

CONSTANTS Deltas,             \* texts of one model delta
          MaxDeltas,          \* bound: deltas of one utterance
          MaxChunks,          \* bound: chunks of one segment
          MaxSegments,        \* bound: segments the deltas can be cut into
          SegmentCapacity,    \* segment_queue_capacity
          MaxSynthesis,       \* max_concurrent_synthesis
          AudioCapacity       \* audio_queue_capacity

ASSUME CapacityAssumption ==
    /\ SegmentCapacity \in Nat \ {0}
    /\ MaxSynthesis \in Nat \ {0}
    /\ AudioCapacity \in Nat \ {0}

ASSUME BoundAssumption == MaxSegments \in Nat \ {0} /\ MaxChunks \in Nat

ASSUME DeltaAssumption == Deltas \subseteq Seq(Chars)

VARIABLES current,      \* the turn's generation is the session's
          last,         \* the event yielded last
          outcome,      \* how the iteration ended, or "running"
          streamed,     \* history: the text of the deltas received
          deltas,       \* bound counter
          buffer, made, \* the assembler: its buffer and its segments
          producer,     \* the producer's state and the items it still has to put
          segments,     \* the segments queue
          dispatcher,   \* the dispatcher's state and the item it holds
          slots,        \* the free synthesis slots
          output,       \* the output queue
          synthesis,    \* the synthesis task of each segment
          audio,        \* the audio queue of each segment
          run           \* the generator's state and the item it holds

assemblerVars == <<streamed, deltas, buffer, made>>
publicVars == <<current, last, outcome>>
vars == <<publicVars, assemblerVars, producer, segments, dispatcher, slots, output,
          synthesis, audio, run>>

Stream == INSTANCE UtteranceStream

SegmentIds == 0..(MaxSegments - 1)

\* What the queues carry.
Segment(s) == [kind |-> "segment", segment |-> s, chunk |-> 0, final |-> FALSE]
Chunk(s, c, final) == [kind |-> "audio", segment |-> s, chunk |-> c, final |-> final]
Signal(kind) == [kind |-> kind, segment |-> 0, chunk |-> 0, final |-> FALSE]
ProductionFinished == Signal("finished")
SynthesisFinished == Signal("finished")

\* _StageFailed carries the error; only whether it is a CancelledError matters.
Errors == {"failed", "cancelled"}
StageFailed(error) == Signal(error)
NoItem == Signal("none")

IsSegment(item) == item.kind = "segment"
IsFailure(item) == item.kind \in Errors

Idle == [pc |-> "none", chunks |-> 0, final |-> FALSE, item |-> NoItem]

Init ==
    /\ Stream!Init
    /\ streamed = <<>> /\ deltas = 0 /\ buffer = <<>> /\ made = <<>>
    /\ producer = [pc |-> "stream", todo |-> <<>>]
    /\ segments = <<>>
    /\ dispatcher = [pc |-> "get", item |-> NoItem]
    /\ slots = MaxSynthesis
    /\ output = <<>>
    /\ synthesis = [s \in SegmentIds |-> Idle]
    /\ audio = [s \in SegmentIds |-> <<>>]
    /\ run = [pc |-> "output", item |-> NoItem]

\* The finally block set stopping, cancelled every task and joined them.
Stopping == run.pc = "ended"

Errored == IF current THEN {"failed"} ELSE Errors

-----------------------------------------------------------------------------
(* _produce_segments                                                        *)

\* The segments just made, in order; n bounds their numbers.
Items == [i \in 1..(Len(made') - Len(made)) |-> Segment(Len(made) + i - 1)]
Numbered(n) == Len(made') \in Len(made)..n

\* A delta arrives; the segments it completes are put one by one.
ModelDelta(delta) ==
    /\ producer.pc = "stream" /\ producer.todo = <<>> /\ ~Stopping
    /\ current
    /\ deltas < MaxDeltas
    /\ deltas' = deltas + 1
    /\ streamed' = streamed \o delta
    /\ LET pushed == Push(buffer, delta)
       IN  /\ buffer' = pushed.buffer
           /\ made' = made \o pushed.segments
    /\ Numbered(MaxSegments - 1)
    /\ producer' = [producer EXCEPT !.todo = Items]
    /\ UNCHANGED <<publicVars, segments, dispatcher, slots, output, synthesis, audio, run>>

\* Seeded fault: finish() is not called, so the text without a boundary is lost.
ModelEndsUnflushed ==
    /\ producer.pc = "stream" /\ producer.todo = <<>> /\ ~Stopping
    /\ buffer' = <<>>
    /\ producer' = [pc |-> "ending", todo |-> <<ProductionFinished>>]
    /\ UNCHANGED <<publicVars, streamed, deltas, made, segments, dispatcher, slots, output,
                   synthesis, audio, run>>

\* The stream ends: the assembler's rest, then the plan.
ModelEnds ==
    /\ producer.pc = "stream" /\ producer.todo = <<>> /\ ~Stopping
    /\ buffer' = <<>>
    /\ made' = made \o Flush(buffer)
    /\ Numbered(MaxSegments)
    /\ producer' = [pc |-> "ending", todo |-> Append(Items, ProductionFinished)]
    /\ UNCHANGED <<publicVars, streamed, deltas, segments, dispatcher, slots, output,
                   synthesis, audio, run>>

\* Seeded fault: the producer's failure is not passed on.
ModelFailsSilently ==
    /\ producer.pc = "stream" /\ producer.todo = <<>> /\ ~Stopping
    /\ producer' = [pc |-> "done", todo |-> <<>>]
    /\ UNCHANGED <<publicVars, assemblerVars, segments, dispatcher, slots, output, synthesis,
                   audio, run>>

\* The provider fails, breaks the protocol, or the check before a delta finds the
\* generation superseded.
ModelFails ==
    /\ producer.pc = "stream" /\ producer.todo = <<>> /\ ~Stopping
    /\ \E error \in Errored :
          producer' = [pc |-> "ending", todo |-> <<StageFailed(error)>>]
    /\ UNCHANGED <<publicVars, assemblerVars, segments, dispatcher, slots, output, synthesis,
                   audio, run>>

AfterPut(rest) == IF rest = <<>> /\ producer.pc = "ending" THEN "done" ELSE producer.pc

\* Seeded fault: an unbounded segments queue.
ProducerPutsUnbounded ==
    /\ producer.todo /= <<>> /\ ~Stopping
    /\ segments' = Append(segments, Head(producer.todo))
    /\ producer' = [pc |-> AfterPut(Tail(producer.todo)), todo |-> Tail(producer.todo)]
    /\ UNCHANGED <<publicVars, assemblerVars, dispatcher, slots, output, synthesis, audio, run>>

ProducerPuts ==
    /\ producer.todo /= <<>> /\ ~Stopping
    /\ Len(segments) < SegmentCapacity
    /\ segments' = Append(segments, Head(producer.todo))
    /\ producer' = [pc |-> AfterPut(Tail(producer.todo)), todo |-> Tail(producer.todo)]
    /\ UNCHANGED <<publicVars, assemblerVars, dispatcher, slots, output, synthesis, audio, run>>

-----------------------------------------------------------------------------
(* _dispatch_synthesis                                                      *)

DispatcherGets ==
    /\ dispatcher.pc = "get" /\ segments /= <<>> /\ ~Stopping
    /\ segments' = Tail(segments)
    /\ dispatcher' = [pc |-> IF IsSegment(Head(segments)) THEN "acquire" ELSE "put",
                      item |-> Head(segments)]
    /\ UNCHANGED <<publicVars, assemblerVars, producer, slots, output, synthesis, audio, run>>

DispatcherAcquires ==
    /\ dispatcher.pc = "acquire" /\ slots > 0 /\ ~Stopping
    /\ slots' = slots - 1
    /\ dispatcher' = [dispatcher EXCEPT !.pc = "put"]
    /\ UNCHANGED <<publicVars, assemblerVars, producer, segments, output, synthesis, audio, run>>

\* maxsize of the output queue
OutputCapacity == MaxSynthesis + 1

\* A job enters the output queue before its task starts, so jobs are in segment order.
DispatcherPuts ==
    /\ dispatcher.pc = "put" /\ Len(output) < OutputCapacity /\ ~Stopping
    /\ output' = Append(output, dispatcher.item)
    /\ IF IsSegment(dispatcher.item)
       THEN /\ dispatcher' = [pc |-> "get", item |-> NoItem]
            /\ synthesis' = [synthesis EXCEPT ![dispatcher.item.segment].pc = "stream"]
       ELSE /\ dispatcher' = [pc |-> "done", item |-> NoItem]
            /\ UNCHANGED synthesis
    /\ UNCHANGED <<publicVars, assemblerVars, producer, segments, slots, audio, run>>

-----------------------------------------------------------------------------
(* _synthesize                                                              *)

Chunks == {Chunk(s, c, final) :
             s \in SegmentIds, c \in 0..(MaxChunks - 1), final \in BOOLEAN}

\* Seeded fault: the chunk index is not compared.
AcceptedInAnyOrder(s, c) == ~synthesis[s].final /\ c.segment = s

\* A chunk is accepted when it follows the ones before, for this segment, and no final
\* chunk came yet.
Accepted(s, c) ==
    /\ ~synthesis[s].final
    /\ c.segment = s
    /\ c.chunk = synthesis[s].chunks

\* What the task does with its slot, queues and the other tasks between two puts: nothing.
speechUnchanged ==
    <<publicVars, assemblerVars, producer, segments, dispatcher, slots, output, audio, run>>

SpeechChunk(s, c) ==
    /\ synthesis[s].pc = "stream" /\ ~Stopping
    /\ Accepted(s, c)
    /\ synthesis' = [synthesis EXCEPT ![s] =
                       [pc |-> "put", chunks |-> @.chunks + 1, final |-> c.final, item |-> c]]
    /\ UNCHANGED speechUnchanged

\* The provider fails, or sends a chunk that is not accepted (a protocol error).
SpeechFails(s, error) ==
    /\ synthesis[s].pc = "stream" /\ ~Stopping
    /\ synthesis' = [synthesis EXCEPT ![s].pc = "put", ![s].item = StageFailed(error)]
    /\ UNCHANGED speechUnchanged

\* The provider's stream ends; without a final chunk that is a protocol error.
SpeechEnds(s) ==
    /\ synthesis[s].pc = "stream" /\ ~Stopping
    /\ synthesis[s].final
    /\ synthesis' = [synthesis EXCEPT ![s].pc = "put", ![s].item = SynthesisFinished]
    /\ UNCHANGED speechUnchanged

\* Seeded fault: only a successful synthesis releases its slot.
SpeechPutsLeaking(s) ==
    /\ synthesis[s].pc = "put" /\ Len(audio[s]) < AudioCapacity /\ ~Stopping
    /\ audio' = [audio EXCEPT ![s] = Append(@, synthesis[s].item)]
    /\ IF synthesis[s].item.kind = "audio"
       THEN /\ synthesis' = [synthesis EXCEPT ![s].pc = "stream", ![s].item = NoItem]
            /\ UNCHANGED slots
       ELSE /\ synthesis' = [synthesis EXCEPT ![s].pc = "done", ![s].item = NoItem]
            /\ slots' = slots + IF IsFailure(synthesis[s].item) THEN 0 ELSE 1
    /\ UNCHANGED <<publicVars, assemblerVars, producer, segments, dispatcher, output, run>>

\* The end of a task releases its slot, whatever it put last.
SpeechPuts(s) ==
    /\ synthesis[s].pc = "put" /\ Len(audio[s]) < AudioCapacity /\ ~Stopping
    /\ audio' = [audio EXCEPT ![s] = Append(@, synthesis[s].item)]
    /\ IF synthesis[s].item.kind = "audio"
       THEN /\ synthesis' = [synthesis EXCEPT ![s].pc = "stream", ![s].item = NoItem]
            /\ UNCHANGED slots
       ELSE /\ synthesis' = [synthesis EXCEPT ![s].pc = "done", ![s].item = NoItem]
            /\ slots' = slots + 1
    /\ UNCHANGED <<publicVars, assemblerVars, producer, segments, dispatcher, output, run>>

-----------------------------------------------------------------------------
(* run: the generator                                                       *)

Waiting == {"output", "audio"}

\* The generator leaves its loop: stopping is set, every task is cancelled, ends at its
\* next step and is joined; the queues and the semaphore go with the generator.
CancelTasks ==
    /\ producer' = [pc |-> "done", todo |-> <<>>]
    /\ dispatcher' = [pc |-> "done", item |-> NoItem]
    /\ synthesis' = [s \in SegmentIds |-> Idle]
    /\ segments' = <<>> /\ output' = <<>>
    /\ audio' = [s \in SegmentIds |-> <<>>]
    /\ slots' = MaxSynthesis

EndsWith(result) ==
    /\ CancelTasks
    /\ outcome' = result
    /\ run' = [pc |-> "ended", item |-> NoItem]
    /\ UNCHANGED <<current, last, assemblerVars>>

tasks == <<assemblerVars, producer, segments, dispatcher, slots, synthesis, output, audio>>

\* What a step of the generator that yields nothing and takes nothing leaves alone.
TakesNothing == <<publicVars, tasks>>

Yields(event, next) ==
    /\ last' = event
    /\ run' = [run EXCEPT !.pc = next]
    /\ UNCHANGED <<current, outcome, tasks>>

RunTakesOutput ==
    /\ run.pc = "output" /\ output /= <<>> /\ current
    /\ output' = Tail(output)
    /\ run' = [pc |-> "got_output", item |-> Head(output)]
    /\ UNCHANGED <<publicVars, assemblerVars, producer, segments, dispatcher, slots, synthesis, audio>>

RunTakesAudio ==
    /\ run.pc = "audio" /\ audio[run.item.segment] /= <<>> /\ current
    /\ audio' = [audio EXCEPT ![run.item.segment] = Tail(@)]
    /\ run' = [pc |-> "got_audio", item |->
                 [Head(audio[run.item.segment]) EXCEPT !.segment = run.item.segment]]
    /\ UNCHANGED <<publicVars, assemblerVars, producer, segments, dispatcher, slots, synthesis, output>>

\* A cancelled token ends either wait, even when an item is ready too.
RunWaitCancelled ==
    /\ run.pc \in Waiting /\ ~current
    /\ EndsWith("cancelled")

RunRaises ==
    /\ run.pc \in {"got_output", "got_audio"} /\ IsFailure(run.item)
    /\ EndsWith(run.item.kind)

\* _check_active stands before every yield.
CheckActive == current

RunYieldsSegment ==
    /\ run.pc = "got_output" /\ IsSegment(run.item)
    /\ \/ CheckActive /\ Yields(Stream!SegmentReady(run.item.segment), "audio")
       \/ ~CheckActive /\ EndsWith("cancelled")

RunYieldsAudio ==
    /\ run.pc = "got_audio" /\ run.item.kind = "audio"
    /\ \/ /\ CheckActive
          /\ Yields(Stream!AudioReady(run.item.segment, run.item.chunk, run.item.final), "audio")
       \/ ~CheckActive /\ EndsWith("cancelled")

\* The segment's audio is complete: back to the output queue.
RunNextSegment ==
    /\ run.pc = "got_audio" /\ run.item.kind = "finished"
    /\ run' = [pc |-> "output", item |-> NoItem]
    /\ UNCHANGED TakesNothing

RunJoins ==
    /\ run.pc = "got_output" /\ run.item.kind = "finished"
    /\ run' = [run EXCEPT !.pc = "joining"]
    /\ UNCHANGED TakesNothing

TasksDone ==
    /\ producer.pc = "done"
    /\ dispatcher.pc = "done"
    /\ \A s \in SegmentIds : synthesis[s].pc \in {"none", "done"}

RunYieldsCompletion ==
    /\ run.pc = "joining" /\ TasksDone
    /\ \/ CheckActive /\ Yields(Stream!Completed(Len(made)), "completed")
       \/ ~CheckActive /\ EndsWith("cancelled")

\* The consumer asks for more after the completion.
RunReturns ==
    /\ run.pc = "completed"
    /\ EndsWith("completed")

\* The consuming turn is cancelled, or closes the generator at a yield.
RunClosed ==
    /\ run.pc /= "ended"
    /\ EndsWith("closed")

-----------------------------------------------------------------------------
Supersede ==
    /\ Stream!Supersede
    /\ UNCHANGED <<assemblerVars, producer, segments, dispatcher, slots, output, synthesis,
                   audio, run>>

Finished == run.pc = "ended" /\ UNCHANGED vars

Produce == ModelEnds \/ ModelFails \/ ProducerPuts

Dispatch == DispatcherGets \/ DispatcherAcquires \/ DispatcherPuts

Synthesize(s) ==
    \/ \E c \in Chunks : SpeechChunk(s, c)
    \/ SpeechEnds(s) \/ SpeechPuts(s)
    \/ \E error \in Errored : SpeechFails(s, error)

Publish ==
    \/ RunTakesOutput \/ RunTakesAudio \/ RunWaitCancelled \/ RunRaises
    \/ RunYieldsSegment \/ RunYieldsAudio \/ RunNextSegment
    \/ RunJoins \/ RunYieldsCompletion \/ RunReturns

Work == Produce \/ Dispatch \/ (\E s \in SegmentIds : Synthesize(s)) \/ Publish

Next ==
    \/ \E delta \in Deltas : ModelDelta(delta)
    \/ Work \/ RunClosed \/ Supersede \/ Finished

Spec == Init /\ [][Next]_vars

\* The event loop runs some task as long as one can run; the model's stream ends (its
\* output is limited and its adapter times out) and the turn keeps asking for events.
FairSpec == Spec /\ WF_vars(Work)

-----------------------------------------------------------------------------
ItemKinds == {"segment", "audio", "finished", "none"} \cup Errors
ItemType == [kind : ItemKinds, segment : Nat, chunk : Nat, final : BOOLEAN]

TextTyped ==
    buffer \in Seq(Chars) /\ streamed \in Seq(Chars) /\ made \in Seq(Seq(Chars))

\* The tasks and the queues between them, within their capacities.
TasksTyped ==
    /\ current \in BOOLEAN
    /\ outcome \in {"running", "completed", "failed", "cancelled", "closed"}
    /\ Len(made) \in 0..MaxSegments
    /\ producer \in [pc : {"stream", "ending", "done"}, todo : Seq(ItemType)]
    /\ dispatcher \in [pc : {"get", "acquire", "put", "done"}, item : ItemType]
    /\ slots \in 0..MaxSynthesis
    /\ segments \in Seq(ItemType) /\ Len(segments) <= SegmentCapacity
    /\ output \in Seq(ItemType) /\ Len(output) <= OutputCapacity
    /\ synthesis \in [SegmentIds -> [pc : {"none", "stream", "put", "done"}, chunks : 0..MaxChunks,
                                     final : BOOLEAN, item : ItemType]]
    /\ audio \in [SegmentIds -> Seq(ItemType)]
    /\ \A s \in SegmentIds : Len(audio[s]) <= AudioCapacity
    /\ run \in [pc : Waiting \cup {"got_output", "got_audio", "joining", "completed", "ended"},
                item : ItemType]

\* The state of one run of the pipeline.
TypeOK == TextTyped /\ TasksTyped

\* assembler.py loses, repeats and reorders nothing a listener could hear, whatever the
\* deltas are cut into: the visible characters of its segments and of its buffer are
\* those of the model's text. No segment is blank (UtteranceSegment refuses one), and the
\* rest it keeps for later is shorter than max_segment_chars.
TextKept == CutsFaithfully(streamed, made, buffer)

Synthesizing == {s \in SegmentIds : synthesis[s].pc \in {"stream", "put"}}

HeldByDispatcher ==
    IF dispatcher.pc = "put" /\ IsSegment(dispatcher.item) THEN 1 ELSE 0

\* While the run goes on, every synthesis slot is free, held by the dispatcher between
\* its acquire and the start of the task, or held by one unfinished synthesis task of
\* pipeline.py: none leaks on an error path and none is released twice.
SlotsAccounted ==
    ~Stopping => slots + HeldByDispatcher + Cardinality(Synthesizing) = MaxSynthesis

\* pipeline.py keeps what its docstring promises, "publishing in strict segment order":
\* it implements UtteranceStream.
StreamInOrder == Stream!Spec

\* Whatever the providers do and however full the four queues are, the generator of
\* pipeline.py ends, with its tasks joined: no cycle of full queues and used slots.
RunEventuallyEnds == <>(run.pc = "ended")
=============================================================================
