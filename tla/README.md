# Eeveetuber: TLA+ models, checks and proofs

Eeveetuber is a single-process asyncio server for a spoken character: a client
connects over one WebSocket, sends text turns and microphone frames, and gets
back text segments, speech and control events. This directory holds TLA+
models of its real-time core, TLC configurations for small instances, and
TLAPS proofs. Paths below are relative to `src/eeveetuber/` in the repository.

## 1. Inventory

| Component | State | Operations | Interacts with |
|---|---|---|---|
| `runtime/mailbox.py` PriorityMailbox | list of entries, closed flag, space event, counters | `put`, `put_wait`, `get`, `close` | inbox and outbox of every session |
| `runtime/cancellation.py` | generation, closed flag, tokens | `advance`, `accepts`, `ensure_current`, `close` | session actor, pipeline, recognizer |
| `runtime/session.py` SessionActor | lifecycle, inbox, outbox, generation, interaction state, child tasks, failure | submit (immediate, waiting, foreground), `publish_result`, gated transitions, `spawn`, `stop`, `_run`, `_child_done` | handler, sender, supervisor |
| `runtime/session.py` SessionSupervisor | live sessions, watchers, recorded failures | `start_session`, `stop_session`, `shutdown`, `_watch` | API layer |
| `domain/interaction.py` | interaction state, revision | `transition` | session handlers and dialogue tasks |
| `application/foreground_session.py` | message sequence, services | command handlers, `_run_turn` | actor, pipeline, storage |
| `application/foreground_voice.py` | `_voice_capture_active` | capture, speech and recognition commands and handlers, cancel | actor, voice input |
| `application/voice_input.py` | stream, detector, utterance queue, speech epoch, active recognition | `start_stream`, `process_frame`, `finish_stream`, recognition worker, `close` | foreground voice, ASR adapter |
| `api/app.py` | receive loop, sender task | commands in, outputs out, teardown | session, voice input |
| `dialogue/` | bounded stage queues, segment assembler | model stream, synthesis, ordered delivery | providers, `_run_turn` |
| `application/event_recorder.py` | bounded pending list, writer task | `observe`, `close` | actor's event observer, SQLite |
| `application/conversation_storage.py`, `conversation_history.py` | pending writes, registration lock | persist, bounded history load, drain | repositories |
| `memory/context.py`, `application/context_service.py` | published snapshots | compile under budgets, publish | `_run_turn` |
| `media/vad.py` | idle history, candidate run, active utterance, silence run | `process`, `finish_stream` | voice input |
| `avatar/` | leases, pending cues, rate windows | submit, tick, generation change, disconnect | avatar adapter (not wired to sessions yet) |
| `memory/promotion.py`, `storage/memory_repository.py` | candidates, revisions, namespace generation | decide, commit | SQLite |
| `storage/`, `api/` codecs, `config/`, `observability/`, `adapters/`, `cli.py` | rows, frames, settings | conversion and I/O | |
| operator console (`apps/operator/app.js`) | playback queue, audio epoch, microphone token | browser side | WebSocket |

What is hard here: every task of a session interleaves at each `await`; a
result or command is stamped with a generation, waits for room, and is used
after a newer generation may have started; priorities reorder commands;
mailboxes fill up while the client does not read; tasks are cancelled at any
suspension, including inside cleanup. `PROJECT.json` lists each hazard at its
line.

What makes each part correct: a mailbox is bounded, FIFO per priority, loses
no wakeup and accounts for every item; a session lets no older speech out,
requests no illegal transition, lets the live turn own the interaction state,
answers commands with a state it is still in, keeps its idea of the microphone
right, and never needs the client's help to handle a cancellation; a lifecycle always ends, once, with nothing left
running and failures recorded; the pipeline loses no text, keeps the order of
segments and chunks and ends whatever its providers do; only the newest speech
becomes a turn and every utterance settles if the session answers; a recalled history has no hole
and a stop leaves no worker behind; the renderer shows what the scheduler
holds and no layer stays frozen; nothing is found in memory that the policy
did not admit.

## 2. Modules and how they correspond to the code

| Module | Models |
|---|---|
| `MailboxOps` | the two scans of the entry list (next to deliver, lowest to displace) and the coalescing match |
| `Mailbox` | one PriorityMailbox: `_try_put_locked` (`Coalesce`, `Accept`, `Displace`, `NoRoom`), `put`, `put_wait` with its parked and woken states, `get`, `close` |
| `PriorityQueues` | abstract: one FIFO queue per priority (the class docstring) |
| `Interaction` | `_TRANSITIONS` and the path of transitions each handler requests |
| `ForegroundSession` | one connected session: two submitters (WebSocket receive loop, recognition worker), inbox, actor loop and handlers, dialogue tasks per generation, outbox, WebSocket sender, teardown |
| `SessionLifecycle` | start, run, child failure, finally clause, overlapping `stop()` calls with timeouts, finalization of a task cancelled before its first step, supervisor's watcher |
| `Assembler` | the cutting of the model's text into speech segments, as functions on sequences of character classes |
| `DialoguePipeline` | one run of the pipeline: model producer, dispatcher, a synthesis task per segment, the generator; bounded queues and the slot semaphore |
| `UtteranceStream` | abstract: the stream of events a turn may rely on |
| `Vad` | the energy detector as functions on its state |
| `VoiceInput` | WebSocket capture, utterance queue, ASR worker and recognition task, epochs, close |
| `Director` | how a request becomes a cue: profile fallbacks, suppression, priorities, the neutral cue |
| `PresentationScheduler` | every call of the scheduler on its leases, pending cues, markers, cooldowns, windows and neutral set |
| `MemoryPromotion` | the admission policy and the decisions that may override it |
| `MemoryRepository` | candidates, overlapping `apply_decision` calls as reads and one transaction, revisions, search |
| `RecentHistory` | which stored messages a prompt shows and how much of each |
| `ContextCompiler` | tier queues, budgets, truncation, demotion and drops |
| `EventRecorder` | `observe` with displacement, the writer task, `close` |
| `ConversationStorage` | the turns that read and write the conversation, the registration lock, the SQLite workers, the recorder and the stop of the session, composed |
| `MailboxProofs`, `ForegroundSessionProofs`, `SessionLifecycleProofs`, `DialoguePipelineProofs`, `VoiceInputProofs`, `PresentationSchedulerProofs`, `ConversationStorageProofs`, `MemoryRepositoryProofs` | lemmas, theorems and proofs |
| `MC...` | one instance for TLC of each state machine; `MCDialoguePipeline`, `MCConversationStorage` and `MCMemoryRepository` the checks of pure functions over small inputs |

**Atomicity.** The code runs on one event loop, so everything between two real
suspensions is one action. The locks of the mailbox and of the session actor
are never held across a suspension, so taking one does not suspend. `put_wait` is the exception that
matters: `Mailbox` models its parking, the two signals it waits for and the
window between being woken and retrying. `ForegroundSession` builds on that and
treats a parked `put_wait` as an action that is not enabled until there is room
or the generation is superseded; that no such wakeup is lost is what `Mailbox`
proves.

**Mailbox.** Entries are a sequence in arrival order, so `_Entry.order` is the
position. The `waiter` record of a producer has `live` (its `accept_if()` and
unsignalled `cancel_waiter`) and `woken` (its space task completed, whatever
happened to the event later). `Init` chooses the overflow policy; `put` numbers
items so that properties can name them. The high watermark is left out. The
refinement mapping is `Tiers`: the queue of a priority is the list filtered by
that priority.

**ForegroundSession.** `Handle` takes the next command and runs its handler to
the first publication, with every interaction transition and the capture flag;
`Reply` is each publication, and the last one returns (spawning the dialogue
task for a turn). `TurnLoad` to `TurnDegrade` are the dialogue task between
publications. `Publish` is `publish_result`: commit under `accept_if`, displace
a strictly lower output, or give up once superseded. `Stale`, `TakeOutput` and
`OutputSent` are `_send_session_output`, which may stop at any time because the
client may stop reading. `seen` and `illegal` are history variables. Payloads,
sequence numbers, stored messages and event recording are abstracted away. A
model or provider step is any outcome the pipeline can yield (`UtteranceStream`
says which), and what a turn stores is in `ConversationStorage`.

**SessionLifecycle.** `Task.cancel()` sets a request that is delivered when the
task next resumes; requests merge until then; done callbacks run in a step
after the task's end. `closing` is the cancellation source; `escaped` is an
actor task that ended by a CancelledError without finishing its finally
clause.

**DialoguePipeline.** An action is what one task does between two awaits:
`ProducerPuts`, `DispatcherGets`, `DispatcherAcquires`, `DispatcherPuts` and
`SpeechPuts` are the puts, gets and the `acquire`; the `Run...` actions are the
generator. A provider may stream any chunk, right or wrong, fail at any point
and ignore a cancelled token. One assumption is made of it: it raises
CancelledError only once its token is cancelled, as the adapters do; a provider
that broke this would end a turn silently (`pipeline.py:208`). `Assembler`
keeps the regular expression `_BOUNDARY` as it is: a full stop at the end of
the buffer counts as a boundary, so a delta that ends in "3." is cut there, and
a sentence found whole in the buffer may be longer than `max_segment_chars`.
`CutOnce` is one round of the loop of `push`; every round shortens the buffer, so
`Cut` is as many rounds as the text has characters, the last ones changing
nothing. That they are enough is part of what `TextKept` says: no boundary is
left in the buffer.

**VoiceInput and Vad.** The detector's state is a record and each frame a
function of it; a frame is its number and one of three energies. `ws` is the
WebSocket task with the detector's events it still has to handle, so that
everything can happen between two of them. `recognition` is the task the worker
awaits: `cancelled` is a requested `Task.cancel()`, delivered at its next step.
`fate` is a history variable. The sink is the session: `AsrWaits` says that a
transcript or a failure report waits there for room, and `overtaken` that a
newer foreground command (a text turn or a cancellation, `ForegroundCommand`, or
a barge-in, `HandleStarted`) has advanced the generation meanwhile. The
submission then returns CANCELLED, which `voice_transcript_final` and
`voice_recognition_failed` ignore, and the utterance gets neither turn nor
report: `Outcome` and `FinalCancelled`. Once the session has ended
(`SessionEnds`) its submissions raise. `Close` is `close()` as a whole: it joins
what it cancels. A split by the duration limit starts a new epoch, so its second part
supersedes the recognition of the first.

**PresentationScheduler.** The scheduler has no task: an action is one call,
written as a pipeline of functions (`Expire`, then the call's work, then
`RestoreNeutrals`) on the record `sched`, as in the code. Its loops are bounded
recursive functions: `StartDue` takes as many rounds as cues are pending,
`RestoreNeutrals` goes once through the sorted layers. The events of a call are
batches of cues that start or stop together. `shown` is the renderer, which only
plays the events a call returns (`Play`); `starts` is a history of the limited
starts among these events, for all layers together and for each one. Time is an
integer clock; `Never` stands for None.

**MemoryRepository.** A call of `apply_decision` is three actions, because
SQLite opens the transaction at the first statement that writes and the session
does not flush by itself: `ReadCandidate`, then `ReadRecord`, then one atomic
`WriteStatus` or `WriteCommit` from what was read. `CallFails` is a busy timeout
or a crash in between. Ids are those of candidates; `began` and `order` are
history.

**ConversationStorage.** A turn's program counter is `locking`, `waiting`
(for prior writes), `reading`, `recalling` or `speaking`, `publishing` (holding
the lock), `committed`, `over`. Writes, snapshot saves and reads that timed out
are workers on threads that outlive the turn. The outbox is abstract: a
publication commits only if the client leaves room, or is refused once the
turn is superseded. History is enabled, as by default. A superseded turn is
not cancelled, only its token. The write and the snapshot's save are children
of the session, so a failed one fails the session (`ChildFails`): its actor
ends and cancels the turns (`ActorEnds`, `ChildrenCancelled`), but the
repositories are drained and the recorder closed by `stop()` alone (`Drained`,
`StopReturns`), which the endpoint calls when its client sends what a failed
session refuses, or leaves (`StopBegins`). `RecentHistory` and
`ContextCompiler` measure texts by their length, which is never zero because a
`MessageRecord` refuses blank content (`storage/types.py:42`); the loops of the
history compiler are recursive functions (`EligibleMessages`, `Select`), its
`LIMIT` is `Newest`. The binary search of
`_fit_message` is the longest part that fits, and `truncate` is modelled for
one-byte characters without a blank at the cut.

## 3. Runs

| Run | Instance | Checks |
|---|---|---|
| `mailbox` | 2 producers, 3 priorities, 1 key, capacity 2, 4 puts, policies drop_lowest and coalesce | `TypeOK`, `Bounded`, `WakeupsNotLost`, `Accounted`, `TopPriorityKept`, `WaitersReleased` (liveness), `KeepsPromise` (refinement of `PriorityQueues`) |
| `foreground` | inbox 2, outbox 2, 2 foreground submissions: turns, cancel, barge-in, capture start, speech, voice turns | `TypeOK`, `NoIllegalTransition`, `RunningTurnOwnsState`, `NoOlderSpeechSent`, `AnswerIsTrue` |
| `foreground_liveness` | one-slot mailboxes, 2 foreground submissions: turns, cancel, barge-in, capture start and stop, voice turns, partial transcripts; fair specification | `MicrophoneAgrees`, `CaptureNotLost`, `CancelGetsThrough`, `SupersededWorkEnds` |
| `foreground_dropped_turn` | inbox 2, outbox 1, turns and the neutral avatar | expected violation of `AcceptedTurnNotDropped` |
| `foreground_busy` | inbox 2, turn and cancel | expected violation of `BusyImpliesLiveTurn` |
| `lifecycle` | 3 children, 2 `stop()` calls, 2 messages, 1 failure | `TypeOK`, `StoppedIsQuiet`, `StopReturnsStopped`, `EndedActorIsNotRunning`, `OutcomeIsFinal`, `FailureRecorded`, `StopEndsSession` |
| `lifecycle_two_failures` | 3 children, 2 failures | expected violation of `EndedActorIsNotRunning` |
| `pipeline` | 2 deltas, up to 3 segments of 2 chunks, 2 synthesis slots, queues of 1 | `TypeOK`, `TextKept`, `SlotsAccounted`, `StreamInOrder` (refinement of `UtteranceStream`), `RunEventuallyEnds`; before it, every text of up to 5 characters is cut |
| `voice_input` | 5 frames, 2 streams, 3 detectors, an utterance queue of 1 | `UtteranceWellFormed`, `NewestSpeechWins`, `UtteranceSettles` |
| `scheduler` | 2 layers, 2 resources, 3 requests, 2 generations, 4 ticks, a pending queue and a marker table of 1 | `RendererAgrees`, `NoLayerForgotten`, `RateLimited` |
| `memory` | 4 candidates, 2 callers, 3 calls, 2 namespaces | `LedgerConsistent`, `OnlyAdmittedIsFound`, `BranchesOnlyFromOverlap`; before it, that the policy is monotone over all 2816 attribute combinations |
| `conversation_storage` | 2 turns, 1 fault of SQLite, a recorder of 2 | `HistoryComplete`, `StopIsQuiet`, `StorageSettles`; before it, that snapshots keep their budgets and that `observe` keeps durable events |

**Bounds.** Capacities of one and two make every put find its mailbox full;
capacity two with three priorities gives displacement a choice of tier, and
four puts fill the mailbox, park a producer and overtake it. Two foreground
submissions let a turn, a parked capture event or a reply be superseded by a
turn, a cancellation or a barge-in whose own turn then runs. The commands no
passing run submits (ping, playback acknowledgements, neutral avatar, empty and
failed recognitions) change no state when they are handled and share their
priorities and their way of submission with the ones that are; the proofs of
section 5 hold for all of them and for any number of generations. One
segment separates PROCESSING from SPEAKING; audio may follow it any number of
times. Three children are a failing one, a second failing one and one the
cleanup waits for. Two chunks a segment and three segments over
two slots and queues of one make every stage wait for the next; five frames are
enough to start, split, end and supersede an utterance and to find the queue of
utterances full, and the three detectors meet their limit exactly, only exceed it, and start
with one frame. Two layers whose cues share a resource preempt across layers,
and four ticks outlast every lease, window and cooldown. Three calls of two
callers overlap and still leave one that comes after both. Two turns are one
that stores and one that recalls; more turns only repeat the pair. The bounds
that are not the code's own, each in a guard, are `MaxPuts`, `MaxGen`,
`MaxSegments` and `MaxMessages` of the session models, `MaxFailures`,
`MaxDeltas`, `MaxChunks`, `MaxFrames`, `MaxStreams`, `MaxRevision`, `MaxTime`,
`MaxGeneration`, `MaxLag`, `MaxCalls`, `MaxTurns` and `MaxFaults`. Deadlock checking
is off where the system may stop: a bounded number of submissions, or a
stopped session. `Mailbox` keeps it on.

**Fairness.** Weak fairness stands for the event loop running every runnable
task: woken waiters, the consumer, the actor, dialogue tasks, parked
submitters, cancelled children, `stop()` calls and the watcher. None is assumed
of the client, of the WebSocket sender (it waits for the client to read), of
new commands, or of a provider. In `SessionLifecycle` a handler is only sure
to return once the cancellation source is closed, which releases its
publications, and a child only once it is cancelled. In the pipeline the
model's stream is fair too: it is limited and its adapter has a timeout. In
`VoiceInput` only the worker and the recognition are fair (`asyncio.timeout`
bounds it), not the speaker, nor the session: a submission that waits is fair
only once it is overtaken or the session has ended, and `UtteranceSettles` is
claimed under the antecedent `SessionAnswers`, that no submission waits in the
session for ever (a client that never reads can hold one there). In
`ConversationStorage` SQLite calls end, and nothing is assumed of the client: a
publication need not find room, and the endpoint, which waits for the client's
next message, need never call `stop()`. `StorageSettles` therefore promises a
failed session only that its turns end, and that everything is drained once
`stop()` has been called. The scheduler and
the memory repository state no liveness: they run only when called.

Every property of a passing run has a seeded fault: a definition marked as one
beside the definition it would replace, which makes TLC find the property
violated.

## 4. Findings

* `foreground_busy`: a CRITICAL cancel overtakes the HIGH turn it cancels.
  `_accept_turn` then enters PROCESSING for the superseded turn without looking
  at its generation; its publications and its gated transitions are rejected,
  so nothing leaves PROCESSING until the next command.
* `lifecycle_two_failures`: while the finally clause of `_run` gathers the
  children the lifecycle is still RUNNING, so `_child_done` of a second failing
  child cancels the actor again. The clause is left half way: the outbox stays
  open, the lifecycle RUNNING, `wait_stopped()` never returns and the
  supervisor records nothing. With one failure none of this happens: `lifecycle`
  checks it, and `OneFailureFailsSession` proves it for any number of children,
  `stop()` calls and messages.

* `foreground_dropped_turn`: `request_neutral_avatar` puts a CRITICAL command at
  once, and on a full inbox it displaces the newest HIGH one, a turn that
  `submit_foreground_turn` had accepted and for which it had superseded the
  older ones. Nobody is told: `app.py` ignores the result of both submissions.
  The architecture document (line 1186) says "never silently drop approvals,
  turns, or safety events".

Other behaviour the models reach, kept as observations:

* After a failed write the session ends itself, but the sender only returns
  (`app.py:368`) and the endpoint stays in `websocket.receive()` (`app.py:226`).
  With a client that stays silent `stop()` is never called, nothing is drained
  or closed, and no event or log line of the connection tells of the failure;
  the fair behaviours of `ConversationStorage` include this one, and
  `StorageSettles` promises no more. The architecture document (line 1185) says
  "report operator-visible degraded state".
* A failure report that a newer text turn, cancellation or barge-in overtakes is
  never shown. The architecture document (line 1180) asks for "a quiet
  microphone error", but the client has moved on by then. A transcript that is
  overtaken so is lost in the same way, which the docstring of
  `submit_foreground_turn_wait` announces.
* Two `apply_decision` calls that overlap on one base revision both commit, and
  the memory branches; `BranchesOnlyFromOverlap` shows that nothing else
  produces a branch. A rejection that overlaps a commit can leave the candidate
  `rejected` with its revision in place. The namespace of a revision is not
  compared with that of its base. The architecture document (line 1079) wants
  only one consolidation transaction per namespace to integrate at a time; the
  consolidator that would see to it does not exist yet
  (`IMPLEMENTATION_STATUS.md:110`), and the repository alone does not.
* A turn cancelled between the commit of `utterance.completed` and its return
  leaves the client with an utterance that is neither journalled nor stored.
* The deadline of a history load does not bound the wait for
  `registration_lock`; `StorageSettles` shows that the holder always lets go,
  because the turn that waits has superseded it.
* The second half of speech split by the duration limit supersedes the
  recognition of the first half.

## 5. Proofs

Assumptions: the `ASSUME`s of `Mailbox`, `ForegroundSession`,
`SessionLifecycle`, `DialoguePipeline` and `Assembler`, `Vad` and `VoiceInput`,
`Director` and `PresentationScheduler`, `ConversationStorage`, `RecentHistory`
and `EventRecorder`, and `MemoryRepository` (positive capacities, limits and
message lengths, integer priorities, natural bounds, finite sets of producers and
children, deltas that are texts, settings that `EnergyVadConfig`,
`AvatarCapabilityProfile` and `SchedulerPolicy` accept, sentinels outside the
sets they are told from), which TLC evaluates in every run. Capacities, sets of commands, producers,
candidates, namespaces, callers and priorities, detector configurations,
profiles, requests and rate limits, texts, numbers of turns, segments, chunks
and frames and all other bounds are arbitrary. Each inductive invariant was checked by TLC on small instances
before its proof.

Some of these theorems are about what a recursive function computes. That the
function is what its equation says is `Iteration` (a sequence of values from a
first value and a step for each number), and induction over it is the argument
of the least counterexample, as a lemma on a set of numbers (`LeastNumber`,
`UpToInduction`). Both are repeated in the modules that need them.

* `MailboxProofs`. The inductive invariant is
  `IInv == TypeOK /\ Bounded /\ WakeupsNotLost`. `Bounded` is needed by
  `WakeupsNotLost` (a displacement then leaves the queue exactly full, so the
  cleared event stays right), and both need the types. `TryPutEffect` states once
  what any successful put does; `AdmittedStep`, `QuietStep` and `SignalStep`
  are the three ways a step can touch the space event; `NextIInv` has one case
  per action. Theorems: `TypeCorrect`, `CapacityRespected`, `NoLostWakeup`.
  `Accounted` is inductive beside `IInv`; its two equations are followed apart:
  a step ends a call, parks it or lets it leave (`CallEnds`, `CallParks`,
  `CallLeaves`, on the cardinality of the set of waiters) and takes an item in or
  out (`OneOutcome`, `ItemTaken`). Theorem: `EveryItemAccounted`. For the action
  property `TopPriorityKept` it is enough that a put displaces only an entry of
  lower priority than its own. Theorem: `TopPrioritySafe`. `MailboxKeepsPromise`
  is `Spec => KeepsPromise`, the refinement of `PriorityQueues`: filtering the
  list by a priority distributes over concatenation (`TierConcat`), so around one
  entry it is what is before it, the entry itself, and what is behind it
  (`TierAround`); from this come the head of the highest tier (`DeliverTiers`),
  the tail of the lowest (`RemoveLowestTiers`), a replacement in the middle
  (`WithoutTiers`, `InsertedTiers`) and the number of queued items
  (`TotalIsLength`), and one lemma for each step that changes the queues
  (`AcceptRefines`, `DisplaceRefines`, `CoalesceRefines`, `GetRefines`,
  `CloseRefines`).
* `ForegroundSessionProofs`. `TInv == TypeOK /\ Handling`, where `Handling`
  says that a command being handled still has a reply to publish, so that
  `Head` and `Tail` are defined. `SpeechInOrder` proves `NoOlderSpeechSent`
  with `SpeechInv`, which adds that nothing queued, being sent or already sent
  is newer than the current generation. The five properties of the interaction
  state and the microphone (`TransitionsLegal`, `TurnOwnsState`, `AnswersAreTrue`,
  `StateFollowsMicrophone`, `CaptureEventsArrive`) share `SessionInv`, since none
  is inductive alone: a transition is legal because the turn that asks for it
  owns the state; it owns the state because no foreground command that could
  disturb it is left in the inbox (`OneOwner`), which follows from the order of
  generations and priorities in the inbox (`InOrder`, `TurnsAhead`); an answer
  stays true because no turn of its generation runs yet (`Answering`) and the
  last transition of an older one is refused; and speech
  finds the microphone open because the event that opened it is ahead of it in
  the same queue (`Covered`, `MicReported`). What the queued capture events will
  leave is stated by `Leaves`, "the last one decides", and not by a fold.
* `SessionLifecycleProofs`. `IInv` adds to the types and the two invariants
  that a session not started has no task, that the actor gathers its children
  behind a closed inbox, that the queue holds only submitted messages, and that
  `_stopped` is set exactly with the terminal state and never while the actor
  task runs: without the last one a second finalization could not be excluded.
  It holds for any number of failures, also where `EndedActorIsNotRunning`
  fails. Theorems: `TypeCorrect`, `StoppedSessionsAreQuiet`,
  `StopIsSynchronous`, `OutcomesAreFinal`. `OneFailureFailsSession` proves
  `EndedActorIsNotRunning` for as long as at most one exception was raised,
  whatever `MaxFailures` is: while the session runs that exception is in one
  place, a failed child, a cancel() request or the finally clause (`OneFailure`),
  and the actor escapes only when it is in two.
* `DialoguePipelineProofs`. Segments are numbered, with the final signal behind
  them; every queue then holds consecutive numbers, each begins where the one
  downstream ends (`QueuesInOrder`), the same goes for the chunks of a segment
  (`AudioInOrder`), and the first number tells what the generator has yielded
  (`RunInOrder`). With `SynthesisInOrder` (a segment's task starts when the
  segment goes to the output queue) this gives the refinement, initial states
  and steps, as `PipelineInOrder == Spec => StreamInOrder`. `NoSlotLeaks` is
  `SlotsAccounted`, by the cardinality of the set of unfinished synthesis tasks.
  Once the run is being torn down the queues mean nothing, so the order is
  claimed only while it is not. `QueuesWithinCapacity` proves the part
  `TasksTyped` of `TypeOK`: no queue is ever fuller than its maxsize and no
  semaphore freer than it began (`Bounds`, and the slots from `SlotsAccounted`).
  `TextAlwaysKept` is `TextKept`, for any texts: a round of the assembler's loop
  keeps what is said, the segments and then the buffer without its blanks
  (`Said`), emits only stripped and nonempty segments (`Neat`), and either
  shortens the buffer or finds nothing to cut (`Progress`); hence after as many
  rounds as there are characters nothing is left to cut (`Quiet`). With it
  `PipelineTypes` is the whole of `TypeOK`.
* `VoiceInputProofs`. `NewestSpeechSubmitted` proves the action property
  `NewestSpeechWins` from `Fresh`: a recognition that was not cancelled is of the
  newest speech. `UtterancesWellFormed` proves `UtteranceWellFormed` for any
  configuration of the detector: the frames it holds are consecutive and within
  both limits (`GoodVad`, with one lemma per branch of `process`), and the
  events the WebSocket task has still to handle alternate between starts and
  ends, from what the coordinator hears to what the detector does (`Alternate`).
* `ConversationStorageProofs`. `StopLeavesNothing` proves `StopIsQuiet` from what
  each phase of the stop leaves (`CancelledAreOver`, `ClosedIsDrained`,
  `RecorderEnds`). `RecallsWholeConversation` proves the heart of
  `HistoryComplete`: the messages a turn has read are the newest of the
  conversation its client saw, and stay so. It needs `LockHeld`,
  `UtteranceWrites` (a published utterance is being written, or its turn holds
  the lock) and `PriorsKnown` (a turn that has passed the lock waits for every
  older write). `HistoryAlwaysComplete` is `HistoryComplete` itself: every message
  of the conversation is eligible, so the limit of the read loses nothing that the
  compiler would have taken (`FetchIsEnough`), and the compiled history is in order
  and within its limits of messages and characters (`CandidatesAscend`,
  `SelectBounded`).
* `PresentationSchedulerProofs`. `CallInv` is an invariant of the state inside a
  call, kept by each of its stages (expire, stop, start, restore the neutrals), and
  `IInv` the same between two calls (`SchedulerInvariant`). It says that leases
  exclude each other on layers and resources and `byLayer` names their cues
  (`Exclusive`), that what waits is of the current generation and waits once
  (`Waiting`), that
  playing the events so far gives the cues of the leases (`Displayed`), that a
  layer once used is held or needs its neutral (`Covered`), and that a window of
  start times is the end of the history of starts, the part cut off being too old
  to count (`Windowed`, `Rated`). Theorems: `RendererAlwaysAgrees`,
  `NoLayerIsForgotten` (no neutral waits while nothing is in its way) and
  `RatesAreLimited` (over any window of the clock, not only the present one).
* `MemoryRepositoryProofs`. `IInv` adds to the three invariants: a call under
  way that will commit carries a valid decision; revisions are numbered in the
  order of their commits; a base names a memory and one of its revisions; a
  parent is an older revision of the same memory; and whatever is built on the
  base of a call about to commit came after the call began. The last one is
  what `BranchesOnlyFromOverlap` needs, and the check of the base establishes
  it: by `CurrentBaseHasNoChild` a base that is still current has no child,
  since a child would be newer and the record would point at it. Theorems:
  `LedgerStaysConsistent`, `OnlyAdmittedIsEverFound`, `BranchesNeedOverlap`.

Only model-checked, and why:

* liveness, which needs fairness and `ENABLED`: `WaitersReleased`,
  `CancelGetsThrough`, `SupersededWorkEnds`, `FailureRecorded`,
  `StopEndsSession`, `RunEventuallyEnds`, `UtteranceSettles`, `StorageSettles`;
* the pure functions of `ContextCompiler` and `MemoryPromotion` and the choice of
  what `observe` displaces, which `ASSUME`s of the `MC` modules check over small
  inputs (the compiler is a fold over several queues at once).

Every safety invariant and action property of the passing runs and both
refinements are proved; `EndedActorIsNotRunning` under the condition it needs.

## 6. Not modelled

* Provider adapters (`adapters/`): HTTP and server-sent-event streams of
  external services. The models let them do anything a provider may do; what
  is left is parsing of vendor formats.
* Wire codecs (`api/protocol.py`, `translation.py`, frames), settings, logging
  and the CLI: stateless validation and formatting.
* The HTTP routes and the handshake of `api/app.py`; its receive loop, sender
  and teardown are in `ForegroundSession`.
* `CheckpointRepository` and `OutboxRepository`: appends by id, used by nothing
  in this repository. Row conversion and full-text ranking.
* The text of a rendered context or history, only its size; the snapshot
  cache's staleness check, which cannot fail while the memory generation is 0.
* The operator console: a browser program with a life of its own.
* Durations: timeouts are choices, and only the scheduler has a clock.

## 7. Plan

1. Action properties that follow from the invariants already proved: how a turn
   may leave the interaction state.
2. The checkpoint repository once something uses it; the operator console's
   audio epochs.
