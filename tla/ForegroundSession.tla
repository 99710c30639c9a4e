------------------------- MODULE ForegroundSession -------------------------
(* One connected session: the SessionActor of runtime/session.py with its   *)
(* inbox, outbox and cancellation generation, the command handlers of       *)
(* application/foreground_session.py and foreground_voice.py, the dialogue  *)
(* turns they spawn, the two tasks that submit commands (the WebSocket      *)
(* receive loop and the speech-recognition worker) and the WebSocket sender *)
(* of api/app.py.                                                           *)
(*                                                                          *)
(* The actor's locks are never held across a suspension, so acquiring one   *)
(* does not suspend and a method runs in one step up to its first real      *)
(* wait. A put_wait parked on a full mailbox is an action that is not       *)
(* enabled until there is room, the generation is superseded or the session *)
(* ends: module Mailbox shows that no such wakeup is lost.                  *)
(*                                                                          *)
(* Abstracted: event sequence numbers, payload text and the journal.        *)
EXTENDS MailboxOps, Interaction

CONSTANTS Commands,       \* the commands a run submits
          InboxCapacity, OutboxCapacity,
          MaxGen,         \* bound: foreground submissions of one behaviour
          MaxSegments,    \* bound: segments of one utterance
          None

LOW == 25
NORMAL == 50
HIGH == 75
CRITICAL == 100

Priorities == {LOW, NORMAL, HIGH, CRITICAL}

\* How each command is submitted. Foreground ones advance the generation;
\* waiting ones use put_wait without displacement.
ForegroundKinds == {"turn", "cancel", "voice_turn", "barge_in"}
WaitingKinds == {"voice_turn", "barge_in", "speech", "capture_started", "capture_stopped",
                 "empty", "asr_failed"}
CaptureKinds == {"capture_started", "capture_stopped"}
SpeechKinds == {"barge_in", "speech"}
TurnKinds == {"turn", "voice_turn"}
AsrKinds == {"voice_turn", "partial", "empty", "asr_failed"}
Kinds == ForegroundKinds \cup WaitingKinds \cup {"ping", "partial", "neutral", "ack"}

CommandPriority(kind) ==
    IF kind \in {"ping", "partial", "ack"} THEN LOW
    ELSE IF kind \in {"turn", "voice_turn", "empty", "asr_failed"} THEN HIGH
    ELSE CRITICAL

\* The events a handler publishes, in order.
Replies(kind) ==
    CASE kind = "turn" -> <<"turn_accepted">>
      [] kind = "voice_turn" -> <<"transcript_final", "turn_accepted">>
      [] kind = "cancel" -> <<"speech_cancelled">>
      [] kind = "barge_in" -> <<"speech_cancelled", "speech_started">>
      [] kind = "speech" -> <<"speech_started">>
      [] kind = "ping" -> <<"pong">>
      [] OTHER -> <<kind>>

TurnOutputs == {"snapshot", "segment", "audio", "completed", "failed"}
ReplyKinds == {"transcript_final", "turn_accepted", "speech_cancelled", "speech_started", "pong",
               "capture_started", "capture_stopped", "partial", "empty", "asr_failed",
               "neutral", "ack"}
OutputKinds == TurnOutputs \cup ReplyKinds \cup {"ready"}

OutputPriority(kind) ==
    IF kind \in {"speech_cancelled", "speech_started", "neutral"} THEN CRITICAL
    ELSE IF kind \in {"failed", "transcript_final", "capture_started", "capture_stopped",
                      "asr_failed"} THEN HIGH
    ELSE IF kind \in {"partial", "empty", "ack"} THEN LOW
    ELSE NORMAL

\* _GENERATION_SCOPED_REALTIME_OUTPUTS
Scoped == {"audio", "completed", "segment", "partial"}

Generations == 0 .. MaxGen
Submitters == {"ws", "asr"}

ASSUME CommandsAssumption == Commands \subseteq Kinds
ASSUME InboxAssumption == InboxCapacity \in Nat \ {0}
ASSUME OutboxAssumption == OutboxCapacity \in Nat \ {0}
ASSUME BoundsAssumption == MaxGen \in Nat /\ MaxSegments \in Nat

Command(kind, g) == [kind |-> kind, gen |-> g, priority |-> CommandPriority(kind)]
Output(kind, g) == [kind |-> kind, gen |-> g, priority |-> OutputPriority(kind)]

CommandSet == [kind : Kinds, gen : Generations, priority : Priorities]
OutputSet == [kind : OutputKinds, gen : Generations, priority : Priorities]
HandlerSet == [kind : Kinds, gen : Generations, replies : Seq(ReplyKinds)]
TurnSet == [pc : {"off", "load", "stream", "finish", "degrade", "done"},
            out : TurnOutputs \cup {None},
            segments : 0 .. MaxSegments]

ASSUME NoneAssumption == /\ None \notin CommandSet /\ None \notin OutputSet
                         /\ None \notin HandlerSet /\ None \notin TurnOutputs

VARIABLES
    phase,       \* "running", "stopping" (cancellation closed) or "stopped"
    gen,         \* the current cancellation generation
    inbox,       \* queued commands
    outbox,      \* queued outputs
    pending,     \* the command each submitter is waiting to admit
    handler,     \* the command being handled and what it has still to publish
    turn,        \* the dialogue task of each generation
    interaction, \* InteractionStateMachine.state
    capturing,   \* _voice_capture_active
    mic,         \* the coordinator has an open capture stream
    heard,       \* some speech was detected, so recognition may report
    sending,     \* the output the WebSocket sender is writing
    seen,        \* history: the newest generation of an output sent
    illegal      \* history: an illegal interaction transition was requested

inputs == <<mic, heard>>
client == <<sending, seen>>
vars == <<phase, gen, inbox, outbox, pending, handler, turn, interaction, capturing,
          inputs, client, illegal>>

\* CancellationSource.accepts and ensure_current
Accepts(g) == phase = "running" /\ g = gen

NoTurn == [pc |-> "off", out |-> None, segments |-> 0]
Ended == [pc |-> "done", out |-> None, segments |-> 0]

\* start() publishes session.ready under generation 0.
Init ==
    /\ phase = "running"
    /\ gen = 0
    /\ inbox = <<>>
    /\ outbox = <<Output("ready", 0)>>
    /\ pending = [s \in Submitters |-> None]
    /\ handler = None
    /\ turn = [g \in Generations |-> NoTurn]
    /\ interaction = "IDLE"
    /\ capturing = FALSE
    /\ mic = FALSE /\ heard = FALSE
    /\ sending = None /\ seen = 0
    /\ illegal = FALSE

\* transition_interaction, once for each state of the path
Walk(path) ==
    /\ interaction' = IF LegalPath(interaction, path) THEN EndOf(interaction, path) ELSE interaction
    /\ illegal' = (illegal \/ ~LegalPath(interaction, path))

----------------------------------------------------------------------------
(* Submitting commands *)

\* A submitter awaits each call before it makes the next one.
Idle(s) == phase = "running" /\ pending[s] = None

\* The generation a submission is stamped with: advanced for a foreground one.
Stamp(kind) == IF kind \in ForegroundKinds THEN gen + 1 ELSE gen

\* Seeded fault of AdvanceFor: submit() advances too.
AdvanceForEvery(kind) ==
    /\ kind \in ForegroundKinds => gen < MaxGen
    /\ gen' = gen + 1

\* CancellationSource.advance for a foreground submission, current otherwise
AdvanceFor(kind) ==
    /\ kind \in ForegroundKinds => gen < MaxGen
    /\ gen' = Stamp(kind)

\* PriorityMailbox.put on a DROP_LOWEST mailbox: accepted, displacing or rejected
PutNow(queue, capacity, entry, result) ==
    \/ Len(queue) < capacity /\ result = Append(queue, entry)
    \/ /\ Len(queue) >= capacity
       /\ \E i \in DOMAIN queue :
            /\ Displaces(queue, i, entry.priority)
            /\ result = Append(RemoveAt(queue, i), entry)
    \/ /\ Len(queue) >= capacity
       /\ ~\E i \in DOMAIN queue : Displaces(queue, i, entry.priority)
       /\ result = queue

\* submit and submit_foreground_turn: submit_text, cancel, ping,
\* request_neutral_avatar, acknowledge_playback, voice_transcript_partial
Submit(kind) ==
    LET s == IF kind \in AsrKinds THEN "asr" ELSE "ws"
    IN  /\ Idle(s)
        /\ kind \notin WaitingKinds
        /\ kind = "partial" => heard
        /\ AdvanceFor(kind)
        /\ PutNow(inbox, InboxCapacity, Command(kind, Stamp(kind)), inbox')
        /\ UNCHANGED <<phase, outbox, pending, handler, turn, interaction, capturing, inputs,
                       client, illegal>>

\* voice_capture_started, voice_capture_stopped and voice_speech_started,
\* called by start_stream, finish_stream and process_frame. New speech cancels
\* a recognition that is still waiting to hand over its transcript.
SubmitVoice(kind) ==
    /\ kind \in CaptureKinds \cup SpeechKinds
    /\ Idle("ws")
    /\ mic = (kind # "capture_started")
    /\ mic' = (kind # "capture_stopped")
    /\ heard' = (heard \/ kind \in SpeechKinds)
    /\ AdvanceFor(kind)
    /\ pending' = [s \in Submitters |->
                    IF s = "ws" THEN Command(kind, Stamp(kind))
                    ELSE IF /\ kind \in SpeechKinds
                            /\ pending[s] # None
                            /\ pending[s].kind \in {"voice_turn", "empty"}
                         THEN None
                    ELSE pending[s]]
    /\ UNCHANGED <<phase, inbox, outbox, handler, turn, interaction, capturing, client, illegal>>

\* voice_transcript_final and voice_recognition_failed
SubmitTranscript(kind) ==
    /\ kind \in WaitingKinds \cap AsrKinds
    /\ Idle("asr")
    /\ heard
    /\ AdvanceFor(kind)
    /\ pending' = [pending EXCEPT !["asr"] = Command(kind, Stamp(kind))]
    /\ UNCHANGED <<phase, inbox, outbox, handler, turn, interaction, capturing, inputs,
                   client, illegal>>

\* _submit_stamped_wait: never displaces
Admit(s) ==
    /\ pending[s] # None
    /\ Accepts(pending[s].gen)
    /\ Len(inbox) < InboxCapacity
    /\ inbox' = Append(inbox, pending[s])
    /\ pending' = [pending EXCEPT ![s] = None]
    /\ UNCHANGED <<phase, gen, outbox, handler, turn, interaction, capturing, inputs, client,
                   illegal>>

\* Seeded fault of Retry: a superseded capture event is given up.
RetryNever(command) == None

\* _submit_voice_lifecycle submits a superseded capture event again under the
\* new generation; the other callers take CANCELLED for an answer.
Retry(command) ==
    IF phase = "running" /\ command.kind \in CaptureKinds
    THEN Command(command.kind, gen)
    ELSE None

AdmitCancelled(s) ==
    /\ pending[s] # None
    /\ ~Accepts(pending[s].gen)
    /\ pending' = [pending EXCEPT ![s] = Retry(pending[s])]
    /\ UNCHANGED <<phase, gen, inbox, outbox, handler, turn, interaction, capturing, inputs,
                   client, illegal>>

----------------------------------------------------------------------------
(* The actor loop *)

\* What handling a command does to the interaction state.
PathOf(kind) ==
    CASE kind \in TurnKinds -> EnterProcessing(interaction)
      [] kind = "cancel" -> AcceptCancel(interaction, capturing)
      [] kind = "barge_in" -> EnterListening(interaction)
      [] kind = "speech" -> SpeechDetected(interaction)
      [] kind = "capture_started" -> CaptureStarted(interaction)
      [] kind = "capture_stopped" -> CaptureStopped(interaction)
      [] OTHER -> <<>>

\* _run takes the next message and _handle_message runs up to its first
\* publish. No handler looks at the generation before it changes the state.
Handle ==
    /\ phase = "running"
    /\ handler = None
    /\ \E i \in DOMAIN inbox :
        /\ IsNext(inbox, i)
        /\ inbox' = RemoveAt(inbox, i)
        /\ handler' = [kind |-> inbox[i].kind, gen |-> inbox[i].gen,
                       replies |-> Replies(inbox[i].kind)]
        /\ capturing' = IF inbox[i].kind \in CaptureKinds
                        THEN inbox[i].kind = "capture_started" ELSE capturing
        /\ Walk(PathOf(inbox[i].kind))
    /\ UNCHANGED <<phase, gen, outbox, pending, turn, inputs, client>>

\* Seeded fault of Publish: no cancel_waiter, so a superseded publisher waits
\* for room before accept_if() rejects it.
PublishNotWoken(kind, g) ==
    /\ Len(outbox) < OutboxCapacity
    /\ outbox' = IF Accepts(g) THEN Append(outbox, Output(kind, g)) ELSE outbox

\* publish_result: commits to the outbox only while g is accepted, or gives up.
Publish(kind, g) ==
    \/ /\ Accepts(g)
       /\ Len(outbox) < OutboxCapacity
       /\ outbox' = Append(outbox, Output(kind, g))
    \/ /\ Accepts(g)
       /\ Len(outbox) >= OutboxCapacity
       /\ \E i \in DOMAIN outbox :
            /\ Displaces(outbox, i, OutputPriority(kind))
            /\ outbox' = Append(RemoveAt(outbox, i), Output(kind, g))
    \/ /\ ~Accepts(g)
       /\ UNCHANGED outbox

\* The handler publishes its next reply; after the last one it returns, and
\* the handler of a turn first spawns the dialogue task.
Reply ==
    /\ phase = "running"
    /\ handler # None
    /\ Publish(Head(handler.replies), handler.gen)
    /\ IF Len(handler.replies) > 1
       THEN /\ handler' = [handler EXCEPT !.replies = Tail(@)]
            /\ UNCHANGED turn
       ELSE /\ handler' = None
            /\ turn' = IF handler.kind \in TurnKinds
                       THEN [turn EXCEPT ![handler.gen].pc = "load"] ELSE turn
    /\ UNCHANGED <<phase, gen, inbox, pending, interaction, capturing, inputs, client, illegal>>

----------------------------------------------------------------------------
(* _run_turn, the dialogue task of generation g *)

Runs(g, pc) == phase = "running" /\ turn[g].pc = pc /\ turn[g].out = None

SetTurn(g, pc, out, segments) ==
    turn' = [turn EXCEPT ![g] = [pc |-> pc, out |-> out, segments |-> segments]]

\* load_recent_history and compile_for_turn, then the snapshot or, after an
\* exception, turn.failed.
TurnLoad(g) ==
    /\ Runs(g, "load")
    /\ \/ SetTurn(g, "stream", "snapshot", 0)
       \/ SetTurn(g, "degrade", "failed", 0)
    /\ UNCHANGED <<phase, gen, inbox, outbox, pending, handler, interaction, capturing, inputs,
                   client, illegal>>

\* The pipeline notices the cancelled token.
TurnCancelled(g) ==
    /\ Runs(g, "stream")
    /\ ~Accepts(g)
    /\ turn' = [turn EXCEPT ![g] = Ended]
    /\ UNCHANGED <<phase, gen, inbox, outbox, pending, handler, interaction, capturing, inputs,
                   client, illegal>>

\* SegmentReady: the first one moves the session to SPEAKING.
TurnSegment(g) ==
    /\ Runs(g, "stream")
    /\ Accepts(g)
    /\ turn[g].segments < MaxSegments
    /\ SetTurn(g, "stream", "segment", turn[g].segments + 1)
    /\ Walk(IF turn[g].segments = 0 THEN <<"SPEAKING">> ELSE <<>>)
    /\ UNCHANGED <<phase, gen, inbox, outbox, pending, handler, capturing, inputs, client>>

\* SegmentAudioReady, UtteranceCompleted with and without segments, and an
\* exception of the pipeline
TurnOutcome(g) ==
    /\ Runs(g, "stream")
    /\ Accepts(g)
    /\ \/ turn[g].segments > 0 /\ SetTurn(g, "stream", "audio", turn[g].segments)
       \/ turn[g].segments > 0 /\ SetTurn(g, "finish", "completed", turn[g].segments)
       \/ turn[g].segments = 0 /\ SetTurn(g, "degrade", "failed", 0)
       \/ turn[g].segments > 0 /\ SetTurn(g, "degrade", "failed", turn[g].segments)
    /\ UNCHANGED <<phase, gen, inbox, outbox, pending, handler, interaction, capturing, inputs,
                   client, illegal>>

\* context.publish inside _run_turn. Only turn.failed looks at the answer.
TurnPublish(g) ==
    /\ phase = "running"
    /\ turn[g].out # None
    /\ Publish(turn[g].out, g)
    /\ turn' = IF turn[g].out = "failed" /\ ~Accepts(g)
               THEN [turn EXCEPT ![g] = Ended]
               ELSE [turn EXCEPT ![g].out = None]
    /\ UNCHANGED <<phase, gen, inbox, pending, handler, interaction, capturing, inputs, client,
                   illegal>>

\* Seeded fault of LastTransition: transition_interaction where the code uses
\* transition_interaction_if_current.
LastTransitionUngated(g, path) ==
    /\ Walk(path)
    /\ turn' = [turn EXCEPT ![g] = Ended]

\* transition_interaction_if_current, the last thing a turn does
LastTransition(g, path) ==
    /\ IF Accepts(g) THEN Walk(path) ELSE UNCHANGED <<interaction, illegal>>
    /\ turn' = [turn EXCEPT ![g] = Ended]

\* _finish_interaction_after_turn; its two gated transitions do not suspend.
TurnFinish(g) ==
    /\ Runs(g, "finish")
    /\ LastTransition(g, FinishTurn(interaction, capturing))
    /\ UNCHANGED <<phase, gen, inbox, outbox, pending, handler, capturing, inputs, client>>

TurnDegrade(g) ==
    /\ Runs(g, "degrade")
    /\ LastTransition(g, <<"DEGRADED">>)
    /\ UNCHANGED <<phase, gen, inbox, outbox, pending, handler, capturing, inputs, client>>

TurnStep(g) ==
    \/ TurnLoad(g) \/ TurnCancelled(g) \/ TurnSegment(g) \/ TurnOutcome(g)
    \/ TurnPublish(g) \/ TurnFinish(g) \/ TurnDegrade(g)

----------------------------------------------------------------------------
(* _send_session_output *)

\* Seeded fault of Stale: only audio is filtered.
StaleAudioOnly(output) == output.kind = "audio" /\ output.gen < gen

Stale(output) == output.kind \in Scoped /\ output.gen < gen

TakeOutput ==
    /\ sending = None
    /\ \E i \in DOMAIN outbox :
        /\ IsNext(outbox, i)
        /\ outbox' = RemoveAt(outbox, i)
        /\ sending' = IF Stale(outbox[i]) THEN None ELSE outbox[i]
        /\ seen' = IF ~Stale(outbox[i]) /\ outbox[i].gen > seen THEN outbox[i].gen ELSE seen
    /\ UNCHANGED <<phase, gen, inbox, pending, handler, turn, interaction, capturing, inputs,
                   illegal>>

OutputSent ==
    /\ sending # None
    /\ sending' = None
    /\ UNCHANGED <<phase, gen, inbox, outbox, pending, handler, turn, interaction, capturing,
                   inputs, seen, illegal>>

----------------------------------------------------------------------------
(* The teardown of the WebSocket endpoint *)

\* voice.close() ends the recognition worker, then stop(graceful=False) closes
\* the cancellation source, discards the inbox and cancels the actor task.
Stop ==
    /\ Idle("ws")
    /\ phase' = "stopping"
    /\ inbox' = <<>>
    /\ pending' = [s \in Submitters |-> None]
    /\ UNCHANGED <<gen, outbox, handler, turn, interaction, capturing, inputs, client, illegal>>

\* The finally clause of _run
Stopped ==
    /\ phase = "stopping"
    /\ phase' = "stopped"
    /\ handler' = None
    /\ turn' = [g \in Generations |-> IF turn[g].pc = "off" THEN NoTurn ELSE Ended]
    /\ interaction' = "IDLE"
    /\ UNCHANGED <<gen, inbox, outbox, pending, capturing, inputs, client, illegal>>

----------------------------------------------------------------------------

Next ==
    \/ \E kind \in Commands : Submit(kind) \/ SubmitVoice(kind) \/ SubmitTranscript(kind)
    \/ \E s \in Submitters : Admit(s) \/ AdmitCancelled(s)
    \/ Handle \/ Reply
    \/ \E g \in Generations : TurnStep(g)
    \/ TakeOutput \/ OutputSent
    \/ Stop \/ Stopped

Spec == Init /\ [][Next]_vars

\* The event loop runs every task that can run: the actor, the dialogue tasks
\* and the submitters. Nothing is assumed of the sender, which waits for the
\* client to read, nor of the client.
Fairness ==
    /\ WF_vars(Handle) /\ WF_vars(Reply) /\ WF_vars(Stopped)
    /\ \A s \in Submitters : WF_vars(Admit(s)) /\ WF_vars(AdmitCancelled(s))
    /\ \A g \in Generations : WF_vars(TurnStep(g))

FairSpec == Spec /\ Fairness

----------------------------------------------------------------------------
(* Properties *)

TypeOK ==
    /\ phase \in {"running", "stopping", "stopped"}
    /\ gen \in Generations
    /\ inbox \in Seq(CommandSet)
    /\ outbox \in Seq(OutputSet)
    /\ pending \in [Submitters -> CommandSet \cup {None}]
    /\ handler \in HandlerSet \cup {None}
    /\ turn \in [Generations -> TurnSet]
    /\ interaction \in InteractionStates
    /\ capturing \in BOOLEAN
    /\ mic \in BOOLEAN /\ heard \in BOOLEAN
    /\ sending \in OutputSet \cup {None}
    /\ seen \in Generations
    /\ illegal \in BOOLEAN

Live(g) == turn[g].pc \notin {"off", "done"}

\* No handler or dialogue task, in any interleaving of commands and turns,
\* asks for a transition that _TRANSITIONS forbids: InvalidInteractionTransition
\* would fail the whole session (interaction.py:114, session.py:509).
NoIllegalTransition == ~illegal

\* While the turn of the current generation is alive the session is busy with
\* it: PROCESSING until its first segment and SPEAKING from then on, whatever
\* commands are handled beside it. Its own ungated transitions rely on this
\* (_run_turn and _finish_interaction_after_turn).
RunningTurnOwnsState ==
    phase = "running" /\ Live(gen) =>
        interaction = IF turn[gen].segments = 0 THEN "PROCESSING" ELSE "SPEAKING"

\* At rest the state agrees with the microphone: an idle session is not
\* capturing and a listening one is, through cancellations, barge-ins, turn
\* ends and degradation (_accept_cancel, _finish_interaction_after_turn and
\* the capture handlers of foreground_voice.py).
MicrophoneAgrees ==
    phase = "running" =>
        /\ interaction = "IDLE" => ~capturing
        /\ interaction = "LISTENING" => capturing

\* Between capture events the session and the voice coordinator agree on
\* whether the microphone is open, however often the event was superseded
\* while it waited for room: "retry the same owner event under the new
\* generation until it is accepted" (foreground_voice.py:73-75).
CaptureNotLost ==
    /\ phase = "running" /\ pending["ws"] = None
    /\ ~\E i \in DOMAIN inbox : inbox[i].kind \in CaptureKinds
    => capturing = mic

\* The reply to the newest foreground command names the interaction state it
\* leads to, and the payload is built before the reply waits for room in the
\* outbox (_accept_turn, _accept_cancel, _accept_voice_speech_started). As long
\* as the reply can still be published that state is the session's: the ends of
\* superseded turns and the submissions that arrive meanwhile do not move it.
Answer(kind) ==
    CASE kind \in TurnKinds -> "PROCESSING"
      [] kind = "barge_in" -> "LISTENING"
      [] OTHER -> IF capturing THEN "LISTENING" ELSE "IDLE"

AnswerIsTrue ==
    handler # None /\ Accepts(handler.gen) /\ handler.kind \in ForegroundKinds =>
        interaction = Answer(handler.kind)

\* Speech, segments and partial transcripts handed to the client are never
\* older than anything the client was already sent, such as the speech.cancelled
\* of a newer generation (_send_session_output, app.py:353).
NoOlderSpeechSent ==
    sending # None /\ sending.kind \in Scoped => sending.gen >= seen

\* A queued cancellation is handled even if the client never reads another
\* byte: advancing the generation releases whatever the actor was publishing.
CancelQueued == \E i \in DOMAIN inbox : inbox[i].kind = "cancel"

CancelGetsThrough == CancelQueued ~> ~CancelQueued

\* Work of a superseded generation ends without help from the client: the
\* dialogue task, the handler and a parked submission (the cancel_waiter of
\* both put_wait calls in session.py).
SupersededWork(g) ==
    /\ ~Accepts(g)
    /\ \/ Live(g)
       \/ handler # None /\ handler.gen = g
       \/ \E s \in Submitters : pending[s] # None /\ pending[s].gen = g

SupersededWorkEnds == \A g \in Generations : SupersededWork(g) ~> ~SupersededWork(g)

\* A busy state belongs to a turn that is alive or about to be: some foreground
\* command is being handled or still queued, or the current generation's
\* dialogue task runs. (What submit_foreground_turn's "Supersede old work,
\* then enqueue the newly accepted turn generation" promises to a client that
\* is shown PROCESSING.)
ForegroundWork ==
    \/ handler # None
    \/ \E i \in DOMAIN inbox : inbox[i].kind \in ForegroundKinds
    \/ \E s \in Submitters : pending[s] # None /\ pending[s].kind \in ForegroundKinds

BusyImpliesLiveTurn ==
    phase = "running" /\ interaction \in {"PROCESSING", "SPEAKING"}
        => ForegroundWork \/ Live(gen)

\* A turn the mailbox accepted leaves the inbox only for the handler while no
\* newer command supersedes it: "event queue fills: coalesce/drop low-priority
\* telemetry first; never silently drop approvals, turns, or safety events"
\* (PROJECT_ARCHITECTURE_AND_REQUIREMENTS.md:1186).
AcceptedTurnNotDropped ==
    [][\A i \in DOMAIN inbox :
        /\ inbox[i].kind \in TurnKinds
        /\ Accepts(inbox[i].gen)
        /\ phase' = "running" /\ gen' = gen
        =>
            \/ \E j \in DOMAIN inbox' : inbox'[j] = inbox[i]
            \/ handler' # None /\ handler'.gen = inbox[i].gen]_vars
============================================================================
