----------------------------- MODULE VoiceInput -----------------------------
(* VoiceInputCoordinator of application/voice_input.py: the WebSocket task   *)
(* that feeds frames to the detector, the ASR worker, and the recognition    *)
(* task the worker awaits. Speech that starts supersedes every recognition   *)
(* before it: the epoch counts the speech starts and names the utterances.   *)
(*                                                                           *)
(* The sink is ForegroundSession: its methods submit a command to the        *)
(* session actor and wait for room. A newer foreground command overtakes a   *)
(* submission that waits, which then returns CANCELLED, a result the sink    *)
(* ignores; once the session has ended, submissions raise. The recognizer is *)
(* external. A task that was cancelled resumes with CancelledError, whatever *)
(* it awaited.                                                               *)
EXTENDS Vad

CONSTANTS MaxFrames,      \* bound: frames of one behaviour
          MaxStreams,     \* bound: capture streams of one behaviour
          MaxPending,     \* max_pending_utterances
          MaxRevision     \* bound: partial results of one recognition

\* A configuration also says whether speech barges in: barge_in_enabled of the policy.
ASSUME PendingAssumption ==
    MaxPending \in Nat \ {0} /\ \A c \in Configs : c.bargeIn \in BOOLEAN

VARIABLES stream,         \* a capture stream is active
          streams,        \* bound counter
          vad,            \* the detector
          heard,          \* frames processed
          ws,             \* what the WebSocket task is doing, and the events it still has to handle
          epoch,          \* _speech_epoch
          speaking,       \* _active_utterance_epoch, 0 for None
          queue,          \* _utterances: the epochs of the jobs
          worker,         \* the ASR worker and its job
          recognition,    \* the recognition task
          closed,
          running,        \* the session takes submissions
          overtaken,      \* a newer generation overtook the submission the ASR lane waits in
          fate,           \* history: what became of each utterance
          utterance       \* history: the utterance that ended last

captureVars == <<config, stream, streams, vad, heard, utterance>>
sinkVars == <<running, overtaken>>
vars == <<captureVars, ws, epoch, speaking, queue, worker, recognition, closed, sinkVars, fate>>

Epochs == 1..MaxFrames

NoUtterance == [frames |-> <<1>>, start |-> 1, end |-> 1, reason |-> "silence"]
NoRecognition == [pc |-> "none", cancelled |-> FALSE, final |-> FALSE, revision |-> 0,
                  result |-> "none"]
Stopped == [kind |-> "stopped", utterance |-> <<>>]

Init ==
    /\ config \in Configs
    /\ stream = FALSE /\ streams = 0 /\ vad = Quiet /\ heard = 0
    /\ ws = [pc |-> "receive", todo |-> <<>>]
    /\ epoch = 0 /\ speaking = 0
    /\ queue = <<>>
    /\ worker = [pc |-> "none", job |-> 0]
    /\ recognition = NoRecognition
    /\ closed = FALSE /\ running = TRUE /\ overtaken = FALSE
    /\ fate = [e \in Epochs |-> "none"]
    /\ utterance = NoUtterance

-----------------------------------------------------------------------------
(* The sink                                                                  *)

\* The ASR lane waits for the session to take a transcript or a failure report: the worker
\* awaits its recognition, so there is one at a time.
AsrWaits == worker.pc = "reporting" \/ recognition.pc = "final"

\* submit_foreground_turn and submit_foreground_turn_wait advance the generation.
AdvancesGeneration == overtaken' = (overtaken \/ AsrWaits)

\* What the lane's submission comes to when it returns, "taken" if the session takes it.
Outcome(taken) == IF overtaken THEN "overtaken" ELSE IF running THEN taken ELSE "unheard"

\* submit_text and cancel, which the WebSocket task calls between the capture's messages.
ForegroundCommand ==
    /\ ws.pc = "receive" /\ ~closed /\ running
    /\ AdvancesGeneration
    /\ UNCHANGED <<captureVars, ws, epoch, speaking, queue, worker, recognition, closed, running,
                   fate>>

SessionEnds ==
    /\ running
    /\ running' = FALSE
    /\ UNCHANGED <<captureVars, ws, epoch, speaking, queue, worker, recognition, closed, overtaken,
                   fate>>

-----------------------------------------------------------------------------
(* The WebSocket task                                                       *)

\* start_stream, up to the sink; the worker starts once.
StartStream ==
    /\ ws.pc = "receive" /\ ~closed /\ ~stream
    /\ streams < MaxStreams
    /\ stream' = TRUE /\ streams' = streams + 1 /\ vad' = Quiet
    /\ worker' = IF worker.pc = "none" THEN [worker EXCEPT !.pc = "get"] ELSE worker
    /\ ws' = [pc |-> "sink", todo |-> <<>>]
    /\ UNCHANGED <<config, heard, utterance, epoch, speaking, queue, recognition, closed, sinkVars,
                   fate>>

\* process_frame: the detector's events are handled one after the other.
Frame(level) ==
    /\ ws.pc = "receive" /\ ~closed /\ stream
    /\ heard < MaxFrames
    /\ LET step == Process(vad, heard + 1, level)
       IN  vad' = step.vad /\ ws' = [pc |-> "events", todo |-> step.events]
    /\ heard' = heard + 1
    /\ UNCHANGED <<config, stream, streams, utterance, epoch, speaking, queue, worker, recognition,
                   closed, sinkVars, fate>>

\* finish_stream: an utterance still active ends, then the capture is reported stopped.
StopStream ==
    /\ ws.pc = "receive" /\ ~closed /\ stream
    /\ stream' = FALSE /\ vad' = Quiet
    /\ ws' = [pc |-> "events", todo |-> Append(FinishStream(vad), Stopped)]
    /\ UNCHANGED <<config, streams, heard, utterance, epoch, speaking, queue, worker, recognition,
                   closed, sinkVars, fate>>

Event == Head(ws.todo)

NextEvent(pc) == ws' = [pc |-> pc, todo |-> Tail(ws.todo)]

EventsDone ==
    /\ ws.pc = "events" /\ ws.todo = <<>>
    /\ ws' = [ws EXCEPT !.pc = "receive"]
    /\ UNCHANGED <<captureVars, epoch, speaking, queue, worker, recognition, closed, sinkVars,
                   fate>>

Unfinished(r) == r.pc \notin {"none", "ended"}

\* Seeded fault: only the recognizer's token is cancelled, not the task.
KeepRecognition == UNCHANGED recognition

\* task.cancel() does nothing to a task that has ended.
CancelRecognition ==
    recognition' = IF Unfinished(recognition) THEN [recognition EXCEPT !.cancelled = TRUE]
                   ELSE recognition

\* New speech; as a barge-in it is a foreground command.
HandleStarted ==
    /\ ws.pc = "events" /\ ws.todo /= <<>> /\ Event.kind = "started"
    /\ epoch' = epoch + 1
    /\ speaking' = epoch + 1
    /\ fate' = [fate EXCEPT ![epoch + 1] = "speaking"]
    /\ CancelRecognition
    /\ IF config.bargeIn THEN AdvancesGeneration ELSE UNCHANGED overtaken
    /\ NextEvent("sink")
    /\ UNCHANGED <<captureVars, queue, worker, closed, running>>

\* _take_utterance_epoch and _enqueue_utterance with room in the queue.
HandleEnded ==
    /\ ws.pc = "events" /\ ws.todo /= <<>> /\ Event.kind = "ended"
    /\ speaking /= 0
    /\ Len(queue) < MaxPending
    /\ speaking' = 0
    /\ queue' = Append(queue, speaking)
    /\ fate' = [fate EXCEPT ![speaking] = "queued"]
    /\ utterance' = Event.utterance
    /\ NextEvent("events")
    /\ UNCHANGED <<config, stream, streams, vad, heard, epoch, worker, recognition, closed,
                   sinkVars>>

\* A full queue: the utterance is dropped and its failure reported.
HandleBackpressure ==
    /\ ws.pc = "events" /\ ws.todo /= <<>> /\ Event.kind = "ended"
    /\ speaking /= 0
    /\ Len(queue) = MaxPending
    /\ speaking' = 0
    /\ fate' = [fate EXCEPT ![speaking] = "refused"]
    /\ utterance' = Event.utterance
    /\ NextEvent("sink")
    /\ UNCHANGED <<config, stream, streams, vad, heard, epoch, queue, worker, recognition, closed,
                   sinkVars>>

HandleStopped ==
    /\ ws.pc = "events" /\ ws.todo /= <<>> /\ Event.kind = "stopped"
    /\ NextEvent("sink")
    /\ UNCHANGED <<captureVars, epoch, speaking, queue, worker, recognition, closed, sinkVars,
                   fate>>

\* A capture event is taken, or a failure report returns. Nothing overtakes the report: it is
\* of the newest speech, whose recognition does not run, and the commands are this task's.
SinkReturns ==
    /\ ws.pc = "sink"
    /\ ws' = [ws EXCEPT !.pc = "events"]
    /\ fate' = [e \in Epochs |-> IF fate[e] = "refused" THEN IF running THEN "failed" ELSE "unheard"
                                 ELSE fate[e]]
    /\ UNCHANGED <<captureVars, epoch, speaking, queue, worker, recognition, closed, sinkVars>>

\* close: the worker and its recognition are cancelled and joined, the queue is emptied.
\* The task gets there when the client leaves, and when anything above raises.
Close ==
    /\ ~closed
    /\ closed' = TRUE
    /\ stream' = FALSE /\ vad' = Quiet /\ speaking' = 0
    /\ worker' = [pc |-> "done", job |-> 0]
    /\ recognition' = NoRecognition
    /\ queue' = <<>> /\ overtaken' = FALSE
    /\ fate' = [e \in Epochs |-> IF fate[e] \in {"speaking", "queued", "refused"} THEN "closed"
                                 ELSE fate[e]]
    /\ ws' = [pc |-> "done", todo |-> <<>>]
    /\ UNCHANGED <<config, streams, heard, utterance, epoch, running>>

-----------------------------------------------------------------------------
(* _run_asr: the worker                                                     *)

workerUnchanged == <<captureVars, ws, epoch, speaking, closed, running>>

Settle(e, as) == fate' = [fate EXCEPT ![e] = IF @ = "queued" THEN as ELSE @]

WorkerStarts ==
    /\ worker.pc = "get" /\ queue /= <<>> /\ Head(queue) = epoch
    /\ queue' = Tail(queue)
    /\ worker' = [pc |-> "recognizing", job |-> Head(queue)]
    /\ recognition' = [NoRecognition EXCEPT !.pc = "created"]
    /\ UNCHANGED <<workerUnchanged, overtaken, fate>>

WorkerSkips ==
    /\ worker.pc = "get" /\ queue /= <<>> /\ Head(queue) /= epoch
    /\ queue' = Tail(queue)
    /\ Settle(Head(queue), "superseded")
    /\ UNCHANGED <<workerUnchanged, worker, recognition, overtaken>>

\* Seeded fault: an exception of the recognition ends the worker.
WorkerDies ==
    /\ worker.pc = "recognizing" /\ recognition.pc = "ended"
    /\ recognition' = NoRecognition
    /\ IF recognition.result = "failed"
       THEN worker' = [pc |-> "done", job |-> 0] /\ UNCHANGED fate
       ELSE worker' = [pc |-> "get", job |-> 0] /\ Settle(worker.job, "superseded")
    /\ UNCHANGED <<workerUnchanged, queue, overtaken>>

\* The recognition ended: a failure of the newest speech is reported, any other is not.
WorkerResumes ==
    /\ worker.pc = "recognizing" /\ recognition.pc = "ended"
    /\ recognition' = NoRecognition
    /\ IF recognition.result = "failed" /\ worker.job = epoch
       THEN worker' = [worker EXCEPT !.pc = "reporting"] /\ UNCHANGED fate
       ELSE worker' = [pc |-> "get", job |-> 0] /\ Settle(worker.job, "superseded")
    /\ UNCHANGED <<workerUnchanged, queue, overtaken>>

\* _report_failure returns: the session took the report, a newer generation overtook it, or
\* the session had ended, whose exception is dropped.
WorkerReports ==
    /\ worker.pc = "reporting"
    /\ worker' = [pc |-> "get", job |-> 0]
    /\ Settle(worker.job, Outcome("failed"))
    /\ overtaken' = FALSE
    /\ UNCHANGED <<workerUnchanged, queue, recognition>>

-----------------------------------------------------------------------------
(* _recognize                                                               *)

recognitionUnchanged == <<captureVars, ws, epoch, speaking, queue, worker, closed, running>>

Runs(pc) == recognition.pc = pc /\ ~recognition.cancelled

EndsAs(result) == recognition' = [recognition EXCEPT !.pc = "ended", !.result = result]

RecognitionStarts ==
    /\ Runs("created")
    /\ recognition' = [recognition EXCEPT !.pc = "stream"]
    /\ UNCHANGED <<recognitionUnchanged, overtaken, fate>>

Superseded == worker.job /= epoch

\* A partial result: dropped with the rest when superseded, refused after a final one or
\* out of order, else passed to the sink.
AsrPartial(revision) ==
    /\ Runs("stream")
    /\ IF Superseded THEN EndsAs("done")
       ELSE IF recognition.final \/ revision <= recognition.revision THEN EndsAs("failed")
       ELSE recognition' = [recognition EXCEPT !.pc = "partial", !.revision = revision]
    /\ UNCHANGED <<recognitionUnchanged, overtaken, fate>>

PartialReturns ==
    /\ Runs("partial")
    /\ recognition' = [recognition EXCEPT !.pc = "stream"]
    /\ UNCHANGED <<recognitionUnchanged, overtaken, fate>>

AsrFinal ==
    /\ Runs("stream")
    /\ IF Superseded THEN EndsAs("done")
       ELSE IF recognition.final THEN EndsAs("failed")
       ELSE recognition' = [recognition EXCEPT !.final = TRUE]
    /\ UNCHANGED <<recognitionUnchanged, overtaken, fate>>

\* The recognizer's stream ends: the final transcript goes to the sink, as a foreground turn
\* unless it is blank; no other submission of the lane waits that it could overtake.
AsrEnds ==
    /\ Runs("stream")
    /\ IF ~recognition.final THEN EndsAs("failed")
       ELSE IF Superseded THEN EndsAs("done")
       ELSE recognition' = [recognition EXCEPT !.pc = "final"]
    /\ UNCHANGED <<recognitionUnchanged, overtaken, fate>>

\* The timeout of the stream, a recognizer that raises or answers for another utterance, or a
\* sink that raises because the session has ended.
RecognitionFails ==
    /\ Runs("stream") \/ Runs("partial") \/ (Runs("final") /\ ~running)
    /\ EndsAs("failed")
    /\ overtaken' = FALSE
    /\ UNCHANGED <<recognitionUnchanged, fate>>

Submitted == recognition' = [recognition EXCEPT !.pc = "submitted"] /\ overtaken' = FALSE

\* The session takes the transcript as a turn; the call has yet to return.
FinalSubmitted ==
    /\ Runs("final") /\ Outcome("final") = "final"
    /\ Settle(worker.job, "final")
    /\ Submitted
    /\ UNCHANGED recognitionUnchanged

\* The call returns CANCELLED: the transcript waited when a newer generation began or the
\* session ended.
FinalCancelled ==
    /\ Runs("final") /\ Outcome("final") /= "final"
    /\ Settle(worker.job, Outcome("final"))
    /\ Submitted
    /\ UNCHANGED recognitionUnchanged

FinalReturns ==
    /\ Runs("submitted")
    /\ EndsAs("done")
    /\ UNCHANGED <<recognitionUnchanged, overtaken, fate>>

\* CancelledError: new speech cancelled the task.
RecognitionCancelled ==
    /\ Unfinished(recognition) /\ recognition.cancelled
    /\ EndsAs("failed")
    /\ overtaken' = FALSE
    /\ UNCHANGED <<recognitionUnchanged, fate>>

-----------------------------------------------------------------------------
Capture ==
    \/ EventsDone \/ HandleStarted \/ HandleEnded \/ HandleBackpressure \/ HandleStopped
    \/ SinkReturns

Work == WorkerStarts \/ WorkerSkips \/ WorkerResumes \/ WorkerReports

Recognize ==
    \/ RecognitionStarts \/ PartialReturns \/ AsrFinal \/ AsrEnds
    \/ RecognitionFails \/ FinalSubmitted \/ FinalCancelled \/ FinalReturns
    \/ RecognitionCancelled
    \/ \E revision \in 1..MaxRevision : AsrPartial(revision)

Finished == closed /\ UNCHANGED vars

Next ==
    \/ StartStream \/ (\E level \in Levels : Frame(level)) \/ StopStream \/ Close
    \/ ForegroundCommand \/ SessionEnds
    \/ Capture \/ Work \/ Recognize \/ Finished

Spec == Init /\ [][Next]_vars

\* A report or a transcript that waits returns by itself only when it is overtaken or the
\* session has ended.
WorkGoesOn == Work /\ (worker.pc = "reporting" => Outcome("failed") /= "failed")
RecognitionGoesOn == Recognize /\ ~FinalSubmitted

\* The event loop runs the worker and the recognition, which asyncio.timeout bounds. Nothing
\* makes the session take a submission, nor the client speak, read or leave.
FairSpec == Spec /\ WF_vars(WorkGoesOn) /\ WF_vars(RecognitionGoesOn)

-----------------------------------------------------------------------------
\* vad.py never builds an utterance that PcmUtterance refuses (its ValueError would end the
\* connection), keeps every frame since the first it holds, and holds no more than the
\* configured bytes and duration; a speech end of the detector always finds the epoch of its
\* start in voice_input.py, and the queue of utterances is bounded and in the order spoken.
UtteranceWellFormed ==
    /\ IsPcmUtterance(utterance)
    /\ \A frames \in {utterance.frames, vad.frames, vad.history} :
         /\ Bytes(frames) <= config.maxBytes /\ Duration(frames) <= config.maxDuration
         /\ \A i \in 1..(Len(frames) - 1) : frames[i + 1] = frames[i] + 1
    /\ ws.todo /= <<>> /\ Event.kind = "ended" => speaking /= 0
    /\ Len(queue) <= MaxPending
    /\ \A i, j \in DOMAIN queue : i < j => queue[i] < queue[j]

\* A transcript becomes a turn only while no newer speech has started: _speech_epoch and
\* the cancellation of the recognition in process_frame leave no gap between the check in
\* _recognize and the submission.
NewestSpeechWins ==
    [][\A e \in Epochs : fate[e] /= "final" /\ fate'[e] = "final" => e = epoch]_vars

\* What voice_input.py leaves of an utterance in the end: a transcript or a failure report in
\* the session, or neither because newer speech superseded it, a newer foreground command
\* overtook its transcript or report, or the session or the connection ended.
Settled(e) ==
    \/ fate[e] \in {"final", "failed", "overtaken", "unheard", "closed"}
    \/ fate[e] = "superseded" /\ e < epoch

\* No submission of an utterance waits in the session for ever: the session's actor goes on,
\* which needs the client to read its events.
SessionAnswers == []<>~(AsrWaits \/ \E e \in Epochs : fate[e] = "refused")

\* Every utterance whose speech ended settles, if the session answers: the worker of
\* voice_input.py survives every way a recognition and a submission end, and no utterance is
\* left in its queue.
UtteranceSettles ==
    SessionAnswers => \A e \in Epochs : fate[e] \in {"queued", "refused"} ~> Settled(e)
=============================================================================
