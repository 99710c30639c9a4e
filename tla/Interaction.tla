---------------------------- MODULE Interaction ----------------------------
(* domain/interaction.py: the legal interaction transitions, and the paths  *)
(* through them that the handlers of application/foreground_session.py and  *)
(* application/foreground_voice.py request. A path is the sequence of       *)
(* states asked for, one transition() call each; an illegal step raises     *)
(* InvalidInteractionTransition.                                            *)
EXTENDS Integers, Sequences

InteractionStates == {"IDLE", "LISTENING", "PROCESSING", "SPEAKING",
                      "WAITING_APPROVAL", "INTERRUPTING", "DEGRADED"}

\* _TRANSITIONS
Transitions == [state \in InteractionStates |->
    CASE state = "IDLE" -> {"LISTENING", "PROCESSING", "DEGRADED"}
      [] state = "LISTENING" -> {"IDLE", "PROCESSING", "INTERRUPTING", "DEGRADED"}
      [] state = "PROCESSING" ->
            {"IDLE", "SPEAKING", "WAITING_APPROVAL", "INTERRUPTING", "DEGRADED"}
      [] state = "SPEAKING" -> {"IDLE", "INTERRUPTING", "DEGRADED"}
      [] state = "WAITING_APPROVAL" -> {"IDLE", "PROCESSING", "INTERRUPTING", "DEGRADED"}
      [] state = "INTERRUPTING" -> {"IDLE", "LISTENING", "PROCESSING", "DEGRADED"}
      [] state = "DEGRADED" -> {"IDLE", "LISTENING"}]

\* A path has at most two transitions.
LegalPath(state, path) ==
    /\ Len(path) > 0 => path[1] \in Transitions[state]
    /\ Len(path) > 1 => path[2] \in Transitions[path[1]]

EndOf(state, path) == IF path = <<>> THEN state ELSE path[Len(path)]

Foreground == {"PROCESSING", "SPEAKING", "WAITING_APPROVAL"}

\* Seeded fault of EnterProcessing: no way out of DEGRADED.
EnterProcessingDirectly(state) ==
    IF state \in Foreground THEN <<"INTERRUPTING", "PROCESSING">> ELSE <<"PROCESSING">>

\* _enter_processing
EnterProcessing(state) ==
    IF state \in Foreground THEN <<"INTERRUPTING", "PROCESSING">>
    ELSE IF state = "DEGRADED" THEN <<"IDLE", "PROCESSING">>
    ELSE <<"PROCESSING">>

\* _enter_listening
EnterListening(state) ==
    IF state \in Foreground THEN <<"INTERRUPTING", "LISTENING">>
    ELSE IF state = "LISTENING" THEN <<>>
    ELSE <<"LISTENING">>

\* _accept_cancel
AcceptCancel(state, capturing) ==
    LET target == IF capturing THEN "LISTENING" ELSE "IDLE"
    IN  IF state = target THEN <<>>
        ELSE IF state \in {"IDLE", "LISTENING", "DEGRADED", "INTERRUPTING"} THEN <<target>>
        ELSE <<"INTERRUPTING", target>>

\* _accept_voice_capture_started, _accept_voice_capture_stopped and the
\* branch of _accept_voice_speech_started without barge-in
CaptureStarted(state) == IF state \in {"IDLE", "DEGRADED"} THEN <<"LISTENING">> ELSE <<>>

CaptureStopped(state) == IF state = "LISTENING" THEN <<"IDLE">> ELSE <<>>

SpeechDetected(state) ==
    IF state \in {"IDLE", "DEGRADED"} THEN EnterListening(state) ELSE <<>>

\* Seeded fault of FinishTurn: the microphone is forgotten.
FinishTurnToIdle(state, capturing) == IF state = "IDLE" THEN <<>> ELSE <<"IDLE">>

\* _finish_interaction_after_turn
FinishTurn(state, capturing) ==
    (IF state = "IDLE" THEN <<>> ELSE <<"IDLE">>) \o (IF capturing THEN <<"LISTENING">> ELSE <<>>)
============================================================================
