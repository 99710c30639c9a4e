-------------------------------- MODULE Vad --------------------------------
(* EnergyVoiceActivityDetector of media/vad.py as functions on its state.    *)
(* The coordinator only passes frames of one size, so a buffer's bytes and   *)
(* duration are its length times FrameBytes and FrameDuration. A frame is    *)
(* its number, which is also its capture time: frame n lasts from n to       *)
(* n + 1. Its energy is above the start threshold (loud), above the end      *)
(* threshold only (mid), or below both (quiet).                              *)
EXTENDS Naturals, Sequences, FiniteSetsExt, SequencesExt

CONSTANTS Configs,                   \* the EnergyVadConfig values a detector may have
          FrameDuration, FrameBytes

\* EnergyVadConfig.__post_init__, and the frames the policy's format gives
ValidConfig(c) ==
    /\ {c.startFrames, c.endFrames} \subseteq Nat \ {0}
    /\ c.preRollFrames \in Nat
    /\ c.maxDuration \in Nat /\ FrameDuration <= c.maxDuration
    /\ c.maxBytes \in Nat /\ FrameBytes <= c.maxBytes

ASSUME VadAssumption ==
    /\ FrameDuration \in Nat \ {0} /\ FrameBytes \in Nat \ {0}
    /\ \A c \in Configs : ValidConfig(c)

VARIABLE config   \* the detector's configuration; it never changes

Levels == {"loud", "mid", "quiet"}

\* history: the frames kept while idle; count, start: the run of loud frames among them
\* and its first frame; frames: the utterance being captured; silence, silenceStart: its
\* run of quiet frames.
Quiet == [active |-> FALSE, history |-> <<>>, count |-> 0, start |-> 0, frames |-> <<>>,
          speechStart |-> 0, silence |-> 0, silenceStart |-> 0]

Bytes(frames) == Len(frames) * FrameBytes
Duration(frames) == Len(frames) * FrameDuration

Exceeds(count) == count * FrameBytes > config.maxBytes \/ count * FrameDuration > config.maxDuration

Started == [kind |-> "started", utterance |-> <<>>]

\* The utterance _finish_utterance builds.
Utterance(v, reason) ==
    [frames |-> v.frames, start |-> v.speechStart, reason |-> reason,
     end |-> IF reason = "silence" THEN v.silenceStart ELSE Last(v.frames) + 1]

Ended(v, reason) == [kind |-> "ended", utterance |-> Utterance(v, reason)]

\* _finish_utterance and _clear_utterance; the history is empty while an utterance is active.
Finish(v, reason) == [vad |-> Quiet, events |-> <<Ended(v, reason)>>]

LimitReached(v) == Bytes(v.frames) >= config.maxBytes \/ Duration(v.frames) >= config.maxDuration

LimitReason(v) == IF Duration(v.frames) >= config.maxDuration THEN "max_duration" ELSE "max_bytes"

\* Seeded fault: the history only has room for the pre-roll.
PreRollOnly ==
    Min({config.preRollFrames, config.maxBytes \div FrameBytes,
         config.maxDuration \div FrameDuration})

\* The most frames _remember_idle_frame leaves in the history.
HistoryFrames ==
    Min({config.preRollFrames + config.startFrames, config.maxBytes \div FrameBytes,
         config.maxDuration \div FrameDuration})

Remember(history, n) ==
    LET longer == Append(history, n)
    IN  IF Len(longer) > HistoryFrames THEN Tail(longer) ELSE longer

\* The run of loud frames; one that would outgrow an utterance starts again.
Candidate(v, n, level) ==
    IF level /= "loud" THEN [v EXCEPT !.count = 0, !.start = 0]
    ELSE IF v.count = 0 \/ Exceeds(v.count + 1) THEN [v EXCEPT !.count = 1, !.start = n]
    ELSE [v EXCEPT !.count = @ + 1]

\* _start_utterance
Begin(v) == [Quiet EXCEPT !.active = TRUE, !.frames = v.history, !.speechStart = v.start]

ProcessIdle(v, n, level) ==
    LET heard == Candidate([v EXCEPT !.history = Remember(@, n)], n, level)
        begun == Begin(heard)
    IN  IF heard.count < config.startFrames THEN [vad |-> heard, events |-> <<>>]
        ELSE IF LimitReached(begun)
        THEN [vad |-> Quiet,
              events |-> <<Started, Ended(begun, LimitReason(begun))>>]
        ELSE [vad |-> begun, events |-> <<Started>>]

\* The run of quiet frames.
Silence(v, n, level) ==
    IF level /= "quiet" THEN [v EXCEPT !.silence = 0, !.silenceStart = 0]
    ELSE [v EXCEPT !.silence = @ + 1, !.silenceStart = IF v.silence = 0 THEN n ELSE @]

\* A frame that does not fit ends the utterance and is then heard as an idle one.
ExceededReason(v) ==
    IF Bytes(v.frames) + FrameBytes > config.maxBytes THEN "max_bytes" ELSE "max_duration"

ProcessActive(v, n, level) ==
    LET grown == Silence([v EXCEPT !.frames = Append(@, n)], n, level)
        idle == ProcessIdle(Quiet, n, level)
    IN  IF Exceeds(Len(v.frames) + 1)
        THEN [vad |-> idle.vad, events |-> <<Ended(v, ExceededReason(v))>> \o idle.events]
        ELSE IF LimitReached(grown) THEN Finish(grown, LimitReason(grown))
        ELSE IF grown.silence >= config.endFrames THEN Finish(grown, "silence")
        ELSE [vad |-> grown, events |-> <<>>]

Process(v, n, level) == IF v.active THEN ProcessActive(v, n, level) ELSE ProcessIdle(v, n, level)

\* finish_stream: what it emits; the stream's state is cleared.
FinishStream(v) == IF v.active THEN <<Ended(v, "stream_ended")>> ELSE <<>>

-----------------------------------------------------------------------------
\* PcmUtterance accepts it: frames in order, and a speech that starts and ends within
\* them.
IsPcmUtterance(u) ==
    /\ u.frames /= <<>>
    /\ \A i, j \in DOMAIN u.frames : i < j => u.frames[i] < u.frames[j]
    /\ Head(u.frames) <= u.start /\ u.start <= u.end /\ u.end <= Last(u.frames) + 1
=============================================================================
