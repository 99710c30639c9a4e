--------------------------- MODULE VoiceInputProofs ---------------------------
(* VoiceInput for any detector configurations, frames, queue limit and       *)
(* numbers of streams and results: no transcript of superseded speech        *)
(* becomes a turn, and every utterance the detector builds is well formed.   *)
EXTENDS VoiceInput, SequenceTheorems, TLAPS

\* A name for BOOLEAN that the provers need not look into.
Flags == BOOLEAN

LEMMA FlagValues == TRUE \in Flags /\ FALSE \in Flags
BY DEF Flags

-----------------------------------------------------------------------------
(* The newest speech                                                         *)

RecognitionStates ==
    [pc : {"none", "created", "stream", "partial", "final", "submitted", "ended"},
     cancelled : Flags, final : Flags, revision : Nat, result : {"none", "failed", "done"}]
WorkerStates == [pc : {"none", "get", "recognizing", "reporting", "done"}, job : Nat]
Fates == {"none", "speaking", "queued", "refused", "superseded", "failed", "overtaken", "unheard",
          "final", "closed"}

\* A recognition runs only while the worker awaits it, and one that was not cancelled is of
\* the newest speech.
Fresh ==
    /\ recognition \in RecognitionStates /\ worker \in WorkerStates /\ epoch \in Nat
    /\ fate \in [Epochs -> Fates]
    /\ Unfinished(recognition) => worker.pc = "recognizing"
    /\ Unfinished(recognition) /\ ~recognition.cancelled => worker.job = epoch

\* The step of NewestSpeechWins.
SubmitsNewest ==
    \A e \in Epochs : fate[e] /= "final" /\ fate'[e] = "final" => e = epoch

LEMMA NoRecognitionTyped ==
    /\ NoRecognition \in RecognitionStates /\ ~Unfinished(NoRecognition)
    /\ [NoRecognition EXCEPT !.pc = "created"] \in RecognitionStates
BY FlagValues DEF NoRecognition, RecognitionStates, Unfinished

LEMMA InitFresh == Init => Fresh
<1>. SUFFICES ASSUME Init PROVE Fresh
    OBVIOUS
<1>1. recognition \in RecognitionStates /\ ~Unfinished(recognition)
    BY NoRecognitionTyped DEF Init
<1>2. worker \in WorkerStates /\ epoch \in Nat /\ fate \in [Epochs -> Fates]
    BY DEF Init, WorkerStates, Fates
<1>. QED
    BY <1>1, <1>2 DEF Fresh

LEMMA SettleNotFinal ==
    ASSUME Fresh, NEW e0, NEW as \in Fates \ {"final"}, Settle(e0, as)
    PROVE  SubmitsNewest /\ fate' \in [Epochs -> Fates]
BY DEF Settle, SubmitsNewest, Fresh

\* The worker is at its queue again, or where its recognition has ended.
LEMMA WorkFresh ==
    ASSUME Fresh, Work
    PROVE  Fresh' /\ SubmitsNewest
<1>1. CASE WorkerStarts
    <2>1. worker' = [pc |-> "recognizing", job |-> epoch] /\ UNCHANGED <<epoch, fate>>
        BY <1>1 DEF WorkerStarts, workerUnchanged
    <2>2. recognition' \in RecognitionStates
        BY <1>1, NoRecognitionTyped DEF WorkerStarts
    <2>. QED
        BY <2>1, <2>2 DEF Fresh, WorkerStates, SubmitsNewest
<1>2. CASE WorkerSkips
    BY <1>2, SettleNotFinal DEF WorkerSkips, workerUnchanged, Fresh, Fates
<1>3. CASE WorkerResumes
    <2>1. recognition' = NoRecognition /\ UNCHANGED epoch
        BY <1>3 DEF WorkerResumes, workerUnchanged
    <2>2. worker' \in WorkerStates
        BY <1>3 DEF WorkerResumes, Fresh, WorkerStates
    <2>3. SubmitsNewest /\ fate' \in [Epochs -> Fates]
        BY <1>3, SettleNotFinal DEF WorkerResumes, Fresh, Fates, SubmitsNewest
    <2>. QED
        BY <2>1, <2>2, <2>3, NoRecognitionTyped DEF Fresh
<1>4. CASE WorkerReports
    <2>1. ~Unfinished(recognition) /\ UNCHANGED <<epoch, recognition>>
        BY <1>4 DEF WorkerReports, workerUnchanged, Fresh
    <2>2. worker' \in WorkerStates
        BY <1>4 DEF WorkerReports, WorkerStates
    <2>3. SubmitsNewest /\ fate' \in [Epochs -> Fates]
        <3>1. Outcome("failed") \in Fates \ {"final"}
            BY DEF Outcome, Fates
        <3>. QED
            BY <1>4, <3>1, SettleNotFinal DEF WorkerReports
    <2>. QED
        BY <2>1, <2>2, <2>3 DEF Fresh
<1>. QED
    BY <1>1, <1>2, <1>3, <1>4 DEF Work

\* The transcript is submitted for the job of the worker; nothing else makes it final.
LEMMA RecognizeFresh ==
    ASSUME Fresh, Recognize
    PROVE  Fresh' /\ SubmitsNewest
<1>. USE FlagValues
<1>1. UNCHANGED <<epoch, worker>> /\ Unfinished(recognition)
    BY DEF Recognize, RecognitionStarts, PartialReturns, AsrFinal, AsrEnds, RecognitionFails,
       FinalSubmitted, FinalCancelled, FinalReturns, RecognitionCancelled, AsrPartial, Runs,
       recognitionUnchanged, Unfinished
<1>2. ASSUME NEW result \in {"failed", "done"}, EndsAs(result)
      PROVE  recognition' \in RecognitionStates /\ ~Unfinished(recognition')
    BY <1>2 DEF EndsAs, Fresh, RecognitionStates, Unfinished
<1>3. /\ recognition' \in RecognitionStates
      /\ Unfinished(recognition') => recognition'.cancelled = recognition.cancelled
    <2>1. CASE RecognitionStarts \/ PartialReturns \/ FinalSubmitted \/ FinalCancelled
        BY <2>1 DEF RecognitionStarts, PartialReturns, FinalSubmitted, FinalCancelled, Submitted,
           Fresh, RecognitionStates
    <2>2. CASE AsrFinal
        BY <1>2, <2>2 DEF AsrFinal, Fresh, RecognitionStates
    <2>3. CASE AsrEnds
        BY <1>2, <2>3 DEF AsrEnds, Fresh, RecognitionStates
    <2>4. ASSUME NEW revision \in 1..MaxRevision, AsrPartial(revision)
          PROVE  /\ recognition' \in RecognitionStates
                 /\ Unfinished(recognition') => recognition'.cancelled = recognition.cancelled
        <3>1. CASE EndsAs("done") \/ EndsAs("failed")
            BY <1>2, <3>1
        <3>2. CASE recognition' = [recognition EXCEPT !.pc = "partial", !.revision = revision]
            <4>1. revision \in Nat
                OBVIOUS
            <4>. QED
                BY <3>2, <4>1 DEF Fresh, RecognitionStates
        <3>. QED
            BY <2>4, <3>1, <3>2 DEF AsrPartial
    <2>5. CASE RecognitionFails \/ FinalReturns \/ RecognitionCancelled
        BY <1>2, <2>5 DEF RecognitionFails, FinalReturns, RecognitionCancelled
    <2>. QED
        BY <2>1, <2>2, <2>3, <2>4, <2>5 DEF Recognize
<1>4. SubmitsNewest /\ fate' \in [Epochs -> Fates]
    <2>1. CASE FinalSubmitted
        <3>1. worker.job = epoch
            BY <2>1 DEF FinalSubmitted, Runs, Fresh, Unfinished
        <3>. QED
            BY <2>1, <3>1 DEF FinalSubmitted, Settle, Fresh, Fates, SubmitsNewest
    <2>2. CASE FinalCancelled
        <3>1. Outcome("final") \in Fates \ {"final"}
            BY <2>2 DEF FinalCancelled, Outcome, Fates
        <3>. QED
            BY <2>2, <3>1, SettleNotFinal DEF FinalCancelled
    <2>3. CASE UNCHANGED fate
        BY <2>3 DEF Fresh, SubmitsNewest
    <2>. QED
        BY <2>1, <2>2, <2>3 DEF Recognize, RecognitionStarts, PartialReturns, AsrFinal, AsrEnds,
           RecognitionFails, FinalReturns, RecognitionCancelled, AsrPartial
<1>. QED
    BY <1>1, <1>3, <1>4 DEF Fresh

LEMMA NextFresh ==
    ASSUME Fresh, [Next]_vars
    PROVE  Fresh' /\ SubmitsNewest
<1>1. CASE StartStream
    BY <1>1 DEF StartStream, Fresh, WorkerStates, SubmitsNewest
<1>2. CASE \/ StopStream \/ EventsDone \/ HandleStopped \/ ForegroundCommand \/ SessionEnds
           \/ (\E level \in Levels : Frame(level)) \/ UNCHANGED vars
    BY <1>2 DEF Frame, StopStream, EventsDone, HandleStopped, ForegroundCommand, SessionEnds, vars,
       Fresh, SubmitsNewest
<1>3. CASE HandleStarted
    <2>1. epoch' \in Nat /\ worker' = worker /\ fate' \in [Epochs -> Fates] /\ SubmitsNewest
        <3>1. epoch' \in Nat /\ worker' = worker
            BY <1>3 DEF HandleStarted, Fresh
        <3>. QED
            BY <1>3, <3>1 DEF HandleStarted, Fresh, Fates, SubmitsNewest
    <2>2. CASE Unfinished(recognition)
        <3>1. recognition' \in RecognitionStates /\ recognition'.cancelled
            BY <1>3, <2>2, FlagValues DEF HandleStarted, CancelRecognition, Fresh, RecognitionStates
        <3>. QED
            BY <2>1, <2>2, <3>1 DEF Fresh
    <2>3. CASE ~Unfinished(recognition)
        BY <1>3, <2>1, <2>3 DEF HandleStarted, CancelRecognition, Fresh
    <2>. QED
        BY <2>2, <2>3
<1>4. CASE HandleEnded \/ HandleBackpressure \/ SinkReturns
    BY <1>4 DEF HandleEnded, HandleBackpressure, SinkReturns, Fresh, SubmitsNewest, Fates
<1>5. CASE Close
    <2>1. worker' \in WorkerStates /\ epoch' = epoch /\ recognition' = NoRecognition
        BY <1>5 DEF Close, WorkerStates
    <2>2. fate' \in [Epochs -> Fates] /\ SubmitsNewest
        BY <1>5 DEF Close, Fresh, Fates, SubmitsNewest
    <2>. QED
        BY <2>1, <2>2, NoRecognitionTyped DEF Fresh
<1>. QED
    BY <1>1, <1>2, <1>3, <1>4, <1>5, WorkFresh, RecognizeFresh DEF Next, Capture, Finished

\* A transcript becomes a turn only while its speech is the newest, however many utterances,
\* streams and results there are: between the check of the epoch in _recognize and the
\* submission no newer speech can start without cancelling the recognition.
THEOREM NewestSpeechSubmitted == Spec => NewestSpeechWins
<1>1. Fresh /\ [Next]_vars => Fresh'
    BY NextFresh
<1>2. Fresh /\ [Next]_vars
      => [\A e \in Epochs : fate[e] /= "final" /\ fate'[e] = "final" => e = epoch]_vars
    BY NextFresh DEF SubmitsNewest
<1>. QED
    BY <1>1, <1>2, InitFresh, PTL DEF Spec, NewestSpeechWins

-----------------------------------------------------------------------------
(* The detector                                                              *)

\* Utterances of k frames are within both limits of the configuration c.
Fits(c, k) == k * FrameBytes <= c.maxBytes /\ k * FrameDuration <= c.maxDuration

\* The frames of q are the last ones up to the frame n.
EndsAt(q, n) == q \in Seq(Nat) /\ \A i \in 1..Len(q) : q[i] = n - Len(q) + i

Reasons == {"silence", "max_bytes", "max_duration", "stream_ended"}
Utterances == [frames : Seq(Nat), start : Nat, end : Nat, reason : Reasons]

\* An utterance with its frames in order and its speech within them.
GoodUtterances(c) ==
    {u \in Utterances :
        /\ u.frames /= <<>> /\ Fits(c, Len(u.frames)) /\ EndsAt(u.frames, Last(u.frames))
        /\ Last(u.frames) - Len(u.frames) + 1 <= u.start
        /\ u.start <= u.end /\ u.end <= Last(u.frames) + 1}

Events(c) == {Started, Stopped} \cup [kind : {"ended"}, utterance : GoodUtterances(c)]

VadStates == [active : Flags, history : Seq(Nat), count : Nat, start : Nat, frames : Seq(Nat),
              speechStart : Nat, silence : Nat, silenceStart : Nat]

\* While idle, the history holds the loud run that may become speech.
GoodIdle(c, v, n) ==
    /\ v \in VadStates /\ ~v.active /\ v.frames = <<>>
    /\ EndsAt(v.history, n) /\ Fits(c, Len(v.history))
    /\ v.count <= Len(v.history) /\ v.count < c.startFrames
    /\ v.count > 0 => v.start = n - v.count + 1

\* While active, the frames hold the start of the speech and of the silence.
GoodActive(c, v, n) ==
    /\ v \in VadStates /\ v.active /\ v.history = <<>>
    /\ v.frames /= <<>> /\ EndsAt(v.frames, n) /\ Fits(c, Len(v.frames))
    /\ n - Len(v.frames) + 1 <= v.speechStart /\ v.speechStart <= n
    /\ v.silence > 0 => v.speechStart <= v.silenceStart /\ v.silenceStart <= n

GoodVad(c, v, n) == GoodIdle(c, v, n) \/ GoodActive(c, v, n)

Active(v) == IF v.active THEN 1 ELSE 0
Speaking == IF speaking = 0 THEN 0 ELSE 1

\* 1 if the coordinator hears speech before it handles the i-th of the events todo.
Hearing(now, todo, i) == IF i = 1 THEN now ELSE IF todo[i - 1].kind = "started" THEN 1 ELSE 0

\* Speech starts and ends in turn, and in the end the coordinator hears what the detector does.
Alternate(now, todo, active) ==
    /\ \A i \in 1..Len(todo) : todo[i].kind = "ended" <=> Hearing(now, todo, i) = 1
    /\ Hearing(now, todo, Len(todo) + 1) = active

QueueInOrder ==
    /\ queue \in Seq(Nat) /\ Len(queue) <= MaxPending
    /\ \A i, j \in 1..Len(queue) : i < j => queue[i] < queue[j]
    /\ \A i \in 1..Len(queue) : queue[i] <= epoch /\ (speaking /= 0 => queue[i] < speaking)

CaptureInOrder ==
    /\ config \in Configs /\ heard \in Nat /\ epoch \in Nat /\ speaking \in {0, epoch}
    /\ GoodVad(config, vad, heard) /\ (~stream => vad = Quiet)
    /\ utterance \in GoodUtterances(config)
    /\ ws \in [pc : {"receive", "sink", "events", "done"}, todo : Seq(Events(config))]
    /\ ws.pc \in {"receive", "done"} => ws.todo = <<>>
    /\ Alternate(Speaking, ws.todo, Active(vad))

UtteranceInv == CaptureInOrder /\ QueueInOrder

\* How many frames fit.
LEMMA Product ==
    ASSUME NEW j \in Nat, NEW k \in Nat, NEW b \in Nat, j <= k
    PROVE  j * b <= k * b
OBVIOUS

LEMMA Quotient ==
    ASSUME NEW a \in Nat, NEW b \in Nat \ {0}, NEW k \in Nat
    PROVE  /\ a \div b \in Nat
           /\ k <= a \div b => k * b <= a
           /\ k * b <= a => k <= a \div b
<1>. DEFINE q == a \div b
<1>1. q \in Nat /\ q * b <= a /\ a < (q + 1) * b
    OBVIOUS
<1>. HIDE DEF q
<1>2. k <= q => k * b <= q * b
    BY <1>1, Product
<1>3. k >= q + 1 => (q + 1) * b <= k * b
    BY <1>1, Product
<1>4. k * b \in Nat /\ q * b \in Nat /\ (q + 1) * b \in Nat
    BY <1>1
<1>. QED
    BY <1>1, <1>2, <1>3, <1>4 DEF q

LEMMA MinOfThree ==
    ASSUME NEW x \in Nat, NEW y \in Nat, NEW z \in Nat
    PROVE  Min({x, y, z}) \in {x, y, z} /\ Min({x, y, z}) <= x /\ Min({x, y, z}) <= y
           /\ Min({x, y, z}) <= z
<1>1. \E m \in {x, y, z} : \A o \in {x, y, z} : m <= o
    <2>1. CASE x <= y /\ x <= z
        BY <2>1
    <2>2. CASE y <= x /\ y <= z
        BY <2>2
    <2>3. CASE z <= x /\ z <= y
        BY <2>3
    <2>. QED
        BY <2>1, <2>2, <2>3
<1>. QED
    BY <1>1 DEF Min

LEMMA ConfigTyped ==
    ASSUME NEW c \in Configs
    PROVE  /\ c.startFrames \in Nat \ {0} /\ c.endFrames \in Nat \ {0} /\ c.preRollFrames \in Nat
           /\ c.maxDuration \in Nat /\ c.maxBytes \in Nat
           /\ FrameDuration \in Nat \ {0} /\ FrameBytes \in Nat \ {0}
           /\ Fits(c, 1)
BY VadAssumption DEF ValidConfig, Fits

LEMMA FewerFit ==
    ASSUME NEW c \in Configs, NEW j \in Nat, NEW k \in Nat, j <= k, Fits(c, k)
    PROVE  Fits(c, j)
<1>1. j * FrameBytes <= k * FrameBytes /\ j * FrameDuration <= k * FrameDuration
    BY ConfigTyped, Product
<1>2. /\ j * FrameBytes \in Nat /\ k * FrameBytes \in Nat /\ j * FrameDuration \in Nat
      /\ k * FrameDuration \in Nat
    BY ConfigTyped
<1>. QED
    BY <1>1, <1>2, ConfigTyped DEF Fits

LEMMA ExceedsFits ==
    ASSUME config \in Configs, NEW k \in Nat
    PROVE  Exceeds(k) <=> ~Fits(config, k)
<1>1. k * FrameBytes \in Nat /\ k * FrameDuration \in Nat
    BY ConfigTyped
<1>. QED
    BY <1>1, ConfigTyped DEF Exceeds, Fits

\* The history has room for one frame and for any loud run that may become speech, and
\* no more frames than an utterance may have.
LEMMA HistoryRoom ==
    ASSUME config \in Configs
    PROVE  /\ HistoryFrames \in Nat \ {0} /\ Fits(config, HistoryFrames)
           /\ \A k \in Nat : k <= config.startFrames /\ Fits(config, k) => k <= HistoryFrames
<1>. DEFINE x == config.preRollFrames + config.startFrames
            y == config.maxBytes \div FrameBytes
            z == config.maxDuration \div FrameDuration
<1>1. x \in Nat /\ x >= config.startFrames /\ x >= 1
    BY ConfigTyped
<1>2. /\ y \in Nat /\ z \in Nat
      /\ \A k \in Nat : Fits(config, k) <=> k <= y /\ k <= z
    BY ConfigTyped, Quotient DEF Fits
<1>3. HistoryFrames = Min({x, y, z})
    BY DEF HistoryFrames
<1>. HIDE DEF x, y, z
<1>4. /\ HistoryFrames \in Nat /\ HistoryFrames <= x /\ HistoryFrames <= y /\ HistoryFrames <= z
      /\ HistoryFrames \in {x, y, z}
    BY <1>1, <1>2, <1>3, MinOfThree
<1>5. 1 <= y /\ 1 <= z
    BY <1>2, ConfigTyped
<1>6. HistoryFrames >= 1
    BY <1>1, <1>4, <1>5
<1>7. \A k \in Nat : k <= config.startFrames /\ Fits(config, k) => k <= HistoryFrames
    BY <1>1, <1>2, <1>4, ConfigTyped
<1>. QED
    BY <1>2, <1>4, <1>6, <1>7

\* Runs of frames.
LEMMA LongRun ==
    ASSUME NEW q, Len(q) > 0
    PROVE  q /= <<>>
OBVIOUS

LEMMA RunAppend ==
    ASSUME NEW n \in Nat, NEW q, EndsAt(q, n)
    PROVE  EndsAt(Append(q, n + 1), n + 1) /\ Len(Append(q, n + 1)) = Len(q) + 1
BY DEF EndsAt

LEMMA RunTail ==
    ASSUME NEW n \in Nat, NEW q, EndsAt(q, n), q /= <<>>
    PROVE  EndsAt(Tail(q), n) /\ Len(Tail(q)) = Len(q) - 1
<1>1. /\ q \in Seq(Nat) /\ Len(q) \in Nat /\ Tail(q) \in Seq(Nat) /\ Len(Tail(q)) = Len(q) - 1
      /\ \A i \in 1..Len(Tail(q)) : Tail(q)[i] = q[i + 1]
    BY DEF EndsAt
<1>. QED
    BY <1>1 DEF EndsAt

LEMMA RunEnds ==
    ASSUME NEW n \in Nat, NEW q, EndsAt(q, n), q /= <<>>
    PROVE  Len(q) \in Nat /\ Len(q) > 0 /\ Last(q) = n /\ Head(q) = n - Len(q) + 1
BY DEF EndsAt, Last

LEMMA EmptyRun ==
    ASSUME NEW n \in Nat
    PROVE  EndsAt(<<>>, n)
BY DEF EndsAt

LEMMA QuietIdle ==
    ASSUME NEW c \in Configs, NEW n \in Nat
    PROVE  GoodIdle(c, Quiet, n)
<1>1. Quiet \in VadStates /\ ~Quiet.active
    <2>1. <<>> \in Seq(Nat) /\ 0 \in Nat
        OBVIOUS
    <2>2. Quiet \in VadStates
        BY <2>1, FlagValues DEF Quiet, VadStates
    <2>3. ~Quiet.active
        BY DEF Quiet
    <2>. QED
        BY <2>2, <2>3
<1>2. Fits(c, 0)
    BY FewerFit, ConfigTyped
<1>. QED
    BY <1>1, <1>2, EmptyRun, ConfigTyped DEF GoodIdle, Quiet

LEMMA RememberRun ==
    ASSUME config \in Configs, NEW n \in Nat, NEW q, EndsAt(q, n), Fits(config, Len(q))
    PROVE  LET r == Remember(q, n + 1)
           IN  /\ EndsAt(r, n + 1) /\ Len(r) \in Nat \ {0} /\ Fits(config, Len(r))
               /\ Len(r) = Len(q) + 1 \/ Len(r) >= HistoryFrames
<1>. DEFINE longer == Append(q, n + 1)
<1>1. EndsAt(longer, n + 1) /\ Len(longer) = Len(q) + 1 /\ Len(q) \in Nat
    BY RunAppend DEF EndsAt
<1>2. HistoryFrames \in Nat \ {0} /\ Fits(config, HistoryFrames)
    BY HistoryRoom
<1>. HIDE DEF longer
<1>3. CASE Len(longer) > HistoryFrames
    <2>1. Remember(q, n + 1) = Tail(longer)
        BY <1>3 DEF Remember, longer
    <2>2. longer /= <<>>
        BY <1>1
    <2>3. EndsAt(Tail(longer), n + 1) /\ Len(Tail(longer)) = Len(q)
        BY <1>1, <2>2, RunTail
    <2>4. Len(q) \in Nat \ {0} /\ Len(q) >= HistoryFrames
        BY <1>1, <1>2, <1>3
    <2>. QED
        BY <2>1, <2>3, <2>4
<1>4. CASE ~(Len(longer) > HistoryFrames)
    <2>1. Remember(q, n + 1) = longer
        BY <1>4 DEF Remember, longer
    <2>2. Fits(config, Len(longer))
        BY <1>1, <1>2, <1>4, FewerFit
    <2>. QED
        BY <1>1, <2>1, <2>2
<1>. QED
    BY <1>3, <1>4

\* The frame n + 1 is remembered, and the loud run counted.
LEMMA CandidateRun ==
    ASSUME config \in Configs, NEW n \in Nat, NEW v, GoodIdle(config, v, n), NEW level
    PROVE  LET h == Candidate([v EXCEPT !.history = Remember(@, n + 1)], n + 1, level)
           IN  /\ h \in VadStates /\ ~h.active /\ h.frames = <<>>
               /\ EndsAt(h.history, n + 1) /\ Len(h.history) \in Nat \ {0}
               /\ Fits(config, Len(h.history))
               /\ h.count <= Len(h.history) /\ h.count <= config.startFrames
               /\ h.count > 0 => h.start = (n + 1) - h.count + 1
<1>. DEFINE r == Remember(v.history, n + 1)
            w == [v EXCEPT !.history = r]
            h == Candidate(w, n + 1, level)
<1>. SUFFICES /\ h \in VadStates /\ ~h.active /\ h.frames = <<>>
              /\ EndsAt(h.history, n + 1) /\ Len(h.history) \in Nat \ {0}
              /\ Fits(config, Len(h.history))
              /\ h.count <= Len(h.history) /\ h.count <= config.startFrames
              /\ h.count > 0 => h.start = (n + 1) - h.count + 1
    OBVIOUS
<1>1. /\ EndsAt(r, n + 1) /\ Len(r) \in Nat \ {0} /\ Fits(config, Len(r))
      /\ Len(r) = Len(v.history) + 1 \/ Len(r) >= HistoryFrames
    BY RememberRun DEF GoodIdle
<1>. HIDE DEF r
<1>2. /\ w \in VadStates /\ w.active = v.active /\ w.frames = v.frames /\ w.history = r
      /\ w.count = v.count /\ w.start = v.start
    BY <1>1 DEF GoodIdle, VadStates, EndsAt
<1>. HIDE DEF w
<1>3. /\ v.count \in Nat /\ v.start \in Nat /\ ~v.active /\ v.frames = <<>>
      /\ v.count <= Len(v.history) /\ v.count < config.startFrames /\ Len(v.history) \in Nat
      /\ v.count > 0 => v.start = n - v.count + 1
    BY DEF GoodIdle, VadStates
<1>. HIDE DEF h
<1>4. ASSUME NEW count \in Nat, NEW start \in Nat, h = [w EXCEPT !.count = count, !.start = start]
      PROVE  /\ h \in VadStates /\ h.active = v.active /\ h.frames = v.frames /\ h.history = r
             /\ h.count = count /\ h.start = start
    BY <1>2, <1>4 DEF VadStates
<1>5. config.startFrames \in Nat \ {0}
    BY ConfigTyped
<1>6. CASE level /= "loud"
    <2>1. h = [w EXCEPT !.count = 0, !.start = 0]
        BY <1>6 DEF h, Candidate
    <2>2. h.history = r /\ h.count = 0 /\ h \in VadStates /\ h.active = v.active /\ h.frames = v.frames
        BY <1>4, <2>1
    <2>. QED
        BY <1>1, <1>3, <1>5, <2>2
<1>7. CASE level = "loud" /\ (v.count = 0 \/ Exceeds(v.count + 1))
    <2>1. h = [w EXCEPT !.count = 1, !.start = n + 1]
        BY <1>2, <1>7 DEF h, Candidate
    <2>2. /\ h.history = r /\ h.count = 1 /\ h.start = n + 1
          /\ h \in VadStates /\ h.active = v.active /\ h.frames = v.frames
        <3>1. n + 1 \in Nat
            OBVIOUS
        <3>. QED
            BY <1>4, <2>1, <3>1
    <2>. QED
        BY <1>1, <1>3, <1>5, <2>2
<1>8. CASE level = "loud" /\ ~(v.count = 0 \/ Exceeds(v.count + 1))
    <2>1. h = [w EXCEPT !.count = v.count + 1, !.start = v.start]
        BY <1>2, <1>8 DEF h, Candidate, VadStates
    <2>2. Fits(config, v.count + 1)
        BY <1>3, <1>8, ExceedsFits
    <2>3. v.count + 1 <= HistoryFrames
        BY <1>3, <1>5, <2>2, HistoryRoom
    <2>4. v.count + 1 <= Len(r)
        BY <1>1, <1>3, <2>3, HistoryRoom
    <2>5. /\ h.history = r /\ h.count = v.count + 1 /\ h.start = v.start
          /\ h \in VadStates /\ h.active = v.active /\ h.frames = v.frames
        <3>1. v.count + 1 \in Nat
            BY <1>3
        <3>. QED
            BY <1>3, <1>4, <2>1, <3>1
    <2>. QED
        BY <1>1, <1>3, <1>5, <1>8, <2>4, <2>5
<1>. QED
    BY <1>6, <1>7, <1>8

\* Alternating events.
After(e) == IF e.kind = "started" THEN 1 ELSE 0

LEMMA NoEvents ==
    ASSUME NEW now
    PROVE  Alternate(now, <<>>, now)
BY DEF Alternate, Hearing

LEMMA FirstEvent ==
    ASSUME NEW T, NEW e \in T, NEW rest \in Seq(T), NEW now, NEW active,
           e.kind = "ended" <=> now = 1, Alternate(After(e), rest, active)
    PROVE  <<e>> \o rest \in Seq(T) /\ Alternate(now, <<e>> \o rest, active)
<1>. DEFINE all == <<e>> \o rest
<1>1. /\ Len(rest) \in Nat /\ all \in Seq(T) /\ Len(all) = Len(rest) + 1 /\ all[1] = e
      /\ \A i \in 1..Len(rest) : all[i + 1] = rest[i]
    OBVIOUS
<1>. HIDE DEF all
<1>2. \A i \in 1..(Len(rest) + 1) : Hearing(now, all, i + 1) = Hearing(After(e), rest, i)
    <2>. SUFFICES ASSUME NEW i \in 1..(Len(rest) + 1)
                  PROVE  Hearing(now, all, i + 1) = Hearing(After(e), rest, i)
        OBVIOUS
    <2>1. CASE i = 1
        BY <1>1, <2>1 DEF Hearing, After
    <2>2. CASE i /= 1
        <3>1. i - 1 \in 1..Len(rest) /\ all[i] = rest[i - 1]
            BY <1>1, <2>2
        <3>. QED
            BY <2>2, <3>1 DEF Hearing
    <2>. QED
        BY <2>1, <2>2
<1>3. Hearing(now, all, 1) = now
    BY DEF Hearing
<1>4. ASSUME NEW i \in 1..Len(all) PROVE all[i].kind = "ended" <=> Hearing(now, all, i) = 1
    <2>1. CASE i = 1
        BY <1>1, <1>3, <2>1
    <2>2. CASE i /= 1
        <3>1. PICK j \in 1..Len(rest) : i = j + 1
            BY <1>1, <2>2
        <3>. QED
            BY <1>1, <1>2, <3>1 DEF Alternate
    <2>. QED
        BY <2>1, <2>2
<1>5. Hearing(now, all, Len(all) + 1) = active
    BY <1>1, <1>2 DEF Alternate
<1>. QED
    BY <1>1, <1>4, <1>5 DEF Alternate, all

LEMMA OneEvent ==
    ASSUME NEW T, NEW e \in T, NEW now, e.kind = "ended" <=> now = 1
    PROVE  <<e>> \in Seq(T) /\ Alternate(now, <<e>>, After(e))
<1>1. <<>> \in Seq(T) /\ <<e>> \o <<>> = <<e>>
    OBVIOUS
<1>. QED
    BY <1>1, NoEvents, FirstEvent

LEMMA TwoEvents ==
    ASSUME NEW e, NEW f
    PROVE  <<e>> \o <<f>> = <<e, f>>
<1>1. <<e>> \in Seq({e, f}) /\ <<f>> \in Seq({e, f}) /\ <<e, f>> \in Seq({e, f})
    OBVIOUS
<1>. DEFINE s == <<e>> \o <<f>>
            t == <<e, f>>
<1>2. s \in Seq({e, f}) /\ Len(s) = 2 /\ Len(t) = 2 /\ s[1] = e /\ s[2] = f /\ t[1] = e /\ t[2] = f
    BY <1>1
<1>3. t \in Seq({e, f})
    BY <1>1
<1>. HIDE DEF s, t
<1>4. \A i \in 1..Len(s) : s[i] = t[i]
    BY <1>2
<1>5. s = t
    BY <1>2, <1>3, <1>4, SeqEqual
<1>. QED
    BY <1>5 DEF s, t

LEMMA Appended ==
    ASSUME NEW e, NEW f
    PROVE  Append(<<>>, e) = <<e>> /\ Append(<<e>>, f) = <<e, f>>
<1>1. <<>> \in Seq({e, f}) /\ <<e>> \in Seq({e, f})
    OBVIOUS
<1>2. Append(<<>>, e) = <<>> \o <<e>> /\ Append(<<e>>, f) = <<e>> \o <<f>>
    BY <1>1, AppendIsConcat
<1>3. <<>> \o <<e>> = <<e>>
    OBVIOUS
<1>. QED
    BY <1>2, <1>3, TwoEvents

LEMMA EventHandled ==
    ASSUME NEW T, NEW todo \in Seq(T), todo /= <<>>, NEW now, NEW active,
           Alternate(now, todo, active)
    PROVE  /\ Head(todo).kind = "ended" <=> now = 1
           /\ Alternate(After(Head(todo)), Tail(todo), active)
<1>. DEFINE rest == Tail(todo)
<1>1. /\ Len(todo) \in Nat /\ rest \in Seq(T) /\ Len(todo) = Len(rest) + 1 /\ todo[1] = Head(todo)
      /\ Len(rest) \in Nat /\ \A i \in 1..Len(rest) : rest[i] = todo[i + 1]
    OBVIOUS
<1>. HIDE DEF rest
<1>2. \A i \in 1..(Len(rest) + 1) : Hearing(now, todo, i + 1) = Hearing(After(Head(todo)), rest, i)
    <2>. SUFFICES ASSUME NEW i \in 1..(Len(rest) + 1)
                  PROVE  Hearing(now, todo, i + 1) = Hearing(After(Head(todo)), rest, i)
        OBVIOUS
    <2>1. CASE i = 1
        BY <1>1, <2>1 DEF Hearing, After
    <2>2. CASE i /= 1
        <3>1. i - 1 \in 1..Len(rest) /\ rest[i - 1] = todo[i]
            BY <1>1, <2>2
        <3>. QED
            BY <2>2, <3>1 DEF Hearing
    <2>. QED
        BY <2>1, <2>2
<1>3. Head(todo).kind = "ended" <=> now = 1
    BY <1>1 DEF Alternate, Hearing
<1>4. \A i \in 1..Len(rest) : rest[i].kind = "ended" <=> Hearing(After(Head(todo)), rest, i) = 1
    BY <1>1, <1>2 DEF Alternate
<1>5. Hearing(After(Head(todo)), rest, Len(rest) + 1) = active
    BY <1>1, <1>2 DEF Alternate
<1>. QED
    BY <1>3, <1>4, <1>5 DEF Alternate, rest

-----------------------------------------------------------------------------
(* What one frame does to the detector                                       *)

LEMMA EventKinds ==
    /\ Started.kind = "started" /\ Stopped.kind = "stopped"
    /\ \A c : /\ Started \in Events(c) /\ Stopped \in Events(c)
              /\ \A e \in Events(c) : \/ e = Started \/ e = Stopped
                                      \/ e.kind = "ended" /\ e.utterance \in GoodUtterances(c)
BY DEF Started, Stopped, Events

LEMMA EndedGood ==
    ASSUME NEW c \in Configs, NEW n \in Nat, NEW v, GoodActive(c, v, n), NEW reason \in Reasons,
           reason = "silence" => v.silence > 0
    PROVE  Ended(v, reason) \in Events(c) /\ Ended(v, reason).kind = "ended"
<1>. DEFINE u == Utterance(v, reason)
<1>1. /\ Len(v.frames) \in Nat /\ Last(v.frames) = n /\ v.frames \in Seq(Nat)
      /\ v.speechStart \in Nat /\ v.silenceStart \in Nat
    BY RunEnds DEF GoodActive, VadStates
<1>2. /\ u.frames = v.frames /\ u.start = v.speechStart /\ u.end \in Nat /\ u \in Utterances
      /\ v.speechStart <= u.end /\ u.end <= n + 1
    <2>1. CASE reason = "silence"
        BY <1>1, <2>1 DEF GoodActive, Utterance, Utterances
    <2>2. CASE reason /= "silence"
        BY <1>1, <2>2 DEF GoodActive, Utterance, Utterances
    <2>. QED
        BY <2>1, <2>2
<1>. HIDE DEF u
<1>3. u \in GoodUtterances(c)
    BY <1>1, <1>2 DEF GoodUtterances, GoodActive
<1>. QED
    BY <1>3 DEF Ended, Events, u

\* A detector's step: its new state and its events, for a detector that was active or not.
GoodStep(c, now, step, n) ==
    /\ GoodVad(c, step.vad, n)
    /\ step.events \in Seq(Events(c))
    /\ Alternate(now, step.events, Active(step.vad))

LEMMA StepGood ==
    ASSUME NEW c, NEW now, NEW v, NEW n, GoodVad(c, v, n),
           NEW events \in Seq(Events(c)), Alternate(now, events, Active(v))
    PROVE  GoodStep(c, now, [vad |-> v, events |-> events], n)
BY DEF GoodStep

LEMMA LimitReasons ==
    ASSUME NEW v
    PROVE  /\ LimitReason(v) \in Reasons \ {"silence"}
           /\ ExceededReason(v) \in Reasons \ {"silence"}
<1>1. LimitReason(v) \in Reasons \ {"silence"}
    BY DEF LimitReason, Reasons
<1>2. ExceededReason(v) \in Reasons \ {"silence"}
    BY DEF ExceededReason, Reasons
<1>. QED
    BY <1>1, <1>2

LEMMA GoodVadActive ==
    ASSUME NEW c, NEW v, NEW n
    PROVE  /\ GoodIdle(c, v, n) => GoodVad(c, v, n) /\ Active(v) = 0
           /\ GoodActive(c, v, n) => GoodVad(c, v, n) /\ Active(v) = 1
<1>1. GoodIdle(c, v, n) => ~v.active
    BY DEF GoodIdle
<1>2. GoodActive(c, v, n) => v.active
    BY DEF GoodActive
<1>. QED
    BY <1>1, <1>2 DEF GoodVad, Active

\* An utterance that ends leaves the detector quiet.
LEMMA FinishGood ==
    ASSUME NEW c \in Configs, NEW n \in Nat, NEW v, GoodActive(c, v, n), NEW reason \in Reasons,
           reason = "silence" => v.silence > 0
    PROVE  GoodStep(c, 1, Finish(v, reason), n)
<1>. DEFINE e == Ended(v, reason)
<1>1. e \in Events(c) /\ e.kind = "ended"
    BY EndedGood
<1>2. Finish(v, reason) = [vad |-> Quiet, events |-> <<e>>]
    BY DEF Finish
<1>. HIDE DEF e
<1>3. <<e>> \in Seq(Events(c)) /\ Alternate(1, <<e>>, 0)
    BY <1>1, OneEvent DEF After
<1>4. GoodVad(c, Quiet, n) /\ Active(Quiet) = 0
    BY QuietIdle, GoodVadActive
<1>. QED
    BY <1>2, <1>3, <1>4, StepGood

LEMMA IdleGood ==
    ASSUME config \in Configs, NEW n \in Nat, NEW v, GoodIdle(config, v, n), NEW level
    PROVE  GoodStep(config, 0, ProcessIdle(v, n + 1, level), n + 1)
<1>. DEFINE h == Candidate([v EXCEPT !.history = Remember(@, n + 1)], n + 1, level)
            b == Begin(h)
            step == ProcessIdle(v, n + 1, level)
<1>. SUFFICES GoodStep(config, 0, step, n + 1)
    OBVIOUS
<1>1. /\ h \in VadStates /\ ~h.active /\ h.frames = <<>>
      /\ EndsAt(h.history, n + 1) /\ Len(h.history) \in Nat \ {0}
      /\ Fits(config, Len(h.history))
      /\ h.count <= Len(h.history) /\ h.count <= config.startFrames
      /\ h.count > 0 => h.start = (n + 1) - h.count + 1
    BY CandidateRun
<1>2. step = IF h.count < config.startFrames THEN [vad |-> h, events |-> <<>>]
             ELSE IF LimitReached(b)
             THEN [vad |-> Quiet, events |-> <<Started, Ended(b, LimitReason(b))>>]
             ELSE [vad |-> b, events |-> <<Started>>]
    BY DEF ProcessIdle
<1>. HIDE DEF h, step
<1>3. n + 1 \in Nat
    OBVIOUS
<1>4. h.count \in Nat /\ h.start \in Nat /\ h.history \in Seq(Nat) /\ config.startFrames \in Nat \ {0}
    BY <1>1, ConfigTyped DEF VadStates
<1>5. CASE h.count < config.startFrames
    <2>1. GoodIdle(config, h, n + 1)
        <3>1. h.count > 0 => h.start = (n + 1) - h.count + 1
            BY <1>1, Zenon
        <3>. QED
            <4>1. h \in VadStates /\ ~h.active /\ h.frames = <<>>
                BY <1>1
            <4>2. EndsAt(h.history, n + 1) /\ Fits(config, Len(h.history))
                BY <1>1
            <4>3. h.count <= Len(h.history) /\ h.count < config.startFrames
                BY <1>1, <1>5
            <4>. QED
                BY <4>1, <4>2, <4>3, <3>1 DEF GoodIdle
    <2>2. step = [vad |-> h, events |-> <<>>] /\ <<>> \in Seq(Events(config))
        BY <1>2, <1>5
    <2>3. Alternate(0, <<>>, Active(h)) /\ GoodVad(config, h, n + 1)
        BY <2>1, NoEvents, GoodVadActive
    <2>. QED
        BY <2>2, <2>3, StepGood
<1>6. CASE h.count >= config.startFrames
    <2>1. GoodActive(config, b, n + 1)
        <3>1. b \in VadStates
            BY <1>1, <1>4, QuietIdle, FlagValues DEF Begin, Quiet, VadStates
        <3>2. /\ b.active /\ b.history = <<>> /\ b.frames = h.history /\ b.speechStart = h.start
              /\ b.silence = 0
            BY DEF Begin, Quiet
        <3>3. (n + 1) - Len(h.history) + 1 <= h.start /\ h.start <= n + 1
            <4>. DEFINE k == Len(h.history)
                        m == h.count
                        s == h.start
            <4>1. m \in Nat /\ s \in Nat /\ k \in Nat /\ m <= k /\ m > 0
                BY <1>1, <1>4, <1>6
            <4>2. s = (n + 1) - m + 1
                BY <1>1, <4>1
            <4>. HIDE DEF k, m, s
            <4>3. (n + 1) - k + 1 <= s /\ s <= n + 1
                BY <4>1, <4>2
            <4>. QED
                BY <4>3 DEF k, s
        <3>4. h.history /= <<>>
            BY <1>1
        <3>5. ~(b.silence > 0)
            BY <3>2
        <3>. HIDE DEF b
        <3>. QED
            BY <1>1, <3>1, <3>2, <3>3, <3>4, <3>5, Zenon DEF GoodActive
    <2>. HIDE DEF b
    <2>2. GoodVad(config, b, n + 1) /\ Active(b) = 1
        BY <2>1, GoodVadActive
    <2>3. CASE LimitReached(b)
        <3>. DEFINE e == Ended(b, LimitReason(b))
        <3>1. e \in Events(config) /\ e.kind = "ended"
            BY <1>3, <2>1, EndedGood, LimitReasons
        <3>2. step = [vad |-> Quiet, events |-> <<Started, e>>]
            BY <1>2, <1>4, <1>6, <2>3
        <3>. HIDE DEF e
        <3>3. <<e>> \in Seq(Events(config)) /\ Alternate(1, <<e>>, 0)
            BY <3>1, OneEvent DEF After
        <3>4. After(Started) = 1 /\ Started.kind /= "ended" /\ Started \in Events(config)
            BY EventKinds DEF After
        <3>5. <<Started>> \o <<e>> \in Seq(Events(config)) /\ Alternate(0, <<Started>> \o <<e>>, 0)
            <4>1. Alternate(After(Started), <<e>>, 0) /\ (Started.kind = "ended" <=> 0 = 1)
                BY <3>3, <3>4
            <4>. QED
                BY <3>3, <3>4, <4>1, FirstEvent
        <3>6. <<Started>> \o <<e>> = <<Started, e>>
            BY TwoEvents
        <3>7. GoodVad(config, Quiet, n + 1) /\ Active(Quiet) = 0
            BY <1>3, QuietIdle, GoodVadActive
        <3>. QED
            BY <3>2, <3>5, <3>6, <3>7, StepGood
    <2>4. CASE ~LimitReached(b)
        <3>1. step = [vad |-> b, events |-> <<Started>>]
            BY <1>2, <1>4, <1>6, <2>4
        <3>2. <<Started>> \in Seq(Events(config)) /\ Alternate(0, <<Started>>, 1)
            BY OneEvent, EventKinds DEF After
        <3>. QED
            BY <2>2, <3>1, <3>2, StepGood
    <2>. QED
        BY <2>3, <2>4
<1>. QED
    BY <1>4, <1>5, <1>6

\* The utterance grows by the frame n + 1.
LEMMA GrownGood ==
    ASSUME config \in Configs, NEW n \in Nat, NEW v, GoodActive(config, v, n), NEW level,
           ~Exceeds(Len(v.frames) + 1)
    PROVE  GoodActive(config, Silence([v EXCEPT !.frames = Append(@, n + 1)], n + 1, level), n + 1)
<1>. DEFINE more == Append(v.frames, n + 1)
            w == [v EXCEPT !.frames = more]
            g == Silence(w, n + 1, level)
<1>. SUFFICES GoodActive(config, g, n + 1)
    OBVIOUS
<1>1. /\ v \in VadStates /\ v.active /\ v.history = <<>> /\ EndsAt(v.frames, n)
      /\ v.frames \in Seq(Nat) /\ Len(v.frames) \in Nat
    BY DEF GoodActive, VadStates
<1>2. /\ v.speechStart \in Nat /\ v.silence \in Nat /\ v.silenceStart \in Nat
      /\ n - Len(v.frames) + 1 <= v.speechStart /\ v.speechStart <= n
      /\ v.silence > 0 => v.speechStart <= v.silenceStart /\ v.silenceStart <= n
    BY DEF GoodActive, VadStates
<1>3. /\ EndsAt(more, n + 1) /\ Len(more) = Len(v.frames) + 1
      /\ more \in Seq(Nat) /\ more /= <<>>
    <2>1. EndsAt(more, n + 1) /\ Len(more) = Len(v.frames) + 1
        BY <1>1, RunAppend
    <2>2. Len(more) > 0
        BY <1>1, <2>1
    <2>. QED
        <3>1. more \in Seq(Nat)
            BY <1>1
        <3>2. more /= <<>>
            BY <2>2, LongRun
        <3>. QED
            BY <2>1, <3>1, <3>2
<1>. HIDE DEF more
<1>4. Fits(config, Len(more))
    BY <1>1, <1>3, ExceedsFits
<1>5. /\ w \in VadStates /\ w.active = v.active /\ w.history = v.history
      /\ w.frames = more /\ w.speechStart = v.speechStart
      /\ w.silence = v.silence /\ w.silenceStart = v.silenceStart
    BY <1>1, <1>3 DEF VadStates
<1>. HIDE DEF w, g
<1>6. ASSUME NEW count \in Nat, NEW start \in Nat,
             g = [w EXCEPT !.silence = count, !.silenceStart = start],
             count > 0 => v.speechStart <= start /\ start <= n + 1
      PROVE  GoodActive(config, g, n + 1)
    <2>1. /\ g \in VadStates /\ g.active = v.active /\ g.history = v.history
          /\ g.frames = more /\ g.speechStart = v.speechStart
          /\ g.silence = count /\ g.silenceStart = start
        BY <1>5, <1>6 DEF VadStates
    <2>2. (n + 1) - Len(more) + 1 <= v.speechStart /\ v.speechStart <= n + 1
        <3>. DEFINE k == Len(v.frames)
                    m == Len(more)
                    s == v.speechStart
        <3>1. k \in Nat /\ m = k + 1 /\ s \in Nat /\ n - k + 1 <= s /\ s <= n
            BY <1>1, <1>2, <1>3
        <3>. HIDE DEF k, m, s
        <3>2. (n + 1) - m + 1 <= s /\ s <= n + 1
            BY <3>1
        <3>. QED
            BY <3>2 DEF m, s
    <2>3. g.silence > 0 => g.speechStart <= g.silenceStart /\ g.silenceStart <= n + 1
        BY <1>6, <2>1
    <2>4. g \in VadStates /\ g.active /\ g.history = <<>>
        BY <1>1, <2>1
    <2>5. g.frames /= <<>> /\ EndsAt(g.frames, n + 1) /\ Fits(config, Len(g.frames))
        BY <1>3, <1>4, <2>1
    <2>6. (n + 1) - Len(g.frames) + 1 <= g.speechStart /\ g.speechStart <= n + 1
        BY <2>1, <2>2
    <2>. QED
        BY <2>3, <2>4, <2>5, <2>6 DEF GoodActive
<1>7. CASE level /= "quiet"
    <2>1. g = [w EXCEPT !.silence = 0, !.silenceStart = 0]
        BY <1>7 DEF g, Silence
    <2>2. 0 \in Nat /\ ~(0 > 0)
        OBVIOUS
    <2>. QED
        BY <1>6, <2>1, <2>2
<1>8. CASE level = "quiet" /\ v.silence = 0
    <2>1. g = [w EXCEPT !.silence = 1, !.silenceStart = n + 1]
        BY <1>5, <1>8 DEF g, Silence
    <2>2. 1 \in Nat /\ n + 1 \in Nat /\ v.speechStart <= n + 1 /\ n + 1 <= n + 1
        BY <1>2
    <2>. QED
        BY <1>6, <2>1, <2>2
<1>9. CASE level = "quiet" /\ v.silence /= 0
    <2>1. g = [w EXCEPT !.silence = v.silence + 1, !.silenceStart = v.silenceStart]
        BY <1>5, <1>9 DEF g, Silence
    <2>2. v.silence + 1 \in Nat /\ v.speechStart <= v.silenceStart /\ v.silenceStart <= n + 1
        BY <1>2, <1>9
    <2>. QED
        BY <1>2, <1>6, <2>1, <2>2
<1>. QED
    BY <1>7, <1>8, <1>9

LEMMA ActiveGood ==
    ASSUME config \in Configs, NEW n \in Nat, NEW v, GoodActive(config, v, n), NEW level
    PROVE  GoodStep(config, 1, ProcessActive(v, n + 1, level), n + 1)
<1>. DEFINE g == Silence([v EXCEPT !.frames = Append(@, n + 1)], n + 1, level)
            idle == ProcessIdle(Quiet, n + 1, level)
            step == ProcessActive(v, n + 1, level)
<1>. SUFFICES GoodStep(config, 1, step, n + 1)
    OBVIOUS
<1>1. step = IF Exceeds(Len(v.frames) + 1)
             THEN [vad |-> idle.vad, events |-> <<Ended(v, ExceededReason(v))>> \o idle.events]
             ELSE IF LimitReached(g) THEN Finish(g, LimitReason(g))
             ELSE IF g.silence >= config.endFrames THEN Finish(g, "silence")
             ELSE [vad |-> g, events |-> <<>>]
    BY DEF ProcessActive
<1>2. n + 1 \in Nat /\ config.endFrames \in Nat \ {0}
    BY ConfigTyped
<1>3. GoodStep(config, 0, idle, n + 1)
    BY QuietIdle, IdleGood
<1>4. ~Exceeds(Len(v.frames) + 1) => GoodActive(config, g, n + 1)
    BY GrownGood
<1>. HIDE DEF step, idle, g
<1>5. CASE Exceeds(Len(v.frames) + 1)
    <2>. DEFINE e == Ended(v, ExceededReason(v))
    <2>1. e \in Events(config) /\ e.kind = "ended"
        BY EndedGood, LimitReasons
    <2>2. step = [vad |-> idle.vad, events |-> <<e>> \o idle.events]
        BY <1>1, <1>5
    <2>. HIDE DEF e
    <2>3. After(e) = 0
        BY <2>1 DEF After
    <2>4. /\ GoodVad(config, idle.vad, n + 1) /\ idle.events \in Seq(Events(config))
          /\ Alternate(0, idle.events, Active(idle.vad))
        BY <1>3 DEF GoodStep
    <2>5. /\ <<e>> \o idle.events \in Seq(Events(config))
          /\ Alternate(1, <<e>> \o idle.events, Active(idle.vad))
        BY <2>1, <2>3, <2>4, FirstEvent
    <2>. QED
        BY <2>2, <2>4, <2>5, StepGood
<1>6. CASE ~Exceeds(Len(v.frames) + 1)
    <2>1. GoodActive(config, g, n + 1) /\ GoodVad(config, g, n + 1) /\ Active(g) = 1
        BY <1>4, <1>6, GoodVadActive
    <2>2. CASE LimitReached(g)
        <3>1. step = Finish(g, LimitReason(g))
            BY <1>1, <1>6, <2>2
        <3>. QED
            BY <1>2, <2>1, <3>1, FinishGood, LimitReasons
    <2>3. CASE ~LimitReached(g) /\ g.silence >= config.endFrames
        <3>1. g.silence \in Nat
            BY <2>1 DEF GoodActive, VadStates
        <3>2. g.silence > 0
            BY <1>2, <2>3, <3>1
        <3>3. step = Finish(g, "silence") /\ "silence" \in Reasons
            BY <1>1, <1>6, <2>3 DEF Reasons
        <3>. QED
            BY <1>2, <2>1, <3>2, <3>3, FinishGood
    <2>4. CASE ~LimitReached(g) /\ ~(g.silence >= config.endFrames)
        <3>1. step = [vad |-> g, events |-> <<>>] /\ <<>> \in Seq(Events(config))
            BY <1>1, <1>6, <2>4
        <3>. QED
            BY <2>1, <3>1, NoEvents, StepGood
    <2>. QED
        BY <2>2, <2>3, <2>4
<1>. QED
    BY <1>5, <1>6

LEMMA ProcessGood ==
    ASSUME config \in Configs, NEW n \in Nat, NEW v, GoodVad(config, v, n), NEW level
    PROVE  GoodStep(config, Active(v), Process(v, n + 1, level), n + 1)
<1>1. CASE GoodIdle(config, v, n)
    <2>1. Process(v, n + 1, level) = ProcessIdle(v, n + 1, level)
        BY <1>1 DEF Process, GoodIdle
    <2>. QED
        BY <1>1, <2>1, IdleGood, GoodVadActive
<1>2. CASE GoodActive(config, v, n)
    <2>1. Process(v, n + 1, level) = ProcessActive(v, n + 1, level)
        BY <1>2 DEF Process, GoodActive
    <2>. QED
        BY <1>2, <2>1, ActiveGood, GoodVadActive
<1>. QED
    BY <1>1, <1>2 DEF GoodVad

-----------------------------------------------------------------------------
(* The steps of the coordinator                                              *)

WsStates(c) == [pc : {"receive", "sink", "events", "done"}, todo : Seq(Events(c))]

\* The events left to handle take the coordinator from what it hears to what the detector does.
EventsInOrder ==
    /\ ws \in WsStates(config) /\ (ws.pc \in {"receive", "done"} => ws.todo = <<>>)
    /\ Alternate(Speaking, ws.todo, Active(vad))

\* What is left of CaptureInOrder.
DetectorInOrder ==
    /\ config \in Configs /\ heard \in Nat
    /\ GoodVad(config, vad, heard) /\ (~stream => vad = Quiet)
    /\ utterance \in GoodUtterances(config)

EpochInOrder == epoch \in Nat /\ speaking \in {0, epoch}

LEMMA CaptureParts == CaptureInOrder <=> DetectorInOrder /\ EventsInOrder /\ EpochInOrder
BY DEF CaptureInOrder, DetectorInOrder, EventsInOrder, EpochInOrder, WsStates

LEMMA CapturePartsNext ==
    DetectorInOrder' /\ EventsInOrder' /\ EpochInOrder' => CaptureInOrder'
BY DEF CaptureInOrder, DetectorInOrder, EventsInOrder, EpochInOrder, WsStates

LEMMA SilentSpeaking == Speaking \in {0, 1} /\ (Speaking = 1 <=> speaking /= 0)
BY DEF Speaking

LEMMA NoUtteranceGood ==
    ASSUME NEW c \in Configs
    PROVE  NoUtterance \in GoodUtterances(c)
<1>. DEFINE q == <<1>>
<1>1. q \in Seq(Nat) /\ Len(q) = 1 /\ q[1] = 1 /\ q /= <<>>
    OBVIOUS
<1>2. NoUtterance \in Utterances /\ NoUtterance.frames = q /\ NoUtterance.start = 1
      /\ NoUtterance.end = 1
    BY <1>1 DEF NoUtterance, Utterances, Reasons
<1>. HIDE DEF q
<1>3. EndsAt(q, 1) /\ Last(q) = 1
    BY <1>1 DEF EndsAt, Last
<1>4. Fits(c, Len(q))
    BY <1>1, ConfigTyped
<1>5. EndsAt(q, Last(q)) /\ Last(q) - Len(q) + 1 <= 1 /\ 1 <= 1 /\ 1 <= Last(q) + 1
    BY <1>1, <1>3
<1>. QED
    BY <1>1, <1>2, <1>4, <1>5 DEF GoodUtterances

LEMMA NothingToHandle ==
    ASSUME NEW c, NEW pc \in {"receive", "sink", "events", "done"}
    PROVE  [pc |-> pc, todo |-> <<>>] \in WsStates(c)
BY DEF WsStates

LEMMA InitUtterance == Init => UtteranceInv
<1>. SUFFICES ASSUME Init PROVE UtteranceInv
    OBVIOUS
<1>1. config \in Configs /\ vad = Quiet /\ heard = 0 /\ utterance = NoUtterance /\ heard \in Nat
    BY DEF Init
<1>2. DetectorInOrder /\ Active(vad) = 0
    BY <1>1, QuietIdle, GoodVadActive, NoUtteranceGood DEF DetectorInOrder
<1>3. Speaking = 0 /\ EpochInOrder
    BY DEF Init, Speaking, EpochInOrder
<1>4. ws \in WsStates(config) /\ ws.todo = <<>>
    BY NothingToHandle DEF Init
<1>5. EventsInOrder
    BY <1>2, <1>3, <1>4, NoEvents DEF EventsInOrder
<1>6. QueueInOrder
    BY PendingAssumption DEF Init, QueueInOrder
<1>. QED
    BY <1>2, <1>3, <1>5, <1>6, CaptureParts DEF UtteranceInv

LEMMA QueueKept ==
    ASSUME QueueInOrder, UNCHANGED <<queue, epoch, speaking>>
    PROVE  QueueInOrder'
BY DEF QueueInOrder

\* A shorter queue, or none, is still in order.
LEMMA QueueShrinks ==
    ASSUME QueueInOrder, queue /= <<>>, queue' = Tail(queue), UNCHANGED <<epoch, speaking>>
    PROVE  QueueInOrder'
<1>1. /\ queue \in Seq(Nat) /\ Len(queue) \in Nat /\ Len(queue) <= MaxPending
      /\ queue' \in Seq(Nat) /\ Len(queue') = Len(queue) - 1
      /\ \A i \in 1..Len(queue') : queue'[i] = queue[i + 1] /\ i + 1 \in 1..Len(queue)
    BY DEF QueueInOrder
<1>2. Len(queue') <= MaxPending
    BY <1>1, PendingAssumption
<1>3. ASSUME NEW i \in 1..Len(queue'), NEW j \in 1..Len(queue'), i < j
      PROVE  queue'[i] < queue'[j]
    BY <1>1, <1>3 DEF QueueInOrder
<1>4. ASSUME NEW i \in 1..Len(queue')
      PROVE  queue'[i] <= epoch' /\ (speaking' /= 0 => queue'[i] < speaking')
    BY <1>1 DEF QueueInOrder
<1>. QED
    BY <1>1, <1>2, <1>3, <1>4 DEF QueueInOrder

LEMMA CaptureKept ==
    ASSUME CaptureInOrder, UNCHANGED <<config, heard, epoch, speaking, vad, stream, utterance, ws>>
    PROVE  CaptureInOrder'
BY DEF CaptureInOrder, Speaking

\* The first event is handled.
LEMMA EventTaken ==
    ASSUME CaptureInOrder, ws.todo /= <<>>, NEW pc \in {"sink", "events"}, NextEvent(pc)
    PROVE  /\ Event \in Events(config) /\ (Event.kind = "ended" <=> speaking /= 0)
           /\ ws' \in WsStates(config) /\ ws'.pc = pc
           /\ Alternate(After(Event), ws'.todo, Active(vad))
<1>1. ws.todo \in Seq(Events(config)) /\ Alternate(Speaking, ws.todo, Active(vad))
    BY DEF CaptureInOrder
<1>2. Event \in Events(config) /\ Tail(ws.todo) \in Seq(Events(config))
    BY <1>1 DEF Event
<1>3. ws' \in WsStates(config) /\ ws'.pc = pc /\ ws'.todo = Tail(ws.todo)
    BY <1>2 DEF NextEvent, WsStates
<1>4. (Event.kind = "ended" <=> Speaking = 1) /\ Alternate(After(Event), Tail(ws.todo), Active(vad))
    BY <1>1, EventHandled DEF Event
<1>. QED
    BY <1>2, <1>3, <1>4, SilentSpeaking

\* A new stream finds the detector quiet, and nothing to handle.
LEMMA StartStreamKeeps == UtteranceInv /\ StartStream => UtteranceInv'
<1>. SUFFICES ASSUME UtteranceInv, StartStream PROVE UtteranceInv'
    OBVIOUS
<1>1. DetectorInOrder /\ EventsInOrder /\ EpochInOrder
    BY CaptureParts DEF UtteranceInv
<1>2. /\ UNCHANGED <<config, heard, utterance, epoch, speaking, queue>> /\ vad' = vad
      /\ ws.todo = <<>> /\ ws' = [pc |-> "sink", todo |-> <<>>] /\ vad' = Quiet
    BY <1>1 DEF StartStream, EventsInOrder, DetectorInOrder
<1>3. DetectorInOrder'
    BY <1>1, <1>2 DEF DetectorInOrder
<1>4. ws' \in WsStates(config') /\ ws'.todo = ws.todo /\ ws'.pc = "sink"
    BY <1>2, NothingToHandle
<1>5. EventsInOrder'
    BY <1>1, <1>2, <1>4 DEF EventsInOrder, Speaking
<1>6. QueueInOrder' /\ EpochInOrder'
    BY <1>1, <1>2, QueueKept DEF UtteranceInv, EpochInOrder
<1>. QED
    BY <1>3, <1>5, <1>6, CapturePartsNext DEF UtteranceInv

\* Between two frames the coordinator hears what the detector does.
LEMMA NothingLeft ==
    ASSUME EventsInOrder, ws.pc = "receive"
    PROVE  Speaking = Active(vad)
<1>1. Alternate(Speaking, <<>>, Active(vad))
    BY DEF EventsInOrder
<1>. QED
    BY <1>1 DEF Alternate, Hearing

LEMMA FrameKeeps ==
    ASSUME UtteranceInv, NEW level \in Levels, Frame(level)
    PROVE  UtteranceInv'
<1>. DEFINE step == Process(vad, heard + 1, level)
<1>1. DetectorInOrder /\ EventsInOrder /\ EpochInOrder
    BY CaptureParts DEF UtteranceInv
<1>2. /\ UNCHANGED <<config, utterance, epoch, speaking, queue, stream>> /\ heard' = heard + 1
      /\ vad' = step.vad /\ ws' = [pc |-> "events", todo |-> step.events] /\ stream
      /\ ws.pc = "receive"
    BY DEF Frame
<1>3. Speaking = Active(vad)
    BY <1>1, <1>2, NothingLeft
<1>4. GoodStep(config, Speaking, step, heard + 1)
    BY <1>1, <1>3, ProcessGood DEF DetectorInOrder
<1>. HIDE DEF step
<1>5. DetectorInOrder'
    BY <1>1, <1>2, <1>4 DEF DetectorInOrder, GoodStep
<1>6. /\ step.events \in Seq(Events(config))
      /\ Alternate(Speaking, step.events, Active(step.vad))
    BY <1>4 DEF GoodStep
<1>7. ws' \in WsStates(config) /\ ws'.pc = "events" /\ ws'.todo = step.events
    BY <1>2, <1>6 DEF WsStates
<1>8. EventsInOrder'
    BY <1>2, <1>6, <1>7 DEF EventsInOrder, Speaking
<1>9. QueueInOrder' /\ EpochInOrder'
    BY <1>1, <1>2, QueueKept DEF UtteranceInv, EpochInOrder
<1>. QED
    BY <1>5, <1>8, <1>9, CapturePartsNext DEF UtteranceInv

\* An utterance still active ends with the stream.
LEMMA FinishedEvents ==
    ASSUME DetectorInOrder
    PROVE  LET todo == Append(FinishStream(vad), Stopped)
           IN  todo \in Seq(Events(config)) /\ Alternate(Active(vad), todo, 0)
<1>. DEFINE last == <<Stopped>>
<1>1. last \in Seq(Events(config)) /\ Alternate(0, last, 0)
    BY OneEvent, EventKinds DEF After
<1>2. CASE vad.active
    <2>. DEFINE e == Ended(vad, "stream_ended")
    <2>1. GoodActive(config, vad, heard)
        BY <1>2 DEF DetectorInOrder, GoodVad, GoodIdle
    <2>2. "stream_ended" \in Reasons
        BY DEF Reasons
    <2>3. e \in Events(config) /\ e.kind = "ended"
        BY <2>1, <2>2, EndedGood DEF DetectorInOrder
    <2>4. FinishStream(vad) = <<e>> /\ Active(vad) = 1
        BY <1>2 DEF FinishStream, Active
    <2>. HIDE DEF e, last
    <2>5. After(e) = 0 /\ (e.kind = "ended" <=> 1 = 1)
        BY <2>3 DEF After
    <2>6. Alternate(After(e), last, 0)
        BY <1>1, <2>5
    <2>7. <<e>> \o last \in Seq(Events(config)) /\ Alternate(1, <<e>> \o last, 0)
        BY <1>1, <2>3, <2>5, <2>6, FirstEvent
    <2>8. <<e>> \o last = <<e, Stopped>> /\ Append(<<e>>, Stopped) = <<e, Stopped>>
        BY TwoEvents, Appended DEF last
    <2>. QED
        BY <2>4, <2>7, <2>8
<1>3. CASE ~vad.active
    <2>1. FinishStream(vad) = <<>> /\ Active(vad) = 0
        BY <1>3 DEF FinishStream, Active
    <2>2. Append(<<>>, Stopped) = last
        BY Appended
    <2>. QED
        BY <1>1, <2>1, <2>2
<1>. QED
    BY <1>2, <1>3

LEMMA StopStreamKeeps == UtteranceInv /\ StopStream => UtteranceInv'
<1>. SUFFICES ASSUME UtteranceInv, StopStream PROVE UtteranceInv'
    OBVIOUS
<1>. DEFINE todo == Append(FinishStream(vad), Stopped)
<1>1. DetectorInOrder /\ EventsInOrder /\ EpochInOrder
    BY CaptureParts DEF UtteranceInv
<1>2. /\ UNCHANGED <<config, heard, utterance, epoch, speaking, queue>> /\ vad' = Quiet
      /\ ws' = [pc |-> "events", todo |-> todo] /\ ws.pc = "receive"
    BY DEF StopStream
<1>3. todo \in Seq(Events(config)) /\ Alternate(Active(vad), todo, 0)
    BY <1>1, FinishedEvents
<1>. HIDE DEF todo
<1>4. GoodVad(config, Quiet, heard) /\ Active(Quiet) = 0
    BY <1>1, QuietIdle, GoodVadActive DEF DetectorInOrder
<1>5. DetectorInOrder'
    BY <1>1, <1>2, <1>4 DEF DetectorInOrder
<1>6. ws' \in WsStates(config) /\ ws'.pc = "events" /\ ws'.todo = todo
    BY <1>2, <1>3 DEF WsStates
<1>7. Speaking = Active(vad)
    BY <1>1, <1>2, NothingLeft
<1>8. EventsInOrder'
    BY <1>2, <1>3, <1>4, <1>6, <1>7 DEF EventsInOrder, Speaking
<1>9. QueueInOrder' /\ EpochInOrder'
    BY <1>1, <1>2, QueueKept DEF UtteranceInv, EpochInOrder
<1>. QED
    BY <1>5, <1>8, <1>9, CapturePartsNext DEF UtteranceInv

LEMMA CloseKeeps == UtteranceInv /\ Close => UtteranceInv'
<1>. SUFFICES ASSUME UtteranceInv, Close PROVE UtteranceInv'
    OBVIOUS
<1>1. DetectorInOrder /\ EpochInOrder
    BY CaptureParts DEF UtteranceInv
<1>2. /\ UNCHANGED <<config, heard, utterance, epoch>> /\ vad' = Quiet /\ speaking' = 0
      /\ queue' = <<>> /\ ws' = [pc |-> "done", todo |-> <<>>]
    BY DEF Close
<1>3. GoodVad(config, Quiet, heard) /\ Active(Quiet) = 0
    BY <1>1, QuietIdle, GoodVadActive DEF DetectorInOrder
<1>4. DetectorInOrder' /\ EpochInOrder'
    BY <1>1, <1>2, <1>3 DEF DetectorInOrder, EpochInOrder
<1>5. ws' \in WsStates(config') /\ ws'.todo = <<>> /\ Speaking' = 0
    BY <1>2, NothingToHandle DEF Speaking
<1>6. EventsInOrder'
    BY <1>2, <1>3, <1>5, NoEvents DEF EventsInOrder
<1>7. QueueInOrder'
    BY <1>2, PendingAssumption DEF QueueInOrder
<1>. QED
    BY <1>4, <1>6, <1>7, CapturePartsNext DEF UtteranceInv

\* New speech is newer than every utterance queued.
LEMMA HandleStartedKeeps == UtteranceInv /\ HandleStarted => UtteranceInv'
<1>. SUFFICES ASSUME UtteranceInv, HandleStarted PROVE UtteranceInv'
    OBVIOUS
<1>1. DetectorInOrder /\ EventsInOrder /\ EpochInOrder /\ CaptureInOrder /\ QueueInOrder
    BY CaptureParts DEF UtteranceInv
<1>2. /\ UNCHANGED <<config, stream, vad, heard, utterance, queue>> /\ NextEvent("sink")
      /\ epoch' = epoch + 1 /\ speaking' = epoch + 1 /\ Event.kind = "started" /\ ws.todo /= <<>>
    BY DEF HandleStarted, captureVars
<1>3. /\ ws' \in WsStates(config) /\ ws'.pc = "sink"
      /\ Alternate(After(Event), ws'.todo, Active(vad))
    BY <1>1, <1>2, EventTaken
<1>4. epoch \in Nat /\ epoch' \in Nat /\ EpochInOrder' /\ speaking' /= 0
    BY <1>1, <1>2 DEF EpochInOrder
<1>5. After(Event) = 1 /\ Speaking' = 1
    BY <1>2, <1>4 DEF After, Speaking
<1>6. EventsInOrder' /\ DetectorInOrder'
    BY <1>1, <1>2, <1>3, <1>5 DEF EventsInOrder, DetectorInOrder
<1>7. ASSUME NEW i \in 1..Len(queue) PROVE queue[i] <= epoch + 1 /\ queue[i] < epoch + 1
    <2>1. queue[i] \in Nat /\ queue[i] <= epoch
        BY <1>1, ElementOfSeq DEF QueueInOrder
    <2>. QED
        BY <1>4, <2>1
<1>8. QueueInOrder'
    BY <1>1, <1>2, <1>7 DEF QueueInOrder
<1>. QED
    BY <1>4, <1>6, <1>8, CapturePartsNext DEF UtteranceInv

\* Speech ends: its utterance is the one the detector built.
LEMMA SpeechEnds ==
    ASSUME CaptureInOrder, ws.todo /= <<>>, Event.kind = "ended", NEW pc \in {"sink", "events"},
           NextEvent(pc), speaking' = 0, utterance' = Event.utterance,
           UNCHANGED <<config, stream, vad, heard, epoch>>
    PROVE  CaptureInOrder'
<1>1. DetectorInOrder /\ EventsInOrder /\ EpochInOrder
    BY CaptureParts
<1>2. /\ ws' \in WsStates(config) /\ ws'.pc = pc /\ Event \in Events(config)
      /\ Alternate(After(Event), ws'.todo, Active(vad))
    BY EventTaken
<1>3. Event.utterance \in GoodUtterances(config)
    BY <1>2, EventKinds
<1>4. After(Event) = 0 /\ Speaking' = 0
    BY DEF After, Speaking
<1>5. DetectorInOrder' /\ EpochInOrder'
    BY <1>1, <1>3 DEF DetectorInOrder, EpochInOrder
<1>6. EventsInOrder'
    BY <1>2, <1>4 DEF EventsInOrder
<1>. QED
    BY <1>5, <1>6, CapturePartsNext

LEMMA HandleEndedKeeps == UtteranceInv /\ HandleEnded => UtteranceInv'
<1>. SUFFICES ASSUME UtteranceInv, HandleEnded PROVE UtteranceInv'
    OBVIOUS
<1>1. EpochInOrder /\ CaptureInOrder /\ QueueInOrder
    BY CaptureParts DEF UtteranceInv
<1>2. /\ UNCHANGED <<config, stream, vad, heard, epoch>> /\ NextEvent("events")
      /\ speaking' = 0 /\ utterance' = Event.utterance /\ Event.kind = "ended" /\ ws.todo /= <<>>
      /\ queue' = Append(queue, speaking) /\ speaking /= 0 /\ Len(queue) < MaxPending
    BY DEF HandleEnded
<1>3. CaptureInOrder'
    BY <1>1, <1>2, SpeechEnds
<1>4. speaking = epoch /\ epoch \in Nat /\ speaking' = 0 /\ epoch' = epoch /\ speaking /= 0
    BY <1>1, <1>2 DEF EpochInOrder
<1>5. /\ queue \in Seq(Nat) /\ Len(queue) \in Nat
      /\ queue' \in Seq(Nat) /\ Len(queue') = Len(queue) + 1
      /\ queue'[Len(queue) + 1] = speaking /\ \A i \in 1..Len(queue) : queue'[i] = queue[i]
    BY <1>1, <1>2, <1>4 DEF QueueInOrder
<1>6. \A i \in 1..Len(queue) : queue[i] <= epoch /\ queue[i] < speaking
    BY <1>1, <1>4 DEF QueueInOrder
<1>7. Len(queue') <= MaxPending
    BY <1>2, <1>5, PendingAssumption
<1>8. ASSUME NEW i \in 1..Len(queue') PROVE queue'[i] <= epoch'
    <2>1. CASE i \in 1..Len(queue)
        BY <1>4, <1>5, <1>6, <2>1
    <2>2. CASE i = Len(queue) + 1
        BY <1>4, <1>5, <2>2
    <2>. QED
        BY <1>5, <2>1, <2>2
<1>9. ASSUME NEW i \in 1..Len(queue'), NEW j \in 1..Len(queue'), i < j
      PROVE  queue'[i] < queue'[j]
    <2>1. i \in 1..Len(queue)
        BY <1>5, <1>9
    <2>2. CASE j \in 1..Len(queue)
        BY <1>1, <1>5, <1>9, <2>1, <2>2 DEF QueueInOrder
    <2>3. CASE j = Len(queue) + 1
        BY <1>5, <1>6, <2>1, <2>3
    <2>. QED
        BY <1>5, <2>2, <2>3
<1>10. QueueInOrder'
    BY <1>4, <1>5, <1>7, <1>8, <1>9 DEF QueueInOrder
<1>. QED
    BY <1>3, <1>10 DEF UtteranceInv

LEMMA HandleBackpressureKeeps == UtteranceInv /\ HandleBackpressure => UtteranceInv'
<1>. SUFFICES ASSUME UtteranceInv, HandleBackpressure PROVE UtteranceInv'
    OBVIOUS
<1>1. CaptureInOrder'
    BY SpeechEnds DEF HandleBackpressure, UtteranceInv
<1>2. QueueInOrder'
    BY DEF HandleBackpressure, UtteranceInv, QueueInOrder
<1>. QED
    BY <1>1, <1>2 DEF UtteranceInv

LEMMA HandleStoppedKeeps == UtteranceInv /\ HandleStopped => UtteranceInv'
<1>. SUFFICES ASSUME UtteranceInv, HandleStopped PROVE UtteranceInv'
    OBVIOUS
<1>1. DetectorInOrder /\ EventsInOrder /\ EpochInOrder /\ CaptureInOrder /\ QueueInOrder
    BY CaptureParts DEF UtteranceInv
<1>2. /\ UNCHANGED <<config, stream, vad, heard, utterance, queue, epoch, speaking>>
      /\ NextEvent("sink") /\ Event.kind = "stopped" /\ ws.todo /= <<>>
    BY DEF HandleStopped, captureVars
<1>3. /\ ws' \in WsStates(config) /\ ws'.pc = "sink" /\ (Event.kind = "ended" <=> speaking /= 0)
      /\ Alternate(After(Event), ws'.todo, Active(vad))
    BY <1>1, <1>2, EventTaken
<1>4. After(Event) = 0 /\ Speaking' = 0
    BY <1>2, <1>3 DEF After, Speaking
<1>5. EventsInOrder' /\ DetectorInOrder' /\ EpochInOrder'
    BY <1>1, <1>2, <1>3, <1>4 DEF EventsInOrder, DetectorInOrder, EpochInOrder
<1>. QED
    BY <1>1, <1>2, <1>5, QueueKept, CapturePartsNext DEF UtteranceInv

\* The sink returns, or the events are all handled.
LEMMA WaitingKeeps == UtteranceInv /\ (SinkReturns \/ EventsDone) => UtteranceInv'
<1>. SUFFICES ASSUME UtteranceInv, SinkReturns \/ EventsDone PROVE UtteranceInv'
    OBVIOUS
<1>1. DetectorInOrder /\ EventsInOrder /\ EpochInOrder /\ QueueInOrder
    BY CaptureParts DEF UtteranceInv
<1>2. UNCHANGED <<config, stream, vad, heard, utterance, queue, epoch, speaking>>
    BY DEF SinkReturns, EventsDone, captureVars
<1>3. /\ ws' \in WsStates(config) /\ ws'.todo = ws.todo
      /\ ws'.pc \in {"receive", "done"} => ws'.todo = <<>>
    BY <1>1 DEF SinkReturns, EventsDone, EventsInOrder, WsStates
<1>4. EventsInOrder' /\ DetectorInOrder' /\ EpochInOrder'
    BY <1>1, <1>2, <1>3 DEF EventsInOrder, DetectorInOrder, EpochInOrder, Speaking
<1>. QED
    BY <1>1, <1>2, <1>4, QueueKept, CapturePartsNext DEF UtteranceInv

LEMMA WorkKeeps == UtteranceInv /\ Work => UtteranceInv'
<1>. SUFFICES ASSUME UtteranceInv, Work PROVE UtteranceInv'
    OBVIOUS
<1>1. UNCHANGED <<config, heard, epoch, speaking, vad, stream, utterance, ws>>
    BY DEF Work, WorkerStarts, WorkerSkips, WorkerResumes, WorkerReports, workerUnchanged,
       captureVars
<1>2. UNCHANGED queue \/ (queue /= <<>> /\ queue' = Tail(queue))
    BY DEF Work, WorkerStarts, WorkerSkips, WorkerResumes, WorkerReports
<1>. QED
    BY <1>1, <1>2, CaptureKept, QueueKept, QueueShrinks DEF UtteranceInv

\* The recognition and the session's own steps leave the capture alone.
LEMMA RecognizeKeeps ==
    UtteranceInv /\ (Recognize \/ ForegroundCommand \/ SessionEnds \/ UNCHANGED vars)
    => UtteranceInv'
<1>. SUFFICES ASSUME UtteranceInv, Recognize \/ ForegroundCommand \/ SessionEnds \/ UNCHANGED vars
              PROVE  UtteranceInv'
    OBVIOUS
<1>1. UNCHANGED <<config, heard, epoch, speaking, vad, stream, utterance, ws, queue>>
    BY DEF Recognize, RecognitionStarts, PartialReturns, AsrFinal, AsrEnds, RecognitionFails,
       FinalSubmitted, FinalCancelled, FinalReturns, RecognitionCancelled, AsrPartial,
       recognitionUnchanged, ForegroundCommand, SessionEnds, captureVars, vars
<1>. QED
    BY <1>1, CaptureKept, QueueKept DEF UtteranceInv

LEMMA NextUtterance == UtteranceInv /\ [Next]_vars => UtteranceInv'
BY StartStreamKeeps, FrameKeeps, StopStreamKeeps, CloseKeeps, HandleStartedKeeps, HandleEndedKeeps,
   HandleBackpressureKeeps, HandleStoppedKeeps, WaitingKeeps, WorkKeeps, RecognizeKeeps
   DEF Next, Capture, Finished

\* The frames of an utterance, of one being captured, or of the history.
LEMMA RunWellFormed ==
    ASSUME config \in Configs, NEW n \in Nat, NEW q, EndsAt(q, n), Fits(config, Len(q))
    PROVE  /\ Bytes(q) <= config.maxBytes /\ Duration(q) <= config.maxDuration
           /\ \A i \in 1..(Len(q) - 1) : q[i + 1] = q[i] + 1
<1>1. Bytes(q) <= config.maxBytes /\ Duration(q) <= config.maxDuration
    BY DEF Fits, Bytes, Duration
<1>2. ASSUME NEW i \in 1..(Len(q) - 1) PROVE q[i + 1] = q[i] + 1
    <2>1. Len(q) \in Nat
        BY DEF EndsAt
    <2>2. i \in 1..Len(q) /\ i + 1 \in 1..Len(q)
        BY <2>1
    <2>3. q[i] = n - Len(q) + i /\ q[i + 1] = n - Len(q) + (i + 1)
        BY <2>2 DEF EndsAt
    <2>. QED
        BY <2>1, <2>3
<1>. QED
    BY <1>1, <1>2

LEMMA UtteranceAccepted ==
    ASSUME config \in Configs, NEW u \in GoodUtterances(config)
    PROVE  /\ IsPcmUtterance(u) /\ Last(u.frames) \in Nat
           /\ EndsAt(u.frames, Last(u.frames)) /\ Fits(config, Len(u.frames))
<1>. DEFINE q == u.frames
            n == Last(q)
<1>1. /\ q \in Seq(Nat) /\ q /= <<>> /\ EndsAt(q, n) /\ Fits(config, Len(q))
      /\ n - Len(q) + 1 <= u.start /\ u.start <= u.end /\ u.end <= n + 1
    BY DEF GoodUtterances, Utterances
<1>2. n \in Nat
    BY <1>1 DEF Last
<1>. HIDE DEF n
<1>3. Head(q) = n - Len(q) + 1 /\ DOMAIN q = 1..Len(q) /\ Len(q) \in Nat
    <2>1. DOMAIN q = 1..Len(q) /\ Len(q) \in Nat
        BY <1>1, LenProperties
    <2>2. Head(q) = n - Len(q) + 1
        BY <1>1, <1>2, RunEnds
    <2>. QED
        BY <2>1, <2>2
<1>4. ASSUME NEW i \in DOMAIN q, NEW j \in DOMAIN q, i < j
      PROVE  q[i] < q[j]
    <2>1. q[i] = n - Len(q) + i /\ q[j] = n - Len(q) + j
        BY <1>1, <1>3 DEF EndsAt
    <2>. QED
        BY <1>2, <1>3, <1>4, <2>1
<1>. QED
    BY <1>1, <1>2, <1>3, <1>4 DEF IsPcmUtterance, n

LEMMA InvWellFormed == UtteranceInv => UtteranceWellFormed
<1>. SUFFICES ASSUME UtteranceInv PROVE UtteranceWellFormed
    OBVIOUS
<1>1. DetectorInOrder /\ EventsInOrder /\ QueueInOrder
    BY CaptureParts DEF UtteranceInv
<1>2. /\ IsPcmUtterance(utterance) /\ Last(utterance.frames) \in Nat
      /\ EndsAt(utterance.frames, Last(utterance.frames)) /\ Fits(config, Len(utterance.frames))
    BY <1>1, UtteranceAccepted DEF DetectorInOrder
<1>3. ASSUME NEW q \in {vad.frames, vad.history} PROVE EndsAt(q, heard) /\ Fits(config, Len(q))
    <2>1. EndsAt(<<>>, heard) /\ Fits(config, Len(<<>>))
        <3>1. 0 <= 1 /\ Len(<<>>) = 0
            OBVIOUS
        <3>2. Fits(config, 0)
            BY <1>1, <3>1, FewerFit, ConfigTyped DEF DetectorInOrder
        <3>. QED
            BY <1>1, <3>1, <3>2, EmptyRun DEF DetectorInOrder
    <2>. QED
        BY <1>1, <1>3, <2>1 DEF DetectorInOrder, GoodVad, GoodIdle, GoodActive
<1>4. \A q \in {utterance.frames, vad.frames, vad.history} :
        /\ Bytes(q) <= config.maxBytes /\ Duration(q) <= config.maxDuration
        /\ \A i \in 1..(Len(q) - 1) : q[i + 1] = q[i] + 1
    BY <1>1, <1>2, <1>3, RunWellFormed DEF DetectorInOrder
<1>5. ws.todo /= <<>> /\ Event.kind = "ended" => speaking /= 0
    BY <1>1, EventHandled, SilentSpeaking DEF EventsInOrder, Event, WsStates
<1>6. Len(queue) <= MaxPending /\ \A i, j \in DOMAIN queue : i < j => queue[i] < queue[j]
    BY <1>1 DEF QueueInOrder
<1>. QED
    BY <1>2, <1>4, <1>5, <1>6 DEF UtteranceWellFormed

\* For every configuration EnergyVadConfig accepts and frames of any loudness: each utterance
\* vad.py builds is one PcmUtterance accepts, no buffer loses a frame or outgrows the limits,
\* no speech end of the detector finds voice_input.py without the epoch of its start, and the
\* queue of utterances stays bounded and in the order spoken.
THEOREM UtterancesWellFormed == Spec => []UtteranceWellFormed
<1>1. UtteranceInv /\ [Next]_vars => UtteranceInv'
    BY NextUtterance
<1>. QED
    BY <1>1, InitUtterance, InvWellFormed, PTL DEF Spec
=============================================================================
