---------------------- MODULE ForegroundSessionProofs ----------------------
(* Theorems about module ForegroundSession, for every set of commands,      *)
(* mailbox capacity and number of generations and segments.                 *)
EXTENDS ForegroundSession, SequenceTheorems, TLAPS

----------------------------------------------------------------------------
(* What a removal leaves of a mailbox's queue *)

\* What list.remove/pop of one entry leaves (get and DROP_LOWEST).
LEMMA RemoveAtProperties ==
    ASSUME NEW S, NEW q \in Seq(S), NEW i \in 1 .. Len(q)
    PROVE  /\ RemoveAt(q, i) \in Seq(S)
           /\ Len(RemoveAt(q, i)) = Len(q) - 1
           /\ \A j \in 1 .. Len(q) - 1 : RemoveAt(q, i)[j] = IF j < i THEN q[j] ELSE q[j + 1]
<1> DEFINE front == SubSeq(q, 1, i - 1)
           back == SubSeq(q, i + 1, Len(q))
<1>1. Len(q) \in Nat /\ i - 1 \in Int /\ i + 1 \in Int
  BY LenProperties
<1>2. /\ front \in Seq(S) /\ Len(front) = i - 1
      /\ \A j \in 1 .. i - 1 : front[j] = q[j]
  BY <1>1, SubSeqProperties
<1>3. /\ back \in Seq(S) /\ Len(back) = Len(q) - i
      /\ \A j \in 1 .. Len(q) - i : back[j] = q[i + j]
  BY <1>1, SubSeqProperties
<1>4. /\ front \o back \in Seq(S)
      /\ Len(front \o back) = Len(front) + Len(back)
      /\ \A j \in 1 .. Len(front) + Len(back) :
            (front \o back)[j] = IF j <= Len(front) THEN front[j] ELSE back[j - Len(front)]
  BY <1>2, <1>3, ConcatProperties
<1>5. RemoveAt(q, i) = front \o back
  BY DEF RemoveAt
<1> HIDE DEF front, back
<1>6. ASSUME NEW j \in 1 .. Len(q) - 1
      PROVE  (front \o back)[j] = IF j < i THEN q[j] ELSE q[j + 1]
  <2>1. CASE j < i
    BY <2>1, <1>1, <1>2, <1>3, <1>4
  <2>2. CASE ~(j < i)
    <3>1. j - Len(front) \in 1 .. Len(q) - i /\ j > Len(front)
      BY <2>2, <1>1, <1>2
    <3>2. (front \o back)[j] = back[j - Len(front)]
      BY <3>1, <1>1, <1>2, <1>3, <1>4
    <3> QED BY <3>1, <3>2, <2>2, <1>1, <1>2, <1>3
  <2> QED BY <2>1, <2>2
<1> QED BY <1>1, <1>2, <1>3, <1>4, <1>5, <1>6

\* The entries left are entries that were there.
LEMMA RemoveAtElements ==
    ASSUME NEW S, NEW q \in Seq(S), NEW i \in 1 .. Len(q)
    PROVE  \A j \in 1 .. Len(RemoveAt(q, i)) : \E k \in 1 .. Len(q) : RemoveAt(q, i)[j] = q[k]
<1>1. Len(q) \in Nat
  BY LenProperties
<1>2. /\ Len(RemoveAt(q, i)) = Len(q) - 1
      /\ \A j \in 1 .. Len(q) - 1 : RemoveAt(q, i)[j] = IF j < i THEN q[j] ELSE q[j + 1]
  BY RemoveAtProperties
<1>3. ASSUME NEW j \in 1 .. Len(RemoveAt(q, i))
      PROVE  \E k \in 1 .. Len(q) : RemoveAt(q, i)[j] = q[k]
  <2>1. j \in 1 .. Len(q) /\ j + 1 \in 1 .. Len(q) /\ j \in 1 .. Len(q) - 1
    BY <1>1, <1>2
  <2>2. RemoveAt(q, i)[j] = q[j] \/ RemoveAt(q, i)[j] = q[j + 1]
    BY <1>2, <2>1
  <2> QED BY <2>1, <2>2
<1> QED BY <1>3

----------------------------------------------------------------------------
(* The operators the model is built from *)

LEMMA CommandType ==
    ASSUME NEW kind \in Kinds, NEW g \in Generations
    PROVE  Command(kind, g) \in CommandSet
  BY DEF Command, CommandSet, CommandPriority, Priorities

LEMMA OutputType ==
    ASSUME NEW kind \in OutputKinds, NEW g \in Generations
    PROVE  Output(kind, g) \in OutputSet
  BY DEF Output, OutputSet, OutputPriority, Priorities

LEMMA RepliesType ==
    ASSUME NEW kind \in Kinds
    PROVE  Replies(kind) \in Seq(ReplyKinds) /\ Replies(kind) # <<>>
<1>1. CASE kind = "turn"
  BY <1>1 DEF Replies, ReplyKinds
<1>2. CASE kind = "voice_turn"
  BY <1>2 DEF Replies, ReplyKinds
<1>3. CASE kind = "cancel"
  BY <1>3 DEF Replies, ReplyKinds
<1>4. CASE kind = "barge_in"
  BY <1>4 DEF Replies, ReplyKinds
<1>5. CASE kind = "speech"
  BY <1>5 DEF Replies, ReplyKinds
<1>6. CASE kind = "ping"
  BY <1>6 DEF Replies, ReplyKinds
<1>7. CASE kind \in ReplyKinds
  BY <1>7 DEF Replies, ReplyKinds
<1> QED BY <1>1, <1>2, <1>3, <1>4, <1>5, <1>6, <1>7
        DEF Kinds, ForegroundKinds, WaitingKinds, ReplyKinds

\* A path of legal transitions ends in an interaction state.
LEMMA WalkType ==
    ASSUME interaction \in InteractionStates, illegal \in BOOLEAN, NEW path, Walk(path),
           path \in Seq(InteractionStates)
    PROVE  interaction' \in InteractionStates /\ illegal' \in BOOLEAN
<1>1. illegal' \in BOOLEAN
  BY DEF Walk
<1>2. EndOf(interaction, path) \in InteractionStates
  <2>1. CASE path = <<>>
    BY <2>1 DEF EndOf
  <2>2. CASE path # <<>>
    <3>1. Len(path) \in 1 .. Len(path)
      BY <2>2, EmptySeq
    <3>2. path[Len(path)] \in InteractionStates
      BY <3>1, ElementOfSeq
    <3> QED BY <2>2, <3>2 DEF EndOf
  <2> QED BY <2>1, <2>2
<1> QED BY <1>1, <1>2 DEF Walk

LEMMA PathsType ==
    ASSUME interaction \in InteractionStates, NEW kind
    PROVE  /\ PathOf(kind) \in Seq(InteractionStates)
           /\ FinishTurn(interaction, capturing) \in Seq(InteractionStates)
           /\ <<"DEGRADED">> \in Seq(InteractionStates)
           /\ <<"SPEAKING">> \in Seq(InteractionStates)
           /\ <<>> \in Seq(InteractionStates)
<1> DEFINE S == InteractionStates
<1>1. /\ <<>> \in Seq(S) /\ <<"IDLE">> \in Seq(S) /\ <<"LISTENING">> \in Seq(S)
      /\ <<"PROCESSING">> \in Seq(S) /\ <<"DEGRADED">> \in Seq(S) /\ <<"SPEAKING">> \in Seq(S)
  BY DEF InteractionStates
<1>2. /\ <<"INTERRUPTING", "PROCESSING">> \in Seq(S) /\ <<"IDLE", "PROCESSING">> \in Seq(S)
      /\ <<"INTERRUPTING", "LISTENING">> \in Seq(S) /\ <<"INTERRUPTING", "IDLE">> \in Seq(S)
  BY DEF InteractionStates
<1> HIDE DEF S
<1>3. EnterProcessing(interaction) \in Seq(S) /\ EnterListening(interaction) \in Seq(S)
  BY <1>1, <1>2 DEF EnterProcessing, EnterListening
<1>4. AcceptCancel(interaction, capturing) \in Seq(S)
  BY <1>1, <1>2 DEF AcceptCancel
<1>5. /\ CaptureStarted(interaction) \in Seq(S) /\ CaptureStopped(interaction) \in Seq(S)
      /\ SpeechDetected(interaction) \in Seq(S)
  BY <1>1, <1>3 DEF CaptureStarted, CaptureStopped, SpeechDetected
<1>6. FinishTurn(interaction, capturing) \in Seq(S)
  <2> DEFINE first == IF interaction = "IDLE" THEN <<>> ELSE <<"IDLE">>
             second == IF capturing THEN <<"LISTENING">> ELSE <<>>
  <2>1. first \in Seq(S) /\ second \in Seq(S)
    BY <1>1
  <2> HIDE DEF first, second
  <2>2. first \o second \in Seq(S)
    BY <2>1, ConcatProperties
  <2> QED BY <2>2 DEF FinishTurn, first, second
<1>7. PathOf(kind) \in Seq(S)
  BY <1>1, <1>3, <1>4, <1>5 DEF PathOf
<1> QED BY <1>1, <1>6, <1>7 DEF S

----------------------------------------------------------------------------
(* Publishing and queueing *)

LEMMA AppendCommit ==
    ASSUME NEW q \in Seq(OutputSet), NEW e \in OutputSet
    PROVE  /\ Append(q, e) \in Seq(OutputSet)
           /\ Len(Append(q, e)) = Len(q) + 1
           /\ Append(q, e)[Len(q) + 1] = e
           /\ \A j \in 1 .. Len(q) + 1 : Append(q, e)[j] = IF j = Len(q) + 1 THEN e ELSE q[j]
<1>1. Len(q) \in Nat
  BY LenProperties
<1> QED BY <1>1, AppendProperties

\* What publish_result leaves in the outbox: the entries that were there, less
\* at most one, and at the end a new one of the current generation.
LEMMA PublishEffect ==
    ASSUME TypeOK, NEW kind \in OutputKinds, NEW g \in Generations, Publish(kind, g)
    PROVE  /\ outbox' \in Seq(OutputSet)
           /\ \A j \in 1 .. Len(outbox') :
                outbox'[j].gen = gen \/ \E k \in 1 .. Len(outbox) : outbox'[j] = outbox[k]
<1> DEFINE e == Output(kind, g)
<1>1. outbox \in Seq(OutputSet) /\ Len(outbox) \in Nat /\ DOMAIN outbox = 1 .. Len(outbox)
  BY LenProperties DEF TypeOK
<1>2. e \in OutputSet /\ e.gen = g
  BY OutputType DEF Output
<1> HIDE DEF e
<1>3. CASE Accepts(g) /\ outbox' = Append(outbox, e)
  <2>1. /\ outbox' \in Seq(OutputSet) /\ Len(outbox') = Len(outbox) + 1
        /\ outbox'[Len(outbox) + 1] = e
        /\ \A j \in 1 .. Len(outbox) + 1 :
              outbox'[j] = IF j = Len(outbox) + 1 THEN e ELSE outbox[j]
    BY <1>1, <1>2, <1>3, AppendCommit
  <2>2. ASSUME NEW j \in 1 .. Len(outbox')
        PROVE  outbox'[j].gen = gen \/ \E k \in 1 .. Len(outbox) : outbox'[j] = outbox[k]
    <3>1. CASE j = Len(outbox) + 1
      BY <1>2, <1>3, <2>1, <3>1 DEF Accepts
    <3>2. CASE j # Len(outbox) + 1
      <4>1. j \in 1 .. Len(outbox) /\ outbox'[j] = outbox[j]
        BY <1>1, <2>1, <3>2
      <4> QED BY <4>1
    <3> QED BY <3>1, <3>2
  <2> QED BY <2>1, <2>2
<1>4. ASSUME NEW i \in DOMAIN outbox, Accepts(g), outbox' = Append(RemoveAt(outbox, i), e)
      PROVE  /\ outbox' \in Seq(OutputSet)
             /\ \A j \in 1 .. Len(outbox') :
                  outbox'[j].gen = gen \/ \E k \in 1 .. Len(outbox) : outbox'[j] = outbox[k]
  <2> DEFINE rest == RemoveAt(outbox, i)
  <2>1. /\ rest \in Seq(OutputSet) /\ Len(rest) \in Nat
        /\ \A j \in 1 .. Len(rest) : \E k \in 1 .. Len(outbox) : rest[j] = outbox[k]
    <3>1. i \in 1 .. Len(outbox)
      BY <1>1
    <3>2. rest \in Seq(OutputSet)
      BY <1>1, <3>1, RemoveAtProperties
    <3>3. \A j \in 1 .. Len(rest) : \E k \in 1 .. Len(outbox) : rest[j] = outbox[k]
      BY <1>1, <3>1, RemoveAtElements
    <3> HIDE DEF rest
    <3> QED BY <3>2, <3>3, LenProperties
  <2>2. outbox' = Append(rest, e)
    BY <1>4
  <2> HIDE DEF rest
  <2>3. /\ outbox' \in Seq(OutputSet) /\ Len(outbox') = Len(rest) + 1
        /\ outbox'[Len(rest) + 1] = e
        /\ \A j \in 1 .. Len(rest) + 1 :
              outbox'[j] = IF j = Len(rest) + 1 THEN e ELSE rest[j]
    BY <1>2, <2>1, <2>2, AppendCommit
  <2>4. ASSUME NEW j \in 1 .. Len(outbox')
        PROVE  outbox'[j].gen = gen \/ \E k \in 1 .. Len(outbox) : outbox'[j] = outbox[k]
    <3>1. CASE j = Len(rest) + 1
      BY <1>2, <1>4, <2>3, <3>1 DEF Accepts
    <3>2. CASE j # Len(rest) + 1
      <4>1. j \in 1 .. Len(rest) /\ outbox'[j] = rest[j]
        BY <2>1, <2>3, <3>2
      <4> QED BY <2>1, <4>1
    <3> QED BY <3>1, <3>2
  <2> QED BY <2>3, <2>4
<1>5. CASE outbox' = outbox
  BY <1>1, <1>5
<1> QED BY <1>3, <1>4, <1>5 DEF Publish, e

\* What PriorityMailbox.put leaves in the inbox.
LEMMA PutNowType ==
    ASSUME NEW q \in Seq(CommandSet), NEW capacity, NEW e \in CommandSet, NEW result,
           PutNow(q, capacity, e, result)
    PROVE  result \in Seq(CommandSet)
<1>1. DOMAIN q = 1 .. Len(q)
  BY LenProperties
<1>2. CASE result = Append(q, e)
  BY <1>2, AppendProperties
<1>3. ASSUME NEW i \in DOMAIN q, result = Append(RemoveAt(q, i), e)
      PROVE  result \in Seq(CommandSet)
  <2>1. RemoveAt(q, i) \in Seq(CommandSet)
    BY <1>1, RemoveAtProperties
  <2> QED BY <1>3, <2>1, AppendProperties
<1>4. CASE result = q
  BY <1>4
<1> QED BY <1>2, <1>3, <1>4 DEF PutNow

----------------------------------------------------------------------------
(* Types *)

\* A handler that has not returned has something left to publish.
Handling == handler # None => handler.replies # <<>>

TInv == TypeOK /\ Handling

LEMMA InitType == Init => TInv
<1> SUFFICES ASSUME Init PROVE TInv
  OBVIOUS
<1>1. 0 \in Generations /\ gen \in Generations /\ seen \in Generations
  BY BoundsAssumption DEF Init, Generations
<1>2. Output("ready", 0) \in OutputSet
  BY <1>1, OutputType DEF OutputKinds
<1>3. inbox \in Seq(CommandSet) /\ outbox \in Seq(OutputSet)
  BY <1>2, EmptySeq DEF Init
<1>4. NoTurn \in TurnSet
  BY BoundsAssumption DEF NoTurn, TurnSet
<1>5. pending \in [Submitters -> CommandSet \cup {None}] /\ turn \in [Generations -> TurnSet]
  BY <1>4 DEF Init
<1>6. /\ phase \in {"running", "stopping", "stopped"} /\ interaction \in InteractionStates
      /\ capturing \in BOOLEAN /\ mic \in BOOLEAN /\ heard \in BOOLEAN /\ illegal \in BOOLEAN
      /\ handler = None /\ sending = None
  BY DEF Init, InteractionStates
<1> QED BY <1>1, <1>3, <1>5, <1>6 DEF TInv, TypeOK, Handling

LEMMA StampType ==
    ASSUME TypeOK, NEW kind, AdvanceFor(kind)
    PROVE  Stamp(kind) \in Generations /\ gen' = Stamp(kind) /\ gen <= gen'
  BY BoundsAssumption DEF TypeOK, AdvanceFor, Stamp, Generations

LEMMA SubmissionType ==
    ASSUME TInv, NEW kind \in Commands,
           Submit(kind) \/ SubmitVoice(kind) \/ SubmitTranscript(kind)
    PROVE  TInv'
<1>1. kind \in Kinds /\ AdvanceFor(kind)
  BY CommandsAssumption DEF Submit, SubmitVoice, SubmitTranscript
<1>2. Stamp(kind) \in Generations /\ gen' \in Generations
  BY <1>1, StampType DEF TInv
<1>3. Command(kind, Stamp(kind)) \in CommandSet
  BY <1>1, <1>2, CommandType
<1>4. CASE Submit(kind)
  <2>1. inbox' \in Seq(CommandSet)
    BY <1>3, <1>4, PutNowType DEF Submit, TInv, TypeOK
  <2> QED BY <1>2, <1>4, <2>1 DEF Submit, TInv, TypeOK, Handling, inputs, client
<1>5. CASE SubmitVoice(kind)
  <2>1. pending' \in [Submitters -> CommandSet \cup {None}]
    BY <1>3, <1>5 DEF SubmitVoice, TInv, TypeOK
  <2>2. mic' \in BOOLEAN /\ heard' \in BOOLEAN
    BY <1>5 DEF SubmitVoice, TInv, TypeOK
  <2> QED BY <1>2, <1>5, <2>1, <2>2 DEF SubmitVoice, TInv, TypeOK, Handling, client
<1>6. CASE SubmitTranscript(kind)
  <2>1. pending' \in [Submitters -> CommandSet \cup {None}]
    BY <1>3, <1>6 DEF SubmitTranscript, TInv, TypeOK
  <2> QED BY <1>2, <1>6, <2>1 DEF SubmitTranscript, TInv, TypeOK, Handling, inputs, client
<1> QED BY <1>4, <1>5, <1>6

LEMMA AdmissionType ==
    ASSUME TInv, NEW s \in Submitters, Admit(s) \/ AdmitCancelled(s)
    PROVE  TInv'
<1>1. pending[s] \in CommandSet /\ pending[s] # None
  BY DEF Admit, AdmitCancelled, TInv, TypeOK
<1>2. CASE Admit(s)
  <2>1. inbox' \in Seq(CommandSet)
    BY <1>1, <1>2, AppendProperties DEF Admit, TInv, TypeOK
  <2>2. pending' \in [Submitters -> CommandSet \cup {None}]
    BY <1>2 DEF Admit, TInv, TypeOK
  <2> QED BY <1>2, <2>1, <2>2 DEF Admit, TInv, TypeOK, Handling, inputs, client
<1>3. CASE AdmitCancelled(s)
  <2>1. pending[s].kind \in Kinds /\ gen \in Generations
    BY <1>1 DEF CommandSet, TInv, TypeOK
  <2>2. Retry(pending[s]) \in CommandSet \cup {None}
    BY <2>1, CommandType DEF Retry
  <2>3. pending' \in [Submitters -> CommandSet \cup {None}]
    BY <1>3, <2>2 DEF AdmitCancelled, TInv, TypeOK
  <2> QED BY <1>3, <2>3 DEF AdmitCancelled, TInv, TypeOK, Handling, inputs, client
<1> QED BY <1>2, <1>3

LEMMA HandleType == TInv /\ Handle => TInv'
<1> SUFFICES ASSUME TInv, Handle PROVE TInv'
  OBVIOUS
<1>1. inbox \in Seq(CommandSet) /\ DOMAIN inbox = 1 .. Len(inbox)
  BY LenProperties DEF TInv, TypeOK
<1>2. PICK i \in DOMAIN inbox :
        /\ inbox' = RemoveAt(inbox, i)
        /\ handler' = [kind |-> inbox[i].kind, gen |-> inbox[i].gen,
                       replies |-> Replies(inbox[i].kind)]
        /\ capturing' = IF inbox[i].kind \in CaptureKinds
                        THEN inbox[i].kind = "capture_started" ELSE capturing
        /\ Walk(PathOf(inbox[i].kind))
  BY DEF Handle
<1>3. inbox[i] \in CommandSet
  BY <1>1, ElementOfSeq
<1>4. inbox[i].kind \in Kinds /\ inbox[i].gen \in Generations
  BY <1>3 DEF CommandSet
<1>5. inbox' \in Seq(CommandSet)
  BY <1>1, <1>2, RemoveAtProperties
<1>6. handler' \in HandlerSet /\ handler'.replies # <<>>
  BY <1>2, <1>4, RepliesType DEF HandlerSet
<1>7. interaction' \in InteractionStates /\ illegal' \in BOOLEAN
  BY <1>2, WalkType, PathsType DEF TInv, TypeOK
<1>8. capturing' \in BOOLEAN
  BY <1>2 DEF TInv, TypeOK
<1> QED BY <1>5, <1>6, <1>7, <1>8 DEF Handle, TInv, TypeOK, Handling, inputs, client

LEMMA ReplyType == TInv /\ Reply => TInv'
<1> SUFFICES ASSUME TInv, Reply PROVE TInv'
  OBVIOUS
<1>1. /\ handler \in HandlerSet /\ handler.replies # <<>> /\ handler.replies \in Seq(ReplyKinds)
      /\ handler.gen \in Generations /\ handler.kind \in Kinds
  BY DEF Reply, TInv, TypeOK, Handling, HandlerSet
<1>2. Head(handler.replies) \in OutputKinds /\ Tail(handler.replies) \in Seq(ReplyKinds)
  BY <1>1, HeadTailProperties DEF OutputKinds
<1>3. outbox' \in Seq(OutputSet)
  BY <1>1, <1>2, PublishEffect DEF Reply, TInv
<1>4. CASE Len(handler.replies) > 1
  <2>1. handler' = [handler EXCEPT !.replies = Tail(handler.replies)]
    BY <1>4 DEF Reply
  <2>2. handler' \in HandlerSet /\ handler'.replies = Tail(handler.replies)
    BY <1>1, <1>2, <2>1 DEF HandlerSet
  <2>3. Tail(handler.replies) # <<>>
    <3> DEFINE n == Len(handler.replies)
               m == Len(Tail(handler.replies))
    <3>1. m = n - 1 /\ n \in Nat /\ n > 1
      BY <1>1, <1>4, HeadTailProperties, LenProperties
    <3> HIDE DEF n, m
    <3>2. m # 0
      BY <3>1
    <3> USE DEF m
    <3> QED BY <3>2, EmptySeq
  <2> QED BY <1>3, <1>4, <2>2, <2>3 DEF Reply, TInv, TypeOK, Handling, inputs, client
<1>5. CASE ~(Len(handler.replies) > 1)
  <2>1. turn' \in [Generations -> TurnSet]
    <3>1. turn \in [Generations -> TurnSet]
      BY DEF TInv, TypeOK
    <3>2. turn[handler.gen] \in TurnSet
      BY <1>1, <3>1
    <3>3. [turn[handler.gen] EXCEPT !.pc = "load"] \in TurnSet
      BY <3>2 DEF TurnSet
    <3>4. turn' = turn \/ turn' = [turn EXCEPT ![handler.gen].pc = "load"]
      BY <1>5 DEF Reply
    <3> QED BY <1>1, <3>1, <3>3, <3>4
  <2> QED BY <1>3, <1>5, <2>1 DEF Reply, TInv, TypeOK, Handling, inputs, client
<1> QED BY <1>4, <1>5

LEMMA TurnType ==
    ASSUME TInv, NEW g \in Generations, TurnStep(g)
    PROVE  TInv'
<1>1. /\ turn \in [Generations -> TurnSet] /\ turn[g] \in TurnSet
      /\ interaction \in InteractionStates /\ illegal \in BOOLEAN
      /\ turn[g].segments \in 0 .. MaxSegments
  BY DEF TInv, TypeOK, TurnSet
<1>2. Ended \in TurnSet /\ [turn EXCEPT ![g] = Ended] \in [Generations -> TurnSet]
  BY <1>1, BoundsAssumption DEF Ended, TurnSet
<1>3. ASSUME NEW pc \in {"stream", "finish", "degrade"}, NEW out \in TurnOutputs,
             NEW segments \in 0 .. MaxSegments, SetTurn(g, pc, out, segments)
      PROVE  turn' \in [Generations -> TurnSet]
  <2>1. [pc |-> pc, out |-> out, segments |-> segments] \in TurnSet
    BY <1>3 DEF TurnSet
  <2> QED BY <1>1, <1>3, <2>1 DEF SetTurn
<1>4. CASE TurnLoad(g)
  <2>1. turn' \in [Generations -> TurnSet]
    BY <1>3, <1>4, BoundsAssumption DEF TurnLoad, TurnOutputs
  <2> QED BY <1>4, <2>1 DEF TurnLoad, TInv, TypeOK, Handling, inputs, client
<1>5. CASE TurnCancelled(g)
  BY <1>2, <1>5 DEF TurnCancelled, TInv, TypeOK, Handling, inputs, client
<1>6. CASE TurnSegment(g)
  <2>1. turn[g].segments + 1 \in 0 .. MaxSegments
    BY <1>1, <1>6, BoundsAssumption DEF TurnSegment
  <2>2. turn' \in [Generations -> TurnSet]
    BY <1>3, <1>6, <2>1 DEF TurnSegment, TurnOutputs
  <2>3. interaction' \in InteractionStates /\ illegal' \in BOOLEAN
    BY <1>1, <1>6, WalkType, PathsType DEF TurnSegment
  <2> QED BY <1>6, <2>2, <2>3 DEF TurnSegment, TInv, TypeOK, Handling, inputs, client
<1>7. CASE TurnOutcome(g)
  <2>1. turn' \in [Generations -> TurnSet]
    BY <1>1, <1>3, <1>7, BoundsAssumption DEF TurnOutcome, TurnOutputs
  <2> QED BY <1>7, <2>1 DEF TurnOutcome, TInv, TypeOK, Handling, inputs, client
<1>8. CASE TurnPublish(g)
  <2>1. turn[g].out \in OutputKinds
    BY <1>1, <1>8 DEF TurnPublish, TurnSet, OutputKinds
  <2>2. outbox' \in Seq(OutputSet)
    BY <1>8, <2>1, PublishEffect DEF TurnPublish, TInv
  <2>3. [turn[g] EXCEPT !.out = None] \in TurnSet
    BY <1>1 DEF TurnSet
  <2>4. turn' = [turn EXCEPT ![g] = Ended] \/ turn' = [turn EXCEPT ![g].out = None]
    BY <1>8 DEF TurnPublish
  <2>5. turn' \in [Generations -> TurnSet]
    BY <1>1, <1>2, <2>3, <2>4
  <2> QED BY <1>8, <2>2, <2>5 DEF TurnPublish, TInv, TypeOK, Handling, inputs, client
<1>9. CASE TurnFinish(g) \/ TurnDegrade(g)
  <2>1. turn' = [turn EXCEPT ![g] = Ended]
    BY <1>9 DEF TurnFinish, TurnDegrade, LastTransition
  <2>2. interaction' \in InteractionStates /\ illegal' \in BOOLEAN
    BY <1>1, <1>9, WalkType, PathsType DEF TurnFinish, TurnDegrade, LastTransition
  <2> QED BY <1>2, <1>9, <2>1, <2>2
          DEF TurnFinish, TurnDegrade, TInv, TypeOK, Handling, inputs, client
<1> QED BY <1>4, <1>5, <1>6, <1>7, <1>8, <1>9 DEF TurnStep

LEMMA SenderType == TInv /\ (TakeOutput \/ OutputSent) => TInv'
<1> SUFFICES ASSUME TInv, TakeOutput \/ OutputSent PROVE TInv'
  OBVIOUS
<1>1. CASE TakeOutput
  <2>1. outbox \in Seq(OutputSet) /\ DOMAIN outbox = 1 .. Len(outbox)
    BY LenProperties DEF TInv, TypeOK
  <2>2. PICK i \in DOMAIN outbox :
          /\ outbox' = RemoveAt(outbox, i)
          /\ sending' = IF Stale(outbox[i]) THEN None ELSE outbox[i]
          /\ seen' = IF ~Stale(outbox[i]) /\ outbox[i].gen > seen THEN outbox[i].gen ELSE seen
    BY <1>1 DEF TakeOutput
  <2>3. outbox[i] \in OutputSet
    BY <2>1, ElementOfSeq
  <2>3a. outbox[i].gen \in Generations
    BY <2>3 DEF OutputSet
  <2>4. outbox' \in Seq(OutputSet)
    BY <2>1, <2>2, RemoveAtProperties
  <2>5. sending' \in OutputSet \cup {None} /\ seen' \in Generations
    BY <2>2, <2>3, <2>3a DEF TInv, TypeOK
  <2> QED BY <1>1, <2>4, <2>5 DEF TakeOutput, TInv, TypeOK, Handling, inputs
<1>2. CASE OutputSent
  BY <1>2 DEF OutputSent, TInv, TypeOK, Handling, inputs
<1> QED BY <1>1, <1>2

LEMMA TeardownType == TInv /\ (Stop \/ Stopped) => TInv'
<1> SUFFICES ASSUME TInv, Stop \/ Stopped PROVE TInv'
  OBVIOUS
<1>1. CASE Stop
  BY <1>1, EmptySeq DEF Stop, TInv, TypeOK, Handling, inputs, client
<1>2. CASE Stopped
  <2>1. NoTurn \in TurnSet /\ Ended \in TurnSet
    BY BoundsAssumption DEF NoTurn, Ended, TurnSet
  <2>2. turn' \in [Generations -> TurnSet]
    BY <1>2, <2>1 DEF Stopped
  <2>3. interaction' \in InteractionStates
    BY <1>2 DEF Stopped, InteractionStates
  <2> QED BY <1>2, <2>2, <2>3 DEF Stopped, TInv, TypeOK, Handling, inputs, client
<1> QED BY <1>1, <1>2

LEMMA NextType == TInv /\ [Next]_vars => TInv'
<1> SUFFICES ASSUME TInv, [Next]_vars PROVE TInv'
  OBVIOUS
<1>1. CASE UNCHANGED vars
  BY <1>1 DEF vars, inputs, client, TInv, TypeOK, Handling
<1> QED BY <1>1, SubmissionType, AdmissionType, HandleType, ReplyType, TurnType, SenderType,
           TeardownType DEF Next

----------------------------------------------------------------------------
(* Generations of outputs *)

\* Nothing in the outbox, and nothing the client was sent, is ahead of the
\* current generation, and speech being sent is as new as anything sent.
\* NoOlderSpeechSent alone is not inductive: the sender compares an output with
\* the current generation, so what was sent must be known not to exceed it.
SpeechInv ==
    /\ seen <= gen
    /\ \A i \in 1 .. Len(outbox) : outbox[i].gen <= gen
    /\ sending # None /\ sending.kind \in Scoped => sending.gen >= seen

LEMMA InitSpeech == Init => SpeechInv
  BY DEF Init, SpeechInv, Output

LEMMA GenType ==
    ASSUME TInv
    PROVE  /\ gen \in Int /\ seen \in Int
           /\ outbox \in Seq(OutputSet) /\ DOMAIN outbox = 1 .. Len(outbox) /\ Len(outbox) \in Nat
           /\ \A i \in 1 .. Len(outbox) : outbox[i] \in OutputSet /\ outbox[i].gen \in Int
<1>1. outbox \in Seq(OutputSet) /\ gen \in Generations /\ seen \in Generations
  BY DEF TInv, TypeOK
<1>2. DOMAIN outbox = 1 .. Len(outbox) /\ Len(outbox) \in Nat
  BY <1>1, LenProperties
<1>3. ASSUME NEW i \in 1 .. Len(outbox)
      PROVE  outbox[i] \in OutputSet /\ outbox[i].gen \in Int
  <2>1. outbox[i] \in OutputSet
    BY <1>1, ElementOfSeq
  <2> QED BY <2>1, BoundsAssumption DEF OutputSet, Generations
<1> QED BY <1>1, <1>2, <1>3, BoundsAssumption DEF Generations

\* The two actions that publish do so through publish_result.
LEMMA PublishingStep ==
    ASSUME TInv, Reply \/ \E g \in Generations : TurnPublish(g)
    PROVE  /\ \A j \in 1 .. Len(outbox') :
                outbox'[j].gen = gen \/ \E k \in 1 .. Len(outbox) : outbox'[j] = outbox[k]
           /\ UNCHANGED <<gen, client>>
<1>1. CASE Reply
  <2>1. /\ handler.replies # <<>> /\ handler.replies \in Seq(ReplyKinds)
        /\ handler.gen \in Generations
    BY <1>1 DEF Reply, TInv, TypeOK, Handling, HandlerSet
  <2>2. Head(handler.replies) \in OutputKinds
    BY <2>1, HeadTailProperties DEF OutputKinds
  <2> QED BY <1>1, <2>1, <2>2, PublishEffect DEF Reply, TInv
<1>2. ASSUME NEW g \in Generations, TurnPublish(g)
      PROVE  /\ \A j \in 1 .. Len(outbox') :
                outbox'[j].gen = gen \/ \E k \in 1 .. Len(outbox) : outbox'[j] = outbox[k]
             /\ UNCHANGED <<gen, client>>
  <2>1. turn[g].out \in OutputKinds
    BY <1>2 DEF TurnPublish, TInv, TypeOK, TurnSet, OutputKinds
  <2> QED BY <1>2, <2>1, PublishEffect DEF TurnPublish, TInv
<1> QED BY <1>1, <1>2

\* Every other action but the sender's leaves the outbox and the client alone.
LEMMA OtherStep ==
    ASSUME TInv, [Next]_vars, ~Reply, ~(\E g \in Generations : TurnPublish(g)), ~TakeOutput
    PROVE  /\ UNCHANGED <<outbox, seen>> /\ gen <= gen'
           /\ sending' = sending \/ sending' = None
<1>0. gen <= gen
  BY GenType
<1>1. ASSUME NEW kind \in Commands, Submit(kind) \/ SubmitVoice(kind) \/ SubmitTranscript(kind)
      PROVE  UNCHANGED <<outbox, client>> /\ gen <= gen'
  <2>1. AdvanceFor(kind)
    BY <1>1 DEF Submit, SubmitVoice, SubmitTranscript
  <2> QED BY <1>1, <2>1, StampType DEF Submit, SubmitVoice, SubmitTranscript, TInv
<1>2. ASSUME NEW s \in Submitters, Admit(s) \/ AdmitCancelled(s)
      PROVE  UNCHANGED <<outbox, client, gen>>
  BY <1>2 DEF Admit, AdmitCancelled
<1>3. Handle \/ Stop \/ Stopped => UNCHANGED <<outbox, client, gen>>
  BY DEF Handle, Stop, Stopped
<1>4. ASSUME NEW g \in Generations, TurnStep(g)
      PROVE  UNCHANGED <<outbox, client, gen>>
  BY <1>4 DEF TurnStep, TurnLoad, TurnCancelled, TurnSegment, TurnOutcome, TurnFinish, TurnDegrade
<1>5. OutputSent => sending' = None /\ UNCHANGED <<outbox, seen, gen>>
  BY DEF OutputSent
<1>6. UNCHANGED vars => UNCHANGED <<outbox, client, gen>>
  BY DEF vars
<1> QED BY <1>0, <1>1, <1>2, <1>3, <1>4, <1>5, <1>6 DEF Next, client

LEMMA NextSpeech == TInv /\ SpeechInv /\ [Next]_vars => SpeechInv'
<1> SUFFICES ASSUME TInv, SpeechInv, [Next]_vars PROVE SpeechInv'
  OBVIOUS
<1>1. TInv'
  BY NextType
<1>2. /\ gen \in Int /\ seen \in Int /\ Len(outbox) \in Nat
      /\ DOMAIN outbox = 1 .. Len(outbox) /\ outbox \in Seq(OutputSet)
      /\ \A i \in 1 .. Len(outbox) : outbox[i] \in OutputSet /\ outbox[i].gen \in Int
  BY GenType
<1>3. gen' \in Int
  BY <1>1, BoundsAssumption DEF TInv, TypeOK, Generations
<1>4. CASE Reply \/ \E g \in Generations : TurnPublish(g)
  <2>1. /\ UNCHANGED <<gen, seen, sending>>
        /\ \A j \in 1 .. Len(outbox') :
             outbox'[j].gen = gen \/ \E k \in 1 .. Len(outbox) : outbox'[j] = outbox[k]
    BY <1>4, PublishingStep DEF client
  <2>2. ASSUME NEW i \in 1 .. Len(outbox')
        PROVE  outbox'[i].gen <= gen
    <3>1. CASE outbox'[i].gen = gen
      BY <3>1, <1>2
    <3>2. CASE \E k \in 1 .. Len(outbox) : outbox'[i] = outbox[k]
      <4>1. PICK k \in 1 .. Len(outbox) : outbox'[i] = outbox[k]
        BY <3>2
      <4>2. outbox[k].gen <= gen
        BY <4>1 DEF SpeechInv
      <4> QED BY <4>1, <4>2
    <3> QED BY <2>1, <3>1, <3>2
  <2> QED BY <2>1, <2>2 DEF SpeechInv
<1>5. CASE TakeOutput
  <2>1. PICK i \in DOMAIN outbox :
          /\ outbox' = RemoveAt(outbox, i)
          /\ sending' = IF Stale(outbox[i]) THEN None ELSE outbox[i]
          /\ seen' = IF ~Stale(outbox[i]) /\ outbox[i].gen > seen THEN outbox[i].gen ELSE seen
    BY <1>5 DEF TakeOutput
  <2>2. gen' = gen
    BY <1>5 DEF TakeOutput
  <2>3. \A j \in 1 .. Len(outbox') : \E k \in 1 .. Len(outbox) : outbox'[j] = outbox[k]
    BY <1>2, <2>1, RemoveAtElements
  <2>4. \A j \in 1 .. Len(outbox') : outbox'[j].gen <= gen'
    BY <2>2, <2>3 DEF SpeechInv
  <2>5. outbox[i].gen \in Int /\ outbox[i].gen <= gen
    BY <1>2, <2>1 DEF SpeechInv
  <2>6. seen' <= gen'
    BY <1>2, <2>1, <2>2, <2>5 DEF SpeechInv
  <2>7. ASSUME sending' # None, sending'.kind \in Scoped
        PROVE  sending'.gen >= seen'
    <3>1. ~Stale(outbox[i]) /\ sending' = outbox[i]
      BY <2>1, <2>7
    <3>2. outbox[i].gen >= gen
      BY <1>2, <2>5, <2>7, <3>1 DEF Stale
    <3> QED BY <1>2, <2>1, <2>5, <3>1, <3>2 DEF SpeechInv
  <2> QED BY <2>4, <2>6, <2>7 DEF SpeechInv
<1>6. CASE ~Reply /\ ~(\E g \in Generations : TurnPublish(g)) /\ ~TakeOutput
  <2>1. /\ UNCHANGED <<outbox, seen>> /\ gen <= gen'
        /\ sending' = sending \/ sending' = None
    BY <1>6, OtherStep
  <2> QED BY <1>2, <1>3, <2>1 DEF SpeechInv
<1> QED BY <1>4, <1>5, <1>6

----------------------------------------------------------------------------
(* The interaction state *)

\* Commands wait under the priority of their kind and in the order of their
\* generations: each is admitted while its generation is the current one.
Ordered(q, g) ==
    /\ \A i \in 1 .. Len(q) : q[i].priority = CommandPriority(q[i].kind) /\ q[i].gen <= g
    /\ \A i, j \in 1 .. Len(q) : i < j => q[i].gen <= q[j].gen

InOrder ==
    /\ Ordered(inbox, gen)
    /\ \A s \in Submitters : pending[s] # None =>
          pending[s].priority = CommandPriority(pending[s].kind) /\ pending[s].gen <= gen
    /\ handler # None => handler.gen <= gen

\* A foreground submission of generation g; at most one in a queue; none.
Submission(command, g) == command.kind \in ForegroundKinds /\ command.gen = g

AtMostOne(q, g) ==
    \A i, j \in 1 .. Len(q) : Submission(q[i], g) /\ Submission(q[j], g) => i = j

NoSubmission(q, g) == \A i \in 1 .. Len(q) : ~Submission(q[i], g)

NoForeground(q) == \A i \in 1 .. Len(q) : q[i].kind \notin ForegroundKinds

\* The turn of the current generation is about to be spawned.
Entering == handler # None /\ handler.kind \in TurnKinds /\ handler.gen = gen

\* A foreground command of the current generation has changed the state and its
\* reply has still to be published.
Answering == handler # None /\ handler.kind \in ForegroundKinds /\ handler.gen = gen

\* The current generation has reached its dialogue task.
Owned == turn[gen].pc # "off" \/ Entering

\* One submission at most carries the current generation, and once its turn is
\* taken from the inbox no foreground command is left there that could disturb
\* the turn: older ones were ahead of it or more urgent, newer ones advance
\* the generation.
OneOwner ==
    /\ AtMostOne(inbox, gen)
    /\ \A s \in Submitters : pending[s] # None /\ Submission(pending[s], gen) =>
          /\ NoSubmission(inbox, gen)
          /\ \A t \in Submitters \ {s} : pending[t] = None \/ ~Submission(pending[t], gen)
          /\ ~Owned
    /\ Owned => NoForeground(inbox)
    /\ Answering => turn[gen].pc = "off"

\* Turns of generations to come have not begun, and a turn that has not loaded
\* its history has produced nothing.
TurnsAhead ==
    \A g \in Generations :
        /\ g > gen => turn[g].pc = "off"
        /\ g >= gen /\ turn[g].pc \in {"off", "load"} => turn[g].segments = 0 /\ turn[g].out = None

Settled == {"IDLE", "LISTENING", "PROCESSING", "SPEAKING", "DEGRADED"}

StateInv ==
    /\ interaction \in Settled
    /\ Answering => interaction = Answer(handler.kind)
    /\ Live(gen) => interaction = IF turn[gen].segments = 0 THEN "PROCESSING" ELSE "SPEAKING"

\* The capture event after which the session captures or does not.
Event(active) == IF active THEN "capture_started" ELSE "capture_stopped"

\* Once the first n commands of a queue q are handled, the last capture event,
\* which was c before, is e. Stated without a fold: the last one decides, so one
\* that differs from e is followed by e.
Leaves(q, c, n, e) ==
    /\ (\A k \in 1 .. n : q[k].kind \notin CaptureKinds) => c = e
    /\ \A k \in 1 .. n : q[k].kind \in CaptureKinds /\ q[k].kind # e =>
          \E m \in 1 .. n : k < m /\ q[m].kind = e

\* Speech is reported only between the events that open and close the
\* microphone, and the last of those events is the coordinator's state.
Covered(q, c) ==
    \A j \in 1 .. Len(q) : q[j].kind \in SpeechKinds => Leaves(q, c, j - 1, "capture_started")

MicReported ==
    /\ pending["ws"] # None => pending["ws"].kind \in CaptureKinds \cup SpeechKinds
    /\ pending["asr"] # None => pending["asr"].kind \in WaitingKinds \cap AsrKinds
    /\ pending["ws"] # None /\ pending["ws"].kind \in SpeechKinds => mic
    /\ IF pending["ws"] # None /\ pending["ws"].kind \in CaptureKinds
       THEN pending["ws"].kind = Event(mic)
       ELSE Leaves(inbox, Event(capturing), Len(inbox), Event(mic))

CaptureInv ==
    /\ Covered(inbox, Event(capturing))
    /\ MicReported
    /\ interaction = "IDLE" => ~capturing
    /\ interaction = "LISTENING" => capturing

\* The inductive invariant of the session. None of the five properties is
\* inductive alone: a transition is legal because the turn that asks for it owns
\* the state, it owns the state because no foreground command of its generation
\* or an older one is left, and speech finds the microphone open because the
\* event that opened it was ahead in the same queue.
RunInv == InOrder /\ OneOwner /\ TurnsAhead /\ StateInv /\ CaptureInv

SessionInv == ~illegal /\ (phase = "running" => RunInv)

\* What a command appended to a queue, or removed from it, does to the capture
\* events in it.
LEMMA LeavesAppend ==
    ASSUME NEW q \in Seq(CommandSet), NEW d \in CommandSet, NEW n \in 0 .. Len(q),
           NEW c, NEW e, Leaves(q, c, n, e)
    PROVE  Leaves(Append(q, d), c, n, e)
<1>1. Len(q) \in Nat
  BY LenProperties
<1>2. \A k \in 1 .. n : Append(q, d)[k] = q[k]
  BY <1>1, AppendProperties
<1> QED BY <1>2 DEF Leaves

LEMMA LeavesAppendOther ==
    ASSUME NEW q \in Seq(CommandSet), NEW d \in CommandSet, d.kind \notin CaptureKinds,
           NEW c, NEW e, Leaves(q, c, Len(q), e)
    PROVE  Leaves(Append(q, d), c, Len(Append(q, d)), e)
<1> DEFINE r == Append(q, d)
           n == Len(q)
<1>1. /\ n \in Nat /\ Len(r) = n + 1 /\ r[n + 1] = d
      /\ \A k \in 1 .. n : r[k] = q[k]
  BY LenProperties, AppendProperties
<1>2. /\ (\A k \in 1 .. n : q[k].kind \notin CaptureKinds) => c = e
      /\ \A k \in 1 .. n : q[k].kind \in CaptureKinds /\ q[k].kind # e =>
          \E m \in 1 .. n : k < m /\ q[m].kind = e
  BY DEF Leaves
<1> HIDE DEF r, n
<1>3. (\A k \in 1 .. n + 1 : r[k].kind \notin CaptureKinds) => c = e
  BY <1>1, <1>2
<1>4. ASSUME NEW k \in 1 .. n + 1, r[k].kind \in CaptureKinds, r[k].kind # e
      PROVE  \E m \in 1 .. n + 1 : k < m /\ r[m].kind = e
  <2>1. k \in 1 .. n /\ r[k] = q[k]
    BY <1>1, <1>4
  <2>2. PICK m \in 1 .. n : k < m /\ q[m].kind = e
    BY <1>2, <1>4, <2>1
  <2>3. m \in 1 .. n + 1 /\ r[m] = q[m]
    BY <1>1
  <2> QED BY <2>2, <2>3
<1>5. Leaves(r, c, n + 1, e)
  BY <1>3, <1>4 DEF Leaves
<1> QED BY <1>1, <1>5 DEF r, n

LEMMA LeavesAppendCapture ==
    ASSUME NEW q \in Seq(CommandSet), NEW d \in CommandSet, d.kind \in CaptureKinds, NEW c
    PROVE  Leaves(Append(q, d), c, Len(Append(q, d)), d.kind)
<1> DEFINE r == Append(q, d)
           n == Len(q)
<1>1. n \in Nat /\ Len(r) = n + 1 /\ r[n + 1] = d
  BY LenProperties, AppendProperties
<1> HIDE DEF r, n
<1>2. n + 1 \in 1 .. n + 1
  BY <1>1
<1>3. ~(\A k \in 1 .. n + 1 : r[k].kind \notin CaptureKinds)
  BY <1>1, <1>2
<1>4. ASSUME NEW k \in 1 .. n + 1, r[k].kind # d.kind
      PROVE  k < n + 1
  BY <1>1, <1>4
<1>5. Leaves(r, c, n + 1, d.kind)
  BY <1>1, <1>2, <1>3, <1>4 DEF Leaves
<1> QED BY <1>1, <1>5 DEF r, n

\* Removing a command that is not a capture event, or the first capture event,
\* which then is the one handled last.
LEMMA LeavesRemove ==
    ASSUME NEW q \in Seq(CommandSet), NEW i \in 1 .. Len(q), NEW n \in 1 .. Len(q), i <= n,
           NEW c, NEW d, NEW e \in CaptureKinds, Leaves(q, c, n, e),
           \/ q[i].kind \notin CaptureKinds /\ d = c
           \/ /\ q[i].kind \in CaptureKinds /\ d = q[i].kind
              /\ \A k \in 1 .. i - 1 : q[k].kind \notin CaptureKinds
    PROVE  Leaves(RemoveAt(q, i), d, n - 1, e)
<1> DEFINE r == RemoveAt(q, i)
           l == Len(q)
<1>1. /\ l \in Nat /\ i \in 1 .. l /\ n \in 1 .. l /\ i <= n
      /\ \A k \in 1 .. l - 1 : r[k] = IF k < i THEN q[k] ELSE q[k + 1]
  BY LenProperties, RemoveAtProperties
<1>2. /\ (\A k \in 1 .. n : q[k].kind \notin CaptureKinds) => c = e
      /\ \A k \in 1 .. n : q[k].kind \in CaptureKinds /\ q[k].kind # e =>
          \E m \in 1 .. n : k < m /\ q[m].kind = e
  BY DEF Leaves
<1> HIDE DEF r, l
\* Every command but the removed one keeps its place relative to the others.
<1>3. ASSUME NEW k \in 1 .. n, k # i
      PROVE  \E j \in 1 .. n - 1 : j = (IF k < i THEN k ELSE k - 1) /\ r[j] = q[k]
  <2>1. CASE k < i
    <3>1. k \in 1 .. n - 1 /\ k \in 1 .. l - 1
      BY <1>1, <2>1
    <3> QED BY <1>1, <2>1, <3>1
  <2>2. CASE ~(k < i)
    <3>1. k - 1 \in 1 .. n - 1 /\ k - 1 \in 1 .. l - 1 /\ ~(k - 1 < i) /\ (k - 1) + 1 = k
      BY <1>1, <1>3, <2>2
    <3> QED BY <1>1, <2>2, <3>1
  <2> QED BY <2>1, <2>2
<1>4. ASSUME NEW j \in 1 .. n - 1
      PROVE  \E k \in 1 .. n : k = (IF j < i THEN j ELSE j + 1) /\ k # i /\ r[j] = q[k]
  <2>1. j \in 1 .. l - 1 /\ j \in 1 .. n /\ j + 1 \in 1 .. n
    BY <1>1
  <2> QED BY <1>1, <2>1
<1>5. ASSUME \A k \in 1 .. n - 1 : r[k].kind \notin CaptureKinds
      PROVE  d = e
  <2>1. \A k \in 1 .. n : k # i => q[k].kind \notin CaptureKinds
    BY <1>3, <1>5
  <2>2. CASE q[i].kind \notin CaptureKinds
    BY <1>2, <2>1, <2>2
  <2>3. CASE q[i].kind \in CaptureKinds
    <3>1. q[i].kind = e
      <4> SUFFICES ASSUME q[i].kind # e PROVE FALSE
        OBVIOUS
      <4>1. PICK m \in 1 .. n : i < m /\ q[m].kind = e
        BY <1>1, <1>2, <2>3
      <4>2. q[m].kind \notin CaptureKinds
        BY <1>1, <2>1, <4>1
      <4> QED BY <4>1, <4>2
    <3> QED BY <2>3, <3>1
  <2> QED BY <2>2, <2>3
<1>6. ASSUME NEW j \in 1 .. n - 1, r[j].kind \in CaptureKinds, r[j].kind # e
      PROVE  \E p \in 1 .. n - 1 : j < p /\ r[p].kind = e
  <2>1. PICK k \in 1 .. n : k = (IF j < i THEN j ELSE j + 1) /\ k # i /\ r[j] = q[k]
    BY <1>4
  <2>2. PICK m \in 1 .. n : k < m /\ q[m].kind = e
    BY <1>2, <1>6, <2>1
  \* The event that follows is not the removed one: that was the first.
  <2>3. m # i
    <3> SUFFICES ASSUME m = i PROVE FALSE
      OBVIOUS
    <3>1. q[i].kind \in CaptureKinds /\ k \in 1 .. i - 1
      BY <1>1, <2>2
    <3> QED BY <1>6, <2>1, <3>1
  <2>4. PICK p \in 1 .. n - 1 : p = (IF m < i THEN m ELSE m - 1) /\ r[p] = q[m]
    BY <1>3, <2>3
  <2>5. j < p
    BY <1>1, <2>1, <2>2, <2>3, <2>4
  <2> QED BY <2>2, <2>4, <2>5
<1>7. Leaves(r, d, n - 1, e)
  BY <1>5, <1>6 DEF Leaves
<1> QED BY <1>7 DEF r

LEMMA LeavesRemoveLater ==
    ASSUME NEW q \in Seq(CommandSet), NEW i \in 1 .. Len(q), NEW n \in 0 .. Len(q), n < i,
           NEW c, NEW e, Leaves(q, c, n, e)
    PROVE  Leaves(RemoveAt(q, i), c, n, e)
<1>1. Len(q) \in Nat
  BY LenProperties
<1>2. \A k \in 1 .. n : RemoveAt(q, i)[k] = q[k]
  <2>1. ASSUME NEW k \in 1 .. n PROVE k \in 1 .. Len(q) - 1 /\ k < i
    BY <1>1
  <2> QED BY <2>1, RemoveAtProperties
<1> QED BY <1>2 DEF Leaves

\* What the same changes do to the order of generations and to submissions.
LEMMA AppendOrder ==
    ASSUME NEW q \in Seq(CommandSet), NEW d \in CommandSet, Ordered(q, d.gen),
           d.priority = CommandPriority(d.kind)
    PROVE  Ordered(Append(q, d), d.gen)
<1> DEFINE r == Append(q, d)
           n == Len(q)
<1>1. /\ n \in Nat /\ Len(r) = n + 1 /\ r[n + 1] = d
      /\ \A k \in 1 .. n : r[k] = q[k]
  BY LenProperties, AppendProperties
<1>2. /\ \A i \in 1 .. n : q[i].priority = CommandPriority(q[i].kind) /\ q[i].gen <= d.gen
      /\ \A i, j \in 1 .. n : i < j => q[i].gen <= q[j].gen
  BY DEF Ordered
<1>3. d.gen \in Int
  BY BoundsAssumption DEF CommandSet, Generations
<1> HIDE DEF r, n
<1>4. \A i \in 1 .. n + 1 : r[i].priority = CommandPriority(r[i].kind) /\ r[i].gen <= d.gen
  BY <1>1, <1>2, <1>3
<1>5. ASSUME NEW i \in 1 .. n + 1, NEW j \in 1 .. n + 1, i < j
      PROVE  r[i].gen <= r[j].gen
  <2>1. i \in 1 .. n /\ r[i] = q[i]
    BY <1>1, <1>5
  <2>2. CASE j = n + 1
    BY <1>1, <1>2, <2>1, <2>2
  <2>3. CASE j # n + 1
    <3>1. j \in 1 .. n /\ r[j] = q[j]
      BY <1>1, <2>3
    <3> QED BY <1>2, <1>5, <2>1, <3>1
  <2> QED BY <2>2, <2>3
<1>6. Ordered(r, d.gen)
  BY <1>1, <1>4, <1>5 DEF Ordered
<1> QED BY <1>6 DEF r

LEMMA AppendSubmission ==
    ASSUME NEW q \in Seq(CommandSet), NEW d \in CommandSet, NEW g
    PROVE  /\ NoSubmission(q, g) => AtMostOne(Append(q, d), g)
           /\ AtMostOne(q, g) /\ ~Submission(d, g) => AtMostOne(Append(q, d), g)
           /\ NoSubmission(q, g) /\ ~Submission(d, g) => NoSubmission(Append(q, d), g)
           /\ NoForeground(q) /\ d.kind \notin ForegroundKinds => NoForeground(Append(q, d))
<1> DEFINE r == Append(q, d)
           n == Len(q)
<1>1. /\ n \in Nat /\ Len(r) = n + 1 /\ r[n + 1] = d
      /\ \A k \in 1 .. n : r[k] = q[k]
  BY LenProperties, AppendProperties
<1> HIDE DEF r, n
<1>2. \A k \in 1 .. Len(r) : (k \in 1 .. n /\ r[k] = q[k]) \/ (k = n + 1 /\ r[k] = d)
  BY <1>1
<1>3. NoSubmission(q, g) => AtMostOne(r, g)
  BY <1>2 DEF NoSubmission, AtMostOne, n
<1>4. AtMostOne(q, g) /\ ~Submission(d, g) => AtMostOne(r, g)
  BY <1>2 DEF AtMostOne, n
<1>5. NoSubmission(q, g) /\ ~Submission(d, g) => NoSubmission(r, g)
  BY <1>2 DEF NoSubmission, n
<1>6. NoForeground(q) /\ d.kind \notin ForegroundKinds => NoForeground(r)
  BY <1>2 DEF NoForeground, n
<1> QED BY <1>3, <1>4, <1>5, <1>6 DEF r

LEMMA RemoveOrder ==
    ASSUME NEW q \in Seq(CommandSet), NEW i \in 1 .. Len(q), NEW g
    PROVE  /\ Ordered(q, g) => Ordered(RemoveAt(q, i), g)
           /\ AtMostOne(q, g) => AtMostOne(RemoveAt(q, i), g)
           /\ NoSubmission(q, g) => NoSubmission(RemoveAt(q, i), g)
           /\ NoForeground(q) => NoForeground(RemoveAt(q, i))
<1> DEFINE r == RemoveAt(q, i)
           n == Len(q)
           At(k) == IF k < i THEN k ELSE k + 1
<1>1. /\ n \in Nat /\ Len(r) = n - 1
      /\ \A k \in 1 .. n - 1 : r[k] = IF k < i THEN q[k] ELSE q[k + 1]
  BY LenProperties, RemoveAtProperties
<1> HIDE DEF r, n
<1>2. i \in 1 .. n
  BY DEF n
<1>3. /\ \A k \in 1 .. n - 1 : At(k) \in 1 .. n /\ r[k] = q[At(k)]
      /\ \A k, m \in 1 .. n - 1 : k < m => At(k) < At(m)
      /\ \A k, m \in 1 .. n - 1 : At(k) = At(m) => k = m
  BY <1>1, <1>2
<1> HIDE DEF At
<1>4. ASSUME Ordered(q, g) PROVE Ordered(r, g)
  <2>1. /\ \A k \in 1 .. n : q[k].priority = CommandPriority(q[k].kind) /\ q[k].gen <= g
        /\ \A k, m \in 1 .. n : k < m => q[k].gen <= q[m].gen
    BY <1>4 DEF Ordered, n
  <2>2. ASSUME NEW k \in 1 .. n - 1, NEW m \in 1 .. n - 1, k < m
        PROVE  r[k].gen <= r[m].gen
    BY <1>3, <2>1, <2>2
  <2>3. ASSUME NEW k \in 1 .. n - 1
        PROVE  r[k].priority = CommandPriority(r[k].kind) /\ r[k].gen <= g
    BY <1>3, <2>1
  <2> QED BY <1>1, <2>2, <2>3 DEF Ordered
<1>5. ASSUME AtMostOne(q, g) PROVE AtMostOne(r, g)
  <2>1. ASSUME NEW k \in 1 .. n - 1, NEW m \in 1 .. n - 1, Submission(r[k], g), Submission(r[m], g)
        PROVE  k = m
    <3>1. At(k) = At(m)
      BY <1>3, <1>5, <2>1 DEF AtMostOne, n
    <3> QED BY <1>3, <3>1
  <2> QED BY <1>1, <2>1 DEF AtMostOne
<1>6. (NoSubmission(q, g) => NoSubmission(r, g)) /\ (NoForeground(q) => NoForeground(r))
  BY <1>1, <1>3 DEF NoSubmission, NoForeground, n
<1> QED BY <1>4, <1>5, <1>6 DEF r

\* Advancing the generation leaves no command of the new one behind.
LEMMA AdvanceOrder ==
    ASSUME NEW q \in Seq(CommandSet), NEW g \in Int, Ordered(q, g)
    PROVE  Ordered(q, g + 1) /\ NoSubmission(q, g + 1)
<1>1. ASSUME NEW i \in 1 .. Len(q) PROVE q[i].gen \in Int
  <2>1. q[i] \in CommandSet
    BY ElementOfSeq
  <2> QED BY <2>1, BoundsAssumption DEF CommandSet, Generations
<1> QED BY <1>1 DEF Ordered, NoSubmission, Submission

\* Commands taken or displaced are not capture events that others depend on.
LEMMA CoveredAppend ==
    ASSUME NEW q \in Seq(CommandSet), NEW d \in CommandSet, NEW c, Covered(q, c),
           d.kind \in SpeechKinds => Leaves(q, c, Len(q), "capture_started")
    PROVE  Covered(Append(q, d), c)
<1> DEFINE r == Append(q, d)
           n == Len(q)
<1>1. /\ n \in Nat /\ Len(r) = n + 1 /\ r[n + 1] = d
      /\ \A k \in 1 .. n : r[k] = q[k]
  BY LenProperties, AppendProperties
<1>2. ASSUME NEW j \in 1 .. n + 1, r[j].kind \in SpeechKinds
      PROVE  Leaves(r, c, j - 1, "capture_started")
  <2>1. j - 1 \in 0 .. n
    BY <1>1
  <2>2. Leaves(q, c, j - 1, "capture_started")
    <3>1. CASE j = n + 1
      <4>1. j - 1 = n
        BY <1>1, <3>1
      <4>2. d.kind \in SpeechKinds
        BY <1>1, <1>2, <3>1
      <4> QED BY <4>1, <4>2
    <3>2. CASE j # n + 1
      <4>1. j \in 1 .. n /\ r[j] = q[j]
        BY <1>1, <3>2
      <4> QED BY <1>2, <4>1 DEF Covered
    <3> QED BY <3>1, <3>2
  <2> QED BY <2>1, <2>2, LeavesAppend
<1> QED BY <1>1, <1>2 DEF Covered

LEMMA CoveredRemove ==
    ASSUME NEW q \in Seq(CommandSet), NEW i \in 1 .. Len(q), NEW c, NEW d, Covered(q, c),
           \/ q[i].kind \notin CaptureKinds /\ d = c
           \/ /\ q[i].kind \in CaptureKinds /\ d = q[i].kind
              /\ \A k \in 1 .. i - 1 : q[k].kind \notin CaptureKinds \cup SpeechKinds
    PROVE  Covered(RemoveAt(q, i), d)
<1> DEFINE r == RemoveAt(q, i)
           n == Len(q)
<1>1. /\ n \in Nat /\ Len(r) = n - 1
      /\ \A k \in 1 .. n - 1 : r[k] = IF k < i THEN q[k] ELSE q[k + 1]
  BY LenProperties, RemoveAtProperties
<1>2. ASSUME NEW j \in 1 .. n - 1, r[j].kind \in SpeechKinds
      PROVE  Leaves(r, d, j - 1, "capture_started")
  <2>1. CASE j < i
    <3>1. r[j] = q[j] /\ j \in 1 .. n /\ j \in 1 .. i - 1 /\ j - 1 \in 0 .. n /\ j - 1 < i
      BY <1>1, <2>1
    <3>2. d = c
      BY <1>2, <3>1
    <3>3. Leaves(q, c, j - 1, "capture_started")
      BY <1>2, <3>1 DEF Covered
    <3> QED BY <3>1, <3>2, <3>3, LeavesRemoveLater
  <2>2. CASE ~(j < i)
    <3>1. r[j] = q[j + 1] /\ j + 1 \in 1 .. n /\ j \in 1 .. n /\ i <= j /\ (j + 1) - 1 = j
      BY <1>1, <2>2
    <3>2. Leaves(q, c, j, "capture_started")
      BY <1>2, <3>1 DEF Covered
    <3>3. "capture_started" \in CaptureKinds
      BY DEF CaptureKinds
    <3> QED BY <3>1, <3>2, <3>3, LeavesRemove
  <2> QED BY <2>1, <2>2
<1> QED BY <1>1, <1>2 DEF Covered

\* Walking a path of transitions that _TRANSITIONS allows.
LEMMA WalkNone ==
    ASSUME Walk(<<>>), ~illegal
    PROVE  interaction' = interaction /\ ~illegal'
<1>1. LegalPath(interaction, <<>>) /\ EndOf(interaction, <<>>) = interaction
  BY DEF LegalPath, EndOf
<1> QED BY <1>1 DEF Walk

LEMMA WalkOne ==
    ASSUME NEW a, Walk(<<a>>), a \in Transitions[interaction], ~illegal
    PROVE  interaction' = a /\ ~illegal'
<1>1. LegalPath(interaction, <<a>>) /\ EndOf(interaction, <<a>>) = a
  BY DEF LegalPath, EndOf
<1> QED BY <1>1 DEF Walk

LEMMA WalkTwo ==
    ASSUME NEW a, NEW b, Walk(<<a, b>>), a \in Transitions[interaction], b \in Transitions[a],
           ~illegal
    PROVE  interaction' = b /\ ~illegal'
<1>1. LegalPath(interaction, <<a, b>>) /\ EndOf(interaction, <<a, b>>) = b
  BY DEF LegalPath, EndOf
<1> QED BY <1>1 DEF Walk

\* The entries of _TRANSITIONS that the handlers use.
LEMMA TransitionFacts ==
    /\ {"LISTENING", "PROCESSING"} \subseteq Transitions["IDLE"]
    /\ {"IDLE", "PROCESSING"} \subseteq Transitions["LISTENING"]
    /\ {"IDLE", "SPEAKING", "INTERRUPTING", "DEGRADED"} \subseteq Transitions["PROCESSING"]
    /\ {"IDLE", "INTERRUPTING", "DEGRADED"} \subseteq Transitions["SPEAKING"]
    /\ {"IDLE", "LISTENING", "PROCESSING"} \subseteq Transitions["INTERRUPTING"]
    /\ {"IDLE", "LISTENING"} \subseteq Transitions["DEGRADED"]
  BY DEF Transitions, InteractionStates

\* Whatever settled state a handler finds, its path is legal; this is where it
\* ends.
LEMMA EnterProcessingWalk ==
    ASSUME interaction \in Settled, ~illegal, Walk(EnterProcessing(interaction))
    PROVE  interaction' = "PROCESSING" /\ ~illegal'
<1>1. CASE interaction \in {"PROCESSING", "SPEAKING"}
  <2>1. Walk(<<"INTERRUPTING", "PROCESSING">>)
    BY <1>1 DEF EnterProcessing, Foreground
  <2> QED BY <1>1, <2>1, WalkTwo, TransitionFacts
<1>2. CASE interaction = "DEGRADED"
  <2>1. Walk(<<"IDLE", "PROCESSING">>)
    BY <1>2 DEF EnterProcessing, Foreground
  <2> QED BY <1>2, <2>1, WalkTwo, TransitionFacts
<1>3. CASE interaction \in {"IDLE", "LISTENING"}
  <2>1. Walk(<<"PROCESSING">>)
    BY <1>3 DEF EnterProcessing, Foreground
  <2> QED BY <1>3, <2>1, WalkOne, TransitionFacts
<1> QED BY <1>1, <1>2, <1>3 DEF Settled

LEMMA EnterListeningWalk ==
    ASSUME interaction \in Settled, ~illegal, Walk(EnterListening(interaction))
    PROVE  interaction' = "LISTENING" /\ ~illegal'
<1>1. CASE interaction \in {"PROCESSING", "SPEAKING"}
  <2>1. Walk(<<"INTERRUPTING", "LISTENING">>)
    BY <1>1 DEF EnterListening, Foreground
  <2> QED BY <1>1, <2>1, WalkTwo, TransitionFacts
<1>2. CASE interaction = "LISTENING"
  <2>1. Walk(<<>>)
    BY <1>2 DEF EnterListening, Foreground
  <2> QED BY <1>2, <2>1, WalkNone
<1>3. CASE interaction \in {"IDLE", "DEGRADED"}
  <2>1. Walk(<<"LISTENING">>)
    BY <1>3 DEF EnterListening, Foreground
  <2> QED BY <1>3, <2>1, WalkOne, TransitionFacts
<1> QED BY <1>1, <1>2, <1>3 DEF Settled

LEMMA AcceptCancelWalk ==
    ASSUME interaction \in Settled, ~illegal, Walk(AcceptCancel(interaction, capturing))
    PROVE  interaction' = (IF capturing THEN "LISTENING" ELSE "IDLE") /\ ~illegal'
<1> DEFINE target == IF capturing THEN "LISTENING" ELSE "IDLE"
<1>0. target \in {"LISTENING", "IDLE"}
  OBVIOUS
<1>1. Walk(IF interaction = target THEN <<>>
           ELSE IF interaction \in {"IDLE", "LISTENING", "DEGRADED", "INTERRUPTING"} THEN <<target>>
           ELSE <<"INTERRUPTING", target>>)
  BY DEF AcceptCancel
<1>2. interaction' = target /\ ~illegal'
  <2> HIDE DEF target
  <2>1. CASE interaction = target
    <3>1. Walk(<<>>)
      BY <1>1, <2>1
    <3> QED BY <2>1, <3>1, WalkNone
  <2>2. CASE interaction # target /\ interaction \in {"IDLE", "LISTENING", "DEGRADED"}
    <3>1. Walk(<<target>>)
      BY <1>1, <2>2
    <3>2. target \in Transitions[interaction]
      BY <1>0, <2>2, TransitionFacts
    <3> QED BY <3>1, <3>2, WalkOne
  <2>3. CASE interaction \in {"PROCESSING", "SPEAKING"}
    <3>1. Walk(<<"INTERRUPTING", target>>)
      BY <1>0, <1>1, <2>3
    <3>2. "INTERRUPTING" \in Transitions[interaction] /\ target \in Transitions["INTERRUPTING"]
      BY <1>0, <2>3, TransitionFacts
    <3> QED BY <3>1, <3>2, WalkTwo
  <2> QED BY <2>1, <2>2, <2>3 DEF Settled
<1> QED BY <1>2

LEMMA CaptureWalk ==
    ASSUME interaction \in Settled, ~illegal
    PROVE  /\ Walk(CaptureStarted(interaction)) =>
                /\ interaction' = (IF interaction \in {"IDLE", "DEGRADED"} THEN "LISTENING" ELSE interaction)
                /\ ~illegal'
           /\ Walk(CaptureStopped(interaction)) =>
                /\ interaction' = (IF interaction = "LISTENING" THEN "IDLE" ELSE interaction)
                /\ ~illegal'
           /\ Walk(SpeechDetected(interaction)) =>
                /\ interaction' = (IF interaction \in {"IDLE", "DEGRADED"} THEN "LISTENING" ELSE interaction)
                /\ ~illegal'
<1>1. CASE interaction \in {"IDLE", "DEGRADED"}
  <2>1. /\ CaptureStarted(interaction) = <<"LISTENING">> /\ SpeechDetected(interaction) = <<"LISTENING">>
        /\ CaptureStopped(interaction) = <<>>
    BY <1>1 DEF CaptureStarted, SpeechDetected, CaptureStopped, EnterListening, Foreground
  <2>2. "LISTENING" \in Transitions[interaction]
    BY <1>1, TransitionFacts
  <2> QED BY <1>1, <2>1, <2>2, WalkOne, WalkNone
<1>2. CASE interaction = "LISTENING"
  <2>1. /\ CaptureStarted(interaction) = <<>> /\ SpeechDetected(interaction) = <<>>
        /\ CaptureStopped(interaction) = <<"IDLE">>
    BY <1>2 DEF CaptureStarted, SpeechDetected, CaptureStopped, EnterListening, Foreground
  <2>2. "IDLE" \in Transitions[interaction]
    BY <1>2, TransitionFacts
  <2> QED BY <1>2, <2>1, <2>2, WalkOne, WalkNone
<1>3. CASE interaction \in {"PROCESSING", "SPEAKING"}
  <2>1. /\ CaptureStarted(interaction) = <<>> /\ SpeechDetected(interaction) = <<>>
        /\ CaptureStopped(interaction) = <<>>
    BY <1>3 DEF CaptureStarted, SpeechDetected, CaptureStopped
  <2> QED BY <1>3, <2>1, WalkNone
<1> QED BY <1>1, <1>2, <1>3 DEF Settled

LEMMA FinishTurnWalk ==
    ASSUME interaction \in {"PROCESSING", "SPEAKING"}, ~illegal,
           Walk(FinishTurn(interaction, capturing))
    PROVE  interaction' = (IF capturing THEN "LISTENING" ELSE "IDLE") /\ ~illegal'
<1>1. CASE capturing
  <2> DEFINE path == <<"IDLE">> \o <<"LISTENING">>
  <2>1. <<"IDLE">> \in Seq(InteractionStates) /\ <<"LISTENING">> \in Seq(InteractionStates)
    BY DEF InteractionStates
  <2>2. /\ path \in Seq(InteractionStates) /\ Len(path) = 2
        /\ path[1] = "IDLE" /\ path[2] = "LISTENING"
    BY <2>1, ConcatProperties
  <2>3. Walk(path)
    BY <1>1 DEF FinishTurn
  <2> HIDE DEF path
  <2>4. LegalPath(interaction, path)
    BY <2>2, TransitionFacts DEF LegalPath
  <2>5. EndOf(interaction, path) = "LISTENING"
    BY <2>2, EmptySeq DEF EndOf
  <2> QED BY <1>1, <2>3, <2>4, <2>5 DEF Walk
<1>2. CASE ~capturing
  <2>1. FinishTurn(interaction, capturing) = <<"IDLE">>
    BY <1>2 DEF FinishTurn
  <2>2. Walk(<<"IDLE">>)
    BY <2>1
  <2> QED BY <1>2, <2>2, WalkOne, TransitionFacts
<1> QED BY <1>1, <1>2

----------------------------------------------------------------------------
(* The steps of a running session *)

LEMMA InitSession == Init => SessionInv
<1> SUFFICES ASSUME Init PROVE SessionInv
  OBVIOUS
<1>1. /\ inbox = <<>> /\ Len(inbox) = 0 /\ gen = 0 /\ handler = None /\ ~illegal
      /\ turn = [g \in Generations |-> NoTurn] /\ interaction = "IDLE"
      /\ ~capturing /\ ~mic /\ \A s \in Submitters : pending[s] = None
  BY DEF Init
<1>2. /\ 0 \in Generations /\ "ws" \in Submitters /\ "asr" \in Submitters
      /\ \A g \in Generations : turn[g] = NoTurn
  BY <1>1, BoundsAssumption DEF Generations, Submitters
<1>3. ~Entering /\ ~Answering /\ ~Owned /\ ~Live(gen)
  BY <1>1, <1>2 DEF Entering, Answering, Owned, Live, NoTurn
<1>4. InOrder
  BY <1>1 DEF InOrder, Ordered
<1>5. OneOwner
  BY <1>1, <1>3 DEF OneOwner, AtMostOne
<1>6. TurnsAhead
  BY <1>2 DEF TurnsAhead, NoTurn
<1>7. StateInv
  BY <1>1, <1>3 DEF StateInv, Settled
<1>8. CaptureInv
  <2>1. Event(capturing) = Event(mic)
    BY <1>1 DEF Event
  <2>2. Covered(inbox, Event(capturing)) /\ Leaves(inbox, Event(capturing), 0, Event(mic))
    BY <1>1, <2>1 DEF Covered, Leaves
  <2>3. MicReported
    BY <1>1, <1>2, <2>2 DEF MicReported
  <2> QED BY <1>1, <2>2, <2>3 DEF CaptureInv
<1> QED BY <1>1, <1>4, <1>5, <1>6, <1>7, <1>8 DEF SessionInv, RunInv

\* The integers and queues behind the types.
LEMMA SessionTypes ==
    ASSUME TInv
    PROVE  /\ gen \in Generations /\ gen \in Nat
           /\ inbox \in Seq(CommandSet) /\ Len(inbox) \in Nat /\ DOMAIN inbox = 1 .. Len(inbox)
           /\ \A i \in 1 .. Len(inbox) : /\ inbox[i] \in CommandSet /\ inbox[i].kind \in Kinds
                                         /\ inbox[i].gen \in Nat
           /\ \A s \in Submitters : pending[s] # None =>
                /\ pending[s] \in CommandSet /\ pending[s].kind \in Kinds /\ pending[s].gen \in Nat
           /\ handler # None => handler.gen \in Generations /\ handler.gen \in Nat
           /\ \A g \in Generations : g \in Nat /\ turn[g] \in TurnSet
           /\ turn \in [Generations -> TurnSet]
           /\ pending \in [Submitters -> CommandSet \cup {None}]
           /\ "ws" \in Submitters /\ "asr" \in Submitters /\ "ws" # "asr"
<1>1. /\ gen \in Generations /\ inbox \in Seq(CommandSet) /\ turn \in [Generations -> TurnSet]
      /\ pending \in [Submitters -> CommandSet \cup {None}] /\ handler \in HandlerSet \cup {None}
  BY DEF TInv, TypeOK
<1>2. \A g \in Generations : g \in Nat
  BY BoundsAssumption DEF Generations
<1>3. Len(inbox) \in Nat /\ DOMAIN inbox = 1 .. Len(inbox)
  BY <1>1, LenProperties
<1>4. \A d \in CommandSet : d.kind \in Kinds /\ d.gen \in Nat
  BY <1>2 DEF CommandSet
<1>5. \A i \in 1 .. Len(inbox) : inbox[i] \in CommandSet
  BY <1>1, ElementOfSeq
<1>6. handler # None => handler.gen \in Generations
  BY <1>1 DEF HandlerSet
<1> QED BY <1>1, <1>2, <1>3, <1>4, <1>5, <1>6 DEF Submitters

LEMMA CommandFields ==
    ASSUME NEW kind, NEW g
    PROVE  /\ Command(kind, g).kind = kind /\ Command(kind, g).gen = g
           /\ Command(kind, g).priority = CommandPriority(kind)
  BY DEF Command

\* Kinds of commands and their priorities.
LEMMA KindFacts ==
    /\ \A kind \in CaptureKinds \cup SpeechKinds : CommandPriority(kind) = CRITICAL
    /\ \A kind \in TurnKinds : CommandPriority(kind) = HIGH
    /\ \A kind \in ForegroundKinds : CommandPriority(kind) \in {HIGH, CRITICAL}
    /\ \A kind : CommandPriority(kind) \in Nat /\ CommandPriority(kind) <= CRITICAL
    /\ TurnKinds \subseteq ForegroundKinds
    /\ \A kind \in CaptureKinds : kind \notin ForegroundKinds \cup SpeechKinds
    /\ \A kind \in Kinds \ WaitingKinds : kind \notin CaptureKinds \cup SpeechKinds
    /\ \A kind \in WaitingKinds \cap AsrKinds : kind \notin CaptureKinds \cup SpeechKinds
    /\ \A b : Event(b) \in CaptureKinds
    /\ HIGH = 75 /\ CRITICAL = 100
  BY DEF CaptureKinds, SpeechKinds, CommandPriority, TurnKinds, ForegroundKinds, WaitingKinds,
         AsrKinds, Event, CRITICAL, HIGH, LOW

\* What PriorityMailbox.put leaves of the order and the events of a queue: the
\* entry it displaces is less than CRITICAL, so it is no event of the microphone.
LEMMA PutNowKeeps ==
    ASSUME NEW q \in Seq(CommandSet), NEW capacity, NEW d \in CommandSet, NEW r,
           PutNow(q, capacity, d, r), Ordered(q, d.gen), d.priority = CommandPriority(d.kind),
           d.kind \notin CaptureKinds \cup SpeechKinds
    PROVE  /\ Ordered(r, d.gen)
           /\ NoSubmission(q, d.gen) => AtMostOne(r, d.gen)
           /\ d.kind \notin ForegroundKinds =>
                /\ AtMostOne(q, d.gen) => AtMostOne(r, d.gen)
                /\ NoSubmission(q, d.gen) => NoSubmission(r, d.gen)
                /\ NoForeground(q) => NoForeground(r)
           /\ \A c : Covered(q, c) => Covered(r, c)
           /\ \A c, e \in CaptureKinds : Leaves(q, c, Len(q), e) => Leaves(r, c, Len(r), e)
<1> DEFINE Kept(p) ==
           /\ p \in Seq(CommandSet) /\ Ordered(p, d.gen)
           /\ AtMostOne(q, d.gen) => AtMostOne(p, d.gen)
           /\ NoSubmission(q, d.gen) => NoSubmission(p, d.gen)
           /\ NoForeground(q) => NoForeground(p)
           /\ \A c : Covered(q, c) => Covered(p, c)
           /\ \A c, e \in CaptureKinds : Leaves(q, c, Len(q), e) => Leaves(p, c, Len(p), e)
<1>1. Kept(q)
  OBVIOUS
<1>2. ASSUME NEW i \in DOMAIN q, Displaces(q, i, d.priority)
      PROVE  Kept(RemoveAt(q, i))
  <2>1. i \in 1 .. Len(q) /\ Len(q) \in Nat /\ Len(q) \in 1 .. Len(q) /\ i <= Len(q)
    BY LenProperties
  <2>2. q[i].kind \notin CaptureKinds
    <3>1. q[i].priority = CommandPriority(q[i].kind) /\ d.priority > q[i].priority
      BY <1>2, <2>1 DEF Ordered, Displaces
    <3> QED BY <3>1, KindFacts
  <2>3. /\ RemoveAt(q, i) \in Seq(CommandSet) /\ Len(RemoveAt(q, i)) = Len(q) - 1
    BY <2>1, RemoveAtProperties
  <2>4. \A c : Covered(q, c) => Covered(RemoveAt(q, i), c)
    BY <2>1, <2>2, CoveredRemove
  <2>5. ASSUME NEW c, NEW e \in CaptureKinds, Leaves(q, c, Len(q), e)
        PROVE  Leaves(RemoveAt(q, i), c, Len(RemoveAt(q, i)), e)
    BY <2>1, <2>2, <2>3, <2>5, LeavesRemove
  <2> QED BY <2>1, <2>3, <2>4, <2>5, RemoveOrder
<1>3. ASSUME NEW p, Kept(p), r = Append(p, d)
      PROVE  /\ Ordered(r, d.gen)
             /\ NoSubmission(q, d.gen) => AtMostOne(r, d.gen)
             /\ d.kind \notin ForegroundKinds =>
                  /\ AtMostOne(q, d.gen) => AtMostOne(r, d.gen)
                  /\ NoSubmission(q, d.gen) => NoSubmission(r, d.gen)
                  /\ NoForeground(q) => NoForeground(r)
             /\ \A c : Covered(q, c) => Covered(r, c)
             /\ \A c, e \in CaptureKinds : Leaves(q, c, Len(q), e) => Leaves(r, c, Len(r), e)
  <2>1. Ordered(r, d.gen)
    BY <1>3, AppendOrder
  <2>2. d.kind \notin ForegroundKinds => ~Submission(d, d.gen)
    BY DEF Submission
  <2>3. /\ NoSubmission(q, d.gen) => AtMostOne(r, d.gen)
        /\ d.kind \notin ForegroundKinds =>
             /\ AtMostOne(q, d.gen) => AtMostOne(r, d.gen)
             /\ NoSubmission(q, d.gen) => NoSubmission(r, d.gen)
             /\ NoForeground(q) => NoForeground(r)
    BY <1>3, <2>2, AppendSubmission
  <2>4. \A c : Covered(q, c) => Covered(r, c)
    BY <1>3, CoveredAppend
  <2>5. \A c, e \in CaptureKinds : Leaves(q, c, Len(q), e) => Leaves(r, c, Len(r), e)
    BY <1>3, LeavesAppendOther
  <2> QED BY <2>1, <2>3, <2>4, <2>5
<1>4. CASE r = Append(q, d)
  BY <1>1, <1>3, <1>4
<1>5. CASE \E i \in DOMAIN q : Displaces(q, i, d.priority) /\ r = Append(RemoveAt(q, i), d)
  BY <1>2, <1>3, <1>5
<1>6. CASE r = q
  <2>1. NoSubmission(q, d.gen) => AtMostOne(q, d.gen)
    BY DEF NoSubmission, AtMostOne
  <2> QED BY <1>6, <2>1
<1> QED BY <1>4, <1>5, <1>6 DEF PutNow

\* Advancing the generation makes every command, turn and handler an old one.
LEMMA Advanced ==
    ASSUME TInv, RunInv, NEW kind \in ForegroundKinds, AdvanceFor(kind),
           UNCHANGED <<handler, turn, interaction>>
    PROVE  /\ Stamp(kind) = gen + 1 /\ gen' = gen + 1
           /\ ~Entering' /\ ~Answering' /\ ~Owned'
           /\ TurnsAhead' /\ StateInv'
           /\ Ordered(inbox, gen + 1) /\ NoSubmission(inbox, gen + 1)
           /\ \A s \in Submitters : pending[s] # None =>
                pending[s].gen <= gen + 1 /\ ~Submission(pending[s], gen + 1)
           /\ handler # None => handler.gen <= gen + 1
<1>1. gen \in Nat /\ gen + 1 \in Generations /\ gen' = gen + 1 /\ Stamp(kind) = gen + 1
  BY SessionTypes, BoundsAssumption DEF AdvanceFor, Stamp, Generations
<1>2. /\ Ordered(inbox, gen) /\ inbox \in Seq(CommandSet)
      /\ \A s \in Submitters : pending[s] # None => pending[s].gen \in Nat /\ pending[s].gen <= gen
      /\ handler # None => handler.gen \in Nat /\ handler.gen <= gen
  BY SessionTypes DEF RunInv, InOrder
<1>3. Ordered(inbox, gen + 1) /\ NoSubmission(inbox, gen + 1)
  BY <1>1, <1>2, AdvanceOrder
<1>4. \A s \in Submitters : pending[s] # None =>
                pending[s].gen <= gen + 1 /\ ~Submission(pending[s], gen + 1)
  BY <1>1, <1>2 DEF Submission
<1>5. ~Entering' /\ ~Answering'
  BY <1>1, <1>2 DEF Entering, Answering
<1>6. turn'[gen'].pc = "off"
  BY <1>1 DEF RunInv, TurnsAhead
<1>7. TurnsAhead'
  <2>1. \A g \in Generations : g \in Nat
    BY BoundsAssumption DEF Generations
  <2> QED BY <1>1, <2>1 DEF RunInv, TurnsAhead
<1>8. StateInv'
  BY <1>5, <1>6 DEF StateInv, Live, Answer, RunInv
<1> QED BY <1>1, <1>2, <1>3, <1>4, <1>5, <1>6, <1>7, <1>8 DEF Owned

LEMMA SubmitKeeps ==
    ASSUME TInv, RunInv, NEW kind \in Commands, Submit(kind)
    PROVE  RunInv'
<1> DEFINE d == Command(kind, Stamp(kind))
<1>1. /\ kind \in Kinds /\ AdvanceFor(kind) /\ kind \notin CaptureKinds \cup SpeechKinds
      /\ PutNow(inbox, InboxCapacity, d, inbox')
      /\ UNCHANGED <<pending, handler, turn, interaction, capturing, mic>>
  BY CommandsAssumption, KindFacts DEF Submit, inputs
<1>2. /\ d \in CommandSet /\ d.kind = kind /\ d.gen = gen' /\ d.priority = CommandPriority(kind)
  BY <1>1, CommandType, CommandFields, StampType DEF TInv
<1> HIDE DEF d
<1>3. inbox \in Seq(CommandSet) /\ gen \in Nat
  BY SessionTypes
<1>4. /\ Covered(inbox, Event(capturing)) /\ MicReported
      /\ interaction = "IDLE" => ~capturing
      /\ interaction = "LISTENING" => capturing
      /\ TurnsAhead /\ StateInv /\ InOrder /\ OneOwner
  BY DEF RunInv, CaptureInv
<1>5. Ordered(inbox, gen')
  <2>1. CASE kind \in ForegroundKinds
    BY <1>1, <2>1, Advanced
  <2>2. CASE kind \notin ForegroundKinds
    BY <1>1, <1>4, <2>2 DEF AdvanceFor, Stamp, InOrder
  <2> QED BY <2>1, <2>2
<1>6. /\ Ordered(inbox', gen')
      /\ NoSubmission(inbox, gen') => AtMostOne(inbox', gen')
      /\ kind \notin ForegroundKinds =>
           /\ AtMostOne(inbox, gen') => AtMostOne(inbox', gen')
           /\ NoSubmission(inbox, gen') => NoSubmission(inbox', gen')
           /\ NoForeground(inbox) => NoForeground(inbox')
      /\ \A c : Covered(inbox, c) => Covered(inbox', c)
      /\ \A c, e \in CaptureKinds :
           Leaves(inbox, c, Len(inbox), e) => Leaves(inbox', c, Len(inbox'), e)
  BY <1>1, <1>2, <1>3, <1>5, PutNowKeeps
<1>7. CaptureInv'
  <2>1. Event(capturing') = Event(capturing) /\ Event(mic') = Event(mic)
    BY <1>1
  <2>2. Covered(inbox', Event(capturing'))
    BY <1>4, <1>6, <2>1
  <2>3. Event(capturing) \in CaptureKinds /\ Event(mic) \in CaptureKinds
    BY KindFacts
  <2>4. MicReported'
    BY <1>1, <1>4, <1>6, <2>1, <2>3 DEF MicReported
  <2> QED BY <1>1, <1>4, <2>2, <2>4 DEF CaptureInv
<1>8. CASE kind \in ForegroundKinds
  <2>1. /\ gen' = gen + 1 /\ ~Answering' /\ ~Owned' /\ TurnsAhead' /\ StateInv'
        /\ NoSubmission(inbox, gen + 1)
        /\ \A s \in Submitters : pending[s] # None =>
                pending[s].gen <= gen + 1 /\ ~Submission(pending[s], gen + 1)
        /\ handler # None => handler.gen <= gen + 1
    BY <1>1, <1>8, Advanced
  <2>2. InOrder'
    BY <1>1, <1>4, <1>6, <2>1 DEF InOrder
  <2>3. OneOwner'
    BY <1>1, <1>6, <2>1 DEF OneOwner
  <2> QED BY <1>7, <2>1, <2>2, <2>3 DEF RunInv
<1>9. CASE kind \notin ForegroundKinds
  <2>1. gen' = gen
    BY <1>1, <1>9 DEF AdvanceFor, Stamp
  <2>2. InOrder'
    BY <1>1, <1>4, <1>6, <2>1 DEF InOrder
  <2>3. (Entering' <=> Entering) /\ (Answering' <=> Answering) /\ (Owned' <=> Owned)
    BY <1>1, <2>1 DEF Entering, Answering, Owned
  <2>4. OneOwner'
    BY <1>1, <1>4, <1>6, <1>9, <2>1, <2>3 DEF OneOwner
  <2>5. TurnsAhead' /\ StateInv'
    BY <1>1, <1>4, <2>1, <2>3 DEF TurnsAhead, StateInv, Live, Answer
  <2> QED BY <1>7, <2>2, <2>4, <2>5 DEF RunInv
<1> QED BY <1>8, <1>9

\* A submitter that will wait for room now holds a command of the current
\* generation; the inbox is as it was.
LEMMA WaitingKeeps ==
    ASSUME TInv, RunInv, NEW kind \in Kinds, NEW s \in Submitters, AdvanceFor(kind),
           pending' \in [Submitters -> CommandSet \cup {None}],
           pending'[s] = Command(kind, Stamp(kind)),
           \A t \in Submitters \ {s} : pending'[t] = pending[t] \/ pending'[t] = None,
           UNCHANGED <<inbox, handler, turn, interaction, capturing>>
    PROVE  InOrder' /\ OneOwner' /\ TurnsAhead' /\ StateInv'
<1>1. /\ gen' = Stamp(kind) /\ pending'[s].kind = kind /\ pending'[s].gen = gen'
      /\ pending'[s].priority = CommandPriority(kind) /\ gen' \in Nat /\ gen \in Nat
  <2>1. gen' \in Nat
    BY StampType, BoundsAssumption DEF TInv, Generations
  <2> QED BY <2>1, CommandFields, SessionTypes DEF AdvanceFor
<1>2. InOrder /\ OneOwner /\ TurnsAhead /\ StateInv
  BY DEF RunInv
<1>3. CASE kind \in ForegroundKinds
  <2>1. /\ gen' = gen + 1 /\ ~Answering' /\ ~Owned' /\ TurnsAhead' /\ StateInv'
        /\ Ordered(inbox, gen + 1) /\ NoSubmission(inbox, gen + 1)
        /\ \A t \in Submitters : pending[t] # None =>
                pending[t].gen <= gen + 1 /\ ~Submission(pending[t], gen + 1)
        /\ handler # None => handler.gen <= gen + 1
    BY <1>3, Advanced
  <2>2. InOrder'
    <3>1. ASSUME NEW t \in Submitters, pending'[t] # None
          PROVE  pending'[t].priority = CommandPriority(pending'[t].kind) /\ pending'[t].gen <= gen'
      <4>1. CASE t = s
        BY <1>1, <4>1
      <4>2. CASE t # s
        BY <1>2, <2>1, <3>1, <4>2 DEF InOrder
      <4> QED BY <4>1, <4>2
    <3> QED BY <2>1, <3>1 DEF InOrder
  <2>3. OneOwner'
    <3>1. AtMostOne(inbox, gen + 1)
      BY <2>1 DEF NoSubmission, AtMostOne
    <3>2. ASSUME NEW t \in Submitters, t # s
          PROVE  pending'[t] = None \/ ~Submission(pending'[t], gen')
      BY <2>1, <3>2
    <3> QED BY <2>1, <3>1, <3>2 DEF OneOwner
  <2> QED BY <2>1, <2>2, <2>3
<1>4. CASE kind \notin ForegroundKinds
  <2>1. gen' = gen /\ ~Submission(pending'[s], gen')
    BY <1>1, <1>4 DEF AdvanceFor, Stamp, Submission
  <2>2. InOrder'
    <3>1. ASSUME NEW t \in Submitters, pending'[t] # None
          PROVE  pending'[t].priority = CommandPriority(pending'[t].kind) /\ pending'[t].gen <= gen'
      <4>1. CASE t = s
        BY <1>1, <4>1
      <4>2. CASE t # s
        BY <1>2, <2>1, <3>1, <4>2 DEF InOrder
      <4> QED BY <4>1, <4>2
    <3> QED BY <1>2, <2>1, <3>1 DEF InOrder
  <2>3. (Entering' <=> Entering) /\ (Answering' <=> Answering) /\ (Owned' <=> Owned)
    BY <2>1 DEF Entering, Answering, Owned
  <2>4. OneOwner'
    <3>1. ASSUME NEW t \in Submitters, pending'[t] # None, Submission(pending'[t], gen')
          PROVE  /\ NoSubmission(inbox', gen')
                 /\ \A u \in Submitters \ {t} : pending'[u] = None \/ ~Submission(pending'[u], gen')
                 /\ ~Owned'
      <4>1. t # s /\ pending'[t] = pending[t]
        BY <2>1, <3>1
      <4>2. /\ NoSubmission(inbox, gen) /\ ~Owned
            /\ \A u \in Submitters \ {t} : pending[u] = None \/ ~Submission(pending[u], gen)
        BY <1>2, <2>1, <3>1, <4>1 DEF OneOwner
      <4>3. ASSUME NEW u \in Submitters \ {t}
            PROVE  pending'[u] = None \/ ~Submission(pending'[u], gen')
        <5>1. CASE u = s
          BY <2>1, <5>1
        <5>2. CASE u # s
          BY <2>1, <4>2, <5>2
        <5> QED BY <5>1, <5>2
      <4> QED BY <2>1, <2>3, <4>2, <4>3
    <3> QED BY <1>2, <2>1, <2>3, <3>1 DEF OneOwner
  <2>5. TurnsAhead' /\ StateInv'
    BY <1>2, <2>1, <2>3 DEF TurnsAhead, StateInv, Live, Answer
  <2> QED BY <2>2, <2>4, <2>5
<1> QED BY <1>3, <1>4

LEMMA SubmitVoiceKeeps ==
    ASSUME TInv, RunInv, NEW kind \in Commands, SubmitVoice(kind)
    PROVE  RunInv'
<1>1. /\ kind \in Kinds /\ kind \in CaptureKinds \cup SpeechKinds /\ AdvanceFor(kind)
      /\ pending["ws"] = None
      /\ mic = (kind # "capture_started") /\ mic' = (kind # "capture_stopped")
      /\ UNCHANGED <<inbox, handler, turn, interaction, capturing>>
  BY CommandsAssumption DEF SubmitVoice, Idle
<1>2. /\ pending' \in [Submitters -> CommandSet \cup {None}]
      /\ pending'["ws"] = Command(kind, Stamp(kind))
      /\ pending'["asr"] = pending["asr"] \/ pending'["asr"] = None
      /\ "ws" \in Submitters
      /\ \A t \in Submitters \ {"ws"} : pending'[t] = pending[t] \/ pending'[t] = None
  <2>1. TInv'
    BY SubmissionType
  <2>2. pending' \in [Submitters -> CommandSet \cup {None}]
    BY <2>1 DEF TInv, TypeOK
  <2> QED BY <2>2 DEF SubmitVoice, Submitters
<1>3. InOrder' /\ OneOwner' /\ TurnsAhead' /\ StateInv'
  BY <1>1, <1>2, WaitingKeeps
<1>4. pending'["ws"].kind = kind /\ pending'["ws"] # None
  <2>1. Command(kind, Stamp(kind)) \in CommandSet
    BY <1>1, StampType, CommandType DEF TInv
  <2> QED BY <1>2, <2>1, CommandFields, NoneAssumption
<1>5. MicReported /\ Leaves(inbox, Event(capturing), Len(inbox), Event(mic))
  BY <1>1 DEF RunInv, CaptureInv, MicReported
<1>6. MicReported'
  <2>1. pending'["asr"] # None => pending'["asr"].kind \in WaitingKinds \cap AsrKinds
    BY <1>2, <1>5 DEF MicReported
  <2>2. CASE kind \in CaptureKinds
    <3>1. kind = Event(mic')
      BY <1>1, <2>2 DEF Event, CaptureKinds
    <3>2. kind \notin SpeechKinds
      BY <2>2, KindFacts
    <3> QED BY <1>1, <1>4, <2>1, <2>2, <3>1, <3>2 DEF MicReported
  <2>3. CASE kind \in SpeechKinds
    <3>1. kind \notin CaptureKinds /\ kind # "capture_started" /\ kind # "capture_stopped"
      BY <2>3 DEF SpeechKinds, CaptureKinds
    <3>2. mic' /\ Event(mic') = Event(mic)
      BY <1>1, <3>1 DEF Event
    <3> QED BY <1>1, <1>4, <1>5, <2>1, <3>1, <3>2 DEF MicReported
  <2> QED BY <1>1, <2>2, <2>3
<1> QED BY <1>1, <1>3, <1>6 DEF RunInv, CaptureInv

LEMMA SubmitTranscriptKeeps ==
    ASSUME TInv, RunInv, NEW kind \in Commands, SubmitTranscript(kind)
    PROVE  RunInv'
<1>1. /\ kind \in Kinds /\ kind \in WaitingKinds \cap AsrKinds /\ AdvanceFor(kind)
      /\ pending' = [pending EXCEPT !["asr"] = Command(kind, Stamp(kind))]
      /\ UNCHANGED <<inbox, handler, turn, interaction, capturing, mic>>
  BY CommandsAssumption DEF SubmitTranscript, inputs
<1>2. /\ pending' \in [Submitters -> CommandSet \cup {None}]
      /\ pending'["asr"] = Command(kind, Stamp(kind))
      /\ pending'["ws"] = pending["ws"]
      /\ "asr" \in Submitters
      /\ \A t \in Submitters \ {"asr"} : pending'[t] = pending[t] \/ pending'[t] = None
  <2>1. TInv'
    BY SubmissionType
  <2>2. pending' \in [Submitters -> CommandSet \cup {None}]
    BY <2>1 DEF TInv, TypeOK
  <2> QED BY <1>1, <2>2, SessionTypes
<1>3. InOrder' /\ OneOwner' /\ TurnsAhead' /\ StateInv'
  BY <1>1, <1>2, WaitingKeeps
<1>4. MicReported'
  <2>1. pending'["asr"].kind = kind
    BY <1>2, CommandFields
  <2> QED BY <1>1, <1>2, <2>1 DEF RunInv, CaptureInv, MicReported
<1> QED BY <1>1, <1>3, <1>4 DEF RunInv, CaptureInv

LEMMA AdmitKeeps ==
    ASSUME TInv, RunInv, NEW s \in Submitters, Admit(s)
    PROVE  RunInv'
<1> DEFINE d == pending[s]
<1>1. /\ d \in CommandSet /\ d # None /\ d.gen = gen /\ inbox' = Append(inbox, d)
      /\ inbox \in Seq(CommandSet)
      /\ pending'[s] = None /\ \A t \in Submitters \ {s} : pending'[t] = pending[t]
      /\ UNCHANGED <<gen, handler, turn, interaction, capturing, mic>>
  BY SessionTypes DEF Admit, Accepts, inputs
<1>2. InOrder /\ OneOwner /\ TurnsAhead /\ StateInv /\ CaptureInv
  BY DEF RunInv
<1>3. d.priority = CommandPriority(d.kind)
  BY <1>1, <1>2 DEF InOrder
<1>4. InOrder'
  <2>1. Ordered(inbox', gen)
    BY <1>1, <1>2, <1>3, AppendOrder DEF InOrder
  <2>2. \A t \in Submitters : pending'[t] # None => t \in Submitters \ {s} /\ pending'[t] = pending[t]
    BY <1>1
  <2> QED BY <1>1, <1>2, <2>1, <2>2 DEF InOrder
<1>5. (Entering' <=> Entering) /\ (Answering' <=> Answering) /\ (Owned' <=> Owned)
  BY <1>1 DEF Entering, Answering, Owned
<1>6. TurnsAhead' /\ StateInv'
  BY <1>1, <1>2, <1>5 DEF TurnsAhead, StateInv, Live, Answer
<1>7. OneOwner'
  <2>1. CASE Submission(d, gen)
    <3>1. /\ NoSubmission(inbox, gen) /\ ~Owned
          /\ \A t \in Submitters \ {s} : pending[t] = None \/ ~Submission(pending[t], gen)
      BY <1>1, <1>2, <2>1 DEF OneOwner
    <3>2. AtMostOne(inbox', gen)
      BY <1>1, <3>1, AppendSubmission
    <3>3. \A t \in Submitters : pending'[t] = None \/ ~Submission(pending'[t], gen)
      BY <1>1, <3>1
    <3> QED BY <1>1, <1>2, <1>5, <3>1, <3>2, <3>3 DEF OneOwner
  <2>2. CASE ~Submission(d, gen)
    <3>1. d.kind \notin ForegroundKinds
      BY <1>1, <2>2 DEF Submission
    <3>2. /\ AtMostOne(inbox', gen)
          /\ NoSubmission(inbox, gen) => NoSubmission(inbox', gen)
          /\ NoForeground(inbox) => NoForeground(inbox')
      BY <1>1, <1>2, <2>2, <3>1, AppendSubmission DEF OneOwner
    <3>3. ASSUME NEW t \in Submitters, pending'[t] # None, Submission(pending'[t], gen)
          PROVE  /\ NoSubmission(inbox', gen) /\ ~Owned
                 /\ \A u \in Submitters \ {t} : pending'[u] = None \/ ~Submission(pending'[u], gen)
      <4>1. t # s /\ pending'[t] = pending[t]
        BY <1>1, <3>3
      <4>2. /\ NoSubmission(inbox, gen) /\ ~Owned
            /\ \A u \in Submitters \ {t} : pending[u] = None \/ ~Submission(pending[u], gen)
        BY <1>2, <3>3, <4>1 DEF OneOwner
      <4> QED BY <1>1, <3>2, <4>2
    <3> QED BY <1>1, <1>2, <1>5, <3>2, <3>3 DEF OneOwner
  <2> QED BY <2>1, <2>2
<1>8. CaptureInv'
  <2>1. Covered(inbox, Event(capturing)) /\ MicReported
    BY <1>2 DEF CaptureInv
  <2>2. CASE s = "ws"
    <3>0. /\ d.kind \in CaptureKinds \cup SpeechKinds /\ pending'["ws"] = None
          /\ pending'["asr"] = pending["asr"]
      BY <1>1, <2>1, <2>2, SessionTypes DEF MicReported
    <3>1. CASE d.kind \in CaptureKinds
      <4>1. d.kind \notin SpeechKinds /\ d.kind = Event(mic)
        BY <1>1, <2>1, <2>2, <3>1, KindFacts DEF MicReported
      <4>2. Covered(inbox', Event(capturing))
        BY <1>1, <2>1, <4>1, CoveredAppend
      <4>3. Leaves(inbox', Event(capturing), Len(inbox'), Event(mic))
        BY <1>1, <3>1, <4>1, LeavesAppendCapture
      <4>4. MicReported'
        BY <1>1, <2>1, <3>0, <4>3 DEF MicReported
      <4> QED BY <1>1, <1>2, <4>2, <4>4 DEF CaptureInv
    <3>2. CASE d.kind \in SpeechKinds
      <4>1. d.kind \notin CaptureKinds
        BY <3>2, KindFacts
      <4>2. mic /\ Leaves(inbox, Event(capturing), Len(inbox), Event(mic))
        BY <1>1, <2>1, <2>2, <3>2, <4>1 DEF MicReported
      <4>3. Event(mic) = "capture_started"
        BY <4>2 DEF Event
      <4>4. Covered(inbox', Event(capturing))
        BY <1>1, <2>1, <4>2, <4>3, CoveredAppend
      <4>5. Leaves(inbox', Event(capturing), Len(inbox'), Event(mic))
        BY <1>1, <4>1, <4>2, LeavesAppendOther
      <4>6. MicReported'
        BY <1>1, <2>1, <3>0, <4>5 DEF MicReported
      <4> QED BY <1>1, <1>2, <4>4, <4>6 DEF CaptureInv
    <3> QED BY <3>0, <3>1, <3>2
  <2>3. CASE s = "asr"
    <3>1. /\ d.kind \in WaitingKinds \cap AsrKinds /\ pending'["asr"] = None
          /\ pending'["ws"] = pending["ws"]
      BY <1>1, <2>1, <2>3, SessionTypes DEF MicReported
    <3>2. d.kind \notin CaptureKinds \cup SpeechKinds
      BY <3>1, KindFacts
    <3>3. Covered(inbox', Event(capturing))
      BY <1>1, <2>1, <3>2, CoveredAppend
    <3>4. Leaves(inbox, Event(capturing), Len(inbox), Event(mic)) =>
          Leaves(inbox', Event(capturing), Len(inbox'), Event(mic))
      BY <1>1, <3>2, LeavesAppendOther
    <3>5. MicReported'
      BY <1>1, <2>1, <3>1, <3>4 DEF MicReported
    <3> QED BY <1>1, <1>2, <3>3, <3>5 DEF CaptureInv
  <2> QED BY <2>2, <2>3 DEF Submitters
<1> QED BY <1>4, <1>6, <1>7, <1>8 DEF RunInv

\* A capture event that was superseded is submitted again, and still tells the
\* truth about the microphone; any other submission is given up.
LEMMA AdmitCancelledKeeps ==
    ASSUME TInv, RunInv, phase = "running", NEW s \in Submitters, AdmitCancelled(s)
    PROVE  RunInv'
<1> DEFINE d == pending[s]
<1>1. /\ d \in CommandSet /\ d # None
      /\ pending'[s] = Retry(d) /\ \A t \in Submitters \ {s} : pending'[t] = pending[t]
      /\ UNCHANGED <<gen, inbox, handler, turn, interaction, capturing, mic>>
      /\ gen \in Nat /\ gen \in Generations /\ d.kind \in Kinds
  BY SessionTypes DEF AdmitCancelled, inputs
<1>2. InOrder /\ OneOwner /\ TurnsAhead /\ StateInv /\ CaptureInv
  BY DEF RunInv
<1>3. /\ d.kind \in CaptureKinds =>
           /\ pending'[s] # None /\ pending'[s].kind = d.kind /\ pending'[s].gen = gen
           /\ pending'[s].priority = CommandPriority(d.kind)
           /\ d.kind \notin ForegroundKinds
      /\ d.kind \notin CaptureKinds => pending'[s] = None
  <2>1. Command(d.kind, gen) \in CommandSet
    BY <1>1, CommandType
  <2> QED BY <1>1, <2>1, CommandFields, KindFacts, NoneAssumption DEF Retry
<1>4. InOrder'
  <2>1. ASSUME NEW t \in Submitters, pending'[t] # None
        PROVE  pending'[t].priority = CommandPriority(pending'[t].kind) /\ pending'[t].gen <= gen
    <3>1. CASE t = s
      BY <1>1, <1>3, <2>1, <3>1
    <3>2. CASE t # s
      BY <1>1, <1>2, <2>1, <3>2 DEF InOrder
    <3> QED BY <3>1, <3>2
  <2> QED BY <1>1, <1>2, <2>1 DEF InOrder
<1>5. (Entering' <=> Entering) /\ (Answering' <=> Answering) /\ (Owned' <=> Owned)
  BY <1>1 DEF Entering, Answering, Owned
<1>6. TurnsAhead' /\ StateInv'
  BY <1>1, <1>2, <1>5 DEF TurnsAhead, StateInv, Live, Answer
<1>7. OneOwner'
  <2>1. pending'[s] = None \/ ~Submission(pending'[s], gen)
    BY <1>3 DEF Submission
  <2>2. ASSUME NEW t \in Submitters, pending'[t] # None, Submission(pending'[t], gen)
        PROVE  /\ NoSubmission(inbox, gen) /\ ~Owned
               /\ \A u \in Submitters \ {t} : pending'[u] = None \/ ~Submission(pending'[u], gen)
    <3>1. t # s /\ pending'[t] = pending[t]
      BY <1>1, <2>1, <2>2
    <3>2. /\ NoSubmission(inbox, gen) /\ ~Owned
          /\ \A u \in Submitters \ {t} : pending[u] = None \/ ~Submission(pending[u], gen)
      BY <1>2, <2>2, <3>1 DEF OneOwner
    <3>3. ASSUME NEW u \in Submitters \ {t}
          PROVE  pending'[u] = None \/ ~Submission(pending'[u], gen)
      <4>1. CASE u = s
        BY <2>1, <4>1
      <4>2. CASE u # s
        BY <1>1, <3>2, <4>2
      <4> QED BY <4>1, <4>2
    <3> QED BY <3>2, <3>3
  <2> QED BY <1>1, <1>2, <1>5, <2>2 DEF OneOwner
<1>8. CaptureInv'
  <2>1. MicReported
    BY <1>2 DEF CaptureInv
  <2>2. CASE s = "ws"
    <3>1. pending'["asr"] = pending["asr"]
      BY <1>1, <2>2, SessionTypes
    <3>2. CASE d.kind \in CaptureKinds
      <4>1. d.kind = Event(mic) /\ d.kind \notin SpeechKinds
        BY <1>1, <2>1, <2>2, <3>2, KindFacts DEF MicReported
      <4>2. MicReported'
        BY <1>1, <1>3, <2>1, <2>2, <3>1, <3>2, <4>1 DEF MicReported
      <4> QED BY <1>1, <1>2, <4>2 DEF CaptureInv
    <3>3. CASE d.kind \notin CaptureKinds
      <4>1. Leaves(inbox, Event(capturing), Len(inbox), Event(mic))
        BY <2>1, <2>2, <3>3 DEF MicReported
      <4>2. MicReported'
        BY <1>1, <1>3, <2>1, <2>2, <3>1, <3>3, <4>1 DEF MicReported
      <4> QED BY <1>1, <1>2, <4>2 DEF CaptureInv
    <3> QED BY <3>2, <3>3
  <2>3. CASE s = "asr"
    <3>1. pending'["ws"] = pending["ws"]
      BY <1>1, <2>3, SessionTypes
    <3>2. d.kind \notin CaptureKinds
      BY <1>1, <2>1, <2>3, KindFacts DEF MicReported
    <3>3. MicReported'
      BY <1>1, <1>3, <2>1, <2>3, <3>1, <3>2 DEF MicReported
    <3> QED BY <1>1, <1>2, <3>3 DEF CaptureInv
  <2> QED BY <2>2, <2>3 DEF Submitters
<1> QED BY <1>4, <1>6, <1>7, <1>8 DEF RunInv

\* What the actor finds when it takes its next message.
LEMMA NextMessage ==
    ASSUME TInv, RunInv, NEW i \in 1 .. Len(inbox), IsNext(inbox, i)
    PROVE  /\ \A k \in 1 .. i - 1 : inbox[k].kind \notin CaptureKinds \cup SpeechKinds
           /\ inbox[i].kind \in SpeechKinds => capturing
           /\ Submission(inbox[i], gen) /\ inbox[i].kind \in TurnKinds =>
                \A j \in 1 .. Len(inbox) : j # i => inbox[j].kind \notin ForegroundKinds
<1>1. /\ Ordered(inbox, gen) /\ AtMostOne(inbox, gen) /\ Covered(inbox, Event(capturing))
      /\ DOMAIN inbox = 1 .. Len(inbox) /\ Len(inbox) \in Nat /\ gen \in Nat
      /\ \A j \in 1 .. Len(inbox) : inbox[j].gen \in Nat
  BY SessionTypes DEF RunInv, InOrder, OneOwner, CaptureInv
<1>2. \A j \in 1 .. Len(inbox) : /\ inbox[j].priority = CommandPriority(inbox[j].kind)
                                 /\ inbox[j].priority \in Nat /\ inbox[j].priority <= CRITICAL
  BY <1>1, KindFacts DEF Ordered
<1>3. \A j \in 1 .. Len(inbox) : \/ inbox[j].priority < inbox[i].priority
                                 \/ inbox[j].priority = inbox[i].priority /\ i <= j
  BY <1>1 DEF IsNext
<1>4. ASSUME NEW k \in 1 .. i - 1
      PROVE  inbox[k].kind \notin CaptureKinds \cup SpeechKinds
  <2>1. k \in 1 .. Len(inbox) /\ ~(i <= k)
    BY <1>1
  <2>2. inbox[k].priority < inbox[i].priority
    BY <1>3, <2>1
  <2>3. inbox[k].priority # CRITICAL
    BY <1>2, <2>1, <2>2, KindFacts
  <2> QED BY <1>2, <2>1, <2>3, KindFacts
<1>5. ASSUME inbox[i].kind \in SpeechKinds
      PROVE  capturing
  <2>1. Leaves(inbox, Event(capturing), i - 1, "capture_started")
    BY <1>1, <1>5 DEF Covered
  <2>2. Event(capturing) = "capture_started"
    BY <1>4, <2>1 DEF Leaves
  <2> QED BY <2>2 DEF Event
<1>6. ASSUME Submission(inbox[i], gen), inbox[i].kind \in TurnKinds,
             NEW j \in 1 .. Len(inbox), j # i, inbox[j].kind \in ForegroundKinds
      PROVE  FALSE
  <2>1. inbox[i].priority = HIGH /\ inbox[j].priority \in {HIGH, CRITICAL}
    BY <1>2, <1>6, KindFacts
  <2>2. i < j
    BY <1>1, <1>3, <1>6, <2>1, KindFacts
  <2>3. inbox[i].gen <= inbox[j].gen /\ inbox[j].gen <= gen /\ inbox[i].gen = gen
    BY <1>1, <1>6, <2>2 DEF Ordered, Submission
  <2>4. Submission(inbox[j], gen)
    BY <1>1, <1>6, <2>3 DEF Submission
  <2> QED BY <1>1, <1>6, <2>4 DEF AtMostOne
<1> QED BY <1>4, <1>5, <1>6

\* Where each kind of command leaves the interaction state.
LEMMA HandleWalk ==
    ASSUME interaction \in Settled, ~illegal, NEW kind, Walk(PathOf(kind))
    PROVE  /\ ~illegal' /\ interaction' \in Settled
           /\ kind \in TurnKinds => interaction' = "PROCESSING"
           /\ kind \notin ForegroundKinds /\ interaction \in {"PROCESSING", "SPEAKING"} =>
                interaction' = interaction
           /\ kind = "cancel" => interaction' = IF capturing THEN "LISTENING" ELSE "IDLE"
           /\ kind = "barge_in" => interaction' = "LISTENING"
           /\ kind \in {"speech", "capture_started"} => 
                interaction' = IF interaction \in {"IDLE", "DEGRADED"} THEN "LISTENING" ELSE interaction
           /\ kind = "capture_stopped" =>
                interaction' = IF interaction = "LISTENING" THEN "IDLE" ELSE interaction
           /\ kind \notin TurnKinds \cup {"cancel", "barge_in", "speech"} \cup CaptureKinds =>
                interaction' = interaction
<1> USE DEF TurnKinds, ForegroundKinds, CaptureKinds, Settled
<1>1. CASE kind \in TurnKinds
  <2>1. Walk(EnterProcessing(interaction))
    BY <1>1 DEF PathOf
  <2> QED BY <1>1, <2>1, EnterProcessingWalk
<1>2. CASE kind = "cancel"
  <2>1. Walk(AcceptCancel(interaction, capturing))
    BY <1>2 DEF PathOf
  <2> QED BY <1>2, <2>1, AcceptCancelWalk
<1>3. CASE kind = "barge_in"
  <2>1. Walk(EnterListening(interaction))
    BY <1>3 DEF PathOf
  <2> QED BY <1>3, <2>1, EnterListeningWalk
<1>4. CASE kind = "speech"
  <2>1. Walk(SpeechDetected(interaction))
    BY <1>4 DEF PathOf
  <2> QED BY <1>4, <2>1, CaptureWalk
<1>5. CASE kind = "capture_started"
  <2>1. Walk(CaptureStarted(interaction))
    BY <1>5 DEF PathOf
  <2> QED BY <1>5, <2>1, CaptureWalk
<1>6. CASE kind = "capture_stopped"
  <2>1. Walk(CaptureStopped(interaction))
    BY <1>6 DEF PathOf
  <2> QED BY <1>6, <2>1, CaptureWalk
<1>7. CASE kind \notin TurnKinds \cup {"cancel", "barge_in", "speech"} \cup CaptureKinds
  <2>1. Walk(<<>>)
    BY <1>7 DEF PathOf
  <2> QED BY <1>7, <2>1, WalkNone
<1> QED BY <1>1, <1>2, <1>3, <1>4, <1>5, <1>6, <1>7

LEMMA HandleKeeps ==
    ASSUME TInv, RunInv, ~illegal, Handle
    PROVE  RunInv' /\ ~illegal'
<1>0. /\ inbox \in Seq(CommandSet) /\ DOMAIN inbox = 1 .. Len(inbox) /\ Len(inbox) \in Nat
      /\ gen \in Nat /\ gen \in Generations
  BY SessionTypes
<1>1. PICK i \in 1 .. Len(inbox) :
        /\ IsNext(inbox, i)
        /\ inbox' = RemoveAt(inbox, i)
        /\ handler' = [kind |-> inbox[i].kind, gen |-> inbox[i].gen,
                       replies |-> Replies(inbox[i].kind)]
        /\ capturing' = IF inbox[i].kind \in CaptureKinds
                        THEN inbox[i].kind = "capture_started" ELSE capturing
        /\ Walk(PathOf(inbox[i].kind))
  BY <1>0 DEF Handle
<1> DEFINE kind == inbox[i].kind
<1>2. /\ handler = None /\ UNCHANGED <<gen, pending, turn, mic>>
      /\ handler'.kind = kind /\ handler'.gen = inbox[i].gen
  BY <1>1 DEF Handle, inputs
<1>3. InOrder /\ OneOwner /\ TurnsAhead /\ StateInv /\ CaptureInv
  BY DEF RunInv
<1>4. /\ \A k \in 1 .. i - 1 : inbox[k].kind \notin CaptureKinds \cup SpeechKinds
      /\ kind \in SpeechKinds => capturing
      /\ Submission(inbox[i], gen) /\ kind \in TurnKinds =>
                \A j \in 1 .. Len(inbox) : j # i => inbox[j].kind \notin ForegroundKinds
  BY <1>1, NextMessage
<1>5. /\ interaction \in Settled
      /\ ~illegal' /\ interaction' \in Settled
      /\ kind \in TurnKinds => interaction' = "PROCESSING"
      /\ kind \notin ForegroundKinds /\ interaction \in {"PROCESSING", "SPEAKING"} =>
                interaction' = interaction
      /\ kind = "cancel" => interaction' = IF capturing THEN "LISTENING" ELSE "IDLE"
      /\ kind = "barge_in" => interaction' = "LISTENING"
      /\ kind \in {"speech", "capture_started"} => 
                interaction' = IF interaction \in {"IDLE", "DEGRADED"} THEN "LISTENING" ELSE interaction
      /\ kind = "capture_stopped" =>
                interaction' = IF interaction = "LISTENING" THEN "IDLE" ELSE interaction
      /\ kind \notin TurnKinds \cup {"cancel", "barge_in", "speech"} \cup CaptureKinds =>
                interaction' = interaction
  BY <1>1, <1>3, HandleWalk DEF StateInv
<1>6. /\ Ordered(inbox', gen) /\ AtMostOne(inbox', gen)
      /\ NoSubmission(inbox, gen) => NoSubmission(inbox', gen)
      /\ NoForeground(inbox) => NoForeground(inbox')
  BY <1>0, <1>1, <1>3, RemoveOrder DEF InOrder, OneOwner
<1>7. InOrder'
  BY <1>2, <1>3, <1>6, <1>0, <1>1 DEF InOrder, Ordered
<1>8. /\ ~Entering /\ (Entering' => Submission(inbox[i], gen) /\ kind \in TurnKinds)
      /\ Answering' => kind \in ForegroundKinds
  BY <1>2, KindFacts DEF Entering, Answering, Submission
\* A foreground command is never taken from under a turn that owns the state.
<1>9. kind \in ForegroundKinds => turn[gen].pc = "off"
  BY <1>3 DEF OneOwner, NoForeground, Owned
<1>10. OneOwner'
  <2>1. Answering' => turn[gen].pc = "off"
    BY <1>8, <1>9
  <2>2. ASSUME Entering' PROVE NoForeground(inbox')
    <3>1. \A j \in 1 .. Len(inbox) : j # i => inbox[j].kind \notin ForegroundKinds
      BY <1>4, <1>8, <2>2
    <3>2. /\ Len(inbox') = Len(inbox) - 1
          /\ \A j \in 1 .. Len(inbox) - 1 : inbox'[j] = IF j < i THEN inbox[j] ELSE inbox[j + 1]
      BY <1>0, <1>1, RemoveAtProperties
    <3>3. ASSUME NEW j \in 1 .. Len(inbox')
          PROVE  \E k \in 1 .. Len(inbox) : k # i /\ inbox'[j] = inbox[k]
      <4>1. j \in 1 .. Len(inbox) - 1 /\ j \in 1 .. Len(inbox) /\ j + 1 \in 1 .. Len(inbox)
        BY <1>0, <3>2
      <4>2. CASE j < i
        BY <3>2, <4>1, <4>2
      <4>3. CASE ~(j < i)
        <5>1. j + 1 # i
          BY <1>0, <4>1, <4>3
        <5> QED BY <3>2, <4>1, <4>3, <5>1
      <4> QED BY <4>2, <4>3
    <3> QED BY <3>1, <3>3 DEF NoForeground
  <2>3. Owned' => NoForeground(inbox')
    BY <1>2, <1>3, <1>6, <2>2 DEF OneOwner, Owned
  <2>4. ASSUME NEW s \in Submitters, pending[s] # None, Submission(pending[s], gen)
        PROVE  /\ NoSubmission(inbox', gen) /\ ~Owned'
               /\ \A t \in Submitters \ {s} : pending[t] = None \/ ~Submission(pending[t], gen)
    <3>1. /\ NoSubmission(inbox, gen) /\ ~Owned
          /\ \A t \in Submitters \ {s} : pending[t] = None \/ ~Submission(pending[t], gen)
      BY <1>3, <2>4 DEF OneOwner
    <3>2. ~Entering'
      BY <1>8, <3>1 DEF NoSubmission
    <3> QED BY <1>2, <1>6, <3>1, <3>2 DEF Owned
  <2> QED BY <1>2, <1>6, <2>1, <2>3, <2>4 DEF OneOwner
<1>11. TurnsAhead'
  BY <1>2, <1>3 DEF TurnsAhead
<1>12. StateInv'
  <2>1. ASSUME Live(gen)
        PROVE  interaction' = IF turn[gen].segments = 0 THEN "PROCESSING" ELSE "SPEAKING"
    <3>1. kind \notin ForegroundKinds
      BY <1>9, <2>1 DEF Live
    <3> QED BY <1>3, <1>5, <2>1, <3>1 DEF StateInv
  <2>2. ASSUME Answering'
        PROVE  interaction' = Answer(handler.kind)'
    <3>1. kind \in TurnKinds \cup {"cancel", "barge_in"} /\ handler'.kind = kind
      BY <1>2, <1>8, <2>2 DEF ForegroundKinds, TurnKinds
    <3>2. kind \notin TurnKinds => capturing' = capturing
      BY <1>1, <3>1 DEF CaptureKinds
    <3> QED BY <1>5, <3>1, <3>2 DEF Answer, TurnKinds
  <2> QED BY <1>2, <1>5, <2>1, <2>2 DEF StateInv, Live, Answer
<1>13. CaptureInv'
  <2>1. /\ Covered(inbox, Event(capturing)) /\ MicReported
        /\ interaction = "IDLE" => ~capturing
        /\ interaction = "LISTENING" => capturing
    BY <1>3 DEF CaptureInv
  <2>2. \/ kind \notin CaptureKinds /\ Event(capturing') = Event(capturing)
        \/ kind \in CaptureKinds /\ Event(capturing') = kind
    BY <1>1 DEF Event, CaptureKinds
  <2>3. Covered(inbox', Event(capturing'))
    BY <1>0, <1>1, <1>4, <2>1, <2>2, CoveredRemove
  <2>4. ASSUME Leaves(inbox, Event(capturing), Len(inbox), Event(mic))
        PROVE  Leaves(inbox', Event(capturing'), Len(inbox'), Event(mic))
    <3>1. Len(inbox') = Len(inbox) - 1
      BY <1>0, <1>1, RemoveAtProperties
    <3>2. Len(inbox) \in 1 .. Len(inbox) /\ i <= Len(inbox) /\ Event(mic) \in CaptureKinds
      BY <1>0, KindFacts
    <3>3. Leaves(RemoveAt(inbox, i), Event(capturing'), Len(inbox) - 1, Event(mic))
      BY <1>0, <1>4, <2>2, <2>4, <3>2, LeavesRemove
    <3> QED BY <1>1, <3>1, <3>3
  <2>5. MicReported'
    BY <1>2, <2>1, <2>4 DEF MicReported
  <2>6. (interaction' = "IDLE" => ~capturing') /\ (interaction' = "LISTENING" => capturing')
    <3>1. CASE kind = "capture_started"
      BY <1>1, <1>5, <3>1 DEF CaptureKinds
    <3>2. CASE kind = "capture_stopped"
      BY <1>1, <1>5, <3>2 DEF CaptureKinds
    <3>3. CASE kind \notin CaptureKinds
      <4>1. capturing' = capturing
        BY <1>1, <3>3
      <4> QED BY <1>4, <1>5, <2>1, <3>3, <4>1 DEF SpeechKinds, Settled
    <3> QED BY <3>1, <3>2, <3>3 DEF CaptureKinds
  <2> QED BY <2>3, <2>5, <2>6 DEF CaptureInv
<1> QED BY <1>5, <1>7, <1>10, <1>11, <1>12, <1>13 DEF RunInv

LEMMA ReplyKeeps ==
    ASSUME TInv, RunInv, Reply
    PROVE  RunInv'
<1>0. /\ gen \in Nat /\ gen \in Generations /\ turn \in [Generations -> TurnSet]
      /\ \A g \in Generations : g \in Nat /\ turn[g] \in TurnSet
      /\ handler # None /\ handler.gen \in Generations /\ handler.gen \in Nat
      /\ handler \in HandlerSet
  BY SessionTypes DEF Reply, TInv, TypeOK
<1>1. InOrder /\ OneOwner /\ TurnsAhead /\ StateInv /\ CaptureInv /\ handler.gen <= gen
  BY <1>0 DEF RunInv, InOrder
<1>2. UNCHANGED <<gen, inbox, pending, interaction, capturing, mic>>
  BY DEF Reply, inputs
<1>3. CaptureInv'
  BY <1>1, <1>2 DEF CaptureInv, MicReported
<1>4. CASE Len(handler.replies) > 1
  <2>1. /\ handler' = [handler EXCEPT !.replies = Tail(handler.replies)] /\ turn' = turn
    BY <1>4 DEF Reply
  <2>2. handler'.kind = handler.kind /\ handler'.gen = handler.gen
    BY <1>0, <2>1 DEF HandlerSet
  <2>3. (Entering' => Entering) /\ (Answering' => Answering) /\ (Owned' => Owned)
    BY <1>0, <1>2, <2>1, <2>2 DEF Entering, Answering, Owned
  <2>4. InOrder'
    BY <1>1, <1>2, <2>2 DEF InOrder
  <2>5. OneOwner'
    BY <1>1, <1>2, <2>1, <2>3 DEF OneOwner
  <2>6. TurnsAhead' /\ StateInv'
    BY <1>1, <1>2, <2>1, <2>2, <2>3 DEF TurnsAhead, StateInv, Live, Answer
  <2> QED BY <1>3, <2>4, <2>5, <2>6 DEF RunInv
<1>5. CASE ~(Len(handler.replies) > 1)
  <2>1. /\ handler' = None
        /\ turn' = IF handler.kind \in TurnKinds
                   THEN [turn EXCEPT ![handler.gen].pc = "load"] ELSE turn
    BY <1>5 DEF Reply
  <2>2. ~Entering' /\ ~Answering'
    BY <2>1 DEF Entering, Answering
  <2>3. InOrder'
    BY <1>1, <1>2, <2>1 DEF InOrder
  <2>4. CASE Entering
    <3>1. handler.kind \in TurnKinds /\ handler.gen = gen /\ turn[gen].pc = "off"
      <4>1. Answering /\ handler.kind \in TurnKinds /\ handler.gen = gen
        BY <2>4, KindFacts DEF Entering, Answering
      <4> QED BY <1>1, <4>1 DEF OneOwner
    <3>2. turn' = [turn EXCEPT ![gen].pc = "load"]
      BY <2>1, <3>1
    <3>3. /\ turn'[gen].pc = "load" /\ turn'[gen].segments = turn[gen].segments
          /\ turn'[gen].out = turn[gen].out
          /\ \A g \in Generations : g # gen => turn'[g] = turn[g]
      BY <1>0, <3>2 DEF TurnSet
    <3>4. turn[gen].segments = 0 /\ turn[gen].out = None
      BY <1>0, <1>1, <3>1 DEF TurnsAhead
    <3>5. TurnsAhead'
      BY <1>0, <1>1, <1>2, <3>3, <3>4 DEF TurnsAhead
    <3>6. Owned
      BY <2>4 DEF Owned
    <3>7. OneOwner'
      BY <1>1, <1>2, <2>2, <3>6 DEF OneOwner
    <3>8. StateInv'
      <4>1. Answering
        BY <2>4, KindFacts DEF Entering, Answering
      <4>2. interaction = "PROCESSING"
        BY <1>1, <3>1, <4>1 DEF StateInv, Answer, TurnKinds
      <4> QED BY <1>1, <1>2, <2>2, <3>3, <3>4, <4>2 DEF StateInv, Live
    <3> QED BY <1>3, <2>3, <3>5, <3>7, <3>8 DEF RunInv
  <2>5. CASE ~Entering
    <3>1. \A g \in Generations : g >= gen => turn'[g] = turn[g]
      <4>1. CASE handler.kind \in TurnKinds
        <5>1. handler.gen # gen /\ turn' = [turn EXCEPT ![handler.gen].pc = "load"]
          BY <1>0, <2>1, <2>5, <4>1 DEF Entering
        <5>2. \A g \in Generations : g >= gen => g # handler.gen
          BY <1>0, <1>1, <5>1
        <5> QED BY <1>0, <5>1, <5>2
      <4>2. CASE handler.kind \notin TurnKinds
        BY <2>1, <4>2
      <4> QED BY <4>1, <4>2
    <3>2. turn'[gen] = turn[gen]
      BY <1>0, <3>1
    <3>3. TurnsAhead'
      <4>1. /\ gen' = gen /\ gen \in Nat /\ \A g \in Generations : g \in Nat
            /\ \A g \in Generations : g > gen => g >= gen
        BY <1>0, <1>2
      <4>2. ASSUME NEW g \in Generations
            PROVE  /\ g > gen => turn'[g].pc = "off"
                   /\ g >= gen /\ turn'[g].pc \in {"off", "load"} =>
                         turn'[g].segments = 0 /\ turn'[g].out = None
        BY <1>1, <3>1, <4>1 DEF TurnsAhead
      <4> QED BY <4>1, <4>2 DEF TurnsAhead
    <3>4. Owned' => Owned
      BY <1>2, <2>2, <3>2 DEF Owned
    <3>5. OneOwner'
      BY <1>1, <1>2, <2>2, <3>4 DEF OneOwner
    <3>6. StateInv'
      BY <1>1, <1>2, <2>2, <3>2 DEF StateInv, Live, Answer
    <3> QED BY <1>3, <2>3, <3>3, <3>5, <3>6 DEF RunInv
  <2> QED BY <2>4, <2>5
<1> QED BY <1>4, <1>5

\* A step of an older turn leaves the session's state alone, and one of the
\* current turn moves it as that turn, which owns the state, may.
LEMMA TurnKeeps ==
    ASSUME TInv, RunInv, ~illegal, phase = "running", NEW g \in Generations, TurnStep(g)
    PROVE  RunInv' /\ ~illegal'
<1>0. /\ gen \in Nat /\ gen \in Generations /\ turn \in [Generations -> TurnSet]
      /\ \A h \in Generations : h \in Nat /\ turn[h] \in TurnSet
      /\ turn[g].segments \in Nat
  <2>1. turn[g] \in TurnSet
    BY SessionTypes
  <2>2. turn[g].segments \in Nat
    BY <2>1, BoundsAssumption DEF TurnSet
  <2> QED BY <2>2, SessionTypes
<1>1. InOrder /\ OneOwner /\ TurnsAhead /\ StateInv /\ CaptureInv
  BY DEF RunInv
<1>2. /\ UNCHANGED <<gen, inbox, pending, handler, capturing, mic>>
      /\ \A h \in Generations : h # g => turn'[h] = turn[h]
      /\ turn[g].pc # "off" \/ turn[g].out # None
  <2>1. UNCHANGED <<gen, inbox, pending, handler, capturing, mic>>
    BY DEF TurnStep, TurnLoad, TurnCancelled, TurnSegment, TurnOutcome, TurnPublish, TurnFinish,
           TurnDegrade, inputs
  <2>2. \A h \in Generations : h # g => turn'[h] = turn[h]
    BY <1>0 DEF TurnStep, TurnLoad, TurnCancelled, TurnSegment, TurnOutcome, TurnPublish, TurnFinish,
                TurnDegrade, SetTurn, LastTransition
  <2>3. turn[g].pc # "off" \/ turn[g].out # None
    BY DEF TurnStep, TurnLoad, TurnCancelled, TurnSegment, TurnOutcome, TurnPublish, TurnFinish,
           TurnDegrade, Runs
  <2> QED BY <2>1, <2>2, <2>3
<1>3. g <= gen /\ (g = gen => turn[g].pc # "off")
  <2>1. g > gen => turn[g].pc = "off"
    BY <1>1 DEF TurnsAhead
  <2>2. g >= gen /\ turn[g].pc = "off" => turn[g].out = None
    BY <1>1 DEF TurnsAhead
  <2>3. g \in Nat /\ gen \in Nat
    BY <1>0
  <2> QED BY <1>2, <2>1, <2>2, <2>3
<1>4. InOrder'
  BY <1>1, <1>2 DEF InOrder
<1>5. (Entering' <=> Entering) /\ (Answering' <=> Answering)
  BY <1>2 DEF Entering, Answering
<1>6. ASSUME interaction' = "IDLE" => ~capturing, interaction' = "LISTENING" => capturing
      PROVE  CaptureInv'
  BY <1>1, <1>2, <1>6 DEF CaptureInv, MicReported
<1>7. CASE g # gen
  <2>1. ~Accepts(g) /\ UNCHANGED <<interaction, illegal>>
    BY <1>7 DEF TurnStep, TurnLoad, TurnCancelled, TurnSegment, TurnOutcome, TurnPublish,
                TurnFinish, TurnDegrade, Accepts, LastTransition
  <2>2. turn'[gen] = turn[gen] /\ \A h \in Generations : h >= gen => turn'[h] = turn[h]
    BY <1>0, <1>2, <1>3, <1>7
  <2>3. TurnsAhead'
    BY <1>0, <1>1, <1>2, <2>2 DEF TurnsAhead
  <2>4. Owned' <=> Owned
    BY <1>2, <1>5, <2>2 DEF Owned
  <2>5. OneOwner'
    BY <1>1, <1>2, <1>5, <2>2, <2>4 DEF OneOwner
  <2>6. StateInv'
    BY <1>1, <1>2, <1>5, <2>1, <2>2 DEF StateInv, Live, Answer
  <2>7. CaptureInv'
    BY <1>1, <1>6, <2>1 DEF CaptureInv
  <2> QED BY <1>4, <2>1, <2>3, <2>5, <2>6, <2>7 DEF RunInv
<1>8. CASE g = gen
  <2>1. Accepts(g) /\ turn[gen].pc # "off" /\ ~Answering /\ Owned
    BY <1>1, <1>3, <1>8 DEF Accepts, OneOwner, Owned
  \* What is left to show: the turn goes on from its point, and the state is
  \* the one its segments call for, or a settled one once it has ended.
  <2>2. ASSUME turn'[gen].pc \notin {"off", "load"}, ~illegal', interaction' \in Settled,
               turn'[gen].pc # "done" =>
                 interaction' = IF turn'[gen].segments = 0 THEN "PROCESSING" ELSE "SPEAKING",
               interaction' = "IDLE" => ~capturing, interaction' = "LISTENING" => capturing
        PROVE  RunInv' /\ ~illegal'
    <3>1. TurnsAhead'
      BY <1>0, <1>1, <1>2, <1>8, <2>2 DEF TurnsAhead
    <3>2. Owned'
      BY <1>2, <2>2 DEF Owned
    <3>3. OneOwner'
      BY <1>1, <1>2, <1>5, <2>1, <3>2 DEF OneOwner
    <3>4. StateInv'
      BY <1>2, <1>5, <2>1, <2>2 DEF StateInv, Live, Answer
    <3>5. CaptureInv'
      BY <1>6, <2>2
    <3> QED BY <1>4, <2>2, <3>1, <3>3, <3>4, <3>5 DEF RunInv
  <2>3. /\ turn[gen].pc # "done" =>
             interaction = IF turn[gen].segments = 0 THEN "PROCESSING" ELSE "SPEAKING"
        /\ interaction \in Settled
        /\ interaction = "IDLE" => ~capturing
        /\ interaction = "LISTENING" => capturing
    BY <1>1, <2>1 DEF StateInv, Live, Answer, CaptureInv
  <2>4. CASE TurnLoad(g)
    <3>1. /\ turn[gen].pc = "load" /\ turn[gen].segments = 0 /\ UNCHANGED <<interaction, illegal>>
          /\ turn'[gen].pc \in {"stream", "degrade"} /\ turn'[gen].segments = 0
      BY <1>0, <1>1, <1>8, <2>4 DEF TurnLoad, Runs, SetTurn, TurnsAhead
    <3> QED BY <2>2, <2>3, <3>1
  <2>5. CASE TurnCancelled(g)
    BY <2>1, <2>5 DEF TurnCancelled
  <2>6. CASE TurnSegment(g)
    <3>1. /\ turn[gen].pc = "stream" /\ turn'[gen].pc = "stream"
          /\ turn'[gen].segments = turn[gen].segments + 1
          /\ Walk(IF turn[gen].segments = 0 THEN <<"SPEAKING">> ELSE <<>>)
      BY <1>0, <1>8, <2>6 DEF TurnSegment, Runs, SetTurn
    <3>2. turn'[gen].segments # 0
      BY <1>0, <1>8, <3>1
    <3>3. interaction' = "SPEAKING" /\ ~illegal'
      <4>1. CASE turn[gen].segments = 0
        BY <2>3, <3>1, <4>1, WalkOne, TransitionFacts
      <4>2. CASE turn[gen].segments # 0
        BY <2>3, <3>1, <4>2, WalkNone
      <4> QED BY <4>1, <4>2
    <3> QED BY <2>2, <3>1, <3>2, <3>3 DEF Settled
  <2>7. CASE TurnOutcome(g)
    <3>1. /\ turn[gen].pc = "stream" /\ turn'[gen].pc \in {"stream", "finish", "degrade"}
          /\ turn'[gen].segments = turn[gen].segments /\ UNCHANGED <<interaction, illegal>>
      BY <1>0, <1>8, <2>7 DEF TurnOutcome, Runs, SetTurn
    <3> QED BY <2>2, <2>3, <3>1
  <2>8. CASE TurnPublish(g)
    <3>1. turn' = [turn EXCEPT ![gen].out = None] /\ UNCHANGED <<interaction, illegal>>
      BY <1>8, <2>1, <2>8 DEF TurnPublish
    <3>2. turn'[gen].pc = turn[gen].pc /\ turn'[gen].segments = turn[gen].segments
      BY <1>0, <3>1 DEF TurnSet
    <3>3. turn[gen].pc # "load"
      BY <1>0, <1>1, <1>8, <2>8 DEF TurnPublish, TurnsAhead
    <3> QED BY <2>1, <2>2, <2>3, <3>1, <3>2, <3>3
  <2>9. CASE TurnFinish(g)
    <3>1. /\ turn[gen].pc = "finish" /\ turn'[gen].pc = "done"
          /\ Walk(FinishTurn(interaction, capturing))
      BY <1>0, <1>8, <2>1, <2>9 DEF TurnFinish, Runs, LastTransition, Ended
    <3>2. interaction' = (IF capturing THEN "LISTENING" ELSE "IDLE") /\ ~illegal'
      BY <2>3, <3>1, FinishTurnWalk
    <3> QED BY <2>2, <3>1, <3>2 DEF Settled
  <2>10. CASE TurnDegrade(g)
    <3>1. turn[gen].pc = "degrade" /\ turn'[gen].pc = "done" /\ Walk(<<"DEGRADED">>)
      BY <1>0, <1>8, <2>1, <2>10 DEF TurnDegrade, Runs, LastTransition, Ended
    <3>2. interaction' = "DEGRADED" /\ ~illegal'
      BY <2>3, <3>1, WalkOne, TransitionFacts
    <3> QED BY <2>2, <3>1, <3>2 DEF Settled
  <2> QED BY <2>4, <2>5, <2>6, <2>7, <2>8, <2>9, <2>10 DEF TurnStep
<1> QED BY <1>7, <1>8

LEMMA NextSession == TInv /\ SessionInv /\ [Next]_vars => SessionInv'
<1> SUFFICES ASSUME TInv, SessionInv, [Next]_vars PROVE SessionInv'
  OBVIOUS
<1>1. ~illegal /\ (phase = "running" => RunInv)
  BY DEF SessionInv
<1>2. ASSUME NEW kind \in Commands, Submit(kind) \/ SubmitVoice(kind) \/ SubmitTranscript(kind)
      PROVE  SessionInv'
  <2>1. phase = "running" /\ UNCHANGED illegal
    BY <1>2 DEF Submit, SubmitVoice, SubmitTranscript, Idle
  <2> QED BY <1>1, <1>2, <2>1, SubmitKeeps, SubmitVoiceKeeps, SubmitTranscriptKeeps DEF SessionInv
<1>3. ASSUME NEW s \in Submitters, Admit(s) \/ AdmitCancelled(s)
      PROVE  SessionInv'
  <2>1. UNCHANGED <<phase, illegal>>
    BY <1>3 DEF Admit, AdmitCancelled
  <2> QED BY <1>1, <1>3, <2>1, AdmitKeeps, AdmitCancelledKeeps DEF SessionInv
<1>4. CASE Handle
  BY <1>1, <1>4, HandleKeeps DEF Handle, SessionInv
<1>5. CASE Reply
  <2>1. phase = "running" /\ UNCHANGED illegal
    BY <1>5 DEF Reply
  <2> QED BY <1>1, <1>5, <2>1, ReplyKeeps DEF SessionInv
<1>6. ASSUME NEW g \in Generations, TurnStep(g)
      PROVE  SessionInv'
  <2>1. phase = "running"
    BY <1>6 DEF TurnStep, TurnLoad, TurnCancelled, TurnSegment, TurnOutcome, TurnPublish,
                TurnFinish, TurnDegrade, Runs
  <2> QED BY <1>1, <1>6, <2>1, TurnKeeps DEF SessionInv
<1>7. CASE TakeOutput \/ OutputSent \/ UNCHANGED vars
  <2>1. UNCHANGED <<phase, gen, inbox, pending, handler, turn, interaction, capturing, mic, illegal>>
    BY <1>7 DEF TakeOutput, OutputSent, vars, inputs
  <2>2. (Entering' <=> Entering) /\ (Answering' <=> Answering) /\ (Owned' <=> Owned)
    BY <2>1 DEF Entering, Answering, Owned
  <2>3. RunInv => RunInv'
    <3>1. (InOrder => InOrder') /\ (TurnsAhead => TurnsAhead') /\ (CaptureInv => CaptureInv')
      BY <2>1 DEF InOrder, TurnsAhead, CaptureInv, MicReported
    <3>2. (OneOwner => OneOwner') /\ (StateInv => StateInv')
      BY <2>1, <2>2 DEF OneOwner, StateInv, Live, Answer
    <3> QED BY <3>1, <3>2 DEF RunInv
  <2> QED BY <1>1, <2>1, <2>3 DEF SessionInv
<1>8. CASE Stop \/ Stopped
  <2>1. phase' # "running" /\ UNCHANGED illegal
    BY <1>8 DEF Stop, Stopped
  <2> QED BY <1>1, <2>1 DEF SessionInv
<1> QED BY <1>2, <1>3, <1>4, <1>5, <1>6, <1>7, <1>8 DEF Next

----------------------------------------------------------------------------
(* The theorems *)

LEMMA TypeInvariance == Spec => []TInv
<1>1. Init => TInv
  BY InitType
<1>2. TInv /\ [Next]_vars => TInv'
  BY NextType
<1> QED BY <1>1, <1>2, PTL DEF Spec

\* Every variable keeps its type: every queued command and output carries a
\* generation that was issued, and every dialogue task a legal point of _run_turn.
THEOREM TypeCorrect == Spec => []TypeOK
<1>1. TInv => TypeOK
  BY DEF TInv
<1> QED BY <1>1, TypeInvariance, PTL

\* For every capacity and number of generations, the client is never sent
\* speech, a segment or a partial transcript older than something it was
\* already sent.
THEOREM SpeechInOrder == Spec => []NoOlderSpeechSent
<1>1. Init => SpeechInv
  BY InitSpeech
<1>2. TInv /\ SpeechInv /\ [Next]_vars => SpeechInv'
  BY NextSpeech
<1>3. SpeechInv => NoOlderSpeechSent
  BY DEF SpeechInv, NoOlderSpeechSent
<1> QED BY <1>1, <1>2, <1>3, TypeInvariance, PTL DEF Spec

LEMMA SessionInvariance == Spec => []SessionInv
<1>1. Init => SessionInv
  BY InitSession
<1>2. TInv /\ SessionInv /\ [Next]_vars => SessionInv'
  BY NextSession
<1> QED BY <1>1, <1>2, TypeInvariance, PTL DEF Spec

\* For any commands, capacities, generations and segments no handler and no
\* dialogue task asks for a transition that _TRANSITIONS forbids, so
\* InvalidInteractionTransition never fails a session.
THEOREM TransitionsLegal == Spec => []NoIllegalTransition
<1>1. SessionInv => NoIllegalTransition
  BY DEF SessionInv, NoIllegalTransition
<1> QED BY <1>1, SessionInvariance, PTL

\* While the turn of the current generation is alive the state is the one it
\* put there, whatever is queued, displaced, handled or waiting beside it.
THEOREM TurnOwnsState == Spec => []RunningTurnOwnsState
<1>1. SessionInv => RunningTurnOwnsState
  BY DEF SessionInv, RunInv, StateInv, RunningTurnOwnsState
<1> QED BY <1>1, SessionInvariance, PTL

\* However long its reply waits for room, and whatever superseded turns and
\* other commands do meanwhile, the newest foreground command's answer is still
\* true of the session when it is published.
THEOREM AnswersAreTrue == Spec => []AnswerIsTrue
<1>1. SessionInv => AnswerIsTrue
  BY DEF SessionInv, RunInv, StateInv, Answering, Accepts, AnswerIsTrue
<1> QED BY <1>1, SessionInvariance, PTL

\* An idle session is not capturing and a listening one is, for every order of
\* cancellations, barge-ins, capture events and turn ends.
THEOREM StateFollowsMicrophone == Spec => []MicrophoneAgrees
<1>1. SessionInv => MicrophoneAgrees
  BY DEF SessionInv, RunInv, CaptureInv, MicrophoneAgrees
<1> QED BY <1>1, SessionInvariance, PTL

\* A capture event is never lost: with none under way the session and the
\* voice coordinator agree, however often the event was superseded and
\* whatever the mailbox displaced meanwhile.
THEOREM CaptureEventsArrive == Spec => []CaptureNotLost
<1>1. TInv /\ SessionInv => CaptureNotLost
  <2> SUFFICES ASSUME TInv, SessionInv, phase = "running", pending["ws"] = None,
                      ~\E i \in DOMAIN inbox : inbox[i].kind \in CaptureKinds
               PROVE  capturing = mic
    BY DEF CaptureNotLost
  <2>1. Leaves(inbox, Event(capturing), Len(inbox), Event(mic))
    BY DEF SessionInv, RunInv, CaptureInv, MicReported
  <2>2. \A i \in 1 .. Len(inbox) : inbox[i].kind \notin CaptureKinds
    BY SessionTypes
  <2>3. Event(capturing) = Event(mic)
    BY <2>1, <2>2 DEF Leaves
  <2>4. capturing <=> mic
    BY <2>3 DEF Event
  <2>5. capturing \in BOOLEAN /\ mic \in BOOLEAN
    BY DEF TInv, TypeOK
  <2> QED BY <2>4, <2>5
<1> QED BY <1>1, TypeInvariance, SessionInvariance, PTL
============================================================================
