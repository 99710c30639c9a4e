------------------------ MODULE DialoguePipelineProofs ------------------------
(* DialoguePipeline for any texts, providers, capacities and numbers of      *)
(* segments and chunks: the assembler keeps the text, no synthesis slot is   *)
(* lost or used twice, and the pipeline implements UtteranceStream, the      *)
(* order of events it promises.                                              *)
EXTENDS DialoguePipeline, FiniteSetTheorems, SequenceTheorems, WellFoundedInduction, TLAPS

\* A name for BOOLEAN that the provers need not look into.
Flags == BOOLEAN
Item == [kind : ItemKinds, segment : Nat, chunk : Nat, final : Flags]
SynthesisState == [pc : {"none", "stream", "put", "done"}, chunks : Nat, final : Flags, item : Item]
RunPcs == Waiting \cup {"got_output", "got_audio", "joining", "completed", "ended"}

Types ==
    /\ current \in Flags
    /\ Len(made) \in 0..MaxSegments
    /\ producer \in [pc : {"stream", "ending", "done"}, todo : Seq(Item)]
    /\ dispatcher \in [pc : {"get", "acquire", "put", "done"}, item : Item]
    /\ slots \in Nat
    /\ segments \in Seq(Item) /\ output \in Seq(Item)
    /\ synthesis \in [SegmentIds -> SynthesisState]
    /\ audio \in [SegmentIds -> Seq(Item)]
    /\ run \in [pc : RunPcs, item : Item]
    /\ last \in [kind : {"nothing", "segment", "audio", "completed"}, segment : Nat, chunk : Nat,
                 final : Flags]

-----------------------------------------------------------------------------
(* Positions. Number the segments from 0, and the signal behind them all      *)
(* with Len(made); then every queue holds consecutive numbers, each begins    *)
(* where the one downstream ends, and the first number tells how far the      *)
(* generator is.                                                             *)

Held == IF dispatcher.pc \in {"acquire", "put"} THEN 1 ELSE 0
Ended == IF producer.pc = "stream" THEN 0 ELSE 1

TodoFrom == Len(made) + Ended - Len(producer.todo)
SegmentsFrom == TodoFrom - Len(segments)
HeldFrom == SegmentsFrom - Held
OutputFrom == HeldFrom - Len(output)

\* A provider is cancelled only by its token.
SignalKinds == {"finished"} \cup Errors
Signals == {x \in Item : x.kind \in SignalKinds /\ (x.kind = "cancelled" => ~current)}

\* What may have number n.
Numbers ==
    [n \in Nat |-> IF n < Len(made) THEN {Segment(n)}
                   ELSE IF n = Len(made) /\ Ended = 1 THEN Signals ELSE {}]

\* The queue q holds what has the numbers from n on.
InPlace(q, n, numbers) == \A i \in 1..Len(q) : q[i] \in numbers[n + i - 1]

QueuesInOrder ==
    /\ OutputFrom >= 0
    /\ InPlace(producer.todo, TodoFrom, Numbers)
    /\ InPlace(segments, SegmentsFrom, Numbers)
    /\ Held = 1 => dispatcher.item \in Numbers[HeldFrom]
    /\ dispatcher.pc = "acquire" => IsSegment(dispatcher.item)
    /\ InPlace(output, OutputFrom, Numbers)

\* The same for the chunks of a segment and the signal behind them.
Signalled(s) ==
    IF \/ synthesis[s].pc = "done"
       \/ synthesis[s].pc = "put" /\ synthesis[s].item.kind /= "audio"
    THEN 1 ELSE 0

Putting(s) == IF synthesis[s].pc = "put" THEN 1 ELSE 0
AudioEnd(s) == synthesis[s].chunks + Signalled(s) - Putting(s)
AudioFrom(s) == AudioEnd(s) - Len(audio[s])

Ready(s, n) ==
    {x \in Item : /\ x.kind = "audio" /\ x.chunk = n
                  /\ x.final <=> n = synthesis[s].chunks - 1 /\ synthesis[s].final}

AudioNumbers(s) ==
    [n \in Nat |-> IF n < synthesis[s].chunks THEN Ready(s, n)
                   ELSE IF n = synthesis[s].chunks /\ Signalled(s) = 1
                   THEN {x \in Signals : x.kind = "finished" => synthesis[s].final} ELSE {}]

AudioInOrder ==
    \A s \in SegmentIds :
        /\ AudioFrom(s) >= 0
        /\ InPlace(audio[s], AudioFrom(s), AudioNumbers(s))
        /\ synthesis[s].pc = "put" => synthesis[s].item \in AudioNumbers(s)[AudioEnd(s)]
        /\ synthesis[s].final => synthesis[s].chunks > 0
        /\ synthesis[s].pc = "none" =>
              synthesis[s].chunks = 0 /\ ~synthesis[s].final /\ audio[s] = <<>>

\* A task starts when its segment goes to the output queue, and nothing is taken from its
\* audio before the segment is.
SynthesisInOrder ==
    \A s \in SegmentIds :
        /\ s >= HeldFrom => synthesis[s].pc = "none"
        /\ s >= OutputFrom => AudioFrom(s) = 0

\* What has been yielded: n whole segments, or k chunks of segment s.
Yielded(n) ==
    /\ last.final /\ last.kind \in {"nothing", "audio"}
    /\ n = IF last.kind = "nothing" THEN 0 ELSE last.segment + 1

Complete(s, k) == k = synthesis[s].chunks /\ synthesis[s].final

Heard(s, k) ==
    IF k = 0 THEN last = Stream!SegmentReady(s)
    ELSE /\ last.kind = "audio" /\ last.segment = s /\ last.chunk = k - 1
         /\ last.final <=> Complete(s, k)

InSegment ==
    /\ OutputFrom \in 1..Len(made)
    /\ run.item.segment = OutputFrom - 1

\* The item the generator took from the audio queue, as it lay there.
RunInOrder ==
    /\ run.pc = "output" => Yielded(OutputFrom)
    /\ run.pc = "got_output" => /\ OutputFrom > 0
                                /\ run.item \in Numbers[OutputFrom - 1]
                                /\ Yielded(OutputFrom - 1)
                                /\ \A s \in SegmentIds : s = OutputFrom - 1 => AudioFrom(s) = 0
    /\ run.pc = "audio" => InSegment /\ Heard(run.item.segment, AudioFrom(run.item.segment))
    /\ run.pc = "got_audio" =>
          LET s == run.item.segment
          IN  /\ InSegment /\ AudioFrom(s) > 0
              /\ run.item \in AudioNumbers(s)[AudioFrom(s) - 1]
              /\ Heard(s, AudioFrom(s) - 1)
    /\ run.pc = "joining" => OutputFrom > Len(made) /\ Yielded(Len(made))
    /\ run.pc = "completed" => last.kind = "completed"

Order == QueuesInOrder /\ AudioInOrder /\ SynthesisInOrder /\ RunInOrder /\ outcome = "running"

IInv == Types /\ (~Stopping => Order /\ SlotsAccounted)

-----------------------------------------------------------------------------
(* Types                                                                     *)

LEMMA FlagValues == TRUE \in Flags /\ FALSE \in Flags
BY DEF Flags

LEMMA ItemsTyped ==
    /\ NoItem \in Item /\ ProductionFinished \in Item
    /\ \A error \in Errors : StageFailed(error) \in Item
    /\ \A n \in Nat : Segment(n) \in Item
    /\ Chunks \subseteq Item
<1>. USE FlagValues
<1>1. Chunks \subseteq Item
    <2>1. BOOLEAN = Flags
        BY DEF Flags
    <2>2. SegmentIds \subseteq Nat /\ 0..(MaxChunks - 1) \subseteq Nat
        BY BoundAssumption DEF SegmentIds
    <2>. QED BY <2>1, <2>2 DEF Chunks, Chunk, Item, ItemKinds
<1>. QED
    BY <1>1 DEF NoItem, ProductionFinished, StageFailed, Segment, Signal, Item, ItemKinds, Errors

LEMMA InitTypes == Init => Types
<1>. SUFFICES ASSUME Init PROVE Types
    OBVIOUS
<1>1. Idle \in SynthesisState
    BY FlagValues, ItemsTyped DEF Idle, SynthesisState
<1>2. Len(made) \in 0..MaxSegments
    BY BoundAssumption DEF Init
<1>3. last \in [kind : {"nothing", "segment", "audio", "completed"}, segment : Nat, chunk : Nat,
                final : Flags]
    BY FlagValues DEF Init, Stream!Init, Stream!Nothing
<1>4. current \in Flags
    BY FlagValues DEF Init, Stream!Init
<1>5. /\ synthesis \in [SegmentIds -> SynthesisState] /\ audio \in [SegmentIds -> Seq(Item)]
      /\ slots \in Nat
    BY <1>1, CapacityAssumption DEF Init
<1>6. /\ producer \in [pc : {"stream", "ending", "done"}, todo : Seq(Item)]
      /\ dispatcher \in [pc : {"get", "acquire", "put", "done"}, item : Item]
      /\ segments \in Seq(Item) /\ output \in Seq(Item)
      /\ run \in [pc : RunPcs, item : Item]
    BY ItemsTyped DEF Init, RunPcs, Waiting
<1>. QED
    BY <1>2, <1>3, <1>4, <1>5, <1>6 DEF Types

LEMMA CancelTasksTypes ==
    ASSUME Types, CancelTasks
    PROVE  /\ producer' \in [pc : {"stream", "ending", "done"}, todo : Seq(Item)]
           /\ dispatcher' \in [pc : {"get", "acquire", "put", "done"}, item : Item]
           /\ slots' \in Nat
           /\ segments' \in Seq(Item) /\ output' \in Seq(Item)
           /\ synthesis' \in [SegmentIds -> SynthesisState]
           /\ audio' \in [SegmentIds -> Seq(Item)]
<1>1. Idle \in SynthesisState
    BY FlagValues, ItemsTyped DEF Idle, SynthesisState
<1>. QED
    BY <1>1, ItemsTyped, CapacityAssumption DEF CancelTasks

\* A run that ends keeps the invariant: nothing is asked of it any more.
LEMMA EndPreserves ==
    ASSUME IInv, NEW result, EndsWith(result)
    PROVE  IInv'
<1>1. Types'
    BY CancelTasksTypes, ItemsTyped DEF EndsWith, IInv, Types, assemblerVars, RunPcs
<1>2. Stopping'
    BY DEF EndsWith, Stopping
<1>. QED
    BY <1>1, <1>2 DEF IInv

-----------------------------------------------------------------------------
(* Frames: what a step leaves alone when it does not touch a part's variables *)

LEMMA QueuesFrame ==
    ASSUME QueuesInOrder, UNCHANGED <<made, producer, segments, dispatcher, output, current>>
    PROVE  QueuesInOrder'
<1>1. /\ Held' = Held /\ TodoFrom' = TodoFrom /\ SegmentsFrom' = SegmentsFrom
      /\ HeldFrom' = HeldFrom /\ OutputFrom' = OutputFrom
    BY DEF Held, Ended, TodoFrom, SegmentsFrom, HeldFrom, OutputFrom
<1>2. Numbers' = Numbers
    BY DEF Numbers, Signals, Ended
<1>. QED
    BY <1>1, <1>2 DEF QueuesInOrder, InPlace

LEMMA AudioFrame ==
    ASSUME AudioInOrder, UNCHANGED <<synthesis, audio, current>>
    PROVE  AudioInOrder'
<1>. SUFFICES ASSUME NEW s \in SegmentIds
              PROVE  (AudioInOrder!(s))'
    BY DEF AudioInOrder
<1>1. AudioEnd(s)' = AudioEnd(s) /\ AudioFrom(s)' = AudioFrom(s)
    BY DEF Signalled, Putting, AudioEnd, AudioFrom
<1>2. AudioNumbers(s)' = AudioNumbers(s)
    BY DEF AudioNumbers, Ready, Signals, Signalled
<1>. QED
    BY <1>1, <1>2 DEF AudioInOrder, InPlace

LEMMA SynthesisFrame ==
    ASSUME SynthesisInOrder, UNCHANGED <<synthesis, audio>>,
           HeldFrom' = HeldFrom, OutputFrom' = OutputFrom
    PROVE  SynthesisInOrder'
BY DEF SynthesisInOrder, Signalled, Putting, AudioEnd, AudioFrom

LEMMA RunFrame ==
    ASSUME RunInOrder, UNCHANGED <<made, synthesis, audio, run, last, current>>,
           OutputFrom' = OutputFrom, Ended' = Ended
    PROVE  RunInOrder'
<1>1. Numbers' = Numbers
    BY DEF Numbers, Signals
<1>2. \A s : /\ AudioFrom(s)' = AudioFrom(s) /\ AudioNumbers(s)' = AudioNumbers(s)
    BY DEF AudioNumbers, Ready, Signals, Signalled, Putting, AudioEnd, AudioFrom
<1>. QED
    BY <1>1, <1>2 DEF RunInOrder, Yielded, Heard, Complete, InSegment

LEMMA SlotsFrame ==
    ASSUME SlotsAccounted, UNCHANGED <<slots, dispatcher, synthesis, run>>
    PROVE  SlotsAccounted'
BY DEF SlotsAccounted, HeldByDispatcher, Synthesizing, Stopping

LEMMA StutterPreserves ==
    ASSUME IInv, UNCHANGED vars
    PROVE  IInv'
<1>1. Types'
    BY DEF IInv, Types, vars, publicVars, assemblerVars
<1>2. Stopping' = Stopping
    BY DEF vars, Stopping
<1>3. ASSUME ~Stopping PROVE (Order /\ SlotsAccounted)'
    <2>1. HeldFrom' = HeldFrom /\ OutputFrom' = OutputFrom /\ Ended' = Ended
        BY DEF vars, assemblerVars, Held, Ended, TodoFrom, SegmentsFrom, HeldFrom, OutputFrom
    <2>. QED
        BY <1>3, <2>1, QueuesFrame, AudioFrame, SynthesisFrame, RunFrame, SlotsFrame
        DEF IInv, Order, vars, publicVars, assemblerVars
<1>. QED
    BY <1>1, <1>2, <1>3 DEF IInv

-----------------------------------------------------------------------------
(* Numbered queues                                                           *)

LEMMA PlaceAppend ==
    ASSUME NEW T, NEW q \in Seq(T), NEW x \in T, NEW n \in Nat, NEW numbers,
           InPlace(q, n, numbers), x \in numbers[n + Len(q)]
    PROVE  InPlace(Append(q, x), n, numbers)
BY DEF InPlace

LEMMA PlaceTail ==
    ASSUME NEW T, NEW q \in Seq(T), NEW n \in Nat, NEW numbers,
           InPlace(q, n, numbers), q /= <<>>
    PROVE  /\ Head(q) \in numbers[n]
           /\ InPlace(Tail(q), n + 1, numbers)
<1>1. /\ Len(q) \in Nat /\ Len(q) > 0 /\ Head(q) = q[1]
      /\ Len(Tail(q)) = Len(q) - 1
      /\ \A i \in 1..Len(Tail(q)) : Tail(q)[i] = q[i + 1]
    OBVIOUS
<1>. QED
    BY <1>1 DEF InPlace

LEMMA PlaceGrows ==
    ASSUME NEW T, NEW q \in Seq(T), NEW n \in Nat, NEW numbers, NEW larger,
           InPlace(q, n, numbers), \A k \in Nat : numbers[k] \subseteq larger[k]
    PROVE  InPlace(q, n, larger)
BY DEF InPlace

\* The numbers as numbers.
LEMMA Positions ==
    ASSUME Types
    PROVE  /\ Len(made) \in Nat /\ Held \in 0..1 /\ Ended \in 0..1
           /\ Len(producer.todo) \in Nat /\ Len(segments) \in Nat /\ Len(output) \in Nat
           /\ TodoFrom \in Int /\ SegmentsFrom \in Int /\ HeldFrom \in Int /\ OutputFrom \in Int
BY DEF Types, Held, Ended, TodoFrom, SegmentsFrom, HeldFrom, OutputFrom

LEMMA QueuePositions ==
    ASSUME Types, QueuesInOrder
    PROVE  /\ TodoFrom \in Nat /\ SegmentsFrom \in Nat /\ HeldFrom \in Nat /\ OutputFrom \in Nat
           /\ OutputFrom <= HeldFrom /\ HeldFrom <= SegmentsFrom /\ SegmentsFrom <= TodoFrom
           /\ TodoFrom <= Len(made) + Ended
<1>1. OutputFrom >= 0
    BY DEF QueuesInOrder
<1>2. OutputFrom \in Nat /\ HeldFrom \in Nat /\ OutputFrom <= HeldFrom
    BY <1>1, Positions DEF OutputFrom
<1>3. SegmentsFrom \in Nat /\ HeldFrom <= SegmentsFrom
    BY <1>2, Positions DEF HeldFrom
<1>4. TodoFrom \in Nat /\ SegmentsFrom <= TodoFrom
    BY <1>3, Positions DEF SegmentsFrom
<1>5. TodoFrom <= Len(made) + Ended
    BY Positions DEF TodoFrom
<1>. QED
    BY <1>2, <1>3, <1>4, <1>5

LEMMA AudioPositions ==
    ASSUME Types, NEW s \in SegmentIds
    PROVE  /\ Signalled(s) \in 0..1 /\ Putting(s) \in 0..1 /\ synthesis[s].chunks \in Nat
           /\ Len(audio[s]) \in Nat /\ AudioEnd(s) \in Int /\ AudioFrom(s) \in Int
BY DEF Types, SynthesisState, Signalled, Putting, AudioEnd, AudioFrom

\* No number changes its meaning when the producer goes on or the token is cancelled.
LEMMA NumbersGrow ==
    ASSUME Types, Types', Len(made) <= Len(made'), current' => current,
           Ended = 1 => Ended' = 1 /\ Len(made') = Len(made)
    PROVE  \A n \in Nat : Numbers[n] \subseteq Numbers'[n]
<1>1. Signals \subseteq Signals'
    BY DEF Signals
<1>. QED
    BY <1>1, Positions DEF Numbers, Types

\* A step leaves what was taken from the audio of a segment, and its meaning, alone.
Settled(s) ==
    /\ AudioFrom(s)' = AudioFrom(s)
    /\ \A n \in Nat : AudioNumbers(s)[n] \subseteq AudioNumbers(s)'[n]
    /\ \A k \in 1..AudioFrom(s) : Complete(s, k)' <=> Complete(s, k)

LEMMA AudioNumbersGrow ==
    ASSUME Types, current' => current, NEW s \in SegmentIds,
           UNCHANGED <<synthesis[s], audio[s]>>
    PROVE  Settled(s) /\ AudioEnd(s)' = AudioEnd(s)
<1>1. AudioFrom(s)' = AudioFrom(s) /\ AudioEnd(s)' = AudioEnd(s)
    BY DEF Signalled, Putting, AudioEnd, AudioFrom
<1>2. Signals \subseteq Signals'
    BY DEF Signals
<1>3. \A n \in Nat : Ready(s, n) = Ready(s, n)'
    BY DEF Ready
<1>4. Signalled(s)' = Signalled(s)
    BY DEF Signalled
<1>5. \A n \in Nat : AudioNumbers(s)[n] \subseteq AudioNumbers(s)'[n]
    BY <1>2, <1>3, <1>4, AudioPositions DEF AudioNumbers
<1>6. \A k : Complete(s, k)' <=> Complete(s, k)
    BY DEF Complete
<1>. QED
    BY <1>1, <1>5, <1>6 DEF Settled

\* A segment whose task and queue a step leaves alone.
LEMMA AudioKept ==
    ASSUME Types, Types', AudioInOrder, current' => current, NEW s \in SegmentIds,
           UNCHANGED <<synthesis[s], audio[s]>>
    PROVE  (AudioInOrder!(s))'
<1>1. /\ AudioFrom(s)' = AudioFrom(s) /\ AudioEnd(s)' = AudioEnd(s)
      /\ \A n \in Nat : AudioNumbers(s)[n] \subseteq AudioNumbers(s)'[n]
    BY AudioNumbersGrow DEF Settled
<1>2. AudioFrom(s) \in Nat /\ AudioEnd(s) \in Nat /\ audio[s] \in Seq(Item)
    BY AudioPositions DEF AudioInOrder, AudioFrom, Types
<1>3. InPlace(audio[s], AudioFrom(s), AudioNumbers(s)')
    BY <1>1, <1>2, PlaceGrows DEF AudioInOrder
<1>4. InPlace(audio'[s], AudioFrom(s)', AudioNumbers(s)')
    BY <1>1, <1>3
<1>5. synthesis'[s].pc = "put" => synthesis'[s].item \in AudioNumbers(s)'[AudioEnd(s)']
    BY <1>1, <1>2 DEF AudioInOrder
<1>. QED
    BY <1>1, <1>4, <1>5 DEF AudioInOrder

LEMMA AudioGrows ==
    ASSUME Types, Types', AudioInOrder, current' => current, UNCHANGED <<synthesis, audio>>
    PROVE  AudioInOrder'
BY AudioKept DEF AudioInOrder

\* The generator's own state when the other tasks go on or the token is cancelled.
LEMMA RunGrows ==
    ASSUME Types, Types', QueuesInOrder, AudioInOrder, RunInOrder, UNCHANGED <<run, last>>,
           \A s \in SegmentIds : Settled(s),
           OutputFrom' = OutputFrom, Len(made) <= Len(made'), current' => current,
           Ended = 1 => Ended' = 1 /\ Len(made') = Len(made)
    PROVE  RunInOrder'
<1>1. \A n \in Nat : Numbers[n] \subseteq Numbers'[n]
    BY NumbersGrow
<1>2. /\ Len(made) \in 0..MaxSegments /\ Len(made') \in 0..MaxSegments
      /\ OutputFrom \in Nat /\ OutputFrom <= Len(made) + Ended
    <2>1. Len(made) \in 0..MaxSegments /\ Len(made') \in 0..MaxSegments
        BY DEF Types
    <2>. QED
        BY <2>1, Positions, QueuePositions
<1>3. ASSUME run.pc = "got_output" 
      PROVE  /\ OutputFrom > 0 /\ run.item \in Numbers'[OutputFrom - 1] /\ Yielded(OutputFrom - 1)
             /\ \A s \in SegmentIds : s = OutputFrom - 1 => AudioFrom(s)' = 0
    BY <1>1, <1>2, <1>3 DEF RunInOrder, Settled
<1>4. ASSUME run.pc \in {"audio", "got_audio"}
      PROVE  LET s == run.item.segment
             IN  s \in SegmentIds /\ InSegment /\ InSegment' /\ AudioFrom(s) \in Nat /\ Settled(s)
    <2>1. InSegment /\ InSegment'
        BY <1>2, <1>4 DEF RunInOrder, InSegment
    <2>2. run.item.segment \in SegmentIds
        BY <2>1, <1>2, BoundAssumption DEF InSegment, SegmentIds
    <2>. QED
        BY <2>1, <2>2, AudioPositions DEF AudioInOrder
<1>5. ASSUME run.pc = "joining" PROVE OutputFrom > Len(made') /\ Len(made') = Len(made)
    BY <1>2, <1>5, Positions DEF RunInOrder
<1>6. (run.pc \in {"output", "joining", "completed"}) => RunInOrder'
    BY <1>5 DEF RunInOrder, Yielded
<1>7. run.pc = "got_output" => RunInOrder'
    BY <1>3 DEF RunInOrder, Yielded
<1>8. run.pc = "audio" => RunInOrder'
    <2>. HAVE run.pc = "audio"
    <2>. DEFINE s == run.item.segment
    <2>1. InSegment /\ Heard(s, AudioFrom(s))
        BY DEF RunInOrder
    <2>2. Heard(s, AudioFrom(s))'
        BY <1>4, <2>1 DEF Heard, Settled
    <2>. QED
        BY <1>4, <2>2 DEF RunInOrder
<1>9. run.pc = "got_audio" => RunInOrder'
    <2>. HAVE run.pc = "got_audio"
    <2>. DEFINE s == run.item.segment
    <2>1. AudioFrom(s) \in Int /\ AudioFrom(s)' = AudioFrom(s)
        BY <1>4, AudioPositions DEF Settled
    <2>2. /\ InSegment /\ AudioFrom(s) > 0 /\ run.item \in AudioNumbers(s)[AudioFrom(s) - 1]
          /\ Heard(s, AudioFrom(s) - 1)
        BY DEF RunInOrder
    <2>3. run'.item \in AudioNumbers(s)'[AudioFrom(s)' - 1]
        BY <1>4, <2>1, <2>2 DEF Settled
    <2>4. Heard(s, AudioFrom(s) - 1)'
        BY <1>4, <2>1, <2>2 DEF Heard, Settled
    <2>. QED
        BY <1>4, <2>1, <2>2, <2>3, <2>4 DEF RunInOrder
<1>10. run.pc = "ended" => RunInOrder'
    BY DEF RunInOrder
<1>. QED
    BY <1>6, <1>7, <1>8, <1>9, <1>10 DEF Types, RunPcs, Waiting

-----------------------------------------------------------------------------
(* _produce_segments                                                         *)

LEMMA ProducerPutsPreserves ==
    ASSUME IInv, ProducerPuts
    PROVE  IInv'
<1>1. Order /\ SlotsAccounted /\ ~Stopping /\ ~Stopping' /\ Types
    BY DEF ProducerPuts, IInv, Stopping
<1>2. /\ UNCHANGED <<made, current, dispatcher, output, slots, synthesis, audio, run, last, outcome>>
      /\ producer'.todo = Tail(producer.todo) /\ segments' = Append(segments, Head(producer.todo))
      /\ producer.todo /= <<>>
    BY DEF ProducerPuts, publicVars, assemblerVars
<1>3. Types'
    BY <1>1 DEF ProducerPuts, Types, publicVars, assemblerVars, AfterPut
<1>4. Ended' = Ended /\ Held' = Held
    BY <1>1 DEF ProducerPuts, Types, AfterPut, Ended, Held
<1>5. /\ Len(producer'.todo) = Len(producer.todo) - 1 /\ Len(segments') = Len(segments) + 1
      /\ producer.todo \in Seq(Item) /\ segments \in Seq(Item) /\ output \in Seq(Item)
      /\ Head(producer.todo) \in Item
    BY <1>1, <1>2 DEF Types
<1>6. TodoFrom' = TodoFrom + 1 /\ SegmentsFrom' = SegmentsFrom
    <2>1. /\ Len(made) \in Nat /\ Ended \in Nat /\ Len(producer.todo) \in Nat /\ Len(segments) \in Nat
          /\ TodoFrom \in Int
        BY <1>1, Positions
    <2>2. Len(made') = Len(made) /\ Len(producer'.todo) = Len(producer.todo) - 1
        BY <1>2, <1>5
    <2>3. TodoFrom' = TodoFrom + 1
        BY <1>4, <2>1, <2>2 DEF TodoFrom
    <2>. QED
        BY <1>5, <2>1, <2>3 DEF SegmentsFrom
<1>7. HeldFrom' = HeldFrom /\ OutputFrom' = OutputFrom
    BY <1>2, <1>4, <1>6 DEF HeldFrom, OutputFrom
<1>8. Numbers' = Numbers
    BY <1>2, <1>4 DEF Numbers, Signals
<1>9. QueuesInOrder'
    <2>1. /\ TodoFrom \in Nat /\ SegmentsFrom \in Nat
          /\ SegmentsFrom + Len(segments) = TodoFrom
        BY <1>1, QueuePositions, Positions DEF Order, SegmentsFrom
    <2>2. InPlace(producer'.todo, TodoFrom', Numbers') /\ Head(producer.todo) \in Numbers[TodoFrom]
        BY <1>1, <1>2, <1>5, <1>6, <1>8, <2>1, PlaceTail DEF Order, QueuesInOrder
    <2>3. InPlace(segments', SegmentsFrom', Numbers')
        BY <1>1, <1>2, <1>5, <1>6, <1>8, <2>1, <2>2, PlaceAppend DEF Order, QueuesInOrder
    <2>. QED
        BY <1>1, <1>2, <1>4, <1>7, <1>8, <2>2, <2>3 DEF Order, QueuesInOrder
<1>10. AudioInOrder' /\ SynthesisInOrder' /\ RunInOrder' /\ SlotsAccounted'
    BY <1>1, <1>2, <1>4, <1>7, AudioFrame, SynthesisFrame, RunFrame, SlotsFrame DEF Order
<1>. QED
    BY <1>1, <1>2, <1>3, <1>9, <1>10 DEF IInv, Order

\* The producer has put everything and makes more: only its own list changes.
LEMMA ProducerMakes ==
    ASSUME IInv, Types', producer.pc = "stream", producer.todo = <<>>, ~Stopping,
           UNCHANGED <<publicVars, segments, dispatcher, slots, output, synthesis, audio, run>>,
           Len(made) <= Len(made'), Len(producer'.todo) = Len(made') + Ended' - Len(made),
           InPlace(producer'.todo, Len(made), Numbers')
    PROVE  IInv'
<1>1. Order /\ SlotsAccounted /\ ~Stopping' /\ Types
    BY DEF IInv, Stopping
<1>2. UNCHANGED <<current, last, outcome>>
    BY DEF publicVars
<1>3. Len(made) \in Nat /\ Len(made') \in Nat /\ Ended = 0 /\ Ended' \in 0..1 /\ Held' = Held
    BY <1>1 DEF Types, Ended, Held
<1>4. TodoFrom' = TodoFrom /\ TodoFrom = Len(made)
    <2>1. TodoFrom' = Len(made)
        BY <1>3 DEF TodoFrom
    <2>2. TodoFrom = Len(made)
        BY <1>3 DEF TodoFrom
    <2>. QED
        BY <2>1, <2>2
<1>5. SegmentsFrom' = SegmentsFrom /\ HeldFrom' = HeldFrom /\ OutputFrom' = OutputFrom
    BY <1>3, <1>4 DEF SegmentsFrom, HeldFrom, OutputFrom
<1>6. \A n \in Nat : Numbers[n] \subseteq Numbers'[n]
    BY <1>1, <1>2, <1>3, NumbersGrow
<1>7. QueuesInOrder'
    <2>1. SegmentsFrom \in Nat /\ OutputFrom \in Nat /\ HeldFrom \in Nat
        BY <1>1, QueuePositions DEF Order
    <2>2. segments \in Seq(Item) /\ output \in Seq(Item)
        BY <1>1 DEF Types
    <2>3. InPlace(segments, SegmentsFrom, Numbers') /\ InPlace(output, OutputFrom, Numbers')
        BY <1>1, <1>6, <2>1, <2>2, PlaceGrows DEF Order, QueuesInOrder
    <2>4. Held = 1 => dispatcher.item \in Numbers'[HeldFrom]
        BY <1>1, <1>6, <2>1 DEF Order, QueuesInOrder
    <2>. QED
        BY <1>1, <1>3, <1>4, <1>5, <2>3, <2>4 DEF Order, QueuesInOrder
<1>8. AudioInOrder' /\ SynthesisInOrder' /\ SlotsAccounted'
    BY <1>1, <1>2, <1>5, AudioFrame, SynthesisFrame, SlotsFrame DEF Order
<1>9. RunInOrder'
    <2>1. \A s \in SegmentIds : Settled(s)
        BY <1>1, <1>2, AudioNumbersGrow
    <2>. QED
        BY <1>1, <1>2, <1>3, <1>5, <2>1, RunGrows DEF Order
<1>. QED
    BY <1>1, <1>2, <1>7, <1>8, <1>9 DEF IInv, Order

LEMMA FunctionIsSeq ==
    ASSUME NEW T, NEW k \in Nat, NEW f \in [1..k -> T]
    PROVE  f \in Seq(T) /\ Len(f) = k
<1>1. f \in Seq(T)
    BY SeqDef
<1>. QED
    BY <1>1, LenProperties

\* The segments just made, numbered.
LEMMA ItemsInPlace ==
    ASSUME Len(made) \in Nat, Len(made') \in Nat, Len(made) <= Len(made')
    PROVE  /\ Items \in Seq(Item) /\ Len(Items) = Len(made') - Len(made)
           /\ InPlace(Items, Len(made), Numbers')
<1>. DEFINE k == Len(made') - Len(made)
<1>1. k \in Nat /\ Items = [i \in 1..k |-> Segment(Len(made) + i - 1)]
    BY DEF Items
<1>2. \A i \in 1..k : Len(made) + i - 1 \in Nat /\ Segment(Len(made) + i - 1) \in Item
    BY <1>1, ItemsTyped
<1>3. Items \in [1..k -> Item]
    BY <1>1, <1>2
<1>4. Items \in Seq(Item) /\ Len(Items) = k
    BY <1>1, <1>3, FunctionIsSeq
<1>5. \A i \in 1..k : Items[i] \in Numbers'[Len(made) + i - 1]
    BY <1>1, <1>2 DEF Numbers
<1>. QED
    BY <1>4, <1>5 DEF InPlace

LEMMA ModelDeltaPreserves ==
    ASSUME IInv, NEW delta, ModelDelta(delta)
    PROVE  IInv'
<1>1. Types /\ producer.pc = "stream" /\ producer.todo = <<>> /\ ~Stopping
    BY DEF ModelDelta, IInv
<1>2. Len(made) \in Nat /\ Len(made') \in 0..MaxSegments /\ Len(made) <= Len(made')
    <2>1. Len(made) \in 0..MaxSegments
        BY <1>1 DEF Types
    <2>2. Len(made') \in Len(made)..(MaxSegments - 1)
        BY DEF ModelDelta, Numbered
    <2>. QED
        BY <2>1, <2>2, BoundAssumption
<1>3. producer' = [producer EXCEPT !.todo = Items]
    BY DEF ModelDelta
<1>4. Items \in Seq(Item) /\ Len(Items) = Len(made') - Len(made) /\ InPlace(Items, Len(made), Numbers')
    BY <1>2, ItemsInPlace
<1>5. Types'
    BY <1>1, <1>2, <1>3, <1>4 DEF ModelDelta, Types, publicVars
<1>6. Ended' = 0 /\ producer'.todo = Items
    BY <1>1, <1>3 DEF Types, Ended
<1>7. UNCHANGED <<publicVars, segments, dispatcher, slots, output, synthesis, audio, run>>
    BY DEF ModelDelta
<1>8. Len(producer'.todo) = Len(made') + Ended' - Len(made)
    BY <1>2, <1>4, <1>6
<1>. QED
    BY <1>1, <1>2, <1>4, <1>5, <1>6, <1>7, <1>8, ProducerMakes

\* The producer ends with a signal behind its last segments.
LEMMA ProducerSignals ==
    ASSUME IInv, producer.pc = "stream", producer.todo = <<>>, ~Stopping,
           UNCHANGED <<publicVars, segments, dispatcher, slots, output, synthesis, audio, run>>,
           Len(made') \in Len(made)..MaxSegments, NEW x \in Signals,
           producer' = [pc |-> "ending", todo |-> Append(Items, x)]
    PROVE  IInv'
<1>1. Types
    BY DEF IInv
<1>2. Len(made) \in Nat /\ Len(made') \in 0..MaxSegments /\ Len(made') \in Nat /\ Len(made) <= Len(made')
    <2>1. Len(made) \in 0..MaxSegments
        BY <1>1 DEF Types
    <2>. QED
        BY <2>1, BoundAssumption
<1>3. Items \in Seq(Item) /\ Len(Items) = Len(made') - Len(made) /\ InPlace(Items, Len(made), Numbers')
    BY <1>2, ItemsInPlace
<1>4. x \in Item /\ x \in Signals'
    BY DEF Signals, publicVars
<1>5. Types'
    BY <1>1, <1>2, <1>3, <1>4 DEF Types, publicVars
<1>6. Ended' = 1 /\ producer'.todo = Append(Items, x)
    BY DEF Ended
<1>7. Len(producer'.todo) = Len(made') + Ended' - Len(made)
    <2>1. Len(Append(Items, x)) = Len(Items) + 1
        BY <1>3, <1>4
    <2>. QED
        BY <1>2, <1>3, <1>6, <2>1
<1>8. InPlace(producer'.todo, Len(made), Numbers')
    <2>1. x \in Numbers'[Len(made')]
        BY <1>2, <1>4, <1>6 DEF Numbers
    <2>2. Len(made) + Len(Items) = Len(made')
        BY <1>2, <1>3
    <2>. QED
        BY <1>2, <1>3, <1>4, <1>6, <2>1, <2>2, PlaceAppend
<1>. QED
    BY <1>2, <1>5, <1>7, <1>8, ProducerMakes

LEMMA ModelEndsPreserves ==
    ASSUME IInv, ModelEnds
    PROVE  IInv'
<1>1. ProductionFinished \in Signals
    BY ItemsTyped DEF Signals, SignalKinds, ProductionFinished, Signal
<1>. QED
    BY <1>1, ProducerSignals DEF ModelEnds, Numbered

LEMMA ModelFailsPreserves ==
    ASSUME IInv, ModelFails
    PROVE  IInv'
<1>1. PICK error \in Errored : producer' = [pc |-> "ending", todo |-> <<StageFailed(error)>>]
    BY DEF ModelFails
<1>2. StageFailed(error) \in Signals
    BY <1>1, ItemsTyped DEF Signals, SignalKinds, StageFailed, Signal, Errored, Errors
<1>3. Len(made') \in Len(made)..MaxSegments
    BY DEF ModelFails, assemblerVars, IInv, Types
<1>4. <<StageFailed(error)>> = Append(Items, StageFailed(error))
    <2>1. Len(made) \in Nat /\ Len(made') \in Nat /\ Len(made) <= Len(made') /\ Len(made') = Len(made)
        BY DEF ModelFails, assemblerVars, IInv, Types
    <2>2. Items \in Seq(Item) /\ Len(Items) = 0
        BY <2>1, ItemsInPlace
    <2>. QED
        BY <2>2
<1>. QED
    BY <1>1, <1>2, <1>3, <1>4, ProducerSignals DEF ModelFails

-----------------------------------------------------------------------------
(* The token                                                                 *)

LEMMA SupersedePreserves ==
    ASSUME IInv, Supersede
    PROVE  IInv'
<1>1. Types /\ UNCHANGED <<made, producer, segments, dispatcher, slots, output, synthesis, audio, run, last, outcome>>
      /\ Stopping' = Stopping /\ ~current'
    BY DEF Supersede, Stream!Supersede, IInv, assemblerVars, Stopping
<1>2. Types'
    BY <1>1, FlagValues DEF Supersede, Stream!Supersede, Types
<1>. SUFFICES ASSUME ~Stopping PROVE Order' /\ SlotsAccounted'
    BY <1>1, <1>2 DEF IInv
<1>3. Order /\ SlotsAccounted
    BY DEF IInv
<1>4. Held' = Held /\ Ended' = Ended /\ Len(made') = Len(made)
    BY <1>1 DEF Held, Ended
<1>5. TodoFrom' = TodoFrom /\ SegmentsFrom' = SegmentsFrom /\ HeldFrom' = HeldFrom /\ OutputFrom' = OutputFrom
    BY <1>1, <1>4 DEF TodoFrom, SegmentsFrom, HeldFrom, OutputFrom
<1>6. \A n \in Nat : Numbers[n] \subseteq Numbers'[n]
    BY <1>1, <1>2, <1>4, Positions, NumbersGrow
<1>7. QueuesInOrder'
    <2>1. TodoFrom \in Nat /\ SegmentsFrom \in Nat /\ OutputFrom \in Nat /\ HeldFrom \in Nat
        BY <1>1, <1>3, QueuePositions DEF Order
    <2>2. segments \in Seq(Item) /\ output \in Seq(Item) /\ producer.todo \in Seq(Item)
        BY <1>1 DEF Types
    <2>3. /\ InPlace(producer.todo, TodoFrom, Numbers') /\ InPlace(segments, SegmentsFrom, Numbers')
          /\ InPlace(output, OutputFrom, Numbers')
        BY <1>3, <1>6, <2>1, <2>2, PlaceGrows DEF Order, QueuesInOrder
    <2>4. Held = 1 => dispatcher.item \in Numbers'[HeldFrom]
        BY <1>3, <1>6, <2>1 DEF Order, QueuesInOrder
    <2>. QED
        BY <1>1, <1>3, <1>4, <1>5, <2>3, <2>4 DEF Order, QueuesInOrder
<1>8. AudioInOrder' /\ SynthesisInOrder' /\ SlotsAccounted'
    BY <1>1, <1>2, <1>3, <1>5, AudioGrows, SynthesisFrame, SlotsFrame DEF Order
<1>9. RunInOrder'
    <2>1. \A s \in SegmentIds : Settled(s)
        BY <1>1, AudioNumbersGrow
    <2>. QED
        BY <1>1, <1>2, <1>3, <1>4, <1>5, <2>1, Positions, RunGrows DEF Order
<1>. QED
    BY <1>1, <1>3, <1>7, <1>8, <1>9 DEF Order

-----------------------------------------------------------------------------
(* _dispatch_synthesis                                                       *)

LEMMA DispatcherGetsPreserves ==
    ASSUME IInv, DispatcherGets
    PROVE  IInv'
<1>1. Order /\ SlotsAccounted /\ ~Stopping /\ ~Stopping' /\ Types
    BY DEF DispatcherGets, IInv, Stopping
<1>2. /\ UNCHANGED <<made, producer, current, output, slots, synthesis, audio, run, last, outcome>>
      /\ segments' = Tail(segments) /\ segments /= <<>> /\ dispatcher'.item = Head(segments)
      /\ dispatcher'.pc = IF IsSegment(Head(segments)) THEN "acquire" ELSE "put"
      /\ dispatcher.pc = "get"
    BY DEF DispatcherGets, publicVars, assemblerVars
<1>3. segments \in Seq(Item) /\ Head(segments) \in Item /\ Len(segments') = Len(segments) - 1
    BY <1>1, <1>2 DEF Types
<1>4. Types'
    BY <1>1, <1>2, <1>3 DEF DispatcherGets, Types
<1>5. Ended' = Ended /\ Held = 0 /\ Held' = 1
    BY <1>2 DEF Ended, Held
<1>6. TodoFrom' = TodoFrom /\ SegmentsFrom' = SegmentsFrom + 1 /\ HeldFrom = SegmentsFrom /\ HeldFrom' = HeldFrom
    <2>1. TodoFrom' = TodoFrom /\ TodoFrom \in Int /\ Len(segments) \in Nat
        BY <1>1, <1>2, <1>5, Positions DEF TodoFrom
    <2>2. SegmentsFrom' = SegmentsFrom + 1 /\ SegmentsFrom \in Int
        BY <1>3, <2>1 DEF SegmentsFrom
    <2>. QED
        BY <1>5, <2>1, <2>2 DEF HeldFrom
<1>7. OutputFrom' = OutputFrom
    BY <1>2, <1>6 DEF OutputFrom
<1>8. Numbers' = Numbers
    BY <1>2, <1>5 DEF Numbers, Signals
<1>9. QueuesInOrder'
    <2>1. SegmentsFrom \in Nat
        BY <1>1, QueuePositions DEF Order
    <2>2. InPlace(segments', SegmentsFrom', Numbers') /\ dispatcher'.item \in Numbers'[HeldFrom']
        BY <1>1, <1>2, <1>3, <1>6, <1>8, <2>1, PlaceTail DEF Order, QueuesInOrder
    <2>. QED
        BY <1>1, <1>2, <1>6, <1>7, <1>8, <2>2 DEF Order, QueuesInOrder
<1>10. AudioInOrder' /\ SynthesisInOrder' /\ RunInOrder'
    BY <1>1, <1>2, <1>5, <1>6, <1>7, AudioFrame, SynthesisFrame, RunFrame DEF Order
<1>11. SlotsAccounted'
    <2>1. HeldByDispatcher = 0 /\ HeldByDispatcher' = 0 /\ Synthesizing' = Synthesizing
        BY <1>2 DEF HeldByDispatcher, Synthesizing
    <2>. QED
        BY <1>1, <1>2, <2>1 DEF SlotsAccounted
<1>. QED
    BY <1>1, <1>2, <1>4, <1>9, <1>10, <1>11 DEF IInv, Order

LEMMA FiniteSynthesizing ==
    /\ IsFiniteSet(Synthesizing) /\ Cardinality(Synthesizing) \in Nat
    /\ \A s : /\ IsFiniteSet(Synthesizing \cup {s}) /\ IsFiniteSet(Synthesizing \ {s})
<1>1. IsFiniteSet(SegmentIds)
    BY FS_Interval, BoundAssumption DEF SegmentIds
<1>2. IsFiniteSet(Synthesizing)
    BY <1>1, FS_Subset DEF Synthesizing
<1>. QED
    BY <1>2, FS_CardinalityType, FS_AddElement, FS_RemoveElement

LEMMA DispatcherAcquiresPreserves ==
    ASSUME IInv, DispatcherAcquires
    PROVE  IInv'
<1>1. Order /\ SlotsAccounted /\ ~Stopping /\ ~Stopping' /\ Types
    BY DEF DispatcherAcquires, IInv, Stopping
<1>2. /\ UNCHANGED <<made, producer, segments, current, output, synthesis, audio, run, last, outcome>>
      /\ slots' = slots - 1 /\ slots > 0 /\ dispatcher' = [dispatcher EXCEPT !.pc = "put"]
      /\ dispatcher.pc = "acquire"
    BY DEF DispatcherAcquires, publicVars, assemblerVars
<1>3. Types'
    <2>1. slots' \in Nat
        BY <1>1, <1>2 DEF Types
    <2>2. dispatcher' \in [pc : {"get", "acquire", "put", "done"}, item : Item]
        BY <1>1, <1>2 DEF Types
    <2>. QED
        BY <1>1, <1>2, <2>1, <2>2 DEF Types
<1>4. Ended' = Ended /\ Held' = Held /\ dispatcher'.item = dispatcher.item /\ dispatcher'.pc = "put"
    BY <1>1, <1>2 DEF Ended, Held, Types
<1>5. TodoFrom' = TodoFrom /\ SegmentsFrom' = SegmentsFrom /\ HeldFrom' = HeldFrom /\ OutputFrom' = OutputFrom
    BY <1>2, <1>4 DEF TodoFrom, SegmentsFrom, HeldFrom, OutputFrom
<1>6. Numbers' = Numbers
    BY <1>2, <1>4 DEF Numbers, Signals
<1>7. QueuesInOrder'
    BY <1>1, <1>2, <1>4, <1>5, <1>6 DEF Order, QueuesInOrder
<1>8. AudioInOrder' /\ SynthesisInOrder' /\ RunInOrder'
    BY <1>1, <1>2, <1>4, <1>5, AudioFrame, SynthesisFrame, RunFrame DEF Order
<1>9. SlotsAccounted'
    <2>1. HeldByDispatcher = 0 /\ HeldByDispatcher' = 1 /\ Synthesizing' = Synthesizing
        BY <1>1, <1>2, <1>4 DEF HeldByDispatcher, Synthesizing, Order, QueuesInOrder, IsSegment
    <2>2. slots \in Nat
        BY <1>1 DEF Types
    <2>. QED
        BY <1>1, <1>2, <2>1, <2>2, FiniteSynthesizing DEF SlotsAccounted
<1>. QED
    BY <1>1, <1>2, <1>3, <1>7, <1>8, <1>9 DEF IInv, Order

\* What is held or taken: a segment is the one of its number, a signal stands behind all.
LEMMA NumberedItem ==
    ASSUME Types, NEW n \in Nat, NEW x \in Numbers[n]
    PROVE  /\ IsSegment(x) => n < Len(made) /\ n \in SegmentIds /\ x = Segment(n)
           /\ ~IsSegment(x) => n = Len(made) /\ Ended = 1 /\ x \in Signals
           /\ IsSegment(x) \/ x.kind \in SignalKinds
<1>1. Len(made) \in 0..MaxSegments
    BY DEF Types
<1>2. CASE n < Len(made)
    BY <1>1, <1>2, BoundAssumption DEF Numbers, IsSegment, Segment, SegmentIds
<1>3. CASE n >= Len(made)
    BY <1>1, <1>3 DEF Numbers, IsSegment, Signals, SignalKinds, Errors
<1>. QED
    BY <1>1, <1>2, <1>3

LEMMA DispatcherPutsPreserves ==
    ASSUME IInv, DispatcherPuts
    PROVE  IInv'
<1>1. Order /\ SlotsAccounted /\ ~Stopping /\ ~Stopping' /\ Types
    BY DEF DispatcherPuts, IInv, Stopping
<1>. DEFINE x == dispatcher.item
<1>2. /\ UNCHANGED <<made, producer, segments, current, slots, audio, run, last, outcome>>
      /\ output' = Append(output, x) /\ dispatcher.pc = "put"
      /\ dispatcher'.pc \in {"get", "done"} /\ dispatcher'.item = NoItem
      /\ dispatcher' \in [pc : {"get", "done"}, item : {NoItem}]
    BY DEF DispatcherPuts, publicVars, assemblerVars
<1>3. Ended' = Ended /\ Held = 1 /\ Held' = 0 /\ x \in Item /\ output \in Seq(Item)
    BY <1>1, <1>2 DEF Ended, Held, Types
<1>4. TodoFrom' = TodoFrom /\ SegmentsFrom' = SegmentsFrom
    BY <1>2, <1>3 DEF TodoFrom, SegmentsFrom
<1>5. HeldFrom' = HeldFrom + 1 /\ OutputFrom' = OutputFrom /\ HeldFrom \in Nat /\ OutputFrom \in Nat
      /\ OutputFrom + Len(output) = HeldFrom
    <2>1. HeldFrom \in Nat /\ OutputFrom \in Nat /\ Len(output) \in Nat /\ SegmentsFrom \in Nat
        BY <1>1, QueuePositions, Positions DEF Order
    <2>2. HeldFrom' = HeldFrom + 1
        BY <1>3, <1>4, <2>1 DEF HeldFrom
    <2>3. Len(output') = Len(output) + 1
        BY <1>2, <1>3
    <2>4. OutputFrom' = HeldFrom' - Len(output') /\ OutputFrom = HeldFrom - Len(output)
        BY DEF OutputFrom
    <2>. QED
        BY <2>1, <2>2, <2>3, <2>4
<1>6. x \in Numbers[HeldFrom]
    BY <1>1, <1>3 DEF Order, QueuesInOrder
<1>7. Numbers' = Numbers
    BY <1>2, <1>3 DEF Numbers, Signals
<1>8. QueuesInOrder'
    <2>1. InPlace(output', OutputFrom', Numbers')
        BY <1>1, <1>2, <1>3, <1>5, <1>6, <1>7, PlaceAppend DEF Order, QueuesInOrder
    <2>. QED
        BY <1>1, <1>2, <1>3, <1>4, <1>5, <1>7, <2>1 DEF Order, QueuesInOrder
<1>9. CASE ~IsSegment(x)
    <2>1. synthesis' = synthesis
        BY <1>9 DEF DispatcherPuts
    <2>2. Types'
        BY <1>1, <1>2, <1>3, <2>1, ItemsTyped DEF Types
    <2>3. AudioInOrder' /\ RunInOrder'
        BY <1>1, <1>2, <1>3, <1>5, <2>1, AudioFrame, RunFrame DEF Order
    <2>4. SynthesisInOrder'
        <3>1. \A s \in SegmentIds : s \in Int /\ AudioFrom(s)' = AudioFrom(s)
            BY <1>2, <2>1, BoundAssumption DEF SegmentIds, AudioFrom, AudioEnd, Signalled, Putting
        <3>. QED
            BY <1>1, <1>5, <2>1, <3>1 DEF Order, SynthesisInOrder
    <2>5. SlotsAccounted'
        <3>1. HeldByDispatcher = 0 /\ HeldByDispatcher' = 0 /\ Synthesizing' = Synthesizing
            BY <1>2, <1>9, <2>1 DEF HeldByDispatcher, Synthesizing
        <3>. QED
            BY <1>1, <1>2, <3>1 DEF SlotsAccounted
    <2>. QED
        BY <1>1, <1>2, <1>8, <2>2, <2>3, <2>4, <2>5 DEF IInv, Order
<1>10. CASE IsSegment(x)
    <2>1. PICK h \in SegmentIds : h = HeldFrom /\ x.segment = h
        BY <1>1, <1>5, <1>6, <1>10, NumberedItem DEF Segment
    <2>2. synthesis' = [synthesis EXCEPT ![h].pc = "stream"]
        BY <1>10, <2>1 DEF DispatcherPuts
    <2>3. /\ synthesis'[h] = [synthesis[h] EXCEPT !.pc = "stream"]
          /\ synthesis[h].pc = "none" /\ synthesis[h] \in SynthesisState
          /\ \A s \in SegmentIds : s /= h => UNCHANGED <<synthesis[s], audio[s]>>
        BY <1>1, <1>2, <1>5, <2>1, <2>2 DEF Order, SynthesisInOrder, Types, SegmentIds
    <2>4. /\ synthesis'[h].pc = "stream" /\ synthesis'[h].chunks = 0 /\ ~synthesis'[h].final
          /\ synthesis[h].chunks = 0 /\ ~synthesis[h].final /\ audio[h] = <<>> /\ audio'[h] = <<>>
        BY <1>1, <1>2, <2>1, <2>3 DEF Order, AudioInOrder, SynthesisState
    <2>5. Types'
        <3>1. synthesis' \in [SegmentIds -> SynthesisState]
            BY <1>1, <2>1, <2>2, <2>3 DEF Types, SynthesisState
        <3>. QED
            BY <1>1, <1>2, <1>3, <3>1, ItemsTyped DEF Types
    <2>6. AudioFrom(h) = 0 /\ AudioFrom(h)' = 0
        <3>1. Signalled(h) = 0 /\ Signalled(h)' = 0 /\ Putting(h) = 0 /\ Putting(h)' = 0
            BY <2>3, <2>4 DEF Signalled, Putting
        <3>2. Len(audio[h]) = 0 /\ Len(audio'[h]) = 0
            BY <2>4
        <3>3. AudioEnd(h) = 0 /\ AudioEnd(h)' = 0
            BY <2>4, <3>1 DEF AudioEnd
        <3>. QED
            BY <3>2, <3>3 DEF AudioFrom
    <2>7. AudioInOrder'
        <3>1. (AudioInOrder!(h))'
            BY <2>4, <2>6 DEF InPlace
        <3>. QED
            BY <1>1, <1>2, <2>3, <2>5, <3>1, AudioKept DEF Order, AudioInOrder
    <2>8. \A s \in SegmentIds : Settled(s)
        <3>1. \A n \in Nat : AudioNumbers(h)[n] = {}
            BY <2>3, <2>4 DEF AudioNumbers, Signalled
        <3>2. Settled(h)
            BY <2>6, <3>1 DEF Settled
        <3>. QED
            BY <1>1, <1>2, <2>3, <3>2, AudioNumbersGrow
    <2>9. SynthesisInOrder'
        BY <1>1, <1>5, <2>1, <2>3, <2>8, BoundAssumption
        DEF Order, SynthesisInOrder, Settled, SegmentIds
    <2>10. RunInOrder'
        BY <1>1, <1>2, <1>3, <1>5, <2>5, <2>8, Positions, RunGrows DEF Order
    <2>11. SlotsAccounted'
        <3>1. HeldByDispatcher = 1 /\ HeldByDispatcher' = 0
            BY <1>2, <1>10 DEF HeldByDispatcher
        <3>2. Synthesizing' = Synthesizing \cup {h} /\ h \notin Synthesizing
            BY <2>3, <2>4 DEF Synthesizing
        <3>3. Cardinality(Synthesizing') = Cardinality(Synthesizing) + 1
            BY <3>2, FiniteSynthesizing, FS_AddElement
        <3>4. slots \in Nat /\ MaxSynthesis \in Nat
            BY <1>1, CapacityAssumption DEF Types
        <3>. QED
            BY <1>1, <1>2, <3>1, <3>3, <3>4, FiniteSynthesizing DEF SlotsAccounted
    <2>. QED
        BY <1>1, <1>2, <1>8, <2>5, <2>7, <2>9, <2>10, <2>11 DEF IInv, Order
<1>. QED
    BY <1>9, <1>10

-----------------------------------------------------------------------------
(* _synthesize                                                               *)

\* A step of the synthesis of s: what it must keep of its own queue.
LEMMA SpeechStep ==
    ASSUME IInv, Types', ~Stopping, NEW s \in SegmentIds, synthesis[s].pc /= "none",
           \A r \in SegmentIds : r /= s => UNCHANGED <<synthesis[r], audio[r]>>,
           UNCHANGED <<publicVars, assemblerVars, producer, segments, dispatcher, output, run>>,
           Settled(s), (AudioInOrder!(s))', SlotsAccounted'
    PROVE  IInv'
<1>1. Order /\ Types /\ ~Stopping'
    BY DEF IInv, Stopping
<1>2. UNCHANGED <<current, last, outcome, made>>
    BY DEF publicVars, assemblerVars
<1>3. Held' = Held /\ Ended' = Ended
    BY DEF Held, Ended
<1>4. HeldFrom' = HeldFrom /\ OutputFrom' = OutputFrom
    BY <1>2, <1>3 DEF TodoFrom, SegmentsFrom, HeldFrom, OutputFrom
<1>5. QueuesInOrder'
    BY <1>1, <1>2, QueuesFrame DEF Order
<1>6. AudioInOrder'
    BY <1>1, <1>2, AudioKept DEF Order, AudioInOrder
<1>7. \A r \in SegmentIds : Settled(r)
    BY <1>1, <1>2, AudioNumbersGrow
<1>8. SynthesisInOrder'
    BY <1>1, <1>4, <1>7 DEF Order, SynthesisInOrder, Settled
<1>9. RunInOrder'
    BY <1>1, <1>2, <1>3, <1>4, <1>7, Positions, RunGrows DEF Order
<1>. QED
    BY <1>1, <1>2, <1>5, <1>6, <1>8, <1>9 DEF IInv, Order

\* The task holds its slot from one step to the next.
LEMMA SlotKept ==
    ASSUME SlotsAccounted, ~Stopping, NEW s \in SegmentIds, UNCHANGED <<slots, dispatcher>>,
           \A r \in SegmentIds : r /= s => UNCHANGED synthesis[r],
           synthesis[s].pc \in {"stream", "put"}, synthesis'[s].pc \in {"stream", "put"}
    PROVE  SlotsAccounted'
<1>1. HeldByDispatcher' = HeldByDispatcher
    BY DEF HeldByDispatcher
<1>2. Synthesizing' = Synthesizing
    BY DEF Synthesizing
<1>. QED
    BY <1>1, <1>2 DEF SlotsAccounted

\* The task has something to put; its queue is as it was.
LEMMA SpeechHolds ==
    ASSUME IInv, ~Stopping, NEW s \in SegmentIds, NEW x,
           synthesis[s].pc = "stream", x \in SynthesisState, x.pc = "put",
           synthesis' = [synthesis EXCEPT ![s] = x], UNCHANGED speechUnchanged,
           \/ /\ x.item.kind = "audio" /\ x.item.chunk = synthesis[s].chunks
              /\ x.item.final = x.final /\ ~synthesis[s].final
              /\ x.chunks = synthesis[s].chunks + 1
           \/ /\ x.item \in Signals /\ (x.item.kind = "finished" => x.final)
              /\ x.chunks = synthesis[s].chunks /\ x.final = synthesis[s].final
    PROVE  IInv'
<1>1. /\ UNCHANGED <<publicVars, assemblerVars, producer, segments, dispatcher, output, slots, audio, run>>
      /\ UNCHANGED current /\ Types /\ Order
    BY DEF speechUnchanged, publicVars, IInv
<1>2. /\ synthesis'[s] = x
      /\ \A r \in SegmentIds : r /= s => UNCHANGED <<synthesis[r], audio[r]>>
      /\ synthesis' \in [SegmentIds -> SynthesisState]
    BY <1>1 DEF Types
<1>3. Types'
    BY <1>1, <1>2 DEF Types, publicVars, assemblerVars
<1>c. PICK c \in Nat : c = synthesis[s].chunks
    BY <1>1 DEF Types, SynthesisState
<1>4. /\ c \in Nat /\ c = synthesis[s].chunks /\ x.item \in Item /\ audio[s] \in Seq(Item) /\ x.final \in Flags
      /\ synthesis[s].final \in Flags
    BY <1>1, <1>c DEF Types, SynthesisState
<1>5. AudioFrom(s) \in Nat /\ AudioEnd(s) = c
    <2>1. Signalled(s) = 0 /\ Putting(s) = 0
        BY DEF Signalled, Putting
    <2>. QED
        BY <1>1, <1>4, <2>1, AudioPositions DEF AudioEnd, Order, AudioInOrder
<1>6. Putting(s)' = 1 /\ Signalled(s)' = IF x.item.kind = "audio" THEN 0 ELSE 1
    BY <1>2 DEF Signalled, Putting
<1>. DEFINE Chunked == /\ x.item.kind = "audio" /\ x.item.chunk = c /\ x.item.final = x.final
                       /\ ~synthesis[s].final /\ x.chunks = c + 1
            Ending == /\ x.item \in Signals /\ (x.item.kind = "finished" => x.final)
                      /\ x.chunks = c /\ x.final = synthesis[s].final
<1>7. Chunked \/ Ending
    BY <1>c
<1>8. Ending => x.item.kind /= "audio"
    BY DEF Signals, SignalKinds, Errors
<1>9. AudioEnd(s)' = c
    <2>1. AudioEnd(s)' = x.chunks + Signalled(s)' - 1
        BY <1>2, <1>6 DEF AudioEnd
    <2>2. x.chunks + Signalled(s)' - 1 = c
        BY <1>4, <1>6, <1>7, <1>8
    <2>. QED
        BY <2>1, <2>2
<1>10. AudioFrom(s)' = AudioFrom(s)
    BY <1>1, <1>5, <1>9 DEF AudioFrom
<1>11. Signals' = Signals
    BY <1>1 DEF Signals
<1>12. \A n \in Nat : AudioNumbers(s)[n] \subseteq AudioNumbers(s)'[n]
    <2>. SUFFICES ASSUME NEW n \in Nat, NEW y \in AudioNumbers(s)[n]
                  PROVE  y \in AudioNumbers(s)'[n]
        OBVIOUS
    <2>1. n < c /\ y \in Ready(s, n)
        <3>1. Signalled(s) = 0
            BY DEF Signalled
        <3>. QED
            BY <1>4, <3>1 DEF AudioNumbers
    <2>2. y \in Ready(s, n)'
        BY <1>2, <1>4, <1>7, <2>1 DEF Ready
    <2>3. n < synthesis'[s].chunks
        BY <1>2, <1>4, <1>7, <2>1
    <2>. QED
        BY <2>2, <2>3 DEF AudioNumbers
<1>13. x.item \in AudioNumbers(s)'[c]
    <2>1. CASE Chunked
        <3>1. x.item \in Ready(s, c)'
            BY <1>2, <1>4, <2>1 DEF Ready
        <3>. QED
            BY <1>2, <1>4, <2>1, <3>1 DEF AudioNumbers
    <2>2. CASE Ending
        <3>1. Signalled(s)' = 1
            BY <1>6, <1>8, <2>2
        <3>. QED
            BY <1>2, <1>4, <1>11, <2>2, <3>1 DEF AudioNumbers
    <2>. QED
        BY <1>7, <2>1, <2>2
<1>14. Settled(s)
    <2>1. AudioFrom(s) <= c
        BY <1>1, <1>4, <1>5, AudioPositions DEF AudioFrom
    <2>2. \A k \in 1..AudioFrom(s) : Complete(s, k)' <=> Complete(s, k)
        BY <1>2, <1>4, <1>5, <1>7, <2>1 DEF Complete
    <2>. QED
        BY <1>10, <1>12, <2>2 DEF Settled
<1>15. (AudioInOrder!(s))'
    <2>1. InPlace(audio'[s], AudioFrom(s)', AudioNumbers(s)')
        BY <1>1, <1>4, <1>5, <1>10, <1>12, PlaceGrows DEF Order, AudioInOrder
    <2>2. synthesis'[s].pc = "put" /\ synthesis'[s].item = x.item
        BY <1>2
    <2>3. synthesis'[s].final => synthesis'[s].chunks > 0
        <3>1. synthesis[s].final => c > 0
            BY <1>1, <1>4 DEF Order, AudioInOrder
        <3>2. x.final => x.chunks > 0
            <4>1. Chunked => x.chunks > 0
                BY <1>4
            <4>2. Ending => (x.final => x.chunks > 0)
                BY <1>4, <3>1
            <4>. QED
                BY <1>7, <4>1, <4>2
        <3>. QED
            BY <1>2, <3>2
    <2>. QED
        BY <1>5, <1>9, <1>10, <1>13, <2>1, <2>2, <2>3
<1>16. SlotsAccounted'
    BY <1>1, <1>2, SlotKept DEF IInv
<1>. QED
    BY <1>1, <1>2, <1>3, <1>14, <1>15, <1>16, SpeechStep

LEMMA SpeechChunkPreserves ==
    ASSUME IInv, NEW s \in SegmentIds, NEW c \in Chunks, SpeechChunk(s, c)
    PROVE  IInv'
<1>. DEFINE x == [pc |-> "put", chunks |-> synthesis[s].chunks + 1, final |-> c.final, item |-> c]
<1>1. Types /\ synthesis[s] \in SynthesisState
    BY DEF IInv, Types
<1>2. c \in Item /\ c.kind = "audio" /\ c.final \in Flags
    <2>1. c.kind = "audio"
        BY DEF Chunks, Chunk
    <2>. QED
        BY <2>1, ItemsTyped DEF Item
<1>3. synthesis' = [synthesis EXCEPT ![s] = x]
    BY <1>1 DEF SpeechChunk, Types
<1>4. x \in SynthesisState /\ x.pc = "put" /\ x.item = c /\ x.final = c.final
      /\ x.chunks = synthesis[s].chunks + 1
    BY <1>1, <1>2 DEF SynthesisState
<1>5. /\ synthesis[s].pc = "stream" /\ ~Stopping /\ UNCHANGED speechUnchanged
      /\ ~synthesis[s].final /\ c.chunk = synthesis[s].chunks
    BY DEF SpeechChunk, Accepted
<1>. HIDE DEF x
<1>. QED
    BY <1>2, <1>3, <1>4, <1>5, SpeechHolds

\* The task has a signal to put.
LEMMA SpeechSignals ==
    ASSUME IInv, ~Stopping, NEW s \in SegmentIds, NEW signal \in Signals,
           synthesis[s].pc = "stream", signal.kind = "finished" => synthesis[s].final,
           synthesis' = [synthesis EXCEPT ![s].pc = "put", ![s].item = signal],
           UNCHANGED speechUnchanged
    PROVE  IInv'
<1>. DEFINE x == [synthesis[s] EXCEPT !.pc = "put", !.item = signal]
<1>1. Types /\ synthesis[s] \in SynthesisState /\ signal \in Item
    BY DEF IInv, Types, Signals
<1>2. synthesis' = [synthesis EXCEPT ![s] = x]
    BY <1>1 DEF Types, SynthesisState
<1>3. /\ x \in SynthesisState /\ x.pc = "put" /\ x.item = signal
      /\ x.final = synthesis[s].final /\ x.chunks = synthesis[s].chunks
    BY <1>1 DEF SynthesisState
<1>. HIDE DEF x
<1>. QED
    BY <1>2, <1>3, SpeechHolds

LEMMA SpeechFailsPreserves ==
    ASSUME IInv, NEW s \in SegmentIds, NEW error \in Errored, SpeechFails(s, error)
    PROVE  IInv'
<1>1. StageFailed(error) \in Signals /\ StageFailed(error).kind /= "finished"
    BY ItemsTyped DEF Signals, SignalKinds, StageFailed, Signal, Errored, Errors
<1>. QED
    BY <1>1, SpeechSignals DEF SpeechFails

LEMMA SpeechEndsPreserves ==
    ASSUME IInv, NEW s \in SegmentIds, SpeechEnds(s)
    PROVE  IInv'
<1>1. SynthesisFinished \in Signals
    BY ItemsTyped DEF Signals, SignalKinds, ProductionFinished, SynthesisFinished, Signal
<1>. QED
    BY <1>1, SpeechSignals DEF SpeechEnds

LEMMA SpeechPutsPreserves ==
    ASSUME IInv, NEW s \in SegmentIds, SpeechPuts(s)
    PROVE  IInv'
<1>1. Order /\ SlotsAccounted /\ Types /\ ~Stopping /\ synthesis[s].pc = "put"
    BY DEF SpeechPuts, IInv
<1>2. UNCHANGED <<publicVars, assemblerVars, producer, segments, dispatcher, output, run>>
      /\ UNCHANGED current
    BY DEF SpeechPuts, publicVars
<1>3. /\ synthesis[s] \in SynthesisState /\ audio[s] \in Seq(Item) /\ synthesis[s].item \in Item
      /\ synthesis[s].chunks \in Nat
    BY <1>1 DEF Types, SynthesisState
<1>. DEFINE next == IF synthesis[s].item.kind = "audio" THEN "stream" ELSE "done"
            x == [synthesis[s] EXCEPT !.pc = next, !.item = NoItem]
<1>4. /\ x \in SynthesisState /\ x.pc = next /\ x.final = synthesis[s].final
      /\ x.chunks = synthesis[s].chunks
    BY <1>3, ItemsTyped DEF SynthesisState
<1>5. synthesis' = [synthesis EXCEPT ![s] = x]
    BY <1>1 DEF SpeechPuts, Types, SynthesisState
<1>6. slots' = slots + (IF synthesis[s].item.kind = "audio" THEN 0 ELSE 1) /\ slots \in Nat
    BY <1>1 DEF SpeechPuts, Types
<1>7. audio' = [audio EXCEPT ![s] = Append(@, synthesis[s].item)]
    BY DEF SpeechPuts
<1>8. /\ synthesis'[s].pc = next /\ synthesis'[s].final = synthesis[s].final
      /\ synthesis'[s].chunks = synthesis[s].chunks
      /\ audio'[s] = Append(audio[s], synthesis[s].item)
      /\ synthesis' \in [SegmentIds -> SynthesisState] /\ audio' \in [SegmentIds -> Seq(Item)]
      /\ \A r \in SegmentIds : r /= s => UNCHANGED <<synthesis[r], audio[r]>>
    <2>. HIDE DEF x, next
    <2>1. synthesis'[s] = x /\ synthesis' \in [SegmentIds -> SynthesisState]
        BY <1>1, <1>4, <1>5 DEF Types
    <2>2. audio'[s] = Append(audio[s], synthesis[s].item) /\ audio' \in [SegmentIds -> Seq(Item)]
        BY <1>1, <1>3, <1>7 DEF Types
    <2>3. \A r \in SegmentIds : r /= s => UNCHANGED <<synthesis[r], audio[r]>>
        BY <1>1, <1>5, <1>7 DEF Types
    <2>. QED
        BY <1>4, <2>1, <2>2, <2>3
<1>9. Types'
    BY <1>1, <1>2, <1>6, <1>8 DEF Types, publicVars, assemblerVars
<1>10. Signalled(s)' = Signalled(s) /\ Putting(s) = 1 /\ Putting(s)' = 0
    BY <1>1, <1>8 DEF Signalled, Putting
<1>11. AudioEnd(s)' = AudioEnd(s) + 1 /\ AudioEnd(s) \in Int
    <2>1. Signalled(s) \in Nat
        BY <1>1, AudioPositions
    <2>. QED
        BY <1>3, <1>8, <1>10, <2>1 DEF AudioEnd
<1>12. AudioFrom(s)' = AudioFrom(s) /\ AudioFrom(s) \in Nat /\ AudioFrom(s) + Len(audio[s]) = AudioEnd(s)
    <2>1. Len(audio'[s]) = Len(audio[s]) + 1 /\ Len(audio[s]) \in Nat
        BY <1>3, <1>8
    <2>2. AudioFrom(s) >= 0
        BY <1>1 DEF Order, AudioInOrder
    <2>. QED
        BY <1>11, <2>1, <2>2 DEF AudioFrom
<1>13. AudioNumbers(s)' = AudioNumbers(s)
    <2>1. Signals' = Signals
        BY <1>2 DEF Signals
    <2>2. \A n \in Nat : Ready(s, n)' = Ready(s, n)
        BY <1>8 DEF Ready
    <2>. QED
        BY <1>8, <1>10, <2>1, <2>2 DEF AudioNumbers
<1>14. Settled(s)
    <2>1. \A k : Complete(s, k)' <=> Complete(s, k)
        BY <1>8 DEF Complete
    <2>. QED
        BY <1>12, <1>13, <2>1 DEF Settled
<1>15. (AudioInOrder!(s))'
    <2>1. InPlace(audio'[s], AudioFrom(s)', AudioNumbers(s)')
        BY <1>1, <1>3, <1>8, <1>12, <1>13, PlaceAppend DEF Order, AudioInOrder
    <2>2. synthesis'[s].final => synthesis'[s].chunks > 0
        BY <1>1, <1>8 DEF Order, AudioInOrder
    <2>. QED
        BY <1>8, <1>12, <2>1, <2>2
<1>16. SlotsAccounted'
    <2>1. CASE synthesis[s].item.kind = "audio"
        BY <1>1, <1>2, <1>6, <1>8, <2>1, SlotKept
    <2>2. CASE synthesis[s].item.kind /= "audio"
        <3>1. HeldByDispatcher' = HeldByDispatcher /\ HeldByDispatcher \in Nat
            BY <1>2 DEF HeldByDispatcher
        <3>2. Synthesizing' = Synthesizing \ {s} /\ s \in Synthesizing
            BY <1>1, <1>8, <2>2 DEF Synthesizing
        <3>3. Cardinality(Synthesizing') = Cardinality(Synthesizing) - 1
            BY <3>2, FiniteSynthesizing, FS_RemoveElement
        <3>4. slots + HeldByDispatcher + Cardinality(Synthesizing) = MaxSynthesis
            BY <1>1 DEF SlotsAccounted
        <3>. QED
            BY <1>6, <2>2, <3>1, <3>3, <3>4, FiniteSynthesizing DEF SlotsAccounted
    <2>. QED
        BY <2>1, <2>2
<1>. QED
    BY <1>1, <1>2, <1>8, <1>9, <1>14, <1>15, <1>16, SpeechStep

-----------------------------------------------------------------------------
(* run                                                                       *)

\* A step of the generator that takes nothing from the queues.
LEMMA RunStep ==
    ASSUME IInv, ~Stopping, ~Stopping', UNCHANGED <<current, outcome, tasks>>,
           Types', RunInOrder'
    PROVE  IInv'
<1>1. Order /\ SlotsAccounted /\ Types
    BY DEF IInv
<1>2. UNCHANGED <<made, producer, segments, dispatcher, slots, synthesis, output, audio>>
    BY DEF tasks, assemblerVars
<1>3. HeldFrom' = HeldFrom /\ OutputFrom' = OutputFrom
    BY <1>2 DEF Held, Ended, TodoFrom, SegmentsFrom, HeldFrom, OutputFrom
<1>4. SlotsAccounted'
    BY <1>1, <1>2 DEF SlotsAccounted, HeldByDispatcher, Synthesizing
<1>. QED
    BY <1>1, <1>2, <1>3, <1>4, QueuesFrame, AudioFrame, SynthesisFrame DEF IInv, Order

\* What the generator knows of the segment it speaks.
LEMMA SpokenSegment ==
    ASSUME IInv, run.pc \in {"audio", "got_audio"}
    PROVE  /\ run.item.segment \in SegmentIds /\ run.item.segment \in Nat
           /\ AudioFrom(run.item.segment) \in Nat
<1>1. Order /\ Types
    BY DEF IInv, Stopping
<1>2. Len(made) \in 0..MaxSegments
    BY <1>1 DEF Types
<1>3. run.item.segment \in SegmentIds /\ run.item.segment \in Nat
    BY <1>1, <1>2, QueuePositions, BoundAssumption DEF Order, RunInOrder, InSegment, SegmentIds
<1>. QED
    BY <1>1, <1>3, AudioPositions DEF Order, AudioInOrder

LEMMA RunTakesOutputPreserves ==
    ASSUME IInv, RunTakesOutput
    PROVE  IInv'
<1>1. Order /\ SlotsAccounted /\ Types /\ ~Stopping /\ ~Stopping'
    BY DEF RunTakesOutput, IInv, Stopping
<1>2. /\ UNCHANGED <<made, producer, segments, dispatcher, slots, synthesis, audio, current, last, outcome>>
      /\ output' = Tail(output) /\ output /= <<>> /\ run.pc = "output"
      /\ run' = [pc |-> "got_output", item |-> Head(output)]
    BY DEF RunTakesOutput, publicVars, assemblerVars
<1>3. output \in Seq(Item) /\ Head(output) \in Item /\ Len(output') = Len(output) - 1
    BY <1>1, <1>2 DEF Types
<1>4. Types'
    BY <1>1, <1>2, <1>3 DEF Types, RunPcs
<1>5. /\ Ended' = Ended /\ Held' = Held /\ TodoFrom' = TodoFrom /\ SegmentsFrom' = SegmentsFrom
      /\ HeldFrom' = HeldFrom
    BY <1>2 DEF Ended, Held, TodoFrom, SegmentsFrom, HeldFrom
<1>6. OutputFrom' = OutputFrom + 1 /\ OutputFrom \in Nat
    <2>1. HeldFrom \in Nat /\ OutputFrom \in Nat /\ Len(output) \in Nat
        BY <1>1, QueuePositions, Positions DEF Order
    <2>. QED
        BY <1>3, <1>5, <2>1 DEF OutputFrom
<1>7. Numbers' = Numbers
    BY <1>2, <1>5 DEF Numbers, Signals
<1>8. InPlace(output', OutputFrom', Numbers') /\ Head(output) \in Numbers[OutputFrom]
    BY <1>1, <1>2, <1>3, <1>6, <1>7, PlaceTail DEF Order, QueuesInOrder
<1>9. QueuesInOrder'
    BY <1>1, <1>2, <1>5, <1>6, <1>7, <1>8 DEF Order, QueuesInOrder
<1>10. AudioInOrder' /\ SlotsAccounted'
    <2>1. SlotsAccounted'
        BY <1>1, <1>2 DEF SlotsAccounted, HeldByDispatcher, Synthesizing
    <2>. QED
        BY <1>1, <1>2, <2>1, AudioFrame DEF Order
<1>11. \A s \in SegmentIds : s \in Int /\ AudioFrom(s)' = AudioFrom(s)
    BY <1>2, BoundAssumption DEF SegmentIds, AudioFrom, AudioEnd, Signalled, Putting
<1>12. SynthesisInOrder'
    BY <1>1, <1>2, <1>5, <1>6, <1>11 DEF Order, SynthesisInOrder
<1>13. RunInOrder'
    <2>1. Yielded(OutputFrom) /\ \A s \in SegmentIds : s = OutputFrom => AudioFrom(s) = 0
        BY <1>1, <1>2, <1>6, <1>11 DEF Order, RunInOrder, SynthesisInOrder
    <2>2. Yielded(OutputFrom - 1)'
        BY <1>2, <1>6, <2>1 DEF Yielded
    <2>. QED
        BY <1>2, <1>6, <1>7, <1>8, <1>11, <2>1, <2>2 DEF RunInOrder
<1>. QED
    BY <1>1, <1>2, <1>4, <1>9, <1>10, <1>12, <1>13 DEF IInv, Order

LEMMA RunTakesAudioPreserves ==
    ASSUME IInv, RunTakesAudio
    PROVE  IInv'
<1>1. Order /\ SlotsAccounted /\ Types /\ ~Stopping /\ ~Stopping' /\ run.pc = "audio"
    BY DEF RunTakesAudio, IInv, Stopping
<1>2. PICK s \in SegmentIds : s = run.item.segment /\ s \in Nat /\ AudioFrom(s) \in Nat
    BY <1>1, SpokenSegment
<1>. DEFINE x == [Head(audio[s]) EXCEPT !.segment = s]
<1>3. /\ UNCHANGED <<made, producer, segments, dispatcher, slots, output, synthesis, current, last, outcome>>
      /\ audio' = [audio EXCEPT ![s] = Tail(@)] /\ audio[s] /= <<>>
      /\ run' = [pc |-> "got_audio", item |-> x]
    BY <1>2 DEF RunTakesAudio, publicVars, assemblerVars
<1>4. /\ audio[s] \in Seq(Item) /\ Head(audio[s]) \in Item /\ Tail(audio[s]) \in Seq(Item)
      /\ Len(Tail(audio[s])) = Len(audio[s]) - 1 /\ Len(audio[s]) \in Nat
    BY <1>1, <1>3 DEF Types
<1>5. /\ x \in Item /\ x.segment = s /\ x.kind = Head(audio[s]).kind
      /\ x.chunk = Head(audio[s]).chunk /\ x.final = Head(audio[s]).final
    BY <1>2, <1>4 DEF Item
<1>. HIDE DEF x
<1>6. /\ audio'[s] = Tail(audio[s]) /\ audio' \in [SegmentIds -> Seq(Item)]
      /\ \A r \in SegmentIds : r /= s => UNCHANGED <<synthesis[r], audio[r]>>
    BY <1>1, <1>3, <1>4 DEF Types
<1>7. Types'
    BY <1>1, <1>3, <1>5, <1>6 DEF Types, RunPcs
<1>8. /\ HeldFrom' = HeldFrom /\ OutputFrom' = OutputFrom /\ AudioEnd(s)' = AudioEnd(s)
      /\ AudioNumbers(s)' = AudioNumbers(s)
    <2>1. HeldFrom' = HeldFrom /\ OutputFrom' = OutputFrom
        BY <1>3 DEF Held, Ended, TodoFrom, SegmentsFrom, HeldFrom, OutputFrom
    <2>2. AudioEnd(s)' = AudioEnd(s) /\ Signalled(s)' = Signalled(s)
        BY <1>3 DEF AudioEnd, Signalled, Putting
    <2>3. Signals' = Signals /\ \A n \in Nat : Ready(s, n)' = Ready(s, n)
        BY <1>3 DEF Signals, Ready
    <2>. QED
        BY <1>3, <2>1, <2>2, <2>3 DEF AudioNumbers
<1>9. AudioFrom(s)' = AudioFrom(s) + 1
    BY <1>1, <1>4, <1>6, <1>8, AudioPositions DEF AudioFrom
<1>10. Head(audio[s]) \in AudioNumbers(s)[AudioFrom(s)] /\ InPlace(audio'[s], AudioFrom(s)', AudioNumbers(s)')
    BY <1>1, <1>2, <1>3, <1>4, <1>6, <1>8, <1>9, PlaceTail DEF Order, AudioInOrder
<1>11. QueuesInOrder' /\ SlotsAccounted'
    <2>1. SlotsAccounted'
        BY <1>1, <1>3 DEF SlotsAccounted, HeldByDispatcher, Synthesizing
    <2>. QED
        BY <1>1, <1>3, <2>1, QueuesFrame DEF Order
<1>12. AudioInOrder'
    <2>1. (AudioInOrder!(s))'
        <3>1. AudioFrom(s)' >= 0
            BY <1>2, <1>9
        <3>2. synthesis[s].pc /= "none"
            BY <1>1, <1>3 DEF Order, AudioInOrder
        <3>3. /\ synthesis[s].pc = "put" => synthesis[s].item \in AudioNumbers(s)[AudioEnd(s)]
              /\ synthesis[s].final => synthesis[s].chunks > 0
            BY <1>1 DEF Order, AudioInOrder
        <3>. QED
            BY <1>3, <1>8, <1>10, <3>1, <3>2, <3>3
    <2>. QED
        BY <1>1, <1>3, <1>6, <1>7, <2>1, AudioKept DEF Order, AudioInOrder
<1>13. SynthesisInOrder'
    <2>1. s < OutputFrom
        BY <1>1, <1>2, QueuePositions DEF Order, RunInOrder, InSegment
    <2>2. \A r \in SegmentIds : r /= s => AudioFrom(r)' = AudioFrom(r)
        BY <1>1, <1>3, <1>6, AudioNumbersGrow DEF Settled
    <2>3. OutputFrom \in Nat
        BY <1>1, QueuePositions DEF Order
    <2>. QED
        BY <1>1, <1>2, <1>3, <1>8, <2>1, <2>2, <2>3 DEF Order, SynthesisInOrder
<1>14. RunInOrder'
    <2>1. InSegment /\ Heard(s, AudioFrom(s))
        BY <1>1, <1>2 DEF Order, RunInOrder
    <2>2. InSegment'
        BY <1>2, <1>3, <1>5, <1>8, <2>1 DEF InSegment
    <2>3. x \in AudioNumbers(s)[AudioFrom(s)]
        BY <1>2, <1>5, <1>10 DEF AudioNumbers, Ready, Signals
    <2>4. Heard(s, AudioFrom(s) - 1)'
        BY <1>2, <1>3, <1>9, <2>1 DEF Heard, Complete
    <2>5. run'.item = x /\ run'.item.segment = s /\ run'.pc = "got_audio"
        BY <1>3, <1>5
    <2>6. AudioFrom(s)' > 0 /\ x \in AudioNumbers(s)'[AudioFrom(s)' - 1]
        BY <1>2, <1>8, <1>9, <2>3
    <2>. QED
        BY <2>2, <2>4, <2>5, <2>6 DEF RunInOrder
<1>. QED
    BY <1>1, <1>3, <1>7, <1>11, <1>12, <1>13, <1>14 DEF IInv, Order

LEMMA RunYieldsSegmentPreserves ==
    ASSUME IInv, RunYieldsSegment
    PROVE  IInv' /\ [Stream!Next]_(Stream!streamVars)
<1>1. Order /\ Types /\ ~Stopping /\ run.pc = "got_output" /\ IsSegment(run.item)
    BY DEF RunYieldsSegment, IInv, Stopping
<1>2. OutputFrom \in Nat /\ OutputFrom > 0 /\ run.item \in Numbers[OutputFrom - 1]
    BY <1>1, QueuePositions DEF Order, RunInOrder
<1>3. PICK s \in SegmentIds : s \in Nat /\ s = OutputFrom - 1 /\ s < Len(made) /\ run.item = Segment(s)
    BY <1>1, <1>2, NumberedItem
<1>4. run.item.segment = s /\ AudioFrom(s) = 0 /\ Yielded(s)
    BY <1>1, <1>3 DEF Segment, Order, RunInOrder
<1>5. CASE EndsWith("cancelled") /\ ~current
    BY <1>1, <1>5, EndPreserves DEF EndsWith, Order, Stream!Next, Stream!End
<1>6. CASE current /\ Yields(Stream!SegmentReady(s), "audio")
    <2>1. /\ last' = Stream!SegmentReady(s) /\ run' = [run EXCEPT !.pc = "audio"]
          /\ UNCHANGED <<current, outcome, tasks>>
        BY <1>6 DEF Yields
    <2>2. run'.pc = "audio" /\ run'.item = run.item /\ ~Stopping'
        BY <1>1, <2>1 DEF Types, Stopping
    <2>3. Types'
        BY <1>1, <1>3, <2>1, FlagValues DEF Types, tasks, assemblerVars, RunPcs, Waiting, Stream!SegmentReady
    <2>4. OutputFrom' = OutputFrom /\ Len(made') = Len(made) /\ AudioFrom(s)' = AudioFrom(s)
        BY <2>1 DEF tasks, assemblerVars, Held, Ended, TodoFrom, SegmentsFrom, HeldFrom, OutputFrom,
           AudioFrom, AudioEnd, Signalled, Putting
    <2>5. RunInOrder'
        <3>1. InSegment'
            BY <1>1, <1>2, <1>3, <1>4, <2>2, <2>4, Positions DEF InSegment
        <3>2. Heard(s, AudioFrom(s))'
            BY <1>4, <2>1, <2>4 DEF Heard
        <3>3. run'.item.segment = s
            BY <1>4, <2>2
        <3>. QED
            BY <2>2, <3>1, <3>2, <3>3 DEF RunInOrder
    <2>6. Stream!Yield
        <3>1. last.final /\ s = Stream!NextSegment
            BY <1>4 DEF Yielded, Stream!NextSegment
        <3>. QED
            BY <1>1, <1>6, <2>1, <3>1 DEF Stream!Yield, Order
    <2>. QED
        BY <1>1, <2>1, <2>2, <2>3, <2>5, <2>6, RunStep DEF Stream!Next
<1>. QED
    BY <1>4, <1>5, <1>6 DEF RunYieldsSegment, CheckActive

LEMMA RunYieldsAudioPreserves ==
    ASSUME IInv, RunYieldsAudio
    PROVE  IInv' /\ [Stream!Next]_(Stream!streamVars)
<1>1. Order /\ Types /\ ~Stopping /\ run.pc = "got_audio" /\ run.item.kind = "audio"
    BY DEF RunYieldsAudio, IInv, Stopping
<1>2. PICK s \in SegmentIds : s = run.item.segment /\ s \in Nat /\ AudioFrom(s) \in Nat
    BY <1>1, SpokenSegment
<1>3. /\ InSegment /\ AudioFrom(s) > 0 /\ run.item \in AudioNumbers(s)[AudioFrom(s) - 1]
      /\ Heard(s, AudioFrom(s) - 1)
    BY <1>1, <1>2 DEF Order, RunInOrder
<1>4. PICK k \in Nat : k = AudioFrom(s) - 1
    BY <1>2, <1>3
<1>5. run.item \in Ready(s, k) /\ k < synthesis[s].chunks
    <2>1. run.item \notin {y \in Signals : y.kind = "finished" => synthesis[s].final}
        BY <1>1 DEF Signals, SignalKinds, Errors
    <2>. QED
        BY <1>3, <1>4, <2>1 DEF AudioNumbers
<1>6. run.item.chunk = k /\ (run.item.final <=> Complete(s, k + 1)) /\ run.item.final \in Flags
    <2>1. synthesis[s].chunks \in Nat
        BY <1>1, AudioPositions
    <2>. QED
        BY <1>5, <2>1 DEF Ready, Complete, Item
<1>. DEFINE event == Stream!AudioReady(s, k, run.item.final)
<1>7. CASE EndsWith("cancelled") /\ ~current
    BY <1>1, <1>7, EndPreserves DEF EndsWith, Order, Stream!Next, Stream!End
<1>8. CASE current /\ Yields(event, "audio")
    <2>1. /\ last' = event /\ run' = [run EXCEPT !.pc = "audio"]
          /\ UNCHANGED <<current, outcome, tasks>>
        BY <1>8 DEF Yields
    <2>2. run'.pc = "audio" /\ run'.item = run.item /\ ~Stopping'
        BY <1>1, <2>1 DEF Types, Stopping
    <2>3. Types'
        BY <1>1, <1>2, <1>4, <1>6, <2>1 DEF Types, tasks, assemblerVars, RunPcs, Waiting, Stream!AudioReady
    <2>4. /\ OutputFrom' = OutputFrom /\ Len(made') = Len(made) /\ AudioFrom(s)' = k + 1
          /\ Complete(s, k + 1)' <=> Complete(s, k + 1)
        <3>1. /\ OutputFrom' = OutputFrom /\ Len(made') = Len(made) /\ AudioFrom(s)' = AudioFrom(s)
              /\ Complete(s, k + 1)' <=> Complete(s, k + 1)
            BY <2>1 DEF tasks, assemblerVars, Held, Ended, TodoFrom, SegmentsFrom, HeldFrom,
               OutputFrom, AudioFrom, AudioEnd, Signalled, Putting, Complete
        <3>. QED
            BY <1>2, <1>4, <3>1
    <2>5. RunInOrder'
        <3>1. InSegment'
            BY <1>3, <2>2, <2>4 DEF InSegment
        <3>2. Heard(s, AudioFrom(s))'
            BY <1>4, <1>6, <2>1, <2>4 DEF Heard, Stream!AudioReady
        <3>3. run'.item.segment = s
            BY <1>2, <2>2
        <3>. QED
            BY <2>2, <3>1, <3>2, <3>3 DEF RunInOrder
    <2>6. Stream!Yield
        <3>1. Heard(s, k)
            BY <1>3, <1>4
        <3>2. ~Complete(s, k)
            BY <1>5, <1>1, AudioPositions DEF Complete
        <3>3. last.kind \in {"segment", "audio"} /\ ~last.final /\ last.segment = s /\ k = Stream!NextChunk
            BY <1>4, <3>1, <3>2 DEF Heard, Stream!SegmentReady, Stream!NextChunk
        <3>4. run.item.final \in BOOLEAN
            BY <1>6 DEF Flags
        <3>. QED
            BY <1>1, <1>8, <2>1, <3>3, <3>4 DEF Stream!Yield, Order
    <2>. QED
        BY <1>1, <2>1, <2>2, <2>3, <2>5, <2>6, RunStep DEF Stream!Next
<1>. QED
    BY <1>2, <1>6, <1>7, <1>8 DEF RunYieldsAudio, CheckActive

LEMMA RunNextSegmentPreserves ==
    ASSUME IInv, RunNextSegment
    PROVE  IInv'
<1>1. /\ Order /\ Types /\ ~Stopping /\ run.pc = "got_audio" /\ run.item.kind = "finished"
      /\ run' = [pc |-> "output", item |-> NoItem] /\ UNCHANGED <<current, last, outcome, tasks>>
      /\ ~Stopping'
    BY DEF RunNextSegment, TakesNothing, publicVars, IInv, Stopping
<1>2. PICK s \in SegmentIds : s = run.item.segment /\ s \in Nat /\ AudioFrom(s) \in Nat
    BY <1>1, SpokenSegment
<1>3. /\ InSegment /\ AudioFrom(s) > 0 /\ run.item \in AudioNumbers(s)[AudioFrom(s) - 1]
      /\ Heard(s, AudioFrom(s) - 1)
    BY <1>1, <1>2 DEF Order, RunInOrder
<1>4. PICK k \in Nat : k = AudioFrom(s) - 1
    BY <1>2, <1>3
<1>5. k = synthesis[s].chunks /\ synthesis[s].final
    BY <1>1, <1>3, <1>4 DEF AudioNumbers, Ready
<1>6. k > 0 /\ Complete(s, k) /\ Heard(s, k)
    BY <1>1, <1>3, <1>4, <1>5 DEF Order, AudioInOrder, Complete
<1>7. Yielded(OutputFrom)
    <2>1. last.kind = "audio" /\ last.segment = s /\ last.final
        BY <1>6 DEF Heard
    <2>2. OutputFrom = s + 1
        BY <1>1, <1>2, <1>3, QueuePositions DEF InSegment, Order
    <2>. QED
        BY <2>1, <2>2 DEF Yielded
<1>8. OutputFrom' = OutputFrom
    BY <1>1 DEF tasks, assemblerVars, Held, Ended, TodoFrom, SegmentsFrom, HeldFrom, OutputFrom
<1>9. RunInOrder'
    BY <1>1, <1>7, <1>8 DEF RunInOrder, Yielded
<1>10. Types'
    BY <1>1, ItemsTyped DEF Types, tasks, assemblerVars, RunPcs, Waiting
<1>. QED
    BY <1>1, <1>9, <1>10, RunStep

LEMMA RunJoinsPreserves ==
    ASSUME IInv, RunJoins
    PROVE  IInv'
<1>1. /\ Order /\ Types /\ ~Stopping /\ run.pc = "got_output" /\ run.item.kind = "finished"
      /\ run' = [run EXCEPT !.pc = "joining"] /\ UNCHANGED <<current, last, outcome, tasks>>
    BY DEF RunJoins, TakesNothing, publicVars, IInv, Stopping
<1>2. /\ OutputFrom \in Nat /\ OutputFrom > 0 /\ run.item \in Numbers[OutputFrom - 1]
      /\ Yielded(OutputFrom - 1)
    BY <1>1, QueuePositions DEF Order, RunInOrder
<1>3. OutputFrom - 1 = Len(made)
    BY <1>1, <1>2, NumberedItem DEF IsSegment
<1>4. OutputFrom' = OutputFrom /\ Len(made') = Len(made)
    BY <1>1 DEF tasks, assemblerVars, Held, Ended, TodoFrom, SegmentsFrom, HeldFrom, OutputFrom
<1>5. run'.pc = "joining" /\ ~Stopping'
    BY <1>1 DEF Types, Stopping
<1>6. RunInOrder'
    <2>1. OutputFrom' > Len(made')
        BY <1>2, <1>3, <1>4
    <2>2. Yielded(Len(made))'
        BY <1>1, <1>2, <1>3, <1>4 DEF Yielded
    <2>. QED
        BY <1>5, <2>1, <2>2 DEF RunInOrder
<1>7. Types'
    BY <1>1 DEF Types, tasks, assemblerVars, RunPcs
<1>. QED
    BY <1>1, <1>5, <1>6, <1>7, RunStep

LEMMA RunYieldsCompletionPreserves ==
    ASSUME IInv, RunYieldsCompletion
    PROVE  IInv' /\ [Stream!Next]_(Stream!streamVars)
<1>1. Order /\ Types /\ ~Stopping /\ run.pc = "joining" /\ Len(made) \in Nat
    BY Positions DEF RunYieldsCompletion, IInv, Stopping
<1>2. Yielded(Len(made))
    BY <1>1 DEF Order, RunInOrder
<1>3. CASE EndsWith("cancelled") /\ ~current
    BY <1>1, <1>3, EndPreserves DEF EndsWith, Order, Stream!Next, Stream!End
<1>4. CASE current /\ Yields(Stream!Completed(Len(made)), "completed")
    <2>1. /\ last' = Stream!Completed(Len(made)) /\ run' = [run EXCEPT !.pc = "completed"]
          /\ UNCHANGED <<current, outcome, tasks>>
        BY <1>4 DEF Yields
    <2>2. run'.pc = "completed" /\ ~Stopping'
        BY <1>1, <2>1 DEF Types, Stopping
    <2>3. Types'
        BY <1>1, <2>1, FlagValues DEF Types, tasks, assemblerVars, RunPcs, Stream!Completed
    <2>4. RunInOrder'
        BY <2>1, <2>2 DEF RunInOrder, Stream!Completed
    <2>5. Stream!Yield
        <3>1. last.final /\ Len(made) = Stream!NextSegment
            BY <1>2 DEF Yielded, Stream!NextSegment
        <3>. QED
            BY <1>1, <1>4, <2>1, <3>1 DEF Stream!Yield, Order
    <2>. QED
        BY <1>1, <2>1, <2>2, <2>3, <2>4, <2>5, RunStep DEF Stream!Next
<1>. QED
    BY <1>3, <1>4 DEF RunYieldsCompletion, CheckActive

\* The iteration ends in one of the ways the stream allows.
LEMMA RunEndsPreserves ==
    ASSUME IInv, RunWaitCancelled \/ RunRaises \/ RunReturns \/ RunClosed
    PROVE  IInv' /\ [Stream!Next]_(Stream!streamVars)
<1>1. Order /\ Types /\ ~Stopping
    BY DEF RunWaitCancelled, RunRaises, RunReturns, RunClosed, Waiting, IInv, Stopping
<1>2. CASE RunWaitCancelled
    BY <1>1, <1>2, EndPreserves DEF RunWaitCancelled, EndsWith, Order, Stream!Next, Stream!End
<1>3. CASE RunRaises
    <2>1. run.item.kind \in {"failed", "cancelled"} /\ EndsWith(run.item.kind)
        BY <1>3 DEF RunRaises, IsFailure, Errors
    <2>2. run.item.kind = "cancelled" => ~current
        <3>1. CASE run.pc = "got_output"
            <4>1. OutputFrom - 1 \in Nat /\ run.item \in Numbers[OutputFrom - 1]
                BY <1>1, <3>1, QueuePositions DEF Order, RunInOrder
            <4>. QED
                BY <1>1, <2>1, <4>1, NumberedItem DEF IsSegment, Signals
        <3>2. CASE run.pc = "got_audio"
            <4>1. PICK s \in SegmentIds : s = run.item.segment /\ s \in Nat /\ AudioFrom(s) \in Nat
                BY <1>1, <3>2, SpokenSegment
            <4>2. AudioFrom(s) - 1 \in Nat /\ run.item \in AudioNumbers(s)[AudioFrom(s) - 1]
                BY <1>1, <3>2, <4>1 DEF Order, RunInOrder
            <4>. QED
                BY <2>1, <4>2 DEF AudioNumbers, Ready, Signals
        <3>. QED
            BY <1>3, <3>1, <3>2 DEF RunRaises
    <2>. QED
        BY <1>1, <2>1, <2>2, EndPreserves DEF EndsWith, Order, Stream!Next, Stream!End
<1>4. CASE RunReturns
    BY <1>1, <1>4, EndPreserves DEF RunReturns, EndsWith, Order, RunInOrder, Stream!Next, Stream!End
<1>5. CASE RunClosed
    BY <1>1, <1>5, EndPreserves DEF RunClosed, EndsWith, Order, Stream!Next, Stream!End
<1>. QED
    BY <1>2, <1>3, <1>4, <1>5

-----------------------------------------------------------------------------
(* Capacities                                                                *)

Outcomes == {"running", "completed", "failed", "cancelled", "closed"}

\* How full the queues and how many the chunks may be. The slots of a run that goes on
\* follow from SlotsAccounted.
Bounds ==
    /\ Len(segments) <= SegmentCapacity /\ Len(output) <= OutputCapacity
    /\ \A s \in SegmentIds : Len(audio[s]) <= AudioCapacity /\ synthesis[s].chunks <= MaxChunks
    /\ Stopping => slots = MaxSynthesis
    /\ outcome \in Outcomes

LEMMA InitBounds == Init => Bounds
BY CapacityAssumption, BoundAssumption
DEF Init, Bounds, OutputCapacity, Idle, Stopping, Stream!Init, Outcomes

\* A queue something was taken from.
LEMMA TakenIsShorter ==
    ASSUME NEW S, NEW q \in Seq(S), q /= <<>>
    PROVE  Len(Tail(q)) <= Len(q)
OBVIOUS

LEMMA EndBounds ==
    ASSUME NEW result \in Outcomes, EndsWith(result)
    PROVE  Bounds'
<1>1. \A s \in SegmentIds : audio'[s] = <<>> /\ synthesis'[s].chunks = 0
    BY DEF EndsWith, CancelTasks, Idle
<1>. QED
    BY <1>1, CapacityAssumption, BoundAssumption DEF EndsWith, CancelTasks, Bounds, OutputCapacity

LEMMA QueueBounds ==
    ASSUME IInv, Bounds, Produce \/ Dispatch \/ \E delta \in Deltas : ModelDelta(delta)
    PROVE  Bounds'
<1>. USE DEF Bounds, Stopping
<1>1. segments \in Seq(Item) /\ output \in Seq(Item) /\ audio \in [SegmentIds -> Seq(Item)]
    BY DEF IInv, Types
<1>2. CASE ModelEnds \/ ModelFails \/ DispatcherAcquires \/ \E delta \in Deltas : ModelDelta(delta)
    BY <1>2 DEF ModelEnds, ModelFails, ModelDelta, DispatcherAcquires, publicVars
<1>3. CASE ProducerPuts
    <2>1. Len(segments') = Len(segments) + 1
        BY <1>1, <1>3 DEF ProducerPuts, Append, Len
    <2>. QED
        BY <1>1, <1>3, <2>1, CapacityAssumption DEF ProducerPuts, publicVars
<1>4. CASE DispatcherGets
    <2>1. Len(segments') <= Len(segments) /\ Len(segments') \in Nat
        BY <1>1, <1>4, TakenIsShorter DEF DispatcherGets
    <2>. QED
        BY <1>1, <1>4, <2>1, CapacityAssumption DEF DispatcherGets, publicVars
<1>5. CASE DispatcherPuts
    <2>1. Len(output') <= OutputCapacity
        BY <1>1, <1>5, CapacityAssumption DEF DispatcherPuts, OutputCapacity
    <2>2. synthesis \in [SegmentIds -> SynthesisState]
        BY DEF IInv, Types
    <2>3. \A s \in SegmentIds : synthesis'[s].chunks = synthesis[s].chunks
        <3>1. CASE IsSegment(dispatcher.item)
            <4>1. synthesis' = [synthesis EXCEPT ![dispatcher.item.segment].pc = "stream"]
                BY <1>5, <3>1 DEF DispatcherPuts
            <4>. QED
                BY <2>2, <4>1 DEF SynthesisState
        <3>2. CASE ~IsSegment(dispatcher.item)
            BY <1>5, <3>2 DEF DispatcherPuts
        <3>. QED
            BY <3>1, <3>2
    <2>. QED
        BY <1>5, <2>1, <2>3 DEF DispatcherPuts, publicVars
<1>. QED
    BY <1>2, <1>3, <1>4, <1>5 DEF Produce, Dispatch

LEMMA SpeechBounds ==
    ASSUME IInv, Bounds, NEW s \in SegmentIds, Synthesize(s)
    PROVE  Bounds'
<1>. USE DEF Bounds, Stopping
<1>1. audio \in [SegmentIds -> Seq(Item)] /\ synthesis \in [SegmentIds -> SynthesisState]
    BY DEF IInv, Types
<1>2. ASSUME NEW c \in Chunks, SpeechChunk(s, c) PROVE Bounds'
    <2>1. c.chunk \in 0..(MaxChunks - 1) /\ c.chunk = synthesis[s].chunks
        BY <1>2 DEF Chunks, Chunk, SpeechChunk, Accepted
    <2>2. synthesis'[s].chunks = synthesis[s].chunks + 1
        BY <1>1, <1>2 DEF SpeechChunk
    <2>3. \A t \in SegmentIds : synthesis'[t].chunks <= MaxChunks
        <3>1. \A t \in SegmentIds \ {s} : synthesis'[t] = synthesis[t]
            BY <1>1, <1>2 DEF SpeechChunk
        <3>. QED
            BY <2>1, <2>2, <3>1, BoundAssumption
    <2>. QED
        BY <1>2, <2>3 DEF SpeechChunk, speechUnchanged, publicVars
<1>3. ASSUME NEW error, SpeechFails(s, error) \/ SpeechEnds(s) PROVE Bounds'
    <2>1. \A t \in SegmentIds : synthesis'[t].chunks = synthesis[t].chunks
        <3>1. PICK x : synthesis' = [synthesis EXCEPT ![s].pc = "put", ![s].item = x]
            BY <1>3 DEF SpeechFails, SpeechEnds
        <3>. QED
            BY <1>1, <3>1 DEF SynthesisState
    <2>. QED
        BY <1>3, <2>1 DEF SpeechFails, SpeechEnds, speechUnchanged, publicVars
<1>4. CASE SpeechPuts(s)
    <2>1. \A t \in SegmentIds : synthesis'[t].chunks = synthesis[t].chunks
        BY <1>1, <1>4 DEF SpeechPuts, SynthesisState
    <2>2. \A t \in SegmentIds : Len(audio'[t]) <= AudioCapacity
        <3>1. Len(audio'[s]) = Len(audio[s]) + 1
            BY <1>1, <1>4 DEF SpeechPuts
        <3>2. \A t \in SegmentIds \ {s} : audio'[t] = audio[t]
            BY <1>1, <1>4 DEF SpeechPuts
        <3>. QED
            BY <1>1, <1>4, <3>1, <3>2, CapacityAssumption DEF SpeechPuts
    <2>. QED
        BY <1>4, <2>1, <2>2 DEF SpeechPuts, publicVars
<1>. QED
    BY <1>2, <1>3, <1>4 DEF Synthesize

LEMMA PublishBounds ==
    ASSUME IInv, Bounds, Publish \/ RunClosed \/ Supersede \/ UNCHANGED vars
    PROVE  Bounds'
<1>. USE DEF Bounds, Stopping
<1>1. /\ output \in Seq(Item) /\ audio \in [SegmentIds -> Seq(Item)]
      /\ run.item.kind \in Errors => run.item.kind \in Outcomes
    BY DEF IInv, Types, Errors, Outcomes
<1>2. CASE Supersede \/ UNCHANGED vars
    BY <1>2 DEF Supersede, Stream!Supersede, vars, publicVars
<1>3. CASE RunTakesOutput
    <2>1. Len(output') <= Len(output) /\ Len(output') \in Nat
        BY <1>1, <1>3, TakenIsShorter DEF RunTakesOutput
    <2>. QED
        BY <1>1, <1>3, <2>1, CapacityAssumption DEF RunTakesOutput, publicVars, OutputCapacity
<1>4. CASE RunTakesAudio
    <2>1. \A t \in SegmentIds : Len(audio'[t]) <= Len(audio[t]) /\ Len(audio'[t]) \in Nat
        BY <1>1, <1>4, TakenIsShorter DEF RunTakesAudio
    <2>2. \A t \in SegmentIds : Len(audio'[t]) <= AudioCapacity
        BY <1>1, <2>1, CapacityAssumption
    <2>. QED
        BY <1>4, <2>2 DEF RunTakesAudio, publicVars
<1>5. CASE RunNextSegment \/ RunJoins
    <2>1. run'.pc /= "ended"
        BY <1>5 DEF RunNextSegment, RunJoins, IInv, Types
    <2>. QED
        BY <1>5, <2>1 DEF RunNextSegment, RunJoins, TakesNothing, tasks, publicVars
<1>6. ASSUME NEW event, NEW next \in {"audio", "completed"}, Yields(event, next),
             run.pc \in RunPcs \ {"ended"}
      PROVE  Bounds'
    <2>1. run' = [run EXCEPT !.pc = next] /\ run \in [pc : RunPcs, item : Item]
        BY <1>6 DEF Yields, IInv, Types
    <2>2. run'.pc /= "ended"
        BY <1>6, <2>1
    <2>. QED
        BY <1>6, <2>2 DEF Yields, tasks
<1>7. CASE RunYieldsSegment \/ RunYieldsAudio \/ RunYieldsCompletion
    BY <1>6, <1>7, EndBounds DEF RunYieldsSegment, RunYieldsAudio, RunYieldsCompletion, RunPcs, Outcomes
<1>8. CASE RunWaitCancelled \/ RunRaises \/ RunReturns \/ RunClosed
    BY <1>1, <1>8, EndBounds
    DEF RunWaitCancelled, RunRaises, RunReturns, RunClosed, IsFailure, Outcomes
<1>. QED
    BY <1>2, <1>3, <1>4, <1>5, <1>7, <1>8 DEF Publish

-----------------------------------------------------------------------------
(* The theorems                                                              *)

LEMMA InitIInv == Init => IInv
<1>. SUFFICES ASSUME Init PROVE IInv
    OBVIOUS
<1>1. Types
    BY InitTypes
<1>2. /\ Len(made) = 0 /\ Ended = 0 /\ Held = 0 /\ Len(producer.todo) = 0
      /\ Len(segments) = 0 /\ Len(output) = 0
    BY DEF Init, Ended, Held
<1>3. TodoFrom = 0 /\ SegmentsFrom = 0 /\ HeldFrom = 0 /\ OutputFrom = 0
    BY <1>2 DEF TodoFrom, SegmentsFrom, HeldFrom, OutputFrom
<1>4. QueuesInOrder
    BY <1>2, <1>3 DEF QueuesInOrder, InPlace, Init
<1>5. \A s \in SegmentIds : /\ synthesis[s].pc = "none" /\ synthesis[s].chunks = 0
                            /\ ~synthesis[s].final /\ audio[s] = <<>>
    BY DEF Init, Idle
<1>6. \A s \in SegmentIds : AudioFrom(s) = 0
    <2>. SUFFICES ASSUME NEW s \in SegmentIds PROVE AudioFrom(s) = 0
        OBVIOUS
    <2>1. Signalled(s) = 0 /\ Putting(s) = 0 /\ Len(audio[s]) = 0
        BY <1>5 DEF Signalled, Putting
    <2>. QED
        BY <1>5, <2>1 DEF AudioFrom, AudioEnd
<1>7. AudioInOrder /\ SynthesisInOrder
    BY <1>5, <1>6 DEF AudioInOrder, SynthesisInOrder, InPlace
<1>8. RunInOrder /\ outcome = "running"
    BY <1>3 DEF Init, Stream!Init, Stream!Nothing, RunInOrder, Yielded
<1>9. SlotsAccounted
    <2>1. Synthesizing = {} /\ HeldByDispatcher = 0
        BY <1>5 DEF Synthesizing, HeldByDispatcher, Init
    <2>. QED
        BY <2>1, FS_EmptySet, CapacityAssumption DEF SlotsAccounted, Init
<1>. QED
    BY <1>1, <1>4, <1>7, <1>8, <1>9 DEF IInv, Order

\* Every step keeps the invariant and is a step of the stream or leaves it alone.
LEMMA NextPreserves ==
    ASSUME IInv, [Next]_vars
    PROVE  IInv' /\ [Stream!Next]_(Stream!streamVars)
<1>. DEFINE Quiet == UNCHANGED Stream!streamVars
<1>1. ASSUME NEW delta \in Deltas, ModelDelta(delta) PROVE IInv' /\ Quiet
    BY <1>1, ModelDeltaPreserves DEF ModelDelta, publicVars, Stream!streamVars
<1>2. ASSUME Produce PROVE IInv' /\ Quiet
    BY <1>2, ModelEndsPreserves, ModelFailsPreserves, ProducerPutsPreserves
    DEF Produce, ModelEnds, ModelFails, ProducerPuts, publicVars, Stream!streamVars
<1>3. ASSUME Dispatch PROVE IInv' /\ Quiet
    BY <1>3, DispatcherGetsPreserves, DispatcherAcquiresPreserves, DispatcherPutsPreserves
    DEF Dispatch, DispatcherGets, DispatcherAcquires, DispatcherPuts, publicVars, Stream!streamVars
<1>4. ASSUME NEW s \in SegmentIds, Synthesize(s) PROVE IInv' /\ Quiet
    <2>1. IInv'
        BY <1>4, SpeechChunkPreserves, SpeechFailsPreserves, SpeechEndsPreserves,
           SpeechPutsPreserves DEF Synthesize
    <2>2. Quiet
        BY <1>4 DEF Synthesize, SpeechChunk, SpeechFails, SpeechEnds, SpeechPuts, speechUnchanged,
           publicVars, Stream!streamVars
    <2>. QED
        BY <2>1, <2>2
<1>5. ASSUME RunTakesOutput \/ RunTakesAudio \/ RunNextSegment \/ RunJoins PROVE IInv' /\ Quiet
    BY <1>5, RunTakesOutputPreserves, RunTakesAudioPreserves, RunNextSegmentPreserves,
       RunJoinsPreserves
    DEF RunTakesOutput, RunTakesAudio, RunNextSegment, RunJoins, TakesNothing, publicVars,
        Stream!streamVars
<1>6. ASSUME Supersede PROVE IInv' /\ Stream!Next
    BY <1>6, SupersedePreserves DEF Supersede, Stream!Next
<1>7. ASSUME UNCHANGED vars PROVE IInv' /\ Quiet
    BY <1>7, StutterPreserves DEF vars, publicVars, Stream!streamVars
<1>. QED
    BY <1>1, <1>2, <1>3, <1>4, <1>5, <1>6, <1>7, RunYieldsSegmentPreserves,
       RunYieldsAudioPreserves, RunYieldsCompletionPreserves, RunEndsPreserves
    DEF Next, Work, Publish, Finished

LEMMA Invariance == Spec => []IInv
<1>1. IInv /\ [Next]_vars => IInv'
    BY NextPreserves
<1>. QED
    BY <1>1, InitIInv, PTL DEF Spec

\* As long as the run goes on every synthesis slot is free, on its way to a task, or held
\* by one unfinished task, for any capacities: no error path of _synthesize leaks one and
\* none is released twice.
THEOREM NoSlotLeaks == Spec => []SlotsAccounted
<1>1. IInv => SlotsAccounted
    BY DEF IInv, SlotsAccounted
<1>. QED
    BY <1>1, Invariance, PTL

\* The tasks and queues of a run are well typed, for any capacities: no queue of
\* pipeline.py ever holds more than its maxsize, the semaphore never has more free slots
\* than max_concurrent_synthesis, whatever the providers do and wherever the run ends.
THEOREM QueuesWithinCapacity == Spec => []TasksTyped
<1>1. IInv /\ Bounds /\ [Next]_vars => Bounds'
    BY QueueBounds, SpeechBounds, PublishBounds DEF Next, Work, Finished
<1>2. IInv /\ Bounds => TasksTyped
    <2>. SUFFICES ASSUME IInv, Bounds PROVE TasksTyped
        OBVIOUS
    <2>1. Item = ItemType
        BY DEF Item, ItemType, Flags
    <2>2. slots \in 0..MaxSynthesis
        <3>1. HeldByDispatcher \in {0, 1}
            BY DEF HeldByDispatcher
        <3>. QED
            BY <3>1, FiniteSynthesizing, CapacityAssumption DEF IInv, Types, SlotsAccounted, Bounds
    <2>3. synthesis \in [SegmentIds -> [pc : {"none", "stream", "put", "done"}, chunks : 0..MaxChunks,
                                        final : BOOLEAN, item : ItemType]]
        <3>1. synthesis \in [SegmentIds -> SynthesisState]
            BY DEF IInv, Types
        <3>2. SynthesisState = [pc : {"none", "stream", "put", "done"}, chunks : Nat,
                                final : BOOLEAN, item : ItemType]
            BY <2>1 DEF SynthesisState, Flags
        <3>3. \A s \in SegmentIds : synthesis[s].chunks \in 0..MaxChunks
            BY <3>1, BoundAssumption DEF Bounds, SynthesisState
        <3>. QED
            BY <3>1, <3>2, <3>3
    <2>4. current \in BOOLEAN
        BY DEF IInv, Types, Flags
    <2>. QED
        BY <2>1, <2>2, <2>3, <2>4 DEF IInv, Types, Bounds, TasksTyped, RunPcs, Outcomes
<1>. QED
    BY <1>1, <1>2, InitBounds, Invariance, PTL DEF Spec

\* pipeline.py publishes "in strict segment order": whatever the providers stream and
\* however the tasks interleave, the events yielded are those of UtteranceStream, segment
\* by segment and chunk by chunk, none once the generation is superseded, and a completion
\* that counts the segments.
THEOREM PipelineInOrder == Spec => StreamInOrder
<1>1. Init => Stream!Init
    BY DEF Init
<1>2. IInv /\ [Next]_vars => [Stream!Next]_(Stream!streamVars)
    BY NextPreserves
<1>. QED
    BY <1>1, <1>2, Invariance, PTL DEF Spec, StreamInOrder, Stream!Spec

-----------------------------------------------------------------------------
(* Recursion and induction up to a number                                    *)

LEMMA LeastNumber ==
    ASSUME NEW T, T \subseteq Nat, T /= {}
    PROVE  \E x \in T : \A y \in T : x <= y
  <1>1. PICK x \in T : \A y \in T : <<y, x>> \notin OpToRel(<, Nat)
    BY NatLessThanWellFounded, WFMin
  <1>2. \A y \in T : ~(y < x)
    BY <1>1 DEF OpToRel
  <1> QED BY <1>2

LEMMA UpToInduction ==
    ASSUME NEW N \in Nat, NEW G, 0 \in G, \A n \in 1..N : n - 1 \in G => n \in G
    PROVE  \A n \in 0..N : n \in G
  <1> DEFINE T == {n \in 0..N : n \notin G}
  <1>1. T \subseteq Nat
    OBVIOUS
  <1>2. ASSUME T /= {} PROVE FALSE
    <2>1. PICK m \in T : \A k \in T : m <= k
      BY <1>1, <1>2, LeastNumber
    <2>2. m \in 0..N /\ m \notin G
      OBVIOUS
    <2>3. m \in 1..N /\ m - 1 \in 0..N /\ m - 1 \notin T
      <3> HIDE DEF T
      <3> QED BY <1>1, <2>1, <2>2
    <2> QED BY <2>2, <2>3
  <1> QED BY <1>2

NaturalNumbers == Nat
StepFunctions(N, V) == [1..N -> [V -> V]]
Iterations(N, V, v, step) ==
    {f \in [0..N -> V] : f[0] = v /\ \A n \in 1..N : f[n] = step[n][f[n - 1]]}

\* A step function on a set of values has an iteration.
LEMMA Iteration ==
    ASSUME NEW N, N \in NaturalNumbers, NEW V, NEW v \in V, NEW step \in StepFunctions(N, V)
    PROVE  \E f : f \in Iterations(N, V, v, step)
  <1> USE DEF NaturalNumbers, StepFunctions
  <1> DEFINE Iterates(f, k) == f[0] = v /\ \A n \in 1..k : f[n] = step[n][f[n - 1]]
             G == {k \in 0..N : \E f \in [0..N -> V] : Iterates(f, k)}
  <1>1. 0 \in G
    <2> DEFINE f == [n \in 0..N |-> v]
    <2>1. f \in [0..N -> V] /\ Iterates(f, 0)
      OBVIOUS
    <2> HIDE DEF f
    <2>2. \E h \in [0..N -> V] : Iterates(h, 0)
      BY <2>1
    <2>3. 0 \in 0..N
      OBVIOUS
    <2> QED BY <2>2, <2>3, Zenon
  <1>2. ASSUME NEW k \in 1..N, k - 1 \in G PROVE k \in G
    <2>1. PICK f \in [0..N -> V] : Iterates(f, k - 1)
      BY <1>2
    <2>2. f[k - 1] \in V /\ step[k] \in [V -> V]
      OBVIOUS
    <2> DEFINE w == step[k][f[k - 1]]
               g == [f EXCEPT ![k] = w]
    <2>3. w \in V
      BY <2>2
    <2>4. w = step[k][f[k - 1]]
      OBVIOUS
    <2> HIDE DEF w
    <2>5. g \in [0..N -> V] /\ g[k] = w /\ \A n \in 0..k - 1 : g[n] = f[n]
      BY <2>3
    <2> HIDE DEF g
    <2>6. \A n \in 1..k - 1 : n \in 0..k - 1 /\ n - 1 \in 0..k - 1
      OBVIOUS
    <2>7. g[0] = v /\ \A n \in 1..k - 1 : g[n] = step[n][g[n - 1]]
      BY <2>1, <2>5, <2>6
    <2>8. g[k] = step[k][g[k - 1]]
      BY <2>4, <2>5
    <2>9. Iterates(g, k)
      BY <2>7, <2>8
    <2> QED BY <2>5, <2>9
  <1> HIDE DEF G
  <1>3. \A k \in 1..N : k - 1 \in G => k \in G
    BY <1>2
  <1>4. \A k \in 0..N : k \in G
    BY <1>1, <1>3, UpToInduction
  <1>5. N \in G
    BY <1>4
  <1>6. PICK f \in [0..N -> V] : Iterates(f, N)
    BY <1>5 DEF G
  <1>7. f \in Iterations(N, V, v, step)
    BY <1>6 DEF Iterations
  <1> QED BY <1>7

-----------------------------------------------------------------------------
(* Least and greatest numbers                                                *)

LEMMA MinOf ==
    ASSUME NEW T, T \subseteq Nat, T /= {}
    PROVE  Min(T) \in T /\ \A y \in T : Min(T) <= y
  BY LeastNumber DEF Min

LEMMA MaxOf ==
    ASSUME NEW T, NEW N \in Nat, T \subseteq 0..N, T /= {}
    PROVE  Max(T) \in T /\ \A y \in T : Max(T) >= y
  <1> DEFINE U == {n \in 0..N : N - n \in T}
  <1>1. U \subseteq Nat /\ U /= {}
    <2>1. PICK y \in T : TRUE
      OBVIOUS
    <2>2. N - y \in 0..N /\ N - (N - y) = y
      OBVIOUS
    <2>3. N - y \in U
      BY <2>2
    <2>4. U \subseteq Nat
      OBVIOUS
    <2> HIDE DEF U
    <2> QED BY <2>3, <2>4
  <1>2. PICK k \in U : \A n \in U : k <= n
    BY <1>1, LeastNumber
  <1>3. N - k \in T
    OBVIOUS
  <1>4. ASSUME NEW y \in T PROVE N - k >= y
    <2>1. N - y \in 0..N /\ N - (N - y) = y /\ k \in 0..N
      OBVIOUS
    <2>2. N - y \in U
      BY <2>1
    <2> HIDE DEF U
    <2>3. k <= N - y
      BY <1>2, <2>2
    <2> QED BY <2>1, <2>3
  <1>5. \E x \in T : \A y \in T : x >= y
    BY <1>3, <1>4
  <1> QED BY <1>5 DEF Max

-----------------------------------------------------------------------------
(* What a listener can tell apart                                            *)

Texts == Seq(Chars)

\* The visible characters among the first n, for every n.
Seeing(visible, text) ==
    /\ visible \in [0..Len(text) -> Texts]
    /\ Visible(text) = visible[Len(text)] /\ visible[0] = <<>>
    /\ \A n \in 1..Len(text) :
          visible[n] = IF text[n] \in Blank THEN visible[n - 1] ELSE Append(visible[n - 1], text[n])

LEMMA VisibleRecursion ==
    ASSUME NEW text \in Texts
    PROVE  \E visible : Seeing(visible, text)
  <1> DEFINE N == Len(text)
             none == <<>>
             Step(x, n) == IF text[n] \in Blank THEN x ELSE Append(x, text[n])
             Recursive(f) == f = [n \in 0..N |-> IF n = 0 THEN <<>> ELSE Step(f[n - 1], n)]
             visible == CHOOSE f : Recursive(f)
             step == [n \in 1..N |-> [x \in Texts |-> Step(x, n)]]
  <1>1. N \in Nat /\ N \in NaturalNumbers /\ none \in Texts
    BY LenProperties, EmptySeq DEF NaturalNumbers, Texts
  <1>2. Visible(text) = visible[N]
    BY DEF Visible
  <1>3. step \in StepFunctions(N, Texts)
    <2>1. \A n \in 1..N : text[n] \in Chars
      BY DEF Texts
    <2>2. \A n \in 1..N, x \in Texts : Step(x, n) \in Texts
      BY <2>1, AppendProperties DEF Texts
    <2> HIDE DEF Step
    <2> QED BY <2>2 DEF StepFunctions
  <1>4. \A n \in 1..N, x \in Texts : step[n][x] = Step(x, n)
    OBVIOUS
  <1> HIDE DEF Step, step, none, N
  <1>5. PICK f : f \in Iterations(N, Texts, none, step)
    BY <1>1, <1>3, Iteration
  <1>6. Recursive(f)
    <2>1. \A n \in 0..N : f[n] = IF n = 0 THEN <<>> ELSE Step(f[n - 1], n)
      BY <1>1, <1>4, <1>5 DEF none, Iterations
    <2>2. f \in [0..N -> Texts]
      BY <1>5 DEF Iterations
    <2> QED BY <2>1, <2>2
  <1>7. Recursive(visible)
    BY <1>6
  <1> HIDE DEF visible
  <1>8. \A n \in 0..N : visible[n] = IF n = 0 THEN <<>> ELSE Step(visible[n - 1], n)
    BY <1>7, Zenon
  <1>9. visible[0] = <<>> /\ \A n \in 1..N : visible[n] = Step(visible[n - 1], n)
    BY <1>1, <1>8
  <1>10. visible \in [0..N -> Texts]
    <2> DEFINE G == {n \in 0..N : visible[n] \in Texts}
    <2>1. 0 \in G
      BY <1>1, <1>9 DEF none
    <2>2. \A n \in 1..N : n - 1 \in G => n \in G
      BY <1>1, <1>3, <1>4, <1>9 DEF StepFunctions
    <2> HIDE DEF G
    <2>3. \A n \in 0..N : n \in G
      BY <1>1, <2>1, <2>2, UpToInduction
    <2>4. \A n \in 0..N : visible[n] \in Texts
      BY <2>3 DEF G
    <2>5. visible = [n \in 0..N |-> visible[n]]
      BY <1>7
    <2> QED BY <2>4, <2>5
  <1>11. Seeing(visible, text)
    BY <1>2, <1>9, <1>10 DEF Step, N, Seeing
  <1> QED BY <1>11

LEMMA VisibleIsText ==
    ASSUME NEW text \in Texts
    PROVE  Visible(text) \in Texts
  <1>1. Len(text) \in 0..Len(text)
    BY LenProperties DEF Texts
  <1>2. PICK visible : Seeing(visible, text)
    BY VisibleRecursion
  <1> QED BY <1>1, <1>2 DEF Seeing

\* A blank text shows nothing.
LEMMA VisibleBlank ==
    ASSUME NEW text \in Texts, \A i \in 1..Len(text) : text[i] \in Blank
    PROVE  Visible(text) = <<>>
  <1> DEFINE N == Len(text)
             none == <<>>
  <1>1. N \in Nat
    BY LenProperties DEF Texts
  <1>2. PICK visible : Seeing(visible, text)
    BY VisibleRecursion
  <1>3. /\ Visible(text) = visible[N] /\ visible[0] = none
        /\ \A n \in 1..N : visible[n] = visible[n - 1]
    BY <1>2 DEF Seeing
  <1> DEFINE G == {n \in 0..N : visible[n] = none}
  <1> HIDE DEF N, none
  <1>4. 0 \in G
    BY <1>1, <1>3
  <1>5. \A n \in 1..N : n - 1 \in G => n \in G
    BY <1>1, <1>3
  <1> HIDE DEF G
  <1>6. \A n \in 0..N : n \in G
    BY <1>1, <1>4, <1>5, UpToInduction
  <1>7. visible[N] = none
    BY <1>1, <1>6 DEF G
  <1> QED BY <1>3, <1>7 DEF none

LEMMA AppendToConcat ==
    ASSUME NEW a \in Texts, NEW b \in Texts, NEW c \in Chars
    PROVE  Append(a \o b, c) = a \o Append(b, c)
  BY DEF Texts

\* The visible characters of two texts are those of the first and those of the second.
LEMMA VisibleConcat ==
    ASSUME NEW a \in Texts, NEW b \in Texts
    PROVE  Visible(a \o b) = Visible(a) \o Visible(b)
  <1> DEFINE c == a \o b
             N == Len(a)
             M == Len(b)
             none == <<>>
  <1>1. /\ c \in Texts /\ Len(c) = N + M /\ N \in Nat /\ M \in Nat
        /\ \A i \in 1..N : c[i] = a[i]
        /\ \A i \in 1..M : c[N + i] = b[i] /\ b[i] \in Chars
    BY DEF Texts
  <1>2. c \in Texts
    BY <1>1
  <1> HIDE DEF c, N, M
  <1>3. PICK f : Seeing(f, a)
    BY VisibleRecursion
  <1>4. PICK g : Seeing(g, b)
    BY VisibleRecursion
  <1>5. PICK h : Seeing(h, c)
    BY <1>2, VisibleRecursion
  <1>6. /\ Visible(a) = f[N] /\ f[0] = none /\ f[N] \in Texts
        /\ \A n \in 1..N : f[n] = IF a[n] \in Blank THEN f[n - 1] ELSE Append(f[n - 1], a[n])
    BY <1>1, <1>3 DEF Seeing, N
  <1>7. /\ Visible(b) = g[M] /\ g[0] = none /\ g \in [0..M -> Texts]
        /\ \A n \in 1..M : g[n] = IF b[n] \in Blank THEN g[n - 1] ELSE Append(g[n - 1], b[n])
    BY <1>4 DEF Seeing, M
  <1>8. /\ Visible(c) = h[N + M] /\ h[0] = none
        /\ \A n \in 1..N + M : h[n] = IF c[n] \in Blank THEN h[n - 1] ELSE Append(h[n - 1], c[n])
    BY <1>1, <1>5 DEF Seeing
  <1> HIDE DEF none
  <1>9. \A n \in 0..N : h[n] = f[n]
    <2> DEFINE G == {n \in 0..N : h[n] = f[n]}
    <2>1. 0 \in G
      BY <1>1, <1>6, <1>8
    <2>2. ASSUME NEW n \in 1..N, n - 1 \in G PROVE n \in G
      <3>1. n \in 1..N + M /\ n \in 0..N /\ h[n - 1] = f[n - 1] /\ c[n] = a[n]
        BY <1>1, <2>2
      <3> QED BY <1>6, <1>8, <3>1
    <2> HIDE DEF G
    <2>3. \A n \in 0..N : n \in G
      BY <1>1, <2>1, <2>2, UpToInduction
    <2> QED BY <2>3 DEF G
  <1>10. \A n \in 0..M : h[N + n] = f[N] \o g[n]
    <2> DEFINE G == {n \in 0..M : h[N + n] = f[N] \o g[n]}
    <2>1. 0 \in G
      <3>1. f[N] \o g[0] = f[N]
        BY <1>6, <1>7, ConcatEmptySeq DEF none, Texts
      <3>2. h[N + 0] = f[N] /\ 0 \in 0..M
        BY <1>1, <1>9
      <3> QED BY <3>1, <3>2
    <2>2. ASSUME NEW n \in 1..M, n - 1 \in G PROVE n \in G
      <3>1. N + n \in 1..N + M /\ n \in 0..M /\ n - 1 \in 0..M /\ N + (n - 1) = (N + n) - 1
        BY <1>1
      <3>2. h[(N + n) - 1] = f[N] \o g[n - 1] /\ c[N + n] = b[n] /\ g[n - 1] \in Texts
        BY <1>1, <1>7, <2>2, <3>1
      <3>3. CASE b[n] \in Blank
        BY <1>7, <1>8, <3>1, <3>2, <3>3
      <3>4. CASE b[n] \notin Blank
        <4>1. h[N + n] = Append(f[N] \o g[n - 1], b[n]) /\ g[n] = Append(g[n - 1], b[n])
          BY <1>7, <1>8, <3>1, <3>2, <3>4
        <4>2. Append(f[N] \o g[n - 1], b[n]) = f[N] \o Append(g[n - 1], b[n])
          BY <1>1, <1>6, <3>2, AppendToConcat
        <4> QED BY <3>1, <4>1, <4>2
      <3> QED BY <3>3, <3>4
    <2> HIDE DEF G
    <2>3. \A n \in 0..M : n \in G
      BY <1>1, <2>1, <2>2, UpToInduction
    <2> QED BY <2>3 DEF G
  <1>11. h[N + M] = f[N] \o g[M]
    <2>1. M \in 0..M
      BY <1>1
    <2> QED BY <1>10, <2>1
  <1> QED BY <1>6, <1>7, <1>8, <1>11 DEF c

\* The code's slices t[:k] and t[k:].
Taken(t, k) == SubSeq(t, 1, k)
Rest(t, k) == SubSeq(t, k + 1, Len(t))

LEMMA TakenFacts ==
    ASSUME NEW t \in Texts, NEW k \in 0..Len(t)
    PROVE  Taken(t, k) \in Texts /\ Len(Taken(t, k)) = k /\ \A n \in 1..k : Taken(t, k)[n] = t[n]
  <1>1. Len(t) \in Nat /\ k \in Nat /\ \A n \in 1..k : t[n] \in Chars
    BY DEF Texts
  <1>2. /\ SubSeq(t, 1, k) \in Seq(Chars)
        /\ Len(SubSeq(t, 1, k)) = IF 1 <= k THEN k - 1 + 1 ELSE 0
        /\ \A n \in 1..k - 1 + 1 : SubSeq(t, 1, k)[n] = t[1 + n - 1]
    BY <1>1, SubSeqProperties
  <1> QED BY <1>1, <1>2 DEF Texts, Taken

LEMMA RestFacts ==
    ASSUME NEW t \in Texts, NEW k \in 0..Len(t)
    PROVE  /\ Rest(t, k) \in Texts /\ Len(Rest(t, k)) = Len(t) - k
           /\ \A n \in 1..Len(t) - k : Rest(t, k)[n] = t[k + n]
  <1> DEFINE N == Len(t)
             s == SubSeq(t, k + 1, N)
  <1>1. N \in Nat /\ k \in Nat /\ k + 1 \in Nat /\ k <= N /\ \A n \in k + 1..N : t[n] \in Chars
    BY DEF Texts
  <1> HIDE DEF N
  <1>2. /\ s \in Seq(Chars)
        /\ Len(s) = IF k + 1 <= N THEN N - (k + 1) + 1 ELSE 0
        /\ \A n \in 1..N - (k + 1) + 1 : s[n] = t[(k + 1) + n - 1]
    BY <1>1, SubSeqProperties
  <1> HIDE DEF s
  <1>3. N - (k + 1) + 1 = N - k /\ \A n \in 1..N - k : (k + 1) + n - 1 = k + n
    BY <1>1
  <1>4. s \in Texts /\ Len(s) = N - k
    BY <1>1, <1>2 DEF Texts
  <1>5. \A n \in 1..N - k : s[n] = t[k + n]
    BY <1>2, <1>3
  <1> QED BY <1>4, <1>5 DEF N, s, Rest

LEMMA Joined ==
    ASSUME NEW t \in Texts, NEW a \in Texts, NEW b \in Texts, NEW k \in 0..Len(t),
           Len(a) = k, Len(b) = Len(t) - k,
           \A n \in 1..k : a[n] = t[n], \A n \in 1..Len(t) - k : b[n] = t[k + n]
    PROVE  t = a \o b
  <1> DEFINE N == Len(t)
             c == a \o b
  <1>1. N \in Nat /\ k \in Nat /\ k <= N
    BY DEF Texts
  <1>2. /\ c \in Seq(Chars) /\ Len(c) = Len(a) + Len(b)
        /\ \A n \in 1..Len(a) + Len(b) : c[n] = IF n <= Len(a) THEN a[n] ELSE b[n - Len(a)]
    BY ConcatProperties DEF Texts
  <1>3. Len(a) + Len(b) = N /\ Len(a) = k
    BY <1>1
  <1> HIDE DEF c
  <1>4. c \in Seq(Chars) /\ Len(c) = N /\ \A n \in 1..N : c[n] = IF n <= k THEN a[n] ELSE b[n - k]
    BY <1>2, <1>3
  <1>5. ASSUME NEW n \in 1..N PROVE t[n] = c[n]
    <2>1. CASE n <= k
      <3>1. n \in 1..k
        BY <1>1, <2>1
      <3> QED BY <1>4, <2>1, <3>1
    <2>2. CASE ~(n <= k)
      <3>1. n - k \in 1..N - k /\ k + (n - k) = n
        BY <1>1, <2>2
      <3> QED BY <1>4, <2>2, <3>1
    <2> QED BY <2>1, <2>2
  <1>6. t = c
    BY <1>4, <1>5, SeqEqual DEF Texts
  <1> QED BY <1>6 DEF c

\* A text is its first k characters and the rest.
LEMMA Split ==
    ASSUME NEW t \in Texts, NEW k \in 0..Len(t)
    PROVE  t = Taken(t, k) \o Rest(t, k)
  BY TakenFacts, RestFacts, Joined

LEMMA VisibleSplit ==
    ASSUME NEW t \in Texts, NEW k \in 0..Len(t)
    PROVE  Visible(t) = Visible(Taken(t, k)) \o Visible(Rest(t, k))
  <1>1. Taken(t, k) \in Texts /\ Rest(t, k) \in Texts
    BY TakenFacts, RestFacts
  <1>2. Visible(Taken(t, k) \o Rest(t, k)) = Visible(Taken(t, k)) \o Visible(Rest(t, k))
    BY <1>1, VisibleConcat
  <1> QED BY <1>2, Split

\* Blanks at the beginning or at the end of a text are not seen.
LEMMA VisibleSkip ==
    ASSUME NEW t \in Texts, NEW k \in 0..Len(t), \A i \in 1..k : t[i] \in Blank
    PROVE  Visible(t) = Visible(Rest(t, k))
  <1>1. Taken(t, k) \in Texts /\ Rest(t, k) \in Texts
    BY TakenFacts, RestFacts
  <1>2. \A n \in 1..Len(Taken(t, k)) : Taken(t, k)[n] \in Blank
    BY TakenFacts
  <1>3. Visible(Taken(t, k)) = <<>>
    BY <1>1, <1>2, VisibleBlank
  <1>4. Visible(Rest(t, k)) \in Texts
    BY <1>1, VisibleIsText
  <1> QED BY <1>3, <1>4, VisibleSplit, ConcatEmptySeq DEF Texts

LEMMA VisibleDrop ==
    ASSUME NEW t \in Texts, NEW k \in 0..Len(t), \A i \in k + 1..Len(t) : t[i] \in Blank
    PROVE  Visible(t) = Visible(Taken(t, k))
  <1>1. Taken(t, k) \in Texts /\ Rest(t, k) \in Texts
    BY TakenFacts, RestFacts
  <1>2. \A n \in 1..Len(Rest(t, k)) : Rest(t, k)[n] \in Blank
    <2>1. Len(t) \in Nat /\ k \in Nat
      BY DEF Texts
    <2>2. \A n \in 1..Len(t) - k : k + n \in k + 1..Len(t)
      BY <2>1
    <2>3. Len(Rest(t, k)) = Len(t) - k /\ \A n \in 1..Len(t) - k : Rest(t, k)[n] = t[k + n]
      BY RestFacts
    <2>4. ASSUME NEW n \in 1..Len(t) - k PROVE Rest(t, k)[n] \in Blank
      <3>1. Rest(t, k)[n] = t[k + n] /\ k + n \in k + 1..Len(t)
        BY <2>2, <2>3
      <3> QED BY <3>1
    <2> QED BY <2>3, <2>4
  <1>3. Visible(Rest(t, k)) = <<>>
    BY <1>1, <1>2, VisibleBlank
  <1>4. Visible(Taken(t, k)) \in Texts
    BY <1>1, VisibleIsText
  <1> QED BY <1>3, <1>4, VisibleSplit, ConcatEmptySeq DEF Texts

-----------------------------------------------------------------------------
(* strip and lstrip                                                          *)

LEMMA VisibleAtFacts ==
    ASSUME NEW t \in Texts
    PROVE  /\ Len(t) \in Nat
           /\ VisibleAt(t) \subseteq 1..Len(t)
           /\ \A i \in 1..Len(t) : i \notin VisibleAt(t) => t[i] \in Blank
           /\ \A i \in VisibleAt(t) : t[i] \notin Blank
           /\ VisibleAt(t) /= {} => /\ Min(VisibleAt(t)) \in VisibleAt(t)
                                    /\ Max(VisibleAt(t)) \in VisibleAt(t)
                                    /\ \A i \in VisibleAt(t) : Min(VisibleAt(t)) <= i /\ i <= Max(VisibleAt(t))
  <1>1. /\ Len(t) \in Nat /\ DOMAIN t = 1..Len(t)
    BY DEF Texts
  <1>2. /\ VisibleAt(t) \subseteq 1..Len(t)
        /\ \A i \in 1..Len(t) : i \notin VisibleAt(t) => t[i] \in Blank
        /\ \A i \in VisibleAt(t) : t[i] \notin Blank
    BY <1>1 DEF VisibleAt
  <1>3. VisibleAt(t) \subseteq Nat /\ VisibleAt(t) \subseteq 0..Len(t)
    BY <1>1, <1>2
  <1>4. ASSUME VisibleAt(t) /= {}
        PROVE  /\ Min(VisibleAt(t)) \in VisibleAt(t) /\ Max(VisibleAt(t)) \in VisibleAt(t)
               /\ \A i \in VisibleAt(t) : Min(VisibleAt(t)) <= i /\ Max(VisibleAt(t)) >= i
    BY <1>1, <1>3, <1>4, MinOf, MaxOf
  <1>5. \A i \in VisibleAt(t) : Max(VisibleAt(t)) >= i => i <= Max(VisibleAt(t))
    OBVIOUS
  <1> QED BY <1>1, <1>2, <1>4, <1>5

LEMMA StripLeftFacts ==
    ASSUME NEW t \in Texts
    PROVE  /\ StripLeft(t) \in Texts /\ Len(StripLeft(t)) \in Nat /\ Len(StripLeft(t)) <= Len(t)
           /\ Visible(StripLeft(t)) = Visible(t)
  <1>1. CASE VisibleAt(t) = {}
    <2> DEFINE none == <<>>
    <2>1. StripLeft(t) = none /\ none \in Texts /\ Len(none) = 0 /\ Len(t) \in Nat
      BY <1>1, EmptySeq DEF StripLeft, Texts
    <2>2. 1..Len(none) = {}
      BY <2>1
    <2>3. \A i \in 1..Len(t) : t[i] \in Blank
      BY <1>1, VisibleAtFacts
    <2> HIDE DEF none
    <2>4. Visible(t) = <<>> /\ Visible(none) = <<>>
      BY <2>1, <2>2, <2>3, VisibleBlank
    <2> QED BY <2>1, <2>4
  <1>2. CASE VisibleAt(t) /= {}
    <2> DEFINE a == Min(VisibleAt(t))
               k == a - 1
    <2>1. Len(t) \in Nat /\ a \in 1..Len(t)
      BY <1>2, VisibleAtFacts
    <2>2. StripLeft(t) = SubSeq(t, a, Len(t))
      BY <1>2 DEF StripLeft
    <2>3. \A i \in 1..Len(t) : i < a => t[i] \in Blank
      <3> TAKE i \in 1..Len(t)
      <3>1. i \in VisibleAt(t) => a <= i
        BY <1>2, VisibleAtFacts
      <3> QED BY <2>1, <3>1, VisibleAtFacts
    <2> HIDE DEF a
    <2>4. k \in 0..Len(t) /\ k + 1 = a /\ \A i \in 1..k : i \in 1..Len(t) /\ i < a
      BY <2>1
    <2>5. StripLeft(t) = Rest(t, k)
      BY <2>2, <2>4 DEF Rest
    <2>6. \A i \in 1..k : t[i] \in Blank
      BY <2>3, <2>4
    <2> HIDE DEF k
    <2>7. Rest(t, k) \in Texts /\ Len(Rest(t, k)) = Len(t) - k
      BY <2>4, RestFacts
    <2>8. Visible(t) = Visible(Rest(t, k))
      BY <2>4, <2>6, VisibleSkip
    <2>9. Len(t) - k \in Nat /\ Len(t) - k <= Len(t)
      BY <2>1, <2>4
    <2> QED BY <2>5, <2>7, <2>8, <2>9
  <1> QED BY <1>1, <1>2

\* w is the part of t from a to b.
IsMiddle(w, t, a, b) ==
    /\ w = Rest(Taken(t, b), a - 1)
    /\ w \in Texts /\ Len(w) = b - a + 1 /\ w[1] = t[a] /\ w[Len(w)] = t[b]

LEMMA Middle ==
    ASSUME NEW t \in Texts, NEW a \in 1..Len(t), NEW b \in 1..Len(t), a <= b, NEW w, w = SubSeq(t, a, b)
    PROVE  IsMiddle(w, t, a, b)
  <1> DEFINE u == Taken(t, b)
             v == Rest(u, a - 1)
  <1>1. Len(t) \in Nat /\ a \in Nat /\ b \in Nat /\ b \in 0..Len(t)
    BY DEF Texts
  <1>2. u \in Texts /\ Len(u) = b /\ \A n \in 1..b : u[n] = t[n]
    BY <1>1, TakenFacts
  <1> HIDE DEF u
  <1>3. a - 1 \in 0..Len(u) /\ b - (a - 1) = b - a + 1
    BY <1>1, <1>2
  <1>4. v \in Texts /\ Len(v) = Len(u) - (a - 1) /\ \A n \in 1..Len(u) - (a - 1) : v[n] = u[(a - 1) + n]
    BY <1>2, <1>3, RestFacts
  <1> HIDE DEF v
  <1>5. v \in Texts /\ Len(v) = b - a + 1 /\ \A n \in 1..b - a + 1 : v[n] = t[a + n - 1]
    <2>1. \A n \in 1..b - a + 1 : (a - 1) + n \in 1..b /\ (a - 1) + n = a + n - 1
      BY <1>1
    <2>2. Len(u) - (a - 1) = b - a + 1
      BY <1>2, <1>3
    <2>3. ASSUME NEW n \in 1..b - a + 1 PROVE v[n] = t[a + n - 1]
      BY <1>2, <1>4, <2>1, <2>2
    <2> QED BY <1>4, <2>2, <2>3
  <1>6. \A n \in a..b : t[n] \in Chars
    BY <1>1 DEF Texts
  <1>7. /\ w \in Seq(Chars) /\ Len(w) = IF a <= b THEN b - a + 1 ELSE 0
        /\ \A n \in 1..b - a + 1 : w[n] = t[a + n - 1]
    BY <1>1, <1>6, SubSeqProperties
  <1>8. Len(w) = b - a + 1
    BY <1>7
  <1>9. \A n \in 1..Len(w) : w[n] = v[n]
    BY <1>5, <1>7, <1>8
  <1>10. w = v
    BY <1>5, <1>7, <1>8, <1>9, SeqEqual DEF Texts
  <1>11. /\ 1 \in 1..b - a + 1 /\ b - a + 1 \in 1..b - a + 1
         /\ a + 1 - 1 = a /\ a + (b - a + 1) - 1 = b
    BY <1>1
  <1>12. w[1] = t[a] /\ w[b - a + 1] = t[b]
    BY <1>7, <1>11
  <1> QED BY <1>5, <1>8, <1>10, <1>12 DEF u, v, IsMiddle

\* A text with nothing to strip stays as it is.
LEMMA NothingToStrip ==
    ASSUME NEW t \in Texts, Len(t) >= 1, t[1] \notin Blank, t[Len(t)] \notin Blank
    PROVE  Strip(t) = t
  <1> DEFINE a == Min(VisibleAt(t))
             b == Max(VisibleAt(t))
  <1>1. Len(t) \in Nat /\ 1 \in 1..Len(t) /\ Len(t) \in 1..Len(t)
    BY DEF Texts
  <1>2. 1 \in VisibleAt(t) /\ Len(t) \in VisibleAt(t)
    BY <1>1, VisibleAtFacts
  <1>3. a \in 1..Len(t) /\ b \in 1..Len(t) /\ a <= 1 /\ Len(t) <= b
    BY <1>2, VisibleAtFacts
  <1>4. Strip(t) = SubSeq(t, a, b)
    BY <1>2 DEF Strip
  <1> HIDE DEF a, b
  <1>5. a = 1 /\ b = Len(t)
    BY <1>1, <1>3
  <1> QED BY <1>4, <1>5, SubSeqFull DEF Texts

\* strip keeps what is visible, and once is enough.
LEMMA StripFacts ==
    ASSUME NEW t \in Texts
    PROVE  /\ Strip(t) \in Texts /\ Visible(Strip(t)) = Visible(t)
           /\ Strip(t) = <<>> \/ Strip(Strip(t)) = Strip(t)
           /\ Strip(t) = <<>> => Visible(t) = <<>>
  <1>1. CASE VisibleAt(t) = {}
    <2> DEFINE none == <<>>
    <2>1. Strip(t) = none /\ none \in Texts /\ Len(none) = 0 /\ Len(t) \in Nat
      BY <1>1, EmptySeq DEF Strip, Texts
    <2>2. 1..Len(none) = {}
      BY <2>1
    <2>3. \A i \in 1..Len(t) : t[i] \in Blank
      BY <1>1, VisibleAtFacts
    <2> HIDE DEF none
    <2>4. Visible(t) = <<>> /\ Visible(none) = <<>>
      BY <2>1, <2>2, <2>3, VisibleBlank
    <2> QED BY <2>1, <2>4 DEF none
  <1>2. CASE VisibleAt(t) /= {}
    <2> DEFINE a == Min(VisibleAt(t))
               b == Max(VisibleAt(t))
               u == Taken(t, b)
               w == Strip(t)
    <2>1. Len(t) \in Nat /\ a \in 1..Len(t) /\ b \in 1..Len(t) /\ a <= b
      BY <1>2, VisibleAtFacts
    <2>2. w = SubSeq(t, a, b)
      BY <1>2 DEF Strip
    <2>3. t[a] \notin Blank /\ t[b] \notin Blank
      BY <1>2, VisibleAtFacts
    <2>4. \A i \in 1..Len(t) : i < a \/ i > b => t[i] \in Blank
      <3> TAKE i \in 1..Len(t)
      <3>1. i \in VisibleAt(t) => a <= i /\ i <= b
        BY <1>2, VisibleAtFacts
      <3> QED BY <2>1, <3>1, VisibleAtFacts
    <2> HIDE DEF a, b, w
    <2>5. /\ w = Rest(u, a - 1)
          /\ w \in Texts /\ Len(w) = b - a + 1 /\ w[1] = t[a] /\ w[Len(w)] = t[b]
      <3>1. IsMiddle(w, t, a, b)
        BY <2>1, <2>2, Middle
      <3> QED BY <3>1 DEF IsMiddle
    <2>6. b \in 0..Len(t) /\ Len(w) >= 1 /\ \A i \in b + 1..Len(t) : i \in 1..Len(t) /\ i > b
      BY <2>1, <2>5
    <2>7. u \in Texts /\ Len(u) = b /\ \A n \in 1..b : u[n] = t[n]
      BY <2>6, TakenFacts
    <2>8. Visible(t) = Visible(u)
      BY <2>4, <2>6, VisibleDrop
    <2> HIDE DEF u
    <2>9. a - 1 \in 0..Len(u) /\ \A i \in 1..a - 1 : i \in 1..b /\ i \in 1..Len(t) /\ i < a
      BY <2>1, <2>7
    <2>10. \A i \in 1..a - 1 : u[i] \in Blank
      BY <2>4, <2>7, <2>9
    <2>11. Visible(u) = Visible(w)
      BY <2>5, <2>7, <2>9, <2>10, VisibleSkip
    <2>12. Strip(w) = w
      BY <2>3, <2>5, <2>6, NothingToStrip
    <2>13. w /= <<>>
      BY <2>6
    <2> QED BY <2>5, <2>8, <2>11, <2>12, <2>13 DEF w
  <1> QED BY <1>1, <1>2

-----------------------------------------------------------------------------
(* What the segments say                                                     *)

TextLists == Seq(Texts)

Saying(spoken, list) ==
    /\ spoken \in [0..Len(list) -> Texts]
    /\ Spoken(list) = spoken[Len(list)] /\ spoken[0] = <<>>
    /\ \A n \in 1..Len(list) : spoken[n] = spoken[n - 1] \o Visible(list[n])

LEMMA SpokenRecursion ==
    ASSUME NEW list \in TextLists
    PROVE  \E spoken : Saying(spoken, list)
  <1> DEFINE N == Len(list)
             none == <<>>
             Step(x, n) == x \o Visible(list[n])
             Recursive(f) == f = [n \in 0..N |-> IF n = 0 THEN <<>> ELSE Step(f[n - 1], n)]
             spoken == CHOOSE f : Recursive(f)
             step == [n \in 1..N |-> [x \in Texts |-> Step(x, n)]]
  <1>1. N \in Nat /\ N \in NaturalNumbers /\ none \in Texts
    BY LenProperties, EmptySeq DEF NaturalNumbers, Texts, TextLists
  <1>2. Spoken(list) = spoken[N]
    BY DEF Spoken
  <1>3. step \in StepFunctions(N, Texts)
    <2>1. \A n \in 1..N : list[n] \in Texts
      BY DEF TextLists
    <2>2. \A n \in 1..N : Visible(list[n]) \in Texts
      BY <2>1, VisibleIsText
    <2>3. \A x, y \in Texts : x \o y \in Texts
      BY DEF Texts
    <2>4. \A n \in 1..N, x \in Texts : Step(x, n) \in Texts
      BY <2>2, <2>3
    <2> HIDE DEF Step
    <2> QED BY <2>4 DEF StepFunctions
  <1>4. \A n \in 1..N, x \in Texts : step[n][x] = Step(x, n)
    OBVIOUS
  <1> HIDE DEF Step, step, none, N
  <1>5. PICK f : f \in Iterations(N, Texts, none, step)
    BY <1>1, <1>3, Iteration
  <1>6. Recursive(f)
    <2>1. \A n \in 0..N : f[n] = IF n = 0 THEN <<>> ELSE Step(f[n - 1], n)
      BY <1>1, <1>4, <1>5 DEF none, Iterations
    <2>2. f \in [0..N -> Texts]
      BY <1>5 DEF Iterations
    <2> QED BY <2>1, <2>2
  <1>7. Recursive(spoken)
    BY <1>6
  <1> HIDE DEF spoken
  <1>8. \A n \in 0..N : spoken[n] = IF n = 0 THEN <<>> ELSE Step(spoken[n - 1], n)
    BY <1>7, Zenon
  <1>9. spoken[0] = <<>> /\ \A n \in 1..N : spoken[n] = Step(spoken[n - 1], n)
    BY <1>1, <1>8
  <1>10. spoken \in [0..N -> Texts]
    <2> DEFINE G == {n \in 0..N : spoken[n] \in Texts}
    <2>1. 0 \in G
      BY <1>1, <1>9 DEF none
    <2>2. \A n \in 1..N : n - 1 \in G => n \in G
      BY <1>1, <1>3, <1>4, <1>9 DEF StepFunctions
    <2> HIDE DEF G
    <2>3. \A n \in 0..N : n \in G
      BY <1>1, <2>1, <2>2, UpToInduction
    <2>4. \A n \in 0..N : spoken[n] \in Texts
      BY <2>3 DEF G
    <2>5. spoken = [n \in 0..N |-> spoken[n]]
      BY <1>7
    <2> QED BY <2>4, <2>5
  <1>11. Saying(spoken, list)
    BY <1>2, <1>9, <1>10 DEF Step, N, Saying
  <1> QED BY <1>11

LEMMA SpokenIsText ==
    ASSUME NEW list \in TextLists
    PROVE  Spoken(list) \in Texts
  <1>1. Len(list) \in 0..Len(list)
    BY LenProperties DEF TextLists
  <1>2. PICK spoken : Saying(spoken, list)
    BY SpokenRecursion
  <1> QED BY <1>1, <1>2 DEF Saying

LEMMA TextConcat ==
    /\ \A x, y \in Texts : x \o y \in Texts
    /\ \A x, y, z \in Texts : (x \o y) \o z = x \o (y \o z)
    /\ \A x \in Texts : x \o <<>> = x /\ <<>> \o x = x
  BY ConcatAssociative, ConcatEmptySeq, ConcatProperties DEF Texts

\* Segments made later are said after the ones before.
LEMMA SpokenConcat ==
    ASSUME NEW a \in TextLists, NEW b \in TextLists
    PROVE  Spoken(a \o b) = Spoken(a) \o Spoken(b)
  <1> DEFINE c == a \o b
             N == Len(a)
             M == Len(b)
             none == <<>>
  <1>1. /\ c \in TextLists /\ Len(c) = N + M /\ N \in Nat /\ M \in Nat
        /\ \A i \in 1..N : c[i] = a[i]
        /\ \A i \in 1..M : c[N + i] = b[i] /\ b[i] \in Texts
    BY DEF TextLists
  <1>2. c \in TextLists
    BY <1>1
  <1> HIDE DEF c, N, M
  <1>3. PICK f : Saying(f, a)
    BY SpokenRecursion
  <1>4. PICK g : Saying(g, b)
    BY SpokenRecursion
  <1>5. PICK h : Saying(h, c)
    BY <1>2, SpokenRecursion
  <1>6. /\ Spoken(a) = f[N] /\ f[0] = none /\ f[N] \in Texts
        /\ \A n \in 1..N : f[n] = f[n - 1] \o Visible(a[n])
    <2>1. N \in 0..N
      BY <1>1
    <2> QED BY <1>3, <2>1 DEF Saying, N
  <1>7. /\ Spoken(b) = g[M] /\ g[0] = none /\ g \in [0..M -> Texts]
        /\ \A n \in 1..M : g[n] = g[n - 1] \o Visible(b[n])
    BY <1>4 DEF Saying, M
  <1>8. /\ Spoken(c) = h[N + M] /\ h[0] = none
        /\ \A n \in 1..N + M : h[n] = h[n - 1] \o Visible(c[n])
    BY <1>1, <1>5 DEF Saying
  <1> HIDE DEF none
  <1>9. \A n \in 0..N : h[n] = f[n]
    <2> DEFINE G == {n \in 0..N : h[n] = f[n]}
    <2>1. 0 \in G
      BY <1>1, <1>6, <1>8
    <2>2. ASSUME NEW n \in 1..N, n - 1 \in G PROVE n \in G
      <3>1. n \in 1..N + M /\ n \in 0..N /\ h[n - 1] = f[n - 1] /\ c[n] = a[n]
        BY <1>1, <2>2
      <3> QED BY <1>6, <1>8, <3>1
    <2> HIDE DEF G
    <2>3. \A n \in 0..N : n \in G
      BY <1>1, <2>1, <2>2, UpToInduction
    <2> QED BY <2>3 DEF G
  <1>10. \A n \in 0..M : h[N + n] = f[N] \o g[n]
    <2> DEFINE G == {n \in 0..M : h[N + n] = f[N] \o g[n]}
    <2>1. 0 \in G
      <3>1. f[N] \o g[0] = f[N]
        BY <1>6, <1>7, TextConcat DEF none
      <3>2. h[N + 0] = f[N] /\ 0 \in 0..M
        BY <1>1, <1>9
      <3> QED BY <3>1, <3>2
    <2>2. ASSUME NEW n \in 1..M, n - 1 \in G PROVE n \in G
      <3>1. N + n \in 1..N + M /\ n \in 0..M /\ n - 1 \in 0..M /\ N + (n - 1) = (N + n) - 1
        BY <1>1
      <3>2. /\ h[(N + n) - 1] = f[N] \o g[n - 1] /\ c[N + n] = b[n] /\ g[n - 1] \in Texts
            /\ Visible(b[n]) \in Texts
        BY <1>1, <1>7, <2>2, <3>1, VisibleIsText
      <3>3. h[N + n] = (f[N] \o g[n - 1]) \o Visible(b[n]) /\ g[n] = g[n - 1] \o Visible(b[n])
        BY <1>7, <1>8, <3>1, <3>2
      <3>4. (f[N] \o g[n - 1]) \o Visible(b[n]) = f[N] \o (g[n - 1] \o Visible(b[n]))
        <4>1. \A x, y, z \in Texts : (x \o y) \o z = x \o (y \o z)
          BY TextConcat
        <4> QED BY <1>6, <3>2, <4>1, Zenon
      <3>5. h[N + n] = f[N] \o g[n]
        BY <3>3, <3>4
      <3> QED BY <3>1, <3>5
    <2> HIDE DEF G
    <2>3. \A n \in 0..M : n \in G
      BY <1>1, <2>1, <2>2, UpToInduction
    <2> QED BY <2>3 DEF G
  <1>11. h[N + M] = f[N] \o g[M]
    <2>1. M \in 0..M
      BY <1>1
    <2> QED BY <1>10, <2>1
  <1> QED BY <1>6, <1>7, <1>8, <1>11 DEF c

LEMMA SpokenNone == Spoken(<<>>) = <<>>
  <1> DEFINE none == <<>>
  <1>1. none \in TextLists /\ Len(none) = 0
    BY EmptySeq DEF TextLists
  <1> HIDE DEF none
  <1>2. PICK f : Saying(f, none)
    BY <1>1, SpokenRecursion
  <1>3. Spoken(none) = <<>>
    BY <1>1, <1>2 DEF Saying
  <1> QED BY <1>3 DEF none

LEMMA SpokenOne ==
    ASSUME NEW list \in TextLists, Len(list) = 1
    PROVE  Spoken(list) = Visible(list[1])
  <1>1. PICK f : Saying(f, list)
    BY SpokenRecursion
  <1>2. 1 \in 1..Len(list) /\ list[1] \in Texts
    BY DEF TextLists
  <1>3. Spoken(list) = f[1] /\ f[0] = <<>> /\ f[1] = f[1 - 1] \o Visible(list[1])
    BY <1>1, <1>2 DEF Saying
  <1>4. f[1] = <<>> \o Visible(list[1])
    <2>1. 1 - 1 = 0
      OBVIOUS
    <2> QED BY <1>3, <2>1, Zenon
  <1>5. Visible(list[1]) \in Texts
    BY <1>2, VisibleIsText
  <1> QED BY <1>3, <1>4, <1>5, TextConcat

LEMMA SpokenAppend ==
    ASSUME NEW list \in TextLists, NEW x \in Texts
    PROVE  /\ Append(list, x) \in TextLists
           /\ Spoken(Append(list, x)) = Spoken(list) \o Visible(x)
  <1> DEFINE one == <<x>>
  <1>1. one \in TextLists /\ Len(one) = 1 /\ one[1] = x /\ Append(list, x) \in TextLists
    BY DEF TextLists
  <1>2. Append(list, x) = list \o one
    BY DEF TextLists
  <1> HIDE DEF one
  <1>3. Spoken(one) = Visible(x)
    BY <1>1, SpokenOne
  <1>4. Spoken(list \o one) = Spoken(list) \o Spoken(one)
    BY <1>1, SpokenConcat
  <1> QED BY <1>1, <1>2, <1>3, <1>4

-----------------------------------------------------------------------------
(* One round of push                                                         *)

LEMMA RunEndFacts ==
    ASSUME NEW t \in Texts, NEW i \in 1..Len(t) + 1, NEW S, NEW r, r = RunEnd(t, i, S)
    PROVE  /\ r \in i - 1..Len(t) /\ \A k \in i..r : t[k] \in S
           /\ i <= Len(t) /\ t[i] \in S => i <= r
  <1> DEFINE T == {j \in i - 1..Len(t) : \A k \in i..j : t[k] \in S}
  <1>1. Len(t) \in Nat /\ i \in Nat /\ i - 1 \in Nat
    BY DEF Texts
  <1>2. r = Max(T)
    BY DEF RunEnd
  <1>3. T \subseteq 0..Len(t)
    BY <1>1
  <1>4. i - 1 \in T
    <2>1. i - 1 \in i - 1..Len(t) /\ i..i - 1 = {}
      BY <1>1
    <2> QED BY <2>1
  <1>5. i <= Len(t) /\ t[i] \in S => i \in T
    <2>1. i <= Len(t) => i \in i - 1..Len(t)
      BY <1>1
    <2>2. \A k \in i..i : k = i
      BY <1>1
    <2> QED BY <2>1, <2>2
  <1>6. \A j \in T : j \in i - 1..Len(t) /\ \A k \in i..j : t[k] \in S
    OBVIOUS
  <1> HIDE DEF T
  <1>7. Max(T) \in T /\ \A y \in T : Max(T) >= y
    BY <1>1, <1>3, <1>4, MaxOf
  <1>8. r \in i - 1..Len(t) /\ \A k \in i..r : t[k] \in S
    BY <1>2, <1>6, <1>7
  <1>9. i <= Len(t) /\ t[i] \in S => r >= i
    BY <1>2, <1>5, <1>7
  <1> QED BY <1>1, <1>8, <1>9

\* A sentence ends at e and its match at m; the characters between are blank.
Sentence(t, e, m) ==
    /\ e \in 0..Len(t) /\ m \in 1..Len(t) /\ e <= m
    /\ \A j \in e + 1..m : t[j] \in Blank

LEMMA BoundaryFacts ==
    ASSUME NEW t \in Texts, NEW i \in Boundaries(t)
    PROVE  Sentence(t, SegmentEnd(t, i), MatchEnd(t, i))
  <1>1. Len(t) \in Nat /\ i \in 1..Len(t) /\ BoundaryAt(t, i)
    BY DEF Texts, Boundaries
  <1>2. i + 1 \in 1..Len(t) + 1 /\ i \in 1..Len(t) + 1 /\ i + 1 - 1 = i /\ i \in Nat
    BY <1>1
  <1>3. CASE t[i] = Stop
    <2> DEFINE m == RunEnd(t, i + 1, Blank)
    <2>1. SegmentEnd(t, i) = i /\ MatchEnd(t, i) = m
      BY <1>3 DEF SegmentEnd, MatchEnd, Stop, CjkStop, Newline
    <2>2. m = RunEnd(t, i + 1, Blank)
      OBVIOUS
    <2> HIDE DEF m
    <2>3. m \in i + 1 - 1..Len(t) /\ \A k \in i + 1..m : t[k] \in Blank
      BY <1>2, <2>2, RunEndFacts
    <2>4. i \in 0..Len(t) /\ m \in 1..Len(t) /\ i <= m
      BY <1>1, <1>2, <2>3
    <2> QED BY <2>1, <2>3, <2>4 DEF Sentence
  <1>4. CASE t[i] = CjkStop
    <2>1. SegmentEnd(t, i) = i /\ MatchEnd(t, i) = i
      BY <1>4 DEF SegmentEnd, MatchEnd, Stop, CjkStop, Newline
    <2>2. i \in 0..Len(t) /\ i <= i /\ i + 1..i = {}
      BY <1>1
    <2> QED BY <1>1, <2>1, <2>2 DEF Sentence
  <1>5. CASE t[i] = Newline
    <2> DEFINE m == RunEnd(t, i, {Newline})
    <2>1. SegmentEnd(t, i) = i - 1 /\ MatchEnd(t, i) = m
      BY <1>5 DEF SegmentEnd, MatchEnd, Stop, CjkStop, Newline
    <2>2. m = RunEnd(t, i, {Newline})
      OBVIOUS
    <2> HIDE DEF m
    <2>3. /\ m \in i - 1..Len(t) /\ \A k \in i..m : t[k] \in {Newline}
          /\ i <= Len(t) /\ t[i] \in {Newline} => i <= m
      BY <1>2, <2>2, RunEndFacts
    <2>4. i <= m
      BY <1>1, <1>5, <2>3
    <2>5. i - 1 \in 0..Len(t) /\ m \in 1..Len(t) /\ i - 1 <= m /\ i - 1 + 1 = i
      BY <1>1, <2>3, <2>4
    <2>6. \A k \in i..m : t[k] \in Blank
      BY <2>3 DEF Blank
    <2> QED BY <2>1, <2>5, <2>6 DEF Sentence
  <1> QED BY <1>1, <1>3, <1>4, <1>5 DEF BoundaryAt

LEMMA TakenTwice ==
    ASSUME NEW t \in Texts, NEW m \in 0..Len(t), NEW e \in 0..m
    PROVE  Taken(Taken(t, m), e) = Taken(t, e)
  <1> DEFINE u == Taken(t, m)
             v == Taken(u, e)
             w == Taken(t, e)
  <1>1. u \in Texts /\ Len(u) = m /\ \A n \in 1..m : u[n] = t[n]
    BY TakenFacts
  <1>2. Len(t) \in Nat /\ e \in 0..Len(t) /\ \A n \in 1..e : n \in 1..m
    BY DEF Texts
  <1>3. w \in Texts /\ Len(w) = e /\ \A n \in 1..e : w[n] = t[n]
    BY <1>2, TakenFacts
  <1> HIDE DEF u, w
  <1>4. e \in 0..Len(u)
    BY <1>1
  <1>5. v \in Texts /\ Len(v) = e /\ \A n \in 1..e : v[n] = u[n]
    BY <1>1, <1>4, TakenFacts
  <1> HIDE DEF v
  <1>6. \A n \in 1..Len(v) : v[n] = w[n]
    BY <1>1, <1>2, <1>3, <1>5
  <1>7. v = w
    BY <1>3, <1>5, <1>6, SeqEqual DEF Texts
  <1> QED BY <1>7 DEF u, v, w

\* The sentence and the text behind its match are all there is to see.
LEMMA SentenceVisible ==
    ASSUME NEW t \in Texts, NEW e, NEW m, Sentence(t, e, m)
    PROVE  Visible(t) = Visible(Taken(t, e)) \o Visible(Rest(t, m))
  <1> DEFINE u == Taken(t, m)
  <1>1. Len(t) \in Nat /\ m \in 0..Len(t) /\ e \in 0..m
    BY DEF Sentence, Texts
  <1>2. u \in Texts /\ Len(u) = m /\ \A n \in 1..m : u[n] = t[n]
    BY <1>1, TakenFacts
  <1>3. Visible(t) = Visible(u) \o Visible(Rest(t, m))
    BY <1>1, VisibleSplit
  <1>4. Taken(u, e) = Taken(t, e)
    BY <1>1, TakenTwice
  <1> HIDE DEF u
  <1>5. \A n \in e + 1..m : n \in 1..m
    BY <1>1
  <1>6. e \in 0..Len(u) /\ \A n \in e + 1..Len(u) : u[n] \in Blank
    BY <1>1, <1>2, <1>5 DEF Sentence
  <1>7. Visible(u) = Visible(Taken(u, e))
    BY <1>2, <1>6, VisibleDrop
  <1> QED BY <1>3, <1>4, <1>7

CutState == [segments : TextLists, buffer : Texts]

\* All a cut has of its text, said and still to be said.
Said(cut) == Spoken(cut.segments) \o Visible(cut.buffer)

\* Segments with a text and without blanks at their ends.
Neat(list) == \A i \in 1..Len(list) : list[i] = Strip(list[i]) /\ list[i] /= <<>>

LEMMA EmitFacts ==
    ASSUME NEW cut \in CutState, NEW x \in Texts, NEW rest \in Texts,
           Visible(cut.buffer) = Visible(x) \o Visible(rest), Neat(cut.segments),
           NEW r, r = Emit(cut, Strip(x), rest)
    PROVE  r \in CutState /\ r.buffer = rest /\ Said(r) = Said(cut) /\ Neat(r.segments)
  <1> DEFINE c == Strip(x)
             old == cut.segments
             new == IF c = <<>> THEN old ELSE Append(old, c)
  <1>1. old \in TextLists /\ cut.buffer \in Texts
    BY DEF CutState
  <1>2. /\ c \in Texts /\ Visible(c) = Visible(x) /\ (c = <<>> \/ Strip(c) = c)
        /\ c = <<>> => Visible(x) = <<>>
    BY StripFacts
  <1>3. r = [segments |-> new, buffer |-> rest]
    BY DEF Emit
  <1>4. Spoken(old) \in Texts /\ Visible(x) \in Texts /\ Visible(rest) \in Texts
    BY <1>1, SpokenIsText, VisibleIsText
  <1> HIDE DEF c, old
  <1>5. new \in TextLists /\ Spoken(new) = Spoken(old) \o Visible(x) /\ Neat(new)
    <2>1. CASE c = <<>>
      <3>1. Spoken(old) \o <<>> = Spoken(old)
        BY <1>4, TextConcat
      <3> QED BY <1>1, <1>2, <2>1, <3>1 DEF old
    <2>2. CASE c /= <<>>
      <3>1. new = Append(old, c)
        BY <2>2
      <3>2. Append(old, c) \in TextLists /\ Spoken(Append(old, c)) = Spoken(old) \o Visible(c)
        BY <1>1, <1>2, SpokenAppend
      <3>3. /\ Len(old) \in Nat /\ Len(Append(old, c)) = Len(old) + 1
            /\ \A i \in 1..Len(old) : Append(old, c)[i] = old[i]
            /\ Append(old, c)[Len(old) + 1] = c
        BY <1>1, <1>2 DEF TextLists
      <3> HIDE DEF new
      <3>4. Neat(new)
        <4>1. \A i \in 1..Len(new) : i \in 1..Len(old) \/ i = Len(old) + 1
          BY <3>1, <3>3
        <4>2. \A i \in 1..Len(old) : old[i] = Strip(old[i]) /\ old[i] /= <<>>
          BY DEF Neat, old
        <4>3. ASSUME NEW i \in 1..Len(new) PROVE new[i] = Strip(new[i]) /\ new[i] /= <<>>
          <5>1. CASE i \in 1..Len(old)
            BY <3>1, <3>3, <4>2, <5>1
          <5>2. CASE i = Len(old) + 1
            BY <1>2, <2>2, <3>1, <3>3, <5>2
          <5> QED BY <4>1, <5>1, <5>2
        <4> QED BY <4>3 DEF Neat
      <3> QED BY <1>2, <3>1, <3>2, <3>4
    <2> QED BY <2>1, <2>2
  <1> HIDE DEF new
  <1>6. r \in CutState /\ r.buffer = rest /\ r.segments = new
    BY <1>3, <1>5 DEF CutState
  <1>7. (Spoken(old) \o Visible(x)) \o Visible(rest) = Spoken(old) \o (Visible(x) \o Visible(rest))
    <2>1. \A a, b, d \in Texts : (a \o b) \o d = a \o (b \o d)
      BY TextConcat
    <2> QED BY <1>4, <2>1, Zenon
  <1>8. Said(r) = Spoken(new) \o Visible(rest) /\ Said(cut) = Spoken(old) \o (Visible(x) \o Visible(rest))
    BY <1>6 DEF Said, old
  <1> QED BY <1>5, <1>6, <1>7, <1>8

\* The buffer has nothing more to emit.
Quiet(t) == Boundaries(t) = {} /\ Len(t) < MaxSegmentChars

LEMMA SafeCutFacts ==
    ASSUME NEW t \in Texts, Len(t) >= MaxSegmentChars
    PROVE  SafeCut(t) \in 1..Len(t)
  <1> DEFINE spaces == {i \in 1..(MaxSegmentChars + 1) : i \in DOMAIN t /\ t[i] = Space}
  <1>1. Len(t) \in Nat /\ DOMAIN t = 1..Len(t) /\ MaxSegmentChars \in Nat /\ MaxSegmentChars >= 2
    BY MaxSegmentCharsAssumption DEF Texts
  <1>2. MaxSegmentChars \div 2 \in Nat /\ MaxSegmentChars \div 2 >= 1
    BY <1>1
  <1>3. CASE spaces /= {} /\ Max(spaces) - 1 >= MaxSegmentChars \div 2
    <2>1. spaces \subseteq 0..Len(t)
      BY <1>1
    <2>2. SafeCut(t) = Max(spaces) - 1
      BY <1>3 DEF SafeCut
    <2> HIDE DEF spaces
    <2>3. Max(spaces) \in 0..Len(t)
      BY <1>1, <1>3, <2>1, MaxOf
    <2> QED BY <1>1, <1>2, <1>3, <2>2, <2>3
  <1>4. CASE ~(spaces /= {} /\ Max(spaces) - 1 >= MaxSegmentChars \div 2)
    <2>1. SafeCut(t) = MaxSegmentChars
      BY <1>4 DEF SafeCut
    <2> QED BY <1>1, <2>1
  <1> QED BY <1>3, <1>4

\* A round keeps what there is to say, and takes a character at least until it is quiet.
Progress(r, cut) ==
    /\ r \in CutState /\ Said(r) = Said(cut) /\ Neat(r.segments)
    /\ IF Quiet(cut.buffer) THEN r = cut ELSE Len(r.buffer) < Len(cut.buffer)

LEMMA CutOnceFacts ==
    ASSUME NEW cut \in CutState, Neat(cut.segments), NEW r, r = CutOnce(cut)
    PROVE  Progress(r, cut)
  <1> DEFINE t == cut.buffer
  <1>1. t \in Texts /\ Len(t) \in Nat
    BY DEF CutState, Texts
  <1>2. CASE Boundaries(t) /= {}
    <2> DEFINE i == Min(Boundaries(t))
               e == SegmentEnd(t, i)
               m == MatchEnd(t, i)
    <2>1. r = Emit(cut, Strip(Taken(t, e)), Rest(t, m))
      BY <1>2 DEF CutOnce, CutSentence, Taken, Rest
    <2>2. i \in Boundaries(t)
      <3>1. Boundaries(t) \subseteq Nat
        BY <1>1 DEF Boundaries, Texts
      <3> QED BY <1>2, <3>1, MinOf
    <2>3. Sentence(t, e, m)
      BY <1>1, <2>2, BoundaryFacts
    <2> HIDE DEF i, e, m, t
    <2>4. e \in 0..Len(t) /\ m \in 0..Len(t) /\ m >= 1
      BY <1>1, <2>3 DEF Sentence
    <2>5. Taken(t, e) \in Texts /\ Rest(t, m) \in Texts /\ Len(Rest(t, m)) = Len(t) - m
      BY <1>1, <2>4, TakenFacts, RestFacts
    <2>6. Visible(t) = Visible(Taken(t, e)) \o Visible(Rest(t, m))
      BY <1>1, <2>3, SentenceVisible
    <2>7. r \in CutState /\ r.buffer = Rest(t, m) /\ Said(r) = Said(cut) /\ Neat(r.segments)
      BY <2>1, <2>5, <2>6, EmitFacts DEF t
    <2>8. Len(r.buffer) < Len(t)
      BY <1>1, <2>4, <2>5, <2>7
    <2>9. ~Quiet(t)
      BY <1>2 DEF Quiet, t
    <2> QED BY <2>7, <2>8, <2>9 DEF Progress, t
  <1>3. CASE Boundaries(t) = {} /\ Len(t) >= MaxSegmentChars
    <2> DEFINE k == SafeCut(t)
               rest == StripLeft(Rest(t, k))
    <2>1. r = Emit(cut, Strip(Taken(t, k)), rest)
      BY <1>3 DEF CutOnce, CutLength, Taken, Rest
    <2>2. k \in 1..Len(t)
      BY <1>1, <1>3, SafeCutFacts
    <2> HIDE DEF k, t
    <2>3. k \in 0..Len(t) /\ k >= 1
      BY <1>1, <2>2
    <2>4. Taken(t, k) \in Texts /\ Rest(t, k) \in Texts /\ Len(Rest(t, k)) = Len(t) - k
      BY <1>1, <2>3, TakenFacts, RestFacts
    <2>5. /\ rest \in Texts /\ Len(rest) \in Nat /\ Len(rest) <= Len(Rest(t, k))
          /\ Visible(rest) = Visible(Rest(t, k))
      BY <2>4, StripLeftFacts
    <2> HIDE DEF rest
    <2>6. Visible(t) = Visible(Taken(t, k)) \o Visible(rest)
      BY <1>1, <2>3, <2>5, VisibleSplit
    <2>7. r \in CutState /\ r.buffer = rest /\ Said(r) = Said(cut) /\ Neat(r.segments)
      BY <2>1, <2>4, <2>5, <2>6, EmitFacts DEF t
    <2>8. Len(r.buffer) < Len(t)
      BY <1>1, <2>3, <2>4, <2>5, <2>7
    <2>9. ~Quiet(t)
      <3>1. Len(t) >= MaxSegmentChars
        BY <1>3 DEF t
      <3> QED BY <1>1, <3>1, MaxSegmentCharsAssumption DEF Quiet
    <2> QED BY <2>7, <2>8, <2>9 DEF Progress, t
  <1>4. CASE Boundaries(t) = {} /\ ~(Len(t) >= MaxSegmentChars)
    <2>1. r = cut
      BY <1>4 DEF CutOnce
    <2>2. Quiet(t)
      BY <1>1, <1>4, MaxSegmentCharsAssumption DEF Quiet
    <2> QED BY <2>1, <2>2 DEF Progress
  <1> QED BY <1>2, <1>3, <1>4

-----------------------------------------------------------------------------
(* push and finish                                                           *)

NeatCuts == {cut \in CutState : Neat(cut.segments)}

Cutting(cut, text) ==
    /\ Cut(text) = cut[Len(text)] /\ cut[0] = [segments |-> <<>>, buffer |-> text]
    /\ \A n \in 1..Len(text) : cut[n] = CutOnce(cut[n - 1])

LEMMA NothingCut ==
    ASSUME NEW text \in Texts, NEW c, c = [segments |-> <<>>, buffer |-> text]
    PROVE  c \in NeatCuts /\ c.buffer = text /\ Said(c) = Visible(text)
  <1> DEFINE none == <<>>
  <1>1. none \in TextLists /\ Len(none) = 0 /\ Spoken(none) = <<>>
    BY EmptySeq, SpokenNone DEF TextLists
  <1>2. c.segments = none /\ c.buffer = text /\ c = [segments |-> none, buffer |-> text]
    OBVIOUS
  <1> HIDE DEF none
  <1>3. Neat(none)
    BY <1>1 DEF Neat
  <1>4. c \in CutState
    BY <1>1, <1>2 DEF CutState
  <1>5. Said(c) = <<>> \o Visible(text)
    BY <1>1, <1>2 DEF Said
  <1>6. Said(c) = Visible(text)
    BY <1>5, VisibleIsText, TextConcat
  <1> QED BY <1>2, <1>3, <1>4, <1>6 DEF NeatCuts

LEMMA CutRecursion ==
    ASSUME NEW text \in Texts
    PROVE  \E cut : Cutting(cut, text)
  <1> DEFINE N == Len(text)
             first == [segments |-> <<>>, buffer |-> text]
             Recursive(f) == f = [n \in 0..N |-> IF n = 0 THEN first ELSE CutOnce(f[n - 1])]
             cut == CHOOSE f : Recursive(f)
             step == [n \in 1..N |-> [x \in NeatCuts |-> CutOnce(x)]]
  <1>1. N \in Nat /\ N \in NaturalNumbers
    BY LenProperties DEF NaturalNumbers, Texts
  <1>2. Cut(text) = cut[N]
    BY DEF Cut
  <1>3. first \in NeatCuts
    <2>1. first = [segments |-> <<>>, buffer |-> text]
      OBVIOUS
    <2> HIDE DEF first
    <2> QED BY <2>1, NothingCut
  <1>4. step \in StepFunctions(N, NeatCuts)
    <2>1. ASSUME NEW x \in NeatCuts, NEW y, y = CutOnce(x) PROVE y \in NeatCuts
      <3>1. Progress(y, x)
        BY <2>1, CutOnceFacts DEF NeatCuts
      <3> QED BY <3>1 DEF Progress, NeatCuts
    <2>2. \A x \in NeatCuts : CutOnce(x) \in NeatCuts
      BY <2>1
    <2> QED BY <2>2 DEF StepFunctions
  <1>5. \A n \in 1..N, x \in NeatCuts : step[n][x] = CutOnce(x)
    OBVIOUS
  <1> HIDE DEF step, first, N
  <1>6. PICK f : f \in Iterations(N, NeatCuts, first, step)
    BY <1>1, <1>3, <1>4, Iteration
  <1>7. Recursive(f)
    <2>1. \A n \in 0..N : f[n] = IF n = 0 THEN first ELSE CutOnce(f[n - 1])
      BY <1>1, <1>5, <1>6 DEF Iterations
    <2>2. f \in [0..N -> NeatCuts]
      BY <1>6 DEF Iterations
    <2> QED BY <2>1, <2>2
  <1>8. Recursive(cut)
    BY <1>7
  <1> HIDE DEF cut
  <1>9. \A n \in 0..N : cut[n] = IF n = 0 THEN first ELSE CutOnce(cut[n - 1])
    BY <1>8, Zenon
  <1>10. cut[0] = first /\ \A n \in 1..N : cut[n] = CutOnce(cut[n - 1])
    BY <1>1, <1>9
  <1>11. Cutting(cut, text)
    BY <1>2, <1>10 DEF N, first, Cutting
  <1> QED BY <1>11

\* push loses, repeats and reorders nothing, and stops when there is nothing more to emit.
LEMMA CutFacts ==
    ASSUME NEW text \in Texts, NEW r, r = Cut(text)
    PROVE  r \in NeatCuts /\ Said(r) = Visible(text) /\ Quiet(r.buffer)
  <1> DEFINE N == Len(text)
  <1>1. N \in Nat
    BY LenProperties DEF Texts
  <1>2. PICK cut : Cutting(cut, text)
    BY CutRecursion
  <1>3. /\ r = cut[N] /\ cut[0] = [segments |-> <<>>, buffer |-> text]
        /\ \A n \in 1..N : cut[n] = CutOnce(cut[n - 1])
    BY <1>2 DEF Cutting
  <1> DEFINE Good(c, n) == /\ c \in NeatCuts /\ Said(c) = Visible(text)
                           /\ Quiet(c.buffer) \/ Len(c.buffer) <= N - n
             G == {n \in 0..N : Good(cut[n], n)}
  <1>4. 0 \in G
    <2> DEFINE c == cut[0]
    <2>1. c \in NeatCuts /\ c.buffer = text /\ Said(c) = Visible(text)
      BY <1>3, NothingCut
    <2> HIDE DEF c
    <2>2. Len(c.buffer) <= N - 0
      BY <1>1, <2>1
    <2>3. Good(c, 0) /\ 0 \in 0..N
      BY <1>1, <2>1, <2>2
    <2> QED BY <2>3 DEF c
  <1>5. ASSUME NEW n \in 1..N, n - 1 \in G PROVE n \in G
    <2> DEFINE c == cut[n - 1]
               d == cut[n]
    <2>1. Good(c, n - 1) /\ d = CutOnce(c) /\ n \in 0..N
      BY <1>1, <1>3, <1>5
    <2> HIDE DEF c, d
    <2>2. c \in CutState /\ Neat(c.segments) /\ Said(c) = Visible(text)
      BY <2>1 DEF NeatCuts
    <2>3. Progress(d, c)
      BY <2>1, <2>2, CutOnceFacts
    <2>4. d \in NeatCuts /\ Said(d) = Visible(text)
      BY <2>2, <2>3 DEF Progress, NeatCuts
    <2>5. Len(c.buffer) \in Nat /\ Len(d.buffer) \in Nat
      BY <2>2, <2>3 DEF Progress, CutState, Texts
    <2>6. Quiet(d.buffer) \/ Len(d.buffer) <= N - n
      <3>1. CASE Quiet(c.buffer)
        BY <2>3, <3>1 DEF Progress
      <3>2. CASE ~Quiet(c.buffer)
        <4>1. Len(d.buffer) < Len(c.buffer) /\ Len(c.buffer) <= N - (n - 1)
          BY <2>1, <2>3, <3>2 DEF Progress
        <4> QED BY <1>1, <2>5, <4>1
      <3> QED BY <3>1, <3>2
    <2>7. Good(d, n)
      BY <2>4, <2>6
    <2> QED BY <2>1, <2>7 DEF d
  <1> HIDE DEF G
  <1>6. \A n \in 0..N : n \in G
    BY <1>1, <1>4, <1>5, UpToInduction
  <1>7. Good(r, N)
    BY <1>1, <1>3, <1>6 DEF G
  <1>8. ASSUME Len(r.buffer) <= N - N PROVE Quiet(r.buffer)
    <2>1. r.buffer \in Texts
      BY <1>7 DEF NeatCuts, CutState
    <2>2. Len(r.buffer) = 0 /\ DOMAIN r.buffer = 1..Len(r.buffer)
      BY <1>1, <1>8, <2>1 DEF Texts
    <2>3. DOMAIN r.buffer = {}
      BY <2>2
    <2> QED BY <2>2, <2>3, MaxSegmentCharsAssumption DEF Quiet, Boundaries
  <1> QED BY <1>7, <1>8

\* What finish() emits is what the buffer shows.
LEMMA FlushFacts ==
    ASSUME NEW t \in Texts, NEW list, list = Flush(t)
    PROVE  list \in TextLists /\ Spoken(list) = Visible(t) /\ Neat(list)
  <1> DEFINE c == Strip(t)
  <1>1. /\ c \in Texts /\ Visible(c) = Visible(t) /\ (c = <<>> \/ Strip(c) = c)
        /\ c = <<>> => Visible(t) = <<>>
    BY StripFacts
  <1>2. list = IF c = <<>> THEN <<>> ELSE <<c>>
    BY DEF Flush
  <1> HIDE DEF c
  <1>3. CASE c = <<>>
    <2>1. list = <<>> /\ list \in TextLists /\ Len(list) = 0
      BY <1>2, <1>3, EmptySeq DEF TextLists
    <2>2. Spoken(list) = <<>>
      BY <2>1, SpokenNone
    <2> QED BY <1>1, <1>3, <2>1, <2>2 DEF Neat
  <1>4. CASE c /= <<>>
    <2>1. list \in TextLists /\ Len(list) = 1 /\ list[1] = c
      BY <1>1, <1>2, <1>4 DEF TextLists
    <2>2. Spoken(list) = Visible(c)
      BY <2>1, SpokenOne
    <2>3. \A i \in 1..1 : i = 1
      OBVIOUS
    <2> QED BY <1>1, <1>4, <2>1, <2>2, <2>3 DEF Neat
  <1> QED BY <1>3, <1>4

LEMMA NeatConcat ==
    ASSUME NEW a \in TextLists, NEW b \in TextLists, Neat(a), Neat(b)
    PROVE  a \o b \in TextLists /\ Neat(a \o b)
  <1> DEFINE c == a \o b
  <1>1. /\ c \in TextLists /\ Len(a) \in Nat /\ Len(b) \in Nat /\ Len(c) = Len(a) + Len(b)
        /\ \A i \in 1..Len(a) : c[i] = a[i]
        /\ \A i \in 1..Len(b) : c[Len(a) + i] = b[i]
    BY DEF TextLists
  <1> HIDE DEF c
  <1>2. ASSUME NEW i \in 1..Len(c) PROVE c[i] = Strip(c[i]) /\ c[i] /= <<>>
    <2>1. CASE i \in 1..Len(a)
      BY <1>1, <2>1 DEF Neat
    <2>2. CASE i \notin 1..Len(a)
      <3>1. i - Len(a) \in 1..Len(b) /\ Len(a) + (i - Len(a)) = i
        BY <1>1, <2>2
      <3>2. c[i] = b[i - Len(a)]
        BY <1>1, <3>1
      <3> QED BY <3>1, <3>2 DEF Neat
    <2> QED BY <2>1, <2>2
  <1>3. c \in TextLists /\ Neat(c)
    BY <1>1, <1>2 DEF Neat
  <1> QED BY <1>3 DEF c

\* The text of a run: what TextTyped and TextKept say, in the terms of the lemmas.
TextInv ==
    /\ buffer \in Texts /\ streamed \in Texts /\ made \in TextLists
    /\ Spoken(made) \o Visible(buffer) = Visible(streamed)
    /\ Neat(made) /\ Quiet(buffer)

LEMMA TextInvMeans == TextInv => TextTyped /\ TextKept
  <1> SUFFICES ASSUME TextInv PROVE TextTyped /\ TextKept
    OBVIOUS
  <1>1. TextTyped
    BY DEF TextInv, TextTyped, Texts, TextLists
  <1>2. DOMAIN made = 1..Len(made)
    BY DEF TextInv, TextLists
  <1>3. \A i \in DOMAIN made : made[i] = Strip(made[i]) /\ made[i] /= <<>>
    BY <1>2 DEF TextInv, Neat
  <1> QED BY <1>1, <1>3 DEF TextInv, TextKept, CutsFaithfully, Quiet

LEMMA EmptyText ==
    ASSUME NEW none, none = <<>>
    PROVE  none \in Texts /\ none \in TextLists /\ Visible(none) = none /\ Spoken(none) = none
           /\ Neat(none) /\ Quiet(none) /\ none \o none = none
  <1>1. none \in Texts /\ none \in TextLists /\ Len(none) = 0 /\ DOMAIN none = {}
    BY EmptySeq DEF Texts, TextLists
  <1>2. 1..Len(none) = {}
    BY <1>1
  <1>3. Visible(none) = none
    BY <1>1, <1>2, VisibleBlank
  <1>4. Neat(none)
    BY <1>2 DEF Neat
  <1>5. Quiet(none)
    BY <1>1, MaxSegmentCharsAssumption DEF Quiet, Boundaries
  <1>6. none \o none = none
    BY <1>1, TextConcat
  <1> QED BY <1>1, <1>3, <1>4, <1>5, <1>6, SpokenNone

LEMMA InitText == Init => TextInv
  <1> SUFFICES ASSUME Init PROVE TextInv
    OBVIOUS
  <1>1. streamed = <<>> /\ buffer = <<>> /\ made = <<>>
    BY DEF Init
  <1> QED BY <1>1, EmptyText DEF TextInv

LEMMA DeltaKeepsText ==
    ASSUME TextInv, NEW delta \in Deltas, ModelDelta(delta)
    PROVE  TextInv'
  <1> DEFINE r == Push(buffer, delta)
             old == made
             new == made \o r.segments
  <1>1. /\ buffer \in Texts /\ streamed \in Texts /\ made \in TextLists /\ Neat(made)
        /\ Spoken(made) \o Visible(buffer) = Visible(streamed) /\ delta \in Texts
    BY DeltaAssumption DEF TextInv, Texts
  <1>2. buffer \o delta \in Texts /\ streamed \o delta \in Texts
    BY <1>1, TextConcat
  <1>3. streamed' = streamed \o delta /\ buffer' = r.buffer /\ made' = made \o r.segments
    BY DEF ModelDelta
  <1>4. r = Cut(buffer \o delta)
    BY DEF Push
  <1> HIDE DEF r
  <1>5. r \in NeatCuts /\ Said(r) = Visible(buffer \o delta) /\ Quiet(r.buffer)
    BY <1>2, <1>4, CutFacts
  <1>6. r.segments \in TextLists /\ r.buffer \in Texts /\ Neat(r.segments)
    BY <1>5 DEF NeatCuts, CutState
  <1>7. made' \in TextLists /\ Neat(made')
    BY <1>1, <1>3, <1>6, NeatConcat
  <1> DEFINE p == Spoken(made)
             q == Spoken(r.segments)
             s == Visible(r.buffer)
             u == Visible(buffer)
             v == Visible(delta)
  <1>8. p \in Texts /\ q \in Texts /\ s \in Texts /\ u \in Texts /\ v \in Texts
    BY <1>1, <1>6, SpokenIsText, VisibleIsText
  <1>9. Spoken(made') = p \o q /\ Visible(buffer') = s
    BY <1>1, <1>3, <1>6, SpokenConcat
  <1>10. q \o s = u \o v
    BY <1>1, <1>5, VisibleConcat DEF Said
  <1>11. Visible(streamed') = (p \o u) \o v
    BY <1>1, <1>3, VisibleConcat
  <1> HIDE DEF p, q, s, u, v
  <1>12. (p \o q) \o s = (p \o u) \o v
    <2>1. \A a, b, d \in Texts : (a \o b) \o d = a \o (b \o d)
      BY TextConcat
    <2>2. (p \o q) \o s = p \o (q \o s)
      BY <1>8, <2>1, Zenon
    <2>3. (p \o u) \o v = p \o (u \o v)
      BY <1>8, <2>1, Zenon
    <2> QED BY <1>10, <2>2, <2>3, Zenon
  <1>13. Spoken(made') \o Visible(buffer') = Visible(streamed')
    BY <1>9, <1>11, <1>12, Zenon
  <1>14. buffer' \in Texts /\ streamed' \in Texts /\ Quiet(buffer')
    BY <1>2, <1>3, <1>5, <1>6
  <1> QED BY <1>7, <1>13, <1>14 DEF TextInv, Neat, Quiet

LEMMA EndKeepsText ==
    ASSUME TextInv, ModelEnds
    PROVE  TextInv'
  <1> DEFINE list == Flush(buffer)
             none == <<>>
  <1>1. /\ buffer \in Texts /\ streamed \in Texts /\ made \in TextLists /\ Neat(made)
        /\ Spoken(made) \o Visible(buffer) = Visible(streamed)
    BY DEF TextInv
  <1>2. streamed' = streamed /\ buffer' = none /\ made' = made \o list
    BY DEF ModelEnds
  <1>3. none \in Texts /\ Visible(none) = none /\ Quiet(none)
    BY EmptyText
  <1>4. list \in TextLists /\ Spoken(list) = Visible(buffer) /\ Neat(list)
    BY <1>1, FlushFacts
  <1> HIDE DEF list
  <1>5. made' \in TextLists /\ Neat(made')
    BY <1>1, <1>2, <1>4, NeatConcat
  <1>6. Spoken(made') = Spoken(made) \o Visible(buffer)
    BY <1>1, <1>2, <1>4, SpokenConcat
  <1>7. Visible(streamed) \in Texts
    BY <1>1, VisibleIsText
  <1>8. Visible(streamed) \o none = Visible(streamed)
    BY <1>7, TextConcat
  <1> HIDE DEF none
  <1>9. Spoken(made') \o Visible(buffer') = Visible(streamed')
    BY <1>1, <1>2, <1>3, <1>6, <1>8, Zenon
  <1>10. buffer' \in Texts /\ streamed' \in Texts /\ Quiet(buffer')
    BY <1>1, <1>2, <1>3
  <1> QED BY <1>5, <1>9, <1>10 DEF TextInv, Neat, Quiet

LEMMA NextKeepsText == TextInv /\ [Next]_vars => TextInv'
  <1> SUFFICES ASSUME TextInv, [Next]_vars PROVE TextInv'
    OBVIOUS
  <1>1. CASE UNCHANGED assemblerVars
    BY <1>1 DEF TextInv, assemblerVars, Neat, Quiet
  <1>2. CASE \E delta \in Deltas : ModelDelta(delta)
    BY <1>2, DeltaKeepsText
  <1>3. CASE ModelEnds
    BY <1>3, EndKeepsText
  <1>4. CASE ModelFails \/ ProducerPuts \/ Dispatch \/ \E s \in SegmentIds : Synthesize(s)
    BY <1>1, <1>4
    DEF ModelFails, ProducerPuts, Dispatch, DispatcherGets, DispatcherAcquires, DispatcherPuts,
        Synthesize, SpeechChunk, SpeechEnds, SpeechFails, SpeechPuts, speechUnchanged
  <1>5. CASE Publish \/ RunClosed
    BY <1>1, <1>5
    DEF Publish, RunClosed, RunTakesOutput, RunTakesAudio, RunWaitCancelled, RunRaises,
        RunYieldsSegment, RunYieldsAudio, RunNextSegment, RunJoins, RunYieldsCompletion, RunReturns,
        EndsWith, Yields, TakesNothing, tasks
  <1>6. CASE Supersede \/ Finished \/ UNCHANGED vars
    BY <1>1, <1>6 DEF Supersede, Finished, vars
  <1> QED BY <1>2, <1>3, <1>4, <1>5, <1>6 DEF Next, Work, Produce

LEMMA TextInvariance == Spec => []TextInv
  BY InitText, NextKeepsText, PTL DEF Spec

\* assembler.py loses, repeats and reorders nothing a listener could hear, for every
\* max_segment_chars and whatever texts the model's deltas are: sentence ends inside a delta
\* or between two, runs of blanks, text without any boundary. Every segment has a text, and
\* the buffer never keeps a complete sentence or a full segment.
THEOREM TextAlwaysKept == Spec => []TextKept
  BY TextInvMeans, TextInvariance, PTL

\* The state of a run of pipeline.py is well typed and its queues are within their bounds.
THEOREM PipelineTypes == Spec => []TypeOK
  <1>1. TextTyped /\ TasksTyped => TypeOK
    BY DEF TypeOK
  <1> QED BY <1>1, TextInvMeans, TextInvariance, QueuesWithinCapacity, PTL
=============================================================================
